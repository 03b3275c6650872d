----------------------------- MODULE FloatText -----------------------------
(***************************************************************************)
(* Binary floating-point numbers and the decimal texts of the C++ library. *)
(*                                                                         *)
(* A number is v * 2^-Fraction with a significand of Precision bits.  A    *)
(* text is the decimal d * 10^-Fraction that it says; d is exact, since    *)
(* v * 2^-Fraction = v * 5^Fraction * 10^-Fraction.  Signs, zero,          *)
(* infinities and nan are left out.                                        *)
(***************************************************************************)
EXTENDS Integers, FiniteSets

CONSTANTS
  Precision,     \* bits of a significand
  Fraction,      \* the exponent of the smallest number is -Fraction
  Binades,       \* bound: powers of two above the denormal numbers
  SmallExponent  \* decimal exponents from -SmallExponent on are not printed: 4

ASSUME FloatAssumption ==
  /\ Precision \in Nat \ {0} /\ Fraction \in Nat /\ Binades \in Nat
  /\ SmallExponent \in Nat

-----------------------------------------------------------------------------

\* b ^ n, as a recursion that proofs can unfold.
Power(b, n) ==
  LET power[i \in 0 .. n] == IF i = 0 THEN 1 ELSE b * power[i - 1]
  IN power[n]

Floats ==
  (1 .. Power(2, Precision) - 1)
    \cup {s * Power(2, e) :
            s \in Power(2, Precision - 1) .. Power(2, Precision) - 1, e \in 1 .. Binades}

\* The distance from v to the next number above.
Ulp(v) ==
  Power(2, Cardinality({e \in 1 .. Binades : v >= Power(2, Precision + e - 1)}))

Exact(v) == v * Power(5, Fraction)

\* Is v the number nearest to the decimal d?  Ties go to the even significand.
\* Below a power of two the numbers lie twice as close as above it.
Nearest(d, v) ==
  LET twice == 2 * (d - Exact(v))
      even == (v \div Ulp(v)) % 2 = 0
  IN /\ twice < Exact(Ulp(v)) \/ (even /\ twice = Exact(Ulp(v)))
     /\ -twice < Exact(Ulp(v - 1)) \/ (even /\ -twice = Exact(Ulp(v - 1)))

\* std::numeric_limits<T>::max_digits10
max_digits10 == CHOOSE k \in 1 .. Precision + 1 :
  /\ Power(10, k - 1) > Power(2, Precision)
  /\ \A j \in 1 .. k - 1 : Power(10, j - 1) <= Power(2, Precision)

\* The number of digits of d; those of a printed number are not more than this.
Magnitude(d) == CHOOSE n \in 1 .. Precision + Binades + Fraction + 1 :
  Power(10, n - 1) <= d /\ d < Power(10, n)

\* The digits of a text, without the zeros at its end.
SignificantDigits(d) ==
  Magnitude(d) - Cardinality({i \in 1 .. Magnitude(d) - 1 : d % Power(10, i) = 0})

RoundHalfEven(d, unit) ==
  LET q == d \div unit
      r == d % unit
  IN IF 2 * r > unit \/ (2 * r = unit /\ q % 2 = 1) THEN (q + 1) * unit ELSE q * unit

\* out << std::setprecision(digits) << value, in the classic locale
Printed(v, digits) ==
  LET d == Exact(v)
  IN IF Magnitude(d) <= digits THEN d ELSE RoundHalfEven(d, Power(10, Magnitude(d) - digits))

-----------------------------------------------------------------------------
(* strtod *)

\* The text has an exponent if the number's is not below the precision, or if it
\* is a small one, as of 0.00001.
Scientific(d, digits) ==
  LET exponent == Magnitude(d) - 1 - Fraction
  IN exponent >= digits \/ exponent < -SmallExponent

HasPoint(d, digits) ==
  IF Scientific(d, digits) THEN SignificantDigits(d) > 1 ELSE d % Power(10, Fraction) # 0

\* What strtod reads of a text: when LC_NUMERIC has another decimal point, it
\* stops before the one of the text, and before its exponent.
Strtod(d, digits, point) ==
  IF point = "." \/ ~HasPoint(d, digits) THEN d
  ELSE IF Scientific(d, digits)
       THEN (d \div Power(10, Magnitude(d) - 1)) * Power(10, Fraction)
       ELSE d - (d % Power(10, Fraction))

=============================================================================
