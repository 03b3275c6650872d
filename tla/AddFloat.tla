----------------------------- MODULE AddFloat -----------------------------
(***************************************************************************)
(* key_value_pairs::add(key, value) for a floating-point value: the key is *)
(* checked, then format_float() prints the value with more and more digits *)
(* until strtod reads it back.                                             *)
(***************************************************************************)
EXTENDS FloatText, Identifier

CONSTANTS
  Points,   \* decimal points that LC_NUMERIC may have, at any time
  MaxKey    \* bound: characters of a key

ASSUME KeyAssumption == MaxKey \in Nat

VARIABLES
  key, value,
  pc,          \* "check", "loop", "added" or "threw"
  precision,   \* of the loop
  candidate    \* the text printed last, 0 before

vars == <<key, value, pc, precision, candidate>>

-----------------------------------------------------------------------------

Init ==
  /\ key \in UNION {[1 .. n -> Chars] : n \in 0 .. MaxKey}
  /\ value = 0 /\ pc = "check" /\ precision = 1 /\ candidate = 0

\* throw_on_invalid_identifier()
Throw ==
  /\ pc = "check" /\ ~valid_identifier(key)
  /\ pc' = "threw"
  /\ UNCHANGED <<key, value, precision, candidate>>

Accept ==
  /\ pc = "check" /\ valid_identifier(key)
  /\ value' \in Floats /\ pc' = "loop"
  /\ UNCHANGED <<key, precision, candidate>>

\* Mutant: precision < max_digits10 ends the loop one digit early.
TryOneLess(point) ==
  /\ pc = "loop"
  /\ candidate' = Printed(value, precision)
  /\ IF Nearest(Strtod(candidate', precision, point), value) \/ precision = max_digits10 - 1
     THEN pc' = "added" /\ UNCHANGED precision
     ELSE pc' = "loop" /\ precision' = precision + 1
  /\ UNCHANGED <<key, value>>

\* One turn of the loop; after the last one its text is returned as it is.
Try(point) ==
  /\ pc = "loop"
  /\ candidate' = Printed(value, precision)
  /\ IF Nearest(Strtod(candidate', precision, point), value) \/ precision = max_digits10
     THEN pc' = "added" /\ UNCHANGED precision
     ELSE pc' = "loop" /\ precision' = precision + 1
  /\ UNCHANGED <<key, value>>

Next == Throw \/ Accept \/ \E point \in Points : Try(point)

Spec == Init /\ [][Next]_vars

-----------------------------------------------------------------------------
(* Properties *)

\* valid_identifier(): what is accepted is one word or one quoted name, never
\* less or more than the text, and all of these are accepted but those with an
\* escaped newline.
AcceptsOneName ==
  pc = "check" =>
    (valid_identifier(key) <=>
       \/ OneWord(key)
       \/ /\ OneQuotedName(key)
          /\ \A j \in DOMAIN key : key[j] = Newline => ~Escaped(key, j))

\* format_float(): a server that reads the text gets the value, whatever decimal
\* point strtod expected in each turn.
ReadsBack == pc = "added" => Nearest(candidate, value)

\* format_float(): no decimal with fewer digits reads back as the value.
Shortest ==
  pc = "added" =>
    \A s \in 1 .. 10 ^ max_digits10 - 1, e \in 0 .. 6 :
      Nearest(s * 10 ^ e, value) =>
        SignificantDigits(candidate) <= SignificantDigits(s * 10 ^ e)

=============================================================================
