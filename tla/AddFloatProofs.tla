--------------------------- MODULE AddFloatProofs ---------------------------
(***************************************************************************)
(* Theorems about key_value_pairs::add(): which keys it accepts, for texts *)
(* of any length, and that the values it prints read back, for             *)
(* floating-point numbers of any width.                                    *)
(***************************************************************************)
EXTENDS AddFloat, Recursion, FiniteSetTheorems

-----------------------------------------------------------------------------
(* The automaton *)

States == {"start", "word", "open", "body", "escape", "closed", "dead"}

LEMMA StepType ==
  ASSUME NEW s, NEW c
  PROVE  Step(s, c) \in States
BY DEF Step, States

\* StatesOf is what its recursive definition says.
LEMMA StatesOfText ==
  ASSUME NEW text, Len(text) \in Nat
  PROVE  /\ StatesOf(text)[0] = "start"
         /\ \A n \in 1 .. Len(text) :
              /\ StatesOf(text)[n] = Step(StatesOf(text)[n - 1], text[n])
              /\ StatesOf(text)[n] \in States
<1> DEFINE N == Len(text)
<1> DEFINE Def(f) ==
      f = [n \in 0 .. N |-> IF n = 0 THEN "start" ELSE Step(f[n - 1], text[n])]
<1> DEFINE step == [p \in States \X (1 .. N) |-> Step(p[1], text[p[2]])]
<1>1. \E f : Def(f)
  <2>1. IsStep(step, States, N)
    BY StepType DEF IsStep
  <2>2. "start" \in States
    BY DEF States
  <2>3. PICK f : Steps(f, States, "start", N, step)
    <3> HIDE DEF step
    <3> QED
      BY <2>1, <2>2, RecursionExists
  <2>4. ASSUME NEW n \in 1 .. N PROVE f[n] = Step(f[n - 1], text[n])
    <3>1. n - 1 \in 0 .. N
      OBVIOUS
    <3>2. <<f[n - 1], n>> \in States \X (1 .. N)
      BY <3>1, <2>3 DEF Steps
    <3> QED
      BY <2>3, <3>2 DEF Steps
  <2>5. \A n \in 0 .. N : f[n] = IF n = 0 THEN "start" ELSE Step(f[n - 1], text[n])
    BY <2>3, <2>4 DEF Steps
  <2>6. Def(f)
    <3> HIDE DEF step
    <3> QED
      BY <2>3, <2>5 DEF Steps
  <2> QED
    BY <2>6
<1>2. StatesOf(text) = CHOOSE f : Def(f)
  BY DEF StatesOf
<1>3. Def(StatesOf(text))
  <2> HIDE DEF Def
  <2> QED
    BY <1>1, <1>2
<1> HIDE DEF step
<1>4. ASSUME NEW n \in 1 .. N
      PROVE  StatesOf(text)[n] = Step(StatesOf(text)[n - 1], text[n])
  <2>1. n \in 0 .. N /\ n # 0
    OBVIOUS
  <2> QED
    BY <1>3, <2>1
<1> QED
  BY <1>3, <1>4, StepType

-----------------------------------------------------------------------------
(* Escapes *)

\* A character is escaped if the one before it is a backslash that is not.
LEMMA EscapedNext ==
  ASSUME NEW text, NEW j \in Nat \ {0}
  PROVE  Escaped(text, j + 1) <=> text[j] = Backslash /\ ~Escaped(text, j)
<1> DEFINE R(n) == {i \in 1 .. n - 1 : \A k \in i .. n - 1 : text[k] = Backslash}
<1>1. Escaped(text, j + 1) <=> Cardinality(R(j + 1)) % 2 = 1
  BY DEF Escaped
<1>2. Escaped(text, j) <=> Cardinality(R(j)) % 2 = 1
  BY DEF Escaped
<1>3. CASE text[j] # Backslash
  <2>1. R(j + 1) = {}
    BY <1>3
  <2> QED
    BY <1>1, <1>3, <2>1, FS_EmptySet
<1>4. CASE text[j] = Backslash
  <2>1. R(j + 1) = R(j) \cup {j}
    BY <1>4
  <2>2. j \notin R(j)
    OBVIOUS
  <2>3. IsFiniteSet(R(j)) /\ Cardinality(R(j)) \in Nat
    <3>1. R(j) \subseteq 1 .. j - 1
      OBVIOUS
    <3> HIDE DEF R
    <3>2. IsFiniteSet(1 .. j - 1)
      BY FS_Interval
    <3>3. IsFiniteSet(R(j))
      BY <3>1, <3>2, FS_Subset
    <3> QED
      BY <3>3, FS_CardinalityType
  <2> HIDE DEF R
  <2>4. Cardinality(R(j + 1)) = Cardinality(R(j)) + 1
    BY <2>1, <2>2, <2>3, FS_AddElement
  <2> QED
    BY <1>1, <1>2, <1>4, <2>3, <2>4
<1> QED
  BY <1>3, <1>4

LEMMA FirstNotEscaped ==
  ASSUME NEW text
  PROVE  ~Escaped(text, 1)
<1>1. {i \in 1 .. 1 - 1 : \A k \in i .. 1 - 1 : text[k] = Backslash} = {}
  OBVIOUS
<1> QED
  BY <1>1, FS_EmptySet DEF Escaped

-----------------------------------------------------------------------------
(* What the automaton knows of the text it has read *)

\* The first n characters open a quoted name and do not close it.
Inside(text, n) ==
  /\ text[1] = Quote
  /\ \A j \in 2 .. n : ~Closes(text, j) /\ ~(text[j] = Newline /\ Escaped(text, j))

\* The state after n characters says what they are.
Knows(text, n, state) ==
  /\ state = "word" <=> \A j \in 1 .. n : text[j] = "word"
  /\ state \in {"open", "body", "escape"} <=> Inside(text, n)
  /\ state = "open" => n = 1
  /\ state = "body" => n > 1
  /\ state = "escape" => Escaped(text, n + 1)
  /\ state \in {"open", "body"} => ~Escaped(text, n + 1)
  /\ state = "closed" <=> n > 2 /\ Inside(text, n - 1) /\ Closes(text, n)
  /\ state # "start"

LEMMA KnowsFirst ==
  ASSUME NEW text
  PROVE  Knows(text, 1, Step("start", text[1]))
<1>1. ~Escaped(text, 1) /\ ~Closes(text, 1)
  BY FirstNotEscaped DEF Closes
<1>2. Escaped(text, 1 + 1) <=> text[1] = Backslash
  BY <1>1, EscapedNext
<1>3. Inside(text, 1) <=> text[1] = Quote
  BY DEF Inside
<1>4. (\A j \in 1 .. 1 : text[j] = "word") <=> text[1] = "word"
  OBVIOUS
<1> QED
  BY <1>1, <1>2, <1>3, <1>4 DEF Knows, Step, Quote, Backslash, Newline

\* Which state follows which.
LEMMA StepCases ==
  ASSUME NEW s \in States, s # "start", NEW c
  PROVE  LET t == Step(s, c)
         IN /\ t \notin {"start", "open"}
            /\ t = "word" <=> s = "word" /\ c = "word"
            /\ t = "escape" <=> s \in {"open", "body"} /\ c = Backslash
            /\ t = "body" <=> \/ s \in {"open", "body"} /\ c # Backslash /\ c # Quote
                              \/ s = "escape" /\ c # Newline
            /\ t = "closed" <=> s = "body" /\ c = Quote
<1>1. Quote # Backslash
  BY DEF Quote, Backslash
<1>2. CASE s = "word"
  BY <1>2 DEF Step
<1>3. CASE s = "open"
  <2>1. c = Backslash => Step(s, c) = "escape"
    BY <1>1, <1>3 DEF Step
  <2>2. c \notin {Backslash, Quote} => Step(s, c) = "body"
    BY <1>3 DEF Step
  <2>3. c = Quote => Step(s, c) = "dead"
    BY <1>1, <1>3 DEF Step
  <2> QED
    BY <1>1, <1>3, <2>1, <2>2, <2>3
<1>4. CASE s = "body"
  <2>1. c = Backslash => Step(s, c) = "escape"
    BY <1>1, <1>4 DEF Step
  <2>2. c \notin {Backslash, Quote} => Step(s, c) = "body"
    BY <1>4 DEF Step
  <2>3. c = Quote => Step(s, c) = "closed"
    BY <1>1, <1>4 DEF Step
  <2> QED
    BY <1>1, <1>4, <2>1, <2>2, <2>3
<1>5. CASE s = "escape"
  BY <1>5 DEF Step
<1>6. CASE s \in {"closed", "dead"}
  BY <1>6 DEF Step
<1> QED
  BY <1>2, <1>3, <1>4, <1>5, <1>6 DEF States

LEMMA KnowsNext ==
  ASSUME NEW text, NEW n \in Nat, n > 1, NEW s \in States, Knows(text, n - 1, s)
  PROVE  Knows(text, n, Step(s, text[n]))
<1> DEFINE c == text[n]
<1> DEFINE esc == Escaped(text, n)
<1> DEFINE next == Escaped(text, n + 1)
<1>1. next <=> c = Backslash /\ ~esc
  BY EscapedNext
<1>2. Closes(text, n) <=> c = Quote /\ ~esc
  BY DEF Closes
<1>3. Inside(text, n) <=> Inside(text, n - 1) /\ ~Closes(text, n) /\ ~(c = Newline /\ esc)
  <2>1. 2 .. n = (2 .. n - 1) \cup {n}
    OBVIOUS
  <2> QED
    BY <2>1 DEF Inside
<1>4. (\A j \in 1 .. n : text[j] = "word")
        <=> (\A j \in 1 .. n - 1 : text[j] = "word") /\ c = "word"
  <2>1. 1 .. n = (1 .. n - 1) \cup {n}
    OBVIOUS
  <2> QED
    BY <2>1
<1>5. (n - 1) + 1 = n /\ n - 1 \in Nat
  OBVIOUS
<1>6. Inside(text, n - 1) => ~(\A j \in 1 .. n - 1 : text[j] = "word")
  <2>1. 1 \in 1 .. n - 1
    OBVIOUS
  <2> QED
    BY <2>1 DEF Inside, Quote
<1>7. s = "closed" => Inside(text, n - 2) /\ n > 3 /\ ~Inside(text, n - 1)
  <2> SUFFICES ASSUME s = "closed"
               PROVE  Inside(text, n - 2) /\ n > 3 /\ ~Inside(text, n - 1)
    OBVIOUS
  <2>1. n - 1 > 2 /\ Inside(text, (n - 1) - 1) /\ Closes(text, n - 1)
    BY DEF Knows
  <2>2. (n - 1) - 1 = n - 2 /\ n - 1 \in 2 .. n - 1
    BY <2>1
  <2> QED
    BY <2>1, <2>2 DEF Inside
<1>8. s = "closed" => ~(\A j \in 1 .. n - 1 : text[j] = "word")
  <2>1. 1 \in 1 .. n - 1
    OBVIOUS
  <2> QED
    BY <1>7, <2>1 DEF Inside, Quote
<1>9. s \in {"open", "body"} => ~esc
  BY <1>5 DEF Knows
<1>10. s = "escape" => esc
  BY <1>5 DEF Knows
<1>11. s \in {"open", "body", "escape"} <=> Inside(text, n - 1)
  BY DEF Knows
<1>12. s = "word" <=> \A j \in 1 .. n - 1 : text[j] = "word"
  BY DEF Knows
<1>13. s # "start" /\ (s = "open" => n = 2) /\ (s = "body" => n > 2)
  BY DEF Knows
<1>14. s = "escape" => n > 2
  <2> SUFFICES ASSUME s = "escape", n = 2 PROVE FALSE
    OBVIOUS
  <2>1. Escaped(text, 1 + 1) => text[1] = Backslash
    BY EscapedNext
  <2> QED
    BY <1>10, <1>11, <2>1 DEF Inside, Quote, Backslash
<1> HIDE DEF esc, next, c
<1>15. c = Quote => c # Backslash /\ c # Newline /\ c # "word"
  BY DEF Quote, Backslash, Newline
<1>16. c = Backslash => c # Newline /\ c # "word"
  BY DEF Backslash, Newline
<1>17. c = Newline => c # "word"
  BY DEF Newline
<1> DEFINE t == Step(s, c)
<1>18. /\ t = "word" <=> s = "word" /\ c = "word"
       /\ t # "start" /\ t # "open"
       /\ t = "escape" <=> s \in {"open", "body"} /\ c = Backslash
       /\ t = "body" <=> \/ s \in {"open", "body"} /\ c # Backslash /\ c # Quote
                         \/ s = "escape" /\ c # Newline
       /\ t = "closed" <=> s = "body" /\ c = Quote
  BY <1>13, StepCases
<1> HIDE DEF t
<1>19. t = "word" <=> \A j \in 1 .. n : text[j] = "word"
  BY <1>4, <1>12, <1>18
<1>20. t \in {"open", "body", "escape"} <=> Inside(text, n)
  BY <1>2, <1>3, <1>9, <1>10, <1>11, <1>15, <1>16, <1>18
<1>21. (t = "escape" => next) /\ (t \in {"open", "body"} => ~next)
  BY <1>1, <1>9, <1>10, <1>18
<1>22. t = "closed" <=> n > 2 /\ Inside(text, n - 1) /\ Closes(text, n)
  BY <1>2, <1>9, <1>10, <1>11, <1>13, <1>14, <1>18
<1> QED
  BY <1>19, <1>20, <1>21, <1>22, <1>18 DEF Knows, t, c, next

LEMMA KnowsAll ==
  ASSUME NEW text, Len(text) \in Nat, NEW n \in 1 .. Len(text)
  PROVE  Knows(text, n, StatesOf(text)[n])
<1> DEFINE N == Len(text)
<1> DEFINE G == {k \in 0 .. N : k = 0 \/ Knows(text, k, StatesOf(text)[k])}
<1>1. 0 \in G
  OBVIOUS
<1>2. ASSUME NEW k \in 1 .. N, k - 1 \in G PROVE k \in G
  <2>1. StatesOf(text)[k] = Step(StatesOf(text)[k - 1], text[k])
    BY StatesOfText
  <2>2. CASE k = 1
    <3>1. StatesOf(text)[k] = Step("start", text[1])
      BY <2>1, <2>2, StatesOfText
    <3> QED
      BY <2>2, <3>1, KnowsFirst
  <2>3. CASE k # 1
    <3>1. k \in Nat /\ k > 1 /\ k - 1 \in 1 .. N
      BY <2>3
    <3>2. StatesOf(text)[k - 1] \in States
      BY <3>1, StatesOfText
    <3>3. Knows(text, k - 1, StatesOf(text)[k - 1])
      BY <1>2, <3>1
    <3> QED
      BY <2>1, <3>1, <3>2, <3>3, KnowsNext
  <2> QED
    BY <2>2, <2>3
<1>3. n \in G
  <2>1. N \in Nat /\ n \in 0 .. N
    OBVIOUS
  <2> HIDE DEF G, N
  <2> QED
    BY <1>1, <1>2, <2>1, Inductive
<1> QED
  BY <1>3

-----------------------------------------------------------------------------
(* The two readings agree *)

\* valid_identifier(): for a text of any length, the regular expression matches
\* exactly one word, or one quoted name without an escaped newline.
LEMMA NamesAccepted ==
  ASSUME NEW text \in Seq(Chars)
  PROVE  valid_identifier(text) <=>
           \/ OneWord(text)
           \/ /\ OneQuotedName(text)
              /\ \A j \in DOMAIN text : text[j] = Newline => ~Escaped(text, j)
<1> DEFINE N == Len(text)
<1> DEFINE last == StatesOf(text)[N]
<1>1. N \in Nat /\ N = Len(text) /\ DOMAIN text = 1 .. N
  OBVIOUS
<1>2. text # <<>> <=> N # 0
  OBVIOUS
<1>3. N # 0 => Head(text) = text[1]
  OBVIOUS
<1>4. valid_identifier(text) <=> last \in {"word", "closed"}
  BY DEF valid_identifier
<1> HIDE DEF N
<1>5. CASE N = 0
  <2>1. last = "start"
    BY <1>1, <1>5, StatesOfText
  <2> QED
    BY <1>1, <1>2, <1>4, <1>5, <2>1 DEF OneWord, OneQuotedName
<1>6. CASE N # 0
  <2>1. N \in 1 .. N /\ 1 \in 1 .. N
    BY <1>1, <1>6
  <2>2. Knows(text, N, last)
    BY <1>1, <2>1, KnowsAll
  <2>3. last = "word" <=> OneWord(text)
    BY <1>1, <1>2, <1>6, <2>2 DEF Knows, OneWord
  <2>4. last = "closed" <=> N > 2 /\ Inside(text, N - 1) /\ Closes(text, N)
    BY <2>2 DEF Knows
  <2> HIDE DEF last
  <2>5. ASSUME N > 2, Inside(text, N - 1), Closes(text, N)
        PROVE  /\ OneQuotedName(text)
               /\ \A j \in DOMAIN text : text[j] = Newline => ~Escaped(text, j)
    <3>1. ASSUME NEW j \in 1 .. N
          PROVE  /\ Closes(text, j) <=> j = N
                 /\ text[j] = Newline => ~Escaped(text, j)
      <4>1. CASE j = 1
        BY <2>5, <4>1 DEF Closes, Inside, Quote, Newline
      <4>2. CASE j = N
        BY <2>5, <4>2 DEF Closes, Quote, Newline
      <4>3. CASE j \in 2 .. N - 1
        <5>1. ~Closes(text, j) /\ ~(text[j] = Newline /\ Escaped(text, j))
          BY <2>5, <4>3 DEF Inside
        <5>2. j # N
          BY <1>1, <4>3
        <5> QED
          BY <2>5, <5>1, <5>2
      <4>4. j = 1 \/ j = N \/ j \in 2 .. N - 1
        BY <1>1
      <4> QED
        BY <4>1, <4>2, <4>3, <4>4
    <3>2. Head(text) = Quote
      BY <1>3, <1>6, <2>5 DEF Inside
    <3> QED
      BY <1>1, <2>5, <3>1, <3>2 DEF OneQuotedName
  <2>6. ASSUME OneQuotedName(text),
               \A j \in DOMAIN text : text[j] = Newline => ~Escaped(text, j)
        PROVE  N > 2 /\ Inside(text, N - 1) /\ Closes(text, N)
    <3>1. N > 2 /\ text[1] = Quote /\ \A j \in 1 .. N : Closes(text, j) <=> j = N
      BY <1>1, <1>3, <1>6, <2>6 DEF OneQuotedName
    <3>2. ASSUME NEW j \in 2 .. N - 1
          PROVE  ~Closes(text, j) /\ ~(text[j] = Newline /\ Escaped(text, j))
      <4>1. j \in 1 .. N /\ j # N
        BY <1>1
      <4> QED
        BY <1>1, <2>6, <3>1, <4>1
    <3> QED
      BY <2>1, <3>1, <3>2 DEF Inside
  <2> QED
    BY <1>4, <2>3, <2>4, <2>5, <2>6
<1> QED
  BY <1>5, <1>6


-----------------------------------------------------------------------------
(* Every key that is added *)

KeyInv == \E n \in Nat : key \in [1 .. n -> Chars]

\* add(key, value): whatever the length of the keys, one that is accepted is one
\* word or one quoted name, and of these only those with an escaped newline are
\* turned down.
THEOREM KeysAccepted == Spec => []AcceptsOneName
<1>1. Init => KeyInv
  BY KeyAssumption DEF Init, KeyInv
<1>2. KeyInv /\ [Next]_vars => KeyInv'
  BY DEF KeyInv, Next, Throw, Accept, Try, vars
<1>3. KeyInv => AcceptsOneName
  <2> SUFFICES ASSUME NEW n \in Nat, key \in [1 .. n -> Chars]
               PROVE  AcceptsOneName
    BY DEF KeyInv
  <2>1. key \in Seq(Chars)
    OBVIOUS
  <2> QED
    BY <2>1, NamesAccepted DEF AcceptsOneName
<1> QED
  BY <1>1, <1>2, <1>3, PTL DEF Spec

-----------------------------------------------------------------------------
(* Powers *)

PowerDef(f, b, n) == f = [i \in 0 .. n |-> IF i = 0 THEN 1 ELSE b * f[i - 1]]

PowersOf(b, n) == CHOOSE f : PowerDef(f, b, n)

\* A function that multiplies by b at each step holds natural numbers.
LEMMA PowerTable ==
  ASSUME NEW b \in Nat, NEW n \in Nat
  PROVE  /\ PowersOf(b, n) \in [0 .. n -> Nat]
         /\ PowersOf(b, n)[0] = 1
         /\ \A i \in 1 .. n : PowersOf(b, n)[i] = b * PowersOf(b, n)[i - 1]
         /\ Power(b, n) = PowersOf(b, n)[n]
<1> DEFINE step == [p \in Nat \X (1 .. n) |-> b * p[1]]
<1>1. PICK f : Steps(f, Nat, 1, n, step)
  <2>1. IsStep(step, Nat, n)
    BY DEF IsStep
  <2> HIDE DEF step
  <2> QED
    BY <2>1, RecursionExists
<1>2. ASSUME NEW i \in 1 .. n PROVE f[i] = b * f[i - 1]
  <2>1. i - 1 \in 0 .. n
    OBVIOUS
  <2>2. <<f[i - 1], i>> \in Nat \X (1 .. n)
    BY <1>1, <2>1 DEF Steps
  <2> QED
    BY <1>1, <2>2 DEF Steps
<1>3. \A i \in 0 .. n : f[i] = IF i = 0 THEN 1 ELSE b * f[i - 1]
  BY <1>1, <1>2 DEF Steps
<1>4. PowerDef(f, b, n)
  <2> HIDE DEF step
  <2> QED
    BY <1>1, <1>3 DEF Steps, PowerDef
<1>5. PowerDef(PowersOf(b, n), b, n)
  BY <1>4 DEF PowersOf
<1> DEFINE g == PowersOf(b, n)
<1>6. g[0] = 1 /\ \A i \in 1 .. n : g[i] = b * g[i - 1]
  <2>1. g = [i \in 0 .. n |-> IF i = 0 THEN 1 ELSE b * g[i - 1]]
    BY <1>5 DEF PowerDef
  <2> HIDE DEF g
  <2>2. 0 \in 0 .. n /\ \A i \in 1 .. n : i \in 0 .. n /\ i # 0
    OBVIOUS
  <2> QED
    BY <2>1, <2>2
<1>7. g \in [0 .. n -> Nat]
  <2> DEFINE G == {i \in 0 .. n : g[i] \in Nat}
  <2>1. \A i \in 0 .. n : i \in G
    <3>1. 0 \in G
      BY <1>6
    <3>2. ASSUME NEW i \in 1 .. n, i - 1 \in G PROVE i \in G
      <4>1. g[i - 1] \in Nat /\ g[i] = b * g[i - 1]
        BY <1>6, <3>2
      <4> HIDE DEF g
      <4> QED
        BY <4>1
    <3> HIDE DEF G
    <3> QED
      BY <3>1, <3>2, Inductive
  <2>2. g = [i \in 0 .. n |-> IF i = 0 THEN 1 ELSE b * g[i - 1]]
    BY <1>5 DEF PowerDef
  <2> HIDE DEF g
  <2> QED
    BY <2>1, <2>2
<1>8. Power(b, n) = g[n]
  BY DEF Power, PowersOf, PowerDef
<1> QED
  BY <1>6, <1>7, <1>8

LEMMA PowerZero ==
  ASSUME NEW b \in Nat
  PROVE  Power(b, 0) = 1
BY PowerTable

LEMMA PowerNext ==
  ASSUME NEW b \in Nat, NEW n \in Nat
  PROVE  Power(b, n + 1) = b * Power(b, n)
<1> DEFINE f == PowersOf(b, n)
<1> DEFINE g == PowersOf(b, n + 1)
<1>1. f[0] = 1 /\ \A i \in 1 .. n : f[i] = b * f[i - 1]
  BY PowerTable
<1>2. g[0] = 1 /\ \A i \in 1 .. n + 1 : g[i] = b * g[i - 1]
  BY PowerTable
<1> DEFINE G == {i \in 0 .. n : f[i] = g[i]}
<1>3. Power(b, n) = f[n] /\ Power(b, n + 1) = g[n + 1]
  BY PowerTable
<1> HIDE DEF f, g
<1>4. 0 \in G
  BY <1>1, <1>2
<1>5. ASSUME NEW i \in 1 .. n, i - 1 \in G PROVE i \in G
  <2>1. i \in 1 .. n + 1 /\ i \in 0 .. n
    OBVIOUS
  <2> QED
    BY <1>1, <1>2, <1>5, <2>1
<1>6. n \in G
  <2> HIDE DEF G
  <2> QED
    BY <1>4, <1>5, Inductive
<1>7. n + 1 \in 1 .. n + 1 /\ (n + 1) - 1 = n
  OBVIOUS
<1> QED
  BY <1>2, <1>3, <1>6, <1>7

-----------------------------------------------------------------------------
LEMMA PowerType ==
  ASSUME NEW b \in Nat \ {0}, NEW n \in Nat
  PROVE  Power(b, n) \in Nat \ {0}
<1> DEFINE G == {i \in 0 .. n : Power(b, i) \in Nat \ {0}}
<1>1. 0 \in G
  BY PowerZero
<1>2. ASSUME NEW i \in 1 .. n, i - 1 \in G PROVE i \in G
  <2>1. i - 1 \in Nat /\ (i - 1) + 1 = i
    OBVIOUS
  <2>2. Power(b, i) = b * Power(b, i - 1)
    BY <2>1, PowerNext
  <2>3. Power(b, i - 1) \in Nat \ {0}
    BY <1>2
  <2>4. \A x, y \in Nat \ {0} : x * y \in Nat \ {0}
    OBVIOUS
  <2> QED
    BY <2>2, <2>3, <2>4
<1>3. n \in G
  <2> HIDE DEF G
  <2> QED
    BY <1>1, <1>2, Inductive
<1> QED
  BY <1>3

LEMMA PowerAdd ==
  ASSUME NEW b \in Nat \ {0}, NEW m \in Nat, NEW n \in Nat
  PROVE  Power(b, m + n) = Power(b, m) * Power(b, n)
<1> DEFINE G == {i \in 0 .. n : Power(b, m + i) = Power(b, m) * Power(b, i)}
<1>1. 0 \in G
  <2>1. Power(b, m + 0) = Power(b, m) /\ Power(b, 0) = 1 /\ Power(b, m) \in Nat
    BY PowerZero, PowerType
  <2> QED
    BY <2>1
<1>2. ASSUME NEW i \in 1 .. n, i - 1 \in G PROVE i \in G
  <2> DEFINE j == i - 1
  <2>1. j \in Nat /\ i = j + 1 /\ m + i = (m + j) + 1 /\ m + j \in Nat
    OBVIOUS
  <2>2. Power(b, m + j) = Power(b, m) * Power(b, j)
    BY <1>2
  <2> HIDE DEF j
  <2>3. Power(b, i) = b * Power(b, j) /\ Power(b, m + i) = b * Power(b, m + j)
    BY <2>1, PowerNext
  <2>4. Power(b, m) \in Nat /\ Power(b, j) \in Nat
    BY <2>1, PowerType
  <2>5. \A x, y \in Nat : b * (x * y) = x * (b * y)
    OBVIOUS
  <2> QED
    BY <2>2, <2>3, <2>4, <2>5
<1>3. n \in G
  <2> HIDE DEF G
  <2> QED
    BY <1>1, <1>2, Inductive
<1> QED
  BY <1>3

LEMMA TimesMonotone ==
  ASSUME NEW a \in Nat, NEW b \in Nat, NEW c \in Nat, NEW d \in Nat, a <= c, b <= d
  PROVE  a * b <= c * d
<1>1. a * b <= a * d
  OBVIOUS
<1>2. a * d <= c * d
  OBVIOUS
<1> QED
  BY <1>1, <1>2

LEMMA PowerMonotone ==
  ASSUME NEW b \in Nat \ {0}, NEW m \in Nat, NEW n \in Nat, m <= n
  PROVE  Power(b, m) <= Power(b, n)
<1>1. n - m \in Nat /\ m + (n - m) = n
  OBVIOUS
<1>2. Power(b, n) = Power(b, m) * Power(b, n - m)
  BY <1>1, PowerAdd
<1>3. Power(b, m) \in Nat \ {0} /\ Power(b, n - m) \in Nat \ {0}
  BY <1>1, PowerType
<1>4. \A x, y \in Nat \ {0} : x <= x * y
  OBVIOUS
<1> QED
  BY <1>2, <1>3, <1>4

\* A larger base has the larger powers.
LEMMA PowerBases ==
  ASSUME NEW a \in Nat \ {0}, NEW b \in Nat \ {0}, NEW n \in Nat, a < b
  PROVE  Power(a, n) <= Power(b, n) /\ (n > 0 => Power(a, n) < Power(b, n))
<1> DEFINE G == {i \in 0 .. n : Power(a, i) <= Power(b, i)}
<1>1. 0 \in G
  BY PowerZero
<1>2. ASSUME NEW i \in 1 .. n, i - 1 \in G
      PROVE  Power(a, i) < Power(b, i)
  <2>1. i - 1 \in Nat /\ (i - 1) + 1 = i
    OBVIOUS
  <2>2. Power(a, i) = a * Power(a, i - 1) /\ Power(b, i) = b * Power(b, i - 1)
    BY <2>1, PowerNext
  <2>3. Power(a, i - 1) \in Nat \ {0} /\ Power(b, i - 1) \in Nat \ {0}
    BY <2>1, PowerType
  <2>4. Power(a, i - 1) <= Power(b, i - 1)
    BY <1>2
  <2>5. ASSUME NEW x \in Nat \ {0}, NEW y \in Nat \ {0}, x <= y
        PROVE  a * x < b * y
    <3>1. a * x <= a * y
      BY <2>5, TimesMonotone
    <3>2. b * y = a * y + (b - a) * y
      OBVIOUS
    <3>3. (b - a) * y > 0
      OBVIOUS
    <3>4. a * x \in Nat /\ a * y \in Nat /\ (b - a) * y \in Nat
      OBVIOUS
    <3> QED
      BY <3>1, <3>2, <3>3, <3>4
  <2> QED
    BY <2>2, <2>3, <2>4, <2>5
<1>3. ASSUME NEW i \in 1 .. n, i - 1 \in G PROVE i \in G
  <2>1. Power(a, i) < Power(b, i)
    BY <1>2, <1>3
  <2>2. Power(a, i) \in Nat /\ Power(b, i) \in Nat
    BY PowerType
  <2> QED
    BY <2>1, <2>2
<1>4. \A i \in 0 .. n : i \in G
  <2> HIDE DEF G
  <2> QED
    BY <1>1, <1>3, Inductive
<1>5. n > 0 => n \in 1 .. n /\ n - 1 \in G
  BY <1>4
<1> QED
  BY <1>2, <1>4, <1>5

-----------------------------------------------------------------------------
(* Digits *)

LEMMA DigitsSuffice ==
  /\ max_digits10 \in Nat \ {0}
  /\ Power(10, max_digits10 - 1) > Power(2, Precision)
<1> DEFINE Good(k) == /\ Power(10, k - 1) > Power(2, Precision)
                      /\ \A j \in 1 .. k - 1 : Power(10, j - 1) <= Power(2, Precision)
<1> DEFINE M == {k \in 1 .. Precision + 1 : Power(10, k - 1) > Power(2, Precision)}
<1>1. Precision \in Nat \ {0} /\ Precision + 1 \in Nat
  BY FloatAssumption
<1>2. \A k \in 1 .. Precision + 1 : Power(10, k - 1) \in Nat
  <2> SUFFICES ASSUME NEW k \in 1 .. Precision + 1 PROVE Power(10, k - 1) \in Nat
    OBVIOUS
  <2>1. k - 1 \in Nat
    BY <1>1
  <2> QED
    BY <2>1, PowerType
<1>3. Precision + 1 \in M
  <2>1. (Precision + 1) - 1 = Precision /\ Precision + 1 \in 1 .. Precision + 1
    BY <1>1
  <2>2. Power(2, Precision) < Power(10, Precision)
    BY <1>1, PowerBases
  <2>3. Power(2, Precision) \in Nat /\ Power(10, Precision) \in Nat
    BY <1>1, PowerType
  <2> QED
    BY <2>1, <2>2, <2>3
<1>4. PICK k \in M : \A j \in M : k <= j
  <2>1. M \in SUBSET Nat /\ M # {}
    BY <1>1, <1>3
  <2> HIDE DEF M
  <2> QED
    BY <2>1, Least
<1>5. ASSUME NEW j \in 1 .. k - 1 PROVE Power(10, j - 1) <= Power(2, Precision)
  <2>1. j \in 1 .. Precision + 1 /\ j \notin M
    BY <1>1, <1>4
  <2>2. Power(10, j - 1) \in Nat /\ Power(2, Precision) \in Nat
    BY <1>1, <1>2, <2>1, PowerType
  <2> QED
    BY <2>1, <2>2
<1>6. k \in 1 .. Precision + 1 /\ Good(k)
  BY <1>4, <1>5
<1>7. max_digits10 = CHOOSE n \in 1 .. Precision + 1 : Good(n)
  BY DEF max_digits10
<1>8. max_digits10 \in 1 .. Precision + 1 /\ Good(max_digits10)
  <2> HIDE DEF Good
  <2> QED
    BY <1>6, <1>7
<1> QED
  BY <1>1, <1>8

MostDigits == Precision + Binades + Fraction + 1

LEMMA MagnitudeOf ==
  ASSUME NEW d \in Nat \ {0}, d < Power(10, MostDigits)
  PROVE  /\ Magnitude(d) \in Nat \ {0}
         /\ Power(10, Magnitude(d) - 1) <= d
         /\ d < Power(10, Magnitude(d))
<1> DEFINE Good(n) == Power(10, n - 1) <= d /\ d < Power(10, n)
<1> DEFINE M == {n \in 1 .. MostDigits : d < Power(10, n)}
<1>1. MostDigits \in Nat \ {0}
  BY FloatAssumption DEF MostDigits
<1>2. PICK n \in M : \A j \in M : n <= j
  <2>1. M \in SUBSET Nat /\ MostDigits \in M
    BY <1>1
  <2> HIDE DEF M
  <2> QED
    BY <2>1, Least
<1>3. Power(10, n - 1) <= d
  <2>1. CASE n = 1
    BY <2>1, PowerZero
  <2>2. CASE n # 1
    <3>1. n - 1 \in 1 .. MostDigits /\ n - 1 \notin M
      BY <1>1, <1>2, <2>2
    <3>2. Power(10, n - 1) \in Nat
      BY <3>1, PowerType
    <3> QED
      BY <3>1, <3>2
  <2> QED
    BY <2>1, <2>2
<1>4. n \in 1 .. MostDigits /\ Good(n)
  BY <1>2, <1>3
<1>5. Magnitude(d) = CHOOSE i \in 1 .. MostDigits : Good(i)
  BY DEF Magnitude, MostDigits
<1>6. Magnitude(d) \in 1 .. MostDigits /\ Good(Magnitude(d))
  <2> HIDE DEF Good
  <2> QED
    BY <1>4, <1>5
<1> QED
  BY <1>1, <1>6

-----------------------------------------------------------------------------
(* Numbers *)

\* The distance to the next number, and how it grows with the numbers.
Above(v) == {e \in 1 .. Binades : v >= Power(2, Precision + e - 1)}

LEMMA UlpType ==
  ASSUME NEW v \in Nat
  PROVE  /\ IsFiniteSet(Above(v)) /\ Cardinality(Above(v)) \in Nat
         /\ Ulp(v) = Power(2, Cardinality(Above(v)))
         /\ Ulp(v) \in Nat \ {0}
<1>1. Above(v) \subseteq 1 .. Binades
  BY DEF Above
<1>2. IsFiniteSet(1 .. Binades)
  BY FloatAssumption, FS_Interval
<1>3. IsFiniteSet(Above(v))
  BY <1>1, <1>2, FS_Subset
<1>4. Cardinality(Above(v)) \in Nat
  BY <1>3, FS_CardinalityType
<1>5. Ulp(v) = Power(2, Cardinality(Above(v)))
  BY DEF Ulp, Above
<1> QED
  BY <1>3, <1>4, <1>5, PowerType

LEMMA UlpMonotone ==
  ASSUME NEW u \in Nat, NEW v \in Nat, u <= v
  PROVE  Ulp(u) <= Ulp(v)
<1>1. Above(u) \subseteq Above(v)
  <2> SUFFICES ASSUME NEW e \in Above(u) PROVE e \in Above(v)
    OBVIOUS
  <2>1. e \in 1 .. Binades /\ u >= Power(2, Precision + e - 1)
    BY DEF Above
  <2>2. Precision + e - 1 \in Nat
    BY <2>1, FloatAssumption
  <2>3. Power(2, Precision + e - 1) \in Nat
    BY <2>2, PowerType
  <2> QED
    BY <2>1, <2>3 DEF Above
<1>2. Cardinality(Above(u)) <= Cardinality(Above(v))
  BY <1>1, UlpType, FS_Subset
<1> QED
  BY <1>2, UlpType, PowerMonotone

\* A number is not smaller than its distance to the next one.
LEMMA UlpBelow ==
  ASSUME NEW v \in Nat \ {0}, v < Power(2, Precision + Binades)
  PROVE  Ulp(v) <= v
<1> DEFINE M == {j \in 0 .. Precision + Binades : v < Power(2, j)}
<1>1. Precision \in Nat \ {0} /\ Binades \in Nat
  BY FloatAssumption
<1>2. PICK j \in M : \A i \in M : j <= i
  <2>1. M \in SUBSET Nat /\ Precision + Binades \in M
    BY <1>1
  <2> HIDE DEF M
  <2> QED
    BY <2>1, Least
<1>3. j \in Nat \ {0} /\ v < Power(2, j)
  BY <1>1, <1>2, PowerZero
<1>4. j - 1 \in Nat /\ Power(2, j - 1) \in Nat /\ Power(2, j - 1) <= v
  <2>1. j - 1 \in 0 .. Precision + Binades /\ j - 1 \notin M
    BY <1>1, <1>2, <1>3
  <2>2. Power(2, j - 1) \in Nat
    BY <2>1, PowerType
  <2> QED
    BY <1>3, <2>1, <2>2
<1>5. Above(v) \subseteq 1 .. j - 1
  <2> SUFFICES ASSUME NEW e \in Above(v), j <= e PROVE FALSE
    BY <1>1, <1>3 DEF Above
  <2>1. e \in Nat /\ Precision + e - 1 \in Nat /\ j <= Precision + e - 1
    BY <1>1, <1>3 DEF Above
  <2>2. Power(2, j) <= Power(2, Precision + e - 1)
    BY <1>3, <2>1, PowerMonotone
  <2>3. Power(2, j) \in Nat /\ Power(2, Precision + e - 1) \in Nat
    BY <1>3, <2>1, PowerType
  <2> QED
    BY <1>3, <2>2, <2>3 DEF Above
<1>6. Cardinality(Above(v)) <= j - 1
  <2>1. PICK k : k = j - 1
    OBVIOUS
  <2>2. k \in Nat /\ Above(v) \subseteq 1 .. k
    BY <1>4, <1>5, <2>1
  <2>3. IsFiniteSet(1 .. k) /\ Cardinality(1 .. k) = k
    <3>1. Cardinality(1 .. k) = IF 1 > k THEN 0 ELSE k - 1 + 1
      BY <2>2, FS_Interval
    <3> QED
      BY <2>2, <3>1, FS_Interval
  <2>4. Cardinality(Above(v)) <= Cardinality(1 .. k)
    BY <2>2, <2>3, FS_Subset
  <2> QED
    BY <2>1, <2>3, <2>4
<1>7. Ulp(v) <= Power(2, j - 1)
  BY <1>4, <1>6, UlpType, PowerMonotone
<1> QED
  BY <1>4, <1>7, UlpType

\* A significand has Precision bits.
LEMMA Significand ==
  ASSUME NEW v \in Nat, v < Power(2, Precision + Binades)
  PROVE  v < Power(2, Precision) * Ulp(v)
<1> DEFINE M == {e \in 0 .. Binades : v < Power(2, Precision + e)}
<1>1. Precision \in Nat \ {0} /\ Binades \in Nat
  BY FloatAssumption
<1>2. PICK e \in M : \A j \in M : e <= j
  <2>1. M \in SUBSET Nat /\ Binades \in M
    BY <1>1
  <2> HIDE DEF M
  <2> QED
    BY <2>1, Least
<1>3. 1 .. e \subseteq Above(v)
  <2> SUFFICES ASSUME NEW i \in 1 .. e PROVE i \in Above(v)
    OBVIOUS
  <2>1. i - 1 \in 0 .. Binades /\ i - 1 \notin M /\ i \in 1 .. Binades
    BY <1>1, <1>2
  <2>2. Precision + (i - 1) = Precision + i - 1 /\ Precision + i - 1 \in Nat
    BY <1>1, <2>1
  <2>3. Power(2, Precision + i - 1) \in Nat
    BY <2>2, PowerType
  <2>4. ~(v < Power(2, Precision + i - 1))
    BY <2>1, <2>2
  <2> QED
    BY <2>1, <2>3, <2>4 DEF Above
<1>4. e \in Nat /\ e <= Cardinality(Above(v))
  <2>1. e \in Nat /\ Cardinality(1 .. e) = e
    BY <1>1, FS_Interval
  <2>2. Cardinality(1 .. e) <= Cardinality(Above(v))
    BY <1>3, UlpType, FS_Subset
  <2> QED
    BY <2>1, <2>2
<1>5. Power(2, e) <= Ulp(v)
  BY <1>4, UlpType, PowerMonotone
<1>6. v < Power(2, Precision) * Power(2, e)
  <2>1. Power(2, Precision + e) = Power(2, Precision) * Power(2, e)
    BY <1>1, <1>4, PowerAdd
  <2> QED
    BY <1>2, <2>1
<1>7. Power(2, Precision) \in Nat /\ Power(2, e) \in Nat /\ Ulp(v) \in Nat
  <2>1. 2 \in Nat \ {0} /\ Precision \in Nat
    BY <1>1
  <2>2. Power(2, Precision) \in Nat
    BY <2>1, PowerType
  <2>3. Power(2, e) \in Nat
    BY <2>1, <1>4, PowerType
  <2>4. Ulp(v) \in Nat
    BY UlpType
  <2> QED
    BY <2>2, <2>3, <2>4
<1>8. Power(2, Precision) * Power(2, e) <= Power(2, Precision) * Ulp(v)
  BY <1>5, <1>7, TimesMonotone
<1>9. Power(2, Precision) * Power(2, e) \in Nat /\ Power(2, Precision) * Ulp(v) \in Nat
  BY <1>7
<1> QED
  BY <1>6, <1>8, <1>9

-----------------------------------------------------------------------------
LEMMA FloatBound ==
  ASSUME NEW v \in Floats
  PROVE  v \in Nat \ {0} /\ v < Power(2, Precision + Binades)
<1>1. Precision \in Nat \ {0} /\ Binades \in Nat
  BY FloatAssumption
<1>2. Power(2, Precision + Binades) = Power(2, Precision) * Power(2, Binades)
  BY <1>1, PowerAdd
<1>3. Power(2, Precision) \in Nat \ {0} /\ Power(2, Binades) \in Nat \ {0}
  BY <1>1, PowerType
<1>4. CASE v \in 1 .. Power(2, Precision) - 1
  <2>1. Power(2, Precision) <= Power(2, Precision + Binades)
    BY <1>1, PowerMonotone
  <2>2. Power(2, Precision + Binades) \in Nat
    BY <1>1, PowerType
  <2> QED
    BY <1>3, <1>4, <2>1, <2>2
<1>5. ASSUME NEW s \in Power(2, Precision - 1) .. Power(2, Precision) - 1,
             NEW e \in 1 .. Binades, v = s * Power(2, e)
      PROVE  v \in Nat \ {0} /\ v < Power(2, Precision + Binades)
  <2>1. Precision - 1 \in Nat /\ e \in Nat /\ e <= Binades
    BY <1>1
  <2>2. Power(2, Precision - 1) \in Nat \ {0} /\ Power(2, e) \in Nat \ {0}
    BY <2>1, PowerType
  <2>3. s \in Nat \ {0} /\ s < Power(2, Precision)
    BY <2>2, <1>3
  <2>4. Power(2, e) <= Power(2, Binades)
    BY <1>1, <2>1, PowerMonotone
  <2>5. s * Power(2, e) <= s * Power(2, Binades)
    BY <1>3, <2>2, <2>3, <2>4, TimesMonotone
  <2>6. s * Power(2, Binades) < Power(2, Precision) * Power(2, Binades)
    <3>1. \A x, y, z \in Nat \ {0} : x < y => x * z < y * z
      OBVIOUS
    <3> QED
      BY <1>3, <2>3, <3>1
  <2>7. /\ s * Power(2, e) \in Nat \ {0}
        /\ s * Power(2, Binades) \in Nat
        /\ Power(2, Precision) * Power(2, Binades) \in Nat
    <3>1. \A x, y \in Nat \ {0} : x * y \in Nat \ {0}
      OBVIOUS
    <3> QED
      BY <1>3, <2>2, <2>3, <3>1
  <2> QED
    BY <1>2, <1>5, <2>5, <2>6, <2>7
<1> QED
  BY <1>4, <1>5 DEF Floats

LEMMA ExactBound ==
  ASSUME NEW v \in Floats
  PROVE  Exact(v) \in Nat \ {0} /\ 2 * Exact(v) < Power(10, MostDigits)
<1> DEFINE n == Precision + Binades
<1>1. n \in Nat \ {0} /\ Fraction \in Nat
  BY FloatAssumption
<1>2. v \in Nat \ {0} /\ v < Power(2, n)
  BY FloatBound
<1>3. MostDigits = (n + Fraction) + 1
  BY FloatAssumption DEF MostDigits
<1> HIDE DEF n
<1>4. Power(10, MostDigits) = 10 * Power(10, n + Fraction)
  BY <1>1, <1>3, PowerNext
<1>5. Power(10, n + Fraction) = Power(10, n) * Power(10, Fraction)
  BY <1>1, PowerAdd
<1>6. /\ Power(2, n) \in Nat /\ Power(10, n) \in Nat \ {0}
      /\ Power(5, Fraction) \in Nat \ {0} /\ Power(10, Fraction) \in Nat \ {0}
  BY <1>1, PowerType
<1>7. Power(2, n) <= Power(10, n) /\ Power(5, Fraction) <= Power(10, Fraction)
  BY <1>1, PowerBases
<1>8. v <= Power(10, n)
  BY <1>2, <1>6, <1>7
<1>9. v * Power(5, Fraction) <= Power(10, n) * Power(10, Fraction)
  BY <1>2, <1>6, <1>7, <1>8, TimesMonotone
<1>10. v * Power(5, Fraction) \in Nat \ {0} /\ Power(10, n) * Power(10, Fraction) \in Nat
  <2>1. \A x, y \in Nat \ {0} : x * y \in Nat \ {0}
    OBVIOUS
  <2> QED
    BY <1>2, <1>6, <2>1
<1> QED
  BY <1>4, <1>5, <1>9, <1>10 DEF Exact

-----------------------------------------------------------------------------
(* Printing *)

\* c is a multiple of the unit, not further from d than its half.
Rounded(c, d, unit) ==
  \E k \in Nat : c = k * unit /\ 2 * (c - d) <= unit /\ 2 * (d - c) <= unit

LEMMA Rounding ==
  ASSUME NEW d \in Nat, NEW unit \in Nat \ {0}
  PROVE  Rounded(RoundHalfEven(d, unit), d, unit)
<1> DEFINE q == d \div unit
<1> DEFINE r == d % unit
<1>1. q \in Nat /\ r \in Nat /\ r < unit /\ d = q * unit + r
  OBVIOUS
<1>2. RoundHalfEven(d, unit) =
        IF 2 * r > unit \/ (2 * r = unit /\ q % 2 = 1) THEN (q + 1) * unit ELSE q * unit
  BY DEF RoundHalfEven
<1> HIDE DEF q, r
<1>3. (q + 1) * unit = q * unit + unit /\ q * unit \in Nat
  BY <1>1
<1>4. CASE 2 * r > unit \/ (2 * r = unit /\ q % 2 = 1)
  <2>1. RoundHalfEven(d, unit) = (q + 1) * unit /\ q + 1 \in Nat
    BY <1>1, <1>2, <1>4
  <2>2. 2 * ((q + 1) * unit - d) <= unit /\ 2 * (d - (q + 1) * unit) <= unit
    BY <1>1, <1>3, <1>4
  <2> QED
    BY <2>1, <2>2 DEF Rounded
<1>5. CASE ~(2 * r > unit \/ (2 * r = unit /\ q % 2 = 1))
  <2>1. RoundHalfEven(d, unit) = q * unit
    BY <1>2, <1>5
  <2>2. 2 * (q * unit - d) <= unit /\ 2 * (d - q * unit) <= unit
    BY <1>1, <1>3, <1>5
  <2> QED
    BY <1>1, <2>1, <2>2 DEF Rounded
<1> QED
  BY <1>4, <1>5

LEMMA PrintedIsRounded ==
  ASSUME NEW v \in Floats, NEW p \in Nat \ {0}, Printed(v, p) # Exact(v)
  PROVE  /\ Magnitude(Exact(v)) > p
         /\ Rounded(Printed(v, p), Exact(v), Power(10, Magnitude(Exact(v)) - p))
<1> DEFINE d == Exact(v)
<1>1. d \in Nat \ {0} /\ 2 * d < Power(10, MostDigits)
  BY ExactBound
<1>2. MostDigits \in Nat
  BY FloatAssumption DEF MostDigits
<1>3. d < Power(10, MostDigits)
  BY <1>1, <1>2, PowerType
<1>4. Magnitude(d) \in Nat
  BY <1>1, <1>3, MagnitudeOf
<1>5. Magnitude(d) > p /\ Printed(v, p) = RoundHalfEven(d, Power(10, Magnitude(d) - p))
  BY <1>4 DEF Printed
<1>6. Power(10, Magnitude(d) - p) \in Nat \ {0}
  BY <1>4, <1>5, PowerType
<1> QED
  BY <1>1, <1>5, <1>6, Rounding

-----------------------------------------------------------------------------
\* The gaps above and below a number, as decimals.
Upper(v) == Exact(Ulp(v))
Lower(v) == Exact(Ulp(v - 1))

LEMMA Gaps ==
  ASSUME NEW v \in Floats
  PROVE  Upper(v) \in Nat \ {0} /\ Lower(v) \in Nat \ {0} /\ Lower(v) <= Upper(v)
<1>1. v \in Nat \ {0} /\ v - 1 \in Nat
  BY FloatBound
<1>2. Ulp(v) \in Nat \ {0} /\ Ulp(v - 1) \in Nat \ {0} /\ Ulp(v - 1) <= Ulp(v)
  BY <1>1, UlpType, UlpMonotone
<1>3. Power(5, Fraction) \in Nat \ {0}
  BY FloatAssumption, PowerType
<1>4. \A x, y \in Nat \ {0} : x * y \in Nat \ {0}
  OBVIOUS
<1>5. Ulp(v - 1) * Power(5, Fraction) <= Ulp(v) * Power(5, Fraction)
  BY <1>2, <1>3, TimesMonotone
<1> QED
  BY <1>2, <1>3, <1>4, <1>5 DEF Upper, Lower, Exact

\* After max_digits10 digits the error is below the half of any gap.
LEMMA UnitBelow ==
  ASSUME NEW d \in Nat, NEW unit \in Nat \ {0}, NEW gap \in Nat \ {0},
         NEW many \in Nat \ {0}, NEW few \in Nat \ {0},
         unit * many <= d, few < many, d <= few * gap
  PROVE  unit < gap
<1> SUFFICES ASSUME gap <= unit PROVE FALSE
  OBVIOUS
<1>1. few * gap <= few * unit
  BY TimesMonotone
<1>2. few * unit < many * unit
  OBVIOUS
<1>3. many * unit = unit * many
  OBVIOUS
<1>4. few * gap \in Nat /\ few * unit \in Nat /\ many * unit \in Nat
  OBVIOUS
<1> QED
  BY <1>1, <1>2, <1>3, <1>4

LEMMA LastTurn ==
  ASSUME NEW v \in Floats
  PROVE  Nearest(Printed(v, max_digits10), v)
<1> DEFINE d == Exact(v)
<1> DEFINE c == Printed(v, max_digits10)
<1>1. d \in Nat \ {0} /\ 2 * d < Power(10, MostDigits)
  BY ExactBound
<1>2. Upper(v) \in Nat \ {0} /\ Lower(v) \in Nat \ {0}
  BY Gaps
<1>3. CASE c = d
  <2>1. 2 * (c - d) = 0 /\ -(2 * (c - d)) = 0
    BY <1>1, <1>3
  <2> QED
    BY <1>2, <2>1 DEF Nearest, Upper, Lower
<1>4. CASE c # d
  <2> DEFINE n == max_digits10
  <2> DEFINE m == Magnitude(d)
  <2> DEFINE unit == Power(10, m - n)
  <2>1. n \in Nat \ {0} /\ Power(10, n - 1) > Power(2, Precision)
    BY DigitsSuffice
  <2>2. m > n /\ Rounded(c, d, unit)
    BY <1>4, <2>1, PrintedIsRounded
  <2>3. MostDigits \in Nat
    BY FloatAssumption DEF MostDigits
  <2>4. d < Power(10, MostDigits)
    BY <1>1, <2>3, PowerType
  <2>5. m \in Nat \ {0} /\ Power(10, m - 1) <= d
    BY <1>1, <2>4, MagnitudeOf
  <2> HIDE DEF m, n
  <2>6. Power(10, m - 1) = unit * Power(10, n - 1)
    <3>1. m - n \in Nat /\ n - 1 \in Nat /\ (m - n) + (n - 1) = m - 1
      BY <2>1, <2>2, <2>5
    <3> QED
      BY <3>1, PowerAdd
  <2>7. /\ unit \in Nat \ {0} /\ Power(10, n - 1) \in Nat \ {0}
        /\ Power(2, Precision) \in Nat \ {0} /\ Power(5, Fraction) \in Nat \ {0}
    <3>1. m - n \in Nat /\ n - 1 \in Nat
      BY <2>1, <2>2, <2>5
    <3> QED
      BY <3>1, FloatAssumption, PowerType
  <2>8. ASSUME NEW u \in Nat \ {0}, v <= Power(2, Precision) * u
        PROVE  unit < u * Power(5, Fraction)
    <3>1. v \in Nat
      BY FloatBound
    <3>2. Power(2, Precision) * u \in Nat /\ u * Power(5, Fraction) \in Nat \ {0}
      <4>1. \A x, y \in Nat \ {0} : x * y \in Nat \ {0}
        OBVIOUS
      <4> QED
        BY <2>7, <4>1
    <3>3. v * Power(5, Fraction) <= (Power(2, Precision) * u) * Power(5, Fraction)
      BY <2>7, <2>8, <3>1, <3>2, TimesMonotone
    <3>4. (Power(2, Precision) * u) * Power(5, Fraction)
            = Power(2, Precision) * (u * Power(5, Fraction))
      BY <2>7
    <3>5. d <= Power(2, Precision) * (u * Power(5, Fraction))
      BY <3>3, <3>4 DEF Exact
    <3>6. unit * Power(10, n - 1) <= d
      BY <2>5, <2>6
    <3> HIDE DEF d, unit
    <3> QED
      BY <1>1, <2>1, <2>7, <3>2, <3>5, <3>6, UnitBelow
  <2>9. v \in Nat \ {0} /\ v - 1 \in Nat /\ v < Power(2, Precision + Binades)
    BY FloatBound
  <2>10. v - 1 < Power(2, Precision + Binades)
    <3>1. Power(2, Precision + Binades) \in Nat
      BY FloatAssumption, PowerType
    <3> QED
      BY <2>9, <3>1
  <2>11. v < Power(2, Precision) * Ulp(v) /\ v - 1 < Power(2, Precision) * Ulp(v - 1)
    BY <2>9, <2>10, Significand
  <2>12. Ulp(v) \in Nat \ {0} /\ Ulp(v - 1) \in Nat \ {0}
    BY <2>9, UlpType
  <2>13. /\ Power(2, Precision) * Ulp(v) \in Nat
         /\ Power(2, Precision) * Ulp(v - 1) \in Nat
    BY <2>7, <2>12
  <2>14. unit < Upper(v)
    <3>1. v <= Power(2, Precision) * Ulp(v)
      BY <2>9, <2>11, <2>13
    <3> QED
      BY <2>8, <2>12, <3>1 DEF Upper, Exact
  <2>15. unit < Lower(v)
    <3>1. v <= Power(2, Precision) * Ulp(v - 1)
      BY <2>9, <2>11, <2>13
    <3> QED
      BY <2>8, <2>12, <3>1 DEF Lower, Exact
  <2>16. c \in Nat /\ 2 * (c - d) <= unit /\ 2 * (d - c) <= unit
    BY <2>2, <2>7 DEF Rounded
  <2> HIDE DEF c, d, unit
  <2>17. 2 * (c - d) < Upper(v) /\ -(2 * (c - d)) < Lower(v)
    BY <1>1, <1>2, <2>7, <2>14, <2>15, <2>16
  <2> QED
    BY <2>17 DEF Nearest, Upper, Lower, c, d
<1> QED
  BY <1>3, <1>4

-----------------------------------------------------------------------------
\* A decimal that is no further from v than one below it that reads back as v
\* reads back as v.
LEMMA Between ==
  ASSUME NEW v \in Floats, NEW t \in Nat, NEW c \in Nat, Nearest(t, v), t <= c,
         c <= Exact(v) \/ c - Exact(v) <= Exact(v) - t
  PROVE  Nearest(c, v)
<1> DEFINE d == Exact(v)
<1> DEFINE even == (v \div Ulp(v)) % 2 = 0
<1>1. d \in Nat
  BY ExactBound
<1>2. Upper(v) \in Nat \ {0} /\ Lower(v) \in Nat \ {0} /\ Lower(v) <= Upper(v)
  BY Gaps
<1>3. -(2 * (t - d)) < Lower(v) \/ (even /\ -(2 * (t - d)) = Lower(v))
  BY DEF Nearest, Lower
<1>4. SUFFICES /\ 2 * (c - d) < Upper(v) \/ (even /\ 2 * (c - d) = Upper(v))
               /\ -(2 * (c - d)) < Lower(v) \/ (even /\ -(2 * (c - d)) = Lower(v))
  BY DEF Nearest, Upper, Lower
<1> HIDE DEF d, even
<1>5. c <= d \/ c - d <= d - t
  BY DEF d
<1> QED
  BY <1>1, <1>2, <1>3, <1>5

LEMMA RoundedAbove ==
  ASSUME NEW c, NEW d \in Nat, NEW unit \in Nat \ {0}, NEW many \in Nat \ {0},
         Rounded(c, d, unit), unit * many <= d
  PROVE  unit * many <= c /\ c \in Nat
<1>1. PICK k \in Nat : c = k * unit /\ 2 * (d - c) <= unit
  BY DEF Rounded
<1>2. many <= k
  <2> SUFFICES ASSUME k + 1 <= many PROVE FALSE
    BY <1>1
  <2>1. (k + 1) * unit <= many * unit
    BY TimesMonotone
  <2>2. (k + 1) * unit = k * unit + unit /\ many * unit = unit * many
    OBVIOUS
  <2>3. k * unit \in Nat /\ unit * many \in Nat
    OBVIOUS
  <2> QED
    BY <1>1, <2>1, <2>2, <2>3
<1>3. many * unit <= k * unit
  BY <1>2, TimesMonotone
<1> QED
  BY <1>1, <1>3

\* What is printed is never of a smaller magnitude than the number.
LEMMA PrintedText ==
  ASSUME NEW v \in Floats, NEW p \in Nat \ {0}, NEW c, NEW d, NEW m,
         c = Printed(v, p), d = Exact(v), m = Magnitude(d)
  PROVE  /\ c \in Nat \ {0}
         /\ Magnitude(c) \in Nat \ {0}
         /\ Power(10, Magnitude(c) - 1) <= c
         /\ m \in Nat
         /\ c # d => /\ m > p /\ m <= Magnitude(c)
                     /\ Power(10, m - p) \in Nat \ {0} /\ Power(10, m - p) <= d
                     /\ Rounded(c, d, Power(10, m - p))
<1>1. d \in Nat \ {0} /\ 2 * d < Power(10, MostDigits)
  BY ExactBound
<1>2. Power(10, MostDigits) \in Nat
  BY FloatAssumption, PowerType DEF MostDigits
<1>3. m \in Nat \ {0} /\ Power(10, m - 1) <= d
  BY <1>1, <1>2, MagnitudeOf
<1>4. CASE c = d
  BY <1>1, <1>2, <1>3, <1>4, MagnitudeOf
<1>5. CASE c # d
  <2> DEFINE unit == Power(10, m - p)
  <2> DEFINE many == Power(10, p - 1)
  <2>1. m > p /\ Rounded(c, d, unit)
    BY <1>5, PrintedIsRounded
  <2>2. m - p \in Nat /\ p - 1 \in Nat /\ (m - p) + (p - 1) = m - 1
    BY <1>3, <2>1
  <2>3. unit \in Nat \ {0} /\ many \in Nat \ {0}
    BY <2>2, PowerType
  <2>4. unit * many = Power(10, m - 1)
    BY <2>2, PowerAdd
  <2>5. unit <= d
    <3>1. Power(10, m - p) <= Power(10, m - 1)
      BY <1>3, <2>2, PowerMonotone
    <3>2. Power(10, m - 1) \in Nat
      BY <1>3, PowerType
    <3> QED
      BY <1>1, <1>3, <2>3, <3>1, <3>2
  <2>6. Power(10, m - 1) <= c /\ c \in Nat
    <3> HIDE DEF unit, many
    <3>1. unit * many <= d
      BY <1>3, <2>4
    <3>2. unit * many <= c /\ c \in Nat
      BY <1>1, <2>1, <2>3, <3>1, RoundedAbove
    <3> QED
      BY <2>4, <3>2
  <2>7. Power(10, m - 1) \in Nat \ {0}
    BY <1>3, PowerType
  <2>8. 2 * (c - d) <= unit
    BY <2>1 DEF Rounded
  <2> HIDE DEF unit, many
  <2>9. c \in Nat \ {0} /\ c < Power(10, MostDigits)
    BY <1>1, <1>2, <2>3, <2>5, <2>6, <2>7, <2>8
  <2>10. /\ Magnitude(c) \in Nat \ {0} /\ Power(10, Magnitude(c) - 1) <= c
         /\ c < Power(10, Magnitude(c))
    BY <2>9, MagnitudeOf
  <2>11. m <= Magnitude(c)
    <3> SUFFICES ASSUME Magnitude(c) <= m - 1 PROVE FALSE
      BY <1>3, <2>10
    <3>1. Power(10, Magnitude(c)) <= Power(10, m - 1)
      BY <1>3, <2>10, PowerMonotone
    <3>2. Power(10, Magnitude(c)) \in Nat
      BY <2>10, PowerType
    <3> QED
      BY <2>6, <2>7, <2>10, <3>1, <3>2
  <2> QED
    BY <1>3, <2>1, <2>3, <2>5, <2>9, <2>10, <2>11 DEF unit
<1> QED
  BY <1>4, <1>5

-----------------------------------------------------------------------------
\* strtod stops at a point it does not expect: what it reads is below the text,
\* and so far below the number that the text is nearer to it.
LEMMA DivMod ==
  ASSUME NEW c \in Nat, NEW n \in Nat \ {0}
  PROVE  c % n \in Nat /\ c \div n \in Nat /\ c = (c \div n) * n + (c % n)
OBVIOUS

LEMMA StopsAtPoint ==
  ASSUME NEW v \in Floats, NEW p \in Nat \ {0}, NEW c, c = Printed(v, p), NEW d, d = Exact(v),
         HasPoint(c, p), ~Scientific(c, p)
  PROVE  LET t == c - (c % Power(10, Fraction))
         IN t \in Nat /\ t <= c /\ (c <= d \/ c - d <= d - t)
<1> DEFINE m == Magnitude(d)
<1> DEFINE unit == Power(10, m - p)
<1> DEFINE tens == Power(10, Fraction)
<1> DEFINE r == c % tens
<1> DEFINE q == c \div tens
<1>1. d \in Nat \ {0}
  BY ExactBound
<1>2. /\ c \in Nat \ {0} /\ m \in Nat /\ Magnitude(c) \in Nat
      /\ c # d => /\ m > p /\ m <= Magnitude(c)
                  /\ unit \in Nat \ {0} /\ Rounded(c, d, unit)
  BY PrintedText
<1>3. tens \in Nat \ {0} /\ Fraction \in Nat
  BY FloatAssumption, PowerType
<1>4. r # 0
  BY DEF HasPoint
<1>5. Magnitude(c) - 1 - Fraction < p
  BY <1>2, <1>3 DEF Scientific
<1> HIDE DEF m, tens
<1>6. r \in Nat /\ q \in Nat /\ c = q * tens + r
  BY <1>2, <1>3, DivMod
<1> HIDE DEF r, q
<1> DEFINE t == c - r
<1>7. q * tens \in Nat /\ t = q * tens
  BY <1>3, <1>6
<1>8. t \in Nat /\ t < c
  BY <1>4, <1>6, <1>7
<1>9. c <= d \/ c - d <= d - t
  <2> SUFFICES ASSUME c > d PROVE c - d <= d - t
    BY <1>1, <1>2
  <2>1. c # d
    BY <1>1
  <2>2. m - p \in Nat /\ Fraction - (m - p) \in Nat
          /\ (Fraction - (m - p)) + (m - p) = Fraction
    BY <1>2, <1>3, <1>5, <2>1
  <2> DEFINE w == Power(10, Fraction - (m - p))
  <2>3. w \in Nat /\ unit \in Nat \ {0} /\ tens = w * unit
    <3>1. 10 \in Nat \ {0}
      OBVIOUS
    <3>2. w \in Nat \ {0} /\ unit \in Nat \ {0}
      BY <2>2, <3>1, PowerType
    <3> DEFINE e == Fraction - (m - p)
    <3> DEFINE k == m - p
    <3>3. Power(10, e + k) = Power(10, e) * Power(10, k)
      <4>1. e \in Nat /\ k \in Nat
        BY <2>2
      <4> HIDE DEF e, k
      <4> QED
        BY <3>1, <4>1, PowerAdd
    <3> QED
      BY <2>2, <3>2, <3>3 DEF tens
  <2>4. PICK k \in Nat : c = k * unit /\ 2 * (c - d) <= unit
    BY <1>2, <2>1 DEF Rounded
  <2> HIDE DEF unit, w
  <2>5. t = (q * w) * unit /\ q * w \in Nat
    BY <1>6, <1>7, <2>3
  <2> DEFINE j == q * w
  <2> HIDE DEF j, t
  <2>6. t = j * unit /\ j \in Nat
    BY <2>5 DEF j
  <2>7. j < k
    <3> SUFFICES ASSUME k <= j PROVE FALSE
      BY <2>4, <2>6
    <3>1. k * unit <= j * unit
      BY <2>3, <2>4, <2>6, TimesMonotone
    <3> QED
      BY <1>2, <1>8, <2>4, <2>6, <3>1
  <2>8. (j + 1) * unit <= k * unit /\ (j + 1) * unit = j * unit + unit
    <3>1. j + 1 \in Nat /\ j + 1 <= k /\ unit <= unit
      BY <2>3, <2>4, <2>6, <2>7
    <3>2. (j + 1) * unit <= k * unit
      BY <2>3, <2>4, <3>1, TimesMonotone
    <3>3. (j + 1) * unit = j * unit + unit
      BY <2>3, <2>6
    <3> QED
      BY <3>2, <3>3
  <2>9. t + unit <= c
    BY <2>4, <2>6, <2>8
  <2> QED
    BY <1>1, <1>2, <1>8, <2>3, <2>4, <2>9
<1> QED
  BY <1>8, <1>9, <1>1, <1>2 DEF t, r, tens

LEMMA StopsBeforeExponent ==
  ASSUME NEW v \in Floats, NEW p \in Nat \ {0}, NEW c, c = Printed(v, p), NEW d, d = Exact(v),
         Magnitude(c) - 1 - Fraction >= p
  PROVE  LET t == (c \div Power(10, Magnitude(c) - 1)) * Power(10, Fraction)
         IN t \in Nat /\ t <= c /\ (c <= d \/ c - d <= d - t)
<1> DEFINE m == Magnitude(d)
<1> DEFINE n == Magnitude(c)
<1> DEFINE unit == Power(10, m - p)
<1> DEFINE tens == Power(10, Fraction)
<1> DEFINE big == Power(10, n - 1)
<1> DEFINE a == c \div big
<1> DEFINE t == a * tens
<1>1. d \in Nat \ {0}
  BY ExactBound
<1>2. /\ c \in Nat \ {0} /\ n \in Nat \ {0}
      /\ c # d => unit \in Nat \ {0} /\ unit <= d /\ Rounded(c, d, unit)
  BY PrintedText
<1>3. n - 1 - Fraction >= p
  OBVIOUS
<1> HIDE DEF n, m
<1>4. Fraction \in Nat /\ n - 1 \in Nat /\ Fraction + 1 <= n - 1
  <2>1. Fraction \in Nat
    BY FloatAssumption
  <2>2. n \in Nat \ {0} /\ p \in Nat \ {0}
    BY <1>2
  <2> QED
    BY <1>3, <2>1, <2>2
<1>5. tens \in Nat \ {0} /\ big \in Nat \ {0}
  BY <1>4, PowerType
<1>6. 10 * tens <= big
  <2>1. Power(10, Fraction + 1) <= Power(10, n - 1)
    BY <1>4, PowerMonotone
  <2>2. Power(10, Fraction + 1) = 10 * Power(10, Fraction)
    BY <1>4, PowerNext
  <2> QED
    BY <2>1, <2>2
<1> HIDE DEF tens, big
<1>7. a \in Nat /\ a * big <= c
  BY <1>2, <1>5
<1> HIDE DEF a
<1>8. 10 * t <= c /\ t \in Nat
  <2>1. a * (10 * tens) <= a * big
    BY <1>5, <1>6, <1>7, TimesMonotone
  <2>2. a * (10 * tens) = 10 * (a * tens) /\ a * tens \in Nat /\ a * big \in Nat
    BY <1>5, <1>7
  <2> QED
    BY <1>2, <1>7, <2>1, <2>2
<1> HIDE DEF t
<1>9. c <= d \/ c - d <= d - t
  <2> SUFFICES ASSUME c > d PROVE c - d <= d - t
    BY <1>1, <1>2
  <2>1. unit \in Nat \ {0} /\ unit <= d /\ Rounded(c, d, unit)
    BY <1>1, <1>2
  <2>2. PICK k \in Nat : c = k * unit /\ 2 * (c - d) <= unit
    BY <2>1 DEF Rounded
  <2> HIDE DEF unit
  <2>3. 2 * unit <= c
    <3>1. k > 1
      <4>1. k = 0 => c = 0
        BY <2>1, <2>2
      <4>2. k = 1 => c = unit
        BY <2>1, <2>2
      <4> QED
        BY <1>1, <2>1, <2>2, <4>1, <4>2
    <3>2. 2 * unit <= k * unit
      BY <2>1, <2>2, <3>1, TimesMonotone
    <3> QED
      BY <2>2, <3>2
  <2> QED
    BY <1>1, <1>2, <1>8, <2>1, <2>2, <2>3
<1>10. t <= c
  BY <1>2, <1>8
<1> QED
  BY <1>8, <1>9, <1>10 DEF t, a, tens, big, n

\* Of a small number it reads at least the first digit as a whole one: that is far
\* above the number.
LEMMA StopsBeforeSmallExponent ==
  ASSUME NEW v \in Floats, NEW p \in Nat \ {0}, NEW c, c = Printed(v, p),
         Magnitude(c) - 1 - Fraction < -SmallExponent
  PROVE  ~Nearest((c \div Power(10, Magnitude(c) - 1)) * Power(10, Fraction), v)
<1> DEFINE d == Exact(v)
<1> DEFINE n == Magnitude(c)
<1> DEFINE unit == Power(10, Magnitude(d) - p)
<1> DEFINE tens == Power(10, Fraction)
<1> DEFINE big == Power(10, n - 1)
<1> DEFINE a == c \div big
<1> DEFINE t == a * tens
<1>1. d \in Nat \ {0}
  BY ExactBound
<1>2. /\ c \in Nat \ {0} /\ n \in Nat \ {0} /\ big <= c
      /\ c # d => unit \in Nat \ {0} /\ Rounded(c, d, unit)
  BY PrintedText
<1>3. Fraction \in Nat /\ n - 1 \in Nat /\ (n - 1) + 1 <= Fraction
  BY <1>2, FloatAssumption
<1>4. tens \in Nat \ {0} /\ big \in Nat \ {0}
  BY <1>3, PowerType
<1>5. 10 * big <= tens
  <2>1. Power(10, (n - 1) + 1) <= Power(10, Fraction)
    BY <1>3, PowerMonotone
  <2>2. Power(10, (n - 1) + 1) = 10 * Power(10, n - 1)
    BY <1>3, PowerNext
  <2> QED
    BY <2>1, <2>2
<1>6. Upper(v) \in Nat /\ Upper(v) <= d
  <2>1. v \in Nat \ {0} /\ v < Power(2, Precision + Binades)
    BY FloatBound
  <2>2. Ulp(v) \in Nat /\ Ulp(v) <= v /\ Power(5, Fraction) \in Nat
    <3>1. 5 \in Nat \ {0}
      OBVIOUS
    <3>2. Power(5, Fraction) \in Nat
      BY <1>3, <3>1, PowerType
    <3>3. Ulp(v) \in Nat
      BY <2>1, UlpType
    <3> QED
      BY <2>1, <3>2, <3>3, UlpBelow
  <2>3. Ulp(v) * Power(5, Fraction) <= v * Power(5, Fraction)
    BY <2>1, <2>2, TimesMonotone
  <2> QED
    BY <2>3, Gaps DEF Upper, Exact
<1> HIDE DEF n, tens, big
<1>7. a \in Nat \ {0} /\ c < a * big + big
  <2>1. c % big \in Nat /\ c \div big \in Nat /\ c = (c \div big) * big + (c % big)
    BY <1>2, <1>4, DivMod
  <2>2. c % big < big
    BY <1>2, <1>4
  <2>3. c \div big # 0
    BY <1>2, <1>4, <2>1, <2>2
  <2>4. a = c \div big
    OBVIOUS
  <2> HIDE DEF a
  <2> QED
    BY <1>2, <1>4, <2>1, <2>2, <2>3, <2>4
<1> HIDE DEF a
<1>8. 5 * c < t /\ t \in Nat
  <2>1. a * (10 * big) <= a * tens
    BY <1>4, <1>5, <1>7, TimesMonotone
  <2>2. a * (10 * big) = 10 * (a * big) /\ a * big \in Nat /\ a * tens \in Nat
    BY <1>4, <1>7
  <2>3. 1 * big <= a * big
    BY <1>4, <1>7, TimesMonotone
  <2> QED
    BY <1>2, <1>4, <1>7, <2>1, <2>2, <2>3
<1> HIDE DEF t
<1>9. 2 * d <= 3 * c
  <2>1. CASE c = d
    BY <1>2, <2>1
  <2>2. CASE c # d
    <3>1. unit \in Nat \ {0} /\ Rounded(c, d, unit)
      BY <1>2, <2>2
    <3>2. PICK k \in Nat : c = k * unit /\ 2 * (d - c) <= unit
      BY <3>1 DEF Rounded
    <3> HIDE DEF unit
    <3>3. k # 0
      BY <1>2, <3>1, <3>2
    <3>4. 1 * unit <= k * unit
      BY <3>1, <3>3, TimesMonotone
    <3> QED
      BY <1>1, <1>2, <3>1, <3>2, <3>4
  <2> QED
    BY <2>1, <2>2
<1>10. ~Nearest(t, v)
  <2> SUFFICES ASSUME Nearest(t, v) PROVE FALSE
    OBVIOUS
  <2>1. 2 * (t - d) <= Upper(v)
    <3>1. 2 * (t - d) < Upper(v) \/ 2 * (t - d) = Upper(v)
      BY DEF Nearest, Upper
    <3> QED
      BY <1>1, <1>6, <1>8, <3>1
  <2> HIDE DEF d
  <2> QED
    BY <1>1, <1>2, <1>6, <1>8, <1>9, <2>1
<1> QED
  BY <1>10 DEF t, a, tens, big, n

LEMMA EarlyTurn ==
  ASSUME NEW v \in Floats, NEW p \in Nat \ {0}, NEW point,
         Nearest(Strtod(Printed(v, p), p, point), v)
  PROVE  Nearest(Printed(v, p), v)
<1> DEFINE c == Printed(v, p)
<1> DEFINE d == Exact(v)
<1>1. c \in Nat
  BY PrintedText
<1>2. CASE point = "." \/ ~HasPoint(c, p)
  <2>1. Strtod(c, p, point) = c
    <3>1. CASE point = "."
      BY <3>1 DEF Strtod
    <3>2. CASE point # "." /\ ~HasPoint(c, p)
      <4> HIDE DEF c
      <4> QED
        BY <3>2 DEF Strtod
    <3> QED
      BY <1>2, <3>1, <3>2
  <2> QED
    BY <2>1
<1>3. CASE point # "." /\ HasPoint(c, p) /\ Scientific(c, p)
  <2> DEFINE t == (c \div Power(10, Magnitude(c) - 1)) * Power(10, Fraction)
  <2>1. Nearest(t, v)
    BY <1>3 DEF Strtod
  <2>2. CASE Magnitude(c) - 1 - Fraction >= p
    <3>1. t \in Nat /\ t <= c /\ (c <= d \/ c - d <= d - t)
      BY <2>2, StopsBeforeExponent
    <3> HIDE DEF t, c
    <3> QED
      BY <1>1, <2>1, <3>1, Between DEF c
  <2>3. CASE Magnitude(c) - 1 - Fraction < -SmallExponent
    BY <2>1, <2>3, StopsBeforeSmallExponent
  <2> QED
    BY <1>3, <2>2, <2>3 DEF Scientific
<1>4. CASE point # "." /\ HasPoint(c, p) /\ ~Scientific(c, p)
  <2> DEFINE t == c - (c % Power(10, Fraction))
  <2>1. Nearest(t, v)
    BY <1>4 DEF Strtod
  <2>2. t \in Nat /\ t <= c /\ (c <= d \/ c - d <= d - t)
    BY <1>4, StopsAtPoint
  <2> HIDE DEF t, c
  <2> QED
    BY <1>1, <2>1, <2>2, Between DEF c
<1> QED
  BY <1>2, <1>3, <1>4

-----------------------------------------------------------------------------
(* The loop *)

LoopInv ==
  /\ pc \in {"check", "loop", "added", "threw"}
  /\ pc \in {"loop", "added"} => value \in Floats
  /\ precision \in Nat \ {0}
  /\ pc = "added" => Nearest(candidate, value)

LEMMA TryReadsBack ==
  ASSUME LoopInv, NEW point, Try(point)
  PROVE  LoopInv'
<1>1. value \in Floats /\ precision \in Nat \ {0} /\ value' = value
  BY DEF LoopInv, Try
<1>2. candidate' = Printed(value, precision)
  BY DEF Try
<1>3. CASE pc' = "added"
  <2>1. precision' = precision
    BY <1>3 DEF Try
  <2>2. Nearest(Strtod(Printed(value, precision), precision, point), value)
          \/ precision = max_digits10
    BY <1>2, <1>3 DEF Try
  <2>3. Nearest(Printed(value, precision), value)
    BY <1>1, <2>2, EarlyTurn, LastTurn
  <2>4. Nearest(candidate', value')
    BY <1>1, <1>2, <2>3
  <2> QED
    BY <1>1, <1>3, <2>1, <2>4 DEF LoopInv
<1>4. CASE pc' # "added"
  <2>1. pc' = "loop" /\ precision' = precision + 1
    BY <1>4 DEF Try
  <2> QED
    BY <1>1, <2>1 DEF LoopInv
<1> QED
  BY <1>3, <1>4

\* format_float(): for numbers of any width and size, whatever decimal point strtod
\* expects in each turn of the loop, the text that is added reads back as the
\* value: the digits of the last turn are enough, and an earlier turn that stops
\* because strtod has read a part of the text is right about the whole.  Of a text
\* with an exponent, large or small, strtod may read the first digit only: that
\* never reads back as a small number.
THEOREM ValuesReadBack == Spec => []ReadsBack
<1>1. Init => LoopInv
  BY DEF Init, LoopInv
<1>2. LoopInv /\ [Next]_vars => LoopInv'
  <2> SUFFICES ASSUME LoopInv, [Next]_vars PROVE LoopInv'
    OBVIOUS
  <2>1. CASE Throw
    BY <2>1 DEF LoopInv, Throw
  <2>2. CASE Accept
    BY <2>2 DEF LoopInv, Accept
  <2>3. ASSUME NEW point \in Points, Try(point) PROVE LoopInv'
    BY <2>3, TryReadsBack
  <2>4. CASE UNCHANGED vars
    BY <2>4 DEF LoopInv, vars
  <2> QED
    BY <2>1, <2>2, <2>3, <2>4 DEF Next
<1>3. LoopInv => ReadsBack
  BY DEF LoopInv, ReadsBack
<1> QED
  BY <1>1, <1>2, <1>3, PTL DEF Spec

=============================================================================
