----------------------------- MODULE Recursion -----------------------------
(***************************************************************************)
(* Induction on the natural numbers and definition by recursion, stated    *)
(* with sets and functions only: the least of the numbers that go wrong    *)
(* takes the place of an induction schema.                                 *)
(***************************************************************************)
EXTENDS Integers, TLAPS, WellFoundedInduction

-----------------------------------------------------------------------------
(* Induction, as the least of the numbers that go wrong *)

Below == {p \in Nat \X Nat : p[1] < p[2]}

LEMMA Least ==
  ASSUME NEW M \in SUBSET Nat, M # {}
  PROVE  \E m \in M : \A k \in M : m <= k
<1>1. IsWellFoundedOn(Below, Nat)
  BY NatLessThanWellFounded DEF OpToRel, Below
<1>2. PICK m \in M : \A k \in M : ~(<<k, m>> \in Below)
  BY <1>1, WFMin
<1>3. ASSUME NEW k \in M PROVE m <= k
  <2>1. m \in Nat /\ k \in Nat /\ <<k, m>> \in Nat \X Nat
    OBVIOUS
  <2>2. ~(k < m)
    BY <1>2, <2>1 DEF Below
  <2> QED
    BY <2>1, <2>2
<1> QED
  BY <1>3

\* A set of numbers up to N that has 0, and with n - 1 has n, has them all.
LEMMA Inductive ==
  ASSUME NEW N \in Nat, NEW G, 0 \in G,
         \A n \in 1 .. N : n - 1 \in G => n \in G
  PROVE  \A n \in 0 .. N : n \in G
<1> DEFINE bad == {n \in 0 .. N : n \notin G}
<1> SUFFICES ASSUME bad # {} PROVE FALSE
  OBVIOUS
<1>1. PICK m \in bad : \A k \in bad : m <= k
  <2>1. bad \in SUBSET Nat
    OBVIOUS
  <2> HIDE DEF bad
  <2> QED
    BY <2>1, Least
<1>2. m \in 1 .. N /\ m - 1 \in 0 .. N
  OBVIOUS
<1>3. m - 1 \notin bad
  BY <1>1, <1>2
<1> QED
  BY <1>2, <1>3

\* A function on 0 .. N can be defined step by step.
IsStep(step, S, N) == step \in [S \X (1 .. N) -> S]

Steps(f, S, base, N, step) ==
  /\ f \in [0 .. N -> S]
  /\ f[0] = base /\ \A n \in 1 .. N : f[n] = step[<<f[n - 1], n>>]

LEMMA RecursionExists ==
  ASSUME NEW S, NEW base \in S, NEW N \in Nat, NEW step, IsStep(step, S, N)
  PROVE  \E f : Steps(f, S, base, N, step)
<1> USE DEF IsStep
<1> DEFINE Upto(n) == {f \in [0 .. n -> S] :
             f[0] = base /\ \A i \in 1 .. n : f[i] = step[<<f[i - 1], i>>]}
<1> DEFINE G == {n \in 0 .. N : Upto(n) # {}}
<1>1. 0 \in G
  <2>1. [n \in 0 .. 0 |-> base] \in Upto(0)
    OBVIOUS
  <2> QED
    BY <2>1
<1>2. ASSUME NEW n \in 1 .. N, n - 1 \in G PROVE n \in G
  <2>1. PICK f : f \in Upto(n - 1)
    BY <1>2
  <2>2. f \in [0 .. n - 1 -> S] /\ n \in Nat /\ n - 1 \in 0 .. n - 1
    BY <2>1
  <2> DEFINE g == [i \in 0 .. n |-> IF i = n THEN step[<<f[n - 1], n>>] ELSE f[i]]
  <2>3. step[<<f[n - 1], n>>] \in S
    BY <2>2
  <2>4. g \in [0 .. n -> S]
    BY <2>2, <2>3
  <2>5. g[0] = base
    BY <2>1
  <2>6. ASSUME NEW i \in 1 .. n PROVE g[i] = step[<<g[i - 1], i>>]
    <3>1. CASE i = n
      <4>1. g[n] = step[<<f[n - 1], n>>] /\ g[n - 1] = f[n - 1]
        BY <2>2
      <4> QED
        BY <3>1, <4>1
    <3>2. CASE i # n
      <4>1. i \in 1 .. n - 1 /\ i \in 0 .. n /\ i - 1 \in 0 .. n /\ i - 1 # n
        BY <3>2
      <4>2. g[i] = f[i] /\ g[i - 1] = f[i - 1]
        BY <4>1, <3>2
      <4>3. f[i] = step[<<f[i - 1], i>>]
        BY <2>1, <4>1
      <4> QED
        BY <4>2, <4>3
    <3> QED
      BY <3>1, <3>2
  <2>7. g \in Upto(n)
    <3> HIDE DEF g
    <3> QED
      BY <2>4, <2>5, <2>6
  <2>8. n \in 0 .. N
    OBVIOUS
  <2> HIDE DEF g, Upto
  <2> QED
    BY <2>7, <2>8
<1>3. N \in G
  <2> HIDE DEF G
  <2> QED
    BY <1>1, <1>2, Inductive
<1>4. PICK f : f \in Upto(N)
  BY <1>3
<1>5. Steps(f, S, base, N, step)
  BY <1>4 DEF Steps
<1> QED
  BY <1>5

=============================================================================
