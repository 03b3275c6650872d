---------------------------- MODULE CLinesProofs ----------------------------
(***************************************************************************)
(* Theorems about the text of lines: from the C calls to the points that a *)
(* server reads, for texts of any length.                                  *)
(***************************************************************************)
EXTENDS CLines, Recursion, SequenceTheorems

-----------------------------------------------------------------------------
(* Induction on sequences *)

\* A set that has the empty sequence, and with a sequence all that are longer by
\* one, has every sequence.
LEMMA SeqInduction ==
  ASSUME NEW S, NEW G, <<>> \in G,
         \A s \in Seq(S), e \in S : s \in G => Append(s, e) \in G
  PROVE  \A s \in Seq(S) : s \in G
<1> SUFFICES ASSUME NEW s \in Seq(S) PROVE s \in G
  OBVIOUS
<1> DEFINE N == Len(s)
<1> DEFINE H == {k \in 0 .. N : SubSeq(s, 1, k) \in G}
<1>1. 0 \in H
  <2>1. SubSeq(s, 1, 0) = <<>>
    OBVIOUS
  <2>2. SubSeq(s, 1, 0) \in G
    BY <2>1
  <2>3. 0 \in 0 .. Len(s)
    OBVIOUS
  <2> QED
    BY <2>2, <2>3
<1>2. ASSUME NEW k \in 1 .. N, k - 1 \in H PROVE k \in H
  <2>1. s[k] \in S /\ SubSeq(s, 1, k - 1) \in Seq(S)
    OBVIOUS
  <2>2. SubSeq(s, 1, k) = Append(SubSeq(s, 1, k - 1), s[k])
    OBVIOUS
  <2>3. SubSeq(s, 1, k - 1) \in G
    BY <1>2
  <2>4. SubSeq(s, 1, k) \in G
    BY <2>1, <2>2, <2>3
  <2>5. k \in 0 .. Len(s)
    OBVIOUS
  <2> QED
    BY <2>4, <2>5
<1>3. N \in H
  <2>1. N \in Nat
    OBVIOUS
  <2> HIDE DEF H, N
  <2>2. \A k \in 1 .. N : k - 1 \in H => k \in H
    BY <1>2
  <2>3. \A k \in 0 .. N : k \in H
    BY <1>1, <2>1, <2>2, Inductive
  <2>4. N \in 0 .. N
    BY <2>1
  <2> QED
    BY <2>3, <2>4
<1>4. SubSeq(s, 1, Len(s)) = s
  OBVIOUS
<1> QED
  BY <1>3, <1>4

-----------------------------------------------------------------------------
(* Pieces *)

\* The texts over the tokens S, and their pieces: at least one.
Words(S) == Seq(S)
Cuts(S) == {ps \in Seq(Words(S)) : Len(ps) > 0}

LEMMA WordsType ==
  ASSUME NEW S
  PROVE  /\ <<>> \in Words(S)
         /\ \A w \in Words(S), t \in S : Append(w, t) \in Words(S)
BY DEF Words

LEMMA ExceptConcat ==
  ASSUME NEW Z, NEW ps \in Seq(Z), NEW qs \in Seq(Z), Len(qs) > 0, NEW e \in Z
  PROVE  [ps \o qs EXCEPT ![Len(ps \o qs)] = e] = ps \o [qs EXCEPT ![Len(qs)] = e]
<1> DEFINE r == [qs EXCEPT ![Len(qs)] = e]
<1> DEFINE l == Len(ps) + Len(qs)
<1>1. r \in Seq(Z) /\ Len(r) = Len(qs)
  OBVIOUS
<1>2. Len(ps \o qs) = l /\ ps \o qs \in Seq(Z) /\ l \in Nat
  OBVIOUS
<1>3. ps \o r \in Seq(Z) /\ Len(ps \o r) = l
  <2> HIDE DEF r
  <2> QED
    BY <1>1
<1> DEFINE x == [ps \o qs EXCEPT ![l] = e]
<1>4. x \in Seq(Z) /\ Len(x) = l
  BY <1>2
<1>5. ASSUME NEW i \in 1 .. l PROVE x[i] = (ps \o r)[i]
  <2>1. x[i] = IF i = l THEN e ELSE (ps \o qs)[i]
    <3>1. \A w \in Seq(Z) : Len(w) = l =>
            [w EXCEPT ![l] = e][i] = IF i = l THEN e ELSE w[i]
      OBVIOUS
    <3> QED
      BY <1>2, <3>1
  <2>2. (ps \o qs)[i] = IF i <= Len(ps) THEN ps[i] ELSE qs[i - Len(ps)]
    BY ConcatProperties
  <2>3. (ps \o r)[i] = IF i <= Len(ps) THEN ps[i] ELSE r[i - Len(ps)]
    <3> HIDE DEF r
    <3> QED
      BY <1>1, ConcatProperties
  <2>4. i > Len(ps) => r[i - Len(ps)] = IF i = l THEN e ELSE qs[i - Len(ps)]
    OBVIOUS
  <2>5. i <= Len(ps) => i # l
    OBVIOUS
  <2> HIDE DEF x, r
  <2> QED
    BY <2>1, <2>2, <2>3, <2>4, <2>5
<1>6. x = ps \o r
  <2> HIDE DEF x, r, l
  <2> QED
    BY <1>3, <1>4, <1>5, SeqEqual
<1> QED
  BY <1>2, <1>6

LEMMA CutType ==
  ASSUME NEW S, NEW ps \in Cuts(S), NEW t \in S, NEW sep
  PROVE  /\ Cut(ps, t, sep) \in Cuts(S)
         /\ t = sep => Cut(ps, t, sep) = Append(ps, <<>>)
         /\ t # sep => Cut(ps, t, sep) = [ps EXCEPT ![Len(ps)] = Append(ps[Len(ps)], t)]
<1>1. ps \in Seq(Words(S)) /\ Len(ps) \in 1 .. Len(ps) /\ ps[Len(ps)] \in Words(S)
  BY DEF Cuts
<1>2. CASE t = sep
  BY <1>1, <1>2, WordsType DEF Cut, Cuts
<1>3. CASE t # sep
  <2>1. Append(ps[Len(ps)], t) \in Words(S)
    BY <1>1, WordsType
  <2>2. Cut(ps, t, sep) = [ps EXCEPT ![Len(ps)] = Append(ps[Len(ps)], t)]
    BY <1>1, <1>3 DEF Cut
  <2>3. /\ [ps EXCEPT ![Len(ps)] = Append(ps[Len(ps)], t)] \in Seq(Words(S))
        /\ Len([ps EXCEPT ![Len(ps)] = Append(ps[Len(ps)], t)]) = Len(ps)
    BY <1>1, <2>1, ExceptSeq
  <2> QED
    BY <1>1, <1>3, <2>2, <2>3 DEF Cuts
<1> QED
  BY <1>2, <1>3

LEMMA CutConcat ==
  ASSUME NEW S, NEW ps \in Cuts(S), NEW qs \in Cuts(S), NEW t \in S, NEW sep
  PROVE  /\ ps \o qs \in Cuts(S)
         /\ Cut(ps \o qs, t, sep) = ps \o Cut(qs, t, sep)
<1>1. /\ ps \in Seq(Words(S)) /\ qs \in Seq(Words(S)) /\ ps \o qs \in Seq(Words(S))
      /\ Len(ps) \in Nat /\ Len(qs) \in Nat \ {0} /\ Len(ps \o qs) = Len(ps) + Len(qs)
  BY DEF Cuts
<1>2. ps \o qs \in Cuts(S)
  BY <1>1 DEF Cuts
<1>3. CASE t = sep
  <2>1. PICK none : none = <<>>
    OBVIOUS
  <2>2. none \in Words(S)
    BY <2>1, WordsType
  <2>3. Append(ps \o qs, none) = ps \o Append(qs, none)
    BY <1>1, <2>2
  <2> QED
    BY <1>2, <1>3, <2>1, <2>3 DEF Cut
<1>4. CASE t # sep
  <2> DEFINE e == Append(qs[Len(qs)], t)
  <2>1. e \in Words(S)
    BY <1>1, WordsType
  <2>2. (ps \o qs)[Len(ps \o qs)] = qs[Len(qs)]
    BY <1>1
  <2>3. /\ Cut(ps \o qs, t, sep) = [ps \o qs EXCEPT ![Len(ps \o qs)] = e]
        /\ Cut(qs, t, sep) = [qs EXCEPT ![Len(qs)] = e]
    BY <1>4, <2>2 DEF Cut
  <2> HIDE DEF e
  <2>4. [ps \o qs EXCEPT ![Len(ps \o qs)] = e] = ps \o [qs EXCEPT ![Len(qs)] = e]
    BY <1>1, <2>1, ExceptConcat
  <2> QED
    BY <1>2, <2>3, <2>4
<1> QED
  BY <1>3, <1>4

-----------------------------------------------------------------------------
LEMMA OneWordCut ==
  ASSUME NEW S, NEW w \in Words(S)
  PROVE  <<w>> \in Cuts(S)
BY DEF Cuts

\* The pieces of each prefix of a text.
PiecesDef(f, text, sep) ==
  f = [n \in 0 .. Len(text) |->
         IF n = 0 THEN << <<>> >> ELSE Cut(f[n - 1], text[n], sep)]

PiecesTable(text, sep) == CHOOSE f : PiecesDef(f, text, sep)

LEMMA PiecesByPrefix ==
  ASSUME NEW S, NEW text \in Seq(S), NEW sep
  PROVE  LET f == PiecesTable(text, sep)
         IN /\ f[0] = << <<>> >>
            /\ \A n \in 1 .. Len(text) : f[n] = Cut(f[n - 1], text[n], sep)
            /\ \A n \in 0 .. Len(text) : f[n] \in Cuts(S)
            /\ Pieces(text, sep) = f[Len(text)]
<1> DEFINE N == Len(text)
<1> DEFINE step == [p \in Cuts(S) \X (1 .. N) |-> Cut(p[1], text[p[2]], sep)]
<1>1. PICK start : start = << <<>> >>
  OBVIOUS
<1>2. start \in Cuts(S)
  BY <1>1, OneWordCut, WordsType
<1>3. \A n \in 1 .. N : text[n] \in S
  OBVIOUS
<1>4. N \in Nat
  OBVIOUS
<1> HIDE DEF N
<1>5. PICK g : Steps(g, Cuts(S), start, N, step)
  <2>1. IsStep(step, Cuts(S), N)
    BY <1>3, CutType DEF IsStep
  <2> HIDE DEF step
  <2> QED
    BY <1>2, <1>4, <2>1, RecursionExists
<1>6. ASSUME NEW n \in 1 .. N PROVE g[n] = Cut(g[n - 1], text[n], sep)
  <2>1. n - 1 \in 0 .. N
    BY <1>4
  <2>2. <<g[n - 1], n>> \in Cuts(S) \X (1 .. N)
    BY <1>5, <2>1 DEF Steps
  <2> QED
    BY <1>5, <2>2 DEF Steps
<1>7. \A n \in 0 .. N : g[n] = IF n = 0 THEN start ELSE Cut(g[n - 1], text[n], sep)
  BY <1>4, <1>5, <1>6 DEF Steps
<1>8. PiecesDef(g, text, sep)
  <2>1. g = [n \in 0 .. N |-> IF n = 0 THEN start ELSE Cut(g[n - 1], text[n], sep)]
    <3> HIDE DEF step
    <3> QED
      BY <1>5, <1>7 DEF Steps
  <2> QED
    BY <1>1, <2>1 DEF PiecesDef, N
<1> DEFINE f == PiecesTable(text, sep)
<1>9. f = [n \in 0 .. N |-> IF n = 0 THEN start ELSE Cut(f[n - 1], text[n], sep)]
  <2>1. PiecesDef(f, text, sep)
    BY <1>8 DEF PiecesTable
  <2> HIDE DEF f
  <2> QED
    BY <1>1, <2>1 DEF PiecesDef, N
<1> HIDE DEF f, step
<1>10. f[0] = start /\ \A n \in 1 .. N : f[n] = Cut(f[n - 1], text[n], sep)
  <2>1. 0 \in 0 .. N /\ \A n \in 1 .. N : n \in 0 .. N /\ n # 0
    BY <1>4
  <2> QED
    BY <1>9, <2>1
<1>11. \A n \in 0 .. N : f[n] \in Cuts(S)
  <2> DEFINE G == {n \in 0 .. N : f[n] \in Cuts(S)}
  <2>1. 0 \in G
    BY <1>2, <1>4, <1>10
  <2>2. ASSUME NEW n \in 1 .. N, n - 1 \in G PROVE n \in G
    <3>1. f[n - 1] \in Cuts(S)
      BY <2>2
    <3>2. f[n] \in Cuts(S)
      BY <1>3, <1>10, <3>1, CutType
    <3> QED
      BY <3>2
  <2>3. \A n \in 0 .. N : n \in G
    <3> HIDE DEF G
    <3> QED
      BY <1>4, <2>1, <2>2, Inductive
  <2> QED
    BY <2>3
<1>12. Pieces(text, sep) = f[N]
  BY DEF Pieces, PiecesTable, PiecesDef, f, N
<1> QED
  BY <1>1, <1>10, <1>11, <1>12 DEF f, N

LEMMA PiecesType ==
  ASSUME NEW S, NEW text \in Seq(S), NEW sep
  PROVE  Pieces(text, sep) \in Cuts(S)
<1>1. Len(text) \in 0 .. Len(text)
  OBVIOUS
<1> QED
  BY <1>1, PiecesByPrefix

LEMMA PiecesEmpty ==
  ASSUME NEW sep
  PROVE  Pieces(<<>>, sep) = << <<>> >>
<1>1. PICK none : none = <<>>
  OBVIOUS
<1>2. none \in Seq({}) /\ Len(none) = 0
  BY <1>1
<1>3. PiecesTable(none, sep)[0] = << <<>> >> /\ Pieces(none, sep) = PiecesTable(none, sep)[0]
  BY <1>2, PiecesByPrefix
<1> QED
  BY <1>1, <1>3

-----------------------------------------------------------------------------
\* The last token of a text is the last that is cut.
LEMMA PiecesAppend ==
  ASSUME NEW S, NEW text \in Seq(S), NEW t \in S, NEW sep
  PROVE  Pieces(Append(text, t), sep) = Cut(Pieces(text, sep), t, sep)
<1> DEFINE f == PiecesTable(text, sep)
<1> DEFINE g == PiecesTable(Append(text, t), sep)
<1> DEFINE N == Len(text)
<1>1. PICK long : long = Append(text, t)
  OBVIOUS
<1>2. /\ long \in Seq(S) /\ Len(long) = N + 1 /\ N \in Nat
      /\ long[N + 1] = t /\ \A n \in 1 .. N : long[n] = text[n]
  BY <1>1
<1>3. /\ f[0] = << <<>> >> /\ \A n \in 1 .. N : f[n] = Cut(f[n - 1], text[n], sep)
      /\ Pieces(text, sep) = f[N]
  BY PiecesByPrefix
<1>4. /\ g[0] = << <<>> >> /\ \A n \in 1 .. N + 1 : g[n] = Cut(g[n - 1], long[n], sep)
      /\ Pieces(long, sep) = g[N + 1]
  <2>1. LET h == PiecesTable(long, sep)
        IN /\ h[0] = << <<>> >>
           /\ \A n \in 1 .. Len(long) : h[n] = Cut(h[n - 1], long[n], sep)
           /\ Pieces(long, sep) = h[Len(long)]
    BY <1>2, PiecesByPrefix
  <2>2. g = PiecesTable(long, sep)
    BY <1>1
  <2> HIDE DEF g, N
  <2> QED
    BY <1>2, <2>1, <2>2
<1> HIDE DEF f, g, N
<1> DEFINE G == {n \in 0 .. N : g[n] = f[n]}
<1>5. 0 \in G
  <2>1. g[0] = f[0]
    BY <1>3, <1>4
  <2> QED
    BY <1>2, <2>1
<1>6. ASSUME NEW n \in 1 .. N, n - 1 \in G PROVE n \in G
  <2>1. n \in 1 .. N + 1 /\ g[n - 1] = f[n - 1]
    BY <1>2, <1>6
  <2>2. g[n] = f[n]
    BY <1>2, <1>3, <1>4, <2>1
  <2> QED
    BY <2>2
<1>7. N \in G
  <2>1. N \in Nat /\ N \in 0 .. N
    BY <1>2
  <2>2. \A n \in 1 .. N : n - 1 \in G => n \in G
    BY <1>6
  <2> HIDE DEF G
  <2> QED
    BY <1>5, <2>1, <2>2, Inductive
<1>8. g[N + 1] = Cut(g[N], t, sep)
  <2>1. N + 1 \in 1 .. N + 1 /\ (N + 1) - 1 = N
    BY <1>2
  <2> QED
    BY <1>2, <1>4, <2>1
<1> QED
  BY <1>1, <1>3, <1>4, <1>7, <1>8

\* A text without the separator is its one piece.
LEMMA PiecesWhole ==
  ASSUME NEW S, NEW sep, sep \notin S
  PROVE  \A text \in Seq(S) : Pieces(text, sep) = <<text>>
<1> DEFINE G == {text \in Seq(S) : Pieces(text, sep) = <<text>>}
<1>1. <<>> \in G
  BY PiecesEmpty
<1>2. ASSUME NEW text \in Seq(S), NEW t \in S, text \in G PROVE Append(text, t) \in G
  <2>1. Pieces(text, sep) = <<text>> /\ t # sep
    BY <1>2
  <2>2. Pieces(Append(text, t), sep) = Cut(<<text>>, t, sep)
    BY <2>1, PiecesAppend
  <2>3. Cut(<<text>>, t, sep) = <<Append(text, t)>>
    BY <2>1 DEF Cut
  <2>4. Append(text, t) \in Seq(S)
    OBVIOUS
  <2> QED
    BY <2>2, <2>3, <2>4
<1>3. \A text \in Seq(S) : text \in G
  <2> HIDE DEF G
  <2> QED
    BY <1>1, <1>2, SeqInduction
<1> QED
  BY <1>3

\* At a separator a text can be cut in two.
LEMMA PiecesSplit ==
  ASSUME NEW S, NEW a \in Seq(S), NEW sep \in S
  PROVE  \A b \in Seq(S) :
           Pieces(Append(a, sep) \o b, sep) = Pieces(a, sep) \o Pieces(b, sep)
<1> DEFINE P(text) == Pieces(text, sep)
<1> DEFINE G == {b \in Seq(S) : P(Append(a, sep) \o b) = P(a) \o P(b)}
<1>1. P(a) \in Cuts(S)
  BY PiecesType
<1>2. <<>> \in G
  <2>1. Append(a, sep) \o <<>> = Append(a, sep)
    OBVIOUS
  <2>2. P(Append(a, sep)) = Cut(P(a), sep, sep)
    BY PiecesAppend
  <2>3. Cut(P(a), sep, sep) = P(a) \o << <<>> >>
    <3> HIDE DEF P
    <3> QED
      BY <1>1 DEF Cut, Cuts
  <2>4. P(<<>>) = << <<>> >>
    BY PiecesEmpty
  <2>5. P(Append(a, sep) \o <<>>) = P(a) \o P(<<>>)
    BY <2>1, <2>2, <2>3, <2>4
  <2>6. <<>> \in Seq(S)
    OBVIOUS
  <2> HIDE DEF P
  <2> QED
    BY <2>5, <2>6
<1>3. ASSUME NEW b \in Seq(S), NEW t \in S, b \in G PROVE Append(b, t) \in G
  <2>1. P(Append(a, sep) \o b) = P(a) \o P(b)
    BY <1>3
  <2>2. PICK ab : ab = Append(a, sep) \o b
    OBVIOUS
  <2>3. ab \in Seq(S) /\ Append(a, sep) \o Append(b, t) = Append(ab, t)
    BY <2>2
  <2>4. P(Append(ab, t)) = Cut(P(ab), t, sep)
    BY <2>3, PiecesAppend
  <2>5. P(Append(b, t)) = Cut(P(b), t, sep)
    BY PiecesAppend
  <2>6. P(b) \in Cuts(S)
    BY PiecesType
  <2> HIDE DEF P
  <2>7. Cut(P(a) \o P(b), t, sep) = P(a) \o Cut(P(b), t, sep)
    BY <1>1, <2>6, CutConcat
  <2>8. P(Append(a, sep) \o Append(b, t)) = P(a) \o P(Append(b, t))
    BY <2>1, <2>2, <2>3, <2>4, <2>5, <2>7
  <2>9. Append(b, t) \in Seq(S)
    OBVIOUS
  <2> QED
    BY <2>8, <2>9
<1>4. \A b \in Seq(S) : b \in G
  <2> HIDE DEF G
  <2> QED
    BY <1>2, <1>3, SeqInduction
<1> QED
  BY <1>4

-----------------------------------------------------------------------------
(* FlattenSeq, of the community modules *)

FlatDef(f, ss) ==
  f = [i \in 1 .. Len(ss) |-> IF i = 1 THEN ss[i] ELSE f[i - 1] \o ss[i]]

FlatTable(ss) == CHOOSE f : FlatDef(f, ss)

LEMMA FlattenByPrefix ==
  ASSUME NEW S, NEW ss \in Seq(Words(S)), Len(ss) > 0
  PROVE  LET f == FlatTable(ss)
         IN /\ f[1] = ss[1]
            /\ \A n \in 2 .. Len(ss) : f[n] = f[n - 1] \o ss[n]
            /\ \A n \in 1 .. Len(ss) : f[n] \in Words(S)
            /\ FlattenSeq(ss) = f[Len(ss)]
<1> DEFINE N == Len(ss)
<1> DEFINE step == [p \in Words(S) \X (1 .. N) |->
             IF p[2] = 1 THEN ss[1] ELSE p[1] \o ss[p[2]]]
<1>1. PICK start : start = <<>>
  OBVIOUS
<1>2. start \in Words(S)
  BY <1>1, WordsType
<1>3. N \in Nat /\ N > 0 /\ \A n \in 1 .. N : ss[n] \in Words(S)
  OBVIOUS
<1> HIDE DEF N
<1>4. \A a, b \in Words(S) : a \o b \in Words(S)
  BY DEF Words
<1>5. PICK g : Steps(g, Words(S), start, N, step)
  <2>1. IsStep(step, Words(S), N)
    <3>1. 1 \in 1 .. N
      BY <1>3
    <3> QED
      BY <1>3, <1>4, <3>1 DEF IsStep
  <2> HIDE DEF step
  <2> QED
    BY <1>2, <1>3, <2>1, RecursionExists
<1>6. ASSUME NEW n \in 1 .. N
      PROVE  g[n] = (IF n = 1 THEN ss[1] ELSE g[n - 1] \o ss[n]) /\ g[n] \in Words(S)
  <2>1. n - 1 \in 0 .. N /\ n \in 0 .. N
    BY <1>3
  <2>2. g[n - 1] \in Words(S) /\ g[n] \in Words(S) /\ g[n] = step[<<g[n - 1], n>>]
    <3> HIDE DEF step
    <3> QED
      BY <1>5, <2>1 DEF Steps
  <2>3. <<g[n - 1], n>> \in Words(S) \X (1 .. N)
    BY <2>2
  <2> QED
    BY <2>2, <2>3
<1> HIDE DEF step
<1> DEFINE h == [n \in 1 .. N |-> g[n]]
<1>7. FlatDef(h, ss)
  <2>1. \A n \in 1 .. N : n # 1 => n - 1 \in 1 .. N
    BY <1>3
  <2>2. \A n \in 1 .. N : h[n] = IF n = 1 THEN ss[n] ELSE h[n - 1] \o ss[n]
    BY <1>6, <2>1
  <2> DEFINE k == [n \in 1 .. N |-> IF n = 1 THEN ss[n] ELSE h[n - 1] \o ss[n]]
  <2>3. h = k
    BY <2>2
  <2> HIDE DEF h
  <2> QED
    BY <2>3 DEF FlatDef, N
<1> DEFINE f == FlatTable(ss)
<1>8. f = [n \in 1 .. N |-> IF n = 1 THEN ss[n] ELSE f[n - 1] \o ss[n]]
  <2>1. FlatDef(f, ss)
    BY <1>7 DEF FlatTable
  <2> HIDE DEF f
  <2> QED
    BY <2>1 DEF FlatDef, N
<1> HIDE DEF f, h
<1>9. f[1] = ss[1] /\ \A n \in 2 .. N : f[n] = f[n - 1] \o ss[n]
  <2>1. 1 \in 1 .. N /\ \A n \in 2 .. N : n \in 1 .. N /\ n # 1
    BY <1>3
  <2> QED
    BY <1>8, <2>1
<1>10. \A n \in 1 .. N : f[n] \in Words(S)
  <2> DEFINE G == {n \in 0 .. N : n = 0 \/ f[n] \in Words(S)}
  <2>1. 0 \in G
    BY <1>3
  <2>2. ASSUME NEW n \in 1 .. N, n - 1 \in G PROVE n \in G
    <3>1. CASE n = 1
      <4>1. ss[1] \in Words(S)
        BY <1>3, <3>1
      <4> QED
        BY <1>9, <3>1, <4>1
    <3>2. CASE n # 1
      <4>1. n \in 2 .. N /\ n - 1 # 0
        BY <1>3, <3>2
      <4>2. f[n - 1] \in Words(S)
        BY <2>2, <4>1
      <4>3. f[n] \in Words(S)
        BY <1>3, <1>4, <1>9, <4>1, <4>2
      <4> QED
        BY <4>3
    <3> QED
      BY <3>1, <3>2
  <2>3. \A n \in 0 .. N : n \in G
    <3> HIDE DEF G
    <3> QED
      BY <1>3, <2>1, <2>2, Inductive
  <2> QED
    BY <1>3, <2>3
<1>11. FlattenSeq(ss) = f[N]
  BY <1>3 DEF FlattenSeq, FlatTable, FlatDef, f, N
<1> QED
  BY <1>9, <1>10, <1>11 DEF f, N

LEMMA FlattenEmpty == FlattenSeq(<<>>) = <<>>
BY DEF FlattenSeq

LEMMA FlattenType ==
  ASSUME NEW S, NEW ss \in Seq(Words(S))
  PROVE  FlattenSeq(ss) \in Words(S)
<1>1. CASE Len(ss) = 0
  <2>1. FlattenSeq(ss) = <<>>
    BY <1>1 DEF FlattenSeq
  <2> QED
    BY <2>1, WordsType
<1>2. CASE Len(ss) > 0
  <2>1. Len(ss) \in 1 .. Len(ss)
    BY <1>2
  <2> QED
    BY <1>2, <2>1, FlattenByPrefix
<1>3. Len(ss) \in Nat
  OBVIOUS
<1> QED
  BY <1>1, <1>2, <1>3

LEMMA FlattenAppend ==
  ASSUME NEW S, NEW ss \in Seq(Words(S)), NEW w \in Words(S)
  PROVE  FlattenSeq(Append(ss, w)) = FlattenSeq(ss) \o w
<1> DEFINE N == Len(ss)
<1> DEFINE f == FlatTable(ss)
<1>1. PICK long : long = Append(ss, w)
  OBVIOUS
<1>2. /\ long \in Seq(Words(S)) /\ Len(long) = N + 1 /\ N \in Nat
      /\ long[N + 1] = w /\ \A n \in 1 .. N : long[n] = ss[n]
  BY <1>1
<1> DEFINE g == FlatTable(long)
<1>3. /\ g[1] = long[1] /\ \A n \in 2 .. N + 1 : g[n] = g[n - 1] \o long[n]
      /\ FlattenSeq(long) = g[N + 1]
  <2>1. LET h == FlatTable(long)
        IN /\ h[1] = long[1] /\ \A n \in 2 .. Len(long) : h[n] = h[n - 1] \o long[n]
           /\ FlattenSeq(long) = h[Len(long)]
    <3>1. long \in Seq(Words(S)) /\ Len(long) > 0
      BY <1>2
    <3> QED
      BY <3>1, FlattenByPrefix
  <2> HIDE DEF N
  <2> QED
    BY <1>2, <2>1
<1>4. CASE N = 0
  <2>1. ss = <<>> /\ FlattenSeq(ss) = <<>>
    BY <1>4 DEF FlattenSeq
  <2>2. FlattenSeq(long) = w
    BY <1>2, <1>3, <1>4
  <2>3. w \in Seq(S)
    BY DEF Words
  <2>4. <<>> \o w = w
    BY <2>3
  <2> QED
    BY <1>1, <2>1, <2>2, <2>4
<1>5. CASE N # 0
  <2>1. /\ f[1] = ss[1] /\ \A n \in 2 .. N : f[n] = f[n - 1] \o ss[n]
        /\ FlattenSeq(ss) = f[N]
    <3>1. Len(ss) > 0
      BY <1>2, <1>5
    <3> QED
      BY <3>1, FlattenByPrefix
  <2> HIDE DEF f, g, N
  <2> DEFINE G == {n \in 0 .. N : n = 0 \/ g[n] = f[n]}
  <2>2. 0 \in G
    BY <1>2
  <2>3. ASSUME NEW n \in 1 .. N, n - 1 \in G PROVE n \in G
    <3>1. CASE n = 1
      <4>1. g[1] = f[1]
        BY <1>2, <1>3, <2>1, <3>1
      <4> QED
        BY <3>1, <4>1
    <3>2. CASE n # 1
      <4>1. n \in 2 .. N /\ n \in 2 .. N + 1 /\ g[n - 1] = f[n - 1]
        BY <1>2, <2>3, <3>2
      <4>2. g[n] = f[n]
        BY <1>2, <1>3, <2>1, <4>1
      <4> QED
        BY <4>2
    <3> QED
      BY <3>1, <3>2
  <2>4. N \in G
    <3>1. N \in Nat /\ N \in 0 .. N
      BY <1>2
    <3>2. \A n \in 1 .. N : n - 1 \in G => n \in G
      BY <2>3
    <3> HIDE DEF G
    <3> QED
      BY <2>2, <3>1, <3>2, Inductive
  <2>5. g[N + 1] = g[N] \o w
    <3>1. N + 1 \in 2 .. N + 1 /\ (N + 1) - 1 = N
      BY <1>2, <1>5
    <3> QED
      BY <1>2, <1>3, <3>1
  <2> QED
    BY <1>1, <1>3, <1>5, <2>1, <2>4, <2>5
<1> QED
  BY <1>4, <1>5

LEMMA JoinAssociative ==
  ASSUME NEW S
  PROVE  \A x, y, z \in Words(S) : (x \o y) \o z = x \o (y \o z)
  BY DEF Words

LEMMA FlattenConcat ==
  ASSUME NEW S, NEW a \in Seq(Words(S))
  PROVE  \A b \in Seq(Words(S)) : FlattenSeq(a \o b) = FlattenSeq(a) \o FlattenSeq(b)
<1> DEFINE G == {b \in Seq(Words(S)) : FlattenSeq(a \o b) = FlattenSeq(a) \o FlattenSeq(b)}
<1>1. FlattenSeq(a) \in Words(S)
  BY FlattenType
<1>2. <<>> \in G
  <2>1. a \o <<>> = a
    OBVIOUS
  <2>2. \A w \in Words(S) : w \o <<>> = w
    BY DEF Words
  <2>3. <<>> \in Seq(Words(S))
    OBVIOUS
  <2> QED
    BY <1>1, <2>1, <2>2, <2>3, FlattenEmpty
<1>3. ASSUME NEW b \in Seq(Words(S)), NEW w \in Words(S), b \in G PROVE Append(b, w) \in G
  <2>1. a \o Append(b, w) = Append(a \o b, w) /\ a \o b \in Seq(Words(S))
    OBVIOUS
  <2>2. FlattenSeq(Append(a \o b, w)) = FlattenSeq(a \o b) \o w
    BY <2>1, FlattenAppend
  <2>3. FlattenSeq(Append(b, w)) = FlattenSeq(b) \o w
    BY FlattenAppend
  <2>4. FlattenSeq(a \o b) = FlattenSeq(a) \o FlattenSeq(b)
    BY <1>3
  <2>5. FlattenSeq(b) \in Words(S)
    BY FlattenType
  <2>6. PICK x, y : x = FlattenSeq(a) /\ y = FlattenSeq(b)
    OBVIOUS
  <2>7. FlattenSeq(a \o Append(b, w)) = FlattenSeq(a) \o FlattenSeq(Append(b, w))
    <3>1. (FlattenSeq(a) \o FlattenSeq(b)) \o w = FlattenSeq(a) \o (FlattenSeq(b) \o w)
      <4>1. x \in Words(S) /\ y \in Words(S)
        BY <1>1, <2>5, <2>6
      <4>2. (x \o y) \o w = x \o (y \o w)
        BY ONLY <4>1, w \in Words(S), JoinAssociative
      <4> QED
        BY <2>6, <4>2
    <3>2. FlattenSeq(a \o Append(b, w)) = FlattenSeq(a \o b) \o w
      BY <2>1, <2>2
    <3> HIDE DEF G
    <3> QED
      BY ONLY <2>3, <2>4, <3>1, <3>2
  <2>8. Append(b, w) \in Seq(Words(S))
    OBVIOUS
  <2> QED
    BY <2>7, <2>8
<1>4. \A b \in Seq(Words(S)) : b \in G
  <2> HIDE DEF G
  <2> QED
    BY <1>2, <1>3, SeqInduction
<1> QED
  BY <1>4

-----------------------------------------------------------------------------
(* What a server reads *)

\* The points of a line, and of lines; the points that lines over S can be.
PointsOf(line) == IF line = <<>> THEN <<>> ELSE <<ReadLine(line)>>
Said(lines) == [i \in DOMAIN lines |-> PointsOf(lines[i])]
PointsIn(S) == {ReadLine(line) : line \in Words(S)}

LEMMA ReadSaid ==
  ASSUME NEW text
  PROVE  Read(text) = FlattenSeq(Said(Pieces(text, Newline)))
BY DEF Read, Said, PointsOf

LEMMA SaidType ==
  ASSUME NEW S, NEW lines \in Seq(Words(S))
  PROVE  /\ Said(lines) \in Seq(Words(PointsIn(S))) /\ Len(Said(lines)) = Len(lines)
         /\ \A i \in 1 .. Len(lines) : Said(lines)[i] = PointsOf(lines[i])
<1>1. \A line \in Words(S) : PointsOf(line) \in Words(PointsIn(S))
  <2> SUFFICES ASSUME NEW line \in Words(S) PROVE PointsOf(line) \in Words(PointsIn(S))
    OBVIOUS
  <2>1. ReadLine(line) \in PointsIn(S)
    BY DEF PointsIn
  <2>2. \A R, r : r \in R => <<r>> \in Seq(R) /\ <<>> \in Seq(R)
    OBVIOUS
  <2>3. <<ReadLine(line)>> \in Words(PointsIn(S)) /\ <<>> \in Words(PointsIn(S))
    BY <2>1, <2>2 DEF Words
  <2> QED
    BY <2>3 DEF PointsOf
<1>2. DOMAIN lines = 1 .. Len(lines) /\ Len(lines) \in Nat
      /\ \A i \in 1 .. Len(lines) : lines[i] \in Words(S)
  OBVIOUS
<1> DEFINE n == Len(lines)
<1>3. Said(lines) = [i \in 1 .. n |-> PointsOf(lines[i])]
  BY <1>2 DEF Said
<1> HIDE DEF n
<1>4. n \in Nat /\ \A i \in 1 .. n : PointsOf(lines[i]) \in Words(PointsIn(S))
  BY <1>1, <1>2 DEF n
<1>5. Said(lines) \in [1 .. n -> Words(PointsIn(S))]
  BY <1>3, <1>4
<1>6. Said(lines) \in Seq(Words(PointsIn(S))) /\ Len(Said(lines)) = n
  BY <1>4, <1>5, SeqDef, LenProperties
<1> QED
  BY <1>3, <1>6 DEF n

LEMMA SaidConcat ==
  ASSUME NEW S, NEW a \in Seq(Words(S)), NEW b \in Seq(Words(S))
  PROVE  Said(a \o b) = Said(a) \o Said(b)
<1> DEFINE R == Words(PointsIn(S))
<1>1. /\ a \o b \in Seq(Words(S)) /\ Len(a \o b) = Len(a) + Len(b)
      /\ Len(a) \in Nat /\ Len(b) \in Nat
      /\ \A i \in 1 .. Len(a) + Len(b) :
           (a \o b)[i] = IF i <= Len(a) THEN a[i] ELSE b[i - Len(a)]
  BY ConcatProperties
<1>2. PICK ab : ab = a \o b
  OBVIOUS
<1>3. /\ Said(ab) \in Seq(R) /\ Len(Said(ab)) = Len(a) + Len(b)
      /\ \A i \in 1 .. Len(a) + Len(b) : Said(ab)[i] = PointsOf(ab[i])
  <2>1. ab \in Seq(Words(S)) /\ Len(ab) = Len(a) + Len(b)
    BY <1>1, <1>2
  <2>2. /\ Said(ab) \in Seq(R) /\ Len(Said(ab)) = Len(ab)
        /\ \A i \in 1 .. Len(ab) : Said(ab)[i] = PointsOf(ab[i])
    BY <2>1, SaidType
  <2> QED
    BY <2>1, <2>2
<1>4. /\ Said(a) \in Seq(R) /\ Len(Said(a)) = Len(a)
      /\ \A i \in 1 .. Len(a) : Said(a)[i] = PointsOf(a[i])
  BY SaidType
<1>5. /\ Said(b) \in Seq(R) /\ Len(Said(b)) = Len(b)
      /\ \A i \in 1 .. Len(b) : Said(b)[i] = PointsOf(b[i])
  BY SaidType
<1> HIDE DEF R
<1>6. PICK x, y, z : x = Said(ab) /\ y = Said(a) /\ z = Said(b)
  OBVIOUS
<1>7. /\ y \o z \in Seq(R) /\ Len(y \o z) = Len(a) + Len(b)
      /\ \A i \in 1 .. Len(a) + Len(b) :
           (y \o z)[i] = IF i <= Len(a) THEN y[i] ELSE z[i - Len(a)]
  <2>1. y \in Seq(R) /\ z \in Seq(R) /\ Len(y) = Len(a) /\ Len(z) = Len(b)
    BY <1>4, <1>5, <1>6
  <2>2. y \in Seq(R) /\ z \in Seq(R)
    BY <2>1
  <2>3. /\ y \o z \in Seq(R) /\ Len(y \o z) = Len(y) + Len(z)
        /\ \A i \in 1 .. Len(y) + Len(z) :
             (y \o z)[i] = IF i <= Len(y) THEN y[i] ELSE z[i - Len(y)]
    BY <2>2, ConcatProperties
  <2> QED
    BY <2>1, <2>3
<1>8. ASSUME NEW i \in 1 .. Len(a) + Len(b) PROVE x[i] = (y \o z)[i]
  <2>1. CASE i <= Len(a)
    <3>1. i \in 1 .. Len(a)
      BY <1>1, <2>1
    <3> QED
      BY <1>1, <1>2, <1>3, <1>4, <1>6, <1>7, <2>1, <3>1
  <2>2. CASE ~(i <= Len(a))
    <3>1. i - Len(a) \in 1 .. Len(b)
      BY <1>1, <2>2
    <3> QED
      BY <1>1, <1>2, <1>3, <1>5, <1>6, <1>7, <2>2, <3>1
  <2> QED
    BY <2>1, <2>2
<1>9. x = y \o z
  BY <1>3, <1>6, <1>7, <1>8, SeqEqual
<1> QED
  BY <1>2, <1>6, <1>9

LEMMA ReadType ==
  ASSUME NEW S, NEW text \in Seq(S)
  PROVE  Read(text) \in Words(PointsIn(S))
<1>1. Pieces(text, Newline) \in Seq(Words(S))
  BY PiecesType DEF Cuts
<1> QED
  BY <1>1, SaidType, FlattenType, ReadSaid

LEMMA ReadEmpty == Read(<<>>) = <<>>
<1>1. Pieces(<<>>, Newline) = << <<>> >>
  BY PiecesEmpty
<1>2. Said(<< <<>> >>) = << <<>> >>
  BY DEF Said, PointsOf
<1>3. FlattenSeq(<< <<>> >>) = <<>>
  <2>1. PICK none : none = <<>>
    OBVIOUS
  <2>2. none \in Words({}) /\ \A w \in Words({}) : w \o none = w
    BY <2>1 DEF Words
  <2>3. Append(none, none) = <<none>>
    BY <2>1
  <2>4. none \in Seq(Words({}))
    BY <2>1
  <2>5. FlattenSeq(Append(none, none)) = FlattenSeq(none) \o none
    BY <2>2, <2>4, FlattenAppend
  <2>6. FlattenSeq(none) = none
    BY <2>1, FlattenEmpty
  <2> QED
    BY <2>1, <2>2, <2>3, <2>5, <2>6
<1> QED
  BY <1>1, <1>2, <1>3, ReadSaid

\* A line is its one point.
LEMMA ReadWhole ==
  ASSUME NEW S, NEW text \in Seq(S), Newline \notin S, text # <<>>
  PROVE  Read(text) = <<ReadLine(text)>>
<1>1. Pieces(text, Newline) = <<text>>
  BY PiecesWhole
<1>2. PICK point : point = ReadLine(text)
  OBVIOUS
<1>3. Said(<<text>>) = << <<point>> >>
  BY <1>2 DEF Said, PointsOf
<1>4. FlattenSeq(<< <<point>> >>) = <<point>>
  <2> DEFINE w == <<point>>
  <2>1. PICK none : none = <<>>
    OBVIOUS
  <2>2. w \in Words({point}) /\ \A u \in Words({point}) : none \o u = u
    BY <2>1 DEF Words
  <2>3. none \in Seq(Words({point}))
    BY <2>1
  <2> HIDE DEF w
  <2>4. Append(none, w) = <<w>>
    BY <2>1
  <2>5. FlattenSeq(Append(none, w)) = FlattenSeq(none) \o w
    BY <2>2, <2>3, FlattenAppend
  <2>6. FlattenSeq(none) = none
    BY <2>1, FlattenEmpty
  <2>7. FlattenSeq(<<w>>) = w
    BY <2>2, <2>4, <2>5, <2>6
  <2> QED
    BY <2>7 DEF w
<1> QED
  BY <1>1, <1>2, <1>3, <1>4, ReadSaid

\* At a newline a text can be read in two parts.
LEMMA ReadSplit ==
  ASSUME NEW S, NEW a \in Seq(S), NEW b \in Seq(S), Newline \in S
  PROVE  Read(Append(a, Newline) \o b) = Read(a) \o Read(b)
<1> DEFINE pa == Pieces(a, Newline)
<1> DEFINE pb == Pieces(b, Newline)
<1>1. Pieces(Append(a, Newline) \o b, Newline) = pa \o pb
  BY PiecesSplit
<1>2. pa \in Seq(Words(S)) /\ pb \in Seq(Words(S))
  BY PiecesType DEF Cuts
<1> HIDE DEF pa, pb
<1>3. Said(pa \o pb) = Said(pa) \o Said(pb)
  BY <1>2, SaidConcat
<1>4. Said(pa) \in Seq(Words(PointsIn(S))) /\ Said(pb) \in Seq(Words(PointsIn(S)))
  BY <1>2, SaidType
<1>5. FlattenSeq(Said(pa) \o Said(pb)) = FlattenSeq(Said(pa)) \o FlattenSeq(Said(pb))
  BY <1>4, FlattenConcat
<1> QED
  BY <1>1, <1>3, <1>5, ReadSaid DEF pa, pb

-----------------------------------------------------------------------------
(* Short sequences *)

LEMMA OneIsSeq ==
  ASSUME NEW Z, NEW z \in Z
  PROVE  <<z>> \in Seq(Z) /\ <<z>> # <<>> /\ <<z>>[1] = z
OBVIOUS

LEMMA PairIsSeq ==
  ASSUME NEW Z, NEW y \in Z, NEW z \in Z
  PROVE  <<y, z>> \in Seq(Z)
OBVIOUS

LEMMA OneMore ==
  ASSUME NEW Z, NEW a \in Seq(Z), NEW z \in Z
  PROVE  /\ Append(a, z) \in Seq(Z) /\ Len(Append(a, z)) \in Nat \ {0}
         /\ Append(a, z)[Len(Append(a, z))] = z
OBVIOUS

LEMMA NothingAdded ==
  ASSUME NEW Z, NEW a \in Seq(Z)
  PROVE  a \o <<>> = a /\ <<>> \o a = a
OBVIOUS

LEMMA SepType ==
  ASSUME NEW Z, NEW a \in Seq(Z), NEW z \in Z, NEW b \in Seq(Z)
  PROVE  Append(a, z) \o b \in Seq(Z) /\ Append(a, z) \o b # <<>>
<1>1. Append(a, z) \o b \in Seq(Z) /\ Len(Append(a, z) \o b) = Len(a) + 1 + Len(b)
  OBVIOUS
<1>2. Len(a) \in Nat /\ Len(b) \in Nat
  OBVIOUS
<1>3. Append(a, z) \o b # <<>>
  BY <1>1, <1>2
<1> QED
  BY <1>1, <1>3

LEMMA SepOne ==
  ASSUME NEW Z, NEW a \in Seq(Z), NEW z \in Z, NEW w \in Z
  PROVE  a \o <<z, w>> = Append(a, z) \o <<w>>
OBVIOUS

LEMMA TwoIsSeq ==
  ASSUME NEW x, NEW y
  PROVE  /\ <<x>> \o <<y>> = <<x, y>>
         /\ Last(<<x, y>>) = y /\ <<x, y>>[1] = x
         /\ SubSeq(<<x, y>>, 2, Len(<<x, y>>)) = <<y>>
<1>1. PICK Z : Z = {x, y}
  OBVIOUS
<1>2. x \in Z /\ y \in Z
  BY <1>1
<1>3. <<x, y>> \in Seq(Z) /\ Len(<<x, y>>) = 2 /\ <<x>> \in Seq(Z) /\ <<y>> \in Seq(Z)
  BY <1>2
<1>4. <<x>> \o <<y>> = <<x, y>>
  <2>1. PICK a, b, ab : a = <<x>> /\ b = <<y>> /\ ab = <<x, y>>
    OBVIOUS
  <2>2. /\ a \in Seq(Z) /\ b \in Seq(Z) /\ ab \in Seq(Z)
        /\ Len(a) = 1 /\ Len(b) = 1 /\ Len(ab) = 2
        /\ a[1] = ab[1] /\ b[1] = ab[2]
    BY <1>2, <2>1
  <2>3. /\ a \o b \in Seq(Z) /\ Len(a \o b) = 2
        /\ (a \o b)[1] = ab[1] /\ (a \o b)[2] = ab[2]
    BY <2>2, ConcatProperties
  <2>4. \A i \in 1 .. Len(ab) : i = 1 \/ i = 2
    BY <2>2
  <2>5. a \o b = ab
    BY <2>2, <2>3, <2>4, SeqEqual
  <2> QED
    BY <2>1, <2>5
<1>5. SubSeq(<<x, y>>, 2, 2) = <<y>>
  <2>1. PICK b, ab : b = <<y>> /\ ab = <<x, y>>
    OBVIOUS
  <2>2. /\ b \in Seq(Z) /\ ab \in Seq(Z) /\ Len(b) = 1 /\ Len(ab) = 2 /\ b[1] = ab[2]
    BY <1>2, <2>1
  <2>3. SubSeq(ab, 2, 2) \in Seq(Z) /\ Len(SubSeq(ab, 2, 2)) = 1 /\ SubSeq(ab, 2, 2)[1] = ab[2]
    BY <2>2, SubSeqProperties
  <2>4. \A i \in 1 .. Len(b) : i = 1
    BY <2>2
  <2>5. SubSeq(ab, 2, 2) = b
    BY <2>2, <2>3, <2>4, SeqEqual
  <2> QED
    BY <2>1, <2>5
<1> QED
  BY <1>3, <1>4, <1>5 DEF Last

LEMMA SeqSubset ==
  ASSUME NEW Z, NEW Y, Y \subseteq Z
  PROVE  Seq(Y) \subseteq Seq(Z)
OBVIOUS

-----------------------------------------------------------------------------
(* Key value pairs and lines *)

\* The tokens that are not separators, and those of a text without a timestamp.
Plain == Measurements \cup Range(Pairs)
Toks == (Plain \cup Reserved \cup UNION {Range(raw) : raw \in Raws}) \ {Timestamp}

LEMMA TokensType ==
  /\ Plain \subseteq Toks
  /\ "," \in Toks /\ " " \in Toks /\ Newline \in Toks /\ Timestamp \notin Toks
  /\ "," # " " /\ "," # Newline /\ " " # Newline /\ Timestamp # " " /\ Timestamp # Newline
  /\ "," \notin Plain /\ " " \notin Plain /\ Newline \notin Plain
  /\ Timestamp \notin Plain \cup {",", " "}
<1>1. "," # " " /\ "," # Newline /\ " " # Newline
      /\ Timestamp # " " /\ Timestamp # Newline /\ Timestamp # ","
  BY DEF Newline, Timestamp
<1>2. Plain \cap Reserved = {}
  BY TextAssumption DEF Plain
<1>3. "," \in Reserved /\ " " \in Reserved /\ Newline \in Reserved /\ Timestamp \in Reserved
  BY DEF Reserved
<1> QED
  BY <1>1, <1>2, <1>3 DEF Toks

\* The text of a pairs handle, and the pairs that were added to it.
KvpSays(kvp, said) ==
  /\ kvp \in Seq(Plain \cup {","})
  /\ kvp = <<>> <=> said = <<>>
  /\ kvp # <<>> => Pieces(kvp, ",") = said

LEMMA AddPairSays ==
  ASSUME NEW kvp, NEW said, KvpSays(kvp, said), NEW pair \in Plain
  PROVE  KvpSays(AddPair(kvp, pair), Append(said, <<pair>>))
<1> DEFINE S == Plain \cup {","}
<1> DEFINE one == <<pair>>
<1>1. kvp \in Seq(S) /\ pair \in S /\ "," \in S
  BY DEF KvpSays
<1>2. one \in Seq(S) /\ one \in Seq(Plain) /\ one # <<>>
  <2> HIDE DEF S
  <2> QED
    BY <1>1, OneIsSeq
<1>3. Pieces(one, ",") = <<one>>
  <2> HIDE DEF one
  <2> QED
    BY <1>2, PiecesWhole, TokensType
<1>4. CASE kvp = <<>>
  <2>1. said = <<>>
    BY <1>4 DEF KvpSays
  <2>2. AddPair(kvp, pair) = one
    BY <1>4 DEF AddPair
  <2>3. Append(said, one) = <<one>>
    BY <2>1
  <2> HIDE DEF one
  <2>5. Append(said, one) # <<>>
    BY <2>3
  <2> QED
    BY <1>2, <1>3, <2>2, <2>3, <2>5 DEF KvpSays, one
<1>5. CASE kvp # <<>>
  <2>1. Pieces(kvp, ",") = said
    BY <1>5 DEF KvpSays
  <2>2. said \in Seq(Words(S))
    BY <1>1, <2>1, PiecesType DEF Cuts
  <2>3. AddPair(kvp, pair) = Append(kvp, ",") \o one
    <3> HIDE DEF S
    <3> QED
      BY <1>1, <1>5, SepOne DEF AddPair
  <2>4. Pieces(Append(kvp, ",") \o one, ",") = said \o <<one>>
    <3> HIDE DEF one, S
    <3>1. Pieces(Append(kvp, ",") \o one, ",") = Pieces(kvp, ",") \o Pieces(one, ",")
      BY <1>1, <1>2, PiecesSplit
    <3> QED
      BY <1>3, <2>1, <3>1
  <2>5. one \in Words(S)
    BY <1>2 DEF Words
  <2> HIDE DEF S
  <2>6. Append(kvp, ",") \o one \in Seq(S) /\ Append(kvp, ",") \o one # <<>>
    <3> HIDE DEF one, S
    <3>1. kvp \in Seq(S) /\ one \in Seq(S) /\ "," \in S
      BY <1>1, <1>2
    <3> QED
      BY <3>1, SepType
  <2> HIDE DEF one
  <2>7. said \o <<one>> = Append(said, one) /\ Append(said, one) # <<>>
    BY <2>2, <2>5
  <2> QED
    BY <2>3, <2>4, <2>6, <2>7 DEF KvpSays, S, one
<1> QED
  BY <1>4, <1>5

\* What a server reads from a line is what it was made from; it refuses a line
\* without values.
LEMMA LineRead ==
  ASSUME NEW m \in Plain, NEW tkvp, NEW tsaid, NEW vkvp, NEW vsaid,
         KvpSays(tkvp, tsaid), KvpSays(vkvp, vsaid)
  PROVE  /\ ReadLine(LineOf(m, tkvp, vkvp)) =
              IF vsaid = <<>> THEN Refused
              ELSE [tags |-> tsaid, values |-> vsaid, measurement |-> <<m>>, stamped |-> FALSE]
         /\ LineOf(m, tkvp, vkvp) \in Seq(Plain \cup {",", " "})
         /\ LineOf(m, tkvp, vkvp) # <<>>
<1> DEFINE W == Plain \cup {","}
<1> DEFINE S == Plain \cup {",", " "}
<1> DEFINE first == <<m>>
<1> DEFINE head == first \o (IF tkvp = <<>> THEN <<>> ELSE <<",">> \o tkvp)
<1>1. PICK none : none = <<>>
  OBVIOUS
<1>2. /\ first \in Seq(Plain) /\ first \in Seq(W) /\ tkvp \in Seq(W) /\ vkvp \in Seq(W)
      /\ "," \in W /\ " " \notin W /\ Timestamp \notin W /\ " " \in S /\ W \subseteq S
      /\ first # <<>>
  <2>1. " " \notin W /\ Timestamp \notin W
    BY TokensType
  <2>2. tkvp \in Seq(W) /\ vkvp \in Seq(W)
    BY DEF KvpSays
  <2>3. m \in W /\ "," \in W /\ " " \in S /\ W \subseteq S
    OBVIOUS
  <2> HIDE DEF W, S
  <2>4. first \in Seq(Plain) /\ first \in Seq(W) /\ first # <<>>
    BY <2>3, OneIsSeq
  <2> QED
    BY <2>1, <2>2, <2>3, <2>4
<1> HIDE DEF W, S, first
<1>3. /\ head \in Seq(W) /\ head # <<>>
      /\ tkvp = <<>> => head = first
      /\ tkvp # <<>> => head = Append(first, ",") \o tkvp
  <2>1. first \o <<>> = first
    BY <1>2, NothingAdded
  <2>2. /\ first \o (<<",">> \o tkvp) = Append(first, ",") \o tkvp
        /\ Append(first, ",") \o tkvp \in Seq(W)
        /\ Append(first, ",") \o tkvp # <<>>
    <3>1. first \in Seq(W) /\ tkvp \in Seq(W) /\ "," \in W
      BY <1>2
    <3>2. first \o (<<",">> \o tkvp) = Append(first, ",") \o tkvp
      <4>1. PICK comma : comma = ","
        OBVIOUS
      <4>2. first \in Seq(W) /\ tkvp \in Seq(W) /\ comma \in W
        BY <3>1, <4>1
      <4>3. first \o (<<comma>> \o tkvp) = Append(first, comma) \o tkvp
        BY ONLY <4>2
      <4> QED
        BY <4>1, <4>3
    <3> QED
      BY <3>1, <3>2, SepType
  <2>3. CASE tkvp = <<>>
    BY <1>2, <2>1, <2>3
  <2>4. CASE tkvp # <<>>
    <3>1. head = first \o (<<",">> \o tkvp)
      BY <2>4
    <3> HIDE DEF head
    <3> QED
      BY <2>2, <2>4, <3>1
  <2> QED
    BY <2>3, <2>4
<1>4. Pieces(head, ",") = <<first>> \o tsaid
  <2>1. Pieces(first, ",") = <<first>>
    BY <1>2, PiecesWhole, TokensType
  <2>2. CASE tkvp = <<>>
    <3>1. tsaid = <<>>
      BY <2>2 DEF KvpSays
    <3>2. <<first>> \o <<>> = <<first>>
      BY first \in {first}, OneIsSeq, NothingAdded
    <3> QED
      BY <1>3, <2>1, <2>2, <3>1, <3>2
  <2>3. CASE tkvp # <<>>
    <3>1. Pieces(tkvp, ",") = tsaid
      BY <2>3 DEF KvpSays
    <3> HIDE DEF head
    <3>2. Pieces(Append(first, ",") \o tkvp, ",") = Pieces(first, ",") \o Pieces(tkvp, ",")
      BY <1>2, PiecesSplit
    <3> QED
      BY <1>3, <2>1, <2>3, <3>1, <3>2
  <2> QED
    BY <2>2, <2>3
<1>5. tsaid \in Seq(Words(W)) /\ vsaid \in Seq(Words(W))
  <2>1. ASSUME NEW k, NEW said, KvpSays(k, said) PROVE said \in Seq(Words(W))
    <3>1. CASE k = <<>>
      <4>1. said = <<>>
        BY <2>1, <3>1 DEF KvpSays
      <4>2. \A Z : <<>> \in Seq(Z)
        OBVIOUS
      <4> QED
        BY <4>1, <4>2
    <3>2. CASE k # <<>>
      <4>1. k \in Seq(W) /\ said = Pieces(k, ",")
        BY <2>1, <3>2 DEF KvpSays, W
      <4>2. Pieces(k, ",") \in Cuts(W)
        BY <4>1, PiecesType
      <4> QED
        BY <4>1, <4>2 DEF Cuts
    <3> QED
      BY <3>1, <3>2
  <2> QED
    BY <2>1
<1>6. Pieces(head, ",")[1] = first /\ Tail(Pieces(head, ",")) = tsaid
  <2>1. \A Z, f, s : f \in Z /\ s \in Seq(Z) =>
          (<<f>> \o s)[1] = f /\ Tail(<<f>> \o s) = s
    OBVIOUS
  <2>2. first \in Words(W)
    BY <1>2 DEF Words
  <2> HIDE DEF head
  <2> QED
    BY <1>4, <1>5, <2>1, <2>2
<1>7. Pieces(head, " ") = <<head>>
  <2> HIDE DEF head
  <2> QED
    BY <1>2, <1>3, PiecesWhole
<1>8. head # <<Timestamp>> /\ vkvp # <<Timestamp>>
  <2>1. \A Z, s : s \in Seq(Z) /\ s = <<Timestamp>> => Timestamp \in Z
    <3> SUFFICES ASSUME NEW Z, NEW s \in Seq(Z), s = <<Timestamp>> PROVE Timestamp \in Z
      OBVIOUS
    <3>1. s[1] = Timestamp /\ Len(s) = 1
      OBVIOUS
    <3>2. s[1] \in Z
      BY <3>1
    <3> QED
      BY <3>1, <3>2
  <2> HIDE DEF head
  <2> QED
    BY <1>2, <1>3, <2>1
<1> HIDE DEF head
<1>9. head \in Seq(S) /\ vkvp \in Seq(S)
  BY <1>2, <1>3, SeqSubset
<1>10. CASE vkvp = <<>>
  <2>1. LineOf(m, tkvp, vkvp) = head
    <3>1. LineOf(m, tkvp, vkvp) = head \o <<>>
      BY <1>10 DEF LineOf, head, first
    <3>2. head \o <<>> = head
      BY <1>3, NothingAdded
    <3> QED
      BY <3>1, <3>2
  <2>2. vsaid = <<>>
    BY <1>10 DEF KvpSays
  <2> DEFINE parts == <<head>>
  <2>3. Last(parts) = head /\ parts[1] = head /\ SubSeq(parts, 2, Len(parts)) = <<>>
    <3>1. Len(parts) = 1 /\ parts[1] = head
      OBVIOUS
    <3> HIDE DEF parts
    <3> QED
      BY <3>1, SubSeqEmpty DEF Last
  <2> HIDE DEF parts
  <2>4. Pieces(head, " ") = parts
    BY <1>7 DEF parts
  <2>5. ReadLine(head) = Refused
    BY <1>8, <2>3, <2>4 DEF ReadLine
  <2> QED
    BY <1>3, <1>9, <2>1, <2>2, <2>5 DEF first, S
<1>11. CASE vkvp # <<>>
  <2>1. LineOf(m, tkvp, vkvp) = Append(head, " ") \o vkvp
    <3>1. LineOf(m, tkvp, vkvp) = head \o (<<" ">> \o vkvp)
      BY <1>11 DEF LineOf, head, first
    <3>2. head \o (<<" ">> \o vkvp) = Append(head, " ") \o vkvp
      <4>1. PICK space : space = " "
        OBVIOUS
      <4>2. head \in Seq(S) /\ vkvp \in Seq(S) /\ space \in S
        BY <1>2, <1>9, <4>1
      <4>3. head \o (<<space>> \o vkvp) = Append(head, space) \o vkvp
        BY ONLY <4>2
      <4> QED
        BY <4>1, <4>3
    <3> QED
      BY <3>1, <3>2
  <2>2. Pieces(vkvp, ",") = vsaid /\ vsaid # <<>>
    <3>1. Pieces(vkvp, ",") = vsaid /\ vkvp \in Seq(W)
      BY <1>2, <1>11 DEF KvpSays
    <3>2. Len(Pieces(vkvp, ",")) > 0
      BY <3>1, PiecesType DEF Cuts
    <3>3. \A u : u = <<>> => ~(Len(u) > 0)
      OBVIOUS
    <3> QED
      BY <3>1, <3>2, <3>3
  <2>3. Pieces(vkvp, " ") = <<vkvp>>
    BY <1>2, PiecesWhole
  <2> DEFINE parts == <<head, vkvp>>
  <2>4. Pieces(Append(head, " ") \o vkvp, " ") = parts
    <3>1. Pieces(Append(head, " ") \o vkvp, " ") = Pieces(head, " ") \o Pieces(vkvp, " ")
      <4>1. head \in Seq(S) /\ vkvp \in Seq(S) /\ " " \in S
        BY <1>2, <1>9
      <4> HIDE DEF head, parts, S, W
      <4> QED
        BY <4>1, PiecesSplit
    <3>2. <<head>> \o <<vkvp>> = <<head, vkvp>>
      BY TwoIsSeq
    <3> QED
      BY <1>7, <2>3, <3>1, <3>2
  <2>5. /\ Last(parts) = vkvp /\ parts[1] = head
        /\ SubSeq(parts, 2, Len(parts)) = <<vkvp>>
    BY TwoIsSeq
  <2>6. <<vkvp>> # <<>> /\ <<vkvp>>[1] = vkvp
    OBVIOUS
  <2> HIDE DEF parts
  <2>7. ReadLine(Append(head, " ") \o vkvp)
          = [tags |-> tsaid, values |-> vsaid, measurement |-> first, stamped |-> FALSE]
    <3>1. PICK text : text = Append(head, " ") \o vkvp
      OBVIOUS
    <3>2. Pieces(text, " ") = parts
      BY <2>4, <3>1
    <3>3. PICK rest : rest = SubSeq(parts, 2, Len(parts))
      OBVIOUS
    <3>4. rest # <<>> /\ rest[1] = vkvp
      BY <2>5, <2>6, <3>3
    <3>5. ReadLine(text) =
            [tags |-> Tail(Pieces(parts[1], ",")), values |-> Pieces(rest[1], ","),
             measurement |-> Pieces(parts[1], ",")[1], stamped |-> FALSE]
      BY <1>8, <1>11, <2>5, <3>2, <3>3, <3>4 DEF ReadLine
    <3>6. ReadLine(text)
            = [tags |-> tsaid, values |-> vsaid, measurement |-> first, stamped |-> FALSE]
      BY <1>6, <2>2, <2>5, <3>4, <3>5
    <3> QED
      BY <3>1, <3>6
  <2>8. Append(head, " ") \o vkvp \in Seq(S) /\ Append(head, " ") \o vkvp # <<>>
    <3>1. head \in Seq(S) /\ vkvp \in Seq(S) /\ " " \in S
      BY <1>2, <1>9
    <3> QED
      BY <3>1, SepType
  <2> QED
    BY <2>1, <2>2, <2>7, <2>8 DEF S, first
<1> QED
  BY <1>10, <1>11

-----------------------------------------------------------------------------
(* The default timestamp *)

LEMMA NoneIsEmpty ==
  ASSUME NEW S, NEW s \in Seq(S)
  PROVE  Len(s) \in Nat /\ (s = <<>> <=> Len(s) = 0)
OBVIOUS

\* Another last member.
LEMMA AppendExcept ==
  ASSUME NEW R, NEW s \in Seq(R), NEW old \in R, NEW new \in R, NEW p, p = Append(s, old)
  PROVE  p[Len(p)] = old /\ [p EXCEPT ![Len(p)] = new] = Append(s, new)
<1>1. p \in Seq(R) /\ Len(p) = Len(s) + 1 /\ Len(s) \in Nat /\ p[Len(s) + 1] = old
      /\ \A i \in 1 .. Len(s) : p[i] = s[i]
  OBVIOUS
<1>2. PICK q : q = [p EXCEPT ![Len(p)] = new]
  OBVIOUS
<1>3. q \in Seq(R) /\ Len(q) = Len(s) + 1 /\ q[Len(s) + 1] = new
      /\ \A i \in 1 .. Len(s) : q[i] = s[i]
  <2>1. DOMAIN p = 1 .. Len(s) + 1
    BY <1>1
  <2>2. q \in Seq(R) /\ Len(q) = Len(p)
    BY <1>1, <1>2, ExceptSeq
  <2>3. \A i \in 1 .. Len(s) + 1 : q[i] = IF i = Len(s) + 1 THEN new ELSE p[i]
    BY <1>1, <1>2, <2>1
  <2> QED
    BY <1>1, <2>2, <2>3
<1>4. PICK w : w = Append(s, new)
  OBVIOUS
<1>5. w \in Seq(R) /\ Len(w) = Len(s) + 1 /\ w[Len(s) + 1] = new
      /\ \A i \in 1 .. Len(s) : w[i] = s[i]
  BY <1>4
<1>6. \A i \in 1 .. Len(s) + 1 : i = Len(s) + 1 \/ i \in 1 .. Len(s)
  BY <1>1
<1>7. \A i \in 1 .. Len(q) : q[i] = w[i]
  BY <1>3, <1>5, <1>6
<1>8. q = w
  BY <1>3, <1>5, <1>7, SeqEqual
<1> QED
  BY <1>1, <1>2, <1>4, <1>8

\* What follows the last newline of a text.
LEMMA LastLine ==
  ASSUME NEW S, Newline \in S
  PROVE  \A text \in Seq(S) : \E line \in Seq(S \ {Newline}) :
           text = line \/ \E a \in Seq(S) : text = Append(a, Newline) \o line
<1> DEFINE Ends(text, line) == text = line \/ \E a \in Seq(S) : text = Append(a, Newline) \o line
<1> DEFINE G == {text \in Seq(S) : \E line \in Seq(S \ {Newline}) : Ends(text, line)}
<1>1. <<>> \in G
  <2>1. <<>> \in Seq(S) /\ <<>> \in Seq(S \ {Newline})
    OBVIOUS
  <2>2. Ends(<<>>, <<>>)
    OBVIOUS
  <2> HIDE DEF Ends
  <2> QED
    BY <2>1, <2>2
<1>2. ASSUME NEW text \in Seq(S), NEW t \in S, text \in G PROVE Append(text, t) \in G
  <2>1. Append(text, t) \in Seq(S)
    OBVIOUS
  <2>2. CASE t = Newline
    <3>1. PICK none : none = <<>>
      OBVIOUS
    <3>2. none \in Seq(S \ {Newline}) /\ Append(text, Newline) \o none = Append(text, Newline)
      <4>1. PICK long : long = Append(text, t)
        OBVIOUS
      <4>2. long \in Seq(S)
        BY <2>1, <4>1
      <4>3. long \o <<>> = long
        BY <4>2, NothingAdded
      <4> QED
        BY <2>2, <3>1, <4>1, <4>3
    <3>3. Ends(Append(text, t), none)
      BY <2>2, <3>2
    <3> HIDE DEF Ends
    <3> QED
      BY <2>1, <3>2, <3>3
  <2>3. CASE t # Newline
    <3>1. PICK line \in Seq(S \ {Newline}) : Ends(text, line)
      BY <1>2
    <3>2. Append(line, t) \in Seq(S \ {Newline}) /\ line \in Seq(S)
      BY <2>3
    <3>3. Ends(Append(text, t), Append(line, t))
      <4>1. CASE text = line
        BY <4>1
      <4>2. ASSUME NEW a \in Seq(S), text = Append(a, Newline) \o line
            PROVE  Ends(Append(text, t), Append(line, t))
        <5>1. PICK x : x = Append(a, Newline) \o line
          OBVIOUS
        <5>2. a \in Seq(S) /\ line \in Seq(S) /\ t \in S /\ Newline \in S
          BY <3>2
        <5>3. Append(x, t) = Append(a, Newline) \o Append(line, t)
          BY ONLY <5>1, <5>2
        <5> QED
          BY <4>2, <5>1, <5>3
      <4> QED
        BY <3>1, <4>1, <4>2
    <3> HIDE DEF Ends
    <3> QED
      BY <2>1, <3>2, <3>3
  <2> QED
    BY <2>2, <2>3
<1>3. \A text \in Seq(S) : text \in G
  <2> HIDE DEF G
  <2> QED
    BY <1>1, <1>2, SeqInduction
<1> QED
  BY <1>3

\* Records with the fields of a point.
Records(A) == [tags : A, values : A, measurement : A, stamped : BOOLEAN]

LEMMA SameRecord ==
  ASSUME NEW A, NEW r \in Records(A), NEW q \in Records(A),
         r.tags = q.tags, r.values = q.values,
         r.measurement = q.measurement, r.stamped = q.stamped
  PROVE  r = q
BY DEF Records

LEMMA StampSet ==
  ASSUME NEW A, NEW r \in Records(A), NEW b \in BOOLEAN
  PROVE  /\ [r EXCEPT !.stamped = b] \in Records(A)
         /\ [r EXCEPT !.stamped = b].tags = r.tags
         /\ [r EXCEPT !.stamped = b].values = r.values
         /\ [r EXCEPT !.stamped = b].measurement = r.measurement
         /\ [r EXCEPT !.stamped = b].stamped = b
BY DEF Records

\* A line that is stamped is the same point, with a timestamp; without values it
\* is refused as before.
LEMMA StampedLine ==
  ASSUME NEW line \in Seq(Toks)
  PROVE  ReadLine(Stamped(line)) = WithStamp(ReadLine(line))
<1> DEFINE S == Toks \cup {Timestamp}
<1> DEFINE stamp == <<Timestamp>>
<1> DEFINE parts == Pieces(line, " ")
<1> DEFINE more == Pieces(Stamped(line), " ")
<1>1. /\ line \in Seq(S) /\ " " \in S /\ Timestamp \in S /\ Timestamp \notin Toks
      /\ " " # Timestamp
  <2>1. line \in Seq(S)
    BY SeqSubset, Toks \subseteq S
  <2> QED
    BY <2>1, TokensType
<1> HIDE DEF S
<1>2. stamp \in Seq(S)
  BY <1>1, OneIsSeq
<1>3. Pieces(stamp, " ") = <<stamp>>
  <2>1. stamp \in Seq({Timestamp})
    BY OneIsSeq
  <2> HIDE DEF stamp
  <2> QED
    BY <1>1, <2>1, PiecesWhole
<1>4. Stamped(line) = Append(line, " ") \o stamp
  BY <1>1, SepOne DEF Stamped
<1> HIDE DEF stamp
<1>5. more = parts \o <<stamp>>
  <2>1. Pieces(Append(line, " ") \o stamp, " ") = parts \o Pieces(stamp, " ")
    BY <1>1, <1>2, PiecesSplit
  <2> QED
    BY <1>3, <1>4, <2>1
<1>6. parts \in Seq(Words(Toks)) /\ Len(parts) > 0
  BY PiecesType DEF Cuts
<1> HIDE DEF parts, more
<1>7. \A i \in 1 .. Len(parts) : parts[i] # stamp
  <2> SUFFICES ASSUME NEW i \in 1 .. Len(parts), parts[i] = stamp PROVE FALSE
    OBVIOUS
  <2>1. stamp \in Seq(Toks)
    BY <1>6 DEF Words
  <2>2. stamp[1] = Timestamp /\ Len(stamp) = 1
    BY DEF stamp
  <2>3. stamp[1] \in Toks
    BY <2>1, <2>2
  <2> QED
    BY <1>1, <2>2, <2>3
<1> DEFINE n == Len(parts)
<1>8. /\ more \in Seq(Words(S)) /\ Len(more) = n + 1 /\ n \in Nat \ {0}
      /\ more[n + 1] = stamp /\ \A i \in 1 .. n : more[i] = parts[i]
  <2>1. parts \in Seq(Words(S)) /\ <<stamp>> \in Seq(Words(S))
    <3>1. Words(Toks) \subseteq Words(S)
      BY SeqSubset, Toks \subseteq S DEF Words, S
    <3>2. stamp \in Words(S)
      BY <1>2 DEF Words
    <3> QED
      BY <1>6, <3>1, <3>2, SeqSubset, OneIsSeq
  <2>2. Len(<<stamp>>) = 1 /\ <<stamp>>[1] = stamp /\ Len(parts) \in Nat \ {0}
    BY <1>6
  <2>3. PICK tail : tail = <<stamp>>
    OBVIOUS
  <2>4. /\ parts \o tail \in Seq(Words(S)) /\ Len(parts \o tail) = Len(parts) + Len(tail)
        /\ \A i \in 1 .. Len(parts) + Len(tail) :
             (parts \o tail)[i] = IF i <= Len(parts) THEN parts[i] ELSE tail[i - Len(parts)]
    BY <2>1, <2>3, ConcatProperties
  <2>5. /\ Len(tail) = 1 /\ tail[1] = stamp /\ more = parts \o tail
    BY <1>5, <2>2, <2>3
  <2>6. n + 1 \in 1 .. n + 1 /\ ~(n + 1 <= n) /\ (n + 1) - n = 1
        /\ \A i \in 1 .. n : i \in 1 .. n + 1 /\ i <= n
    BY <2>2
  <2> HIDE DEF n
  <2>7. n = Len(parts)
    BY DEF n
  <2> QED
    BY <2>2, <2>4, <2>5, <2>6, <2>7
<1>9. /\ SubSeq(more, 2, n) = SubSeq(parts, 2, n)
      /\ SubSeq(parts, 2, n) \in Seq(Words(Toks))
  <2>1. \A i \in 2 .. n : more[i] = parts[i] /\ parts[i] \in Words(Toks)
    BY <1>6, <1>8
  <2>2. /\ SubSeq(more, 2, n) \in Seq(Words(Toks)) /\ SubSeq(parts, 2, n) \in Seq(Words(Toks))
        /\ Len(SubSeq(more, 2, n)) = IF 2 <= n THEN n - 1 ELSE 0
        /\ Len(SubSeq(parts, 2, n)) = IF 2 <= n THEN n - 1 ELSE 0
        /\ \A i \in 1 .. n - 1 : SubSeq(more, 2, n)[i] = more[i + 1]
        /\ \A i \in 1 .. n - 1 : SubSeq(parts, 2, n)[i] = parts[i + 1]
    <3> HIDE DEF n
    <3>1. n \in Int /\ n \in Nat
      BY <1>8
    <3>2. \A s : (\A i \in 2 .. n : s[i] \in Words(Toks)) =>
             /\ SubSeq(s, 2, n) \in Seq(Words(Toks))
             /\ Len(SubSeq(s, 2, n)) = IF 2 <= n THEN n - 1 ELSE 0
             /\ \A i \in 1 .. n - 1 : SubSeq(s, 2, n)[i] = s[i + 1]
      <4> SUFFICES ASSUME NEW s, \A i \in 2 .. n : s[i] \in Words(Toks)
                   PROVE  /\ SubSeq(s, 2, n) \in Seq(Words(Toks))
                          /\ Len(SubSeq(s, 2, n)) = IF 2 <= n THEN n - 1 ELSE 0
                          /\ \A i \in 1 .. n - 1 : SubSeq(s, 2, n)[i] = s[i + 1]
        OBVIOUS
      <4>1. /\ SubSeq(s, 2, n) \in Seq(Words(Toks))
            /\ Len(SubSeq(s, 2, n)) = IF 2 <= n THEN n - 2 + 1 ELSE 0
            /\ \A i \in 1 .. n - 2 + 1 : SubSeq(s, 2, n)[i] = s[2 + i - 1]
        BY <3>1, SubSeqProperties
      <4>2. n - 2 + 1 = n - 1 /\ \A i \in 1 .. n - 1 : 2 + i - 1 = i + 1
        BY <3>1
      <4> QED
        BY <4>1, <4>2
    <3> QED
      BY <2>1, <3>2
  <2>3. \A i \in 1 .. n - 1 : i + 1 \in 2 .. n
    BY <1>8
  <2>4. \A i \in 1 .. Len(SubSeq(more, 2, n)) : SubSeq(more, 2, n)[i] = SubSeq(parts, 2, n)[i]
    <3> HIDE DEF n
    <3>1. \A i \in 1 .. Len(SubSeq(more, 2, n)) : i \in 1 .. n - 1
      BY <1>8, <2>2
    <3> QED
      BY <2>1, <2>2, <2>3, <3>1
  <2> HIDE DEF n
  <2> QED
    BY <2>2, <2>4, SeqEqual
<1>10. /\ Last(parts) # stamp /\ Last(more) = stamp /\ more[1] = parts[1]
       /\ Len(more) - 1 = Len(parts)
  <2>1. n \in 1 .. n /\ 1 \in 1 .. n /\ (n + 1) - 1 = n
    BY <1>8
  <2> QED
    BY <1>7, <1>8, <2>1 DEF Last
<1>11. /\ SubSeq(more, 2, Len(more) - 1) = SubSeq(parts, 2, Len(parts))
       /\ SubSeq(parts, 2, Len(parts)) \in Seq(Words(Toks))
  BY <1>9, <1>10
<1> HIDE DEF n
<1> DEFINE head == Pieces(parts[1], ",")
<1> DEFINE rest == SubSeq(parts, 2, Len(parts))
<1> DEFINE fields == IF rest = <<>> THEN <<>> ELSE rest[1]
<1> DEFINE said == Pieces(fields, ",")
<1>12. /\ fields = <<>> => ReadLine(line) = Refused
       /\ fields # <<>> => ReadLine(line) =
            [tags |-> Tail(head), values |-> said, measurement |-> head[1], stamped |-> FALSE]
  BY <1>10 DEF ReadLine, parts, stamp
<1>13. /\ fields = <<>> => ReadLine(Stamped(line)) = Refused
       /\ fields # <<>> => ReadLine(Stamped(line)) =
            [tags |-> Tail(head), values |-> said, measurement |-> head[1], stamped |-> TRUE]
  <2>1. PICK text : text = Stamped(line)
    OBVIOUS
  <2>2. Pieces(text, " ") = more
    BY <2>1 DEF more
  <2>3. /\ fields = <<>> => ReadLine(text) = Refused
        /\ fields # <<>> => ReadLine(text) =
             [tags |-> Tail(head), values |-> said, measurement |-> head[1], stamped |-> TRUE]
    BY <1>10, <1>11, <2>2 DEF ReadLine, stamp
  <2> QED
    BY <2>1, <2>3
<1>14. CASE fields = <<>>
  BY <1>12, <1>13, <1>14 DEF WithStamp
<1>15. CASE fields # <<>>
  <2>1. said # <<>>
    <3>1. rest \in Seq(Words(Toks)) /\ rest # <<>>
      BY <1>11, <1>15
    <3> HIDE DEF rest
    <3>2. rest[1] \in Words(Toks)
      BY <3>1
    <3>3. fields \in Seq(Toks)
      BY <3>1, <3>2 DEF Words
    <3> HIDE DEF fields
    <3>4. Len(said) > 0
      BY <3>3, PiecesType DEF Cuts
    <3>5. \A u : u = <<>> => ~(Len(u) > 0)
      OBVIOUS
    <3> QED
      BY <3>4, <3>5
  <2>2. PICK A : A = {Tail(head), said, head[1]}
    OBVIOUS
  <2>3. Tail(head) \in A /\ said \in A /\ head[1] \in A
    BY <2>2
  <2> HIDE DEF head, said, fields
  <2>4. PICK r, q : r = ReadLine(line) /\ q = ReadLine(Stamped(line))
    OBVIOUS
  <2>5. /\ r \in Records(A) /\ q \in Records(A) /\ q.stamped = TRUE /\ r.values = said
        /\ r.tags = q.tags /\ r.values = q.values /\ r.measurement = q.measurement
    <3>1. PICK t, v, m : t = Tail(head) /\ v = said /\ m = head[1]
      OBVIOUS
    <3>2. /\ r = [tags |-> t, values |-> v, measurement |-> m, stamped |-> FALSE]
          /\ q = [tags |-> t, values |-> v, measurement |-> m, stamped |-> TRUE]
      BY <1>12, <1>13, <1>15, <2>4, <3>1
    <3>3. t \in A /\ v \in A /\ m \in A
      BY <2>3, <3>1
    <3> QED
      BY <3>1, <3>2, <3>3 DEF Records
  <2>6. [r EXCEPT !.stamped = TRUE] = q
    <3>1. PICK w : w = [r EXCEPT !.stamped = TRUE]
      OBVIOUS
    <3>2. /\ w \in Records(A) /\ w.stamped = TRUE
          /\ w.tags = r.tags /\ w.values = r.values /\ w.measurement = r.measurement
      BY <2>5, <3>1, StampSet
    <3>3. w = q
      BY <2>5, <3>2, SameRecord
    <3> QED
      BY <3>1, <3>3
  <2>7. r # Refused
    <3>1. Refused.values = <<>>
      BY DEF Refused
    <3> QED
      BY <2>1, <2>5, <3>1
  <2> QED
    BY <2>4, <2>6, <2>7 DEF WithStamp
<1> QED
  BY <1>14, <1>15

\* An empty line has no values.
LEMMA EmptyLine == ReadLine(<<>>) = Refused
<1>1. PICK none, parts : none = <<>> /\ parts = <<none>>
  OBVIOUS
<1>2. Pieces(none, " ") = parts
  BY <1>1, PiecesEmpty
<1>3. /\ Len(parts) = 1 /\ Last(parts) = none /\ none # <<Timestamp>>
      /\ SubSeq(parts, 2, Len(parts)) = <<>>
  <2>1. Len(parts) = 1 /\ parts[1] = none
    BY <1>1
  <2>2. none # <<Timestamp>>
    BY <1>1
  <2> QED
    BY <2>1, <2>2, SubSeqEmpty DEF Last
<1>4. ReadLine(none) = Refused
  BY <1>2, <1>3 DEF ReadLine
<1> QED
  BY <1>1, <1>4

\* A default timestamp goes to the last line of a text, the empty one after a
\* newline included.
LEMMA StampedRead ==
  ASSUME NEW text \in Seq(Toks)
  PROVE  \E before \in Words(PointsIn(Toks)), line \in Seq(Toks \ {Newline}) :
           /\ Read(text) = before \o Read(line)
           /\ Read(Stamped(text)) = before \o <<WithStamp(ReadLine(line))>>
           /\ line = <<>> <=> text = <<>> \/ text[Len(text)] = Newline
<1> DEFINE S == Toks \cup {Timestamp}
<1>1. PICK line \in Seq(Toks \ {Newline}) :
         text = line \/ \E a \in Seq(Toks) : text = Append(a, Newline) \o line
  BY LastLine, TokensType
<1>2. line \in Seq(Toks) /\ line \in Seq(S) /\ Newline \in Toks /\ " " \in S /\ Timestamp \in S
      /\ text \in Seq(S) /\ Newline \in S
  <2>1. Toks \ {Newline} \subseteq Toks /\ Toks \subseteq S /\ Newline \in Toks /\ " " \in S
        /\ Timestamp \in S /\ Newline \in S
    BY TokensType
  <2> HIDE DEF S
  <2> QED
    BY <2>1, SeqSubset
<1> HIDE DEF S
<1>3. line # <<>> => Len(line) \in 1 .. Len(line) /\ line[Len(line)] # Newline
  OBVIOUS
<1>4. Stamped(line) \in Seq(S) /\ Read(Stamped(line)) = <<WithStamp(ReadLine(line))>>
  <2> DEFINE T == S \ {Newline}
  <2>1. line \in Seq(T) /\ " " \in T /\ Timestamp \in T
    <3>1. Toks \ {Newline} \subseteq T /\ " " \in T /\ Timestamp \in T
      BY <1>2, TokensType DEF S
    <3> HIDE DEF T
    <3> QED
      BY <3>1, SeqSubset
  <2>2. Newline \notin T /\ T \subseteq S
    OBVIOUS
  <2> HIDE DEF T
  <2>3. Stamped(line) = Append(line, " ") \o <<Timestamp>>
    BY <2>1, SepOne DEF Stamped
  <2>4. <<Timestamp>> \in Seq(T)
    BY <2>1, OneIsSeq
  <2>5. Append(line, " ") \o <<Timestamp>> \in Seq(T) /\ Append(line, " ") \o <<Timestamp>> # <<>>
    BY <2>1, <2>4, SepType
  <2>6. Stamped(line) \in Seq(T) /\ Stamped(line) # <<>>
    BY <2>3, <2>5
  <2>7. Read(Stamped(line)) = <<ReadLine(Stamped(line))>>
    BY <2>2, <2>6, ReadWhole
  <2>8. ReadLine(Stamped(line)) = WithStamp(ReadLine(line))
    BY <1>2, StampedLine
  <2>9. Stamped(line) \in Seq(S)
    BY <2>2, <2>6, SeqSubset
  <2> QED
    BY <2>7, <2>8, <2>9
<1>5. CASE text = line
  <2>1. PICK none : none = <<>>
    OBVIOUS
  <2>2. none \in Words(PointsIn(Toks))
    BY <2>1, WordsType
  <2>3. \A R, w : w \in Seq(R) => none \o w = w
    BY <2>1
  <2>4. Read(line) = none \o Read(line)
    BY <1>2, <2>3, ReadType DEF Words
  <2>5. Read(Stamped(line)) = none \o <<WithStamp(ReadLine(line))>>
    <3>1. <<WithStamp(ReadLine(line))>> \in Seq({WithStamp(ReadLine(line))})
      BY OneIsSeq
    <3> QED
      BY <1>4, <2>3, <3>1
  <2> QED
    BY <1>3, <1>5, <2>2, <2>4, <2>5
<1>6. ASSUME NEW a \in Seq(Toks), text = Append(a, Newline) \o line
      PROVE  /\ Read(text) = Read(a) \o Read(line)
             /\ Read(Stamped(text)) = Read(a) \o <<WithStamp(ReadLine(line))>>
             /\ Read(a) \in Words(PointsIn(Toks))
             /\ text # <<>> /\ (line = <<>> <=> text[Len(text)] = Newline)
  <2>1. PICK stamp, b : stamp = <<" ", Timestamp>> /\ b = Append(a, Newline)
    OBVIOUS
  <2>2. /\ b \in Seq(Toks) /\ Len(b) \in Nat \ {0} /\ b[Len(b)] = Newline
    <3>1. PICK nl : nl = Newline
      OBVIOUS
    <3>2. a \in Seq(Toks) /\ nl \in Toks
      BY <1>2, <3>1
    <3>3. /\ Append(a, nl) \in Seq(Toks) /\ Len(Append(a, nl)) \in Nat \ {0}
          /\ Append(a, nl)[Len(Append(a, nl))] = nl
      BY ONLY <3>2, OneMore
    <3> QED
      BY <2>1, <3>1, <3>3
  <2>3. a \in Seq(S) /\ b \in Seq(S) /\ stamp \in Seq(S)
    <3>1. Toks \subseteq S
      BY DEF S
    <3> QED
      BY <1>2, <2>1, <2>2, <3>1, SeqSubset, PairIsSeq
  <2>4. Read(text) = Read(a) \o Read(line)
    BY <1>2, <1>6, ReadSplit
  <2>5. Stamped(text) = Append(a, Newline) \o Stamped(line)
    <3>1. (b \o line) \o stamp = b \o (line \o stamp)
      <4>1. b \in Words(S) /\ line \in Words(S) /\ stamp \in Words(S)
        BY <1>2, <2>3 DEF Words
      <4> QED
        BY ONLY <4>1, JoinAssociative
    <3> QED
      BY <1>6, <2>1, <3>1 DEF Stamped
  <2>6. Read(Append(a, Newline) \o Stamped(line)) = Read(a) \o Read(Stamped(line))
    BY <1>2, <1>4, <2>3, ReadSplit
  <2>7. Read(a) \in Words(PointsIn(Toks))
    BY ReadType
  <2>8. text # <<>> /\ (line = <<>> <=> text[Len(text)] = Newline)
    <3>1. /\ Len(text) = Len(b) + Len(line)
          /\ \A i \in 1 .. Len(b) + Len(line) :
               text[i] = IF i <= Len(b) THEN b[i] ELSE line[i - Len(b)]
      <4>1. b \in Seq(Toks) /\ line \in Seq(Toks) /\ text = b \o line
        BY <1>2, <1>6, <2>1, <2>2
      <4> QED
        BY <4>1, ConcatProperties
    <3>2. Len(line) \in Nat /\ (line = <<>> <=> Len(line) = 0)
      BY <1>2, NoneIsEmpty
    <3>3. Len(text) \in 1 .. Len(b) + Len(line) /\ text # <<>>
      BY <2>2, <3>1, <3>2
    <3>4. CASE line = <<>>
      BY <2>2, <3>1, <3>2, <3>3, <3>4
    <3>5. CASE line # <<>>
      <4>1. ~(Len(text) <= Len(b)) /\ Len(text) - Len(b) = Len(line)
        BY <2>2, <3>1, <3>2, <3>5
      <4>2. text[Len(text)] = line[Len(line)]
        BY <3>1, <3>3, <4>1
      <4> QED
        BY <1>3, <3>3, <3>5, <4>2
    <3> QED
      BY <3>4, <3>5
  <2> QED
    BY <1>4, <2>4, <2>5, <2>6, <2>7, <2>8
<1> QED
  BY <1>1, <1>5, <1>6

\* A text in the window: which points it has, and if it was stamped.
Entry(text, stamped) ==
  [text |-> IF stamped THEN Stamped(text) ELSE text,
   points |-> Read(text), stamped |-> stamped]
Entries == {Entry(text, stamped) : text \in Words(Toks), stamped \in BOOLEAN}

\* The timestamp is lost when it comes after nothing or after a newline.
LEMMA LostStamp ==
  ASSUME NEW text \in Words(Toks)
  PROVE  StampLost(Entry(text, TRUE)) <=> text = <<>> \/ text[Len(text)] = Newline
<1>1. PICK stamp, e : stamp = <<" ", Timestamp>> /\ e = Entry(text, TRUE)
  OBVIOUS
<1>2. e.text = text \o stamp
  BY <1>1 DEF Stamped, Entry
<1>3. stamp \in Seq({" ", Timestamp}) /\ Len(stamp) = 2
  <2>1. " " \in {" ", Timestamp} /\ Timestamp \in {" ", Timestamp}
    OBVIOUS
  <2>2. <<" ", Timestamp>> \in Seq({" ", Timestamp})
    BY ONLY <2>1, PairIsSeq
  <2>3. \A y, z : Len(<<y, z>>) = 2
    OBVIOUS
  <2> QED
    BY <1>1, <2>2, <2>3
<1>4. PICK Z : Z = Toks \cup {" ", Timestamp}
  OBVIOUS
<1>5. text \in Seq(Z) /\ stamp \in Seq(Z) /\ Len(text) \in Nat /\ (text = <<>> <=> Len(text) = 0)
  <2>1. text \in Seq(Toks)
    BY DEF Words
  <2>2. Len(text) \in Nat /\ (text = <<>> <=> Len(text) = 0)
    BY <2>1, NoneIsEmpty
  <2>3. text \in Seq(Z) /\ stamp \in Seq(Z)
    BY <1>3, <1>4, <2>1, SeqSubset
  <2> QED
    BY <2>2, <2>3
<1>6. /\ Len(e.text) = Len(text) + 2
      /\ \A i \in 1 .. Len(text) + 2 :
           e.text[i] = IF i <= Len(text) THEN text[i] ELSE stamp[i - Len(text)]
  <2>1. /\ Len(text \o stamp) = Len(text) + Len(stamp)
        /\ \A i \in 1 .. Len(text) + Len(stamp) :
             (text \o stamp)[i] = IF i <= Len(text) THEN text[i] ELSE stamp[i - Len(text)]
    BY <1>5, ConcatProperties
  <2> QED
    BY <1>2, <1>3, <2>1
<1>7. Len(text) > 0 => e.text[Len(text)] = text[Len(text)]
  <2>1. Len(text) > 0 => Len(text) \in 1 .. Len(text) + 2 /\ Len(text) <= Len(text)
    BY <1>5
  <2> QED
    BY <1>6, <2>1
<1>8. Len(e.text) - 2 = Len(text) /\ (Len(e.text) = 2 <=> Len(text) = 0)
  BY <1>5, <1>6
<1>9. StampLost(e) <=> Len(text) = 0 \/ e.text[Len(text)] = Newline
  BY <1>8 DEF StampLost
<1>10. StampLost(e) <=> text = <<>> \/ text[Len(text)] = Newline
  <2>1. Len(text) = 0 \/ Len(text) > 0
    BY <1>5
  <2> QED
    BY <1>5, <1>7, <1>9, <2>1
<1> QED
  BY <1>1, <1>10

\* A server reads from a text in the window what it is to make of it.
LEMMA EntryRead ==
  ASSUME NEW e \in Entries
  PROVE  Expected(e) = Read(e.text)
<1>1. PICK text \in Words(Toks), s \in BOOLEAN : e = Entry(text, s)
  BY DEF Entries
<1>2. PICK p : p = Read(text)
  OBVIOUS
<1>3. e.points = p /\ e.stamped = s /\ e.text = IF s THEN Stamped(text) ELSE text
  BY <1>1, <1>2 DEF Entry
<1>4. CASE s = FALSE
  BY <1>2, <1>3, <1>4 DEF Expected
<1>5. CASE s = TRUE
  <2>1. PICK before \in Words(PointsIn(Toks)), line \in Seq(Toks \ {Newline}) :
          /\ p = before \o Read(line)
          /\ Read(Stamped(text)) = before \o <<WithStamp(ReadLine(line))>>
          /\ line = <<>> <=> text = <<>> \/ text[Len(text)] = Newline
    BY <1>2, StampedRead DEF Words
  <2>2. PICK point, R : point = ReadLine(line) /\ R = PointsIn(Toks) \cup {point, WithStamp(point)}
    OBVIOUS
  <2>3. before \in Seq(R) /\ point \in R /\ WithStamp(point) \in R
    BY <2>2, SeqSubset DEF Words
  <2>4. \A x \in R : before \o <<x>> = Append(before, x)
    BY <2>3
  <2>5. Read(e.text) = Append(before, WithStamp(point))
    BY <1>3, <1>5, <2>1, <2>2, <2>3, <2>4
  <2>6. StampLost(e) <=> line = <<>>
    BY <1>1, <1>5, <2>1, LostStamp
  <2>7. CASE line = <<>>
    <3>1. point = Refused /\ WithStamp(point) = Refused
      BY <2>2, <2>7, EmptyLine DEF WithStamp
    <3>2. p = before
      BY <2>1, <2>3, <2>7, ReadEmpty, NothingAdded
    <3>3. Expected(e) = Append(p, Refused)
      BY <1>3, <1>5, <2>6, <2>7 DEF Expected
    <3> QED
      BY <2>5, <3>1, <3>2, <3>3
  <2>8. CASE line # <<>>
    <3>1. Read(line) = <<point>>
      <4>1. Newline \notin Toks \ {Newline}
        OBVIOUS
      <4> QED
        BY <2>2, <2>8, <4>1, ReadWhole
    <3>2. p = Append(before, point)
      BY <2>1, <2>3, <2>4, <3>1
    <3>3. Expected(e) = [p EXCEPT ![Len(p)] = WithStamp(p[Len(p)])]
      BY <1>3, <1>5, <2>6, <2>8 DEF Expected
    <3>4. PICK new : new = WithStamp(point)
      OBVIOUS
    <3>5. p[Len(p)] = point /\ [p EXCEPT ![Len(p)] = new] = Append(before, new)
      <4>1. before \in Seq(R) /\ point \in R /\ new \in R
        BY <2>3, <3>4
      <4> QED
        BY ONLY <3>2, <4>1, AppendExcept
    <3> QED
      BY <2>5, <3>3, <3>4, <3>5
  <2> QED
    BY <2>7, <2>8
<1> QED
  BY <1>4, <1>5

-----------------------------------------------------------------------------
(* The body of a batch *)

\* Applying a function to each member.
LEMMA MapAppend ==
  ASSUME NEW Z, NEW Y, NEW f \in [Z -> Y], NEW s \in Seq(Z), NEW e \in Z
  PROVE  /\ [i \in DOMAIN s |-> f[s[i]]] \in Seq(Y)
         /\ [i \in DOMAIN Append(s, e) |-> f[Append(s, e)[i]]] =
              Append([i \in DOMAIN s |-> f[s[i]]], f[e])
<1>1. PICK a : a = Append(s, e)
  OBVIOUS
<1> DEFINE n == Len(s)
<1>2. /\ n \in Nat /\ DOMAIN s = 1 .. n /\ \A i \in 1 .. n : s[i] \in Z
      /\ DOMAIN a = 1 .. n + 1 /\ a[n + 1] = e /\ \A i \in 1 .. n : a[i] = s[i]
  BY <1>1
<1> HIDE DEF n
<1> DEFINE fs == [i \in DOMAIN s |-> f[s[i]]]
<1> DEFINE fa == [i \in DOMAIN a |-> f[a[i]]]
<1>3. fs \in [1 .. n -> Y] /\ \A i \in 1 .. n : fs[i] = f[s[i]]
  BY <1>2
<1>4. fa \in [1 .. n + 1 -> Y] /\ \A i \in 1 .. n + 1 : fa[i] = f[a[i]]
  <2>1. \A i \in 1 .. n + 1 : a[i] \in Z
    <3> SUFFICES ASSUME NEW i \in 1 .. n + 1 PROVE a[i] \in Z
      OBVIOUS
    <3>1. i = n + 1 \/ i \in 1 .. n
      BY <1>2
    <3> QED
      BY <1>2, <3>1
  <2> QED
    BY <1>2, <2>1
<1> HIDE DEF fs, fa
<1>5. fs \in Seq(Y) /\ Len(fs) = n
  BY <1>2, <1>3, SeqDef, LenProperties
<1>6. fa \in Seq(Y) /\ Len(fa) = n + 1
  <2>1. n + 1 \in Nat
    BY <1>2
  <2> QED
    BY <1>4, <2>1, SeqDef, LenProperties
<1>7. f[e] \in Y
  OBVIOUS
<1> DEFINE b == Append(fs, f[e])
<1>8. /\ b \in Seq(Y) /\ Len(b) = n + 1 /\ b[n + 1] = f[e]
      /\ \A i \in 1 .. n : b[i] = fs[i]
  <2>1. PICK y : y = f[e]
    OBVIOUS
  <2>2. y \in Y
    BY <1>7, <2>1
  <2>3. /\ Append(fs, y) \in Seq(Y) /\ Len(Append(fs, y)) = Len(fs) + 1
        /\ Append(fs, y)[Len(fs) + 1] = y
        /\ \A i \in 1 .. Len(fs) : Append(fs, y)[i] = fs[i]
    BY <1>5, <2>2
  <2> QED
    BY <1>5, <2>1, <2>3
<1> HIDE DEF b
<1>9. \A i \in 1 .. Len(fa) : fa[i] = b[i]
  <2> SUFFICES ASSUME NEW i \in 1 .. n + 1 PROVE fa[i] = b[i]
    BY <1>6
  <2>1. i = n + 1 \/ i \in 1 .. n
    BY <1>2
  <2>2. i \in 1 .. n => fa[i] = f[s[i]] /\ b[i] = f[s[i]]
    BY <1>2, <1>3, <1>4, <1>8
  <2>3. i = n + 1 => fa[i] = f[e] /\ b[i] = f[e]
    BY <1>2, <1>4, <1>8
  <2> QED
    BY <2>1, <2>2, <2>3
<1>10. fa = b
  BY <1>6, <1>8, <1>9, SeqEqual
<1> QED
  BY <1>1, <1>5, <1>10 DEF fs, fa, b

Ended(texts) == [i \in DOMAIN texts |-> texts[i] \o <<Newline>>]
Answers(texts) == [i \in DOMAIN texts |-> Read(texts[i])]

LEMMA TextsAppend ==
  ASSUME NEW S, Newline \in S, NEW texts \in Seq(Words(S)), NEW text \in Words(S)
  PROVE  /\ Ended(texts) \in Seq(Words(S))
         /\ Ended(Append(texts, text)) = Append(Ended(texts), text \o <<Newline>>)
         /\ Answers(texts) \in Seq(Words(PointsIn(S)))
         /\ Answers(Append(texts, text)) = Append(Answers(texts), Read(text))
<1> DEFINE f == [w \in Words(S) |-> w \o <<Newline>>]
<1> DEFINE g == [w \in Words(S) |-> Read(w)]
<1>1. f \in [Words(S) -> Words(S)]
  <2>1. <<Newline>> \in Seq(S)
    BY OneIsSeq
  <2>2. \A w \in Words(S) : w \o <<Newline>> \in Words(S)
    BY <2>1 DEF Words
  <2> QED
    BY <2>2
<1>2. g \in [Words(S) -> Words(PointsIn(S))]
  BY ReadType DEF Words
<1>3. PICK long : long = Append(texts, text)
  OBVIOUS
<1>4. long \in Seq(Words(S))
  BY <1>3
<1>5. \A ts \in Seq(Words(S)) : /\ Ended(ts) = [i \in DOMAIN ts |-> f[ts[i]]]
                               /\ Answers(ts) = [i \in DOMAIN ts |-> g[ts[i]]]
  <2> SUFFICES ASSUME NEW ts \in Seq(Words(S))
               PROVE  /\ Ended(ts) = [i \in DOMAIN ts |-> f[ts[i]]]
                      /\ Answers(ts) = [i \in DOMAIN ts |-> g[ts[i]]]
    OBVIOUS
  <2>1. \A i \in DOMAIN ts : ts[i] \in Words(S)
    OBVIOUS
  <2> QED
    BY <2>1 DEF Ended, Answers
<1>6. f[text] = text \o <<Newline>> /\ g[text] = Read(text)
  OBVIOUS
<1> HIDE DEF f, g
<1>7. /\ [i \in DOMAIN texts |-> f[texts[i]]] \in Seq(Words(S))
      /\ [i \in DOMAIN long |-> f[long[i]]] = Append([i \in DOMAIN texts |-> f[texts[i]]], f[text])
  BY <1>1, <1>3, MapAppend
<1>8. /\ [i \in DOMAIN texts |-> g[texts[i]]] \in Seq(Words(PointsIn(S)))
      /\ [i \in DOMAIN long |-> g[long[i]]] = Append([i \in DOMAIN texts |-> g[texts[i]]], g[text])
  <2>1. PICK Z, Y : Z = Words(S) /\ Y = Words(PointsIn(S))
    OBVIOUS
  <2>2. g \in [Z -> Y] /\ texts \in Seq(Z) /\ text \in Z
    BY <1>2, <2>1
  <2>3. /\ [i \in DOMAIN texts |-> g[texts[i]]] \in Seq(Y)
        /\ [i \in DOMAIN Append(texts, text) |-> g[Append(texts, text)[i]]] =
             Append([i \in DOMAIN texts |-> g[texts[i]]], g[text])
    BY ONLY <2>2, MapAppend
  <2> QED
    BY <1>3, <2>1, <2>3
<1> QED
  BY <1>3, <1>4, <1>5, <1>6, <1>7, <1>8

\* Each text of a batch is read as it would be on its own.
LEMMA BatchRead ==
  ASSUME NEW S, Newline \in S
  PROVE  \A texts \in Seq(Words(S)) : Read(BatchBody(texts)) = FlattenSeq(Answers(texts))
<1> DEFINE Closed(body) == body = <<>> \/ \E b \in Seq(S) : body = Append(b, Newline)
<1> DEFINE G == {texts \in Seq(Words(S)) :
             /\ Closed(BatchBody(texts))
             /\ Read(BatchBody(texts)) = FlattenSeq(Answers(texts))}
<1>0. \A texts : BatchBody(texts) = FlattenSeq(Ended(texts))
  BY DEF BatchBody, Ended
<1>1. <<>> \in G
  <2>1. PICK none : none = <<>>
    OBVIOUS
  <2>2. none \in Seq(Words(S)) /\ Ended(none) = none /\ Answers(none) = none
    BY <2>1 DEF Ended, Answers
  <2>3. BatchBody(none) = none /\ FlattenSeq(none) = none
    BY <1>0, <2>1, <2>2, FlattenEmpty
  <2>4. Read(none) = none
    BY <2>1, ReadEmpty
  <2>5. Closed(none)
    BY <2>1
  <2> HIDE DEF Closed
  <2>6. none \in G
    BY <2>2, <2>3, <2>4, <2>5
  <2> QED
    BY <2>1, <2>6
<1>2. ASSUME NEW texts \in Seq(Words(S)), NEW text \in Words(S), texts \in G
      PROVE  Append(texts, text) \in G
  <2> DEFINE body == BatchBody(texts)
  <2> DEFINE ended == text \o <<Newline>>
  <2>1. Closed(body) /\ Read(body) = FlattenSeq(Answers(texts))
    BY <1>2
  <2>2. text \in Seq(S) /\ Newline \in S
    BY DEF Words
  <2>3. ended = Append(text, Newline) /\ ended \in Words(S) /\ ended # <<>>
    BY <2>2 DEF Words
  <2>4. /\ Ended(texts) \in Seq(Words(S)) /\ Answers(texts) \in Seq(Words(PointsIn(S)))
        /\ Ended(Append(texts, text)) = Append(Ended(texts), ended)
        /\ Answers(Append(texts, text)) = Append(Answers(texts), Read(text))
    BY TextsAppend
  <2>5. Read(text) \in Words(PointsIn(S))
    BY <2>2, ReadType
  <2>6. body \in Words(S)
    BY <1>0, <2>4, FlattenType
  <2> HIDE DEF ended, body
  <2>7. BatchBody(Append(texts, text)) = body \o ended
    <3>1. FlattenSeq(Append(Ended(texts), ended)) = FlattenSeq(Ended(texts)) \o ended
      BY <2>3, <2>4, FlattenAppend
    <3> QED
      BY <1>0, <2>4, <3>1 DEF body
  <2>8. FlattenSeq(Answers(Append(texts, text))) = FlattenSeq(Answers(texts)) \o Read(text)
    <3>1. FlattenSeq(Append(Answers(texts), Read(text))) = FlattenSeq(Answers(texts)) \o Read(text)
      BY <2>4, <2>5, FlattenAppend
    <3> QED
      BY <2>4, <3>1
  <2>9. Closed(body \o ended)
    <3>1. PICK both : both = body \o text
      OBVIOUS
    <3>2. both \in Seq(S)
      BY <2>2, <2>6, <3>1 DEF Words
    <3>3. body \o ended = Append(both, Newline)
      <4>1. body \in Seq(S) /\ text \in Seq(S) /\ Newline \in S
        BY <2>2, <2>6 DEF Words
      <4>2. body \o Append(text, Newline) = Append(both, Newline)
        BY ONLY <3>1, <4>1
      <4> QED
        BY <2>3, <4>2
    <3> QED
      BY <3>2, <3>3
  <2>10. Read(ended) = Read(text)
    <3>1. PICK none : none = <<>>
      OBVIOUS
    <3>2. none \in Seq(S) /\ ended \o none = ended
      BY <2>3, <3>1, NothingAdded DEF Words
    <3>3. Read(Append(text, Newline) \o none) = Read(text) \o Read(none)
      BY <2>2, <3>2, ReadSplit
    <3>4. Read(text) \o Read(none) = Read(text)
      BY <2>5, <3>1, ReadEmpty, NothingAdded DEF Words
    <3> QED
      BY <2>3, <3>2, <3>3, <3>4
  <2>11. Read(body \o ended) = Read(body) \o Read(ended)
    <3>1. ended \in Seq(S) /\ Read(ended) \in Seq(PointsIn(S))
      BY <2>3, ReadType DEF Words
    <3>2. CASE body = <<>>
      <4>1. <<>> \o ended = ended /\ <<>> \o Read(ended) = Read(ended)
        BY <3>1, NothingAdded
      <4> QED
        BY <3>2, <4>1, ReadEmpty
    <3>3. ASSUME NEW b \in Seq(S), body = Append(b, Newline)
          PROVE  Read(body \o ended) = Read(body) \o Read(ended)
      <4>1. PICK none : none = <<>>
        OBVIOUS
      <4>2. none \in Seq(S) /\ body \o none = body
        BY <2>6, <4>1, NothingAdded DEF Words
      <4>3. Read(Append(b, Newline) \o none) = Read(b) \o Read(none)
        BY <4>2, ReadSplit
      <4>4. Read(b) \in Seq(PointsIn(S))
        BY ReadType DEF Words
      <4>5. Read(b) \o Read(none) = Read(b)
        BY <4>1, <4>4, ReadEmpty, NothingAdded
      <4>6. Read(Append(b, Newline) \o ended) = Read(b) \o Read(ended)
        BY <3>1, ReadSplit
      <4> QED
        BY <3>3, <4>2, <4>3, <4>5, <4>6
    <3> QED
      BY <2>1, <3>2, <3>3
  <2>12. Read(body \o ended) = FlattenSeq(Answers(Append(texts, text)))
    BY <2>1, <2>8, <2>10, <2>11
  <2>13. Append(texts, text) \in Seq(Words(S))
    OBVIOUS
  <2> HIDE DEF Closed
  <2> QED
    BY <2>7, <2>9, <2>12, <2>13
<1>3. \A texts \in Seq(Words(S)) : texts \in G
  <2> HIDE DEF G
  <2> QED
    BY <1>1, <1>2, SeqInduction
<1> QED
  BY <1>3

-----------------------------------------------------------------------------
(* The handle and the window *)

\* The points are always those that a server reads from the text; a cache that
\* is out of date lacks a point.
HandleInv ==
  /\ line_obj \in Words(Toks) /\ points = Read(line_obj)
  /\ cached_string \in Words(Toks) /\ string_cached \in BOOLEAN
  /\ string_cached => Read(cached_string) = points
  /\ ~string_cached /\ cached_string # <<>> => Len(Read(cached_string)) < Len(points)

Inv ==
  /\ KvpSays(tags_kvp, tags) /\ KvpSays(values_kvp, values)
  /\ HandleInv
  /\ window \in Seq(Entries)

LEMMA RawRead ==
  ASSUME NEW raw \in Raws
  PROVE  raw \in Words(Toks) /\ RawPoints[raw] = Read(raw)
<1>1. raw \in Seq(Range(raw)) /\ Timestamp \notin Range(raw)
  BY TextAssumption
<1>2. Range(raw) \subseteq Toks
  BY <1>1 DEF Toks
<1> QED
  BY <1>1, <1>2, SeqSubset DEF Words, RawPoints

\* The text of lines(measurement, tags, values), and what is read from it.
LEMMA NewLine ==
  ASSUME NEW m \in Measurements, KvpSays(tags_kvp, tags), KvpSays(values_kvp, values)
  PROVE  LET text == LineOf(m, tags_kvp, values_kvp)
         IN text \in Words(Toks) /\ Read(text) = <<Point(m)>>
<1> DEFINE S == Plain \cup {",", " "}
<1>1. PICK text : text = LineOf(m, tags_kvp, values_kvp)
  OBVIOUS
<1>2. m \in Plain
  BY DEF Plain
<1>3. ReadLine(text) = Point(m) /\ text \in Seq(S) /\ text # <<>>
  BY <1>1, <1>2, LineRead DEF Point
<1>4. Newline \notin S /\ S \subseteq Toks
  BY TokensType
<1> HIDE DEF S
<1>5. Read(text) = <<ReadLine(text)>>
  BY <1>3, <1>4, ReadWhole
<1>6. text \in Words(Toks)
  BY <1>3, <1>4, SeqSubset DEF Words
<1> QED
  BY <1>1, <1>3, <1>5, <1>6

\* What is read after a newline and a text were added.
LEMMA Added ==
  ASSUME NEW old \in Words(Toks), NEW text \in Words(Toks)
  PROVE  /\ old \o <<Newline>> \o text \in Words(Toks)
         /\ Read(old \o <<Newline>> \o text) = Read(old) \o Read(text)
         /\ Append(old, Newline) \in Words(Toks)
         /\ Read(Append(old, Newline)) = Read(old)
<1>1. old \in Seq(Toks) /\ text \in Seq(Toks) /\ Newline \in Toks
  BY TokensType DEF Words
<1>2. PICK nl : nl = Newline
  OBVIOUS
<1>3. old \in Seq(Toks) /\ text \in Seq(Toks) /\ nl \in Toks
  BY <1>1, <1>2
<1>4. old \o <<nl>> = Append(old, nl)
  BY ONLY <1>3
<1>5. Append(old, nl) \in Seq(Toks)
  BY ONLY <1>3
<1>6. Append(old, nl) \o text \in Seq(Toks)
  BY ONLY <1>3, SepType
<1>7. Read(Append(old, Newline) \o text) = Read(old) \o Read(text)
  BY <1>1, ReadSplit
<1>8. Read(Append(old, Newline)) = Read(old)
  <2>1. PICK none : none = <<>>
    OBVIOUS
  <2>2. none \in Seq(Toks) /\ Append(old, nl) \o none = Append(old, nl)
    BY <1>5, <2>1, NothingAdded
  <2>3. Read(Append(old, Newline) \o none) = Read(old) \o Read(none)
    BY <1>1, <2>2, ReadSplit
  <2>4. Read(old) \o Read(none) = Read(old)
    BY <1>1, <2>1, ReadType, ReadEmpty, NothingAdded DEF Words
  <2> QED
    BY <1>2, <2>2, <2>3, <2>4
<1> QED
  BY <1>2, <1>4, <1>5, <1>6, <1>7, <1>8 DEF Words

LEMMA HandleFresh ==
  ASSUME NEW text \in Words(Toks), NEW said, said = Read(text), Inv, Fresh(text, said)
  PROVE  Inv'
<1>1. Assign(<<>>, text) = text
  BY NothingAdded DEF Assign, Words
<1>2. HandleInv'
  BY <1>1, WordsType DEF HandleInv, Fresh
<1> QED
  BY <1>2 DEF Inv, Fresh, pairVars, KvpSays

LEMMA Inserted ==
  ASSUME NEW text \in Words(Toks), NEW stamped \in BOOLEAN, Inv,
         Insert(IF stamped THEN Stamped(text) ELSE text, Read(text), stamped)
  PROVE  Inv'
<1>1. PICK e : e = Entry(text, stamped)
  OBVIOUS
<1>2. e \in Entries
  BY <1>1 DEF Entries
<1>3. window' = Append(window, e) /\ window \in Seq(Entries)
  BY <1>1 DEF Insert, Entry, Inv
<1>4. window' \in Seq(Entries)
  BY <1>2, <1>3
<1> QED
  BY <1>4 DEF Inv, Insert, pairVars, handleVars, HandleInv

LEMMA PairsAdded ==
  ASSUME Inv, NEW pair \in Range(Pairs), add_tag(pair) \/ add_value(pair)
  PROVE  Inv'
<1>1. pair \in Plain
  BY DEF Plain
<1>2. CASE add_tag(pair)
  <2>1. KvpSays(tags_kvp', tags')
    BY <1>1, <1>2, AddPairSays DEF add_tag, Inv
  <2> QED
    BY <1>2, <2>1 DEF add_tag, Inv, handleVars, HandleInv
<1>3. CASE add_value(pair)
  <2>1. KvpSays(values_kvp', values')
    BY <1>1, <1>3, AddPairSays DEF add_value, Inv
  <2> QED
    BY <1>3, <2>1 DEF add_value, Inv, handleVars, HandleInv
<1> QED
  BY <1>2, <1>3

LEMMA LineAdded ==
  ASSUME Inv, NEW m \in Measurements, lines_add_line(m)
  PROVE  Inv'
<1>1. PICK text : text = LineOf(m, tags_kvp, values_kvp)
  OBVIOUS
<1>2. text \in Words(Toks) /\ Read(text) = <<Point(m)>>
  BY <1>1, NewLine DEF Inv
<1>3. line_obj' \in Words(Toks) /\ Read(line_obj') = points \o <<Point(m)>>
  <2>1. PICK old : old = line_obj
    OBVIOUS
  <2>2. old \in Words(Toks) /\ points = Read(old)
    BY <2>1 DEF Inv, HandleInv
  <2>3. line_obj' = old \o <<Newline>> \o text
    BY <1>1, <2>1 DEF lines_add_line
  <2>4. /\ old \o <<Newline>> \o text \in Words(Toks)
        /\ Read(old \o <<Newline>> \o text) = Read(old) \o Read(text)
    BY ONLY <1>2, <2>2, Added
  <2>5. PICK new : new = old \o <<Newline>> \o text
    OBVIOUS
  <2>6. new \in Words(Toks) /\ Read(new) = Read(old) \o Read(text) /\ line_obj' = new
    BY <2>3, <2>4, <2>5
  <2> QED
    BY <1>2, <2>2, <2>6
<1>4. PICK p : p = Point(m)
  OBVIOUS
<1>5. PICK R : R = PointsIn(Toks) \cup {p}
  OBVIOUS
<1>6. points \in Seq(R) /\ p \in R
  <2>1. points \in Seq(PointsIn(Toks))
    BY ReadType DEF Inv, HandleInv, Words
  <2> QED
    BY <1>5, <2>1, SeqSubset
<1>7. points \o <<p>> = Append(points, p)
  BY ONLY <1>6
<1>8. Len(Append(points, p)) = Len(points) + 1 /\ Len(points) \in Nat
  BY ONLY <1>6
<1>9. points' = Append(points, p) /\ string_cached' = FALSE /\ cached_string' = cached_string
  BY <1>4 DEF lines_add_line
<1>10. cached_string # <<>> => Len(Read(cached_string)) < Len(points) + 1
  <2>1. CASE string_cached
    BY <1>8, <2>1 DEF Inv, HandleInv
  <2>2. CASE ~string_cached
    <3>1. Read(cached_string) \in Seq(PointsIn(Toks))
      BY ReadType DEF Inv, HandleInv, Words
    <3>2. Len(Read(cached_string)) \in Nat
      BY <3>1
    <3> QED
      BY <1>8, <2>2, <3>2 DEF Inv, HandleInv
  <2> QED
    BY <2>1, <2>2
<1>11. HandleInv'
  BY <1>3, <1>4, <1>7, <1>8, <1>9, <1>10 DEF HandleInv, Inv
<1> QED
  BY <1>11 DEF Inv, lines_add_line, pairVars, KvpSays

LEMMA StepInv ==
  ASSUME Inv, [Next]_vars
  PROVE  Inv'
<1>1. ASSUME NEW pair \in Range(Pairs), add_tag(pair) \/ add_value(pair) PROVE Inv'
  BY <1>1, PairsAdded
<1>2. CASE key_value_pairs_new
  <2>1. KvpSays(<<>>, <<>>)
    BY DEF KvpSays
  <2> QED
    BY <1>2, <2>1 DEF key_value_pairs_new, Inv, handleVars, HandleInv
<1>3. CASE lines_new
  <2>1. PICK none : none = <<>>
    OBVIOUS
  <2>2. none \in Words(Toks) /\ none = Read(none) /\ Fresh(none, none)
    BY <1>3, <2>1, WordsType, ReadEmpty DEF lines_new
  <2> QED
    BY <2>2, HandleFresh
<1>4. ASSUME NEW raw \in Raws, lines_new_raw(raw) PROVE Inv'
  BY <1>4, RawRead, HandleFresh DEF lines_new_raw
<1>5. ASSUME NEW raw \in Raws, insert(raw) PROVE Inv'
  <2>1. raw \in Words(Toks)
    BY RawRead
  <2>2. Insert(IF FALSE THEN Stamped(raw) ELSE raw, Read(raw), FALSE)
    BY <1>5, RawRead DEF insert
  <2>3. FALSE \in BOOLEAN
    OBVIOUS
  <2> QED
    BY <2>1, <2>2, <2>3, Inserted
<1>6. ASSUME NEW raw \in Raws, insert_default_timestamp(raw) PROVE Inv'
  <2>1. raw \in Words(Toks)
    BY RawRead
  <2>2. Insert(IF TRUE THEN Stamped(raw) ELSE raw, Read(raw), TRUE)
    BY <1>6, RawRead DEF insert_default_timestamp
  <2>3. TRUE \in BOOLEAN
    OBVIOUS
  <2> QED
    BY <2>1, <2>2, <2>3, Inserted
<1>7. ASSUME NEW m \in Measurements, lines_new_measurement(m) PROVE Inv'
  <2>1. PICK text, said : text = LineOf(m, tags_kvp, values_kvp) /\ said = <<Point(m)>>
    OBVIOUS
  <2>2. text \in Words(Toks) /\ said = Read(text)
    BY <2>1, NewLine DEF Inv
  <2>3. Fresh(text, said)
    BY <1>7, <2>1 DEF lines_new_measurement
  <2> QED
    BY <2>2, <2>3, HandleFresh
<1>8. ASSUME NEW m \in Measurements, lines_add_line(m) PROVE Inv'
  BY <1>8, LineAdded
<1>9. CASE lines_add_invalid
  <2>1. line_obj' \in Words(Toks) /\ Read(line_obj') = points
    BY <1>9, Added DEF lines_add_invalid, Inv, HandleInv
  <2> QED
    BY <1>9, <2>1 DEF lines_add_invalid, Inv, HandleInv, pairVars
<1>10. CASE lines_get
  BY <1>10 DEF lines_get, Cache, Inv, HandleInv, pairVars
<1>11. CASE insert_lines
  <2>1. Insert(IF FALSE THEN Stamped(line_obj) ELSE line_obj, Read(line_obj), FALSE)
    BY <1>11 DEF insert_lines, Inv, HandleInv
  <2>2. line_obj \in Words(Toks) /\ FALSE \in BOOLEAN
    BY DEF Inv, HandleInv
  <2> QED
    BY <2>1, <2>2, Inserted
<1>12. CASE insert_lines_default_timestamp
  <2>1. Insert(IF TRUE THEN Stamped(line_obj) ELSE line_obj, Read(line_obj), TRUE)
    BY <1>12 DEF insert_lines_default_timestamp, Inv, HandleInv
  <2>2. line_obj \in Words(Toks) /\ TRUE \in BOOLEAN
    BY DEF Inv, HandleInv
  <2> QED
    BY <2>1, <2>2, Inserted
<1>13. CASE UNCHANGED vars
  BY <1>13 DEF vars, pairVars, handleVars, Inv, HandleInv
<1> QED
  BY <1>1, <1>2, <1>3, <1>4, <1>5, <1>6, <1>7, <1>8, <1>9, <1>10, <1>11, <1>12, <1>13 DEF Next

LEMMA InvHolds == Spec => []Inv
<1>1. Init => Inv
  <2> SUFFICES ASSUME Init PROVE Inv
    OBVIOUS
  <2>1. <<>> \in Words(Toks) /\ \A Z : <<>> \in Seq(Z)
    BY WordsType
  <2> QED
    BY <2>1, ReadEmpty DEF Init, Inv, HandleInv, KvpSays
<1>2. Inv /\ [Next]_vars => Inv'
  BY StepInv
<1> QED
  BY <1>1, <1>2, PTL DEF Spec

\* lines_get(): whatever was added before it, and whatever additions failed after
\* it, the text that it returned has every point of the handle.
THEOREM CacheIsComplete == Spec => []CacheShowsAll
<1>1. Inv => CacheShowsAll
  BY DEF Inv, HandleInv, CacheShowsAll
<1> QED
  BY <1>1, InvHolds, PTL

\* lines_get() writes over a text that it returned before only if that text lacks
\* a point.
THEOREM PointerStaysGood == Spec => PointerLasts
<1>1. Inv => (lines_get /\ cached_string \notin {<<>>, cached_string'}
                => Read(cached_string) # points)
  <2> SUFFICES ASSUME Inv, lines_get, cached_string \notin {<<>>, cached_string'},
                      Read(cached_string) = points
               PROVE  FALSE
    OBVIOUS
  <2>1. ~string_cached
    BY DEF lines_get, Cache
  <2>2. Len(points) < Len(points)
    BY <2>1 DEF Inv, HandleInv
  <2>3. Len(points) \in Nat
    <3>1. points \in Seq(PointsIn(Toks))
      BY ReadType DEF Inv, HandleInv, Words
    <3> QED
      BY <3>1
  <2> QED
    BY <2>2, <2>3
<1> QED
  BY <1>1, InvHolds, PTL DEF PointerLasts

\* The body of a batch: for texts of any number and length, a server reads from it
\* the points that were added, in order, each with its own tags and values and the
\* last one of a text with the default timestamp where it was asked for; it refuses
\* the lines without values and the timestamps that have become a line of their
\* own, and nothing else.
THEOREM BatchIsRead == Spec => []BatchSays
<1>1. Inv => BatchSays
  <2> SUFFICES ASSUME Inv
               PROVE  Read(BatchBody(Texts)) =
                        FlattenSeq([i \in DOMAIN window |-> Expected(window[i])])
    BY DEF BatchSays
  <2> DEFINE S == Toks \cup {Timestamp}
  <2>1. \A e \in Entries : e.text \in Words(S)
    <3> SUFFICES \A text \in Words(Toks), s \in BOOLEAN : Entry(text, s).text \in Words(S)
      <4> HIDE DEF S
      <4> QED
        BY DEF Entries
    <3> TAKE text \in Words(Toks), s \in BOOLEAN
    <3>1. Toks \subseteq S /\ " " \in S /\ Timestamp \in S
      BY TokensType
    <3> HIDE DEF S
    <3>2. text \in Seq(S)
      BY <3>1, SeqSubset DEF Words
    <3>3. <<" ", Timestamp>> \in Seq(S)
      BY <3>1, PairIsSeq
    <3>4. text \o <<" ", Timestamp>> \in Seq(S)
      <4>1. \A x, y : x \in Seq(S) /\ y \in Seq(S) => x \o y \in Seq(S)
        OBVIOUS
      <4> QED
        BY <3>2, <3>3, <4>1
    <3> QED
      BY <3>2, <3>4 DEF Entry, Stamped, Words
  <2>2. Newline \in S
    BY TokensType
  <2> HIDE DEF S
  <2>3. window \in Seq(Entries) /\ \A i \in DOMAIN window : window[i] \in Entries
    BY DEF Inv
  <2>4. DOMAIN window = 1 .. Len(window) /\ Len(window) \in Nat
    BY <2>3
  <2>5. Texts \in [1 .. Len(window) -> Words(S)]
    BY <2>1, <2>3, <2>4 DEF Texts
  <2>6. Texts \in Seq(Words(S))
    BY <2>4, <2>5, SeqDef
  <2>7. Read(BatchBody(Texts)) = FlattenSeq(Answers(Texts))
    BY <2>2, <2>6, BatchRead
  <2>8. Answers(Texts) = [i \in DOMAIN window |-> Expected(window[i])]
    <3>1. DOMAIN Texts = DOMAIN window /\ \A i \in DOMAIN window : Texts[i] = window[i].text
      BY DEF Texts
    <3>2. \A i \in DOMAIN window : Expected(window[i]) = Read(Texts[i])
      BY <2>3, <3>1, EntryRead
    <3> QED
      BY <3>1, <3>2 DEF Answers
  <2> QED
    BY <2>7, <2>8
<1> QED
  BY <1>1, InvHolds, PTL

=============================================================================
