--------------------------- MODULE SequenceProofs ---------------------------
(***************************************************************************)
(* Facts about numbers and sequences that the modules on files and texts   *)
(* share: induction, what FlattenSeq makes of sequences, and where in a    *)
(* sequence the parts stand that it was put together from.                 *)
(***************************************************************************)
EXTENDS Integers, Sequences, SequencesExt, SequenceTheorems, FiniteSetTheorems,
        WellFoundedInduction, TLAPS

(* Induction over numbers, as the existence of a least counterexample: the *)
(* library's induction rules take an operator as a parameter.              *)
LEMMA LeastNumber ==
  ASSUME NEW S, S \subseteq Nat, S # {}
  PROVE  \E n \in S : \A m \in S : n <= m
<1> DEFINE R == OpToRel(<, Nat)
<1>1. IsWellFoundedOn(R, Nat)
  BY NatLessThanWellFounded
<1>2. \A x, y \in Nat : x < y => <<x, y>> \in R
  BY DEF OpToRel
<1> HIDE DEF R
<1>3. PICK n \in S : \A m \in S : ~ (<<m, n>> \in R)
  BY <1>1, WFMin
<1>4. \A m \in S : ~ (m < n)
  BY <1>2, <1>3
<1> QED BY <1>4

(* The same as a rule: a set of numbers that has 0, and with each number   *)
(* below N the next one, has all up to N.                                  *)
LEMMA StepByStep ==
  ASSUME NEW N \in Nat, NEW S, 0 \in S, \A n \in 0 .. N - 1 : n \in S => n + 1 \in S
  PROVE  \A n \in 0 .. N : n \in S
<1> DEFINE Missing == {n \in 0 .. N : n \notin S}
<1> SUFFICES ASSUME Missing # {} PROVE FALSE
  OBVIOUS
<1>1. PICK n \in Missing : \A m \in Missing : n <= m
  BY LeastNumber, Missing \subseteq Nat
<1>2. n # 0 /\ n \in 1 .. N
  BY <1>1
<1>3. n - 1 \notin Missing
  BY <1>1, <1>2
<1>4. n - 1 \in S /\ n - 1 \in 0 .. N - 1
  BY <1>2, <1>3
<1>5. n - 1 + 1 \in S
  BY <1>4
<1> QED BY <1>1, <1>2, <1>5

(* Two sequences with the same elements are the same.                      *)
LEMMA Extensional ==
  ASSUME NEW S, NEW s \in Seq(S), NEW t \in Seq(S), Len(s) = Len(t),
         \A i \in 1 .. Len(s) : s[i] = t[i]
  PROVE  s = t
BY SeqEqual

LEMMA TupleIsSeq ==
  ASSUME NEW S, NEW n \in Nat, NEW f \in [1 .. n -> S]
  PROVE  f \in Seq(S) /\ Len(f) = n
BY SeqDef

(* Two sequences one behind the other.                                     *)
LEMMA Joining ==
  ASSUME NEW S, NEW s \in Seq(S), NEW t \in Seq(S)
  PROVE  /\ s \o t \in Seq(S) /\ Len(s) \in Nat /\ Len(t) \in Nat
         /\ Len(s \o t) = Len(s) + Len(t)
         /\ \A i \in 1 .. Len(s) : (s \o t)[i] = s[i]
         /\ \A i \in 1 .. Len(t) : (s \o t)[Len(s) + i] = t[i]
BY ConcatProperties

LEMMA Regrouped ==
  ASSUME NEW S, NEW s \in Seq(S), NEW t \in Seq(S), NEW u \in Seq(S)
  PROVE  (s \o t) \o u = s \o (t \o u)
BY ConcatAssociative

LEMMA AppendBehind ==
  ASSUME NEW S, NEW s \in Seq(S), NEW t \in Seq(S), NEW x \in S
  PROVE  Append(s \o t, x) = s \o Append(t, x)
<1>1. <<x>> \in Seq(S) /\ s \o t \in Seq(S)
  OBVIOUS
<1>2. Append(s \o t, x) = (s \o t) \o <<x>> /\ Append(t, x) = t \o <<x>>
  BY <1>1, AppendIsConcat
<1> QED BY <1>1, <1>2, ConcatAssociative

LEMMA Pair ==
  ASSUME NEW S, NEW x \in S, NEW y \in S
  PROVE  <<x>> \in Seq(S) /\ <<y>> \in Seq(S) /\ <<x, y>> \in Seq(S) /\ <<x>> \o <<y>> = <<x, y>>
<1> DEFINE a == <<x>>
           b == <<y>>
           c == <<x, y>>
           d == a \o b
<1>1. a \in Seq(S) /\ b \in Seq(S) /\ c \in Seq(S)
  OBVIOUS
<1>2. Len(a) = 1 /\ Len(b) = 1 /\ Len(c) = 2 /\ a[1] = x /\ b[1] = y /\ c[1] = x /\ c[2] = y
  OBVIOUS
<1> HIDE DEF a, b, c
<1>3. /\ d \in Seq(S) /\ Len(d) = Len(a) + Len(b)
      /\ \A i \in 1 .. Len(a) : d[i] = a[i]
      /\ \A i \in 1 .. Len(b) : d[Len(a) + i] = b[i]
  BY ONLY <1>1, Joining
<1> HIDE DEF d
<1>4. d[1] = x /\ d[1 + 1] = y /\ Len(d) = 2
  BY <1>2, <1>3
<1>5. \A i \in 1 .. 2 : i = 1 \/ i = 2
  OBVIOUS
<1>6. \A i \in 1 .. Len(d) : d[i] = c[i]
  BY <1>2, <1>4, <1>5
<1>7. d = c
  BY <1>1, <1>2, <1>3, <1>4, <1>6, Extensional
<1> QED BY <1>1, <1>7 DEF a, b, c, d

-----------------------------------------------------------------------------
(* What FlattenSeq(seqs) is after the first n sequences, for n up to N.    *)
AreJoins(g, seqs, N) ==
  /\ g = [n \in 0 .. N |-> g[n]]
  /\ g[0] = <<>>
  /\ \A n \in 1 .. N : g[n] = g[n - 1] \o seqs[n]
Joins(seqs) == CHOOSE g : AreJoins(g, seqs, Len(seqs))
Offset(seqs, n) == Len(Joins(seqs)[n])

LEMMA JoinsGrow ==
  ASSUME NEW seqs, NEW n \in Nat, NEW g, AreJoins(g, seqs, n)
  PROVE  \E h : AreJoins(h, seqs, n + 1)
<1> DEFINE h == [m \in 0 .. n + 1 |-> IF m = n + 1 THEN g[n] \o seqs[n + 1] ELSE g[m]]
<1>1. h = [m \in 0 .. n + 1 |-> h[m]]
  OBVIOUS
<1>2. h[0] = <<>>
  BY DEF AreJoins
<1>3. h[n + 1] = g[n] \o seqs[n + 1] /\ \A m \in 0 .. n : h[m] = g[m]
  OBVIOUS
<1> HIDE DEF h
<1>4. ASSUME NEW m \in 1 .. n + 1 PROVE h[m] = h[m - 1] \o seqs[m]
  <2>1. CASE m = n + 1
    <3>1. m - 1 = n /\ h[n] = g[n]
      BY <2>1, <1>3
    <3> QED BY <2>1, <3>1, <1>3, Zenon
  <2>2. CASE m # n + 1
    <3> m \in 1 .. n
      BY <2>2
    <3>1. h[m] = g[m] /\ h[m - 1] = g[m - 1]
      BY <1>3, <2>2
    <3>2. g[m] = g[m - 1] \o seqs[m]
      BY <2>2 DEF AreJoins
    <3> QED BY <3>1, <3>2
  <2> QED BY <2>1, <2>2
<1>5. AreJoins(h, seqs, n + 1)
  BY <1>1, <1>2, <1>4 DEF AreJoins
<1> QED BY <1>5

LEMMA JoinsExist ==
  ASSUME NEW seqs, Len(seqs) \in Nat
  PROVE  AreJoins(Joins(seqs), seqs, Len(seqs))
<1> DEFINE Some == {n \in Nat : \E g : AreJoins(g, seqs, n)}
<1>1. 0 \in Some
  <2>1. AreJoins([m \in 0 .. 0 |-> <<>>], seqs, 0)
    BY DEF AreJoins
  <2> QED BY <2>1
<1>2. ASSUME NEW n \in 0 .. Len(seqs) - 1, n \in Some PROVE n + 1 \in Some
  BY <1>2, JoinsGrow
<1>3. \A n \in 0 .. Len(seqs) : n \in Some
  <2> HIDE DEF Some
  <2> QED BY <1>1, <1>2, StepByStep
<1>4. \E g : AreJoins(g, seqs, Len(seqs))
  BY <1>3
<1> QED BY <1>4 DEF Joins

LEMMA JoinsAreSeqs ==
  ASSUME NEW S, NEW seqs \in Seq(Seq(S))
  PROVE  \A n \in 0 .. Len(seqs) : Joins(seqs)[n] \in Seq(S)
<1> DEFINE Good == {n \in 0 .. Len(seqs) : Joins(seqs)[n] \in Seq(S)}
<1>1. Len(seqs) \in Nat
  OBVIOUS
<1>2. AreJoins(Joins(seqs), seqs, Len(seqs))
  BY <1>1, JoinsExist
<1>3. 0 \in Good
  <2>1. Joins(seqs)[0] = <<>>
    BY <1>2 DEF AreJoins
  <2>2. Joins(seqs)[0] \in Seq(S)
    BY <2>1, EmptySeq, Zenon
  <2> QED BY <1>1, <2>2
<1>4. ASSUME NEW n \in 0 .. Len(seqs) - 1, n \in Good PROVE n + 1 \in Good
  <2>1. n + 1 \in 1 .. Len(seqs) /\ n + 1 - 1 = n
    BY <1>1
  <2>2. Joins(seqs)[n + 1] = Joins(seqs)[n] \o seqs[n + 1]
    BY <1>2, <2>1, SMTT(60) DEF AreJoins
  <2>3. seqs[n + 1] \in Seq(S)
    BY <2>1
  <2>4. Joins(seqs)[n] \in Seq(S)
    BY <1>4
  <2>5. Joins(seqs)[n] \o seqs[n + 1] \in Seq(S)
    BY <2>3, <2>4, ConcatProperties
  <2>6. Joins(seqs)[n + 1] \in Seq(S)
    BY <2>2, <2>5, Zenon
  <2> QED BY <1>1, <2>1, <2>6
<1>5. \A n \in 0 .. Len(seqs) : n \in Good
  <2> HIDE DEF Good
  <2> QED BY <1>1, <1>3, <1>4, StepByStep
<1> QED BY <1>5
LEMMA FlattenIsJoins ==
  ASSUME NEW S, NEW seqs \in Seq(Seq(S))
  PROVE  FlattenSeq(seqs) = Joins(seqs)[Len(seqs)]
<1>1. Len(seqs) \in Nat
  OBVIOUS
<1>2. AreJoins(Joins(seqs), seqs, Len(seqs))
  BY <1>1, JoinsExist
<1>3. CASE Len(seqs) = 0
  <2>1. seqs = <<>>
    BY <1>3, EmptySeq
  <2>2. FlattenSeq(seqs) = seqs
    BY <1>3 DEF FlattenSeq
  <2>3. Joins(seqs)[Len(seqs)] = <<>>
    BY <1>2, <1>3 DEF AreJoins
  <2> QED BY <2>1, <2>2, <2>3
<1>4. CASE Len(seqs) # 0
  <2> DEFINE N == Len(seqs)
             IsFlat(g) == g = [i \in 1 .. N |-> IF i = 1 THEN seqs[i] ELSE g[i - 1] \o seqs[i]]
             flat == CHOOSE g : IsFlat(g)
             h == [i \in 1 .. N |-> Joins(seqs)[i]]
             Same == {n \in 0 .. N : n = 0 \/ flat[n] = Joins(seqs)[n]}
  <2>1. FlattenSeq(seqs) = flat[N]
    BY <1>4 DEF FlattenSeq
  <2>2. ASSUME NEW i \in 1 .. N
        PROVE  Joins(seqs)[i] = IF i = 1 THEN seqs[i] ELSE h[i - 1] \o seqs[i]
    <3>1. Joins(seqs)[i] = Joins(seqs)[i - 1] \o seqs[i]
      BY <1>2 DEF AreJoins
    <3>2. CASE i = 1
      <4>1. Joins(seqs)[i - 1] = <<>>
        BY <1>2, <3>2 DEF AreJoins
      <4>2. seqs[i] \in Seq(S)
        OBVIOUS
      <4>3. <<>> \o seqs[i] = seqs[i]
        BY <4>2, ConcatEmptySeq
      <4> QED BY <3>1, <3>2, <4>1, <4>3
    <3>3. CASE i # 1
      <4>1. h[i - 1] = Joins(seqs)[i - 1]
        BY <3>3
      <4> QED BY <3>1, <3>3, <4>1
    <3> QED BY <3>2, <3>3
  <2>3. IsFlat(h)
    BY <2>2
  <2>4. IsFlat(flat)
    BY <2>3
  <2> HIDE DEF flat
  <2>5. N \in Nat /\ 0 \in Same
    BY <1>1
  <2>6. ASSUME NEW n \in 0 .. N - 1, n \in Same PROVE n + 1 \in Same
    <3>1. n + 1 \in 1 .. N /\ n + 1 - 1 = n
      BY <1>1
    <3>2. flat[n + 1] = IF n + 1 = 1 THEN seqs[n + 1] ELSE flat[n] \o seqs[n + 1]
      <4>1. \A i \in 1 .. N : flat[i] = IF i = 1 THEN seqs[i] ELSE flat[i - 1] \o seqs[i]
        BY <2>4
      <4>2. flat[n + 1] = IF n + 1 = 1 THEN seqs[n + 1] ELSE flat[n + 1 - 1] \o seqs[n + 1]
        BY ONLY <3>1, <4>1
      <4> QED BY ONLY <3>1, <4>2
    <3>3. Joins(seqs)[n + 1] = IF n + 1 = 1 THEN seqs[n + 1] ELSE Joins(seqs)[n] \o seqs[n + 1]
      <4>1. n + 1 # 1 => h[n] = Joins(seqs)[n]
        BY <3>1
      <4> HIDE DEF h
      <4> QED BY <2>2, <3>1, <4>1
    <3>4. CASE n = 0
      BY <3>1, <3>2, <3>3, <3>4
    <3>5. CASE n # 0
      <4>1. flat[n] = Joins(seqs)[n]
        BY <2>6, <3>5
      <4>2. n + 1 # 1
        BY <3>5
      <4>3. flat[n + 1] = flat[n] \o seqs[n + 1]
        BY <3>2, <4>2, Zenon
      <4>4. flat[n + 1] = Joins(seqs)[n + 1]
        BY <3>3, <4>1, <4>2, <4>3, Zenon
      <4> QED BY <1>1, <3>1, <4>4
    <3> QED BY <3>4, <3>5
  <2>7. \A n \in 0 .. N : n \in Same
    <3> HIDE DEF Same
    <3> QED BY <2>5, <2>6, StepByStep
  <2> QED BY <1>1, <1>4, <2>1, <2>7
<1> QED BY <1>3, <1>4

(* The bytes of s stand in f from position p on, as far as f goes.         *)
PartOf(f, p, s) == \A j \in 1 .. Len(s) : p + j - 1 <= Len(f) => f[p + j - 1] = s[j]

(* One more sequence joined to the others: those stand where they stood,   *)
(* and it stands behind them.                                              *)
LEMMA OneMore ==
  ASSUME NEW S, NEW seqs \in Seq(Seq(S)), NEW n \in 0 .. Len(seqs) - 1
  PROVE  /\ Offset(seqs, n) \in Nat
         /\ Len(seqs[n + 1]) \in Nat
         /\ Offset(seqs, n + 1) = Offset(seqs, n) + Len(seqs[n + 1])
         /\ \A i \in 1 .. Offset(seqs, n) : Joins(seqs)[n + 1][i] = Joins(seqs)[n][i]
         /\ \A i \in 1 .. Len(seqs[n + 1]) :
              Joins(seqs)[n + 1][Offset(seqs, n) + i] = seqs[n + 1][i]
<1>1. Len(seqs) \in Nat
  OBVIOUS
<1>2. n + 1 \in 1 .. Len(seqs) /\ n \in 0 .. Len(seqs) /\ n + 1 - 1 = n
  BY <1>1
<1>3. Joins(seqs)[n + 1] = Joins(seqs)[n] \o seqs[n + 1]
  <2>1. AreJoins(Joins(seqs), seqs, Len(seqs))
    BY <1>1, JoinsExist
  <2>2. \A m \in 1 .. Len(seqs) : Joins(seqs)[m] = Joins(seqs)[m - 1] \o seqs[m]
    BY ONLY <2>1 DEF AreJoins
  <2>3. PICK m \in 1 .. Len(seqs) : m = n + 1 /\ m - 1 = n
    BY <1>2
  <2>4. Joins(seqs)[m] = Joins(seqs)[m - 1] \o seqs[m]
    BY <2>2, Zenon
  <2> QED BY <2>3, <2>4, Zenon
<1>4. Joins(seqs)[n] \in Seq(S)
  BY <1>2, JoinsAreSeqs
<1>5. seqs[n + 1] \in Seq(S)
  BY <1>2, ElementOfSeq
<1> DEFINE a == Joins(seqs)[n]
           b == seqs[n + 1]
           c == Joins(seqs)[n + 1]
<1>6. a \in Seq(S) /\ b \in Seq(S) /\ c = a \o b
  BY <1>3, <1>4, <1>5
<1> HIDE DEF a, b, c
<1>7. /\ Len(a) \in Nat /\ Len(b) \in Nat
      /\ Len(c) = Len(a) + Len(b)
      /\ \A i \in 1 .. Len(a) : c[i] = a[i]
      /\ \A i \in 1 .. Len(b) : c[Len(a) + i] = b[i]
  BY <1>6, ConcatProperties
<1> QED BY ONLY <1>7 DEF a, b, c, Offset

(* Parts that are put one behind the other: n of them have the length      *)
(* at[n] and, joined, are g[n].                                            *)
Stack(N, at, size, g, parts) ==
  /\ N \in Nat /\ at \in [0 .. N -> Nat] /\ size \in [1 .. N -> Nat]
  /\ \A n \in 0 .. N - 1 :
       /\ at[n + 1] = at[n] + size[n + 1]
       /\ \A i \in 1 .. at[n] : g[n + 1][i] = g[n][i]
       /\ \A i \in 1 .. size[n + 1] : g[n + 1][at[n] + i] = parts[n + 1][i]
Stands(N, at, size, g, parts) ==
  /\ \A m \in 0 .. N : at[m] <= at[N]
  /\ \A m \in 1 .. N : \A i \in 1 .. size[m] : g[N][at[m - 1] + i] = parts[m][i]

LEMMA Stacked ==
  ASSUME NEW N, NEW at, NEW size, NEW g, NEW parts, Stack(N, at, size, g, parts)
  PROVE  Stands(N, at, size, g, parts)
<1> USE DEF Stack
<1> DEFINE Upto(n) == /\ \A m \in 0 .. n : at[m] <= at[n]
                      /\ \A m \in 1 .. n : \A i \in 1 .. size[m] :
                           g[n][at[m - 1] + i] = parts[m][i]
           Good == {n \in 0 .. N : Upto(n)}
<1>1. Upto(0)
  OBVIOUS
<1>2. ASSUME NEW n \in 0 .. N - 1, Upto(n) PROVE Upto(n + 1)
  <2>1. /\ at[n] \in Nat /\ size[n + 1] \in Nat
        /\ at[n + 1] = at[n] + size[n + 1]
    OBVIOUS
  <2>2. ASSUME NEW m \in 0 .. n + 1 PROVE at[m] <= at[n + 1]
    <3>1. CASE m = n + 1
      BY <2>1, <3>1
    <3>2. CASE m \in 0 .. n
      <4>1. at[m] <= at[n] /\ at[m] \in Nat
        BY <1>2, <3>2
      <4> QED BY <2>1, <4>1
    <3> QED BY <3>1, <3>2
  <2>3. ASSUME NEW m \in 1 .. n + 1, NEW i \in 1 .. size[m]
        PROVE  g[n + 1][at[m - 1] + i] = parts[m][i]
    <3>1. CASE m = n + 1
      <4>1. m - 1 = n
        BY <3>1
      <4> QED BY <3>1, <4>1
    <3>2. CASE m \in 1 .. n
      <4>1. m - 1 \in 0 .. N - 1 /\ m - 1 + 1 = m /\ m \in 1 .. N /\ m \in 0 .. N
        BY <3>2
      <4>2. at[m] = at[m - 1] + size[m]
        BY <4>1
      <4>3. at[m] <= at[n]
        BY <1>2, <3>2
      <4>4. at[m - 1] \in Nat /\ size[m] \in Nat
        BY <4>1
      <4>5. at[m - 1] + i \in 1 .. at[n]
        BY <2>1, <4>2, <4>3, <4>4, SMTT(60)
      <4>6. g[n + 1][at[m - 1] + i] = g[n][at[m - 1] + i]
        BY <4>5
      <4> QED BY <1>2, <3>2, <4>6
    <3> QED BY <3>1, <3>2
  <2> QED BY <2>2, <2>3
<1>3. \A n \in 0 .. N : n \in Good
  <2>1. 0 \in Good
    BY <1>1
  <2>2. ASSUME NEW n \in 0 .. N - 1, n \in Good PROVE n + 1 \in Good
    <3>1. Upto(n)
      BY <2>2
    <3>2. Upto(n + 1)
      BY <1>2, <3>1
    <3> HIDE DEF Upto
    <3> QED BY <3>2
  <2> HIDE DEF Good
  <2> QED BY <2>1, <2>2, StepByStep
<1>4. N \in Good
  BY <1>3, SMTT(60)
<1> QED BY <1>4 DEF Stands

(* The parts of a file stand where the offsets say.                        *)
LEMMA Flattened ==
  ASSUME NEW S, NEW seqs \in Seq(Seq(S))
  PROVE  /\ FlattenSeq(seqs) \in Seq(S)
         /\ Offset(seqs, 0) = 0
         /\ Offset(seqs, Len(seqs)) = Len(FlattenSeq(seqs))
         /\ \A n \in 0 .. Len(seqs) :
              Offset(seqs, n) \in Nat /\ Offset(seqs, n) <= Len(FlattenSeq(seqs))
         /\ \A n \in 1 .. Len(seqs) :
              /\ Offset(seqs, n) = Offset(seqs, n - 1) + Len(seqs[n])
              /\ PartOf(FlattenSeq(seqs), Offset(seqs, n - 1) + 1, seqs[n])
<1> DEFINE N == Len(seqs)
           at == [n \in 0 .. N |-> Offset(seqs, n)]
           size == [n \in 1 .. N |-> Len(seqs[n])]
           g == Joins(seqs)
           flat == FlattenSeq(seqs)
<1>1. N \in Nat
  OBVIOUS
<1>2. flat = g[N]
  BY FlattenIsJoins
<1>3. flat \in Seq(S) /\ Offset(seqs, N) = Len(flat)
  BY <1>1, <1>2, JoinsAreSeqs DEF Offset
<1>4. Offset(seqs, 0) = 0
  <2>1. g[0] = <<>>
    BY <1>1, JoinsExist DEF AreJoins
  <2> QED BY <2>1, EmptySeq DEF Offset
<1>5. \A n \in 0 .. N : Offset(seqs, n) \in Nat
  BY JoinsAreSeqs, LenProperties DEF Offset
<1>6. \A n \in 1 .. N : Len(seqs[n]) \in Nat
  BY ElementOfSeq, LenProperties
<1>7. at \in [0 .. N -> Nat] /\ size \in [1 .. N -> Nat]
  BY <1>5, <1>6
<1>8. \A n \in 0 .. N - 1 :
        /\ Offset(seqs, n + 1) = Offset(seqs, n) + Len(seqs[n + 1])
        /\ \A i \in 1 .. Offset(seqs, n) : g[n + 1][i] = g[n][i]
        /\ \A i \in 1 .. Len(seqs[n + 1]) : g[n + 1][Offset(seqs, n) + i] = seqs[n + 1][i]
  BY OneMore
<1> HIDE DEF N, g, flat
<1>9. \A n \in 0 .. N - 1 :
        /\ at[n + 1] = at[n] + size[n + 1]
        /\ \A i \in 1 .. at[n] : g[n + 1][i] = g[n][i]
        /\ \A i \in 1 .. size[n + 1] : g[n + 1][at[n] + i] = seqs[n + 1][i]
  BY ONLY <1>1, <1>8
<1> HIDE DEF at, size
<1>10. /\ \A m \in 0 .. N : at[m] <= at[N]
       /\ \A m \in 1 .. N : \A i \in 1 .. size[m] : g[N][at[m - 1] + i] = seqs[m][i]
  <2>1. Stack(N, at, size, g, seqs)
    BY ONLY <1>1, <1>7, <1>9 DEF Stack
  <2>2. Stands(N, at, size, g, seqs)
    BY ONLY <2>1, Stacked
  <2> QED BY ONLY <2>2 DEF Stands
<1>11. \A n \in 0 .. N : at[n] = Offset(seqs, n)
  BY ONLY <1>1 DEF at
<1>12. \A n \in 1 .. N : size[n] = Len(seqs[n])
  BY ONLY <1>1 DEF size
<1>13. \A n \in 0 .. N : Offset(seqs, n) \in Nat /\ Offset(seqs, n) <= Len(flat)
  BY ONLY <1>1, <1>3, <1>5, <1>10, <1>11
<1>14. ASSUME NEW n \in 1 .. N
       PROVE  /\ Offset(seqs, n) = Offset(seqs, n - 1) + Len(seqs[n])
              /\ PartOf(flat, Offset(seqs, n - 1) + 1, seqs[n])
  <2>1. n - 1 \in 0 .. N - 1 /\ n - 1 + 1 = n /\ n - 1 \in 0 .. N
    BY ONLY <1>1, n \in 1 .. N
  <2>2. Offset(seqs, n) = Offset(seqs, n - 1) + Len(seqs[n])
    BY ONLY <1>8, <2>1
  <2>3. Offset(seqs, n - 1) \in Nat
    BY ONLY <1>5, <2>1
  <2>4. ASSUME NEW j \in 1 .. Len(seqs[n])
        PROVE  flat[Offset(seqs, n - 1) + 1 + j - 1] = seqs[n][j]
    <3>1. g[N][at[n - 1] + j] = seqs[n][j]
      BY ONLY <1>10, <1>12, <2>4, n \in 1 .. N
    <3>2. at[n - 1] = Offset(seqs, n - 1)
      BY ONLY <1>11, <2>1
    <3>3. Offset(seqs, n - 1) + 1 + j - 1 = Offset(seqs, n - 1) + j
      BY ONLY <2>3, j \in Int
    <3> QED BY ONLY <1>2, <3>1, <3>2, <3>3
  <2> QED BY ONLY <2>2, <2>4 DEF PartOf
<1> QED BY ONLY <1>3, <1>4, <1>13, <1>14 DEF flat, N

(* The first sequences, joined, are the beginning of all of them, joined.  *)
LEMMA FlattenPrefix ==
  ASSUME NEW S, NEW seqs \in Seq(Seq(S)), NEW n \in 0 .. Len(seqs)
  PROVE  FlattenSeq([j \in 1 .. n |-> seqs[j]]) = Joins(seqs)[n]
<1> DEFINE p == [j \in 1 .. n |-> seqs[j]]
           g == Joins(p)
           h == Joins(seqs)
           Good == {m \in 0 .. n : g[m] = h[m]}
<1>1. Len(seqs) \in Nat /\ n \in Nat /\ \A j \in 1 .. Len(seqs) : seqs[j] \in Seq(S)
  BY ElementOfSeq
<1>2. p \in Seq(Seq(S)) /\ Len(p) = n /\ \A j \in 1 .. n : p[j] = seqs[j]
  <2>1. \A j \in 1 .. n : seqs[j] \in Seq(S)
    BY <1>1
  <2>2. p \in [1 .. n -> Seq(S)]
    BY <2>1
  <2>3. p \in Seq(Seq(S))
    BY <1>1, <2>2, TupleIsSeq
  <2> QED BY <1>1, <2>2, <2>3
<1> HIDE DEF p
<1>3. AreJoins(g, p, n) /\ AreJoins(h, seqs, Len(seqs))
  BY <1>1, <1>2, JoinsExist
<1> HIDE DEF g, h
<1>4. 0 \in Good
  BY <1>1, <1>3 DEF AreJoins
<1>5. ASSUME NEW m \in 0 .. n - 1, m \in Good PROVE m + 1 \in Good
  <2> DEFINE i == m + 1
  <2>1. i \in 1 .. n /\ i \in 1 .. Len(seqs) /\ i - 1 = m /\ i \in 0 .. n
    BY <1>1
  <2> HIDE DEF i
  <2>2. g[i] = g[i - 1] \o p[i]
    BY <1>3, <2>1, Zenon DEF AreJoins
  <2>3. h[i] = h[i - 1] \o seqs[i]
    BY <1>3, <2>1, Zenon DEF AreJoins
  <2>4. g[m] = h[m]
    BY <1>5
  <2>5. g[i] = h[i]
    BY <1>2, <2>1, <2>2, <2>3, <2>4
  <2> QED BY <2>1, <2>5 DEF i
<1>6. \A m \in 0 .. n : m \in Good
  <2> HIDE DEF Good
  <2> QED BY <1>1, <1>4, <1>5, StepByStep
<1>7. g[n] = h[n]
  <2>1. n \in 0 .. n
    BY <1>1
  <2> QED BY <1>6, <2>1
<1>8. FlattenSeq(p) = g[n]
  BY <1>2, FlattenIsJoins DEF g
<1> QED BY <1>7, <1>8 DEF h, p

(* A part of what stands in a file stands in it, too.                      *)
LEMMA PartOfConcat ==
  ASSUME NEW S, NEW f \in Seq(S), NEW p \in Nat \ {0}, NEW s \in Seq(S), NEW t \in Seq(S)
  PROVE  PartOf(f, p, s \o t) <=> PartOf(f, p, s) /\ PartOf(f, p + Len(s), t)
<1> DEFINE c == s \o t
<1>1. /\ Len(f) \in Nat /\ Len(s) \in Nat /\ Len(t) \in Nat
      /\ Len(c) = Len(s) + Len(t)
      /\ \A i \in 1 .. Len(s) : c[i] = s[i]
      /\ \A i \in 1 .. Len(t) : c[Len(s) + i] = t[i]
  BY ConcatProperties
<1> HIDE DEF c
<1>2. ASSUME PartOf(f, p, c)
      PROVE  PartOf(f, p, s) /\ PartOf(f, p + Len(s), t)
  <2>1. PartOf(f, p, s)
    BY <1>1, <1>2 DEF PartOf
  <2>2. ASSUME NEW j \in 1 .. Len(t), p + Len(s) + j - 1 <= Len(f)
        PROVE  f[p + Len(s) + j - 1] = t[j]
    <3>1. Len(s) + j \in 1 .. Len(c) /\ p + (Len(s) + j) - 1 = p + Len(s) + j - 1
      BY <1>1
    <3>2. p + (Len(s) + j) - 1 <= Len(f) => f[p + (Len(s) + j) - 1] = c[Len(s) + j]
      BY ONLY <1>2, <3>1 DEF PartOf
    <3> QED BY ONLY <1>1, <2>2, <3>1, <3>2
  <2> QED BY <2>1, <2>2 DEF PartOf
<1>3. ASSUME PartOf(f, p, s), PartOf(f, p + Len(s), t)
      PROVE  PartOf(f, p, c)
  <2> SUFFICES ASSUME NEW i \in 1 .. Len(c), p + i - 1 <= Len(f)
               PROVE  f[p + i - 1] = c[i]
    BY DEF PartOf
  <2>1. CASE i <= Len(s)
    BY <1>1, <1>3, <2>1 DEF PartOf
  <2>2. CASE i > Len(s)
    <3>1. PICK j \in 1 .. Len(t) : i = Len(s) + j
      <4>1. i - Len(s) \in 1 .. Len(t) /\ i = Len(s) + (i - Len(s))
        BY <1>1, <2>2
      <4> QED BY <4>1
    <3>2. p + Len(s) + j - 1 = p + i - 1
      BY <1>1, <3>1
    <3>3. f[p + Len(s) + j - 1] = t[j]
      BY <1>3, <3>2 DEF PartOf
    <3> QED BY <1>1, <3>1, <3>2, <3>3
  <2> QED BY <1>1, <2>1, <2>2
<1> QED BY <1>2, <1>3 DEF c

LEMMA PartOfPart ==
  ASSUME NEW S, NEW f \in Seq(S), NEW p \in Nat \ {0}, NEW s \in Seq(S),
         NEW q \in Nat \ {0}, NEW t \in Seq(S),
         PartOf(f, p, s), PartOf(s, q, t), q + Len(t) - 1 <= Len(s)
  PROVE  PartOf(f, p + q - 1, t)
<1>1. Len(f) \in Nat /\ Len(s) \in Nat /\ Len(t) \in Nat
  BY LenProperties
<1> SUFFICES ASSUME NEW j \in 1 .. Len(t), p + q - 1 + j - 1 <= Len(f)
             PROVE  f[p + q - 1 + j - 1] = t[j]
  BY DEF PartOf
<1>2. PICK i \in 1 .. Len(s) : i = q + j - 1
  BY <1>1
<1>3. s[i] = t[j]
  BY <1>1, <1>2 DEF PartOf
<1>4. p + i - 1 = p + q - 1 + j - 1
  BY <1>2
<1>5. f[p + i - 1] = s[i]
  BY <1>1, <1>4 DEF PartOf
<1> QED BY <1>3, <1>4, <1>5

LEMMA PartOfPrefix ==
  ASSUME NEW S, NEW f \in Seq(S), NEW n \in 0 .. Len(f),
         NEW p \in Nat \ {0}, NEW s \in Seq(S), PartOf(f, p, s)
  PROVE  PartOf(SubSeq(f, 1, n), p, s)
<1>1. Len(f) \in Nat /\ Len(s) \in Nat /\ n \in Nat
  BY LenProperties
<1>2. \A i \in 1 .. n : f[i] \in S
  BY <1>1, ElementOfSeq
<1> DEFINE g == SubSeq(f, 1, n)
<1>3. Len(g) = n /\ \A i \in 1 .. n : g[i] = f[i]
  BY <1>1, <1>2, SubSeqProperties
<1> HIDE DEF g
<1> SUFFICES ASSUME NEW j \in 1 .. Len(s), p + j - 1 <= Len(g)
             PROVE  g[p + j - 1] = s[j]
  BY DEF PartOf, g
<1>4. p + j - 1 \in 1 .. n /\ p + j - 1 <= Len(f)
  BY <1>1, <1>3
<1> QED BY <1>3, <1>4 DEF PartOf

(* What is cut out of a file from where a part stands, to its end at       *)
(* least, is that part and more.                                           *)
LEMMA CutBehind ==
  ASSUME NEW S, NEW f \in Seq(S), NEW b \in Nat, NEW w \in Seq(S), PartOf(f, b + 1, w),
         NEW e \in Nat, b + Len(w) <= e, e <= Len(f)
  PROVE  /\ SubSeq(f, b + Len(w) + 1, e) \in Seq(S)
         /\ SubSeq(f, b + 1, e) = w \o SubSeq(f, b + Len(w) + 1, e)
<1> DEFINE c == SubSeq(f, b + 1, e)
           r == SubSeq(f, b + Len(w) + 1, e)
<1>1. Len(f) \in Nat /\ Len(w) \in Nat /\ \A i \in 1 .. Len(f) : f[i] \in S
  BY LenProperties, ElementOfSeq
<1>2. c \in Seq(S) /\ Len(c) = e - b /\ \A i \in 1 .. e - b : c[i] = f[b + i]
  <2>1. b + 1 \in Int /\ e \in Int /\ \A i \in b + 1 .. e : f[i] \in S
    BY <1>1
  <2>2. /\ c \in Seq(S) /\ Len(c) = (IF b + 1 <= e THEN e - (b + 1) + 1 ELSE 0)
        /\ \A i \in 1 .. e - (b + 1) + 1 : c[i] = f[b + 1 + i - 1]
    BY <2>1, SubSeqProperties
  <2>3. e - (b + 1) + 1 = e - b /\ (b + 1 <= e \/ e - b = 0)
    BY <1>1
  <2>4. \A i \in 1 .. e - b : b + 1 + i - 1 = b + i
    OBVIOUS
  <2> HIDE DEF c
  <2> QED BY <2>2, <2>3, <2>4
<1>3. r \in Seq(S) /\ Len(r) = e - b - Len(w) /\ \A i \in 1 .. e - b - Len(w) : r[i] = f[b + Len(w) + i]
  <2> DEFINE k == b + Len(w)
  <2>1. k \in Nat /\ k <= e /\ e - k = e - b - Len(w)
    BY <1>1
  <2> HIDE DEF k
  <2>2. k + 1 \in Int /\ e \in Int /\ \A i \in k + 1 .. e : f[i] \in S
    BY <1>1, <2>1
  <2> DEFINE q == SubSeq(f, k + 1, e)
  <2>3. /\ q \in Seq(S) /\ Len(q) = (IF k + 1 <= e THEN e - (k + 1) + 1 ELSE 0)
        /\ \A i \in 1 .. e - (k + 1) + 1 : q[i] = f[k + 1 + i - 1]
    BY <2>2, SubSeqProperties
  <2>4. e - (k + 1) + 1 = e - k /\ (k + 1 <= e \/ e - k = 0)
    BY <2>1
  <2>5. \A i \in 1 .. e - k : k + 1 + i - 1 = k + i
    BY <2>1
  <2> HIDE DEF q
  <2>6. q \in Seq(S) /\ Len(q) = e - k /\ \A i \in 1 .. e - k : q[i] = f[k + i]
    BY <2>3, <2>4, <2>5
  <2> QED BY <2>1, <2>6 DEF k, q
<1> HIDE DEF c, r
<1>4. /\ w \o r \in Seq(S) /\ Len(w \o r) = Len(w) + Len(r)
      /\ \A i \in 1 .. Len(w) : (w \o r)[i] = w[i]
      /\ \A i \in 1 .. Len(r) : (w \o r)[Len(w) + i] = r[i]
  <2>1. w \in Seq(S) /\ r \in Seq(S)
    BY <1>3
  <2> QED BY ONLY <2>1, Joining
<1>5. Len(w \o r) = Len(c)
  BY <1>1, <1>2, <1>3, <1>4
<1>6. ASSUME NEW i \in 1 .. Len(c) PROVE c[i] = (w \o r)[i]
  <2>1. c[i] = f[b + i]
    BY <1>2
  <2>2. CASE i \in 1 .. Len(w)
    <3>1. b + 1 + i - 1 = b + i /\ b + i <= Len(f)
      BY <1>1, <2>2
    <3>2. b + 1 + i - 1 <= Len(f) => f[b + 1 + i - 1] = w[i]
      BY <2>2 DEF PartOf
    <3> QED BY <1>4, <2>1, <2>2, <3>1, <3>2
  <2>3. CASE i \notin 1 .. Len(w)
    <3> DEFINE j == i - Len(w)
    <3>1. j \in 1 .. Len(r) /\ j \in 1 .. e - b - Len(w) /\ Len(w) + j = i /\ b + Len(w) + j = b + i
      BY <1>1, <1>2, <1>3, <2>3
    <3> HIDE DEF j
    <3>2. r[j] = f[b + Len(w) + j]
      BY <1>3, <3>1
    <3>3. (w \o r)[Len(w) + j] = r[j]
      BY <1>4, <3>1
    <3> QED BY <2>1, <3>1, <3>2, <3>3
  <2> QED BY <2>2, <2>3
<1>7. c = w \o r
  BY <1>2, <1>4, <1>5, <1>6, Extensional
<1> QED BY <1>3, <1>7 DEF c, r

(* The beginning of a sequence, and a piece of it.                         *)
LEMMA BeginningOf ==
  ASSUME NEW S, NEW s \in Seq(S), NEW n \in 0 .. Len(s)
  PROVE  /\ SubSeq(s, 1, n) \in Seq(S) /\ Len(SubSeq(s, 1, n)) = n
         /\ \A i \in 1 .. n : SubSeq(s, 1, n)[i] = s[i]
<1>1. n \in Nat /\ n <= Len(s) /\ Len(s) \in Nat /\ \A i \in 1 .. Len(s) : s[i] \in S
  BY LenProperties, ElementOfSeq
<1>2. \A i \in 1 .. n : s[i] \in S
  BY <1>1
<1> QED BY <1>1, <1>2, SubSeqProperties

LEMMA PieceOf ==
  ASSUME NEW S, NEW s \in Seq(S), NEW a \in Nat, NEW b \in Nat, a <= b, b <= Len(s)
  PROVE  /\ SubSeq(s, a + 1, b) \in Seq(S) /\ Len(SubSeq(s, a + 1, b)) = b - a
         /\ \A i \in 1 .. b - a : SubSeq(s, a + 1, b)[i] = s[a + i]
<1> DEFINE p == SubSeq(s, a + 1, b)
<1>1. CASE a = b
  <2>1. p = <<>>
    BY <1>1
  <2> HIDE DEF p
  <2>2. \A i \in 1 .. b - a : FALSE
    BY <1>1
  <2>3. p \in Seq(S) /\ Len(p) = b - a
    BY <1>1, <2>1
  <2>4. \A i \in 1 .. b - a : p[i] = s[a + i]
    BY <2>2
  <2> QED BY <2>3, <2>4 DEF p
<1>2. CASE a < b
  <2>1. a + 1 \in 1 .. Len(s) /\ b \in 1 .. Len(s)
    BY <1>2
  <2>2. p \in Seq(S) /\ Len(p) = b - a
    <3>1. \A i \in a + 1 .. b : s[i] \in S
      BY <2>1, ElementOfSeq
    <3> QED BY <1>2, <2>1, <3>1
  <2>3. ASSUME NEW i \in 1 .. b - a PROVE p[i] = s[a + i]
    BY <1>2, <2>1, (a + 1) + i - 1 = a + i
  <2> QED BY <2>2, <2>3
<1> QED BY <1>1, <1>2

(* The first sequences, joined, stand at the beginning of more of them.    *)
LEMMA JoinsBegin ==
  ASSUME NEW S, NEW seqs \in Seq(Seq(S)), NEW k \in 0 .. Len(seqs)
  PROVE  /\ Offset(seqs, k) \in Nat
         /\ \A n \in k .. Len(seqs) :
              /\ Offset(seqs, n) \in Nat /\ Offset(seqs, k) <= Offset(seqs, n)
              /\ \A i \in 1 .. Offset(seqs, k) : Joins(seqs)[n][i] = Joins(seqs)[k][i]
<1> DEFINE N == Len(seqs)
           o == Offset(seqs, k)
           P(n) == /\ Offset(seqs, n) \in Nat /\ o <= Offset(seqs, n)
                   /\ \A i \in 1 .. o : Joins(seqs)[n][i] = Joins(seqs)[k][i]
           Good == {d \in 0 .. N - k : P(k + d)}
<1>1. N \in Nat /\ k \in Nat /\ N - k \in Nat /\ k \in 0 .. N
  OBVIOUS
<1>2. o \in Nat
  BY Flattened
<1>3. 0 \in Good
  <2>1. k + 0 = k /\ 0 \in 0 .. N - k
    BY <1>1
  <2>2. P(k)
    BY <1>2
  <2> HIDE DEF P
  <2> QED BY <2>1, <2>2
<1>4. ASSUME NEW d \in 0 .. N - k - 1, d \in Good PROVE d + 1 \in Good
  <2> DEFINE n == k + d
  <2>1. n \in 0 .. Len(seqs) - 1 /\ k + (d + 1) = n + 1 /\ d + 1 \in 0 .. N - k
    BY <1>1
  <2>2. P(n)
    BY <1>4
  <2> HIDE DEF n, o
  <2>3. /\ Offset(seqs, n) \in Nat
        /\ Len(seqs[n + 1]) \in Nat
        /\ Offset(seqs, n + 1) = Offset(seqs, n) + Len(seqs[n + 1])
        /\ \A i \in 1 .. Offset(seqs, n) : Joins(seqs)[n + 1][i] = Joins(seqs)[n][i]
    BY <2>1, OneMore
  <2>4. Offset(seqs, n + 1) \in Nat /\ o <= Offset(seqs, n + 1)
    BY ONLY <1>2, <2>2, <2>3
  <2>5. ASSUME NEW i \in 1 .. o PROVE Joins(seqs)[n + 1][i] = Joins(seqs)[k][i]
    <3>1. i \in 1 .. Offset(seqs, n)
      BY ONLY <1>2, <2>2, <2>3, i \in 1 .. o
    <3>2. Joins(seqs)[n + 1][i] = Joins(seqs)[n][i]
      BY ONLY <2>3, <3>1
    <3>3. Joins(seqs)[n][i] = Joins(seqs)[k][i]
      BY ONLY <2>2, i \in 1 .. o
    <3> QED BY ONLY <3>2, <3>3
  <2>6. P(n + 1)
    BY ONLY <2>4, <2>5
  <2> HIDE DEF P
  <2> QED BY <2>1, <2>6
<1>5. \A d \in 0 .. N - k : d \in Good
  <2> HIDE DEF Good
  <2> QED BY <1>1, <1>3, <1>4, StepByStep
<1>6. ASSUME NEW n \in k .. N PROVE P(n)
  <2>1. n - k \in 0 .. N - k /\ k + (n - k) = n
    BY <1>1
  <2>2. n - k \in Good
    BY <1>5, <2>1
  <2>3. P(k + (n - k))
    BY <2>2
  <2> HIDE DEF P
  <2> QED BY <2>1, <2>3
<1> QED BY <1>2, <1>6

(* A beginning of sequences that are joined: some whole ones, and a proper *)
(* beginning of the next.                                                  *)
LEMMA CutInside ==
  ASSUME NEW S, NEW seqs \in Seq(Seq(S)), NEW n \in 0 .. Len(FlattenSeq(seqs)) - 1
  PROVE  \E k \in 0 .. Len(seqs) - 1 :
           /\ Offset(seqs, k) \in Nat /\ Offset(seqs, k) <= n /\ n < Offset(seqs, k + 1)
           /\ n - Offset(seqs, k) < Len(seqs[k + 1])
           /\ SubSeq(FlattenSeq(seqs), 1, n)
                = FlattenSeq([j \in 1 .. k |-> seqs[j]]) \o SubSeq(seqs[k + 1], 1, n - Offset(seqs, k))
<1> DEFINE f == FlattenSeq(seqs)
           N == Len(seqs)
           Beyond == {k \in 0 .. N : n < Offset(seqs, k)}
<1>1. /\ f \in Seq(S) /\ Offset(seqs, 0) = 0 /\ Offset(seqs, N) = Len(f)
      /\ \A k \in 0 .. N : Offset(seqs, k) \in Nat /\ Offset(seqs, k) <= Len(f)
      /\ \A k \in 1 .. N : /\ Offset(seqs, k) = Offset(seqs, k - 1) + Len(seqs[k])
                           /\ PartOf(f, Offset(seqs, k - 1) + 1, seqs[k])
  BY Flattened
<1>2. f = Joins(seqs)[N]
  BY FlattenIsJoins
<1>3. N \in Nat /\ Len(f) \in Nat /\ n \in Nat /\ n < Len(f)
  BY <1>1
<1> HIDE DEF f
<1>4. N \in Beyond
  BY <1>1, <1>3
<1>5. PICK k0 \in Beyond : \A m \in Beyond : k0 <= m
  BY <1>4, LeastNumber, Beyond \subseteq Nat
<1>6. k0 \in 1 .. N /\ n < Offset(seqs, k0)
  BY <1>1, <1>3, <1>5
<1> DEFINE k == k0 - 1
<1>7. k \in 0 .. N - 1 /\ k \in 0 .. N /\ k + 1 = k0 /\ k \notin Beyond /\ N \in k .. N /\ k \in Nat
  BY <1>3, <1>5, <1>6
<1>8. Offset(seqs, k) <= n
  <2>1. Offset(seqs, k) \in Nat /\ ~ (n < Offset(seqs, k))
    BY <1>1, <1>7
  <2> QED BY <1>3, <2>1
<1> HIDE DEF k
<1> DEFINE o == Offset(seqs, k)
           b == seqs[k + 1]
           a == FlattenSeq([j \in 1 .. k |-> seqs[j]])
           r == SubSeq(b, 1, n - o)
<1>9. o \in Nat /\ o <= n /\ n < Offset(seqs, k + 1) /\ b \in Seq(S) /\ Len(b) \in Nat
      /\ Offset(seqs, k + 1) = o + Len(b) /\ PartOf(f, o + 1, b)
  <2>1. k + 1 \in 1 .. N /\ k + 1 - 1 = k
    BY <1>6, <1>7
  <2>2. b \in Seq(S)
    BY <2>1, ElementOfSeq
  <2>3. /\ Offset(seqs, k + 1) = Offset(seqs, k) + Len(seqs[k + 1])
        /\ PartOf(f, Offset(seqs, k) + 1, seqs[k + 1])
    <3> HIDE DEF N
    <3>1. PICK m \in 1 .. N : m = k + 1 /\ m - 1 = k
      BY <1>7, <2>1
    <3>2. Offset(seqs, m) = Offset(seqs, m - 1) + Len(seqs[m]) /\ PartOf(f, Offset(seqs, m - 1) + 1, seqs[m])
      BY <1>1, Zenon
    <3> QED BY <3>1, <3>2, Zenon
  <2>4. Offset(seqs, k) \in Nat
    BY <1>1, <1>7
  <2> QED BY <1>6, <1>7, <1>8, <2>1, <2>2, <2>3, <2>4
<1>10. a = Joins(seqs)[k]
  BY <1>7, FlattenPrefix
<1>11. a \in Seq(S) /\ Len(a) = o /\ \A i \in 1 .. o : f[i] = a[i]
  <2>1. Joins(seqs)[k] \in Seq(S)
    BY <1>7, JoinsAreSeqs
  <2>2. \A i \in 1 .. Offset(seqs, k) : Joins(seqs)[N][i] = Joins(seqs)[k][i]
    BY <1>7, JoinsBegin
  <2> QED BY <1>2, <1>10, <2>1, <2>2 DEF Offset
<1> HIDE DEF a, b, o, N
<1>12. n - o \in 0 .. Len(b) /\ n - o < Len(b)
  BY <1>3, <1>9
<1>13. r \in Seq(S) /\ Len(r) = n - o /\ \A i \in 1 .. n - o : r[i] = b[i]
  BY <1>9, <1>12, BeginningOf
<1> HIDE DEF r
<1>14. SubSeq(f, 1, n) \in Seq(S) /\ Len(SubSeq(f, 1, n)) = n /\ \A i \in 1 .. n : SubSeq(f, 1, n)[i] = f[i]
  <2>1. f \in Seq(S) /\ n \in 0 .. Len(f)
    BY <1>1, <1>3
  <2> QED BY ONLY <2>1, BeginningOf
<1>15. a \o r \in Seq(S) /\ Len(a \o r) = n
       /\ (\A i \in 1 .. o : (a \o r)[i] = a[i]) /\ \A i \in 1 .. n - o : (a \o r)[o + i] = r[i]
  <2>1. a \in Seq(S) /\ r \in Seq(S)
    BY <1>11, <1>13
  <2>2. /\ a \o r \in Seq(S) /\ Len(a \o r) = Len(a) + Len(r)
        /\ \A i \in 1 .. Len(a) : (a \o r)[i] = a[i]
        /\ \A i \in 1 .. Len(r) : (a \o r)[Len(a) + i] = r[i]
    BY ONLY <2>1, Joining
  <2>3. o + (n - o) = n
    BY <1>3, <1>9
  <2> QED BY <1>11, <1>13, <2>2, <2>3
<1>16. ASSUME NEW i \in 1 .. n PROVE f[i] = (a \o r)[i]
  <2>1. CASE i \in 1 .. o
    BY <1>11, <1>15, <2>1
  <2>2. CASE i \notin 1 .. o
    <3> DEFINE j == i - o
    <3>1. j \in 1 .. n - o /\ o + j = i /\ o + 1 + j - 1 = i /\ i <= Len(f) /\ j \in 1 .. Len(b)
      BY <1>3, <1>9, <1>12, <2>2
    <3> HIDE DEF j
    <3>2. o + 1 + j - 1 <= Len(f) => f[o + 1 + j - 1] = b[j]
      BY <1>9, <3>1 DEF PartOf
    <3>3. f[i] = b[j]
      BY <3>1, <3>2
    <3>4. (a \o r)[o + j] = r[j] /\ r[j] = b[j]
      BY <1>13, <1>15, <3>1
    <3> QED BY <3>1, <3>3, <3>4
  <2> QED BY <2>1, <2>2
<1>17. SubSeq(f, 1, n) = a \o r
  <2> DEFINE x == SubSeq(f, 1, n)
             y == a \o r
  <2>1. x \in Seq(S) /\ y \in Seq(S) /\ Len(x) = Len(y) /\ Len(x) = n
    BY <1>14, <1>15
  <2>2. \A i \in 1 .. n : x[i] = y[i]
    BY <1>14, <1>16
  <2> HIDE DEF x, y
  <2>3. x = y
    BY <2>1, <2>2, Extensional
  <2> QED BY <2>3 DEF x, y
<1> QED BY <1>7, <1>9, <1>12, <1>17 DEF f, o, a, b, r, N

(* What is taken from a piece, and what is left of it, are pieces.         *)
LEMMA PieceTaken ==
  ASSUME NEW S, NEW s \in Seq(S), NEW a \in Nat, NEW b \in Nat, a <= b, b <= Len(s),
         NEW x, x = SubSeq(s, a + 1, b), NEW n \in 1 .. Len(x)
  PROVE  /\ Len(x) = b - a /\ a + n \in Nat /\ a + n <= b
         /\ SubSeq(x, 1, n) = SubSeq(s, a + 1, a + n)
         /\ Len(SubSeq(x, 1, n)) = n
         /\ SubSeq(x, n + 1, Len(x)) = SubSeq(s, a + n + 1, b)
         /\ Len(SubSeq(x, n + 1, Len(x))) = b - (a + n)
<1>1. x \in Seq(S) /\ Len(x) = b - a /\ \A i \in 1 .. b - a : x[i] = s[a + i]
  BY PieceOf
<1> DEFINE c == a + n
<1>2. c \in Nat /\ a <= c /\ c <= b /\ c <= Len(s) /\ n \in Nat /\ n <= Len(x) /\ n \in 0 .. Len(x)
      /\ Len(x) \in Nat
  BY <1>1
<1> DEFINE y == SubSeq(x, 1, n)
           z == SubSeq(s, a + 1, c)
           u == SubSeq(x, n + 1, Len(x))
           w == SubSeq(s, c + 1, b)
<1>3. y \in Seq(S) /\ Len(y) = n /\ \A i \in 1 .. n : y[i] = x[i]
  BY <1>1, <1>2, BeginningOf
<1>4. z \in Seq(S) /\ Len(z) = c - a /\ \A i \in 1 .. c - a : z[i] = s[a + i]
  BY <1>2, PieceOf
<1>5. u \in Seq(S) /\ Len(u) = Len(x) - n /\ \A i \in 1 .. Len(x) - n : u[i] = x[n + i]
  <2> DEFINE m == Len(x)
  <2>1. x \in Seq(S) /\ n \in Nat /\ m \in Nat /\ n <= m /\ m <= Len(x)
    BY <1>1, <1>2
  <2> HIDE DEF m
  <2>2. /\ SubSeq(x, n + 1, m) \in Seq(S) /\ Len(SubSeq(x, n + 1, m)) = m - n
        /\ \A i \in 1 .. m - n : SubSeq(x, n + 1, m)[i] = x[n + i]
    BY ONLY <2>1, PieceOf
  <2> QED BY <2>2 DEF m
<1>6. w \in Seq(S) /\ Len(w) = b - c /\ \A i \in 1 .. b - c : w[i] = s[c + i]
  BY <1>2, PieceOf
<1> HIDE DEF y, z, u, w
<1>7. y = z
  <2>1. Len(y) = Len(z) /\ \A i \in 1 .. Len(y) : i \in 1 .. b - a /\ i \in 1 .. n /\ i \in 1 .. c - a
    BY <1>1, <1>2, <1>3, <1>4
  <2>2. \A i \in 1 .. Len(y) : y[i] = z[i]
    BY <1>1, <1>3, <1>4, <2>1
  <2> QED BY <1>3, <1>4, <2>1, <2>2, Extensional
<1>8. u = w
  <2>1. Len(u) = Len(w) /\ Len(u) = b - c
    BY <1>1, <1>2, <1>5, <1>6
  <2>2. ASSUME NEW i \in 1 .. Len(u) PROVE u[i] = w[i]
    <3>1. i \in 1 .. Len(x) - n /\ i \in 1 .. b - c /\ n + i \in 1 .. b - a /\ a + (n + i) = c + i
      BY <1>1, <1>2, <2>1
    <3>2. u[i] = x[n + i] /\ w[i] = s[c + i] /\ x[n + i] = s[a + (n + i)]
      BY <1>1, <1>5, <1>6, <3>1
    <3> QED BY <3>1, <3>2
  <2> QED BY <1>5, <1>6, <2>1, <2>2, Extensional
<1>9. Len(u) = b - c
  BY <1>1, <1>2, <1>5
<1>10. y = SubSeq(s, a + 1, c) /\ u = SubSeq(s, c + 1, b)
  BY <1>7, <1>8 DEF z, w
<1> QED BY <1>1, <1>2, <1>3, <1>9, <1>10 DEF y, u

(* A piece and what stands behind it are a piece.                          *)
LongerPiece(s, a, b, y) ==
  LET x == SubSeq(s, a + 1, b) IN
  x \o y = SubSeq(s, a + 1, b + Len(y)) /\ Len(x \o y) = b + Len(y) - a /\ Len(x) = b - a

LEMMA PieceLonger ==
  ASSUME NEW S, NEW s \in Seq(S), NEW a \in Nat, NEW b \in Nat, a <= b,
         NEW y \in Seq(S), PartOf(s, b + 1, y), b + Len(y) <= Len(s)
  PROVE  LongerPiece(s, a, b, y)
<1> DEFINE x == SubSeq(s, a + 1, b)
           c == b + Len(y)
           z == SubSeq(s, a + 1, c)
           w == x \o y
<1>1. Len(y) \in Nat /\ b <= Len(s) /\ Len(s) \in Nat
  OBVIOUS
<1>2. x \in Seq(S) /\ Len(x) = b - a /\ \A i \in 1 .. b - a : x[i] = s[a + i]
  BY <1>1, PieceOf
<1>3. c \in Nat /\ a <= c /\ c <= Len(s)
  BY <1>1
<1> HIDE DEF x
<1>4. z \in Seq(S) /\ Len(z) = c - a /\ \A i \in 1 .. c - a : z[i] = s[a + i]
  BY <1>3, PieceOf
<1>5. /\ w \in Seq(S) /\ Len(w) = Len(x) + Len(y)
      /\ \A i \in 1 .. Len(x) : w[i] = x[i]
      /\ \A i \in 1 .. Len(y) : w[Len(x) + i] = y[i]
  <2> HIDE DEF c, z
  <2>1. x \in Seq(S) /\ y \in Seq(S)
    BY <1>2
  <2> QED BY ONLY <2>1, Joining DEF w
<1> HIDE DEF z, w
<1>6. Len(w) = c - a
  BY <1>1, <1>2, <1>5
<1>7. ASSUME NEW i \in 1 .. Len(w) PROVE w[i] = z[i]
  <2>1. CASE i <= Len(x)
    <3>1. i \in 1 .. Len(x) /\ i \in 1 .. b - a /\ i \in 1 .. c - a
      BY <1>1, <1>2, <1>6, <2>1
    <3> QED BY <1>2, <1>4, <1>5, <3>1
  <2>2. CASE i > Len(x)
    <3>1. PICK j \in 1 .. Len(y) : i = Len(x) + j
      <4>1. i - Len(x) \in 1 .. Len(y) /\ i = Len(x) + (i - Len(x))
        BY <1>1, <1>2, <1>5, <2>2
      <4> QED BY <4>1
    <3>2. (b + 1) + j - 1 = a + i /\ (b + 1) + j - 1 <= Len(s) /\ i \in 1 .. c - a
      BY <1>1, <1>2, <1>6, <3>1
    <3>3. s[(b + 1) + j - 1] = y[j]
      BY <3>2 DEF PartOf
    <3> QED BY <1>4, <1>5, <3>1, <3>2, <3>3
  <2> QED BY <1>2, <2>1, <2>2
<1>8. w = z
  BY <1>4, <1>5, <1>6, <1>7, Extensional
<1>9. x \o y = z /\ Len(x \o y) = c - a /\ Len(x) = b - a
  BY <1>2, <1>6, <1>8 DEF w
<1>10. x \o y = SubSeq(s, a + 1, b + Len(y)) /\ Len(x \o y) = b + Len(y) - a /\ Len(x) = b - a
  BY <1>9 DEF c, z
<1> QED BY ONLY <1>10, Zenon DEF LongerPiece, x

LEMMA FlattenOneMore ==
  ASSUME NEW S, NEW seqs \in Seq(Seq(S)), NEW m \in 0 .. Len(seqs) - 1
  PROVE  FlattenSeq([j \in 1 .. m + 1 |-> seqs[j]]) = FlattenSeq([j \in 1 .. m |-> seqs[j]]) \o seqs[m + 1]
<1>1. Len(seqs) \in Nat /\ m \in 0 .. Len(seqs) /\ m + 1 \in 0 .. Len(seqs)
  OBVIOUS
<1>2. FlattenSeq([j \in 1 .. m |-> seqs[j]]) = Joins(seqs)[m]
  BY <1>1, FlattenPrefix
<1> DEFINE k == m + 1
<1>3. k \in 0 .. Len(seqs) /\ k \in 1 .. Len(seqs) /\ k - 1 = m
  BY <1>1
<1> HIDE DEF k
<1>4. FlattenSeq([j \in 1 .. k |-> seqs[j]]) = Joins(seqs)[k]
  BY <1>3, FlattenPrefix
<1>5. Joins(seqs)[k] = Joins(seqs)[k - 1] \o seqs[k]
  <2>1. AreJoins(Joins(seqs), seqs, Len(seqs))
    BY <1>1, JoinsExist
  <2> QED BY <1>3, <2>1 DEF AreJoins
<1> QED BY <1>2, <1>3, <1>4, <1>5 DEF k

(* Offsets grow with the sequences that are joined.                        *)
LEMMA OffsetsGrow ==
  ASSUME NEW S, NEW seqs \in Seq(Seq(S)), \A i \in 1 .. Len(seqs) : Len(seqs[i]) \in Nat \ {0},
         NEW i \in 0 .. Len(seqs), NEW j \in 0 .. Len(seqs)
  PROVE  /\ Offset(seqs, i) \in Nat /\ Offset(seqs, j) \in Nat
         /\ i < j => Offset(seqs, i) < Offset(seqs, j)
         /\ Offset(seqs, i) < Offset(seqs, j) => i < j
<1>1. Len(seqs) \in Nat
  OBVIOUS
<1>2. \A n \in 0 .. Len(seqs) : Offset(seqs, n) \in Nat
  BY Flattened
<1>3. \A n \in 0 .. Len(seqs) : \A m \in n .. Len(seqs) : Offset(seqs, n) <= Offset(seqs, m)
  BY JoinsBegin
<1>4. ASSUME i < j PROVE Offset(seqs, i) < Offset(seqs, j)
  <2>1. PICK k \in 1 .. Len(seqs) : k = i + 1 /\ k - 1 = i /\ j \in k .. Len(seqs) /\ k \in 0 .. Len(seqs)
    BY <1>1, <1>4
  <2>2. Offset(seqs, k) = Offset(seqs, k - 1) + Len(seqs[k])
    BY Flattened
  <2>3. Offset(seqs, k) <= Offset(seqs, j) /\ Offset(seqs, k) \in Nat /\ Offset(seqs, i) \in Nat /\ Offset(seqs, j) \in Nat
    BY <1>2, <1>3, <2>1
  <2>4. Len(seqs[k]) \in Nat \ {0}
    OBVIOUS
  <2> QED BY <2>1, <2>2, <2>3, <2>4
<1>5. ASSUME Offset(seqs, i) < Offset(seqs, j), ~ (i < j) PROVE FALSE
  <2>1. i \in j .. Len(seqs)
    BY <1>1, <1>5
  <2>2. Offset(seqs, j) <= Offset(seqs, i)
    BY <1>3, <2>1
  <2> QED BY <1>2, <1>5, <2>2
<1> QED BY <1>2, <1>4, <1>5

-----------------------------------------------------------------------------
(* Steps that are taken one after the other from a start.                  *)
Iterates(f, A, N, b, step) ==
  /\ f \in [0 .. N -> A]
  /\ f[0] = b
  /\ \A i \in 1 .. N : f[i] = step[i][f[i - 1]]

LEMMA IterationExists ==
  ASSUME NEW A, NEW N \in Nat, NEW b \in A, NEW step \in [1 .. N -> [A -> A]]
  PROVE  \E f : Iterates(f, A, N, b, step)
<1> DEFINE Some == {n \in Nat : \E f : Iterates(f, A, n, b, step)}
<1>1. 0 \in Some
  <2> DEFINE f == [i \in 0 .. 0 |-> b]
  <2>1. f \in [0 .. 0 -> A] /\ f[0] = b
    OBVIOUS
  <2>2. \A i \in 1 .. 0 : f[i] = step[i][f[i - 1]]
    OBVIOUS
  <2> HIDE DEF f
  <2>3. Iterates(f, A, 0, b, step)
    BY <2>1, <2>2 DEF Iterates
  <2> QED BY <2>3
<1>2. ASSUME NEW n \in 0 .. N - 1, n \in Some PROVE n + 1 \in Some
  <2>1. PICK f : Iterates(f, A, n, b, step)
    BY <1>2
  <2> DEFINE g == [i \in 0 .. n + 1 |-> IF i = n + 1 THEN step[n + 1][f[n]] ELSE f[i]]
  <2>2. f \in [0 .. n -> A] /\ f[0] = b /\ \A i \in 1 .. n : f[i] = step[i][f[i - 1]]
    BY <2>1 DEF Iterates
  <2>3. n \in Nat /\ n + 1 \in 1 .. N /\ f[n] \in A
    BY <2>2
  <2>4. step[n + 1] \in [A -> A]
    BY <2>3
  <2>5. step[n + 1][f[n]] \in A
    BY <2>3, <2>4
  <2>6. \A i \in 0 .. n : g[i] = f[i]
    BY <2>3
  <2>7. g[n + 1] = step[n + 1][f[n]]
    BY <2>3
  <2>8. g \in [0 .. n + 1 -> A]
    <3>1. \A i \in 0 .. n + 1 : i = n + 1 \/ i \in 0 .. n
      BY <2>3
    <3> QED BY <2>2, <2>5, <3>1
  <2> HIDE DEF g
  <2>9. g[0] = b
    BY <2>2, <2>3, <2>6
  <2>10. ASSUME NEW i \in 1 .. n + 1 PROVE g[i] = step[i][g[i - 1]]
    <3>1. CASE i = n + 1
      <4>1. i - 1 = n /\ n \in 0 .. n
        BY <2>3, <3>1
      <4> QED BY <2>6, <2>7, <3>1, <4>1
    <3>2. CASE i # n + 1
      <4>1. i \in 1 .. n /\ i \in 0 .. n /\ i - 1 \in 0 .. n
        BY <2>3, <3>2
      <4> QED BY <2>2, <2>6, <4>1
    <3> QED BY <3>1, <3>2
  <2>11. Iterates(g, A, n + 1, b, step)
    BY <2>8, <2>9, <2>10 DEF Iterates
  <2> QED BY <2>3, <2>11
<1>3. \A n \in 0 .. N : n \in Some
  <2> HIDE DEF Some
  <2> QED BY <1>1, <1>2, StepByStep
<1>4. N \in Some
  BY <1>3
<1> QED BY <1>4
=============================================================================
