-------------------------- MODULE ReplicationProofs --------------------------
(***************************************************************************)
(* Theorems about Replication, for every set of replicas and of messages,  *)
(* every size of the ring and every place where TCP may cut: first the     *)
(* order of all that is replicated, then that nothing is lost.             *)
(***************************************************************************)
EXTENDS Replication, SequenceTheorems, TLAPS

Cmd == [msg : Nat \ {0}, whole : BOOLEAN]

(* The commands are in order, from above lo up to hi, and only a SET with  *)
(* a deadline is in part.                                                  *)
Ordered(text, cmds, lo, hi) ==
  /\ cmds \in Seq(Cmd)
  /\ \A j \in 1 .. Len(cmds) :
       /\ lo < cmds[j].msg
       /\ cmds[j].msg <= hi
       /\ cmds[j].whole \/ text[cmds[j].msg].px # NoPx
  /\ \A i, j \in 1 .. Len(cmds) : i < j => cmds[i].msg < cmds[j].msg

-----------------------------------------------------------------------------
(* What Digest promises.                                                   *)

LEMMA NothingIsOrdered ==
  ASSUME NEW text, NEW lo, NEW hi
  PROVE  Ordered(text, <<>>, lo, hi)
BY DEF Ordered

LEMMA PointType ==
  ASSUME NEW e \in Point
  PROVE  e[1] \in 0 .. 5 /\ e[2] \in 0 .. 5 /\ e = <<e[1], e[2]>>
BY DEF Point

(* The whole messages, with no, or one command of the cut message behind.  *)
LEMMA WholeType ==
  ASSUME NEW i \in Nat \ {0}, NEW k \in Nat, i <= k
  PROVE  /\ Whole(i, k - 1) \in Seq(Cmd)
         /\ Len(Whole(i, k - 1)) = k - i
         /\ \A j \in 1 .. k - i : Whole(i, k - 1)[j] = [msg |-> i + j - 1, whole |-> TRUE]
<1> DEFINE n == IF i <= k - 1 THEN (k - 1) - i + 1 ELSE 0
<1>1. n = k - i /\ n \in Nat
  OBVIOUS
<1>2. Whole(i, k - 1) = [j \in 1 .. n |-> [msg |-> i + j - 1, whole |-> TRUE]]
  BY DEF Whole
<1>3. \A j \in 1 .. n : [msg |-> i + j - 1, whole |-> TRUE] \in Cmd
  BY <1>1 DEF Cmd
<1> HIDE DEF n
<1> DEFINE W == Whole(i, k - 1)
<1>4. W \in [1 .. n -> Cmd]
  BY <1>2, <1>3
<1>5. W \in Seq(Cmd) /\ Len(W) = n
  BY <1>1, <1>2, <1>4
<1>6. \A j \in 1 .. n : W[j] = [msg |-> i + j - 1, whole |-> TRUE]
  BY <1>2
<1> QED BY <1>1, <1>5, <1>6

LEMMA RemnantType ==
  ASSUME NEW text, NEW k \in Nat \ {0}, NEW e \in Point
  PROVE  \/ Remnant(text, k, e) = <<>>
         \/ /\ e # Start
            /\ \E w \in BOOLEAN : /\ w \/ text[k].px # NoPx
                                  /\ Remnant(text, k, e) = <<[msg |-> k, whole |-> w]>>
<1> DEFINE w == ArgsSeen(e) = Args(text[k])
<1>1. CASE e # Start /\ ArgsSeen(e) \in {3, Args(text[k])}
  <2>1. Remnant(text, k, e) = <<[msg |-> k, whole |-> w]>>
    BY <1>1 DEF Remnant
  <2>2. w \/ text[k].px # NoPx
    BY <1>1 DEF Args
  <2>3. w \in BOOLEAN
    OBVIOUS
  <2> QED BY <1>1, <2>1, <2>2, <2>3
<1>2. CASE ~ (e # Start /\ ArgsSeen(e) \in {3, Args(text[k])})
  BY <1>2 DEF Remnant
<1> QED BY <1>1, <1>2

LEMMA WholeAndRemnant ==
  ASSUME NEW text, NEW i \in Nat \ {0}, NEW k \in Nat, i <= k, NEW e \in Point
  PROVE  Ordered(text, Whole(i, k - 1) \o Remnant(text, k, e), i - 1, Done(<<k, e>>))
<1> DEFINE W == Whole(i, k - 1)
           R == Remnant(text, k, e)
<1>1. /\ W \in Seq(Cmd) /\ Len(W) = k - i
      /\ \A j \in 1 .. k - i : W[j] = [msg |-> i + j - 1, whole |-> TRUE]
  BY WholeType
<1>2. Done(<<k, e>>) \in {k - 1, k} /\ (e # Start => Done(<<k, e>>) = k)
  BY DEF Done
<1>3. CASE R = <<>>
  <2>1. W \o R = W
    BY <1>1, <1>3
  <2> HIDE DEF W, R
  <2>2. \A j \in 1 .. Len(W) : W[j].msg = i + j - 1 /\ W[j].whole
    <3> SUFFICES ASSUME NEW j \in 1 .. k - i
                 PROVE  W[j].msg = i + j - 1 /\ W[j].whole
      BY <1>1
    <3>1. W[j] = [msg |-> i + j - 1, whole |-> TRUE]
      BY <1>1
    <3>2. W[j].msg = i + j - 1
      BY <3>1
    <3>3. W[j].whole
      BY <3>1
    <3> QED BY <3>2, <3>3
  <2>3. \A j \in 1 .. Len(W) : i - 1 < W[j].msg /\ W[j].msg <= Done(<<k, e>>)
    BY <1>1, <1>2, <2>2
  <2>4. \A j, l \in 1 .. Len(W) : j < l => W[j].msg < W[l].msg
    BY <1>1, <2>2
  <2>5. Ordered(text, W, i - 1, Done(<<k, e>>))
    BY <1>1, <2>2, <2>3, <2>4 DEF Ordered
  <2> QED BY <2>1, <2>5 DEF W, R
<1>4. ASSUME e # Start, NEW w \in BOOLEAN, w \/ text[k].px # NoPx,
             R = <<[msg |-> k, whole |-> w]>>
      PROVE  Ordered(text, W \o R, i - 1, Done(<<k, e>>))
  <2> DEFINE c == [msg |-> k, whole |-> w]
             V == W \o <<c>>
  <2> HIDE DEF W, R
  <2>1. c \in Cmd
    BY DEF Cmd
  <2>2. V \in Seq(Cmd) /\ Len(V) = k - i + 1
    BY <1>1, <2>1
  <2>3. \A j \in 1 .. k - i : V[j] = [msg |-> i + j - 1, whole |-> TRUE]
    BY <1>1, <2>1
  <2>4. V[k - i + 1] = c
    BY <1>1, <2>1
  <2>5. Done(<<k, e>>) = k
    BY <1>2, <1>4
  <2> HIDE DEF V
  <2>6. \A j \in 1 .. k - i + 1 : V[j].msg = i + j - 1 /\ (V[j].whole \/ text[V[j].msg].px # NoPx)
    <3> SUFFICES ASSUME NEW j \in 1 .. k - i + 1
                 PROVE  V[j].msg = i + j - 1 /\ (V[j].whole \/ text[V[j].msg].px # NoPx)
      OBVIOUS
    <3>1. CASE j \in 1 .. k - i
      <4>1. V[j] = [msg |-> i + j - 1, whole |-> TRUE]
        BY <2>3, <3>1
      <4>2. V[j].msg = i + j - 1
        BY <4>1
      <4>3. V[j].whole
        BY <4>1
      <4> QED BY <4>2, <4>3
    <3>2. CASE j = k - i + 1
      BY <2>4, <1>4, <3>2
    <3> QED BY <3>1, <3>2
  <2>7. Ordered(text, V, i - 1, Done(<<k, e>>))
    BY <2>2, <2>5, <2>6 DEF Ordered
  <2> QED BY <2>7, <1>4 DEF V
<1>5. k \in Nat \ {0}
  OBVIOUS
<1>6. \/ R = <<>>
      \/ /\ e # Start
         /\ \E w \in BOOLEAN : /\ w \/ text[k].px # NoPx
                               /\ R = <<[msg |-> k, whole |-> w]>>
  BY <1>5, RemnantType
<1> QED BY <1>3, <1>4, <1>6

LEMMA OrderedFrom ==
  ASSUME NEW text, NEW cmds, NEW lo \in Int, NEW low \in Int, low <= lo, NEW hi,
         Ordered(text, cmds, lo, hi)
  PROVE  Ordered(text, cmds, low, hi)
<1>0. cmds \in Seq(Cmd)
  BY DEF Ordered
<1>1. \A j \in 1 .. Len(cmds) : cmds[j].msg \in Int
  <2> SUFFICES ASSUME NEW j \in 1 .. Len(cmds)
               PROVE  cmds[j].msg \in Int
    OBVIOUS
  <2>1. cmds[j] \in Cmd
    BY <1>0
  <2> QED BY <2>1 DEF Cmd
<1> QED BY <1>1 DEF Ordered

(* Two positions in a text, the second behind the first.                   *)
Piece(text, from, to) ==
  /\ from \in Position /\ to \in Position
  /\ Later(to, from)

LEMMA PieceType ==
  ASSUME NEW text, NEW from, NEW to, Piece(text, from, to)
  PROVE  /\ from[1] \in Nat \ {0} /\ to[1] \in Nat \ {0}
         /\ from[2] \in Point /\ to[2] \in Point
         /\ from = <<from[1], from[2]>> /\ to = <<to[1], to[2]>>
         /\ from[1] <= to[1]
<1>1. /\ from[1] \in Nat \ {0} /\ to[1] \in Nat \ {0}
      /\ from[2] \in Point /\ to[2] \in Point
      /\ from = <<from[1], from[2]>> /\ to = <<to[1], to[2]>>
  BY DEF Piece, Position
<1>2. from[1] <= to[1]
  BY <1>1 DEF Piece, Later
<1> QED BY <1>1, <1>2

LEMMA UpToIsOrdered ==
  ASSUME NEW text, NEW i \in Nat \ {0}, NEW k \in Nat, i <= k, NEW e \in Point
  PROVE  Ordered(text, UpTo(text, i, k, e).cmds, i - 1, Done(<<k, e>>))
<1>1. CASE Refusing(e)
  BY <1>1, NothingIsOrdered DEF UpTo, Refused
<1>2. CASE ~ Refusing(e) /\ Panicking(e)
  BY <1>2, NothingIsOrdered DEF UpTo, Panicked
<1>3. CASE ~ Refusing(e) /\ ~ Panicking(e)
  <2>1. UpTo(text, i, k, e).cmds = Whole(i, k - 1) \o Remnant(text, k, e)
    BY <1>3 DEF UpTo, Read
  <2> QED BY <2>1, WholeAndRemnant
<1> QED BY <1>1, <1>2, <1>3

(* The commands of a chunk come from the messages between its two ends, in *)
(* their order, none from a message that an earlier chunk took from.       *)
LEMMA DigestIsOrdered ==
  ASSUME NEW text, NEW from, NEW to, Piece(text, from, to)
  PROVE  Ordered(text, Digest(text, from, to).cmds, Done(from), Done(to))
<1> DEFINE i == from[1]
           k == to[1]
           a == from[2][1]
           e == to[2]
<1>0. /\ i \in Nat \ {0} /\ k \in Nat \ {0} /\ from[2] \in Point /\ e \in Point
      /\ from = <<i, from[2]>> /\ to = <<k, e>> /\ i <= k
  BY PieceType
<1>1. CASE from[2] = Start
  <2>1. Digest(text, from, to) = FromStart(text, i, k, e)
    BY <1>1 DEF Digest
  <2>2. Done(from) = i - 1
    BY <1>1 DEF Done
  <2>3. CASE k = i /\ e = Star
    BY <2>1, <2>3, NothingIsOrdered DEF FromStart, Refused
  <2>4. CASE ~ (k = i /\ e = Star)
    <3>1. Digest(text, from, to) = UpTo(text, i, k, e)
      BY <2>1, <2>4 DEF FromStart
    <3>2. Ordered(text, UpTo(text, i, k, e).cmds, i - 1, Done(<<k, e>>))
      BY <1>0, UpToIsOrdered
    <3> QED BY <1>0, <2>2, <3>1, <3>2
  <2> QED BY <2>3, <2>4
<1>2. CASE from[2] # Start /\ a > 0 /\ from[2][2] = 0
  <2>1. Digest(text, from, to) = FromHeader(text, i, a, k, e)
    BY <1>2 DEF Digest
  <2>2. Done(from) = i
    BY <1>2 DEF Done
  <2>3. CASE k > i + 1
    <3>1. Digest(text, from, to) = UpTo(text, i + 2, k, e)
      BY <1>0, <2>1, <2>3 DEF FromHeader
    <3>2. Ordered(text, UpTo(text, i + 2, k, e).cmds, (i + 2) - 1, Done(<<k, e>>))
      BY <1>0, <2>3, UpToIsOrdered
    <3>3. Ordered(text, UpTo(text, i + 2, k, e).cmds, i, Done(<<k, e>>))
      BY <1>0, <3>2, OrderedFrom
    <3> QED BY <1>0, <2>2, <3>1, <3>3
  <2>4. CASE k \in {i, i + 1}
    <3>1. Digest(text, from, to) \in {Panicked, Refused, Read(<<>>)}
      BY <1>0, <2>1, <2>4 DEF FromHeader
    <3>2. Digest(text, from, to).cmds = <<>>
      BY <3>1 DEF Panicked, Refused, Read
    <3> QED BY <3>2, NothingIsOrdered
  <2> QED BY <1>0, <2>3, <2>4
<1>3. CASE from[2] # Start /\ ~ (a > 0 /\ from[2][2] = 0)
  <2>1. Digest(text, from, to).cmds = <<>>
    BY <1>3 DEF Digest, Refused
  <2> QED BY <2>1, NothingIsOrdered
<1> QED BY <1>1, <1>2, <1>3

(* That holds whatever stars do to the chunk.                              *)
LEMMA InStepIsOrdered ==
  ASSUME NEW text, NEW i \in Nat \ {0}, NEW k \in Nat \ {0}, NEW e \in Point,
         NEW low \in Int, low <= i, NEW j \in i + 1 .. k
  PROVE  Ordered(text, InStep(text, j, k, e).cmds, low, Done(<<k, e>>))
<1>1. j \in Nat \ {0} /\ j <= k /\ low <= j - 1 /\ j - 1 \in Int
  OBVIOUS
<1>2. CASE Starred(text, <<j, Start>>, <<k, e>>)
  BY <1>2, NothingIsOrdered DEF InStep, Panicked
<1>3. CASE ~ Starred(text, <<j, Start>>, <<k, e>>)
  <2>1. InStep(text, j, k, e) = UpTo(text, j, k, e)
    BY <1>3 DEF InStep
  <2>2. Ordered(text, UpTo(text, j, k, e).cmds, j - 1, Done(<<k, e>>))
    BY <1>1, UpToIsOrdered
  <2> QED BY <1>1, <2>1, <2>2, OrderedFrom
<1> QED BY <1>2, <1>3

LEMMA DigestsAreOrdered ==
  ASSUME NEW text, NEW from, NEW to, Piece(text, from, to), NEW d \in Digests(text, from, to)
  PROVE  Ordered(text, d.cmds, Done(from), Done(to))
<1>0. /\ from[1] \in Nat \ {0} /\ to[1] \in Nat \ {0} /\ to[2] \in Point
      /\ to = <<to[1], to[2]>>
  BY PieceType
<1>1. CASE d = Digest(text, from, to)
  BY <1>1, DigestIsOrdered
<1>2. CASE d \in {Refused, Panicked, Read(<<>>)}
  <2>1. d.cmds = <<>>
    BY <1>2 DEF Refused, Panicked, Read
  <2> QED BY <2>1, NothingIsOrdered
<1>3. ASSUME NEW j \in from[1] + 1 .. to[1], d = InStep(text, j, to[1], to[2])
      PROVE  Ordered(text, d.cmds, Done(from), Done(to))
  <2>1. Done(from) \in Int /\ Done(from) <= from[1]
    BY <1>0 DEF Done
  <2> QED BY <1>0, <1>3, <2>1, InStepIsOrdered
<1> QED BY <1>1, <1>2, <1>3 DEF Digests, OutOfStep

-----------------------------------------------------------------------------
(* No command of a chunk is made from a message with a star in it: the     *)
(* parser never gets behind one in step with the messages.                 *)
Unstarred(text, cmds) == \A j \in 1 .. Len(cmds) : text[cmds[j].msg].stars = {}

LEMMA NothingIsUnstarred ==
  ASSUME NEW text
  PROVE  Unstarred(text, <<>>)
BY DEF Unstarred

(* At e a message is cut; what makes a command lies behind key and value.  *)
LEMMA StarsBefore ==
  ASSUME NEW e \in Point, NEW m, ArgsSeen(e) \in {3, Args(m)}, NEW a \in {2, 3}
  PROVE  a < e[1] \/ (a = e[1] /\ e[2] > 3)
<1>1. e[1] \in 0 .. 5 /\ e[2] \in 0 .. 5
  BY PointType
<1>2. ArgsSeen(e) \in {3, 5}
  BY DEF Args
<1> QED BY <1>1, <1>2 DEF ArgsSeen

LEMMA UpToIsUnstarred ==
  ASSUME NEW text, NEW i \in Nat \ {0}, NEW k \in Nat, i <= k, NEW e \in Point,
         ~ Starred(text, <<i, Start>>, <<k, e>>),
         e # Start => text[k].stars \subseteq {2, 3},
         \A j \in i .. k - 1 : text[j].stars \subseteq {2, 3}
  PROVE  Unstarred(text, UpTo(text, i, k, e).cmds)
<1> DEFINE W == Whole(i, k - 1)
           V == W \o Remnant(text, k, e)
<1>1. /\ W \in Seq(Cmd) /\ Len(W) = k - i
      /\ \A j \in 1 .. k - i : W[j] = [msg |-> i + j - 1, whole |-> TRUE]
  BY WholeType
<1>2. ASSUME NEW j \in i .. k, <<k, e>> # <<j, Start>>,
             NEW a \in text[j].stars,
             j < k \/ a < e[1] \/ (a = e[1] /\ e[2] > 3),
             a \in {2, 3}
      PROVE  FALSE
  <2>1. j > i \/ a >= Start[1]
    BY <1>2 DEF Start
  <2> QED BY <1>2, <2>1 DEF Starred
<1>3. \A j \in i .. k - 1 : text[j].stars = {}
  <2> SUFFICES ASSUME NEW j \in i .. k - 1, NEW a \in text[j].stars
               PROVE  FALSE
    OBVIOUS
  <2>1. j \in i .. k /\ j < k /\ a \in {2, 3}
    OBVIOUS
  <2> QED BY <1>2, <2>1
<1>4. ASSUME e # Start, ArgsSeen(e) \in {3, Args(text[k])}
      PROVE  text[k].stars = {}
  <2> SUFFICES ASSUME NEW a \in text[k].stars
               PROVE  FALSE
    OBVIOUS
  <2>1. a \in {2, 3} /\ k \in i .. k
    BY <1>4
  <2>2. a < e[1] \/ (a = e[1] /\ e[2] > 3)
    BY <1>4, <2>1, StarsBefore
  <2> QED BY <1>2, <1>4, <2>1, <2>2
<1>5. Unstarred(text, V)
  <2>1. CASE ~ (e # Start /\ ArgsSeen(e) \in {3, Args(text[k])})
    <3>1. Remnant(text, k, e) = <<>>
      BY <2>1 DEF Remnant
    <3>2. V = W
      BY <1>1, <3>1
    <3> HIDE DEF W, V
    <3>3. ASSUME NEW j \in 1 .. Len(W)
          PROVE  W[j].msg \in i .. k - 1
      <4>1. W[j] = [msg |-> i + j - 1, whole |-> TRUE]
        BY <1>1
      <4>2. W[j].msg = i + j - 1
        BY <4>1
      <4> QED BY <1>1, <4>2
    <3> QED BY <1>3, <3>2, <3>3 DEF Unstarred
  <2>2. CASE e # Start /\ ArgsSeen(e) \in {3, Args(text[k])}
    <3>1. PICK w \in BOOLEAN : Remnant(text, k, e) = <<[msg |-> k, whole |-> w]>>
      BY <2>2 DEF Remnant
    <3> DEFINE c == [msg |-> k, whole |-> w]
               U == W \o <<c>>
    <3> HIDE DEF W
    <3>2. k \in Nat \ {0}
      OBVIOUS
    <3>3. c \in Cmd /\ c.msg = k
      BY <3>2 DEF Cmd
    <3> HIDE DEF c
    <3>4. /\ Len(U) = k - i + 1
          /\ \A j \in 1 .. k - i : U[j] = [msg |-> i + j - 1, whole |-> TRUE]
          /\ U[k - i + 1] = c
      <4>1. W \in Seq(Cmd) /\ Len(W) = k - i /\ k - i \in Nat
        BY <1>1
      <4>2. /\ Len(U) = k - i + 1
            /\ \A j \in 1 .. k - i : U[j] = W[j]
            /\ U[k - i + 1] = c
        BY ONLY <3>3, <4>1 DEF U
      <4> QED BY <1>1, <4>2
    <3> HIDE DEF U
    <3>5. ASSUME NEW j \in 1 .. Len(U)
          PROVE  text[U[j].msg].stars = {}
      <4>1. CASE j \in 1 .. k - i
        <5>1. U[j] = [msg |-> i + j - 1, whole |-> TRUE]
          BY <3>4, <4>1
        <5>2. U[j].msg = i + j - 1 /\ i + j - 1 \in i .. k - 1
          BY <4>1, <5>1
        <5> QED BY <1>3, <5>2
      <4>2. CASE j = k - i + 1
        BY <1>4, <2>2, <3>3, <3>4, <4>2
      <4> QED BY <3>4, <4>1, <4>2
    <3>6. Unstarred(text, U)
      BY <3>5 DEF Unstarred
    <3> QED BY <3>1, <3>6 DEF U, c
  <2> QED BY <2>1, <2>2
<1>6. UpTo(text, i, k, e).cmds \in {<<>>, V}
  BY DEF UpTo, Refused, Panicked, Read
<1> QED BY <1>5, <1>6, NothingIsUnstarred

(* Fewer messages hold fewer stars.                                        *)
LEMMA StarredFrom ==
  ASSUME NEW text, NEW from, NEW to, Piece(text, from, to), NEW i \in Nat, from[1] < i,
         Starred(text, <<i, Start>>, to),
         \A j \in i .. to[1] : to # <<j, Start>> => text[j].stars \subseteq {2, 3}
  PROVE  Starred(text, from, to)
<1>1. from[1] \in Nat \ {0} /\ to[1] \in Nat \ {0}
  BY PieceType
<1>2. PICK j \in i .. to[1] :
        /\ to # <<j, Start>>
        /\ \E a \in text[j].stars :
             j < to[1] \/ a < to[2][1] \/ (a = to[2][1] /\ to[2][2] > 3)
  BY DEF Starred
<1>3. j \in from[1] .. to[1] /\ j > from[1]
  BY <1>1, <1>2
<1> QED BY <1>2, <1>3 DEF Starred

LEMMA DigestsAreUnstarred ==
  ASSUME NEW text, NEW from, NEW to, Piece(text, from, to),
         \A j \in from[1] .. to[1] : to # <<j, Start>> => text[j].stars \subseteq {2, 3},
         NEW d \in Digests(text, from, to)
  PROVE  Unstarred(text, d.cmds)
<1> DEFINE i == from[1]
           k == to[1]
           e == to[2]
<1>0. /\ i \in Nat \ {0} /\ k \in Nat \ {0} /\ from[2] \in Point /\ e \in Point
      /\ from = <<i, from[2]>> /\ to = <<k, e>> /\ i <= k
  BY PieceType
<1>1. ASSUME NEW j \in i .. k, ~ Starred(text, <<j, Start>>, <<k, e>>)
      PROVE  Unstarred(text, UpTo(text, j, k, e).cmds)
  <2>1. j \in Nat \ {0} /\ k \in Nat /\ j <= k
    BY <1>0
  <2>2. e # Start => text[k].stars \subseteq {2, 3}
    BY <1>0
  <2>3. \A l \in j .. k - 1 : text[l].stars \subseteq {2, 3}
    <3> SUFFICES ASSUME NEW l \in j .. k - 1
                 PROVE  text[l].stars \subseteq {2, 3}
      OBVIOUS
    <3>1. l \in i .. k /\ l # k
      BY <1>0
    <3> QED BY <1>0, <3>1
  <2> QED BY <1>0, <1>1, <2>1, <2>2, <2>3, UpToIsUnstarred
<1>2. CASE d \in {Refused, Panicked, Read(<<>>)}
  <2>1. d.cmds = <<>>
    BY <1>2 DEF Refused, Panicked, Read
  <2> QED BY <2>1, NothingIsUnstarred
<1>3. ASSUME NEW j \in i + 1 .. k, d = InStep(text, j, k, e)
      PROVE  Unstarred(text, d.cmds)
  <2>1. CASE Starred(text, <<j, Start>>, <<k, e>>)
    BY <1>3, <2>1, NothingIsUnstarred DEF InStep, Panicked
  <2>2. CASE ~ Starred(text, <<j, Start>>, <<k, e>>)
    <3>1. d = UpTo(text, j, k, e) /\ j \in i .. k
      BY <1>0, <1>3, <2>2 DEF InStep
    <3> QED BY <1>1, <2>2, <3>1
  <2> QED BY <2>1, <2>2
<1>4. CASE ~ Starred(text, from, to) /\ d = Digest(text, from, to)
  <2>1. CASE d \in {Refused, Panicked, Read(<<>>)}
    BY <1>2, <2>1
  <2>2. CASE from[2] = Start /\ d = UpTo(text, i, k, e)
    <3>1. ~ Starred(text, <<i, Start>>, <<k, e>>) /\ i \in i .. k
      BY <1>0, <1>4, <2>2
    <3> QED BY <1>1, <2>2, <3>1
  <2>3. CASE k > i + 1 /\ d = UpTo(text, i + 2, k, e)
    <3>1. i + 2 \in i .. k /\ i + 2 \in Nat /\ i < i + 2
      BY <1>0, <2>3
    <3>2. \A j \in i + 2 .. k : to # <<j, Start>> => text[j].stars \subseteq {2, 3}
      BY <1>0
    <3>3. ~ Starred(text, <<i + 2, Start>>, <<k, e>>)
      BY <1>0, <1>4, <3>1, <3>2, StarredFrom
    <3> QED BY <1>1, <2>3, <3>1, <3>3
  <2> QED BY <1>0, <1>4, <2>1, <2>2, <2>3 DEF Digest, FromStart, FromHeader
<1> QED BY <1>2, <1>3, <1>4 DEF Digests, OutOfStep

-----------------------------------------------------------------------------
(* The types.                                                              *)

LEMMA AheadType ==
  ASSUME TypeOK, NEW r \in Replicas, NEW p \in Ahead(r)
  PROVE  /\ p \in Position
         /\ Later(p, at[r])
         /\ p[1] <= Len(wire[r]) + 1
         /\ p[1] = Len(wire[r]) + 1 => p[2] = Start
<1>1. p \in (1 .. Len(wire[r]) + 1) \X Cuts
  BY DEF Ahead
<1>2. p \in Position
  BY <1>1, CutsAssumption DEF Position, TypeOK
<1>3. Later(p, at[r]) /\ (p = End(r) \/ p[1] <= Len(wire[r]))
  BY DEF Ahead
<1>4. p[1] <= Len(wire[r]) + 1
  BY <1>1 DEF TypeOK
<1>5. p[1] = Len(wire[r]) + 1 => p[2] = Start
  BY <1>3 DEF End, TypeOK
<1> QED BY <1>2, <1>3, <1>4, <1>5

LEMMA ChunkIsOrdered ==
  ASSUME TypeOK, NEW r \in Replicas, NEW p \in Ahead(r),
         NEW digest \in Digests(OnWire(r), at[r], p)
  PROVE  Ordered(OnWire(r), digest.cmds, Done(at[r]), Done(p))
<1>1. Piece(OnWire(r), at[r], p)
  BY AheadType DEF Piece, TypeOK
<1> QED BY <1>1, DigestsAreOrdered

LEMMA InitType == Init => TypeOK
<1> SUFFICES ASSUME Init PROVE TypeOK
  OBVIOUS
<1>1. <<>> \in Seq(Messages) /\ <<>> \in Seq(Nat \ {0}) /\ <<>> \in Seq(Cmd)
  OBVIOUS
<1>2. Begin \in Position
  BY CutsAssumption DEF Begin, Position
<1> QED BY <1>1, <1>2 DEF Init, TypeOK, Cmd

(* A command of a chunk is a message on the wire.                          *)
LEMMA PendingType ==
  ASSUME TypeOK, ChunkInOrder, NEW r \in Replicas, NEW j \in 1 .. Len(pending[r])
  PROVE  pending[r][j] \in Cmd /\ pending[r][j].msg \in 1 .. Len(wire[r])
<1>1. pending[r] \in Seq(Cmd) /\ wire[r] \in Seq(Nat \ {0}) /\ at[r] \in Position
  BY DEF TypeOK, Cmd
<1>2. pending[r][j] \in Cmd
  BY <1>1
<1>3. pending[r][j].msg \in Nat \ {0}
  BY <1>2 DEF Cmd
<1>4. at[r][1] \in Nat /\ Len(wire[r]) \in Nat
  BY <1>1 DEF Position
<1>5. /\ pending[r][j].msg <= Done(at[r])
      /\ at[r][1] <= Len(wire[r]) + 1
      /\ at[r][1] = Len(wire[r]) + 1 => at[r][2] = Start
  BY DEF ChunkInOrder, Chunk
<1>6. Done(at[r]) <= Len(wire[r])
  BY <1>4, <1>5 DEF Done
<1>7. Done(at[r]) \in Int
  BY <1>4 DEF Done
<1> QED BY <1>2, <1>3, <1>4, <1>5, <1>6, <1>7

(* What Execute puts into the map is the first of the pending commands.    *)
LEMMA ExecutedSet ==
  ASSUME TypeOK, ChunkInOrder, NEW r \in Replicas, Execute(r)
  PROVE  /\ 1 \in 1 .. Len(pending[r])
         /\ \E set \in Cmd :
              /\ set = [msg |-> wire[r][pending[r][1].msg], whole |-> pending[r][1].whole]
              /\ store' = [store EXCEPT ![r] = Append(@, set)]
              /\ frontier' = [frontier EXCEPT ![r] = set.msg]
<1> DEFINE cmd == Head(pending[r])
           set == [msg |-> wire[r][pending[r][1].msg], whole |-> pending[r][1].whole]
<1>1. pending[r] # <<>> /\ pending[r] \in Seq(Cmd) /\ wire[r] \in Seq(Nat \ {0})
  BY DEF Execute, TypeOK, Cmd
<1>2. 1 \in 1 .. Len(pending[r]) /\ cmd = pending[r][1]
  BY <1>1
<1>3. pending[r][1] \in Cmd /\ pending[r][1].msg \in 1 .. Len(wire[r])
  BY <1>2, PendingType
<1>4. wire[r][pending[r][1].msg] \in Nat \ {0}
  BY <1>1, <1>3
<1>5. pending[r][1].whole \in BOOLEAN
  BY <1>3 DEF Cmd
<1>6. set \in Cmd
  BY <1>4, <1>5 DEF Cmd
<1>7. /\ store' = [store EXCEPT ![r] = Append(@, set)]
      /\ frontier' = [frontier EXCEPT ![r] = set.msg]
  BY <1>2 DEF Execute
<1> QED BY <1>2, <1>6, <1>7

LEMMA NextType ==
  ASSUME TypeOK, ChunkInOrder, [Next]_vars
  PROVE  TypeOK'
<1> USE DEF TypeOK, master, pipes, replica
<1>1. CASE Publish
  BY <1>1 DEF Publish
<1>2. CASE MasterEnds
  BY <1>2 DEF MasterEnds
<1>3. ASSUME NEW r \in Replicas, Psync(r)
      PROVE  TypeOK'
  BY <1>3 DEF Psync
<1>4. ASSUME NEW r \in Replicas, Subscribe(r)
      PROVE  TypeOK'
  BY <1>4 DEF Subscribe, SubscribeTo
<1>5. ASSUME NEW r \in Replicas, CountIn(r)
      PROVE  TypeOK'
  BY <1>5 DEF CountIn
<1>6. ASSUME NEW r \in Replicas, Forward(r)
      PROVE  TypeOK'
  BY <1>6 DEF Forward
<1>7. ASSUME NEW r \in Replicas, Lag(r)
      PROVE  TypeOK'
  <2>1. Oldest \in Nat \ {0}
    BY RingAssumption DEF Oldest
  <2> QED BY <1>7, <2>1 DEF Lag
<1>8. ASSUME NEW r \in Replicas, StartReading(r)
      PROVE  TypeOK'
  <2>1. PICK p \in Ahead(r) \cup {at[r]} :
          /\ at' = [at EXCEPT ![r] = p]
          /\ calm' = [calm EXCEPT ![r] = @ /\ p = Begin]
    BY <1>8 DEF StartReading
  <2>2. p \in Position
    BY AheadType
  <2> QED BY <1>8, <2>1, <2>2 DEF StartReading
<1>9. ASSUME NEW r \in Replicas, ReadChunk(r)
      PROVE  TypeOK'
  <2>1. PICK p \in Ahead(r) : \E digest \in Digests(OnWire(r), at[r], p) :
          /\ at' = [at EXCEPT ![r] = p]
          /\ pending' = [pending EXCEPT ![r] = digest.cmds]
          /\ link' = [link EXCEPT ![r] = IF digest.fate = "panicked" THEN "stopped" ELSE @]
          /\ calm' = [calm EXCEPT ![r] =
                         @ /\ p[2] = Start /\ ~ Starred(OnWire(r), at[r], p)]
    BY <1>9 DEF ReadChunk
  <2>2. p \in Position
    BY AheadType
  <2>3. PICK digest \in Digests(OnWire(r), at[r], p) :
          /\ pending' = [pending EXCEPT ![r] = digest.cmds]
          /\ link' = [link EXCEPT ![r] = IF digest.fate = "panicked" THEN "stopped" ELSE @]
    BY <2>1
  <2>4. digest.cmds \in Seq(Cmd)
    BY ChunkIsOrdered DEF Ordered
  <2>5. pending' \in [Replicas -> Seq(Cmd)]
    BY <2>3, <2>4 DEF Cmd
  <2> QED BY <1>9, <2>1, <2>2, <2>3, <2>5 DEF ReadChunk, Cmd
<1>10. ASSUME NEW r \in Replicas, Execute(r)
       PROVE  TypeOK'
  <2>1. PICK set \in Cmd : /\ store' = [store EXCEPT ![r] = Append(@, set)]
                           /\ frontier' = [frontier EXCEPT ![r] = set.msg]
    BY <1>10, ExecutedSet
  <2>2. store' \in [Replicas -> Seq(Cmd)]
    BY <2>1 DEF Cmd
  <2>3. frontier' \in [Replicas -> Nat]
    BY <2>1 DEF Cmd
  <2> QED BY <1>10, <2>2, <2>3 DEF Execute, Cmd
<1>11. ASSUME NEW r \in Replicas, IncrementOffset(r)
       PROVE  TypeOK'
  <2>1. pending[r] # <<>>
    BY <1>11 DEF IncrementOffset, ChunkInOrder, Chunk
  <2>2. Tail(pending[r]) \in Seq(Cmd)
    BY <2>1 DEF Cmd
  <2> QED BY <1>11, <2>2, SMTT(60) DEF IncrementOffset, Cmd
<1>12. ASSUME NEW r \in Replicas, LoadSnapshot(r)
       PROVE  TypeOK'
  BY <1>12 DEF LoadSnapshot
<1>13. ASSUME NEW r \in Replicas, EndOfStream(r)
       PROVE  TypeOK'
  BY <1>13 DEF EndOfStream
<1>14. CASE UNCHANGED vars
  BY <1>14 DEF vars
<1> QED BY <1>1, <1>2, <1>3, <1>4, <1>5, <1>6, <1>7, <1>8, <1>9, <1>10, <1>11, <1>12,
           <1>13, <1>14 DEF Next, PipeStep, LinkStep

-----------------------------------------------------------------------------
(* The wire.  The replica's steps leave the master and the pipes alone.    *)

LEMMA ReplicaLeavesWire ==
  ASSUME NEW r \in Replicas, LinkStep(r) \/ LoadSnapshot(r)
  PROVE  UNCHANGED <<feed, pipes>>
BY DEF LinkStep, StartReading, ReadChunk, Execute, IncrementOffset, EndOfStream,
       LoadSnapshot, master, pipes

LEMMA NextWire ==
  ASSUME TypeOK, WireInOrder, [Next]_vars
  PROVE  WireInOrder'
<1>0. /\ feed \in Seq(Messages) /\ Len(feed) \in Nat
      /\ cursor \in [Replicas -> Nat \ {0}]
      /\ wire \in [Replicas -> Seq(Nat \ {0})]
      /\ pipe \in [Replicas -> {"none", "sync", "piped", "pipe"}]
  BY DEF TypeOK
<1>1. CASE UNCHANGED <<feed, pipes>>
  BY <1>1 DEF WireInOrder, pipes
<1>2. CASE Publish
  <2>1. UNCHANGED pipes /\ Len(feed') = Len(feed) + 1
    BY <1>0, <1>2 DEF Publish
  <2> QED BY <1>0, <2>1 DEF WireInOrder, pipes
<1>3. ASSUME NEW r \in Replicas, Psync(r)
      PROVE  WireInOrder'
  BY <1>0, <1>3 DEF Psync, WireInOrder, master
<1>4. ASSUME NEW r \in Replicas, Subscribe(r)
      PROVE  WireInOrder'
  <2>1. wire[r] = <<>>
    BY <1>4 DEF Subscribe, SubscribeTo, WireInOrder
  <2>2. UNCHANGED <<feed, wire>>
    BY <1>4 DEF Subscribe, SubscribeTo, master
  <2>3. /\ cursor' = [cursor EXCEPT ![r] = Len(feed) + 1]
        /\ pipe' = [pipe EXCEPT ![r] = "piped"]
    BY <1>4 DEF Subscribe, SubscribeTo
  <2> QED BY <1>0, <2>1, <2>2, <2>3 DEF WireInOrder
<1>5. ASSUME NEW r \in Replicas, CountIn(r)
      PROVE  WireInOrder'
  BY <1>0, <1>5 DEF CountIn, WireInOrder, master
<1>6. ASSUME NEW r \in Replicas, Forward(r)
      PROVE  WireInOrder'
  <2>1. /\ UNCHANGED <<feed, pipe>>
        /\ pipe[r] = "pipe"
        /\ cursor[r] <= Len(feed)
        /\ cursor' = [cursor EXCEPT ![r] = @ + 1]
        /\ \/ wire' = wire
           \/ wire' = [wire EXCEPT ![r] = Append(@, cursor[r])]
    <3>1. cursor[r] \in Oldest .. Len(feed) /\ Oldest \in Int
      BY <1>0, <1>6, RingAssumption DEF Forward, Oldest
    <3>2. /\ UNCHANGED <<feed, pipe>>
          /\ pipe[r] = "pipe"
          /\ cursor' = [cursor EXCEPT ![r] = @ + 1]
          /\ wire' = [wire EXCEPT ![r] = IF link[r] = "stopped" THEN @
                                          ELSE Append(@, cursor[r])]
      BY <1>6 DEF Forward, master
    <3>3. CASE link[r] = "stopped"
      BY <1>0, <3>1, <3>2, <3>3
    <3>4. CASE link[r] # "stopped"
      BY <1>0, <3>1, <3>2, <3>4
    <3> QED BY <3>3, <3>4
  <2>2. CASE wire' = wire
    BY <1>0, <2>1, <2>2 DEF WireInOrder
  <2>3. CASE wire' = [wire EXCEPT ![r] = Append(@, cursor[r])]
    <3> SUFFICES ASSUME NEW s \in Replicas
                 PROVE  /\ cursor'[s] <= Len(feed') + 1
                        /\ pipe'[s] \in {"none", "sync"} => wire'[s] = <<>>
                        /\ \A i \in 1 .. Len(wire'[s]) : wire'[s][i] < cursor'[s]
                        /\ \A i, j \in 1 .. Len(wire'[s]) : i < j => wire'[s][i] < wire'[s][j]
      BY DEF WireInOrder
    <3>1. CASE s # r
      BY <1>0, <2>1, <2>3, <3>1 DEF WireInOrder
    <3>2. CASE s = r
      <4>1. /\ wire'[r] = Append(wire[r], cursor[r])
            /\ cursor'[r] = cursor[r] + 1
            /\ cursor[r] \in Nat /\ wire[r] \in Seq(Nat \ {0})
        BY <1>0, <2>1, <2>3
      <4>2. /\ Len(wire'[r]) = Len(wire[r]) + 1
            /\ \A i \in 1 .. Len(wire[r]) : wire'[r][i] = wire[r][i] /\ wire[r][i] \in Nat
            /\ wire'[r][Len(wire[r]) + 1] = cursor[r]
        BY <4>1
      <4>3. /\ \A i \in 1 .. Len(wire[r]) : wire[r][i] < cursor[r]
            /\ \A i, j \in 1 .. Len(wire[r]) : i < j => wire[r][i] < wire[r][j]
        BY DEF WireInOrder
      <4>4. Len(wire[r]) \in Nat
        BY <4>1
      <4>5. \A i \in 1 .. Len(wire'[r]) : wire'[r][i] < cursor'[r]
        BY <4>1, <4>2, <4>3, <4>4
      <4>6. \A i, j \in 1 .. Len(wire'[r]) : i < j => wire'[r][i] < wire'[r][j]
        BY <4>1, <4>2, <4>3, <4>4
      <4> QED BY <1>0, <2>1, <3>2, <4>1, <4>5, <4>6
    <3> QED BY <3>1, <3>2
  <2> QED BY <2>1, <2>2, <2>3
<1>7. ASSUME NEW r \in Replicas, Lag(r)
      PROVE  WireInOrder'
  <2>1. /\ UNCHANGED <<feed, pipe, wire>>
        /\ cursor[r] < Oldest
        /\ cursor' = [cursor EXCEPT ![r] = Oldest]
    BY <1>7 DEF Lag, master
  <2>2. Oldest \in Nat /\ Oldest <= Len(feed) + 1
    BY <1>0, RingAssumption DEF Oldest
  <2>3. \A s \in Replicas : \A i \in 1 .. Len(wire[s]) : wire[s][i] \in Nat
    BY <1>0
  <2>4. \A s \in Replicas : cursor'[s] >= cursor[s] /\ cursor'[s] \in Nat
                             /\ cursor'[s] \in {cursor[s], Oldest}
    BY <1>0, <2>1, <2>2
  <2> QED BY <1>0, <2>1, <2>2, <2>3, <2>4 DEF WireInOrder
<1>8. CASE UNCHANGED vars
  BY <1>1, <1>8 DEF vars, master
<1>9. CASE MasterEnds
  BY <1>1, <1>9 DEF MasterEnds
<1>10. ASSUME NEW r \in Replicas, LinkStep(r) \/ LoadSnapshot(r)
       PROVE  WireInOrder'
  BY <1>1, <1>10, ReplicaLeavesWire
<1> QED BY <1>2, <1>3, <1>4, <1>5, <1>6, <1>7, <1>8, <1>9, <1>10 DEF Next, PipeStep

-----------------------------------------------------------------------------
(* The chunk in hand.                                                      *)

LEMMA DoneGrows ==
  ASSUME NEW p \in Position, NEW q \in Position, Later(p, q)
  PROVE  Done(q) <= Done(p) /\ Done(q) \in Nat /\ Done(p) \in Nat
<1>1. /\ p[1] \in Nat \ {0} /\ q[1] \in Nat \ {0} /\ p[2] \in Point /\ q[2] \in Point
  BY DEF Position
<1>2. CASE p[1] > q[1]
  BY <1>1, <1>2 DEF Done
<1>3. CASE p[1] = q[1] /\ p[2] # Start
  BY <1>1, <1>3 DEF Done
<1>4. CASE p[1] = q[1] /\ p[2] = Start
  <2>1. q[2][1] \in 0 .. 5 /\ q[2][2] \in 0 .. 5
    BY <1>1, PointType
  <2>2. p[2][1] = 0 /\ p[2][2] = 0
    BY <1>4 DEF Start
  <2> QED BY <1>1, <1>4, <2>1, <2>2 DEF Later
<1>5. p[1] >= q[1]
  BY <1>1 DEF Later
<1> QED BY <1>1, <1>2, <1>3, <1>4, <1>5

(* A command stays what it is when the feed and the wire grow.             *)
LEMMA ChunkStays ==
  ASSUME TypeOK, ChunkInOrder, WireInOrder, NEW s \in Replicas,
         UNCHANGED <<at[s], pending[s]>>,
         link'[s] = "counting" => link[s] = "counting",
         \/ wire'[s] = wire[s]
         \/ \E x \in Nat \ {0} : wire'[s] = Append(wire[s], x),
         \/ feed' = feed
         \/ \E m \in Messages : feed' = Append(feed, m)
  PROVE  Chunk(s)'
<1>1. /\ feed \in Seq(Messages) /\ wire[s] \in Seq(Nat \ {0}) /\ pending[s] \in Seq(Cmd)
      /\ at[s] \in Position /\ cursor[s] \in Nat
  BY DEF TypeOK, Cmd
<1>2. Len(feed) \in Nat /\ Len(wire[s]) \in Nat /\ at[s][1] \in Nat
  BY <1>1 DEF Position
<1>3. Chunk(s)
  BY DEF ChunkInOrder
<1>4. /\ Len(wire'[s]) >= Len(wire[s]) /\ Len(wire'[s]) \in Nat
      /\ \A i \in 1 .. Len(wire[s]) : wire'[s][i] = wire[s][i]
  BY <1>1
<1>5. \A i \in 1 .. Len(feed) : feed'[i] = feed[i]
  BY <1>1, SMTT(60)
<1>6. \A j \in 1 .. Len(pending[s]) :
        /\ pending[s][j].msg \in 1 .. Len(wire[s])
        /\ wire[s][pending[s][j].msg] \in 1 .. Len(feed)
  <2> SUFFICES ASSUME NEW j \in 1 .. Len(pending[s])
               PROVE  /\ pending[s][j].msg \in 1 .. Len(wire[s])
                      /\ wire[s][pending[s][j].msg] \in 1 .. Len(feed)
    OBVIOUS
  <2>1. pending[s][j].msg \in 1 .. Len(wire[s])
    BY PendingType
  <2> DEFINE k == pending[s][j].msg
             x == wire[s][k]
  <2>2. x \in Nat \ {0}
    <3>1. k \in 1 .. Len(wire[s]) /\ wire[s] \in Seq(Nat \ {0})
      BY <1>1, <2>1
    <3> HIDE DEF k
    <3> QED BY <3>1
  <2>3. x < cursor[s] /\ cursor[s] <= Len(feed) + 1
    BY <2>1 DEF WireInOrder
  <2> HIDE DEF x
  <2>4. x \in 1 .. Len(feed)
    BY <1>1, <1>2, <2>2, <2>3
  <2> QED BY <2>1, <2>4 DEF x
<1>7. at'[s][1] <= Len(wire'[s]) + 1 /\ (at'[s][1] = Len(wire'[s]) + 1 => at'[s][2] = Start)
  BY <1>2, <1>3, <1>4 DEF Chunk
<1>8. \A j \in 1 .. Len(pending'[s]) :
        /\ pending'[s][j].msg <= Done(at'[s])
        /\ pending'[s][j].whole \/ feed'[wire'[s][pending'[s][j].msg]].px # NoPx
  <2> SUFFICES ASSUME NEW j \in 1 .. Len(pending[s])
               PROVE  /\ pending[s][j].msg <= Done(at[s])
                      /\ pending[s][j].whole \/ feed'[wire'[s][pending[s][j].msg]].px # NoPx
    OBVIOUS
  <2>1. /\ pending[s][j].msg <= Done(at[s])
        /\ pending[s][j].whole \/ feed[wire[s][pending[s][j].msg]].px # NoPx
    BY <1>3 DEF Chunk
  <2>2. feed'[wire'[s][pending[s][j].msg]] = feed[wire[s][pending[s][j].msg]]
    BY <1>4, <1>5, <1>6
  <2> QED BY <2>1, <2>2
<1>9. \A i, j \in 1 .. Len(pending'[s]) : i < j => pending'[s][i].msg < pending'[s][j].msg
  BY <1>3 DEF Chunk
<1>10. link'[s] = "counting" => pending'[s] # <<>>
  BY <1>3 DEF Chunk
<1> QED BY <1>7, <1>8, <1>9, <1>10 DEF Chunk, Done

LEMMA NextChunk ==
  ASSUME TypeOK, WireInOrder, ChunkInOrder, [Next]_vars
  PROVE  ChunkInOrder'
<1>0. /\ wire \in [Replicas -> Seq(Nat \ {0})]
      /\ pending \in [Replicas -> Seq(Cmd)]
      /\ at \in [Replicas -> Position]
      /\ cursor \in [Replicas -> Nat \ {0}]
      /\ link \in [Replicas -> {"off", "syncing", "reading", "counting", "stopped"}]
  BY DEF TypeOK, Cmd
<1> SUFFICES ASSUME NEW s \in Replicas
             PROVE  Chunk(s)'
  BY DEF ChunkInOrder
<1>1. CASE /\ UNCHANGED <<at, pending>>
           /\ link'[s] = "counting" => link[s] = "counting"
           /\ \/ wire' = wire
              \/ \E r \in Replicas : wire' = [wire EXCEPT ![r] = Append(@, cursor[r])]
           /\ \/ feed' = feed
              \/ \E m \in Messages : feed' = Append(feed, m)
  <2>1. \/ wire'[s] = wire[s]
        \/ \E x \in Nat \ {0} : wire'[s] = Append(wire[s], x)
    BY <1>0, <1>1
  <2> QED BY <1>1, <2>1, ChunkStays
<1>2. CASE Publish
  BY <1>1, <1>2 DEF Publish, pipes, replica
<1>3. CASE MasterEnds
  BY <1>1, <1>3 DEF MasterEnds, pipes, replica
<1>4. ASSUME NEW r \in Replicas, Psync(r)
      PROVE  Chunk(s)'
  <2>1. link'[s] \in {link[s], "syncing"}
    BY <1>0, <1>4 DEF Psync
  <2> QED BY <1>1, <1>4, <2>1 DEF Psync, master
<1>5. ASSUME NEW r \in Replicas, Subscribe(r) \/ CountIn(r)
      PROVE  Chunk(s)'
  BY <1>1, <1>5 DEF Subscribe, SubscribeTo, CountIn, master, replica
<1>6. ASSUME NEW r \in Replicas, Forward(r)
      PROVE  Chunk(s)'
  <2>1. wire' = [wire EXCEPT ![r] = IF link[r] = "stopped" THEN @ ELSE Append(@, cursor[r])]
    BY <1>6 DEF Forward
  <2>2. wire' = wire \/ wire' = [wire EXCEPT ![r] = Append(@, cursor[r])]
    <3>1. CASE link[r] = "stopped"
      BY <1>0, <2>1, <3>1
    <3>2. CASE link[r] # "stopped"
      BY <1>0, <2>1, <3>2
    <3> QED BY <3>1, <3>2
  <2>3. UNCHANGED <<feed, at, pending, link>>
    BY <1>6 DEF Forward, master, replica
  <2> QED BY <1>1, <2>2, <2>3
<1>7. ASSUME NEW r \in Replicas, Lag(r)
      PROVE  Chunk(s)'
  BY <1>1, <1>7 DEF Lag, master
<1>8. ASSUME NEW r \in Replicas, StartReading(r)
      PROVE  Chunk(s)'
  <2>1. CASE s # r
    <3>1. UNCHANGED <<at[s], pending[s], link[s], wire[s], feed>>
      BY <1>0, <1>8, <2>1 DEF StartReading, master, pipes
    <3> QED BY <3>1, ChunkStays
  <2>2. CASE s = r
    <3>1. PICK p \in Ahead(r) \cup {at[r]} : at' = [at EXCEPT ![r] = p]
      BY <1>8 DEF StartReading
    <3>2. at'[r] = p /\ link'[r] = "reading" /\ UNCHANGED <<pending, wire, feed>>
      BY <1>0, <1>8, <3>1 DEF StartReading, master, pipes
    <3>3. CASE p = at[r]
      BY <2>2, <3>2, <3>3, ChunkStays
    <3>4. CASE p \in Ahead(r)
      <4>1. /\ p \in Position /\ Later(p, at[r])
            /\ p[1] <= Len(wire[r]) + 1 /\ (p[1] = Len(wire[r]) + 1 => p[2] = Start)
        BY <3>4, AheadType
      <4>2. Done(at[r]) <= Done(p) /\ Done(at[r]) \in Nat /\ Done(p) \in Nat
        BY <1>0, <4>1, DoneGrows
      <4>3. \A j \in 1 .. Len(pending[r]) : pending[r][j].msg \in Nat
        BY <1>0, PendingType DEF Cmd
      <4>4. Chunk(r)
        BY DEF ChunkInOrder
      <4>5. \A j \in 1 .. Len(pending[r]) :
              /\ pending[r][j].msg <= Done(p)
              /\ pending[r][j].whole \/ feed[wire[r][pending[r][j].msg]].px # NoPx
        BY <4>2, <4>3, <4>4 DEF Chunk
      <4>6. \A i, j \in 1 .. Len(pending[r]) : i < j => pending[r][i].msg < pending[r][j].msg
        BY <4>4 DEF Chunk
      <4> QED BY <2>2, <3>2, <4>1, <4>5, <4>6 DEF Chunk, Done
    <3> QED BY <3>1, <3>3, <3>4
  <2> QED BY <2>1, <2>2
<1>9. ASSUME NEW r \in Replicas, ReadChunk(r)
      PROVE  Chunk(s)'
  <2>1. CASE s # r
    <3>1. UNCHANGED <<at[s], pending[s], link[s], wire[s], feed>>
      BY <1>0, <1>9, <2>1 DEF ReadChunk, master, pipes
    <3> QED BY <3>1, ChunkStays
  <2>2. CASE s = r
    <3>1a. PICK p \in Ahead(r) : \E digest \in Digests(OnWire(r), at[r], p) :
            /\ at' = [at EXCEPT ![r] = p]
            /\ pending' = [pending EXCEPT ![r] = digest.cmds]
            /\ link' = [link EXCEPT ![r] = IF digest.fate = "panicked" THEN "stopped" ELSE @]
      BY <1>9 DEF ReadChunk
    <3>1. PICK digest \in Digests(OnWire(r), at[r], p) :
            /\ at' = [at EXCEPT ![r] = p]
            /\ pending' = [pending EXCEPT ![r] = digest.cmds]
            /\ link' = [link EXCEPT ![r] = IF digest.fate = "panicked" THEN "stopped" ELSE @]
      BY <3>1a
    <3> DEFINE cmds == digest.cmds
    <3>2. /\ p \in Position
          /\ p[1] <= Len(wire[r]) + 1 /\ (p[1] = Len(wire[r]) + 1 => p[2] = Start)
      BY AheadType
    <3>3. at'[r] = p /\ pending'[r] = cmds /\ UNCHANGED <<wire, feed>>
      BY <1>0, <1>9, <3>1 DEF ReadChunk, master, pipes
    <3>4. link'[r] # "counting"
      BY <1>0, <1>9, <3>1 DEF ReadChunk
    <3>5. Ordered(OnWire(r), cmds, Done(at[r]), Done(p))
      BY ChunkIsOrdered
    <3> HIDE DEF cmds
    <3>6. \A j \in 1 .. Len(cmds) : cmds[j].msg \in Nat \ {0} /\ cmds[j].msg <= Done(p)
      <4>1. \A j \in 1 .. Len(cmds) : cmds[j] \in Cmd /\ cmds[j].msg <= Done(p)
        BY <3>5 DEF Ordered
      <4> QED BY <4>1 DEF Cmd
    <3>7. Done(p) \in Nat /\ Done(p) <= Len(wire[r])
      BY <1>0, <3>2 DEF Done, Position
    <3>8. \A j \in 1 .. Len(cmds) :
            OnWire(r)[cmds[j].msg] = feed[wire[r][cmds[j].msg]]
      <4> SUFFICES ASSUME NEW j \in 1 .. Len(cmds)
                   PROVE  OnWire(r)[cmds[j].msg] = feed[wire[r][cmds[j].msg]]
        OBVIOUS
      <4>1. cmds[j].msg \in Nat \ {0} /\ cmds[j].msg <= Done(p)
        BY <3>6
      <4>2. Len(wire[r]) \in Nat
        BY <1>0
      <4>3. cmds[j].msg \in 1 .. Len(wire[r])
        BY ONLY <3>7, <4>1, <4>2
      <4> QED BY <4>3 DEF OnWire
    <3>9. \A j \in 1 .. Len(cmds) : cmds[j].whole \/ feed[wire[r][cmds[j].msg]].px # NoPx
      BY <3>5, <3>8 DEF Ordered
    <3>10. \A i, j \in 1 .. Len(cmds) : i < j => cmds[i].msg < cmds[j].msg
      BY <3>5 DEF Ordered
    <3> QED BY <2>2, <3>2, <3>3, <3>4, <3>6, <3>9, <3>10 DEF Chunk, Done
  <2> QED BY <2>1, <2>2
<1>10. ASSUME NEW r \in Replicas, Execute(r)
       PROVE  Chunk(s)'
  <2>1. CASE s # r
    <3>1. UNCHANGED <<at[s], pending[s], link[s], wire[s], feed>>
      BY <1>0, <1>10, <2>1 DEF Execute, master, pipes
    <3> QED BY <3>1, ChunkStays
  <2>2. CASE s = r
    <3>1. pending[s] # <<>> /\ UNCHANGED <<at, pending, wire, feed>>
      BY <1>10, <2>2 DEF Execute, master, pipes
    <3> QED BY <3>1 DEF Chunk, Done, ChunkInOrder
  <2> QED BY <2>1, <2>2
<1>11. ASSUME NEW r \in Replicas, IncrementOffset(r)
       PROVE  Chunk(s)'
  <2>1. CASE s # r
    <3>1. UNCHANGED <<at[s], pending[s], link[s], wire[s], feed>>
      BY <1>0, <1>11, <2>1 DEF IncrementOffset, master, pipes
    <3> QED BY <3>1, ChunkStays
  <2>2. CASE s = r
    <3>1. /\ pending'[s] = Tail(pending[s]) /\ link'[s] = "reading"
          /\ UNCHANGED <<at, wire, feed>>
      BY <1>0, <1>11, <2>2 DEF IncrementOffset, master, pipes
    <3>2. pending[s] # <<>> /\ Chunk(s)
      BY <1>11, <2>2 DEF IncrementOffset, ChunkInOrder, Chunk
    <3>3. /\ Len(pending'[s]) = Len(pending[s]) - 1 /\ Len(pending[s]) \in Nat
          /\ \A j \in 1 .. Len(pending'[s]) : pending'[s][j] = pending[s][j + 1]
      BY <1>0, <3>1, <3>2
    <3>4. \A j \in 1 .. Len(pending'[s]) :
            /\ pending'[s][j].msg <= Done(at[s])
            /\ pending'[s][j].whole \/ feed[wire[s][pending'[s][j].msg]].px # NoPx
      <4> SUFFICES ASSUME NEW j \in 1 .. Len(pending'[s])
                   PROVE  /\ pending'[s][j].msg <= Done(at[s])
                          /\ pending'[s][j].whole
                               \/ feed[wire[s][pending'[s][j].msg]].px # NoPx
        OBVIOUS
      <4>1. j + 1 \in 1 .. Len(pending[s]) /\ pending'[s][j] = pending[s][j + 1]
        BY <3>3
      <4>2. /\ pending[s][j + 1].msg <= Done(at[s])
            /\ pending[s][j + 1].whole
                 \/ feed[wire[s][pending[s][j + 1].msg]].px # NoPx
        BY <3>2, <4>1 DEF Chunk
      <4> QED BY <4>1, <4>2
    <3>5. \A i, j \in 1 .. Len(pending'[s]) : i < j => pending'[s][i].msg < pending'[s][j].msg
      BY <3>2, <3>3, SMTT(60) DEF Chunk
    <3> QED BY <3>1, <3>2, <3>4, <3>5 DEF Chunk, Done
  <2> QED BY <2>1, <2>2
<1>12. ASSUME NEW r \in Replicas, LoadSnapshot(r)
       PROVE  Chunk(s)'
  BY <1>1, <1>12 DEF LoadSnapshot, master, pipes
<1>13. ASSUME NEW r \in Replicas, EndOfStream(r)
       PROVE  Chunk(s)'
  <2>1. link'[s] \in {link[s], "stopped"}
    BY <1>0, <1>13 DEF EndOfStream
  <2> QED BY <1>1, <1>13, <2>1 DEF EndOfStream, master, pipes
<1>14. CASE UNCHANGED vars
  BY <1>1, <1>14 DEF vars, master, pipes, replica
<1> QED BY <1>2, <1>3, <1>4, <1>5, <1>6, <1>7, <1>8, <1>9, <1>10, <1>11, <1>12, <1>13, <1>14
        DEF Next, PipeStep, LinkStep

-----------------------------------------------------------------------------
(* The frontier.                                                           *)

(* The frontier stays behind when the cursor, the wire and the position    *)
(* only move on.                                                           *)
LEMMA FrontierStays ==
  ASSUME TypeOK, ChunkInOrder, FrontierBehind, NEW s \in Replicas,
         UNCHANGED <<frontier[s], pending[s]>>,
         FirstLeft(s)' = FirstLeft(s),
         cursor'[s] \in Nat, cursor'[s] >= cursor[s],
         Done(at'[s]) \in Nat, Done(at'[s]) >= Done(at[s]),
         \/ wire'[s] = wire[s]
         \/ wire'[s] = Append(wire[s], cursor[s])
  PROVE  Frontier(s)'
<1>1. /\ wire[s] \in Seq(Nat \ {0}) /\ pending[s] \in Seq(Cmd) /\ at[s] \in Position
      /\ cursor[s] \in Nat \ {0} /\ frontier[s] \in Nat
  BY DEF TypeOK, Cmd
<1>2. Frontier(s)
  BY DEF FrontierBehind
<1>3. Done(at[s]) \in Nat
  <2>1. at[s][1] \in Nat \ {0}
    BY <1>1 DEF Position
  <2> QED BY <2>1 DEF Done
<1>4. frontier'[s] < cursor'[s]
  BY <1>1, <1>2 DEF Frontier
<1>5. /\ Len(wire[s]) \in Nat /\ Len(wire'[s]) \in {Len(wire[s]), Len(wire[s]) + 1}
      /\ \A i \in 1 .. Len(wire[s]) : wire'[s][i] = wire[s][i]
      /\ Len(wire'[s]) = Len(wire[s]) + 1 => wire'[s][Len(wire[s]) + 1] = cursor[s]
  BY <1>1
<1>6. \A i \in Done(at'[s]) + 1 .. Len(wire'[s]) : frontier'[s] < wire'[s][i]
  <2> SUFFICES ASSUME NEW i \in Done(at'[s]) + 1 .. Len(wire'[s])
               PROVE  frontier[s] < wire'[s][i]
    OBVIOUS
  <2>1. CASE i \in Done(at[s]) + 1 .. Len(wire[s])
    <3>1. frontier[s] < wire[s][i]
      BY <1>2, <2>1 DEF Frontier
    <3>2. i \in 1 .. Len(wire[s])
      BY <1>3, <1>5, <2>1
    <3> QED BY <1>5, <3>1, <3>2
  <2>2. CASE i = Len(wire[s]) + 1
    BY <1>2, <1>5, <2>2 DEF Frontier
  <2>3. i \in Nat /\ i >= Done(at[s]) + 1 /\ i <= Len(wire[s]) + 1
    BY <1>3, <1>5
  <2> QED BY <1>3, <1>5, <2>1, <2>2, <2>3
<1>7. FirstLeft(s) \in {1, 2}
  BY DEF FirstLeft
<1>8. \A j \in FirstLeft(s) .. Len(pending[s]) : frontier[s] < wire'[s][pending[s][j].msg]
  <2> SUFFICES ASSUME NEW j \in FirstLeft(s) .. Len(pending[s])
               PROVE  frontier[s] < wire'[s][pending[s][j].msg]
    OBVIOUS
  <2>1. j \in 1 .. Len(pending[s])
    BY <1>1, <1>7
  <2>2. pending[s][j].msg \in 1 .. Len(wire[s])
    BY <2>1, PendingType
  <2>3. frontier[s] < wire[s][pending[s][j].msg]
    BY <1>2 DEF Frontier
  <2> QED BY <1>5, <2>2, <2>3
<1>9. \A j \in FirstLeft(s)' .. Len(pending'[s]) :
        frontier'[s] < wire'[s][pending'[s][j].msg]
  BY <1>8
<1> QED BY <1>4, <1>6, <1>9 DEF Frontier, Done

LEMMA NextFrontier ==
  ASSUME TypeOK, TypeOK', WireInOrder, ChunkInOrder, FrontierBehind, [Next]_vars
  PROVE  FrontierBehind'
<1>0. /\ wire \in [Replicas -> Seq(Nat \ {0})]
      /\ pending \in [Replicas -> Seq(Cmd)]
      /\ at \in [Replicas -> Position] /\ at' \in [Replicas -> Position]
      /\ cursor \in [Replicas -> Nat \ {0}] /\ cursor' \in [Replicas -> Nat \ {0}]
      /\ frontier \in [Replicas -> Nat]
      /\ link \in [Replicas -> {"off", "syncing", "reading", "counting", "stopped"}]
      /\ feed \in Seq(Messages) /\ Len(feed) \in Nat
  BY DEF TypeOK, Cmd
<1> SUFFICES ASSUME NEW s \in Replicas
             PROVE  Frontier(s)'
  BY DEF FrontierBehind
<1>1. Done(at[s]) \in Nat /\ Done(at'[s]) \in Nat
  <2>1. at[s][1] \in Nat \ {0} /\ at'[s][1] \in Nat \ {0}
    BY <1>0 DEF Position
  <2> QED BY <2>1 DEF Done
<1>2. CASE /\ UNCHANGED <<frontier[s], pending[s], at[s]>>
           /\ link'[s] = "counting" <=> link[s] = "counting"
           /\ cursor'[s] >= cursor[s]
           /\ \/ wire'[s] = wire[s]
              \/ wire'[s] = Append(wire[s], cursor[s])
  <2>1. FirstLeft(s)' = FirstLeft(s)
    BY <1>2 DEF FirstLeft
  <2>2. cursor'[s] \in Nat
    BY <1>0
  <2> QED BY <1>1, <1>2, <2>1, <2>2, FrontierStays
<1>3. CASE UNCHANGED <<frontier, pending, at, cursor, wire, link>>
  BY <1>0, <1>2, <1>3
<1>4. CASE Publish \/ MasterEnds
  BY <1>3, <1>4 DEF Publish, MasterEnds, pipes, replica
<1>5. ASSUME NEW r \in Replicas, Psync(r)
      PROVE  Frontier(s)'
  <2>1. link[s] # "counting" \/ s # r
    BY <1>5 DEF Psync
  <2>2. UNCHANGED <<frontier, pending, at, cursor, wire>> /\ link' = [link EXCEPT ![r] = "syncing"]
    BY <1>5 DEF Psync
  <2>3. link'[s] = "counting" <=> link[s] = "counting"
    BY <1>0, <2>1, <2>2
  <2> QED BY <1>0, <1>2, <2>2, <2>3
<1>6. ASSUME NEW r \in Replicas, Subscribe(r)
      PROVE  Frontier(s)'
  <2>1. UNCHANGED <<frontier, pending, at, link, wire>> /\ cursor' = [cursor EXCEPT ![r] = Len(feed) + 1]
    BY <1>6 DEF Subscribe, SubscribeTo, replica
  <2>2. cursor'[s] >= cursor[s]
    BY <1>0, <2>1 DEF WireInOrder
  <2> QED BY <1>2, <2>1, <2>2
<1>7. ASSUME NEW r \in Replicas, CountIn(r)
      PROVE  Frontier(s)'
  BY <1>3, <1>7 DEF CountIn, replica
<1>8. ASSUME NEW r \in Replicas, Forward(r)
      PROVE  Frontier(s)'
  <2>1. /\ UNCHANGED <<frontier, pending, at, link>>
        /\ cursor' = [cursor EXCEPT ![r] = @ + 1]
        /\ wire' = [wire EXCEPT ![r] = IF link[r] = "stopped" THEN @ ELSE Append(@, cursor[r])]
    BY <1>8 DEF Forward, replica
  <2>2. cursor'[s] >= cursor[s]
    BY <1>0, <2>1
  <2>3. wire'[s] = wire[s] \/ wire'[s] = Append(wire[s], cursor[s])
    BY <1>0, <2>1
  <2> QED BY <1>2, <2>1, <2>2, <2>3
<1>9. ASSUME NEW r \in Replicas, Lag(r)
      PROVE  Frontier(s)'
  <2>1. /\ UNCHANGED <<frontier, pending, at, link, wire>>
        /\ cursor' = [cursor EXCEPT ![r] = Oldest]
        /\ cursor[r] < Oldest
    BY <1>9 DEF Lag
  <2>2. Oldest \in Nat
    BY <1>0, RingAssumption DEF Oldest
  <2>3. cursor'[s] >= cursor[s]
    BY <1>0, <2>1, <2>2
  <2> QED BY <1>2, <2>1, <2>3
<1>10. ASSUME NEW r \in Replicas, StartReading(r)
       PROVE  Frontier(s)'
  <2>1. PICK p \in Ahead(r) \cup {at[r]} : at' = [at EXCEPT ![r] = p]
    BY <1>10 DEF StartReading
  <2>2. /\ UNCHANGED <<frontier, pending, cursor, wire>>
        /\ link[r] = "syncing" /\ link' = [link EXCEPT ![r] = "reading"]
    BY <1>10 DEF StartReading, pipes
  <2>3. FirstLeft(s)' = FirstLeft(s)
    BY <1>0, <2>2 DEF FirstLeft
  <2>4. Done(at[r]) <= Done(p)
    <3>1. CASE p \in Ahead(r)
      BY <1>0, <3>1, AheadType, DoneGrows
    <3>2. CASE p = at[r]
      <4>1. at[r][1] \in Nat
        BY <1>0 DEF Position
      <4> QED BY <3>2, <4>1 DEF Done
    <3> QED BY <3>1, <3>2
  <2>5. Done(at'[s]) >= Done(at[s])
    <3>1. CASE s = r
      BY <1>0, <1>1, <2>1, <2>4, <3>1
    <3>2. CASE s # r
      BY <1>0, <1>1, <2>1, <3>2
    <3> QED BY <3>1, <3>2
  <2>6. cursor'[s] \in Nat /\ cursor'[s] >= cursor[s]
    BY <1>0, <2>2
  <2> QED BY <1>1, <2>2, <2>3, <2>5, <2>6, FrontierStays
<1>11. ASSUME NEW r \in Replicas, ReadChunk(r)
       PROVE  Frontier(s)'
  <2>1a. PICK p \in Ahead(r) : \E digest \in Digests(OnWire(r), at[r], p) :
          /\ at' = [at EXCEPT ![r] = p]
          /\ pending' = [pending EXCEPT ![r] = digest.cmds]
          /\ link' = [link EXCEPT ![r] = IF digest.fate = "panicked" THEN "stopped" ELSE @]
    BY <1>11 DEF ReadChunk
  <2>1. PICK digest \in Digests(OnWire(r), at[r], p) :
          /\ at' = [at EXCEPT ![r] = p]
          /\ pending' = [pending EXCEPT ![r] = digest.cmds]
          /\ link' = [link EXCEPT ![r] = IF digest.fate = "panicked" THEN "stopped" ELSE @]
    BY <2>1a
  <2>2. UNCHANGED <<frontier, cursor, wire>> /\ link[r] = "reading"
    BY <1>11 DEF ReadChunk, pipes
  <2>3. CASE s # r
    <3>1. UNCHANGED <<pending[s], at[s], link[s]>>
      BY <1>0, <2>1, <2>3
    <3> QED BY <1>0, <1>2, <2>2, <3>1
  <2>4. CASE s = r
    <3> DEFINE cmds == digest.cmds
    <3>1. Ordered(OnWire(r), cmds, Done(at[r]), Done(p))
      BY ChunkIsOrdered
    <3>2. /\ p \in Position /\ Later(p, at[r])
          /\ p[1] <= Len(wire[r]) + 1 /\ (p[1] = Len(wire[r]) + 1 => p[2] = Start)
      BY AheadType
    <3>3. Done(at[r]) <= Done(p) /\ Done(p) \in Nat /\ Done(at[r]) \in Nat
      BY <1>0, <3>2, DoneGrows
    <3>4. Done(p) <= Len(wire[r])
      BY <1>0, <3>2, SMTT(60) DEF Done, Position
    <3>5. pending'[r] = cmds /\ at'[r] = p /\ link'[r] # "counting"
      BY <1>0, <2>1, <2>2
    <3> HIDE DEF cmds
    <3>6. Frontier(r)
      BY DEF FrontierBehind
    <3>7. \A j \in 1 .. Len(cmds) : frontier[r] < wire[r][cmds[j].msg]
      <4> SUFFICES ASSUME NEW j \in 1 .. Len(cmds)
                   PROVE  frontier[r] < wire[r][cmds[j].msg]
        OBVIOUS
      <4>1. cmds[j] \in Cmd /\ Done(at[r]) < cmds[j].msg /\ cmds[j].msg <= Done(p)
        BY <3>1 DEF Ordered
      <4>2. cmds[j].msg \in Nat
        BY <4>1 DEF Cmd
      <4>3. Len(wire[r]) \in Nat
        BY <1>0
      <4> DEFINE x == cmds[j].msg
                 lo == Done(at[r])
                 hi == Done(p)
      <4>4. /\ x \in Nat /\ lo \in Nat /\ hi \in Nat
            /\ lo < x /\ x <= hi /\ hi <= Len(wire[r])
        BY <3>3, <3>4, <4>1, <4>2
      <4> HIDE DEF x, lo, hi
      <4>5. x \in lo + 1 .. Len(wire[r])
        BY <4>3, <4>4
      <4> QED BY <3>6, <4>5 DEF Frontier, x, lo
    <3>8. \A i \in Done(p) + 1 .. Len(wire[r]) : frontier[r] < wire[r][i]
      <4>1. \A i \in Done(p) + 1 .. Len(wire[r]) : i \in Done(at[r]) + 1 .. Len(wire[r])
        BY <1>0, <3>3
      <4> QED BY <3>6, <4>1 DEF Frontier
    <3>9. frontier[r] < cursor[r]
      BY <3>6 DEF Frontier
    <3>10. FirstLeft(r)' = 1
      BY <3>5 DEF FirstLeft
    <3> QED BY <2>2, <2>4, <3>5, <3>7, <3>8, <3>9, <3>10 DEF Frontier, Done
  <2> QED BY <2>3, <2>4
<1>12. ASSUME NEW r \in Replicas, Execute(r)
       PROVE  Frontier(s)'
  <2>1. UNCHANGED <<pending, at, cursor, wire>> /\ link' = [link EXCEPT ![r] = "counting"]
    BY <1>12 DEF Execute, pipes
  <2>2. /\ 1 \in 1 .. Len(pending[r])
        /\ frontier' = [frontier EXCEPT ![r] = wire[r][pending[r][1].msg]]
    BY <1>12, ExecutedSet
  <2>3. CASE s # r
    <3>1. UNCHANGED <<frontier[s], link[s]>>
      BY <1>0, <2>1, <2>2, <2>3
    <3> QED BY <1>0, <1>2, <2>1, <3>1
  <2>4. CASE s = r
    <3> DEFINE k == pending[r][1].msg
    <3>1. k \in 1 .. Len(wire[r]) /\ k \in Nat
      BY <2>2, PendingType DEF Cmd
    <3>2. frontier'[r] = wire[r][k]
      BY <1>0, <2>2
    <3>3. Chunk(r)
      BY DEF ChunkInOrder
    <3>4. k <= Done(at[r])
      BY <2>2, <3>3 DEF Chunk
    <3>5. \A j \in 2 .. Len(pending[r]) :
            pending[r][j].msg \in 1 .. Len(wire[r]) /\ k < pending[r][j].msg
      <4> SUFFICES ASSUME NEW j \in 2 .. Len(pending[r])
                   PROVE  pending[r][j].msg \in 1 .. Len(wire[r]) /\ k < pending[r][j].msg
        OBVIOUS
      <4>1. j \in 1 .. Len(pending[r]) /\ 1 < j
        OBVIOUS
      <4>2. pending[r][j].msg \in 1 .. Len(wire[r])
        BY <4>1, PendingType
      <4>3. k < pending[r][j].msg
        BY <2>2, <3>3, <4>1 DEF Chunk
      <4> QED BY <4>2, <4>3
    <3> HIDE DEF k
    <3>6. /\ \A i \in 1 .. Len(wire[r]) : wire[r][i] < cursor[r]
          /\ \A i, j \in 1 .. Len(wire[r]) : i < j => wire[r][i] < wire[r][j]
      BY DEF WireInOrder
    <3>7. frontier'[r] < cursor'[r]
      BY <2>1, <3>1, <3>2, <3>6
    <3>8. \A j \in 2 .. Len(pending[r]) : frontier'[r] < wire[r][pending[r][j].msg]
      BY <3>1, <3>2, <3>5, <3>6
    <3>9. \A i \in Done(at[r]) + 1 .. Len(wire[r]) : frontier'[r] < wire[r][i]
      <4>1. Done(at[r]) \in Nat
        BY <1>1, <2>4
      <4> QED BY <1>0, <3>1, <3>2, <3>4, <3>6, <4>1
    <3>10. FirstLeft(r)' = 2
      BY <1>0, <2>1 DEF FirstLeft
    <3> QED BY <2>1, <2>4, <3>7, <3>8, <3>9, <3>10 DEF Frontier, Done
  <2> QED BY <2>3, <2>4
<1>13. ASSUME NEW r \in Replicas, IncrementOffset(r)
       PROVE  Frontier(s)'
  <2>1. /\ UNCHANGED <<frontier, at, cursor, wire>>
        /\ link[r] = "counting" /\ link' = [link EXCEPT ![r] = "reading"]
        /\ pending' = [pending EXCEPT ![r] = Tail(@)]
    BY <1>13 DEF IncrementOffset, pipes
  <2>2. CASE s # r
    <3>1. UNCHANGED <<pending[s], link[s]>>
      BY <1>0, <2>1, <2>2
    <3> QED BY <1>0, <1>2, <2>1, <3>1
  <2>3. CASE s = r
    <3>1. pending[r] # <<>> /\ pending'[r] = Tail(pending[r]) /\ pending[r] \in Seq(Cmd)
      BY <1>0, <2>1 DEF ChunkInOrder, Chunk
    <3>2. /\ Len(pending'[r]) = Len(pending[r]) - 1 /\ Len(pending[r]) \in Nat
          /\ \A j \in 1 .. Len(pending'[r]) : pending'[r][j] = pending[r][j + 1]
      BY <3>1
    <3>3. FirstLeft(r) = 2 /\ FirstLeft(r)' = 1
      BY <1>0, <2>1 DEF FirstLeft
    <3>4. Frontier(r)
      BY DEF FrontierBehind
    <3>5. \A j \in 1 .. Len(pending'[r]) : frontier[r] < wire[r][pending'[r][j].msg]
      <4> SUFFICES ASSUME NEW j \in 1 .. Len(pending'[r])
                   PROVE  frontier[r] < wire[r][pending'[r][j].msg]
        OBVIOUS
      <4>1. j + 1 \in FirstLeft(r) .. Len(pending[r]) /\ pending'[r][j] = pending[r][j + 1]
        BY <3>2, <3>3
      <4> QED BY <3>4, <4>1 DEF Frontier
    <3> QED BY <2>1, <2>3, <3>3, <3>4, <3>5 DEF Frontier, Done
  <2> QED BY <2>2, <2>3
<1>14. ASSUME NEW r \in Replicas, LoadSnapshot(r)
       PROVE  Frontier(s)'
  BY <1>3, <1>14 DEF LoadSnapshot, pipes
<1>15. ASSUME NEW r \in Replicas, EndOfStream(r)
       PROVE  Frontier(s)'
  <2>1. /\ UNCHANGED <<frontier, pending, at, cursor, wire>>
        /\ link[r] = "reading" /\ link' = [link EXCEPT ![r] = "stopped"]
    BY <1>15 DEF EndOfStream, pipes
  <2>2. link'[s] = "counting" <=> link[s] = "counting"
    BY <1>0, <2>1
  <2> QED BY <1>0, <1>2, <2>1, <2>2
<1>16. CASE UNCHANGED vars
  BY <1>3, <1>16 DEF vars, pipes, replica
<1> QED BY <1>4, <1>5, <1>6, <1>7, <1>8, <1>9, <1>10, <1>11, <1>12, <1>13, <1>14, <1>15,
           <1>16 DEF Next, PipeStep, LinkStep

LEMMA InitInOrder == Init => InOrder
<1> SUFFICES ASSUME Init PROVE InOrder
  OBVIOUS
<1>1. TypeOK
  BY InitType
<1>2. WireInOrder
  BY DEF Init, WireInOrder
<1>3. ASSUME NEW r \in Replicas
      PROVE  Chunk(r) /\ Frontier(r)
  <2>1. /\ wire[r] = <<>> /\ pending[r] = <<>> /\ link[r] = "off"
        /\ at[r] = <<1, Start>> /\ cursor[r] = 1 /\ frontier[r] = 0
    BY DEF Init, Begin
  <2>2. at[r][1] = 1 /\ at[r][2] = Start /\ Done(at[r]) = 0
    BY <2>1 DEF Done
  <2> QED BY <2>1, <2>2 DEF Chunk, Frontier, FirstLeft
<1> QED BY <1>1, <1>2, <1>3 DEF InOrder, ChunkInOrder, FrontierBehind

(* src/main.rs:429-447 and 252-297: for any number of replicas, any ring   *)
(* and any way TCP cuts the stream, a pipe writes a part of the feed in    *)
(* the order of the feed, and all that a replica has still to execute is   *)
(* behind, in the feed, what it has executed.                              *)
THEOREM Ordering == Spec => []InOrder
<1>1. Init => InOrder
  BY InitInOrder
<1>2. InOrder /\ [Next]_vars => InOrder'
  BY NextType, NextWire, NextChunk, NextFrontier DEF InOrder
<1> QED BY <1>1, <1>2, PTL DEF Spec

(* src/main.rs:205-311 and 411-447: the state of the pipes and of the      *)
(* links keeps its types; in particular every command of a chunk is one of *)
(* a message on the wire.                                                  *)
THEOREM ReplicationTypeCorrect == Spec => []TypeOK
<1>1. InOrder => TypeOK
  BY DEF InOrder
<1> QED BY <1>1, Ordering, PTL

-----------------------------------------------------------------------------
(* Replication implements Relay.                                           *)

LEMMA InitRelay == Init => Relay!Init
BY DEF Init, Relay!Init

LEMMA NextRelay ==
  ASSUME InOrder, [Next]_vars
  PROVE  [Relay!Next]_(Relay!vars)
<1>1. CASE UNCHANGED <<feed, store, frontier>>
  BY <1>1 DEF Relay!vars
<1>2. CASE Publish
  BY <1>2 DEF Publish, replica, Relay!Publish, Relay!Next
<1>3. ASSUME NEW r \in Replicas, Execute(r)
      PROVE  Relay!Next
  <2>1. PICK set \in Cmd :
          /\ set = [msg |-> wire[r][pending[r][1].msg], whole |-> pending[r][1].whole]
          /\ store' = [store EXCEPT ![r] = Append(@, set)]
          /\ frontier' = [frontier EXCEPT ![r] = set.msg]
    BY <1>3, ExecutedSet DEF InOrder
  <2>2. 1 \in 1 .. Len(pending[r]) /\ pending[r][1].msg \in 1 .. Len(wire[r])
    BY <1>3, ExecutedSet, PendingType DEF InOrder
  <2>3. FirstLeft(r) = 1 /\ feed' = feed
    BY <1>3 DEF Execute, FirstLeft, master
  <2>4. frontier[r] < wire[r][pending[r][1].msg]
    BY <2>2, <2>3 DEF InOrder, FrontierBehind, Frontier
  <2>5. wire[r][pending[r][1].msg] < cursor[r] /\ cursor[r] <= Len(feed) + 1
    BY <2>2 DEF InOrder, WireInOrder
  <2>6. pending[r][1].whole \/ feed[wire[r][pending[r][1].msg]].px # NoPx
    BY <2>2 DEF InOrder, ChunkInOrder, Chunk
  <2>7. /\ set.msg = wire[r][pending[r][1].msg] /\ set.whole = pending[r][1].whole
        /\ set.msg \in Nat /\ set.whole \in BOOLEAN
        /\ set = [msg |-> set.msg, whole |-> set.whole]
    BY <2>1 DEF Cmd
  <2>8. frontier[r] \in Nat /\ cursor[r] \in Nat /\ Len(feed) \in Nat
    BY DEF InOrder, TypeOK
  <2>9. set.msg \in frontier[r] + 1 .. Len(feed)
    BY <2>4, <2>5, <2>7, <2>8
  <2>10. set.whole \/ feed[set.msg].px # NoPx
    BY <2>6, <2>7
  <2>11. store' = [store EXCEPT ![r] = Append(@, [msg |-> set.msg, whole |-> set.whole])]
    BY <2>1, <2>7
  <2>12. Relay!Execute(r)
    BY <2>1, <2>3, <2>7, <2>9, <2>10, <2>11 DEF Relay!Execute
  <2> QED BY <2>12 DEF Relay!Next
<1>4. ASSUME NEW r \in Replicas, LoadSnapshot(r)
      PROVE  Relay!Next
  BY <1>4 DEF LoadSnapshot, master, Relay!Reload, Relay!Next
<1>5. CASE MasterEnds
  BY <1>1, <1>5 DEF MasterEnds, replica
<1>6. ASSUME NEW r \in Replicas, Psync(r) \/ PipeStep(r)
      PROVE  UNCHANGED <<feed, store, frontier>>
  BY <1>6 DEF Psync, PipeStep, Subscribe, SubscribeTo, CountIn, Forward, Lag, master, replica
<1>7. ASSUME NEW r \in Replicas,
             StartReading(r) \/ ReadChunk(r) \/ IncrementOffset(r) \/ EndOfStream(r)
      PROVE  UNCHANGED <<feed, store, frontier>>
  BY <1>7 DEF StartReading, ReadChunk, IncrementOffset, EndOfStream, master
<1>8. CASE UNCHANGED vars
  BY <1>1, <1>8 DEF vars, master, replica
<1> QED BY <1>1, <1>2, <1>3, <1>4, <1>5, <1>6, <1>7, <1>8 DEF Next, LinkStep, Relay!Next

(* src/main.rs:252-311 and 429-447: whatever a pipe loses, TCP cuts and a  *)
(* snapshot replaces, a replica only ever executes SETs of the master's    *)
(* feed, in the order of the feed and none twice, and changes nothing in   *)
(* them but that a deadline may get lost.                                  *)
THEOREM Refinement == Spec => RelaySpec
<1>1. Init => Relay!Init
  BY InitRelay
<1>2. InOrder /\ [Next]_vars => [Relay!Next]_(Relay!vars)
  BY NextRelay
<1> QED BY <1>1, <1>2, Ordering, PTL DEF Spec, RelaySpec, Relay!Spec

-----------------------------------------------------------------------------
(***************************************************************************)
(* As long as nothing goes wrong, replication loses nothing: Gapless, for  *)
(* every set of replicas, every ring and every place where TCP may cut.    *)
(*                                                                         *)
(* While a replica is calm, its offset is the place on the wire where the  *)
(* SETs still to be counted start (Lossless): before it lies what has been *)
(* executed, behind it what the last chunk left over, then what has not    *)
(* been read; and the wire itself is the feed since the subscription.      *)
(***************************************************************************)

InHand(r) == IF link[r] = "counting" THEN 1 ELSE 0
Lossless(r) ==
  /\ at[r][2] = Start
  /\ up => link[r] # "stopped"
  /\ pipe[r] \in {"piped", "pipe"} =>
       /\ Len(wire[r]) = cursor[r] - 1 - joinedAt[r]
       /\ \A i \in 1 .. Len(wire[r]) : wire[r][i] = joinedAt[r] + i
  /\ offset[r] + Len(pending[r]) = at[r][1] - 1
  /\ \A j \in 1 .. Len(pending[r]) : pending[r][j] = [msg |-> offset[r] + j, whole |-> TRUE]
  /\ Len(store[r]) = offset[r] + InHand(r)
  /\ \A j \in 1 .. Len(store[r]) : store[r][j] = [msg |-> wire[r][j], whole |-> TRUE]

NothingLost == InOrder /\ \A r \in Replicas : calm[r] => Lossless(r)

-----------------------------------------------------------------------------
(* A chunk from the start of one message to the start of another is        *)
(* understood in full.                                                     *)
LEMMA WholeChunk ==
  ASSUME NEW text, NEW i \in Nat \ {0}, NEW k \in Nat \ {0}
  PROVE  Digest(text, <<i, Start>>, <<k, Start>>) = Read(Whole(i, k - 1) \o <<>>)
<1>1. ~ Refusing(Start) /\ ~ Panicking(Start) /\ Start # Star /\ Remnant(text, k, Start) = <<>>
  BY DEF Refusing, Panicking, Star, Start, Remnant
<1> QED BY <1>1 DEF Digest, FromStart, UpTo

(* A task's step leaves the others alone, and calm is not regained.        *)
Same(r) ==
  /\ at'[r] = at[r] /\ link'[r] = link[r] /\ pipe'[r] = pipe[r] /\ wire'[r] = wire[r]
  /\ cursor'[r] = cursor[r] /\ joinedAt'[r] = joinedAt[r] /\ offset'[r] = offset[r]
  /\ pending'[r] = pending[r] /\ store'[r] = store[r] /\ calm'[r] = calm[r]

LEMMA SameKeeps ==
  ASSUME NEW r \in Replicas, Same(r), up' => up, calm[r] => Lossless(r), calm'[r]
  PROVE  Lossless(r)'
BY DEF Same, Lossless, InHand

LEMMA StepOfOne ==
  ASSUME TypeOK, NEW r \in Replicas, Psync(r) \/ PipeStep(r) \/ LinkStep(r) \/ LoadSnapshot(r)
  PROVE  up' = up /\ \A d \in Replicas : d # r => Same(d)
BY SMTT(60) DEF Psync, PipeStep, LinkStep, LoadSnapshot, Subscribe, SubscribeTo, CountIn, Forward, Lag,
       StartReading, ReadChunk, Execute, IncrementOffset, EndOfStream, master, pipes, replica,
       Same, TypeOK

-----------------------------------------------------------------------------
(* The master's side of one replica.                                       *)
LEMMA PipeKeeps ==
  ASSUME InOrder, NEW r \in Replicas, calm[r] => Lossless(r), Psync(r) \/ PipeStep(r), calm'[r]
  PROVE  Lossless(r)'
<1>1. /\ TypeOK /\ wire[r] \in Seq(Nat \ {0}) /\ cursor[r] \in Nat \ {0} /\ joinedAt[r] \in Nat
      /\ store[r] \in Seq(Cmd) /\ at[r] \in Position
  BY DEF InOrder, TypeOK, Cmd
<1>2. UNCHANGED <<up, at, offset, pending, store>>
  BY DEF Psync, PipeStep, Subscribe, SubscribeTo, CountIn, Forward, Lag, master, replica
<1>3. CASE Psync(r)
  <2>1. /\ pipe'[r] = "sync" /\ link[r] = "off" /\ link'[r] = "syncing"
        /\ UNCHANGED <<wire, calm>>
    BY <1>1, <1>3 DEF Psync, TypeOK
  <2> QED BY <1>2, <2>1 DEF Lossless, InHand
<1>4. CASE Subscribe(r)
  <2>1. /\ pipe[r] = "sync" /\ cursor'[r] = Len(feed) + 1 /\ joinedAt'[r] = Len(feed)
        /\ UNCHANGED <<wire, calm, link>>
    BY <1>1, <1>4 DEF Subscribe, SubscribeTo, replica, TypeOK
  <2>2. wire[r] = <<>> /\ Len(feed) \in Nat
    BY <1>1, <2>1 DEF InOrder, WireInOrder, TypeOK
  <2> QED BY <1>2, <2>1, <2>2 DEF Lossless, InHand
<1>5. CASE CountIn(r)
  <2>1. pipe[r] = "piped" /\ UNCHANGED <<wire, calm, link, cursor, joinedAt>>
    BY <1>5 DEF CountIn, replica
  <2> QED BY <1>2, <2>1 DEF Lossless, InHand
<1>6. CASE Forward(r)
  <2>1. up /\ pipe[r] = "pipe" /\ UNCHANGED <<pipe, calm, link, joinedAt>>
    BY <1>6 DEF Forward, replica
  <2>2. Lossless(r) /\ link[r] # "stopped"
    BY <2>1 DEF Lossless
  <2>3. cursor'[r] = cursor[r] + 1 /\ wire'[r] = Append(wire[r], cursor[r])
    BY <1>1, <1>6, <2>2 DEF Forward, TypeOK
  <2>4. /\ Len(wire'[r]) = Len(wire[r]) + 1
        /\ \A i \in 1 .. Len(wire[r]) : wire'[r][i] = wire[r][i]
        /\ wire'[r][Len(wire[r]) + 1] = cursor[r]
    BY <1>1, <2>3
  <2>5. /\ Len(wire[r]) = cursor[r] - 1 - joinedAt[r] /\ joinedAt'[r] = joinedAt[r]
        /\ Len(wire[r]) \in Nat
        /\ \A i \in 1 .. Len(wire[r]) : wire[r][i] = joinedAt[r] + i
    BY <1>1, <2>1, <2>2 DEF Lossless
  <2>6. Len(wire'[r]) = cursor'[r] - 1 - joinedAt'[r]
    BY <1>1, <2>3, <2>4, <2>5
  <2>8. ASSUME NEW i \in 1 .. Len(wire'[r]) PROVE wire'[r][i] = joinedAt'[r] + i
    <3>1. CASE i = Len(wire[r]) + 1
      BY <1>1, <2>4, <2>5, <3>1
    <3>2. CASE i # Len(wire[r]) + 1
      <4>1. i \in 1 .. Len(wire[r])
        BY <2>4, <2>5, <3>2
      <4> QED BY <2>4, <2>5, <4>1
    <3> QED BY <3>1, <3>2
  <2>7. ASSUME NEW j \in 1 .. Len(store[r])
        PROVE  store[r][j] = [msg |-> wire'[r][j], whole |-> TRUE]
    <3>1. j \in 1 .. Len(wire[r])
      <4>1. Len(store[r]) <= Len(wire[r])
        <5>1. InHand(r) <= Len(pending[r])
          BY <1>1 DEF InHand, InOrder, TypeOK, ChunkInOrder, Chunk
        <5>2. /\ at[r][1] <= Len(wire[r]) + 1 /\ at[r][1] \in Nat
              /\ offset[r] \in Nat /\ Len(pending[r]) \in Nat /\ InHand(r) \in Nat
          BY <1>1 DEF InHand, InOrder, TypeOK, ChunkInOrder, Chunk, Position
        <5>3. /\ Len(store[r]) = offset[r] + InHand(r)
              /\ offset[r] + Len(pending[r]) = at[r][1] - 1
          BY <2>2 DEF Lossless
        <5>4. Len(wire[r]) \in Nat
          BY <2>5
        <5> QED BY ONLY <5>1, <5>2, <5>3, <5>4, SMTT(60)
      <4> QED BY <1>1, <4>1
    <3> QED BY <2>2, <2>4, <3>1 DEF Lossless
  <2> QED BY <1>2, <2>1, <2>2, <2>6, <2>7, <2>8 DEF Lossless, InHand
<1>7. CASE Lag(r)
  BY <1>1, <1>7 DEF Lag, TypeOK
<1> QED BY <1>3, <1>4, <1>5, <1>6, <1>7 DEF PipeStep

-----------------------------------------------------------------------------
(* The replica's side.                                                     *)
LEMMA StartReadingKeeps ==
  ASSUME InOrder, NEW r \in Replicas, calm[r] => Lossless(r), StartReading(r), calm'[r]
  PROVE  Lossless(r)'
<1>1. TypeOK /\ at[r] \in Position
  BY DEF InOrder, TypeOK
<1>2. PICK p \in Ahead(r) \cup {at[r]} :
        at'[r] = p /\ p = Begin /\ calm[r]
  BY <1>1 DEF StartReading, TypeOK
<1>3. p = at[r]
  <2>1. ~ Later(Begin, at[r])
    <3>1. PICK n \in Nat \ {0}, e \in Point : at[r] = <<n, e>>
      BY <1>1 DEF Position
    <3>2. e[1] \in Nat /\ e[2] \in Nat
      BY PointType
    <3> QED BY <3>1, <3>2 DEF Later, Begin, Start
  <2> QED BY <1>1, <1>2, <2>1, AheadType
<1>4. /\ link[r] = "syncing" /\ link'[r] = "reading"
      /\ UNCHANGED <<up, pipe, wire, cursor, joinedAt, offset, pending, store>>
  BY <1>1 DEF StartReading, TypeOK, master, pipes
<1> QED BY <1>2, <1>3, <1>4 DEF Lossless, InHand

LEMMA ReadChunkKeeps ==
  ASSUME InOrder, NEW r \in Replicas, calm[r] => Lossless(r), ReadChunk(r), calm'[r]
  PROVE  Lossless(r)'
<1>1. TypeOK
  BY DEF InOrder
<1>2. /\ pending[r] = <<>> /\ link[r] = "reading"
      /\ UNCHANGED <<up, pipe, wire, cursor, joinedAt, offset, store>>
  BY DEF ReadChunk, master, pipes
<1>3a. PICK p \in Ahead(r) : \E digest \in Digests(OnWire(r), at[r], p) :
         /\ at' = [at EXCEPT ![r] = p]
         /\ pending' = [pending EXCEPT ![r] = digest.cmds]
         /\ link' = [link EXCEPT ![r] = IF digest.fate = "panicked" THEN "stopped" ELSE @]
         /\ calm' = [calm EXCEPT ![r] = @ /\ p[2] = Start /\ ~ Starred(OnWire(r), at[r], p)]
  BY DEF ReadChunk
<1>3b. PICK digest \in Digests(OnWire(r), at[r], p) :
         /\ at' = [at EXCEPT ![r] = p]
         /\ pending' = [pending EXCEPT ![r] = digest.cmds]
         /\ link' = [link EXCEPT ![r] = IF digest.fate = "panicked" THEN "stopped" ELSE @]
         /\ calm' = [calm EXCEPT ![r] = @ /\ p[2] = Start /\ ~ Starred(OnWire(r), at[r], p)]
  BY <1>3a
<1>3. /\ at'[r] = p
      /\ pending'[r] = digest.cmds
      /\ link'[r] = IF digest.fate = "panicked" THEN "stopped" ELSE link[r]
      /\ calm[r] /\ p[2] = Start /\ ~ Starred(OnWire(r), at[r], p)
  <2>1. /\ DOMAIN at = Replicas /\ DOMAIN pending = Replicas
        /\ DOMAIN link = Replicas /\ DOMAIN calm = Replicas
    BY <1>1 DEF TypeOK
  <2> DEFINE starred == Starred(OnWire(r), at[r], p)
  <2>2. calm'[r] = (calm[r] /\ p[2] = Start /\ ~ starred)
    <3> HIDE DEF starred
    <3> QED BY <1>3b, <2>1 DEF starred
  <2> QED BY <1>3b, <2>1, <2>2
<1> DEFINE i == at[r][1]
           k == p[1]
<1>4. Lossless(r)
  BY <1>3
<1>5. /\ i \in Nat \ {0} /\ k \in Nat \ {0} /\ i <= k
      /\ at[r] = <<i, Start>> /\ p = <<k, Start>>
  <2>1. Piece(OnWire(r), at[r], p)
    BY <1>1, AheadType DEF Piece, TypeOK
  <2> QED BY <1>3, <1>4, <2>1, PieceType DEF Lossless
<1> HIDE DEF i, k
<1>6. /\ Whole(i, k - 1) \in Seq(Cmd) /\ Len(Whole(i, k - 1)) = k - i
      /\ \A j \in 1 .. k - i : Whole(i, k - 1)[j] = [msg |-> i + j - 1, whole |-> TRUE]
  BY <1>5, WholeType
<1>7. Whole(i, k - 1) \o <<>> = Whole(i, k - 1)
  BY <1>6
<1>8. digest = Read(Whole(i, k - 1))
  <2>1. digest = Digest(OnWire(r), at[r], p)
    BY <1>3 DEF Digests
  <2> QED BY <1>5, <1>7, <2>1, WholeChunk
<1>9. pending'[r] = Whole(i, k - 1) /\ link'[r] = "reading"
  BY <1>2, <1>3, <1>8 DEF Read
<1>10. offset[r] \in Nat /\ offset[r] = i - 1
  BY <1>1, <1>2, <1>4, <1>5 DEF Lossless, TypeOK, i
<1>11. offset'[r] + Len(pending'[r]) = at'[r][1] - 1
  BY <1>2, <1>3, <1>5, <1>6, <1>9, <1>10
<1>12. \A j \in 1 .. Len(pending'[r]) : pending'[r][j] = [msg |-> offset'[r] + j, whole |-> TRUE]
  <2> SUFFICES ASSUME NEW j \in 1 .. k - i
               PROVE  Whole(i, k - 1)[j] = [msg |-> offset[r] + j, whole |-> TRUE]
    BY <1>2, <1>6, <1>9
  <2>1. i + j - 1 = offset[r] + j
    BY <1>5, <1>10
  <2> QED BY <1>6, <2>1
<1> QED BY <1>2, <1>3, <1>4, <1>9, <1>11, <1>12 DEF Lossless, InHand

LEMMA ExecuteKeeps ==
  ASSUME InOrder, NEW r \in Replicas, calm[r] => Lossless(r), Execute(r), calm'[r]
  PROVE  Lossless(r)'
<1>1. /\ TypeOK /\ ChunkInOrder /\ store[r] \in Seq(Cmd) /\ offset[r] \in Nat
      /\ pending[r] \in Seq(Cmd)
  BY DEF InOrder, TypeOK, Cmd
<1>2. /\ link[r] = "reading" /\ link'[r] = "counting" /\ calm[r]
      /\ UNCHANGED <<up, pipe, wire, cursor, joinedAt, offset, at, pending>>
  BY <1>1 DEF Execute, TypeOK, master, pipes
<1>3. Lossless(r)
  BY <1>2
<1>4. PICK set \in Cmd :
        /\ set = [msg |-> wire[r][pending[r][1].msg], whole |-> pending[r][1].whole]
        /\ store' = [store EXCEPT ![r] = Append(@, set)]
  BY <1>1, ExecutedSet
<1>5. 1 \in 1 .. Len(pending[r])
  BY <1>1, ExecutedSet
<1>6. set = [msg |-> wire[r][offset[r] + 1], whole |-> TRUE]
  <2>1. pending[r][1] = [msg |-> offset[r] + 1, whole |-> TRUE]
    BY <1>3, <1>5 DEF Lossless
  <2>2. pending[r][1].msg = offset[r] + 1 /\ pending[r][1].whole = TRUE
    BY <2>1
  <2> QED BY <1>4, <2>2
<1>7. store'[r] = Append(store[r], set) /\ Len(store[r]) = offset[r]
  BY <1>1, <1>2, <1>3, <1>4 DEF Lossless, InHand, TypeOK
<1>8. /\ Len(store'[r]) = offset[r] + 1
      /\ \A j \in 1 .. offset[r] : store'[r][j] = store[r][j]
      /\ store'[r][offset[r] + 1] = set
  BY <1>1, <1>7
<1>9. ASSUME NEW j \in 1 .. Len(store'[r])
      PROVE  store'[r][j] = [msg |-> wire[r][j], whole |-> TRUE]
  <2>1. CASE j = offset[r] + 1
    BY <1>6, <1>8, <2>1
  <2>2. CASE j # offset[r] + 1
    <3>1. j \in 1 .. offset[r]
      BY <1>1, <1>8, <2>2
    <3> QED BY <1>3, <1>7, <1>8, <3>1 DEF Lossless
  <2> QED BY <2>1, <2>2
<1> QED BY <1>2, <1>3, <1>8, <1>9 DEF Lossless, InHand

LEMMA IncrementOffsetKeeps ==
  ASSUME InOrder, NEW r \in Replicas, calm[r] => Lossless(r), IncrementOffset(r), calm'[r]
  PROVE  Lossless(r)'
<1>1. /\ TypeOK /\ offset[r] \in Nat /\ pending[r] \in Seq(Cmd)
  BY DEF InOrder, TypeOK, Cmd
<1>2. /\ link[r] = "counting" /\ link'[r] = "reading" /\ calm[r]
      /\ pending'[r] = Tail(pending[r]) /\ offset'[r] = offset[r] + 1
      /\ UNCHANGED <<up, pipe, wire, cursor, joinedAt, at, store>>
  BY <1>1 DEF IncrementOffset, TypeOK, master, pipes
<1>3. Lossless(r) /\ pending[r] # <<>>
  BY <1>2 DEF InOrder, ChunkInOrder, Chunk
<1>4. /\ Len(pending'[r]) = Len(pending[r]) - 1
      /\ \A j \in 1 .. Len(pending'[r]) :
           j + 1 \in 1 .. Len(pending[r]) /\ pending'[r][j] = pending[r][j + 1]
  BY <1>1, <1>2, <1>3
<1>5. ASSUME NEW j \in 1 .. Len(pending'[r])
      PROVE  pending'[r][j] = [msg |-> offset'[r] + j, whole |-> TRUE]
  <2>1. pending[r][j + 1] = [msg |-> offset[r] + (j + 1), whole |-> TRUE]
    BY <1>3, <1>4 DEF Lossless
  <2>2. offset[r] + (j + 1) = offset'[r] + j
    <3>1. offset[r] \in Nat /\ offset'[r] = offset[r] + 1 /\ j \in Int
      BY <1>1, <1>2
    <3> QED BY ONLY <3>1
  <2> QED BY <1>4, <2>1, <2>2
<1>6. offset'[r] + Len(pending'[r]) = at[r][1] - 1
  <2>1. Len(pending[r]) \in Nat
    BY <1>1
  <2> QED BY <1>1, <1>2, <1>3, <1>4, <2>1 DEF Lossless
<1>7. Len(store'[r]) = offset'[r] + InHand(r)'
  <2>1. Len(store[r]) = offset[r] + 1
    BY <1>2, <1>3 DEF Lossless, InHand
  <2>2. InHand(r)' = 0
    BY <1>2 DEF InHand
  <2> QED BY <1>1, <1>2, <2>1, <2>2
<1>8. /\ at'[r][2] = Start
      /\ \A j \in 1 .. Len(store'[r]) : store'[r][j] = [msg |-> wire'[r][j], whole |-> TRUE]
      /\ pipe'[r] \in {"piped", "pipe"} =>
           /\ Len(wire'[r]) = cursor'[r] - 1 - joinedAt'[r]
           /\ \A i \in 1 .. Len(wire'[r]) : wire'[r][i] = joinedAt'[r] + i
  BY <1>2, <1>3 DEF Lossless
<1>9. offset'[r] + Len(pending'[r]) = at'[r][1] - 1
  BY <1>2, <1>6
<1> QED BY <1>2, <1>5, <1>7, <1>8, <1>9 DEF Lossless

LEMMA EndKeeps ==
  ASSUME InOrder, NEW r \in Replicas, calm[r] => Lossless(r),
         LoadSnapshot(r) \/ EndOfStream(r), calm'[r]
  PROVE  Lossless(r)'
<1>1. TypeOK
  BY DEF InOrder
<1>2. CASE LoadSnapshot(r)
  <2>1. /\ calm[r] /\ store[r] = <<>> /\ store'[r] = <<>>
        /\ UNCHANGED <<up, pipe, wire, cursor, joinedAt, offset, at, pending, link>>
    BY <1>1, <1>2 DEF LoadSnapshot, TypeOK, master, pipes
  <2> QED BY <2>1 DEF Lossless, InHand
<1>3. CASE EndOfStream(r)
  <2>1. /\ calm[r] /\ ~ up /\ link[r] = "reading" /\ link'[r] = "stopped"
        /\ UNCHANGED <<up, pipe, wire, cursor, joinedAt, offset, at, pending, store>>
    BY <1>1, <1>3 DEF EndOfStream, TypeOK, master, pipes
  <2> QED BY <2>1 DEF Lossless, InHand
<1> QED BY <1>2, <1>3

LEMMA NothingLostStep == NothingLost /\ [Next]_vars => NothingLost'
<1> SUFFICES ASSUME NothingLost, [Next]_vars PROVE NothingLost'
  OBVIOUS
<1>1. InOrder /\ TypeOK /\ InOrder'
  BY NextType, NextWire, NextChunk, NextFrontier DEF NothingLost, InOrder
<1>2. CASE Publish \/ MasterEnds \/ UNCHANGED vars
  <2>1. (up' => up) /\ \A r \in Replicas : Same(r)
    BY <1>2 DEF Publish, MasterEnds, vars, master, pipes, replica, Same
  <2> QED BY <1>1, <2>1, SameKeeps DEF NothingLost
<1>3. ASSUME NEW r \in Replicas, Psync(r) \/ PipeStep(r) \/ LinkStep(r) \/ LoadSnapshot(r)
      PROVE  NothingLost'
  <2>1. up' = up /\ \A d \in Replicas : d # r => Same(d)
    BY <1>1, <1>3, StepOfOne
  <2>2. calm'[r] => Lossless(r)'
    BY <1>1, <1>3, PipeKeeps, StartReadingKeeps, ReadChunkKeeps, ExecuteKeeps,
       IncrementOffsetKeeps, EndKeeps DEF NothingLost, LinkStep
  <2> QED BY <1>1, <2>1, <2>2, SameKeeps DEF NothingLost
<1> QED BY <1>2, <1>3 DEF Next

LEMMA NothingLostInit == Init => NothingLost
<1> SUFFICES ASSUME Init, NEW r \in Replicas PROVE Lossless(r)
  BY InitInOrder DEF NothingLost
<1> QED BY DEF Init, Lossless, InHand, Begin

-----------------------------------------------------------------------------
(* Executed, in hand and unread together are the wire.                     *)
LEMMA Joined ==
  ASSUME NEW w \in Seq(Nat), NEW a \in Nat, NEW s \in Seq(Nat), NEW t \in Seq(Nat),
         \A j \in 1 .. Len(s) : s[j] = w[a + j],
         \A j \in 1 .. Len(t) : t[j] = w[a + Len(s) + j]
  PROVE  /\ s \o t \in Seq(Nat)
         /\ Len(s \o t) = Len(s) + Len(t)
         /\ \A j \in 1 .. Len(s) + Len(t) : (s \o t)[j] = w[a + j]
<1>1. /\ s \o t \in Seq(Nat)
      /\ Len(s \o t) = Len(s) + Len(t)
      /\ \A j \in 1 .. Len(s) + Len(t) :
           (s \o t)[j] = IF j <= Len(s) THEN s[j] ELSE t[j - Len(s)]
  BY ConcatProperties
<1>2. ASSUME NEW j \in 1 .. Len(s) + Len(t) PROVE (s \o t)[j] = w[a + j]
  <2>1. CASE j <= Len(s)
    BY <1>1, <2>1
  <2>2. CASE j > Len(s)
    <3>1. j - Len(s) \in 1 .. Len(t) /\ a + Len(s) + (j - Len(s)) = a + j
      BY <2>2
    <3>2. t[j - Len(s)] = w[a + Len(s) + (j - Len(s))]
      BY <3>1
    <3> QED BY <1>1, <2>2, <3>1, <3>2
  <2> QED BY <2>1, <2>2
<1> QED BY <1>1, <1>2

LEMMA ThreePieces ==
  ASSUME NEW w \in Seq(Nat), NEW n \in Nat, NEW m \in Nat, n + m <= Len(w)
  PROVE  [j \in 1 .. n |-> w[j]] \o ([j \in 1 .. m |-> w[n + j]] \o SubSeq(w, n + m + 1, Len(w)))
           = w
<1> DEFINE e == [j \in 1 .. n |-> w[j]]
           left == [j \in 1 .. m |-> w[n + j]]
           ahead == SubSeq(w, n + m + 1, Len(w))
<1>1. e \in [1 .. n -> Nat] /\ left \in [1 .. m -> Nat]
  OBVIOUS
<1>2. e \in Seq(Nat) /\ Len(e) = n /\ left \in Seq(Nat) /\ Len(left) = m
  BY <1>1
<1>3. /\ ahead \in Seq(Nat) /\ Len(ahead) = Len(w) - (n + m)
      /\ \A j \in 1 .. Len(w) - (n + m) : ahead[j] = w[n + m + j]
  <2> DEFINE first == n + m + 1
             last == Len(w)
  <2>1. first \in Int /\ last \in Int /\ first <= last + 1 /\ last - first + 1 = last - (n + m)
    OBVIOUS
  <2>2. \A i \in first .. last : w[i] \in Nat
    OBVIOUS
  <2>3. \A j \in 1 .. last - (n + m) : first + j - 1 = n + m + j
    OBVIOUS
  <2> HIDE DEF first, last
  <2>4. /\ SubSeq(w, first, last) \in Seq(Nat)
        /\ Len(SubSeq(w, first, last)) = IF first <= last THEN last - first + 1 ELSE 0
        /\ \A j \in 1 .. last - first + 1 : SubSeq(w, first, last)[j] = w[first + j - 1]
    BY ONLY <2>1, <2>2, SubSeqProperties
  <2>5. Len(SubSeq(w, first, last)) = last - (n + m)
    BY ONLY <2>1, <2>4, n \in Nat, m \in Nat
  <2>6. ahead = SubSeq(w, first, last)
    BY DEF first, last
  <2> QED BY <2>1, <2>3, <2>4, <2>5, <2>6 DEF last
<1>4. (\A j \in 1 .. n : e[j] = w[j]) /\ \A j \in 1 .. m : left[j] = w[n + j]
  OBVIOUS
<1> DEFINE rest == left \o ahead
           all == e \o rest
<1> HIDE DEF e, left, ahead
<1>5. /\ rest \in Seq(Nat) /\ Len(rest) = Len(w) - n
      /\ \A j \in 1 .. Len(w) - n : rest[j] = w[n + j]
  <2>1. /\ left \in Seq(Nat) /\ ahead \in Seq(Nat)
        /\ \A j \in 1 .. Len(left) : left[j] = w[n + j]
        /\ \A j \in 1 .. Len(ahead) : ahead[j] = w[n + Len(left) + j]
    BY <1>2, <1>3, <1>4
  <2>2. /\ rest \in Seq(Nat) /\ Len(rest) = Len(left) + Len(ahead)
        /\ \A j \in 1 .. Len(left) + Len(ahead) : rest[j] = w[n + j]
    BY <2>1, Joined
  <2>3. Len(left) + Len(ahead) = Len(w) - n
    BY <1>2, <1>3
  <2> QED BY <2>2, <2>3
<1> HIDE DEF rest
<1>6. /\ all \in Seq(Nat) /\ Len(all) = Len(w)
      /\ \A j \in 1 .. Len(w) : all[j] = w[j]
  <2>1. /\ e \in Seq(Nat) /\ rest \in Seq(Nat) /\ 0 \in Nat
        /\ \A j \in 1 .. Len(e) : e[j] = w[0 + j]
        /\ \A j \in 1 .. Len(rest) : rest[j] = w[0 + Len(e) + j]
    BY <1>2, <1>4, <1>5
  <2>2. /\ all \in Seq(Nat) /\ Len(all) = Len(e) + Len(rest)
        /\ \A j \in 1 .. Len(e) + Len(rest) : all[j] = w[0 + j]
    BY <2>1, Joined
  <2> HIDE DEF all
  <2>3. \A j \in 1 .. Len(e) + Len(rest) : all[j] = w[j]
    BY <1>2, <1>5, <2>2
  <2>4. Len(e) + Len(rest) = Len(w)
    BY <1>2, <1>5
  <2> QED BY <2>2, <2>3, <2>4
<1> HIDE DEF all
<1>7. all = w
  BY <1>6, SeqEqual
<1> QED BY <1>7 DEF e, left, ahead, rest, all

LEMMA ExecutedThenUnexecuted ==
  ASSUME InOrder, NEW r \in Replicas, Lossless(r)
  PROVE  Executed(r) \o Unexecuted(r) = wire[r]
<1>1. /\ pending[r] \in Seq(Cmd) /\ wire[r] \in Seq(Nat) /\ offset[r] \in Nat
      /\ at[r][1] \in Nat /\ at[r][1] <= Len(wire[r]) + 1 /\ Len(wire[r]) \in Nat
      /\ link[r] = "counting" => pending[r] # <<>>
  BY DEF InOrder, TypeOK, Cmd, Position, ChunkInOrder, Chunk
<1>2. /\ Len(store[r]) = offset[r] + InHand(r)
      /\ offset[r] + Len(pending[r]) = at[r][1] - 1
  BY DEF Lossless
<1>3. ASSUME NEW j \in 1 .. Len(pending[r]) PROVE pending[r][j].msg = offset[r] + j
  <2>1. pending[r][j] = [msg |-> offset[r] + j, whole |-> TRUE]
    BY DEF Lossless
  <2> QED BY <2>1
<1>4. ASSUME NEW j \in 1 .. Len(store[r]) PROVE store[r][j].msg = wire[r][j]
  <2>1. store[r][j] = [msg |-> wire[r][j], whole |-> TRUE]
    BY DEF Lossless
  <2> QED BY <2>1
<1> DEFINE n == Len(store[r])
           m == Len(Remaining(r))
<1>5. /\ n \in Nat /\ m \in Nat /\ n + m = at[r][1] - 1
      /\ \A j \in 1 .. m : Remaining(r)[j].msg = n + j
  <2>1. CASE link[r] = "counting"
    <3>1. InHand(r) = 1 /\ Remaining(r) = Tail(pending[r]) /\ pending[r] # <<>>
      BY <1>1, <2>1 DEF InHand, Remaining
    <3>2. /\ m = Len(pending[r]) - 1 /\ m \in Nat
          /\ \A j \in 1 .. m : j + 1 \in 1 .. Len(pending[r])
                               /\ Remaining(r)[j] = pending[r][j + 1]
      BY <1>1, <3>1
    <3>3. \A j \in 1 .. m : Remaining(r)[j].msg = offset[r] + (j + 1)
      BY <1>3, <3>2
    <3>4. n = offset[r] + 1
      BY <1>2, <3>1
    <3>5. n \in Nat /\ n + m = at[r][1] - 1
      <4>1. m = Len(pending[r]) - 1 /\ Len(pending[r]) \in Nat
        BY <1>1, <3>2
      <4>2. offset[r] + Len(pending[r]) = at[r][1] - 1 /\ offset[r] \in Nat /\ at[r][1] \in Nat
        BY <1>1, <1>2
      <4> HIDE DEF n, m
      <4> QED BY <3>4, <4>1, <4>2
    <3>6. ASSUME NEW j \in 1 .. m PROVE Remaining(r)[j].msg = n + j
      <4>1. offset[r] + (j + 1) = n + j
        <5>1. j \in Int /\ offset[r] \in Int
          BY <1>1
        <5> HIDE DEF n, m
        <5> QED BY <3>4, <5>1
      <4> QED BY <3>3, <4>1
    <3> QED BY <3>2, <3>5, <3>6
  <2>2. CASE link[r] # "counting"
    <3>1. InHand(r) = 0 /\ Remaining(r) = pending[r]
      BY <2>2 DEF InHand, Remaining
    <3> QED BY <1>1, <1>2, <1>3, <3>1
  <2> QED BY <2>1, <2>2
<1>6. Executed(r) = [j \in 1 .. n |-> wire[r][j]]
  BY <1>4 DEF Executed
<1>7. Unexecuted(r) = [j \in 1 .. m |-> wire[r][n + j]] \o SubSeq(wire[r], n + m + 1, Len(wire[r]))
  <2>1. [j \in 1 .. m |-> wire[r][Remaining(r)[j].msg]] = [j \in 1 .. m |-> wire[r][n + j]]
    BY <1>5
  <2>2. at[r][1] = n + m + 1
    <3> HIDE DEF n, m
    <3> QED BY <1>1, <1>5
  <2> QED BY <2>1, <2>2 DEF Unexecuted
<1> HIDE DEF n, m
<1>8. n + m <= Len(wire[r])
  BY <1>1, <1>5
<1>9. n \in Nat /\ m \in Nat /\ wire[r] \in Seq(Nat)
  BY <1>1, <1>5
<1>10. [j \in 1 .. n |-> wire[r][j]]
         \o ([j \in 1 .. m |-> wire[r][n + j]] \o SubSeq(wire[r], n + m + 1, Len(wire[r])))
         = wire[r]
  BY ONLY <1>8, <1>9, ThreePieces
<1> QED BY <1>6, <1>7, <1>10, Zenon

(* src/main.rs:429-447 and 252-311: for any number of replicas, any ring   *)
(* and any stream, what makes a replica miss or repeat a SET, or miscount  *)
(* one, is in the list that ends calm: a chunk that ends inside a message  *)
(* or has a star before a digit in an argument, a handshake that read too  *)
(* far, a pipe that lagged, a snapshot loaded late.  For the streams that  *)
(* Wire describes there is nothing else.                                   *)
THEOREM NothingElseLoses == Spec => []Gapless
<1>1. NothingLost => Gapless
  <2> SUFFICES ASSUME NothingLost, NEW r \in Replicas, calm[r]
               PROVE  /\ pipe[r] \in {"piped", "pipe"} =>
                           Executed(r) \o Unexecuted(r) =
                             [j \in 1 .. cursor[r] - 1 - joinedAt[r] |-> joinedAt[r] + j]
                      /\ \A j \in 1 .. Len(store[r]) : store[r][j].whole
                      /\ offset[r] = Len(store[r]) - InHand(r)
    BY DEF Gapless, InHand
  <2>1. Lossless(r) /\ InOrder /\ wire[r] \in Seq(Nat \ {0}) /\ offset[r] \in Nat
    BY DEF NothingLost, InOrder, TypeOK
  <2>2. ASSUME pipe[r] \in {"piped", "pipe"}
        PROVE  wire[r] = [j \in 1 .. cursor[r] - 1 - joinedAt[r] |-> joinedAt[r] + j]
    <3>1. /\ Len(wire[r]) = cursor[r] - 1 - joinedAt[r]
          /\ \A j \in 1 .. Len(wire[r]) : wire[r][j] = joinedAt[r] + j
      BY <2>1, <2>2 DEF Lossless
    <3>2. Len(wire[r]) \in Nat /\ wire[r] = [j \in 1 .. Len(wire[r]) |-> wire[r][j]]
      BY <2>1
    <3> QED BY <3>1, <3>2
  <2>3. ASSUME NEW j \in 1 .. Len(store[r]) PROVE store[r][j].whole
    <3>1. store[r][j] = [msg |-> wire[r][j], whole |-> TRUE]
      BY <2>1 DEF Lossless
    <3> QED BY <3>1
  <2>4. offset[r] = Len(store[r]) - InHand(r)
    BY <2>1 DEF Lossless, InHand
  <2> QED BY <2>1, <2>2, <2>3, <2>4, ExecutedThenUnexecuted
<1>2. Spec => []NothingLost
  BY NothingLostInit, NothingLostStep, PTL DEF Spec
<1> QED BY <1>1, <1>2, PTL

-----------------------------------------------------------------------------
(***************************************************************************)
(* Stars: nothing that waits to be executed, and nothing in the map, comes *)
(* from a message with a star in it.                                       *)
(***************************************************************************)

PendingUnstarred(r) ==
  \A j \in 1 .. Len(pending[r]) : feed[wire[r][pending[r][j].msg]].stars = {}
StoreUnstarred(r) ==
  \A j \in 1 .. Len(store[r]) :
    store[r][j].msg \in 1 .. Len(feed) /\ feed[store[r][j].msg].stars = {}

NoneStarred == InOrder /\ \A r \in Replicas : PendingUnstarred(r) /\ StoreUnstarred(r)

LEMMA WireOnFeed ==
  ASSUME InOrder, NEW r \in Replicas, NEW i \in 1 .. Len(wire[r])
  PROVE  wire[r][i] \in 1 .. Len(feed)
<1>1. /\ wire[r] \in Seq(Nat \ {0}) /\ cursor[r] \in Nat /\ Len(feed) \in Nat
      /\ wire[r][i] < cursor[r] /\ cursor[r] <= Len(feed) + 1
  BY DEF InOrder, TypeOK, WireInOrder
<1>2. wire[r][i] \in Nat \ {0}
  BY <1>1
<1> QED BY ONLY <1>1, <1>2

(* The feed and the wire only grow.                                        *)
Grows(r) ==
  /\ \A i \in 1 .. Len(feed) : i \in 1 .. Len(feed') /\ feed'[i] = feed[i]
  /\ \A i \in 1 .. Len(wire[r]) : wire'[r][i] = wire[r][i]

LEMMA PendingStaysUnstarred ==
  ASSUME InOrder, NEW r \in Replicas, Grows(r), PendingUnstarred(r), pending'[r] = pending[r]
  PROVE  PendingUnstarred(r)'
<1> SUFFICES ASSUME NEW j \in 1 .. Len(pending[r])
             PROVE  feed'[wire'[r][pending[r][j].msg]].stars = {}
  BY DEF PendingUnstarred
<1>1. pending[r][j].msg \in 1 .. Len(wire[r])
  BY PendingType DEF InOrder
<1>2. wire[r][pending[r][j].msg] \in 1 .. Len(feed)
  BY <1>1, WireOnFeed
<1>3. feed[wire[r][pending[r][j].msg]].stars = {}
  BY DEF PendingUnstarred
<1> QED BY <1>1, <1>2, <1>3 DEF Grows

LEMMA StoreStaysUnstarred ==
  ASSUME NEW r \in Replicas, Grows(r), StoreUnstarred(r), store'[r] = store[r]
  PROVE  StoreUnstarred(r)'
BY DEF Grows, StoreUnstarred

LEMMA EveryStepGrows ==
  ASSUME TypeOK, [Next]_vars, NEW s \in Replicas
  PROVE  Grows(s)
<1>0. feed \in Seq(Messages) /\ wire \in [Replicas -> Seq(Nat \ {0})] /\ cursor[s] \in Nat \ {0}
  BY DEF TypeOK
<1>1. CASE UNCHANGED <<feed, wire>>
  BY <1>1 DEF Grows
<1>2. CASE Publish
  <2>1. PICK m \in Messages : feed' = Append(feed, m)
    BY <1>2 DEF Publish
  <2>2. \A i \in 1 .. Len(feed) : i \in 1 .. Len(feed') /\ feed'[i] = feed[i]
    BY <1>0, <2>1
  <2> QED BY <1>2, <2>2 DEF Publish, pipes, Grows
<1>3. ASSUME NEW r \in Replicas, Forward(r)
      PROVE  Grows(s)
  <2>1. feed' = feed /\ cursor[r] \in Nat \ {0}
    BY <1>3 DEF Forward, master, TypeOK
  <2>2. \/ wire'[s] = wire[s]
        \/ s = r /\ wire'[s] = Append(wire[s], cursor[s])
    BY <1>0, <1>3 DEF Forward
  <2>3. \A i \in 1 .. Len(wire[s]) : wire'[s][i] = wire[s][i]
    BY <1>0, <2>1, <2>2
  <2> QED BY <2>1, <2>3 DEF Grows
<1>4. ASSUME NEW r \in Replicas,
             Psync(r) \/ Subscribe(r) \/ CountIn(r) \/ Lag(r) \/ LinkStep(r) \/ LoadSnapshot(r)
      PROVE  UNCHANGED <<feed, wire>>
  BY <1>4, ReplicaLeavesWire DEF Psync, Subscribe, SubscribeTo, CountIn, Lag, master, pipes
<1> QED BY <1>1, <1>2, <1>3, <1>4 DEF Next, PipeStep, MasterEnds, pipes, vars, master

LEMMA ReadChunkUnstarred ==
  ASSUME InOrder, NEW r \in Replicas, ReadChunk(r)
  PROVE  PendingUnstarred(r)'
<1>1. /\ TypeOK /\ feed \in Seq(Messages) /\ Len(wire[r]) \in Nat /\ UNCHANGED <<feed, wire>>
  BY DEF InOrder, TypeOK, ReadChunk, master, pipes
<1>2. PICK p \in Ahead(r) : \E digest \in Digests(OnWire(r), at[r], p) :
        pending'[r] = digest.cmds
  BY <1>1 DEF ReadChunk, TypeOK
<1>3. PICK digest \in Digests(OnWire(r), at[r], p) : pending'[r] = digest.cmds
  BY <1>2
<1> DEFINE text == OnWire(r)
           cmds == digest.cmds
<1>4. Piece(text, at[r], p) /\ p[1] <= Len(wire[r]) + 1 /\ (p[1] = Len(wire[r]) + 1 => p[2] = Start)
  BY <1>1, AheadType DEF Piece, TypeOK
<1>5. /\ at[r][1] \in Nat \ {0} /\ p[1] \in Nat \ {0} /\ p = <<p[1], p[2]>>
  BY <1>4, PieceType
<1>6. \A j \in 1 .. Len(wire[r]) : text[j] = feed[wire[r][j]] /\ text[j] \in Messages
  <2> SUFFICES ASSUME NEW j \in 1 .. Len(wire[r])
               PROVE  text[j] = feed[wire[r][j]] /\ text[j] \in Messages
    OBVIOUS
  <2>1. text[j] = feed[wire[r][j]]
    BY DEF OnWire
  <2>2. wire[r][j] \in 1 .. Len(feed)
    BY WireOnFeed
  <2> QED BY <1>1, <2>1, <2>2
<1> HIDE DEF text, cmds
<1>7. \A j \in at[r][1] .. p[1] : p # <<j, Start>> => text[j].stars \subseteq {2, 3}
  <2> SUFFICES ASSUME NEW j \in at[r][1] .. p[1], p # <<j, Start>>
               PROVE  text[j].stars \subseteq {2, 3}
    OBVIOUS
  <2>1. j # Len(wire[r]) + 1
    BY <1>1, <1>4, <1>5
  <2>2. j \in 1 .. Len(wire[r])
    BY <1>1, <1>4, <1>5, <2>1
  <2> QED BY <1>6, <2>2, MessagesAssumption
<1>8. Unstarred(text, cmds)
  BY <1>4, <1>7, DigestsAreUnstarred DEF text, cmds
<1>9. Ordered(text, cmds, Done(at[r]), Done(p))
  BY <1>1, ChunkIsOrdered DEF text, cmds
<1>10. \A j \in 1 .. Len(cmds) : cmds[j].msg \in 1 .. Len(wire[r])
  <2> SUFFICES ASSUME NEW j \in 1 .. Len(cmds)
               PROVE  cmds[j].msg \in 1 .. Len(wire[r])
    OBVIOUS
  <2>1. cmds[j] \in Cmd /\ cmds[j].msg <= Done(p)
    BY <1>9 DEF Ordered
  <2>2. cmds[j].msg \in Nat \ {0}
    BY <2>1 DEF Cmd
  <2>3. Done(p) \in Nat /\ Done(p) <= Len(wire[r])
    BY <1>1, <1>4, <1>5 DEF Done
  <2> QED BY ONLY <1>1, <2>1, <2>2, <2>3
<1> QED BY <1>1, <1>3, <1>6, <1>8, <1>10 DEF Unstarred, PendingUnstarred, cmds

LEMMA ExecuteUnstarred ==
  ASSUME InOrder, NEW r \in Replicas, Execute(r), PendingUnstarred(r), StoreUnstarred(r)
  PROVE  StoreUnstarred(r)'
<1>1. store[r] \in Seq(Cmd) /\ feed' = feed /\ store \in [Replicas -> Seq(Cmd)]
  BY DEF InOrder, TypeOK, Cmd, Execute, master
<1>2. 1 \in 1 .. Len(pending[r]) /\ pending[r][1].msg \in 1 .. Len(wire[r])
  BY ExecutedSet, PendingType DEF InOrder
<1>3. PICK set \in Cmd :
        /\ set = [msg |-> wire[r][pending[r][1].msg], whole |-> pending[r][1].whole]
        /\ store' = [store EXCEPT ![r] = Append(@, set)]
  BY ExecutedSet DEF InOrder
<1>4. set.msg \in 1 .. Len(feed) /\ feed[set.msg].stars = {}
  BY <1>2, <1>3, WireOnFeed DEF PendingUnstarred
<1>5. store'[r] = Append(store[r], set)
  BY <1>1, <1>3
<1>6. \A j \in 1 .. Len(store'[r]) :
        \/ store'[r][j] = set
        \/ j \in 1 .. Len(store[r]) /\ store'[r][j] = store[r][j]
  BY ONLY <1>1, <1>5
<1> QED BY <1>1, <1>4, <1>6 DEF StoreUnstarred

LEMMA IncrementOffsetUnstarred ==
  ASSUME InOrder, NEW r \in Replicas, IncrementOffset(r), PendingUnstarred(r)
  PROVE  PendingUnstarred(r)'
<1>1. /\ pending[r] \in Seq(Cmd) /\ pending[r] # <<>> /\ UNCHANGED <<feed, wire>>
      /\ pending'[r] = Tail(pending[r])
  BY DEF InOrder, TypeOK, Cmd, IncrementOffset, ChunkInOrder, Chunk, master, pipes
<1> DEFINE s == pending[r]
<1>2. s \in Seq(Cmd) /\ s # <<>>
  BY <1>1
<1> HIDE DEF s
<1>3. /\ Len(s) \in Nat /\ Len(Tail(s)) = Len(s) - 1
      /\ \A j \in 1 .. Len(Tail(s)) : Tail(s)[j] = s[j + 1]
  BY ONLY <1>2, HeadTailProperties
<1>4. \A j \in 1 .. Len(Tail(s)) : j + 1 \in 1 .. Len(s)
  BY ONLY <1>3
<1>5. pending'[r] = Tail(s) /\ feed' = feed /\ wire' = wire
  BY <1>1 DEF s
<1>6. \A j \in 1 .. Len(s) : feed[wire[r][s[j].msg]].stars = {}
  BY DEF PendingUnstarred, s
<1> SUFFICES ASSUME NEW j \in 1 .. Len(Tail(s))
             PROVE  feed[wire[r][Tail(s)[j].msg]].stars = {}
  BY <1>5 DEF PendingUnstarred
<1>7. Tail(s)[j] = s[j + 1] /\ j + 1 \in 1 .. Len(s)
  BY <1>3, <1>4
<1> QED BY <1>6, <1>7

LEMMA NoneStarredStep == NoneStarred /\ [Next]_vars => NoneStarred'
<1> SUFFICES ASSUME NoneStarred, [Next]_vars
             PROVE  NoneStarred'
  OBVIOUS
<1>1. InOrder /\ TypeOK /\ InOrder'
  BY NextType, NextWire, NextChunk, NextFrontier DEF NoneStarred, InOrder
<1> SUFFICES ASSUME NEW s \in Replicas
             PROVE  PendingUnstarred(s)' /\ StoreUnstarred(s)'
  BY <1>1 DEF NoneStarred
<1>2. Grows(s) /\ PendingUnstarred(s) /\ StoreUnstarred(s)
  BY <1>1, EveryStepGrows DEF NoneStarred
<1>3. /\ pending'[s] = pending[s] => PendingUnstarred(s)'
      /\ store'[s] = store[s] => StoreUnstarred(s)'
  BY <1>1, <1>2, PendingStaysUnstarred, StoreStaysUnstarred
<1>4. CASE Publish \/ MasterEnds \/ UNCHANGED vars
  BY <1>1, <1>3, <1>4 DEF Publish, MasterEnds, vars, replica
<1>5. ASSUME NEW r \in Replicas, Psync(r) \/ PipeStep(r) \/ LinkStep(r) \/ LoadSnapshot(r)
      PROVE  PendingUnstarred(s)' /\ StoreUnstarred(s)'
  <2>1. CASE s # r
    <3>1. Same(s)
      BY <1>1, <1>5, <2>1, StepOfOne
    <3> QED BY <1>3, <3>1 DEF Same
  <2>2. CASE s = r
    <3>1. CASE Psync(r) \/ PipeStep(r) \/ StartReading(r) \/ EndOfStream(r)
      <4>1. UNCHANGED <<pending, store>>
        BY <3>1 DEF Psync, PipeStep, Subscribe, SubscribeTo, CountIn, Forward, Lag, StartReading,
                    EndOfStream, replica
      <4> QED BY <1>3, <4>1
    <3>2. CASE ReadChunk(r)
      <4>1. UNCHANGED store
        BY <3>2 DEF ReadChunk
      <4> QED BY <1>1, <1>3, <2>2, <3>2, <4>1, ReadChunkUnstarred
    <3>3. CASE Execute(r)
      <4>1. UNCHANGED pending
        BY <3>3 DEF Execute
      <4> QED BY <1>1, <1>2, <1>3, <2>2, <3>3, <4>1, ExecuteUnstarred
    <3>4. CASE IncrementOffset(r)
      <4>1. UNCHANGED store
        BY <3>4 DEF IncrementOffset
      <4> QED BY <1>1, <1>2, <1>3, <2>2, <3>4, <4>1, IncrementOffsetUnstarred
    <3>5. CASE LoadSnapshot(r)
      <4>1. UNCHANGED pending /\ store'[r] = <<>>
        BY <1>1, <3>5 DEF LoadSnapshot, TypeOK
      <4> QED BY <1>3, <2>2, <4>1 DEF StoreUnstarred
    <3> QED BY <1>5, <3>1, <3>2, <3>3, <3>4, <3>5 DEF LinkStep
  <2> QED BY <2>1, <2>2
<1> QED BY <1>1, <1>4, <1>5 DEF Next

(* src/parser.rs:35-41 and 117: for any number of replicas, any ring and   *)
(* any way TCP cuts the stream, a SET with a star before a digit in its    *)
(* key or value never gets into the map of a replica.                      *)
THEOREM StarredAreLost == Spec => []StarredNeverStored
<1>1. Init => NoneStarred
  <2> SUFFICES ASSUME Init PROVE NoneStarred
    OBVIOUS
  <2>1. \A r \in Replicas : pending[r] = <<>> /\ store[r] = <<>>
    BY DEF Init
  <2> QED BY <2>1, InitInOrder DEF NoneStarred, PendingUnstarred, StoreUnstarred
<1>2. NoneStarred => StarredNeverStored
  <2> SUFFICES ASSUME NoneStarred, NEW r \in Replicas, NEW j \in DOMAIN store[r]
               PROVE  feed[store[r][j].msg].stars = {}
    BY DEF StarredNeverStored
  <2>1. j \in 1 .. Len(store[r])
    BY DEF NoneStarred, InOrder, TypeOK
  <2> QED BY <2>1 DEF NoneStarred, StoreUnstarred
<1> QED BY <1>1, <1>2, NoneStarredStep, PTL DEF Spec
=============================================================================
