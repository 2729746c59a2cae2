----------------------------- MODULE RespProofs ------------------------------
(***************************************************************************)
(* Facts about the wire parser on texts of any length: where split breaks  *)
(* a text into lines, that a number is read as it was written, and that a  *)
(* request that is whole is parsed as the words it was made of, whatever   *)
(* comes behind it.                                                        *)
(***************************************************************************)
EXTENDS Resp, SequenceProofs

(* What texts are made of, next to the symbols of the protocol.            *)
Symbols == {"cr", "lf", "$", "*"} \cup Range(Digits)

-----------------------------------------------------------------------------
LEMMA NextOf ==
  ASSUME NEW S, NEW s \in Seq(S), NEW n \in 1 .. Len(s)
  PROVE  Append(SubSeq(s, 1, n - 1), s[n]) = SubSeq(s, 1, n)
<1> DEFINE a == SubSeq(s, 1, n - 1)
           b == SubSeq(s, 1, n)
<1>1. Len(s) \in Nat /\ n \in 0 .. Len(s) /\ n - 1 \in 0 .. Len(s) /\ s[n] \in S
  BY LenProperties, ElementOfSeq
<1>2. a \in Seq(S) /\ Len(a) = n - 1 /\ \A i \in 1 .. n - 1 : a[i] = s[i]
  BY <1>1, BeginningOf
<1>3. b \in Seq(S) /\ Len(b) = n /\ \A i \in 1 .. n : b[i] = s[i]
  BY <1>1, BeginningOf
<1> HIDE DEF a, b
<1>4. Append(a, s[n]) \in Seq(S) /\ Len(Append(a, s[n])) = n
  BY <1>1, <1>2
<1>5. ASSUME NEW i \in 1 .. n PROVE Append(a, s[n])[i] = b[i]
  BY <1>1, <1>2, <1>3
<1>6. Append(a, s[n]) = b
  BY <1>3, <1>4, <1>5, Extensional
<1> QED BY <1>6 DEF a, b

LEMMA CrLfIsText ==
  ASSUME NEW S, Symbols \subseteq S
  PROVE  CrLf \in Seq(S) /\ Len(CrLf) = 2 /\ CrLf[1] = "cr" /\ CrLf[2] = "lf"
<1>1. "cr" \in S /\ "lf" \in S
  BY DEF Symbols
<1> QED BY <1>1 DEF CrLf

-----------------------------------------------------------------------------
LEMMA MaxIsGreatest ==
  ASSUME NEW S, S \subseteq Nat, NEW n \in S, \A m \in S : m <= n
  PROVE  Max(S) = n
<1>1. n \in Nat /\ \A m \in S : n >= m
  OBVIOUS
<1>2. \A x \in S : (\A y \in S : x >= y) => x = n
  OBVIOUS
<1>3. Max(S) \in S /\ \A y \in S : Max(S) >= y
  BY <1>1 DEF Max
<1> QED BY <1>2, <1>3

-----------------------------------------------------------------------------
(* Lines, and split as it goes from one character to the next.             *)
BreakAt(s, i) == i > 1 /\ s[i - 1] = "cr" /\ s[i] = "lf"

TakeChar(acc, ch) ==
  IF ch = "lf" /\ acc.line # <<>> /\ Last(acc.line) = "cr"
    THEN [ended |-> Append(acc.ended, Front(acc.line)), line |-> <<>>]
    ELSE [ended |-> acc.ended, line |-> Append(acc.line, ch)]

LEMMA LastBreakIs ==
  ASSUME NEW s
  PROVE  /\ LastBreak(s, 0) = 0
         /\ \A i \in Nat \ {0} :
              LastBreak(s, i) = IF BreakAt(s, i) THEN i ELSE LastBreak(s, i - 1)
<1> DEFINE Breaks(i) == {0} \cup {b \in 1 .. i : b > 1 /\ s[b - 1] = "cr" /\ s[b] = "lf"}
<1>1. \A i \in Nat : LastBreak(s, i) = Max(Breaks(i))
  BY DEF LastBreak
<1>2. LastBreak(s, 0) = 0
  <2>1. Breaks(0) \subseteq Nat /\ 0 \in Breaks(0) /\ \A m \in Breaks(0) : m <= 0
    OBVIOUS
  <2> HIDE DEF Breaks
  <2>2. Max(Breaks(0)) = 0
    BY <2>1, MaxIsGreatest
  <2> QED BY <1>1, <2>2
<1>3. ASSUME NEW i \in Nat \ {0}, BreakAt(s, i) PROVE LastBreak(s, i) = i
  <2>1. Breaks(i) \subseteq Nat /\ i \in Breaks(i) /\ \A m \in Breaks(i) : m <= i
    BY <1>3 DEF BreakAt
  <2> HIDE DEF Breaks
  <2>2. Max(Breaks(i)) = i
    BY <2>1, MaxIsGreatest
  <2> QED BY <1>1, <2>2
<1>4. ASSUME NEW i \in Nat \ {0}, ~ BreakAt(s, i) PROVE LastBreak(s, i) = LastBreak(s, i - 1)
  <2>1. Breaks(i) = Breaks(i - 1)
    <3>1. \A b \in 1 .. i : b \in 1 .. i - 1 \/ b = i
      OBVIOUS
    <3>2. \A b \in 1 .. i - 1 : b \in 1 .. i
      OBVIOUS
    <3> QED BY <1>4, <3>1, <3>2, Zenon DEF BreakAt
  <2>2. i - 1 \in Nat
    OBVIOUS
  <2> HIDE DEF Breaks
  <2> QED BY <1>1, <2>1, <2>2
<1> QED BY <1>2, <1>3, <1>4

LEMMA LastBreakBehind ==
  ASSUME NEW s, NEW N \in Nat
  PROVE  \A i \in 0 .. N : LastBreak(s, i) \in 0 .. i
<1> DEFINE Good == {i \in 0 .. N : LastBreak(s, i) \in 0 .. i}
<1>1. 0 \in Good
  BY LastBreakIs
<1>2. ASSUME NEW n \in 0 .. N - 1, n \in Good PROVE n + 1 \in Good
  <2>1. n + 1 \in Nat \ {0} /\ n + 1 - 1 = n /\ n + 1 \in 0 .. N
    OBVIOUS
  <2>2. LastBreak(s, n + 1) = IF BreakAt(s, n + 1) THEN n + 1 ELSE LastBreak(s, n)
    BY <2>1, LastBreakIs
  <2>3. LastBreak(s, n) \in 0 .. n
    BY <1>2
  <2>4. LastBreak(s, n + 1) \in 0 .. n + 1
    BY <2>2, <2>3
  <2> QED BY <2>1, <2>4
<1>3. \A n \in 0 .. N : n \in Good
  <2> HIDE DEF Good
  <2> QED BY <1>1, <1>2, StepByStep
<1> QED BY <1>3

(* What split knows behind character i, x being the lines that ended.      *)
Behind(s, i, x) == [ended |-> x, line |-> SubSeq(s, LastBreak(s, i) + 1, i)]
EndedBy(s, i, x) ==
  IF BreakAt(s, i) THEN Append(x, SubSeq(s, LastBreak(s, i - 1) + 1, i - 2)) ELSE x

LEMMA CharTaken ==
  ASSUME NEW S, NEW s \in Seq(S), NEW i \in 1 .. Len(s), NEW x
  PROVE  TakeChar(Behind(s, i - 1, x), s[i]) = Behind(s, i, EndedBy(s, i, x))
<1> DEFINE n == i - 1
           a == LastBreak(s, n)
           l == SubSeq(s, a + 1, n)
           acc == Behind(s, n, x)
<1>1. Len(s) \in Nat /\ n \in Nat /\ n + 1 = i /\ n \in 0 .. Len(s) /\ i \in Nat \ {0} /\ i <= Len(s)
      /\ n <= Len(s) /\ i - 2 = n - 1
  OBVIOUS
<1>2. a \in Nat /\ a <= n
  <2> HIDE DEF n
  <2>1. LastBreak(s, n) \in 0 .. n
    BY <1>1, LastBreakBehind
  <2> QED BY <1>1, <2>1
<1>3. l \in Seq(S) /\ Len(l) = n - a /\ \A j \in 1 .. n - a : l[j] = s[a + j]
  <2> HIDE DEF a, n
  <2> QED BY <1>1, <1>2, PieceOf
<1>4. LastBreak(s, i) = IF BreakAt(s, i) THEN i ELSE a
  BY <1>1, LastBreakIs
<1>5. acc.line = l /\ acc.ended = x
  BY DEF Behind
<1>6. CASE BreakAt(s, i)
  <2>1. n \in Nat \ {0} /\ s[n] = "cr" /\ s[i] = "lf"
    BY <1>1, <1>6 DEF BreakAt
  <2>2. a < n
    <3>1. "cr" # "lf"
      OBVIOUS
    <3>2. ~ BreakAt(s, n)
      BY <2>1, <3>1 DEF BreakAt
    <3>3. a = LastBreak(s, n - 1) /\ n - 1 \in 0 .. Len(s)
      <4> HIDE DEF n
      <4>1. LastBreak(s, n) = LastBreak(s, n - 1)
        BY <2>1, <3>2, LastBreakIs
      <4> QED BY <1>1, <2>1, <4>1
    <3>4. LastBreak(s, n - 1) \in 0 .. n - 1
      BY <1>1, <3>3, LastBreakBehind
    <3> HIDE DEF a, n
    <3> QED BY <1>1, <1>2, <3>3, <3>4
  <2>3. l # <<>> /\ Last(l) = "cr"
    <3>1. n - a \in 1 .. n - a /\ a + (n - a) = n
      <4> HIDE DEF a, n
      <4> QED BY <1>1, <1>2, <2>2
    <3>2. l[n - a] = "cr" /\ Len(l) = n - a /\ Len(l) # 0
      <4> HIDE DEF a, n, l
      <4> QED BY <1>1, <1>2, <1>3, <2>1, <2>2, <3>1
    <3> HIDE DEF a, n, l
    <3> QED BY <1>3, <3>2, EmptySeq DEF Last
  <2>4. Front(l) = SubSeq(s, a + 1, i - 2)
    <3>1. CASE a = n - 1
      <4>1. Len(l) = 1 /\ i - 2 = a
        <5> HIDE DEF l
        <5> QED BY <1>1, <1>2, <1>3, <3>1
      <4>2. SubSeq(l, 1, 0) = <<>> /\ SubSeq(s, a + 1, a) = <<>>
        <5> HIDE DEF l, a
        <5> QED BY <1>2, <1>3
      <4> HIDE DEF l, a
      <4> QED BY <4>1, <4>2 DEF Front
    <3>2. CASE a # n - 1
      <4> DEFINE k == n - 1 - a
      <4>1. k \in 1 .. Len(l) /\ a + k = i - 2 /\ Len(l) - 1 = k
        <5> HIDE DEF l, a, n
        <5> QED BY <1>1, <1>2, <1>3, <2>2, <3>2
      <4>2. SubSeq(l, 1, k) = SubSeq(s, a + 1, a + k)
        <5> HIDE DEF k, a, n
        <5> QED BY <1>1, <1>2, <4>1, PieceTaken
      <4> HIDE DEF l, a, k
      <4> QED BY <4>1, <4>2 DEF Front
    <3> QED BY <3>1, <3>2
  <2>5. SubSeq(s, i + 1, i) = <<>>
    BY <1>1
  <2> HIDE DEF acc, l, a
  <2>6. TakeChar(acc, s[i]) = [ended |-> Append(x, SubSeq(s, a + 1, i - 2)), line |-> <<>>]
    BY <1>5, <2>1, <2>3, <2>4 DEF TakeChar
  <2>7. Behind(s, i, EndedBy(s, i, x)) = [ended |-> Append(x, SubSeq(s, a + 1, i - 2)), line |-> <<>>]
    BY <1>4, <1>6, <2>5 DEF Behind, EndedBy, a
  <2> QED BY <2>6, <2>7 DEF acc
<1>7. CASE ~ BreakAt(s, i)
  <2>1. ~ (s[i] = "lf" /\ l # <<>> /\ Last(l) = "cr")
    <3> SUFFICES ASSUME s[i] = "lf", l # <<>>, Last(l) = "cr" PROVE FALSE
      OBVIOUS
    <3>1. n - a \in 1 .. n - a /\ a + (n - a) = n /\ Len(l) = n - a
      <4> HIDE DEF l, a, n
      <4> QED BY <1>1, <1>2, <1>3, EmptySeq
    <3>2. s[n] = "cr" /\ i > 1
      <4> HIDE DEF l, a, n
      <4> QED BY <1>1, <1>2, <1>3, <3>1 DEF Last
    <3> QED BY <1>7, <3>2 DEF BreakAt
  <2>2. Append(l, s[i]) = SubSeq(s, a + 1, i)
    <3> DEFINE t == Append(l, s[i])
               u == SubSeq(s, a + 1, i)
    <3>1. u \in Seq(S) /\ Len(u) = i - a /\ \A j \in 1 .. i - a : u[j] = s[a + j]
      <4>1. i \in Nat /\ a <= i
        <5> HIDE DEF a, n
        <5> QED BY <1>1, <1>2
      <4> HIDE DEF a
      <4> QED BY <1>1, <1>2, <4>1, PieceOf
    <3> HIDE DEF u, l, a, n
    <3>2. s[i] \in S
      BY ElementOfSeq
    <3>3. t \in Seq(S) /\ Len(t) = i - a /\ \A j \in 1 .. i - a : t[j] = s[a + j]
      BY <1>1, <1>2, <1>3, <3>2
    <3> HIDE DEF t
    <3>4. t = u
      BY <3>1, <3>3, Extensional
    <3> QED BY <3>4 DEF t, u
  <2> HIDE DEF acc, l, a
  <2>3. TakeChar(acc, s[i]) = [ended |-> x, line |-> SubSeq(s, a + 1, i)]
    BY <1>5, <2>1, <2>2 DEF TakeChar
  <2>4. Behind(s, i, EndedBy(s, i, x)) = [ended |-> x, line |-> SubSeq(s, a + 1, i)]
    BY <1>4, <1>7 DEF Behind, EndedBy
  <2> QED BY <2>3, <2>4 DEF acc
<1> QED BY <1>6, <1>7

SplitState(S) == [ended : Seq(Seq(S)), line : Seq(S)]
NoLine == [ended |-> <<>>, line |-> <<>>]
IsSplit(f, s, S) ==
  /\ f \in [0 .. Len(s) -> SplitState(S)]
  /\ f[0] = NoLine
  /\ \A i \in 1 .. Len(s) : f[i] = TakeChar(f[i - 1], s[i])

LEMMA TakeCharType ==
  ASSUME NEW S, NEW acc \in SplitState(S), NEW ch \in S
  PROVE  TakeChar(acc, ch) \in SplitState(S)
<1>1. acc.ended \in Seq(Seq(S)) /\ acc.line \in Seq(S) /\ Len(acc.line) \in Nat
  BY DEF SplitState
<1>2. CASE ch = "lf" /\ acc.line # <<>> /\ Last(acc.line) = "cr"
  <2>1. Len(acc.line) - 1 \in 0 .. Len(acc.line)
    BY <1>1, <1>2
  <2>2. Front(acc.line) \in Seq(S)
    BY <1>1, <2>1, BeginningOf DEF Front
  <2>3. TakeChar(acc, ch) = [ended |-> Append(acc.ended, Front(acc.line)), line |-> <<>>]
    BY <1>2 DEF TakeChar
  <2>4. Append(acc.ended, Front(acc.line)) \in Seq(Seq(S)) /\ <<>> \in Seq(S)
    BY <1>1, <2>2
  <2> QED BY <2>3, <2>4 DEF SplitState
<1>3. CASE ~ (ch = "lf" /\ acc.line # <<>> /\ Last(acc.line) = "cr")
  <2>1. TakeChar(acc, ch) = [ended |-> acc.ended, line |-> Append(acc.line, ch)]
    BY <1>3 DEF TakeChar
  <2>2. Append(acc.line, ch) \in Seq(S)
    BY <1>1
  <2> QED BY <1>1, <2>1, <2>2 DEF SplitState
<1> QED BY <1>2, <1>3

(* What Lines says of the lines that have ended at each character.         *)
EndedLines(e, s, i) ==
  IF LastBreak(s, i) = 0 THEN <<>>
  ELSE Append(e[LastBreak(s, i) - 1],
              SubSeq(s, LastBreak(s, LastBreak(s, i) - 1) + 1, LastBreak(s, i) - 2))

LEMMA EndedStep ==
  ASSUME NEW s, NEW e, NEW i \in Nat \ {0}
  PROVE  /\ EndedLines(e, s, 0) = <<>>
         /\ EndedLines(e, s, i) = IF BreakAt(s, i) THEN EndedBy(s, i, e[i - 1])
                                  ELSE EndedLines(e, s, i - 1)
<1>1. LastBreak(s, 0) = 0
  BY LastBreakIs
<1>2. LastBreak(s, i) = IF BreakAt(s, i) THEN i ELSE LastBreak(s, i - 1)
  BY LastBreakIs
<1>3. i # 0
  OBVIOUS
<1>4. ASSUME BreakAt(s, i) PROVE EndedLines(e, s, i) = EndedBy(s, i, e[i - 1])
  <2>1. LastBreak(s, i) = i
    BY <1>2, <1>4
  <2> QED BY <1>3, <1>4, <2>1, Zenon DEF EndedLines, EndedBy
<1>5. ASSUME ~ BreakAt(s, i) PROVE EndedLines(e, s, i) = EndedLines(e, s, i - 1)
  <2>1. LastBreak(s, i) = LastBreak(s, i - 1)
    BY <1>2, <1>5
  <2> QED BY <2>1, Zenon DEF EndedLines
<1>6. EndedLines(e, s, 0) = <<>>
  BY <1>1, Zenon DEF EndedLines
<1> QED BY <1>4, <1>5, <1>6, Zenon

LEMMA LinesAreSplit ==
  ASSUME NEW S, NEW s \in Seq(S)
  PROVE  \E f : /\ IsSplit(f, s, S)
                /\ Lines(s) = Append(f[Len(s)].ended, f[Len(s)].line)
<1> DEFINE N == Len(s)
<1>1. N \in Nat /\ \A i \in 1 .. N : s[i] \in S
  OBVIOUS
<1>2. NoLine \in SplitState(S) /\ Behind(s, 0, <<>>) = NoLine
  <2>1. LastBreak(s, 0) + 1 = 1
    BY LastBreakIs
  <2>2. SubSeq(s, 1, 0) = <<>>
    OBVIOUS
  <2> QED BY <2>1, <2>2 DEF NoLine, SplitState, Behind
<1> DEFINE step == [i \in 1 .. N |-> [acc \in SplitState(S) |-> TakeChar(acc, s[i])]]
<1>3. step \in [1 .. N -> [SplitState(S) -> SplitState(S)]]
  BY <1>1, TakeCharType
<1>4. PICK g : Iterates(g, SplitState(S), N, NoLine, step)
  <2> HIDE DEF step
  <2> QED BY <1>1, <1>2, <1>3, IterationExists
<1>5. /\ g \in [0 .. N -> SplitState(S)] /\ g[0] = NoLine
      /\ \A i \in 1 .. N : g[i] = step[i][g[i - 1]]
  BY <1>4 DEF Iterates
<1>6. ASSUME NEW i \in 1 .. N PROVE g[i] = TakeChar(g[i - 1], s[i])
  <2>1. i - 1 \in 0 .. N
    BY <1>1
  <2>2. g[i - 1] \in SplitState(S)
    BY <1>5, <2>1
  <2> QED BY <1>5, <2>2
<1> DEFINE e == [i \in 0 .. N |-> g[i].ended]
<1>7. \A i \in 0 .. N : g[i] = Behind(s, i, e[i]) /\ e[i] = EndedLines(e, s, i)
  <2> DEFINE Good == {i \in 0 .. N : g[i] = Behind(s, i, e[i]) /\ e[i] = EndedLines(e, s, i)}
  <2>1. \A i \in 0 .. N : e[i] = g[i].ended
    OBVIOUS
  <2> HIDE DEF e
  <2>2. 0 \in Good
    <3>1. 0 \in 0 .. N /\ 1 \in Nat \ {0}
      BY <1>1
    <3>2. NoLine.ended = <<>>
      BY DEF NoLine
    <3>3. e[0] = <<>>
      BY <1>5, <2>1, <3>1, <3>2
    <3>4. EndedLines(e, s, 0) = <<>>
      BY <3>1, EndedStep
    <3> QED BY <1>2, <1>5, <3>1, <3>3, <3>4
  <2>3. ASSUME NEW n \in 0 .. N - 1, n \in Good PROVE n + 1 \in Good
    <3> DEFINE i == n + 1
    <3>1. i \in 1 .. N /\ i - 1 = n /\ i \in 0 .. N /\ i \in Nat \ {0}
      BY <1>1
    <3>2. g[n] = Behind(s, n, e[n]) /\ e[n] = EndedLines(e, s, n)
      BY <2>3
    <3> HIDE DEF i, N
    <3>3. g[i] = Behind(s, i, EndedBy(s, i, e[n]))
      <4>1. g[i] = TakeChar(g[i - 1], s[i])
        BY <1>6, <3>1
      <4>2. TakeChar(Behind(s, i - 1, e[n]), s[i]) = Behind(s, i, EndedBy(s, i, e[n]))
        BY <3>1, CharTaken DEF N
      <4> QED BY <3>1, <3>2, <4>1, <4>2
    <3>4. e[i] = EndedBy(s, i, e[n])
      <4>1. Behind(s, i, EndedBy(s, i, e[n])).ended = EndedBy(s, i, e[n])
        BY DEF Behind
      <4> QED BY <2>1, <3>1, <3>3, <4>1
    <3>5. EndedLines(e, s, i) = e[i]
      <4>1. EndedLines(e, s, i) = IF BreakAt(s, i) THEN EndedBy(s, i, e[n]) ELSE EndedLines(e, s, n)
        BY <3>1, EndedStep
      <4>2. ~ BreakAt(s, i) => EndedBy(s, i, e[n]) = e[n]
        BY DEF EndedBy
      <4> QED BY <3>2, <3>4, <4>1, <4>2
    <3>6. i \in Good
      BY <3>1, <3>3, <3>4, <3>5
    <3> QED BY <3>6 DEF i
  <2>4. \A i \in 0 .. N : i \in Good
    <3> HIDE DEF Good, N
    <3> QED BY <1>1, <2>2, <2>3, StepByStep
  <2> QED BY <2>4
<1>8. Lines(s) = Append(g[N].ended, g[N].line)
  <2> DEFINE ended[i \in 0 .. Len(s)] ==
               LET b == LastBreak(s, i) IN
               IF b = 0 THEN <<>>
               ELSE Append(ended[b - 1], SubSeq(s, LastBreak(s, b - 1) + 1, b - 2))
             IsF(f) == f = [i \in 0 .. Len(s) |->
               LET b == LastBreak(s, i) IN
               IF b = 0 THEN <<>>
               ELSE Append(f[b - 1], SubSeq(s, LastBreak(s, b - 1) + 1, b - 2))]
  <2>1. IsF(e)
    <3>1. e = [i \in 0 .. N |-> e[i]]
      OBVIOUS
    <3> HIDE DEF e
    <3>2. e = [i \in 0 .. N |-> EndedLines(e, s, i)]
      BY <1>7, <3>1, Zenon
    <3> QED BY <3>2, Zenon DEF EndedLines
  <2>2. IsF(ended)
    <3>1. ended = CHOOSE f : IsF(f)
      OBVIOUS
    <3> HIDE DEF ended, IsF
    <3> QED BY <2>1, <3>1, Zenon
  <2>3. Lines(s) = Append(ended[N], SubSeq(s, LastBreak(s, N) + 1, N))
    BY Zenon DEF Lines
  <2> HIDE DEF ended, e
  <2>4. \A i \in 0 .. N : ended[i] = EndedLines(ended, s, i)
    <3>1. ended = [i \in 0 .. N |-> EndedLines(ended, s, i)]
      BY <2>2, Zenon DEF EndedLines
    <3> QED BY <3>1, Zenon
  <2>5. ended[N] = e[N]
    <3> DEFINE Good == {i \in 0 .. N : \A j \in 0 .. i : ended[j] = e[j]}
    <3>1. 0 \in Good
      <4>1. EndedLines(ended, s, 0) = <<>> /\ EndedLines(e, s, 0) = <<>> /\ 0 \in 0 .. N
        <5>1. 1 \in Nat \ {0} /\ 0 \in 0 .. N
          BY <1>1
        <5> QED BY <5>1, EndedStep, Zenon
      <4>2. \A j \in 0 .. 0 : j = 0
        OBVIOUS
      <4> QED BY <1>7, <2>4, <4>1, <4>2
    <3>2. ASSUME NEW n \in 0 .. N - 1, n \in Good PROVE n + 1 \in Good
      <4>1. n + 1 \in 0 .. N /\ n \in 0 .. N /\ n + 1 \in Nat \ {0} /\ n + 1 - 1 = n
        BY <1>1
      <4>2. \A j \in 0 .. n : ended[j] = e[j]
        BY <3>2
      <4>3. ended[n] = e[n]
        BY <4>1, <4>2
      <4> DEFINE i == n + 1
      <4>4. i \in 0 .. N /\ i \in Nat \ {0} /\ i - 1 = n
        BY <4>1
      <4> HIDE DEF i, N
      <4>5. ended[i] = IF BreakAt(s, i) THEN EndedBy(s, i, ended[n]) ELSE EndedLines(ended, s, n)
        BY <2>4, <4>4, EndedStep
      <4>6. e[i] = IF BreakAt(s, i) THEN EndedBy(s, i, e[n]) ELSE EndedLines(e, s, n)
        BY <1>7, <4>4, EndedStep
      <4>7. ended[n] = EndedLines(ended, s, n) /\ e[n] = EndedLines(e, s, n)
        BY <1>7, <2>4, <4>1
      <4>8. ended[i] = e[i]
        BY <4>3, <4>5, <4>6, <4>7
      <4>9. \A j \in 0 .. i : j \in 0 .. n \/ j = i
        BY <4>1 DEF i
      <4> QED BY <4>2, <4>4, <4>8, <4>9 DEF i
    <3>3. \A n \in 0 .. N : n \in Good
      <4> HIDE DEF Good, N
      <4> QED BY <1>1, <3>1, <3>2, StepByStep
    <3>4. N \in Good /\ N \in 0 .. N
      BY <1>1, <3>3
    <3> QED BY <3>4
  <2>6. g[N] = Behind(s, N, e[N]) /\ N \in 0 .. N
    BY <1>1, <1>7
  <2>7. Behind(s, N, e[N]).ended = e[N] /\ Behind(s, N, e[N]).line = SubSeq(s, LastBreak(s, N) + 1, N)
    BY DEF Behind
  <2> QED BY <2>3, <2>5, <2>6, <2>7
<1>9. IsSplit(g, s, S)
  BY <1>5, <1>6 DEF IsSplit
<1> QED BY <1>8, <1>9

(* A line without a break in it.                                           *)
NoBreak(w) == \A i \in 1 .. Len(w) - 1 : ~ (w[i] = "cr" /\ w[i + 1] = "lf")

(* As long as there is no break in it a text is one line.                  *)
LEMMA LineGoesOn ==
  ASSUME NEW S, NEW s \in Seq(S), NEW w \in Seq(S), NoBreak(w), Len(w) <= Len(s),
         \A i \in 1 .. Len(w) : s[i] = w[i],
         NEW f, IsSplit(f, s, S)
  PROVE  \A n \in 0 .. Len(w) : f[n] = [ended |-> <<>>, line |-> SubSeq(w, 1, n)]
<1>1. /\ Len(w) \in Nat /\ Len(s) \in Nat
      /\ f[0] = NoLine /\ \A i \in 1 .. Len(s) : f[i] = TakeChar(f[i - 1], s[i])
  BY SMTT(60) DEF IsSplit
<1> DEFINE Good == {n \in 0 .. Len(w) : f[n] = [ended |-> <<>>, line |-> SubSeq(w, 1, n)]}
<1>2. 0 \in Good
  <2>1. SubSeq(w, 1, 0) = <<>>
    OBVIOUS
  <2> QED BY <1>1, <2>1 DEF NoLine
<1>3. ASSUME NEW n \in 0 .. Len(w) - 1, n \in Good PROVE n + 1 \in Good
  <2> DEFINE l == SubSeq(w, 1, n)
  <2>1. /\ n + 1 \in 1 .. Len(w) /\ n \in 0 .. Len(w) /\ n + 1 - 1 = n
        /\ n + 1 \in 1 .. Len(s)
    BY <1>1
  <2>2. f[n] = [ended |-> <<>>, line |-> l]
    BY <1>3
  <2>3. l \in Seq(S) /\ Len(l) = n /\ \A i \in 1 .. n : l[i] = w[i]
    BY <2>1, BeginningOf
  <2>4. f[n + 1] = TakeChar(f[n], w[n + 1])
    <3>1. f[n + 1] = TakeChar(f[n + 1 - 1], s[n + 1])
      BY <1>1, <2>1
    <3> QED BY <2>1, <3>1
  <2>5. Append(l, w[n + 1]) = SubSeq(w, 1, n + 1)
    <3>1. Append(SubSeq(w, 1, n + 1 - 1), w[n + 1]) = SubSeq(w, 1, n + 1)
      BY <2>1, NextOf
    <3> QED BY <2>1, <3>1
  <2> HIDE DEF l
  <2>6. ~ (w[n + 1] = "lf" /\ l # <<>> /\ Last(l) = "cr")
    <3> SUFFICES ASSUME l # <<>> PROVE ~ (w[n + 1] = "lf" /\ Last(l) = "cr")
      OBVIOUS
    <3>1. n # 0 /\ n \in 1 .. Len(w) - 1 /\ n \in 1 .. n
      BY <2>1, <2>3, EmptySeq
    <3>2. Last(l) = w[n]
      BY <2>3, <3>1 DEF Last
    <3> QED BY <3>1, <3>2 DEF NoBreak
  <2>7. f[n + 1] = [ended |-> <<>>, line |-> Append(l, w[n + 1])]
    BY <2>2, <2>4, <2>6 DEF TakeChar
  <2> QED BY <2>1, <2>5, <2>7
<1>4. \A n \in 0 .. Len(w) : n \in Good
  <2> HIDE DEF Good
  <2> QED BY <1>1, <1>2, <1>3, StepByStep
<1> QED BY <1>4

LEMMA OneLine ==
  ASSUME NEW S, NEW w \in Seq(S), NoBreak(w)
  PROVE  Lines(w) = <<w>>
<1>1. PICK f : IsSplit(f, w, S) /\ Lines(w) = Append(f[Len(w)].ended, f[Len(w)].line)
  BY LinesAreSplit
<1>2. Len(w) \in Nat /\ Len(w) <= Len(w)
  OBVIOUS
<1>3. f[Len(w)] = [ended |-> <<>>, line |-> SubSeq(w, 1, Len(w))]
  <2>1. \A n \in 0 .. Len(w) : f[n] = [ended |-> <<>>, line |-> SubSeq(w, 1, n)]
    BY <1>1, <1>2, LineGoesOn
  <2> QED BY <1>2, <2>1
<1>4. SubSeq(w, 1, Len(w)) = w
  OBVIOUS
<1> QED BY <1>1, <1>3, <1>4

LEMMA LinesAreLines ==
  ASSUME NEW S, NEW s \in Seq(S)
  PROVE  Lines(s) \in Seq(Seq(S))
<1>1. PICK f : IsSplit(f, s, S) /\ Lines(s) = Append(f[Len(s)].ended, f[Len(s)].line)
  BY LinesAreSplit
<1>2. Len(s) \in 0 .. Len(s)
  OBVIOUS
<1>3. f[Len(s)] \in SplitState(S)
  BY <1>1, <1>2 DEF IsSplit
<1>4. f[Len(s)].ended \in Seq(Seq(S)) /\ f[Len(s)].line \in Seq(S)
  BY <1>3 DEF SplitState
<1> QED BY <1>1, <1>4

(* split breaks a text behind its first line.                              *)
LEMMA LineByLine ==
  ASSUME NEW S, Symbols \subseteq S, NEW w \in Seq(S), NoBreak(w), NEW rest \in Seq(S)
  PROVE  /\ Lines(rest) \in Seq(Seq(S))
         /\ Lines(w \o CrLf \o rest) = <<w>> \o Lines(rest)
<1> DEFINE s == w \o CrLf \o rest
           k == Len(w) + 2
<1>1. /\ Len(w) \in Nat /\ Len(rest) \in Nat /\ k \in Nat
      /\ s \in Seq(S) /\ Len(s) = k + Len(rest)
      /\ \A i \in 1 .. Len(w) : s[i] = w[i]
      /\ s[Len(w) + 1] = "cr" /\ s[Len(w) + 2] = "lf"
      /\ \A i \in 1 .. Len(rest) : s[k + i] = rest[i]
  <2> DEFINE a == w \o CrLf
  <2>1. CrLf \in Seq(S) /\ Len(CrLf) = 2 /\ CrLf[1] = "cr" /\ CrLf[2] = "lf"
    BY CrLfIsText
  <2>2. Len(w) \in Nat /\ Len(rest) \in Nat /\ w \in Seq(S) /\ rest \in Seq(S)
    OBVIOUS
  <2>3. /\ a \in Seq(S) /\ Len(a) = Len(w) + 2
        /\ \A i \in 1 .. Len(w) : a[i] = w[i]
        /\ \A i \in 1 .. 2 : a[Len(w) + i] = CrLf[i]
    <3>0. CrLf \in Seq(S)
      BY <2>1
    <3>1. /\ w \o CrLf \in Seq(S) /\ Len(w \o CrLf) = Len(w) + Len(CrLf)
          /\ \A i \in 1 .. Len(w) : (w \o CrLf)[i] = w[i]
          /\ \A i \in 1 .. Len(CrLf) : (w \o CrLf)[Len(w) + i] = CrLf[i]
      BY ONLY <2>2, <3>0, Joining
    <3> QED BY <2>1, <3>1 DEF a
  <2>4. a[Len(w) + 1] = "cr" /\ a[Len(w) + 2] = "lf"
    <3>1. 1 \in 1 .. 2 /\ 2 \in 1 .. 2
      OBVIOUS
    <3> QED BY <2>1, <2>3, <3>1
  <2> HIDE DEF a
  <2>5. /\ a \o rest \in Seq(S) /\ Len(a \o rest) = Len(a) + Len(rest)
        /\ \A i \in 1 .. Len(a) : (a \o rest)[i] = a[i]
        /\ \A i \in 1 .. Len(rest) : (a \o rest)[Len(a) + i] = rest[i]
    <3>1. a \in Seq(S)
      BY <2>3
    <3> QED BY ONLY <2>2, <3>1, Joining
  <2>6. \A i \in 1 .. Len(w) + 2 : (a \o rest)[i] = a[i]
    BY <2>3, <2>5
  <2>7. s = a \o rest
    BY DEF a
  <2> HIDE DEF s
  <2>8. \A i \in 1 .. Len(w) : s[i] = w[i]
    BY <2>2, <2>3, <2>6, <2>7
  <2>9. s[Len(w) + 1] = "cr" /\ s[Len(w) + 2] = "lf"
    <3>1. Len(w) + 1 \in 1 .. Len(w) + 2 /\ Len(w) + 2 \in 1 .. Len(w) + 2
      BY <2>2
    <3> QED BY <2>4, <2>6, <2>7, <3>1
  <2>10. \A i \in 1 .. Len(rest) : s[k + i] = rest[i]
    BY <2>2, <2>3, <2>5, <2>7
  <2> QED BY <2>2, <2>3, <2>5, <2>7, <2>8, <2>9, <2>10
<1> HIDE DEF s
<1>2. PICK f : IsSplit(f, s, S) /\ Lines(s) = Append(f[Len(s)].ended, f[Len(s)].line)
  BY <1>1, LinesAreSplit
<1>3. PICK g : IsSplit(g, rest, S) /\ Lines(rest) = Append(g[Len(rest)].ended, g[Len(rest)].line)
  BY LinesAreSplit
<1>4. /\ \A i \in 1 .. Len(s) : f[i] = TakeChar(f[i - 1], s[i])
      /\ g \in [0 .. Len(rest) -> SplitState(S)] /\ g[0] = NoLine
      /\ \A i \in 1 .. Len(rest) : g[i] = TakeChar(g[i - 1], rest[i])
  BY <1>2, <1>3 DEF IsSplit
<1>5. f[k] = [ended |-> <<w>>, line |-> <<>>]
  <2>1. Len(w) <= Len(s)
    BY <1>1
  <2>2. \A n \in 0 .. Len(w) : f[n] = [ended |-> <<>>, line |-> SubSeq(w, 1, n)]
    <3>1. s \in Seq(S) /\ (\A i \in 1 .. Len(w) : s[i] = w[i]) /\ IsSplit(f, s, S)
      BY <1>1, <1>2
    <3> QED BY <2>1, <3>1, LineGoesOn, ZenonT(60)
  <2>3. f[Len(w)] = [ended |-> <<>>, line |-> w]
    <3>1. SubSeq(w, 1, Len(w)) = w /\ Len(w) \in 0 .. Len(w)
      BY <1>1
    <3> QED BY <2>2, <3>1
  <2>4. f[Len(w) + 1] = TakeChar(f[Len(w)], "cr")
    <3>1. Len(w) + 1 \in 1 .. Len(s) /\ Len(w) + 1 - 1 = Len(w)
      BY <1>1
    <3> QED BY <1>1, <1>4, <3>1
  <2>5. f[Len(w) + 2] = TakeChar(f[Len(w) + 1], "lf")
    <3>1. Len(w) + 2 \in 1 .. Len(s) /\ Len(w) + 2 - 1 = Len(w) + 1
      BY <1>1
    <3> QED BY <1>1, <1>4, <3>1
  <2>6. f[Len(w) + 1] = [ended |-> <<>>, line |-> Append(w, "cr")]
    BY <2>3, <2>4 DEF TakeChar
  <2> DEFINE l == Append(w, "cr")
  <2>7. l \in Seq(S) /\ Len(l) = Len(w) + 1 /\ l[Len(w) + 1] = "cr" /\ l # <<>>
        /\ \A i \in 1 .. Len(w) : l[i] = w[i]
    BY <1>1
  <2> HIDE DEF l
  <2>8. Last(l) = "cr" /\ Front(l) = w
    <3>1. Last(l) = "cr"
      BY <2>7 DEF Last
    <3>2. Front(l) = SubSeq(l, 1, Len(w))
      BY <1>1, <2>7 DEF Front
    <3>3. /\ SubSeq(l, 1, Len(w)) \in Seq(S) /\ Len(SubSeq(l, 1, Len(w))) = Len(w)
          /\ \A i \in 1 .. Len(w) : SubSeq(l, 1, Len(w))[i] = l[i]
      <4>1. Len(w) \in 0 .. Len(l)
        BY <1>1, <2>7
      <4> QED BY <2>7, <4>1, BeginningOf
    <3>4. SubSeq(l, 1, Len(w)) = w
      BY <2>7, <3>3, Extensional
    <3> QED BY <3>1, <3>2, <3>4
  <2>9. f[Len(w) + 2] = [ended |-> Append(<<>>, Front(l)), line |-> <<>>]
    BY <2>5, <2>6, <2>7, <2>8 DEF TakeChar, l
  <2> QED BY <2>8, <2>9
<1> DEFINE P(n) == f[k + n] = [ended |-> <<w>> \o g[n].ended, line |-> g[n].line]
           Good == {n \in 0 .. Len(rest) : P(n)}
<1>6. 0 \in Good
  <2>1. <<w>> \o <<>> = <<w>> /\ k + 0 = k
    BY <1>1
  <2> QED BY <1>1, <1>4, <1>5, <2>1 DEF NoLine
<1>7. ASSUME NEW n \in 0 .. Len(rest) - 1, n \in Good PROVE n + 1 \in Good
  <2>1. /\ n \in 0 .. Len(rest) /\ n + 1 \in 1 .. Len(rest) /\ n + 1 - 1 = n
        /\ k + (n + 1) \in 1 .. Len(s) /\ k + (n + 1) - 1 = k + n
    BY <1>1
  <2> DEFINE a == g[n].ended
             l == g[n].line
             ch == rest[n + 1]
  <2>2. g[n] \in SplitState(S)
    BY <1>4, <2>1
  <2>3. a \in Seq(Seq(S)) /\ g[n] = [ended |-> a, line |-> l]
    BY <2>2 DEF SplitState
  <2>4. f[k + n] = [ended |-> <<w>> \o a, line |-> l]
    BY <1>7
  <2>5. g[n + 1] = TakeChar(g[n], ch)
    BY <1>4, <2>1
  <2>6. f[k + (n + 1)] = TakeChar(f[k + n], ch)
    BY <1>1, <1>4, <2>1
  <2> HIDE DEF a, l, ch
  <2>7. CASE ch = "lf" /\ l # <<>> /\ Last(l) = "cr"
    <3>1. /\ g[n + 1] = [ended |-> Append(a, Front(l)), line |-> <<>>]
          /\ f[k + (n + 1)] = [ended |-> Append(<<w>> \o a, Front(l)), line |-> <<>>]
      BY <2>3, <2>4, <2>5, <2>6, <2>7 DEF TakeChar
    <3>2. Front(l) \in Seq(S)
      <4>1. l \in Seq(S) /\ Len(l) \in Nat /\ Len(l) - 1 \in 0 .. Len(l)
        BY <2>2, <2>7 DEF SplitState, l
      <4> QED BY <4>1, BeginningOf DEF Front
    <3>3. Append(<<w>> \o a, Front(l)) = <<w>> \o Append(a, Front(l))
      BY <2>3, <3>2, <<w>> \in Seq(Seq(S)), AppendBehind
    <3>4. g[n + 1].ended = Append(a, Front(l)) /\ g[n + 1].line = <<>>
      BY <3>1
    <3>5. P(n + 1)
      BY <3>1, <3>3, <3>4, Zenon
    <3> QED BY <2>1, <3>5
  <2>8. CASE ~ (ch = "lf" /\ l # <<>> /\ Last(l) = "cr")
    <3>1. /\ g[n + 1] = [ended |-> a, line |-> Append(l, ch)]
          /\ f[k + (n + 1)] = [ended |-> <<w>> \o a, line |-> Append(l, ch)]
      BY <2>3, <2>4, <2>5, <2>6, <2>8 DEF TakeChar
    <3>2. g[n + 1].ended = a /\ g[n + 1].line = Append(l, ch)
      BY <3>1
    <3>3. P(n + 1)
      BY <3>1, <3>2, Zenon
    <3> QED BY <2>1, <3>3
  <2> QED BY <2>7, <2>8
<1>8. \A n \in 0 .. Len(rest) : n \in Good
  <2> HIDE DEF Good
  <2> QED BY <1>1, <1>6, <1>7, StepByStep
<1> DEFINE last == g[Len(rest)]
<1>9. f[Len(s)] = [ended |-> <<w>> \o last.ended, line |-> last.line]
  <2>1. Len(rest) \in 0 .. Len(rest)
    BY <1>1
  <2>2. P(Len(rest))
    BY <1>8, <2>1
  <2>3. Len(s) = k + Len(rest)
    BY <1>1
  <2> QED BY <2>2, <2>3, Zenon
<1>10. last.ended \in Seq(Seq(S)) /\ last.line \in Seq(S)
  <2>1. last \in SplitState(S)
    BY <1>1, <1>4, SMTT(30)
  <2> QED BY <2>1 DEF SplitState
<1>11. Lines(s) = Append(<<w>> \o last.ended, last.line)
  BY <1>2, <1>9
<1>12. Append(<<w>> \o last.ended, last.line) = <<w>> \o Append(last.ended, last.line)
  <2> HIDE DEF last
  <2>1. <<w>> \in Seq(Seq(S))
    OBVIOUS
  <2> QED BY ONLY <1>10, <2>1, AppendBehind, SMTT(60)
<1>13. Lines(rest) = Append(last.ended, last.line)
  BY <1>3
<1>14. Append(last.ended, last.line) \in Seq(Seq(S))
  BY <1>10
<1> QED BY <1>11, <1>12, <1>13, <1>14 DEF s

-----------------------------------------------------------------------------
(* Numbers.                                                                *)
DigitChars == Range(Digits)

LEMMA DigitsAre ==
  /\ DigitChars = {"0", "1", "2", "3", "4", "5", "6", "7", "8", "9"}
  /\ \A n \in 0 .. 9 : Digits[n + 1] \in DigitChars /\ DigitValue(Digits[n + 1]) = n
  /\ \A ch \in DigitChars : DigitValue(ch) \in 0 .. 9
<1>1. /\ DOMAIN Digits = 1 .. 10
      /\ Digits[1] = "0" /\ Digits[2] = "1" /\ Digits[3] = "2" /\ Digits[4] = "3"
      /\ Digits[5] = "4" /\ Digits[6] = "5" /\ Digits[7] = "6" /\ Digits[8] = "7"
      /\ Digits[9] = "8" /\ Digits[10] = "9"
  BY DEF Digits
<1>2. \A i \in 1 .. 10 : \/ i = 1 \/ i = 2 \/ i = 3 \/ i = 4 \/ i = 5
                         \/ i = 6 \/ i = 7 \/ i = 8 \/ i = 9 \/ i = 10
  OBVIOUS
<1>3. \A i, j \in 1 .. 10 : Digits[i] = Digits[j] => i = j
  BY <1>1, <1>2
<1>4. DigitChars = {Digits[i] : i \in 1 .. 10}
  BY <1>1 DEF DigitChars, Range
<1>5. DigitChars = {"0", "1", "2", "3", "4", "5", "6", "7", "8", "9"}
  BY <1>1, <1>2, <1>4
<1>6. ASSUME NEW n \in 0 .. 9
      PROVE  Digits[n + 1] \in DigitChars /\ DigitValue(Digits[n + 1]) = n
  <2>1. n + 1 \in 1 .. 10
    OBVIOUS
  <2>2. \A m \in 0 .. 9 : Digits[m + 1] = Digits[n + 1] => m = n
    <3> SUFFICES ASSUME NEW m \in 0 .. 9, Digits[m + 1] = Digits[n + 1] PROVE m = n
      OBVIOUS
    <3>1. m + 1 \in 1 .. 10
      OBVIOUS
    <3>2. m + 1 = n + 1
      BY <1>3, <2>1, <3>1
    <3> QED BY <3>2
  <2>3. DigitValue(Digits[n + 1]) = n
    BY <2>2 DEF DigitValue
  <2> QED BY <1>4, <2>1, <2>3
<1>7. ASSUME NEW ch \in DigitChars PROVE DigitValue(ch) \in 0 .. 9
  <2>1. PICK i \in 1 .. 10 : ch = Digits[i]
    BY <1>4
  <2>2. i - 1 \in 0 .. 9 /\ Digits[i - 1 + 1] = ch
    BY <2>1
  <2> QED BY <1>6, <2>2
<1> QED BY <1>5, <1>6, <1>7

(* What the first digits are worth.                                        *)
IsValue(v, t) ==
  /\ v \in [0 .. Len(t) -> Nat]
  /\ v[0] = 0
  /\ \A i \in 1 .. Len(t) : v[i] = 10 * v[i - 1] + DigitValue(t[i])

LEMMA MagnitudeIsValue ==
  ASSUME NEW t \in Seq(DigitChars)
  PROVE  \E v : IsValue(v, t) /\ Magnitude(t) = v[Len(t)]
<1>1. Len(t) \in Nat /\ \A i \in 1 .. Len(t) : DigitValue(t[i]) \in Nat
  <2>1. \A i \in 1 .. Len(t) : t[i] \in DigitChars
    OBVIOUS
  <2> QED BY <2>1, DigitsAre, SMTT(60)
<1> DEFINE d == [i \in 1 .. Len(t) |-> DigitValue(t[i])]
<1>2. \A i \in 1 .. Len(t) : d[i] \in Nat /\ d[i] = DigitValue(t[i])
  BY <1>1
<1> HIDE DEF d
<1> DEFINE step == [i \in 1 .. Len(t) |-> [n \in Nat |-> 10 * n + d[i]]]
<1>3. step \in [1 .. Len(t) -> [Nat -> Nat]]
  BY <1>2
<1>4. PICK g : Iterates(g, Nat, Len(t), 0, step)
  <2> HIDE DEF step
  <2> QED BY <1>1, <1>3, IterationExists
<1>5. /\ g \in [0 .. Len(t) -> Nat] /\ g[0] = 0
      /\ \A i \in 1 .. Len(t) : g[i] = step[i][g[i - 1]]
  BY <1>4 DEF Iterates
<1>6. ASSUME NEW i \in 1 .. Len(t) PROVE g[i] = 10 * g[i - 1] + DigitValue(t[i])
  <2>1. g[i - 1] \in Nat
    <3>1. i - 1 \in 0 .. Len(t)
      BY <1>1
    <3> QED BY <1>5, <3>1
  <2> QED BY <1>2, <1>5, <2>1
<1> DEFINE value[i \in 0 .. Len(t)] ==
             IF i = 0 THEN 0 ELSE 10 * value[i - 1] + DigitValue(t[i])
           IsF(f) == f = [i \in 0 .. Len(t) |->
             IF i = 0 THEN 0 ELSE 10 * f[i - 1] + DigitValue(t[i])]
<1>7. IsF(g)
  <2>1. \A i \in 0 .. Len(t) : i = 0 \/ i \in 1 .. Len(t)
    BY <1>1
  <2>2. \A i \in 0 .. Len(t) : g[i] = IF i = 0 THEN 0 ELSE 10 * g[i - 1] + DigitValue(t[i])
    BY <1>5, <1>6, <2>1, Zenon
  <2>3. g = [i \in 0 .. Len(t) |-> g[i]]
    BY <1>5
  <2> QED BY <2>2, <2>3, Zenon
<1>8. IsF(value)
  <2>1. value = CHOOSE f : IsF(f)
    OBVIOUS
  <2> HIDE DEF value, IsF
  <2> QED BY <1>7, <2>1, Zenon
<1>9. Magnitude(t) = value[Len(t)]
  BY DEF Magnitude
<1> HIDE DEF value
<1>10. value[0] = 0 /\ \A i \in 1 .. Len(t) : value[i] = 10 * value[i - 1] + DigitValue(t[i])
  BY <1>1, <1>8
<1>11. value \in [0 .. Len(t) -> Nat]
  <2> DEFINE Good == {i \in 0 .. Len(t) : value[i] \in Nat}
  <2>1. 0 \in Good
    BY <1>1, <1>10
  <2>2. ASSUME NEW n \in 0 .. Len(t) - 1, n \in Good PROVE n + 1 \in Good
    <3>1. n + 1 \in 1 .. Len(t) /\ n + 1 - 1 = n
      BY <1>1
    <3>2. value[n + 1] = 10 * value[n] + DigitValue(t[n + 1])
      BY <1>10, <3>1
    <3>3. value[n] \in Nat /\ DigitValue(t[n + 1]) \in Nat
      BY <1>1, <2>2, <3>1
    <3>4. value[n + 1] \in Nat
      BY <3>2, <3>3
    <3> QED BY <1>1, <3>1, <3>4
  <2>3. \A n \in 0 .. Len(t) : n \in Good
    <3> HIDE DEF Good
    <3> QED BY <1>1, <2>1, <2>2, StepByStep
  <2> QED BY <1>8, <2>3
<1> QED BY <1>9, <1>10, <1>11 DEF IsValue

(* One more digit is worth ten times what came before it, and itself.      *)
LEMMA MagnitudeOfMore ==
  ASSUME NEW t \in Seq(DigitChars), NEW ch \in DigitChars
  PROVE  /\ Magnitude(t) \in Nat
         /\ Magnitude(Append(t, ch)) = 10 * Magnitude(t) + DigitValue(ch)
<1> DEFINE u == Append(t, ch)
<1>1. /\ u \in Seq(DigitChars) /\ Len(u) = Len(t) + 1 /\ u[Len(t) + 1] = ch
      /\ Len(t) \in Nat /\ \A i \in 1 .. Len(t) : u[i] = t[i]
  OBVIOUS
<1> HIDE DEF u
<1>2. PICK v : IsValue(v, t) /\ Magnitude(t) = v[Len(t)]
  BY MagnitudeIsValue
<1>3. PICK w : IsValue(w, u) /\ Magnitude(u) = w[Len(u)]
  BY <1>1, MagnitudeIsValue
<1>4. /\ v \in [0 .. Len(t) -> Nat] /\ v[0] = 0
      /\ \A i \in 1 .. Len(t) : v[i] = 10 * v[i - 1] + DigitValue(t[i])
  BY <1>2 DEF IsValue
<1>5. /\ w[0] = 0
      /\ \A i \in 1 .. Len(t) + 1 : w[i] = 10 * w[i - 1] + DigitValue(u[i])
  BY <1>1, <1>3 DEF IsValue
<1> DEFINE Good == {n \in 0 .. Len(t) : v[n] = w[n]}
<1>6. 0 \in Good
  BY <1>1, <1>4, <1>5
<1>7. ASSUME NEW n \in 0 .. Len(t) - 1, n \in Good PROVE n + 1 \in Good
  <2>1. n + 1 \in 1 .. Len(t) /\ n + 1 \in 1 .. Len(t) + 1 /\ n + 1 - 1 = n
    BY <1>1
  <2>2. v[n + 1] = 10 * v[n] + DigitValue(t[n + 1])
    BY <1>4, <2>1
  <2>3. w[n + 1] = 10 * w[n] + DigitValue(t[n + 1])
    BY <1>1, <1>5, <2>1
  <2>4. v[n] = w[n]
    BY <1>7
  <2> QED BY <1>1, <2>1, <2>2, <2>3, <2>4
<1>8. \A n \in 0 .. Len(t) : n \in Good
  <2> HIDE DEF Good
  <2> QED BY <1>1, <1>6, <1>7, StepByStep
<1>9. w[Len(t)] = v[Len(t)] /\ v[Len(t)] \in Nat
  BY <1>1, <1>4, <1>8
<1>10. w[Len(t) + 1] = 10 * w[Len(t)] + DigitValue(ch)
  <2>1. Len(t) + 1 \in 1 .. Len(t) + 1 /\ Len(t) + 1 - 1 = Len(t)
    BY <1>1
  <2> QED BY <1>1, <1>5, <2>1
<1>11. Magnitude(u) = 10 * Magnitude(t) + DigitValue(ch)
  BY <1>1, <1>2, <1>3, <1>9, <1>10
<1> QED BY <1>2, <1>9, <1>11 DEF u

(* Decimal, as far as N: its value needs smaller numbers only.             *)
DecimalStep(g, n) ==
  IF n < 10 THEN <<Digits[n + 1]>> ELSE Append(g[n \div 10], Digits[(n % 10) + 1])
IsDecimal(g, N) == g = [n \in 0 .. N |-> DecimalStep(g, n)]

LEMMA DecimalAgrees ==
  ASSUME NEW N \in Nat, NEW M \in Nat, NEW g, NEW h, IsDecimal(g, N), IsDecimal(h, M)
  PROVE  \A n \in Nat : n <= N /\ n <= M => g[n] = h[n]
<1>1. /\ \A n \in 0 .. N : g[n] = DecimalStep(g, n)
      /\ \A n \in 0 .. M : h[n] = DecimalStep(h, n)
  BY DEF IsDecimal
<1> DEFINE Wrong == {n \in Nat : n <= N /\ n <= M /\ g[n] # h[n]}
<1> SUFFICES ASSUME Wrong # {} PROVE FALSE
  OBVIOUS
<1>2. PICK n \in Wrong : \A m \in Wrong : n <= m
  <2>1. Wrong \subseteq Nat
    OBVIOUS
  <2> HIDE DEF Wrong
  <2> QED BY <2>1, LeastNumber
<1>3. n \in Nat /\ n <= N /\ n <= M /\ g[n] # h[n]
  BY <1>2
<1>4. g[n] = DecimalStep(g, n) /\ h[n] = DecimalStep(h, n)
  BY <1>1, <1>3
<1>5. CASE n < 10
  BY <1>3, <1>4, <1>5 DEF DecimalStep
<1>6. CASE ~ (n < 10)
  <2>1. n \div 10 \in Nat /\ n \div 10 < n
    BY <1>3, <1>6
  <2>2. n \div 10 <= N /\ n \div 10 <= M
    BY <1>3, <2>1
  <2>3. n \div 10 \notin Wrong
    BY <1>2, <1>3, <2>1
  <2>4. g[n \div 10] = h[n \div 10]
    BY <2>1, <2>2, <2>3
  <2> QED BY <1>3, <1>4, <1>6, <2>4 DEF DecimalStep
<1> QED BY <1>5, <1>6

LEMMA DecimalExists ==
  ASSUME NEW N \in Nat
  PROVE  \E g : IsDecimal(g, N)
<1> DEFINE Some == {n \in Nat : \E g : IsDecimal(g, n)}
<1>1. 0 \in Some
  <2> DEFINE g == [n \in 0 .. 0 |-> <<Digits[n + 1]>>]
  <2>1. \A n \in 0 .. 0 : <<Digits[n + 1]>> = DecimalStep(g, n)
    BY DEF DecimalStep
  <2>2. g = [n \in 0 .. 0 |-> DecimalStep(g, n)]
    BY <2>1
  <2>3. IsDecimal(g, 0)
    BY <2>2 DEF IsDecimal
  <2> QED BY <2>3
<1>2. ASSUME NEW n \in 0 .. N - 1, n \in Some PROVE n + 1 \in Some
  <2>1. PICK g : IsDecimal(g, n)
    BY <1>2
  <2> DEFINE h == [m \in 0 .. n + 1 |-> IF m = n + 1 THEN DecimalStep(g, n + 1) ELSE g[m]]
  <2>2. n \in Nat /\ g = [m \in 0 .. n |-> DecimalStep(g, m)]
    BY <2>1 DEF IsDecimal
  <2>3. \A m \in 0 .. n : h[m] = g[m] /\ h[m] = DecimalStep(g, m)
    BY <2>2
  <2>4. h[n + 1] = DecimalStep(g, n + 1) /\ h = [m \in 0 .. n + 1 |-> h[m]]
    BY <2>2
  <2> HIDE DEF h
  <2>5. ASSUME NEW m \in 0 .. n + 1 PROVE h[m] = DecimalStep(h, m)
    <3>1. h[m] = DecimalStep(g, m)
      <4>1. m = n + 1 \/ m \in 0 .. n
        BY <2>2
      <4> QED BY <2>3, <2>4, <4>1
    <3>2. CASE m < 10
      BY <3>1, <3>2 DEF DecimalStep
    <3>3. CASE ~ (m < 10)
      <4>1. m \div 10 \in 0 .. n
        BY <2>2, <3>3
      <4>2. h[m \div 10] = g[m \div 10]
        BY <2>3, <4>1
      <4> QED BY <3>1, <3>3, <4>2 DEF DecimalStep
    <3> QED BY <3>2, <3>3
  <2>6. IsDecimal(h, n + 1)
    BY <2>4, <2>5, Zenon DEF IsDecimal
  <2> QED BY <2>2, <2>6
<1>3. \A n \in 0 .. N : n \in Some
  <2> HIDE DEF Some
  <2> QED BY <1>1, <1>2, StepByStep
<1>4. N \in Some
  BY <1>3
<1> QED BY <1>4

(* to_string, by its last digit.                                           *)
LEMMA DecimalIs ==
  \A n \in Nat : Decimal[n] = DecimalStep(Decimal, n)
<1> DEFINE Up(n) == CHOOSE g : IsDecimal(g, n)
           F == [n \in Nat |-> Up(n)[n]]
           IsF(f) == f = [n \in Nat |-> IF n < 10 THEN <<Digits[n + 1]>>
                                        ELSE Append(f[n \div 10], Digits[(n % 10) + 1])]
<1>1. \A n \in Nat : IsDecimal(Up(n), n)
  BY DecimalExists
<1>2. \A n \in Nat : F[n] = Up(n)[n]
  OBVIOUS
<1>3. F = [n \in Nat |-> F[n]]
  OBVIOUS
<1> HIDE DEF Up, F
<1>4. ASSUME NEW n \in Nat PROVE F[n] = DecimalStep(F, n)
  <2>1. IsDecimal(Up(n), n)
    BY <1>1
  <2>2. Up(n)[n] = DecimalStep(Up(n), n)
    BY <2>1 DEF IsDecimal
  <2>3. CASE n < 10
    BY <1>2, <2>2, <2>3 DEF DecimalStep
  <2>4. CASE ~ (n < 10)
    <3>1. n \div 10 \in Nat /\ n \div 10 <= n
      BY <2>4
    <3>2. IsDecimal(Up(n \div 10), n \div 10)
      BY <1>1, <3>1
    <3>3. Up(n)[n \div 10] = Up(n \div 10)[n \div 10]
      <4>1. \A m \in Nat : m <= n /\ m <= n \div 10 => Up(n)[m] = Up(n \div 10)[m]
        BY <2>1, <3>1, <3>2, DecimalAgrees
      <4> QED BY <3>1, <4>1
    <3>4. F[n \div 10] = Up(n)[n \div 10]
      BY <1>2, <3>1, <3>3
    <3> QED BY <1>2, <2>2, <2>4, <3>4 DEF DecimalStep
  <2> QED BY <2>3, <2>4
<1>5. IsF(F)
  BY <1>3, <1>4, Zenon DEF DecimalStep
<1>6. IsF(Decimal)
  <2>1. Decimal = CHOOSE f : IsF(f)
    BY DEF Decimal
  <2> HIDE DEF IsF
  <2> QED BY <1>5, <2>1, Zenon
<1> QED BY <1>6 DEF DecimalStep

(* src/parser.rs:106 against src/utils.rs:26: a number is read as it was   *)
(* written.                                                                *)
LEMMA DecimalFacts ==
  ASSUME NEW n \in Nat
  PROVE  /\ Decimal[n] \in Seq(DigitChars)
         /\ Len(Decimal[n]) \in Nat \ {0}
         /\ Magnitude(Decimal[n]) = n
<1> DEFINE Right(m) == /\ Decimal[m] \in Seq(DigitChars)
                       /\ Len(Decimal[m]) \in Nat \ {0}
                       /\ Magnitude(Decimal[m]) = m
           Wrong == {m \in Nat : ~ Right(m)}
<1> SUFFICES ASSUME Wrong # {} PROVE FALSE
  OBVIOUS
<1>1. PICK k \in Wrong : \A m \in Wrong : k <= m
  <2>1. Wrong \subseteq Nat
    OBVIOUS
  <2> HIDE DEF Wrong
  <2> QED BY <2>1, LeastNumber
<1>2. k \in Nat /\ ~ Right(k)
  BY <1>1
<1>3. Decimal[k] = DecimalStep(Decimal, k)
  BY <1>2, DecimalIs
<1>4. CASE k < 10
  <2> DEFINE d == Digits[k + 1]
  <2>1. d \in DigitChars /\ DigitValue(d) = k
    <3>1. k \in 0 .. 9
      BY <1>2, <1>4
    <3>2. \A m \in 0 .. 9 : Digits[m + 1] \in DigitChars /\ DigitValue(Digits[m + 1]) = m
      BY DigitsAre
    <3> QED BY <3>1, <3>2
  <2> HIDE DEF d
  <2>2. <<>> \in Seq(DigitChars) /\ Append(<<>>, d) = <<d>>
    OBVIOUS
  <2>3. Magnitude(<<>>) = 0
    <3>1. PICK v : IsValue(v, <<>>) /\ Magnitude(<<>>) = v[Len(<<>>)]
      BY <2>2, MagnitudeIsValue
    <3> QED BY <3>1 DEF IsValue
  <2>4. Magnitude(<<d>>) = k
    <3>1. Magnitude(Append(<<>>, d)) = 10 * Magnitude(<<>>) + DigitValue(d)
      BY ONLY <2>1, <2>2, MagnitudeOfMore
    <3> QED BY <1>2, <2>1, <2>2, <2>3, <3>1
  <2>5. Decimal[k] = <<d>>
    BY <1>3, <1>4 DEF DecimalStep, d
  <2>6. <<d>> \in Seq(DigitChars) /\ Len(<<d>>) \in Nat \ {0}
    BY <2>1
  <2> QED BY <1>2, <2>4, <2>5, <2>6
<1>5. CASE ~ (k < 10)
  <2> DEFINE q == k \div 10
             t == Decimal[q]
             d == Digits[(k % 10) + 1]
  <2>1. q \in Nat /\ q < k /\ k = 10 * q + (k % 10) /\ k % 10 \in 0 .. 9
    BY <1>2, <1>5
  <2>2. q \notin Wrong
    BY <1>1, <1>2, <2>1
  <2>3. t \in Seq(DigitChars) /\ Len(t) \in Nat \ {0} /\ Magnitude(t) = q
    BY <2>1, <2>2
  <2>4. d \in DigitChars /\ DigitValue(d) = k % 10
    BY <2>1, DigitsAre
  <2>5. Decimal[k] = Append(t, d)
    BY <1>3, <1>5 DEF DecimalStep
  <2> HIDE DEF q, t, d
  <2>6. Magnitude(Append(t, d)) = k
    BY <2>1, <2>3, <2>4, MagnitudeOfMore
  <2>7. Append(t, d) \in Seq(DigitChars) /\ Len(Append(t, d)) \in Nat \ {0}
    BY <2>3, <2>4
  <2> QED BY <1>2, <2>5, <2>6, <2>7
<1> QED BY <1>4, <1>5

LEMMA DecimalIsInt ==
  ASSUME NEW n \in Nat
  PROVE  IsInt(Decimal[n]) /\ IntOf(Decimal[n]) = n
<1> DEFINE t == Decimal[n]
<1>1. t \in Seq(DigitChars) /\ Len(t) \in Nat \ {0} /\ Magnitude(t) = n
  BY DecimalFacts
<1> HIDE DEF t
<1>2. 1 \in 1 .. Len(t) /\ t # <<>> /\ \A i \in 1 .. Len(t) : t[i] \in DigitChars
  BY <1>1
<1>3. t[1] \notin {"+", "-"}
  BY <1>2, DigitsAre
<1>4. Unsigned(t) = t
  BY <1>3 DEF Unsigned
<1>5. IsInt(t)
  BY <1>1, <1>2, <1>4 DEF IsInt, IsDigit, DigitChars
<1>6. IntOf(t) = n
  BY <1>1, <1>3, <1>4 DEF IntOf
<1> QED BY <1>5, <1>6 DEF t

LEMMA IntFacts ==
  ASSUME NEW S, NEW t \in Seq(S), IsInt(t)
  PROVE  /\ IntOf(t) \in Int
         /\ t[1] # "-" => IntOf(t) \in Nat
         /\ t # <<>> /\ t[1] \in DigitChars \cup {"+", "-"}
<1> DEFINE u == Unsigned(t)
<1>1. u \in Seq(S)
  BY DEF Unsigned
<1>2. u # <<>> /\ \A i \in DOMAIN u : u[i] \in DigitChars
  BY DEF IsInt, IsDigit, DigitChars
<1>3. u \in Seq(DigitChars)
  <2> HIDE DEF u
  <2>1. Len(u) \in Nat /\ DOMAIN u = 1 .. Len(u) /\ u = [i \in 1 .. Len(u) |-> u[i]]
    BY <1>1
  <2>2. u \in [1 .. Len(u) -> DigitChars]
    BY <1>2, <2>1
  <2> QED BY <2>1, <2>2, TupleIsSeq
<1>4. Magnitude(u) \in Nat
  <2> HIDE DEF u
  <2>1. PICK v : IsValue(v, u) /\ Magnitude(u) = v[Len(u)]
    BY <1>3, MagnitudeIsValue
  <2>2. Len(u) \in 0 .. Len(u)
    BY <1>3
  <2> QED BY <2>1, <2>2 DEF IsValue
<1>5. IntOf(t) = IF t[1] = "-" THEN - Magnitude(u) ELSE Magnitude(u)
  BY DEF IntOf
<1>6. t # <<>> /\ t[1] \in DigitChars \cup {"+", "-"}
  <2>1. t # <<>>
    BY <1>2 DEF Unsigned
  <2>2. CASE t[1] \in {"+", "-"}
    BY <2>1, <2>2
  <2>3. CASE t[1] \notin {"+", "-"}
    <3>1. u = t
      BY <2>3 DEF Unsigned
    <3>2. 1 \in DOMAIN t
      BY <2>1
    <3> QED BY <1>2, <2>1, <3>1, <3>2
  <2> QED BY <2>2, <2>3
<1> HIDE DEF u
<1> QED BY <1>4, <1>5, <1>6

LEMMA DigitsAreInt ==
  ASSUME NEW t \in Seq(DigitChars), t # <<>>
  PROVE  IsInt(t) /\ IntOf(t) \in Nat
<1>1. 1 \in 1 .. Len(t) /\ \A i \in 1 .. Len(t) : t[i] \in DigitChars
  BY ElementOfSeq
<1>2. t[1] \notin {"+", "-"}
  BY <1>1, DigitsAre
<1>3. Unsigned(t) = t
  BY <1>2 DEF Unsigned
<1>4. IsInt(t)
  BY <1>1, <1>3 DEF IsInt, IsDigit, DigitChars
<1>5. t[1] # "-"
  BY <1>2
<1> QED BY <1>4, <1>5, IntFacts

LEMMA NoIntBeforeBreak ==
  ASSUME NEW S, NEW t \in Seq(S), t # <<>>, t[Len(t)] = "cr"
  PROVE  ~ IsInt(t)
<1> DEFINE u == Unsigned(t)
<1> SUFFICES ASSUME IsInt(t) PROVE FALSE
  OBVIOUS
<1>1. u # <<>> /\ \A i \in DOMAIN u : u[i] \in DigitChars
  BY DEF IsInt, IsDigit, DigitChars
<1>2. Len(t) \in Nat \ {0} /\ "cr" \notin DigitChars
  BY DigitsAre
<1>3. CASE t[1] \in {"+", "-"}
  <2>1. u = Tail(t)
    BY <1>3 DEF Unsigned
  <2>2. u \in Seq(S) /\ Len(u) = Len(t) - 1 /\ \A i \in 1 .. Len(u) : u[i] = t[i + 1]
    BY <1>2, <2>1
  <2>3. Len(u) \in Nat \ {0} /\ Len(u) + 1 = Len(t) /\ Len(u) \in DOMAIN u
    BY <1>1, <1>2, <2>2
  <2>4. u[Len(u)] = "cr"
    <3> HIDE DEF u
    <3> QED BY <2>2, <2>3
  <2> QED BY <1>1, <1>2, <2>3, <2>4
<1>4. CASE t[1] \notin {"+", "-"}
  <2>1. u = t
    BY <1>4 DEF Unsigned
  <2>2. Len(t) \in DOMAIN t
    BY <1>2
  <2> QED BY <1>1, <1>2, <2>1, <2>2
<1> QED BY <1>3, <1>4

(* A line announces a number of values.                                    *)
LEMMA CountIsNat ==
  ASSUME NEW S, NEW w \in Seq(S)
  PROVE  CountQoda(w) \in Nat
<1>1. CASE Len(w) < 2 \/ w[1] \notin {"$", "*"} \/ ~ IsInt(Tail(w))
  BY <1>1 DEF CountQoda
<1>2. CASE ~ (Len(w) < 2 \/ w[1] \notin {"$", "*"} \/ ~ IsInt(Tail(w)))
  <2> DEFINE n == IntOf(Tail(w))
  <2>1. Len(w) \in Nat /\ w # <<>>
    BY <1>2
  <2>2. Tail(w) \in Seq(S)
    BY <2>1
  <2>3. n \in Int
    BY <1>2, <2>2, IntFacts
  <2>4. CountQoda(w) = IF n < 0 THEN 0 ELSE IF w[1] = "$" THEN 1 ELSE n
    BY <1>2 DEF CountQoda
  <2> HIDE DEF n
  <2> QED BY <2>3, <2>4
<1> QED BY <1>1, <1>2

-----------------------------------------------------------------------------
(* Headers, and strings behind them.                                       *)
Header(symbol, n) == <<symbol>> \o Decimal[n]

LEMMA HeaderFacts ==
  ASSUME NEW S, Symbols \subseteq S, NEW symbol \in {"$", "*"}, NEW n \in Nat
  PROVE  /\ Header(symbol, n) \in Seq(S)
         /\ Len(Header(symbol, n)) \in Nat /\ Len(Header(symbol, n)) >= 2
         /\ Header(symbol, n)[1] = symbol
         /\ Tail(Header(symbol, n)) = Decimal[n]
         /\ NoBreak(Header(symbol, n))
<1> DEFINE t == Decimal[n]
           h == <<symbol>> \o t
<1>1. t \in Seq(DigitChars) /\ Len(t) \in Nat \ {0}
  BY DecimalFacts
<1>2. DigitChars \subseteq S /\ symbol \in S /\ "cr" \notin DigitChars /\ symbol # "cr"
  BY DigitsAre DEF Symbols, DigitChars
<1> HIDE DEF t
<1>3. \A i \in 1 .. Len(t) : t[i] \in DigitChars /\ t[i] \in S
  <2>1. t \in Seq(DigitChars)
    BY <1>1
  <2>2. \A i \in 1 .. Len(t) : t[i] \in DigitChars
    BY ONLY <2>1, ElementOfSeq
  <2> QED BY ONLY <1>2, <2>2
<1>4. t \in Seq(S)
  BY <1>1, <1>2, SeqMonotonic
<1>5. /\ h \in Seq(S) /\ Len(h) = Len(t) + 1 /\ h[1] = symbol
      /\ \A i \in 1 .. Len(t) : h[i + 1] = t[i]
  <2>1. <<symbol>> \in Seq(S) /\ Len(<<symbol>>) = 1 /\ <<symbol>>[1] = symbol
    BY <1>2
  <2> DEFINE a == <<symbol>>
  <2> HIDE DEF a
  <2>2. a \in Seq(S) /\ Len(a) = 1 /\ a[1] = symbol /\ h = a \o t
    BY <2>1 DEF a
  <2>3. /\ a \o t \in Seq(S) /\ Len(a \o t) = Len(a) + Len(t)
        /\ \A i \in 1 .. Len(a) : (a \o t)[i] = a[i]
        /\ \A i \in 1 .. Len(t) : (a \o t)[Len(a) + i] = t[i]
    <3>1. a \in Seq(S)
      BY <2>2
    <3> QED BY ONLY <1>4, <3>1, Joining
  <2> HIDE DEF h
  <2>4. \A i \in 1 .. Len(t) : h[i + 1] = t[i]
    <3>1. \A i \in 1 .. Len(t) : i + 1 = Len(a) + i
      BY <1>1, <2>2
    <3> QED BY <2>2, <2>3, <3>1
  <2>5. h[1] = symbol
    BY <2>2, <2>3, 1 \in 1 .. 1
  <2> QED BY <1>1, <2>2, <2>3, <2>4, <2>5
<1> HIDE DEF h
<1>6. h[1] = symbol /\ \A i \in 1 .. Len(h) : h[i] # "cr"
  <2>1. ASSUME NEW i \in 1 .. Len(h) PROVE h[i] # "cr"
    <3>1. i = 1 \/ (i - 1 \in 1 .. Len(t) /\ i - 1 + 1 = i)
      BY <1>1, <1>5
    <3> QED BY <1>2, <1>3, <1>5, <3>1
  <2> QED BY <1>5, <2>1
<1>7. NoBreak(h)
  <2>1. \A i \in 1 .. Len(h) - 1 : i \in 1 .. Len(h)
    BY <1>1, <1>5
  <2> QED BY <1>6, <2>1 DEF NoBreak
<1>8. Tail(h) = t
  <2>1. h # <<>> /\ Len(h) \in Nat
    BY <1>1, <1>5
  <2>2. Tail(h) \in Seq(S) /\ Len(Tail(h)) = Len(t)
        /\ \A i \in 1 .. Len(t) : Tail(h)[i] = h[i + 1]
    BY <1>1, <1>5, <2>1
  <2>3. \A i \in 1 .. Len(t) : Tail(h)[i] = t[i]
    BY <1>5, <2>2
  <2> QED BY <1>4, <2>2, <2>3, Extensional
<1>9. Len(h) \in Nat /\ Len(h) >= 2
  BY <1>1, <1>5
<1> QED BY <1>5, <1>6, <1>7, <1>8, <1>9 DEF Header, h, t

LEMMA BulkHeaderCounts ==
  ASSUME NEW n \in Nat
  PROVE  CountQoda(Header("$", n)) = 1
<1> DEFINE h == Header("$", n)
<1>1. Len(h) \in Nat /\ Len(h) >= 2 /\ h[1] = "$" /\ Tail(h) = Decimal[n]
  BY HeaderFacts
<1>2. IsInt(Tail(h)) /\ IntOf(Tail(h)) = n
  BY <1>1, DecimalIsInt
<1> HIDE DEF h
<1>3. ~ (Len(h) < 2 \/ h[1] \notin {"$", "*"} \/ ~ IsInt(Tail(h))) /\ ~ (n < 0)
  BY <1>1, <1>2
<1>4. CountQoda(h) = 1
  BY <1>1, <1>2, <1>3 DEF CountQoda
<1> QED BY <1>4 DEF h

LEMMA BulkTextFacts ==
  ASSUME NEW S, Symbols \subseteq S, NEW t \in Seq(S)
  PROVE  /\ BulkText(t) \in Seq(S) /\ Len(BulkText(t)) \in Nat /\ Len(BulkText(t)) >= 4
         /\ BulkText(t)[1] = "$"
<1> DEFINE h == Header("$", Len(t))
           a == h \o CrLf
           b == a \o t
<1>1. Len(t) \in Nat
  OBVIOUS
<1>2. h \in Seq(S) /\ Len(h) \in Nat /\ Len(h) >= 2 /\ h[1] = "$"
  BY <1>1, HeaderFacts
<1>3. BulkText(t) = b \o CrLf
  BY DEF BulkText, Header
<1>4. CrLf \in Seq(S) /\ Len(CrLf) = 2
  BY CrLfIsText
<1> HIDE DEF h
<1>5. a \in Seq(S) /\ Len(a) = Len(h) + Len(CrLf) /\ \A i \in 1 .. Len(h) : a[i] = h[i]
  <2>1. h \in Seq(S) /\ CrLf \in Seq(S)
    BY <1>2, <1>4
  <2> QED BY ONLY <2>1, Joining
<1> HIDE DEF a
<1>6. b \in Seq(S) /\ Len(b) = Len(a) + Len(t) /\ \A i \in 1 .. Len(a) : b[i] = a[i]
  <2>1. a \in Seq(S) /\ t \in Seq(S)
    BY <1>5
  <2> QED BY ONLY <2>1, Joining
<1> HIDE DEF b
<1>7. /\ b \o CrLf \in Seq(S) /\ Len(b \o CrLf) = Len(b) + Len(CrLf)
      /\ \A i \in 1 .. Len(b) : (b \o CrLf)[i] = b[i]
  <2>1. b \in Seq(S) /\ CrLf \in Seq(S)
    BY <1>4, <1>6
  <2> QED BY ONLY <2>1, Joining
<1>8. 1 \in 1 .. Len(h) /\ 1 \in 1 .. Len(a) /\ 1 \in 1 .. Len(b)
  BY <1>1, <1>2, <1>4, <1>5, <1>6
<1>9. (b \o CrLf)[1] = "$"
  BY <1>2, <1>5, <1>6, <1>7, <1>8
<1>10. Len(b \o CrLf) \in Nat /\ Len(b \o CrLf) >= 4
  BY <1>1, <1>2, <1>4, <1>5, <1>6, <1>7
<1> QED BY <1>3, <1>7, <1>9, <1>10

LEMMA BulkLines ==
  ASSUME NEW S, Symbols \subseteq S, NEW t \in Seq(S), NoBreak(t), NEW rest \in Seq(S)
  PROVE  /\ Lines(rest) \in Seq(Seq(S))
         /\ Lines(BulkText(t) \o rest) = <<Header("$", Len(t)), t>> \o Lines(rest)
<1> DEFINE h == Header("$", Len(t))
           a == h \o CrLf
           c == t \o CrLf
<1>1. h \in Seq(S) /\ NoBreak(h) /\ CrLf \in Seq(S)
  BY HeaderFacts, CrLfIsText
<1>2. BulkText(t) = (a \o t) \o CrLf
  BY DEF BulkText, Header
<1> HIDE DEF h
<1>3. a \in Seq(S) /\ c \in Seq(S)
  <2>1. h \in Seq(S) /\ CrLf \in Seq(S) /\ t \in Seq(S)
    BY <1>1
  <2>2. a \in Seq(S)
    BY ONLY <2>1, Joining
  <2>3. c \in Seq(S)
    BY ONLY <2>1, Joining
  <2> QED BY <2>2, <2>3
<1>4. BulkText(t) \o rest = a \o (c \o rest)
  <2>1. t \in Seq(S) /\ rest \in Seq(S) /\ CrLf \in Seq(S)
    BY <1>1
  <2> HIDE DEF a
  <2>2. (a \o t) \o CrLf = a \o (t \o CrLf)
    BY ONLY <1>3, <2>1, Regrouped
  <2>3. (a \o c) \o rest = a \o (c \o rest)
    <3> HIDE DEF c
    <3>1. a \in Seq(S) /\ c \in Seq(S) /\ rest \in Seq(S)
      BY <1>3
    <3> QED BY ONLY <3>1, Regrouped
  <2> QED BY <1>2, <2>2, <2>3
<1>5. c \o rest \in Seq(S)
  BY <1>3, Joining
<1>6. Lines(rest) \in Seq(Seq(S)) /\ Lines(c \o rest) = <<t>> \o Lines(rest)
  BY LineByLine
<1>7. Lines(a \o (c \o rest)) = <<h>> \o Lines(c \o rest)
  <2> DEFINE r == c \o rest
  <2>1. r \in Seq(S)
    BY <1>5
  <2> HIDE DEF r
  <2>2. Lines(h \o CrLf \o r) = <<h>> \o Lines(r)
    BY <1>1, <2>1, LineByLine
  <2> QED BY <2>2 DEF r
<1>8. <<h>> \o (<<t>> \o Lines(rest)) = <<h, t>> \o Lines(rest)
  <2>1. <<h>> \in Seq(Seq(S)) /\ <<t>> \in Seq(Seq(S)) /\ <<h>> \o <<t>> = <<h, t>>
    BY <1>1, Pair
  <2> QED BY <1>6, <2>1, ConcatAssociative
<1> QED BY <1>4, <1>6, <1>7, <1>8 DEF h

(* src/parser.rs:99-123: a string is read as it was written.               *)
LEMMA BulkRead ==
  ASSUME NEW S, Symbols \subseteq S, NEW t \in Seq(S), NoBreak(t)
  PROVE  ParseBulkString(BulkText(t)) = Bulk(t)
<1> DEFINE h == Header("$", Len(t))
<1>1. <<>> \in Seq(S) /\ BulkText(t) \in Seq(S)
  BY BulkTextFacts
<1>2. BulkText(t) \o <<>> = BulkText(t)
  BY <1>1, ConcatEmptySeq
<1>3. Lines(<<>>) = << <<>> >>
  <2>1. NoBreak(<<>>)
    BY DEF NoBreak
  <2> QED BY <1>1, <2>1, OneLine
<1>4. Lines(BulkText(t)) = <<h, t>> \o << <<>> >>
  BY <1>1, <1>2, <1>3, BulkLines
<1>5. Len(t) \in Nat
  OBVIOUS
<1>6. Tail(h) = Decimal[Len(t)] /\ IsInt(Tail(h)) /\ IntOf(Tail(h)) = Len(t)
  BY <1>5, HeaderFacts, DecimalIsInt
<1> HIDE DEF h
<1>7. Len(Lines(BulkText(t))) = 3 /\ Lines(BulkText(t))[1] = h /\ Lines(BulkText(t))[2] = t
  BY <1>4
<1>8. SubSeq(t, 1, Len(t)) = t
  OBVIOUS
<1> DEFINE n == IntOf(Tail(h))
<1>9. ParseBulkString(BulkText(t)) =
        CASE n = -1       -> Null
          [] n < -1       -> Bad
          [] n > Len(t)   -> Panic
          [] n \in 0 .. Len(t) -> Bulk(SubSeq(t, 1, n))
  BY <1>6, <1>7 DEF ParseBulkString
<1>10. n = Len(t)
  BY <1>6
<1> HIDE DEF n
<1>11. n # -1 /\ ~ (n < -1) /\ ~ (n > Len(t)) /\ n \in 0 .. Len(t)
  BY <1>5, <1>10
<1> QED BY <1>8, <1>9, <1>10, <1>11

-----------------------------------------------------------------------------
(* Words, one behind the other.  A word is plain when it has no line break *)
(* in it and does not look like a header.                                  *)
Plain(w) == NoBreak(w) /\ CountQoda(w) = 0
Bulks(ts) == [i \in DOMAIN ts |-> BulkText(ts[i])]

LEMMA BulksAreTexts ==
  ASSUME NEW S, Symbols \subseteq S, NEW ts \in Seq(Seq(S))
  PROVE  Bulks(ts) \in Seq(Seq(S)) /\ Len(Bulks(ts)) = Len(ts)
<1>1. Len(ts) \in Nat /\ DOMAIN ts = 1 .. Len(ts)
  OBVIOUS
<1>2. \A i \in 1 .. Len(ts) : ts[i] \in Seq(S)
  BY <1>1, ElementOfSeq
<1>3. \A i \in 1 .. Len(ts) : BulkText(ts[i]) \in Seq(S)
  BY <1>2, BulkTextFacts
<1>4. Bulks(ts) = [i \in 1 .. Len(ts) |-> BulkText(ts[i])]
  BY <1>1 DEF Bulks
<1>5. Bulks(ts) \in [1 .. Len(ts) -> Seq(S)]
  BY <1>3, <1>4
<1> HIDE DEF Bulks
<1> QED BY <1>1, <1>5

(* The lines l are two for each of the first k words, and then those of r. *)
WordLines(l, ts, k, r) ==
  /\ Len(l) = 2 * k + Len(Lines(r))
  /\ \A i \in 1 .. k : l[2 * i - 1] = Header("$", Len(ts[i])) /\ l[2 * i] = ts[i]
  /\ \A j \in 1 .. Len(Lines(r)) : l[2 * k + j] = Lines(r)[j]

LEMMA NextWord ==
  ASSUME NEW S, Symbols \subseteq S, NEW ts \in Seq(Seq(S)),
         \A i \in 1 .. Len(ts) : NoBreak(ts[i]),
         NEW k \in 0 .. Len(ts) - 1, NEW r \in Seq(S), NEW l,
         WordLines(l, ts, k, BulkText(ts[k + 1]) \o r)
  PROVE  WordLines(l, ts, k + 1, r)
<1> DEFINE t == ts[k + 1]
           h == Header("$", Len(t))
           m == Lines(r)
           n == Lines(BulkText(t) \o r)
           two == <<h, t>>
<1>1. Len(ts) \in Nat /\ k \in Nat /\ k + 1 \in 1 .. Len(ts)
  OBVIOUS
<1>2. t \in Seq(S) /\ NoBreak(t)
  BY <1>1, ElementOfSeq
<1>3. h \in Seq(S)
  <2>1. Len(t) \in Nat
    BY <1>2
  <2> QED BY <2>1, HeaderFacts
<1> HIDE DEF t
<1>4. m \in Seq(Seq(S)) /\ n = two \o m
  BY <1>2, BulkLines
<1>5. l = l /\ Len(l) = 2 * k + Len(n)
      /\ (\A i \in 1 .. k : l[2 * i - 1] = Header("$", Len(ts[i])) /\ l[2 * i] = ts[i])
      /\ \A j \in 1 .. Len(n) : l[2 * k + j] = n[j]
  BY DEF WordLines, t
<1> HIDE DEF h, m, n
<1>6. two \in Seq(Seq(S)) /\ Len(two) = 2 /\ two[1] = h /\ two[2] = t
  BY <1>2, <1>3
<1> HIDE DEF two
<1>7. /\ Len(m) \in Nat /\ Len(n) = 2 + Len(m)
      /\ \A i \in 1 .. 2 : n[i] = two[i]
      /\ \A i \in 1 .. Len(m) : n[2 + i] = m[i]
  <2>1. two \in Seq(Seq(S)) /\ m \in Seq(Seq(S))
    BY <1>4, <1>6
  <2>2. /\ Len(two \o m) = Len(two) + Len(m) /\ Len(m) \in Nat
        /\ \A i \in 1 .. Len(two) : (two \o m)[i] = two[i]
        /\ \A i \in 1 .. Len(m) : (two \o m)[Len(two) + i] = m[i]
    BY ONLY <2>1, Joining
  <2> QED BY <1>4, <1>6, <2>2
<1>8. n[1] = h /\ n[2] = t
  <2>1. 1 \in 1 .. 2 /\ 2 \in 1 .. 2
    OBVIOUS
  <2> QED BY <1>6, <1>7, <2>1
<1>9. l[2 * k + 1] = h /\ l[2 * k + 2] = t
  <2>1. 1 \in 1 .. Len(n) /\ 2 \in 1 .. Len(n)
    BY <1>7
  <2> QED BY <1>5, <1>8, <2>1
<1>10. Len(l) = 2 * (k + 1) + Len(m)
  BY <1>1, <1>5, <1>7
<1>11. ASSUME NEW i \in 1 .. k + 1
       PROVE  l[2 * i - 1] = Header("$", Len(ts[i])) /\ l[2 * i] = ts[i]
  <2>1. CASE i = k + 1
    <3>1. 2 * i - 1 = 2 * k + 1 /\ 2 * i = 2 * k + 2
      BY <1>1, <2>1
    <3>2. ts[i] = t
      BY <2>1 DEF t
    <3> QED BY <1>9, <3>1, <3>2 DEF h
  <2>2. CASE i # k + 1
    <3>1. i \in 1 .. k
      BY <1>1, <2>2
    <3> QED BY <1>5, <3>1
  <2> QED BY <2>1, <2>2
<1>12. ASSUME NEW j \in 1 .. Len(m) PROVE l[2 * (k + 1) + j] = m[j]
  <2>1. 2 + j \in 1 .. Len(n) /\ 2 * k + (2 + j) = 2 * (k + 1) + j
    BY <1>1, <1>7
  <2>2. l[2 * k + (2 + j)] = n[2 + j]
    BY ONLY <1>5, <2>1
  <2>3. n[2 + j] = m[j]
    BY <1>7
  <2> QED BY ONLY <2>1, <2>2, <2>3
<1> QED BY <1>10, <1>11, <1>12 DEF WordLines, m

LEMMA AllWords ==
  ASSUME NEW S, Symbols \subseteq S, NEW ts \in Seq(Seq(S)),
         \A i \in 1 .. Len(ts) : NoBreak(ts[i]), NEW rest \in Seq(S)
  PROVE  /\ FlattenSeq(Bulks(ts)) \in Seq(S)
         /\ WordLines(Lines(FlattenSeq(Bulks(ts)) \o rest), ts, Len(ts), rest)
<1> DEFINE g == Joins(Bulks(ts))
           P(k) == \A r \in Seq(S) : WordLines(Lines(g[k] \o r), ts, k, r)
           Good == {k \in 0 .. Len(ts) : P(k)}
<1>1. Len(ts) \in Nat
  OBVIOUS
<1>2. Bulks(ts) \in Seq(Seq(S)) /\ Len(Bulks(ts)) = Len(ts)
  BY BulksAreTexts
<1>3. \A k \in 0 .. Len(ts) : g[k] \in Seq(S)
  BY <1>2, JoinsAreSeqs
<1>4. g[0] = <<>> /\ \A k \in 1 .. Len(ts) : g[k] = g[k - 1] \o BulkText(ts[k])
  <2>1. AreJoins(g, Bulks(ts), Len(ts))
    BY <1>1, <1>2, JoinsExist
  <2>2. \A k \in 1 .. Len(ts) : Bulks(ts)[k] = BulkText(ts[k])
    BY DEF Bulks
  <2> HIDE DEF g
  <2> QED BY <2>1, <2>2 DEF AreJoins
<1> HIDE DEF g
<1>5. P(0)
  <2> SUFFICES ASSUME NEW r \in Seq(S) PROVE WordLines(Lines(g[0] \o r), ts, 0, r)
    OBVIOUS
  <2>1. g[0] \o r = r
    BY <1>4, ConcatEmptySeq
  <2>2. Lines(r) \in Seq(Seq(S))
    BY LinesAreLines
  <2> DEFINE m == Lines(r)
  <2> HIDE DEF m
  <2>3. Len(m) \in Nat
    BY <2>2 DEF m
  <2>4. Len(m) = 2 * 0 + Len(m) /\ \A j \in 1 .. Len(m) : m[2 * 0 + j] = m[j]
    BY <2>3
  <2>5. WordLines(m, ts, 0, r)
    BY <2>4 DEF WordLines, m
  <2> QED BY <2>1, <2>5 DEF m
<1>6. ASSUME NEW k \in 0 .. Len(ts) - 1, P(k) PROVE P(k + 1)
  <2> TAKE r \in Seq(S)
  <2> DEFINE b == BulkText(ts[k + 1])
  <2>1. k + 1 \in 1 .. Len(ts) /\ k + 1 - 1 = k /\ k \in 0 .. Len(ts)
    BY <1>1
  <2>2. ts[k + 1] \in Seq(S)
    BY <2>1, ElementOfSeq
  <2>3. b \in Seq(S)
    BY <2>2, BulkTextFacts
  <2>4. g[k + 1] = g[k] \o b
    <3>1. PICK m \in 1 .. Len(ts) : m = k + 1 /\ m - 1 = k
      BY <2>1
    <3>2. g[m] = g[m - 1] \o BulkText(ts[m])
      BY <1>4, Zenon
    <3> QED BY <3>1, <3>2, Zenon
  <2> HIDE DEF b
  <2>5. b \o r \in Seq(S)
    <3>1. r \in Seq(S)
      OBVIOUS
    <3> QED BY ONLY <2>3, <3>1, Joining
  <2>6. g[k + 1] \o r = g[k] \o (b \o r)
    <3> DEFINE a == g[k]
    <3>1. a \in Seq(S)
      BY <1>3, <2>1
    <3> HIDE DEF a
    <3>2. r \in Seq(S)
      OBVIOUS
    <3>3. (a \o b) \o r = a \o (b \o r)
      BY ONLY <2>3, <3>1, <3>2, Regrouped, SMTT(60)
    <3> QED BY <2>4, <3>3 DEF a
  <2>7. WordLines(Lines(g[k] \o (b \o r)), ts, k, b \o r)
    BY <1>6, <2>5
  <2>8. WordLines(Lines(g[k] \o (b \o r)), ts, k + 1, r)
    BY <2>7, NextWord DEF b
  <2> QED BY <2>6, <2>8
<1>7. \A k \in 0 .. Len(ts) : k \in Good
  <2>1. 0 \in Good
    BY <1>1, <1>5
  <2>2. ASSUME NEW k \in 0 .. Len(ts) - 1, k \in Good PROVE k + 1 \in Good
    <3>1. P(k)
      BY <2>2
    <3>2. P(k + 1)
      BY <1>6, <3>1
    <3>3. k + 1 \in 0 .. Len(ts)
      BY <1>1
    <3> HIDE DEF P
    <3> QED BY <3>2, <3>3
  <2> HIDE DEF Good
  <2> QED BY <1>1, <2>1, <2>2, StepByStep
<1>8. P(Len(ts))
  <2>1. Len(ts) \in 0 .. Len(ts)
    BY <1>1
  <2> HIDE DEF P
  <2> QED BY <1>7, <2>1
<1>9. FlattenSeq(Bulks(ts)) = g[Len(ts)]
  BY <1>2, FlattenIsJoins DEF g
<1>10. Len(ts) \in 0 .. Len(ts)
  BY <1>1
<1> QED BY <1>3, <1>8, <1>9, <1>10

-----------------------------------------------------------------------------
(* Elements, gathered line by line.                                        *)
NothingGathered(count) == [left |-> count, qoda |-> 1, tmp |-> <<>>, elements |-> <<>>]
AreGathered(f, l, count, N) ==
  /\ f = [i \in 0 .. N |-> f[i]]
  /\ f[0] = NothingGathered(count)
  /\ \A i \in 1 .. N : f[i] = Gather(f[i - 1], l[i])

LEMMA GatherOneMore ==
  ASSUME NEW l, NEW count, NEW n \in Nat, NEW f, AreGathered(f, l, count, n)
  PROVE  \E h : AreGathered(h, l, count, n + 1)
<1> DEFINE h == [m \in 0 .. n + 1 |-> IF m = n + 1 THEN Gather(f[n], l[n + 1]) ELSE f[m]]
<1>1. h = [m \in 0 .. n + 1 |-> h[m]]
  OBVIOUS
<1>2. h[n + 1] = Gather(f[n], l[n + 1]) /\ \A m \in 0 .. n : h[m] = f[m]
  OBVIOUS
<1> HIDE DEF h
<1>3. h[0] = NothingGathered(count)
  BY <1>2 DEF AreGathered
<1>4. ASSUME NEW m \in 1 .. n + 1 PROVE h[m] = Gather(h[m - 1], l[m])
  <2>1. CASE m = n + 1
    <3>1. m - 1 = n /\ h[n] = f[n]
      BY <2>1, <1>2
    <3> QED BY <2>1, <3>1, <1>2, Zenon
  <2>2. CASE m # n + 1
    <3> m \in 1 .. n
      BY <2>2
    <3>1. h[m] = f[m] /\ h[m - 1] = f[m - 1]
      BY <1>2, <2>2
    <3>2. f[m] = Gather(f[m - 1], l[m])
      BY <2>2 DEF AreGathered
    <3> QED BY <3>1, <3>2
  <2> QED BY <2>1, <2>2
<1>5. AreGathered(h, l, count, n + 1)
  BY <1>1, <1>3, <1>4 DEF AreGathered
<1> QED BY <1>5

LEMMA ElementsAreGathered ==
  ASSUME NEW l, Len(l) \in Nat, NEW count
  PROVE  \E f : AreGathered(f, l, count, Len(l)) /\ Elements(l, count) = f[Len(l)].elements
<1> DEFINE Some == {n \in Nat : \E g : AreGathered(g, l, count, n)}
<1>1. 0 \in Some
  <2>1. AreGathered([m \in 0 .. 0 |-> NothingGathered(count)], l, count, 0)
    BY DEF AreGathered
  <2> QED BY <2>1
<1>2. ASSUME NEW n \in 0 .. Len(l) - 1, n \in Some PROVE n + 1 \in Some
  BY <1>2, GatherOneMore
<1>3. \A n \in 0 .. Len(l) : n \in Some
  <2> HIDE DEF Some
  <2> QED BY <1>1, <1>2, StepByStep
<1>4. PICK g : AreGathered(g, l, count, Len(l))
  BY <1>3
<1> DEFINE gathered[i \in 0 .. Len(l)] ==
             IF i = 0 THEN [left |-> count, qoda |-> 1, tmp |-> <<>>, elements |-> <<>>]
             ELSE Gather(gathered[i - 1], l[i])
           IsF(f) == f = [i \in 0 .. Len(l) |->
             IF i = 0 THEN [left |-> count, qoda |-> 1, tmp |-> <<>>, elements |-> <<>>]
             ELSE Gather(f[i - 1], l[i])]
<1>5. \A f : IsF(f) <=> AreGathered(f, l, count, Len(l))
  <2> TAKE f
  <2>1. \A i \in 0 .. Len(l) : i = 0 \/ i \in 1 .. Len(l)
    OBVIOUS
  <2>2. ASSUME IsF(f) PROVE AreGathered(f, l, count, Len(l))
    <3>1. f = [i \in 0 .. Len(l) |-> f[i]]
      BY <2>2
    <3>2. f[0] = NothingGathered(count)
      BY <2>2 DEF NothingGathered
    <3>3. \A i \in 1 .. Len(l) : f[i] = Gather(f[i - 1], l[i])
      BY <2>2
    <3> QED BY <3>1, <3>2, <3>3 DEF AreGathered
  <2>3. ASSUME AreGathered(f, l, count, Len(l)) PROVE IsF(f)
    <3>1. f = [i \in 0 .. Len(l) |-> f[i]]
      BY <2>3 DEF AreGathered
    <3>2. \A i \in 0 .. Len(l) :
            f[i] = IF i = 0 THEN [left |-> count, qoda |-> 1, tmp |-> <<>>, elements |-> <<>>]
                   ELSE Gather(f[i - 1], l[i])
      BY <2>1, <2>3 DEF AreGathered, NothingGathered
    <3> QED BY <3>1, <3>2, Zenon
  <2> QED BY <2>2, <2>3
<1>6. IsF(g)
  BY <1>4, <1>5
<1>7. IsF(gathered)
  <2>1. gathered = CHOOSE f : IsF(f)
    OBVIOUS
  <2> HIDE DEF gathered, IsF
  <2> QED BY <1>6, <2>1, Zenon
<1>8. Elements(l, count) = gathered[Len(l)].elements
  BY DEF Elements
<1> HIDE DEF gathered, IsF
<1> QED BY <1>5, <1>7, <1>8

(* The two lines of a word make one element.                               *)
LEMMA GatherWord ==
  ASSUME NEW S, Symbols \subseteq S, NEW t \in Seq(S), CountQoda(t) = 0,
         NEW left \in Nat \ {0}, NEW elements \in Seq(Seq(S))
  PROVE  Gather(Gather([left |-> left, qoda |-> 1, tmp |-> <<>>, elements |-> elements],
                       Header("$", Len(t))), t)
           = [left |-> left - 1, qoda |-> 1, tmp |-> <<>>, elements |-> Append(elements, BulkText(t))]
<1> DEFINE h == Header("$", Len(t))
           a == [left |-> left, qoda |-> 1, tmp |-> <<>>, elements |-> elements]
           x == h \o CrLf
           b == [left |-> left, qoda |-> 1, tmp |-> x, elements |-> elements]
<1>1. Len(t) \in Nat
  OBVIOUS
<1>2. h \in Seq(S) /\ CrLf \in Seq(S) /\ CountQoda(h) = 1
  BY <1>1, HeaderFacts, CrLfIsText, BulkHeaderCounts
<1>3. BulkText(t) = (x \o t) \o CrLf
  BY DEF BulkText, Header
<1> HIDE DEF h
<1>4. <<>> \o h = h
  BY <1>2, ConcatEmptySeq
<1>5. 1 + 1 - 1 = 1 /\ 1 + 0 - 1 = 0 /\ left # 0 /\ 1 # 0
  OBVIOUS
<1>6. Gather(a, h) = b
  <2>1. a.left = left /\ a.qoda = 1 /\ a.tmp = <<>> /\ a.elements = elements
    OBVIOUS
  <2>2. Gather(a, h) = [a EXCEPT !.qoda = 1, !.tmp = x]
    BY <1>2, <1>4, <1>5, <2>1 DEF Gather
  <2> QED BY <2>2
<1>7. Gather(b, t) = [left |-> left - 1, qoda |-> 1, tmp |-> <<>>, elements |-> Append(elements, BulkText(t))]
  <2>1. b.left = left /\ b.qoda = 1 /\ b.tmp = x /\ b.elements = elements
    OBVIOUS
  <2> HIDE DEF b
  <2> QED BY <1>3, <1>5, <2>1 DEF Gather
<1> QED BY <1>6, <1>7 DEF h

(* The texts of the elements are made of the characters of the lines.      *)
GatherState(S) == [left : Int, qoda : Int, tmp : Seq(S), elements : Seq(Seq(S))]

LEMMA GatherType ==
  ASSUME NEW S, CrLf \in Seq(S), NEW acc \in GatherState(S), NEW w \in Seq(S)
  PROVE  Gather(acc, w) \in GatherState(S)
<1> DEFINE tmp == acc.tmp \o w \o CrLf
           qoda == acc.qoda + CountQoda(w) - 1
<1>1. /\ acc.left \in Int /\ acc.qoda \in Int /\ acc.tmp \in Seq(S) /\ acc.elements \in Seq(Seq(S))
      /\ acc = [left |-> acc.left, qoda |-> acc.qoda, tmp |-> acc.tmp, elements |-> acc.elements]
  BY DEF GatherState
<1>2. qoda \in Int /\ acc.left - 1 \in Int
  BY <1>1, CountIsNat
<1>3. tmp \in Seq(S)
  <2>1. acc.tmp \o w \in Seq(S)
    BY <1>1, Joining
  <2> QED BY <2>1, Joining
<1>4. Gather(acc, w) = IF acc.left = 0 THEN acc
                       ELSE IF qoda = 0
                         THEN [left |-> acc.left - 1, qoda |-> 1, tmp |-> <<>>,
                               elements |-> Append(acc.elements, tmp)]
                         ELSE [acc EXCEPT !.qoda = qoda, !.tmp = tmp]
  BY DEF Gather
<1> HIDE DEF tmp, qoda
<1>5. Append(acc.elements, tmp) \in Seq(Seq(S))
  BY <1>1, <1>3
<1>6. [left |-> acc.left - 1, qoda |-> 1, tmp |-> <<>>, elements |-> Append(acc.elements, tmp)]
        \in GatherState(S)
  <2>1. <<>> \in Seq(S) /\ 1 \in Int
    OBVIOUS
  <2> QED BY ONLY <1>2, <1>5, <2>1 DEF GatherState
<1>7. [acc EXCEPT !.qoda = qoda, !.tmp = tmp] \in GatherState(S)
  BY ONLY <1>2, <1>3, acc \in GatherState(S) DEF GatherState
<1> QED BY <1>4, <1>6, <1>7

LEMMA ElementsAreTexts ==
  ASSUME NEW S, CrLf \in Seq(S), NEW l \in Seq(Seq(S)), NEW count \in Nat
  PROVE  Elements(l, count) \in Seq(Seq(S))
<1>1. Len(l) \in Nat /\ \A i \in 1 .. Len(l) : l[i] \in Seq(S)
  BY ElementOfSeq
<1>2. PICK f : AreGathered(f, l, count, Len(l)) /\ Elements(l, count) = f[Len(l)].elements
  BY <1>1, ElementsAreGathered
<1> DEFINE Good == {n \in 0 .. Len(l) : f[n] \in GatherState(S)}
<1>3. 0 \in Good
  <2>1. count \in Int /\ 1 \in Int /\ <<>> \in Seq(S) /\ <<>> \in Seq(Seq(S))
    OBVIOUS
  <2>2. NothingGathered(count) \in GatherState(S)
    BY ONLY <2>1 DEF GatherState, NothingGathered
  <2>3. f[0] = NothingGathered(count)
    BY <1>2 DEF AreGathered
  <2> QED BY <1>1, <2>2, <2>3
<1>4. ASSUME NEW n \in 0 .. Len(l) - 1, n \in Good PROVE n + 1 \in Good
  <2> DEFINE i == n + 1
  <2>1. i \in 1 .. Len(l) /\ i - 1 = n /\ i \in 0 .. Len(l)
    BY <1>1
  <2> HIDE DEF i
  <2>2. f[i] = Gather(f[i - 1], l[i])
    BY <1>2, <2>1, Zenon DEF AreGathered
  <2>3. f[n] \in GatherState(S) /\ l[i] \in Seq(S)
    BY <1>1, <1>4, <2>1
  <2>4. Gather(f[n], l[i]) \in GatherState(S)
    BY <2>3, GatherType
  <2> QED BY <2>1, <2>2, <2>4 DEF i
<1>5. \A n \in 0 .. Len(l) : n \in Good
  <2> HIDE DEF Good
  <2> QED BY <1>1, <1>3, <1>4, StepByStep
<1>6. f[Len(l)] \in GatherState(S)
  <2>1. Len(l) \in 0 .. Len(l)
    BY <1>1
  <2> QED BY <1>5, <2>1
<1> QED BY <1>2, <1>6 DEF GatherState

(* What is gathered of the lines of words is the words.                    *)
LEMMA WordsGathered ==
  ASSUME NEW S, Symbols \subseteq S, NEW ts \in Seq(Seq(S)),
         \A i \in 1 .. Len(ts) : Plain(ts[i]), NEW rest \in Seq(S),
         NEW l \in Seq(Seq(S)), WordLines(l, ts, Len(ts), rest),
         NEW count \in Nat, Len(ts) <= count,
         NEW f, AreGathered(f, l, count, Len(l))
  PROVE  f[2 * Len(ts)] = [left |-> count - Len(ts), qoda |-> 1, tmp |-> <<>>, elements |-> Bulks(ts)]
<1> DEFINE n == Len(ts)
           e == Bulks(ts)
           After(k) == [left |-> count - k, qoda |-> 1, tmp |-> <<>>, elements |-> SubSeq(e, 1, k)]
<1>1. n \in Nat /\ Len(l) \in Nat /\ Len(Lines(rest)) \in Nat
  BY LinesAreLines, LenProperties
<1>2. e \in Seq(Seq(S)) /\ Len(e) = n /\ \A k \in 1 .. n : e[k] = BulkText(ts[k])
  <2>1. \A k \in 1 .. n : e[k] = BulkText(ts[k])
    BY DEF Bulks
  <2> QED BY <2>1, BulksAreTexts
<1> HIDE DEF e
<1>4. /\ f[0] = NothingGathered(count)
      /\ \A i \in 1 .. Len(l) : f[i] = Gather(f[i - 1], l[i])
  BY DEF AreGathered
<1>5. Len(l) >= 2 * n /\ \A i \in 1 .. n : l[2 * i - 1] = Header("$", Len(ts[i])) /\ l[2 * i] = ts[i]
  <2>1. /\ Len(l) = 2 * n + Len(Lines(rest))
        /\ \A i \in 1 .. n : l[2 * i - 1] = Header("$", Len(ts[i])) /\ l[2 * i] = ts[i]
    BY Zenon DEF WordLines
  <2> HIDE DEF n
  <2>2. Len(l) >= 2 * n
    BY <1>1, <2>1
  <2> QED BY <2>1, <2>2
<1>n. n <= count
  OBVIOUS
<1> HIDE DEF n
<1> DEFINE Good == {k \in 0 .. n : f[2 * k] = After(k)}
<1>6. 0 \in Good
  <2>1. SubSeq(e, 1, 0) = <<>>
    BY <1>2
  <2>2. count - 0 = count /\ 2 * 0 = 0 /\ 0 \in 0 .. n
    BY <1>1
  <2>3. f[0] = After(0)
    BY <1>4, <2>1, <2>2 DEF NothingGathered
  <2> HIDE DEF After
  <2> QED BY <2>2, <2>3
<1>7. ASSUME NEW k \in 0 .. n - 1, k \in Good PROVE k + 1 \in Good
  <2> DEFINE t == ts[k + 1]
             a == SubSeq(e, 1, k)
             h == Header("$", Len(t))
  <2>c. count - k \in Nat \ {0}
    BY ONLY <1>1, <1>n, k \in 0 .. n - 1, count \in Nat
  <2>1. /\ k \in Nat /\ k + 1 \in 1 .. n /\ k \in 0 .. n /\ count - k \in Nat \ {0} /\ k + 1 - 1 = k
        /\ 2 * k + 1 \in 1 .. Len(l) /\ 2 * k + 2 \in 1 .. Len(l)
        /\ 2 * k + 1 - 1 = 2 * k /\ 2 * k + 2 - 1 = 2 * k + 1
        /\ 2 * (k + 1) - 1 = 2 * k + 1 /\ 2 * (k + 1) = 2 * k + 2
    <3>1. n \in Nat /\ Len(l) \in Nat /\ Len(l) >= 2 * n
      BY <1>1, <1>5
    <3>2. k \in Nat /\ k + 1 \in 1 .. n /\ k \in 0 .. n /\ k + 1 - 1 = k
      BY ONLY <3>1, k \in 0 .. n - 1
    <3>3. 2 * k + 1 \in 1 .. Len(l) /\ 2 * k + 2 \in 1 .. Len(l)
      BY ONLY <3>1, <3>2
    <3>4. /\ 2 * k + 1 - 1 = 2 * k /\ 2 * k + 2 - 1 = 2 * k + 1
          /\ 2 * (k + 1) - 1 = 2 * k + 1 /\ 2 * (k + 1) = 2 * k + 2
      BY ONLY <3>2
    <3> QED BY ONLY <2>c, <3>2, <3>3, <3>4
  <2>2. t \in Seq(S) /\ CountQoda(t) = 0
    <3>1. k + 1 \in 1 .. Len(ts)
      BY <2>1 DEF n
    <3>2. ts[k + 1] \in Seq(S)
      BY <3>1, ElementOfSeq
    <3> QED BY <3>1, <3>2 DEF Plain
  <2>3. l[2 * k + 1] = h /\ l[2 * k + 2] = t
    <3>1. l[2 * (k + 1) - 1] = h /\ l[2 * (k + 1)] = t
      BY <1>5, <2>1
    <3> QED BY <2>1, <3>1
  <2>4. f[2 * k + 1] = Gather(f[2 * k], l[2 * k + 1])
    <3>1. PICK i \in 1 .. Len(l) : i = 2 * k + 1 /\ i - 1 = 2 * k
      BY <2>1
    <3>2. f[i] = Gather(f[i - 1], l[i])
      BY <1>4, Zenon
    <3> QED BY <3>1, <3>2, Zenon
  <2>5. f[2 * k + 2] = Gather(f[2 * k + 1], l[2 * k + 2])
    <3>1. PICK i \in 1 .. Len(l) : i = 2 * k + 2 /\ i - 1 = 2 * k + 1
      BY <2>1
    <3>2. f[i] = Gather(f[i - 1], l[i])
      BY <1>4, Zenon
    <3> QED BY <3>1, <3>2, Zenon
  <2>6. f[2 * k] = After(k)
    BY <1>7
  <2>7. a \in Seq(Seq(S))
    <3>1. k \in 0 .. Len(e)
      BY <1>2, <2>1
    <3>2. e \in Seq(Seq(S))
      BY <1>2
    <3> QED BY ONLY <3>1, <3>2, BeginningOf
  <2>8. Append(a, BulkText(t)) = SubSeq(e, 1, k + 1)
    <3>1. k + 1 \in 1 .. Len(e) /\ e[k + 1] = BulkText(t)
      BY <1>2, <2>1
    <3>2. e \in Seq(Seq(S))
      BY <1>2
    <3>3. Append(SubSeq(e, 1, k + 1 - 1), e[k + 1]) = SubSeq(e, 1, k + 1)
      BY ONLY <3>1, <3>2, NextOf
    <3> QED BY <2>1, <3>1, <3>3
  <2> HIDE DEF t, a, h
  <2> DEFINE left == count - k
  <2>9. f[2 * k + 2] = Gather(Gather([left |-> left, qoda |-> 1, tmp |-> <<>>, elements |-> a], h), t)
    BY <2>3, <2>4, <2>5, <2>6, Zenon DEF a
  <2>10. left \in Nat \ {0}
    BY <2>1
  <2> HIDE DEF left
  <2>11. f[2 * k + 2] = [left |-> left - 1, qoda |-> 1, tmp |-> <<>>,
                         elements |-> Append(a, BulkText(t))]
    <3>1. Gather(Gather([left |-> left, qoda |-> 1, tmp |-> <<>>, elements |-> a],
                        Header("$", Len(t))), t)
            = [left |-> left - 1, qoda |-> 1, tmp |-> <<>>, elements |-> Append(a, BulkText(t))]
      <4>1. Symbols \subseteq S /\ t \in Seq(S) /\ CountQoda(t) = 0
        BY <2>2
      <4> QED BY ONLY <2>7, <2>10, <4>1, GatherWord, ZenonT(90)
    <3> QED BY <2>9, <3>1, Zenon DEF h
  <2>12. left - 1 = count - (k + 1)
    BY <1>1, <2>1 DEF left
  <2>13. f[2 * (k + 1)] = After(k + 1)
    BY <2>1, <2>8, <2>11, <2>12, Zenon
  <2>14. k + 1 \in 0 .. n
    BY <2>1
  <2> HIDE DEF After
  <2> QED BY <2>13, <2>14
<1>8. \A k \in 0 .. n : k \in Good
  <2> HIDE DEF Good
  <2> QED BY <1>1, <1>6, <1>7, StepByStep
<1>9. f[2 * n] = After(n)
  <2>1. n \in 0 .. n
    BY <1>1
  <2> HIDE DEF After
  <2> QED BY <1>8, <2>1
<1>10. SubSeq(e, 1, n) = e
  BY <1>1, <1>2
<1> QED BY <1>9, <1>10, Zenon DEF n, e

(* What is gathered of the lines of words is the words, and no line behind *)
(* them is looked at.                                                      *)
LEMMA ElementsAreBulks ==
  ASSUME NEW S, Symbols \subseteq S, NEW ts \in Seq(Seq(S)),
         \A i \in 1 .. Len(ts) : Plain(ts[i]), NEW rest \in Seq(S),
         NEW l \in Seq(Seq(S)), WordLines(l, ts, Len(ts), rest)
  PROVE  Elements(l, Len(ts)) = Bulks(ts)
<1> DEFINE n == Len(ts)
           e == Bulks(ts)
           end == [left |-> 0, qoda |-> 1, tmp |-> <<>>, elements |-> e]
           m == Len(l) - 2 * n
<1>1. n \in Nat /\ Len(l) \in Nat /\ Len(Lines(rest)) \in Nat /\ n <= n
  BY LinesAreLines, LenProperties
<1>2. PICK f : AreGathered(f, l, n, Len(l)) /\ Elements(l, n) = f[Len(l)].elements
  BY <1>1, ElementsAreGathered
<1>3. f[2 * n] = [left |-> n - n, qoda |-> 1, tmp |-> <<>>, elements |-> e]
  BY <1>1, <1>2, WordsGathered
<1>4. Len(l) = 2 * n + Len(Lines(rest))
  BY Zenon DEF WordLines
<1> HIDE DEF n, e
<1>5. \A i \in 1 .. Len(l) : f[i] = Gather(f[i - 1], l[i])
  BY <1>2 DEF AreGathered
<1>6. end.left = 0 /\ end.elements = e
  OBVIOUS
<1>7. f[2 * n] = end
  <2>1. n - n = 0
    BY <1>1
  <2> QED BY <1>3, <2>1
<1> HIDE DEF end
<1>8. m \in Nat
  BY <1>1, <1>4
<1> DEFINE Still == {j \in 0 .. m : f[2 * n + j] = end}
<1>14. 0 \in Still
  BY <1>1, <1>7, <1>8
<1>15. ASSUME NEW j \in 0 .. m - 1, j \in Still PROVE j + 1 \in Still
  <2> DEFINE i == 2 * n + (j + 1)
  <2>1. j + 1 \in 0 .. m /\ i \in 1 .. Len(l) /\ i - 1 = 2 * n + j
    BY <1>1, <1>8
  <2>2. f[2 * n + j] = end
    BY <1>15
  <2> HIDE DEF i
  <2>3. f[i] = Gather(f[i - 1], l[i])
    BY <1>5, <2>1, Zenon
  <2>4. f[i] = end
    BY <1>6, <2>1, <2>2, <2>3 DEF Gather
  <2> QED BY <2>1, <2>4 DEF i
<1>16. \A j \in 0 .. m : j \in Still
  <2> HIDE DEF Still, m
  <2> QED BY <1>8, <1>14, <1>15, StepByStep
<1>17. f[Len(l)] = end
  <2>1. m \in 0 .. m /\ 2 * n + m = Len(l)
    BY <1>1, <1>8
  <2>2. f[2 * n + m] = end
    BY <1>16, <2>1
  <2> QED BY <2>1, <2>2
<1> QED BY <1>2, <1>6, <1>17 DEF n, e

-----------------------------------------------------------------------------
(* Arrays in arrays, up to a depth.                                        *)
AreNested(f, T, N) ==
  /\ f = [d \in 0 .. N |-> f[d]]
  /\ f[0] = [t \in T |-> Bad]
  /\ \A d \in 1 .. N : f[d] = [t \in T |-> ParseBy(t, f[d - 1])]

LEMMA NestedDeeper ==
  ASSUME NEW T, NEW n \in Nat, NEW f, AreNested(f, T, n)
  PROVE  \E h : AreNested(h, T, n + 1)
<1> DEFINE h == [m \in 0 .. n + 1 |-> IF m = n + 1 THEN [t \in T |-> ParseBy(t, f[n])] ELSE f[m]]
<1>1. h = [m \in 0 .. n + 1 |-> h[m]]
  OBVIOUS
<1>2. h[n + 1] = [t \in T |-> ParseBy(t, f[n])] /\ \A m \in 0 .. n : h[m] = f[m]
  OBVIOUS
<1> HIDE DEF h
<1>3. h[0] = [t \in T |-> Bad]
  BY <1>2 DEF AreNested
<1>4. ASSUME NEW m \in 1 .. n + 1 PROVE h[m] = [t \in T |-> ParseBy(t, h[m - 1])]
  <2>1. CASE m = n + 1
    <3>1. m - 1 = n /\ h[n] = f[n]
      BY <2>1, <1>2
    <3> QED BY <2>1, <3>1, <1>2, Zenon
  <2>2. CASE m # n + 1
    <3> m \in 1 .. n
      BY <2>2
    <3>1. h[m] = f[m] /\ h[m - 1] = f[m - 1]
      BY <1>2, <2>2
    <3>2. f[m] = [t \in T |-> ParseBy(t, f[m - 1])]
      BY <2>2 DEF AreNested
    <3> QED BY <3>1, <3>2, Zenon
  <2> QED BY <2>1, <2>2
<1>5. AreNested(h, T, n + 1)
  BY <1>1, <1>3, <1>4 DEF AreNested
<1> QED BY <1>5

LEMMA ParseIsNested ==
  ASSUME NEW s, Len(s) \in Nat
  PROVE  \E f : AreNested(f, Seq(Range(s) \cup Range(CrLf)), Len(s)) /\ Parse(s) = f[Len(s)][s]
<1> DEFINE T == Seq(Range(s) \cup Range(CrLf))
           Some == {n \in Nat : \E g : AreNested(g, T, n)}
<1>1. Parse(s) = LET nested[depth \in 0 .. Len(s)] ==
                       [t \in T |-> IF depth = 0 THEN Bad ELSE ParseBy(t, nested[depth - 1])]
                 IN  nested[Len(s)][s]
  BY DEF Parse
<1> HIDE DEF T
<1>2. 0 \in Some
  <2>1. AreNested([m \in 0 .. 0 |-> [t \in T |-> Bad]], T, 0)
    BY DEF AreNested
  <2> QED BY <2>1
<1>3. ASSUME NEW n \in 0 .. Len(s) - 1, n \in Some PROVE n + 1 \in Some
  BY <1>3, NestedDeeper
<1>4. \A n \in 0 .. Len(s) : n \in Some
  <2> HIDE DEF Some
  <2> QED BY <1>2, <1>3, StepByStep
<1>5. PICK g : AreNested(g, T, Len(s))
  BY <1>4
<1> DEFINE nested[depth \in 0 .. Len(s)] ==
             [t \in T |-> IF depth = 0 THEN Bad ELSE ParseBy(t, nested[depth - 1])]
           IsF(f) == f = [depth \in 0 .. Len(s) |->
             [t \in T |-> IF depth = 0 THEN Bad ELSE ParseBy(t, f[depth - 1])]]
<1>6. \A f : IsF(f) <=> AreNested(f, T, Len(s))
  <2> TAKE f
  <2>1. \A i \in 0 .. Len(s) : i = 0 \/ i \in 1 .. Len(s)
    OBVIOUS
  <2>2. ASSUME IsF(f) PROVE AreNested(f, T, Len(s))
    <3>1. f = [i \in 0 .. Len(s) |-> f[i]]
      BY <2>2
    <3>2. f[0] = [t \in T |-> Bad]
      BY <2>2
    <3>3. ASSUME NEW d \in 1 .. Len(s) PROVE f[d] = [t \in T |-> ParseBy(t, f[d - 1])]
      <4>1. d # 0 /\ d \in 0 .. Len(s)
        OBVIOUS
      <4>2. f[d] = [t \in T |-> IF d = 0 THEN Bad ELSE ParseBy(t, f[d - 1])]
        BY <2>2, <4>1, Zenon
      <4> QED BY <4>1, <4>2, Zenon
    <3> QED BY <3>1, <3>2, <3>3 DEF AreNested
  <2>3. ASSUME AreNested(f, T, Len(s)) PROVE IsF(f)
    <3>1. f = [i \in 0 .. Len(s) |-> f[i]]
      BY <2>3 DEF AreNested
    <3>2. ASSUME NEW i \in 0 .. Len(s)
          PROVE  f[i] = [t \in T |-> IF i = 0 THEN Bad ELSE ParseBy(t, f[i - 1])]
      <4>1. CASE i = 0
        BY <2>3, <4>1 DEF AreNested
      <4>2. CASE i # 0
        <5>1. i \in 1 .. Len(s)
          BY <4>2
        <5>2. f[i] = [t \in T |-> ParseBy(t, f[i - 1])]
          BY <2>3, <5>1, Zenon DEF AreNested
        <5> QED BY <4>2, <5>2, Zenon
      <4> QED BY <4>1, <4>2
    <3> QED BY <3>1, <3>2, Zenon
  <2> QED BY <2>2, <2>3
<1>7. IsF(g)
  BY <1>5, <1>6
<1>8. IsF(nested)
  <2>1. nested = CHOOSE f : IsF(f)
    OBVIOUS
  <2> HIDE DEF nested, IsF
  <2> QED BY <1>7, <2>1, Zenon
<1>9. Parse(s) = nested[Len(s)][s]
  BY <1>1
<1> HIDE DEF nested, IsF
<1> QED BY <1>6, <1>8, <1>9 DEF T

(* parse of a text, and of the elements in it.                             *)
LEMMA ParseIs ==
  ASSUME NEW s, Len(s) \in Nat, Len(s) >= 2, s \in Seq(Range(s) \cup Range(CrLf))
  PROVE  \E parse, deeper :
           /\ Parse(s) = ParseBy(s, parse)
           /\ \A t \in Seq(Range(s) \cup Range(CrLf)) : parse[t] = ParseBy(t, deeper)
<1> DEFINE T == Seq(Range(s) \cup Range(CrLf))
           n == Len(s)
<1>1. PICK f : AreNested(f, T, n) /\ Parse(s) = f[n][s]
  BY ParseIsNested
<1> HIDE DEF T
<1>2. n \in 1 .. n /\ n - 1 \in 1 .. n /\ n - 1 - 1 = n - 2
  OBVIOUS
<1> HIDE DEF n
<1>3. \A d \in 1 .. n : f[d] = [t \in T |-> ParseBy(t, f[d - 1])]
  BY <1>1 DEF AreNested
<1>4. f[n] = [t \in T |-> ParseBy(t, f[n - 1])]
  BY <1>2, <1>3, Zenon
<1>5. f[n - 1] = [t \in T |-> ParseBy(t, f[n - 1 - 1])]
  BY <1>2, <1>3, Zenon
<1>6. s \in T
  BY DEF T
<1>7. f[n][s] = ParseBy(s, f[n - 1])
  BY <1>4, <1>6, Zenon
<1>8. \A t \in T : f[n - 1][t] = ParseBy(t, f[n - 1 - 1])
  BY <1>5, Zenon
<1>9. Parse(s) = ParseBy(s, f[n - 1])
  BY <1>1, <1>7 DEF n
<1> QED BY <1>8, <1>9, Zenon DEF T

(* The text of a request and what follows it: its header, a line break,    *)
(* and the words.                                                          *)
LEMMA RequestText ==
  ASSUME NEW S, Symbols \subseteq S, NEW ts \in Seq(Seq(S)), NEW rest \in Seq(S)
  PROVE  /\ ArrayText(ts) \in Seq(S)
         /\ FlattenSeq(Bulks(ts)) \o rest \in Seq(S)
         /\ ArrayText(ts) \o rest
              = (Header("*", Len(ts)) \o CrLf) \o (FlattenSeq(Bulks(ts)) \o rest)
<1> DEFINE h == Header("*", Len(ts))
           a == h \o CrLf
           b == FlattenSeq(Bulks(ts))
<1>1. Len(ts) \in Nat
  OBVIOUS
<1>2. h \in Seq(S)
  BY <1>1, HeaderFacts
<1>3. b \in Seq(S)
  BY BulksAreTexts, Flattened
<1>4. ArrayText(ts) = a \o b
  BY DEF ArrayText, Header, Bulks
<1> HIDE DEF h
<1>5. a \in Seq(S)
  <2>1. h \in Seq(S) /\ CrLf \in Seq(S)
    BY <1>2, CrLfIsText
  <2> QED BY ONLY <2>1, Joining
<1> HIDE DEF a, b
<1>6. rest \in Seq(S)
  OBVIOUS
<1>7. a \o b \in Seq(S) /\ b \o rest \in Seq(S)
  <2>1. a \o b \in Seq(S)
    BY ONLY <1>3, <1>5, Joining
  <2>2. b \o rest \in Seq(S)
    BY ONLY <1>3, <1>6, Joining
  <2> QED BY <2>1, <2>2
<1>8. (a \o b) \o rest = a \o (b \o rest)
  BY ONLY <1>3, <1>5, <1>6, Regrouped
<1> QED BY <1>4, <1>7, <1>8 DEF a, b, h

LEMMA OwnCharacters ==
  ASSUME NEW S, NEW s \in Seq(S), NEW C
  PROVE  s \in Seq(Range(s) \cup C) /\ \A i \in 1 .. Len(s) : s[i] \in Range(s) \cup C
<1>1. Len(s) \in Nat /\ DOMAIN s = 1 .. Len(s) /\ s = [i \in 1 .. Len(s) |-> s[i]]
  OBVIOUS
<1>2. \A i \in 1 .. Len(s) : s[i] \in Range(s) \cup C
  BY <1>1 DEF Range
<1>3. s \in [1 .. Len(s) -> Range(s) \cup C]
  BY <1>1, <1>2
<1> QED BY <1>1, <1>2, <1>3

(* A list of values none of which failed.                                  *)
LEMMA NoneFailed ==
  ASSUME NEW n \in Nat, NEW v
  PROVE  AllOrFirstFailure([i \in 1 .. n |-> Bulk(v[i])]) = Array([i \in 1 .. n |-> Bulk(v[i])])
<1> DEFINE vs == [i \in 1 .. n |-> Bulk(v[i])]
<1>1. DOMAIN vs = 1 .. n /\ \A i \in 1 .. n : vs[i] = <<"bulk", v[i]>>
  BY DEF Bulk
<1>2. \A i \in 1 .. n : ~ Failed(vs[i])
  <2> SUFFICES ASSUME NEW i \in 1 .. n PROVE ~ Failed(vs[i])
    OBVIOUS
  <2>1. vs[i][1] = "bulk" /\ Bad[1] = "bad" /\ Panic[1] = "panic"
    BY <1>1 DEF Bad, Panic
  <2>2. "bulk" # "bad" /\ "bulk" # "panic"
    OBVIOUS
  <2>3. vs[i] # Bad /\ vs[i] # Panic
    BY <2>1, <2>2
  <2> HIDE DEF vs
  <2> QED BY <2>3 DEF Failed
<1> HIDE DEF vs
<1>3. ~ \E i \in DOMAIN vs : Failed(vs[i])
  BY <1>1, <1>2
<1>4. AllOrFirstFailure(vs) = Array(vs)
  BY <1>3 DEF AllOrFirstFailure
<1> QED BY <1>4 DEF vs

(* A line and what follows it, as a list of lines.                         *)
LEMMA FirstOfLines ==
  ASSUME NEW S, NEW h \in S, NEW l \in Seq(S)
  PROVE  /\ <<h>> \o l \in Seq(S) /\ Len(<<h>> \o l) = 1 + Len(l)
         /\ (<<h>> \o l)[1] = h /\ Tail(<<h>> \o l) = l
<1> DEFINE one == <<h>>
           m == one \o l
<1>1. one \in Seq(S) /\ Len(one) = 1 /\ one[1] = h /\ l \in Seq(S) /\ m = one \o l
  OBVIOUS
<1> HIDE DEF m, one
<1>2. one \in Seq(S) /\ l \in Seq(S)
  BY <1>1
<1>3. /\ one \o l \in Seq(S) /\ Len(l) \in Nat /\ Len(one \o l) = Len(one) + Len(l)
      /\ \A i \in 1 .. Len(one) : (one \o l)[i] = one[i]
      /\ \A i \in 1 .. Len(l) : (one \o l)[Len(one) + i] = l[i]
  BY ONLY <1>2, Joining
<1>4. /\ m \in Seq(S) /\ Len(l) \in Nat /\ Len(m) = 1 + Len(l) /\ m[1] = h
      /\ \A i \in 1 .. Len(l) : m[1 + i] = l[i]
  <2>1. 1 \in 1 .. 1
    OBVIOUS
  <2> QED BY <1>1, <1>3, <2>1
<1>5. m # <<>>
  BY <1>4
<1>6. Tail(m) \in Seq(S) /\ Len(Tail(m)) = Len(l) /\ \A i \in 1 .. Len(l) : Tail(m)[i] = m[i + 1]
  BY <1>4, <1>5
<1>7. \A i \in 1 .. Len(l) : Tail(m)[i] = l[i]
  <2>1. \A i \in 1 .. Len(l) : i + 1 = 1 + i
    BY <1>4
  <2> QED BY <1>4, <1>6, <2>1
<1>8. Tail(m) = l
  BY <1>1, <1>6, <1>7, Extensional
<1> QED BY <1>4, <1>8 DEF m, one

(* An array is read by its first line and its elements.                    *)
LEMMA ArrayRead ==
  ASSUME NEW S, Symbols \subseteq S, NEW n \in Nat, NEW c \in Seq(S)
  PROVE  \E deeper :
           Parse((Header("*", n) \o CrLf) \o c)
             = AllOrFirstFailure([i \in DOMAIN Elements(Lines(c), n) |->
                                    ParseBy(Elements(Lines(c), n)[i], deeper)])
<1> DEFINE h == Header("*", n)
           s == (h \o CrLf) \o c
           e == Elements(Lines(c), n)
<1>2. /\ h \in Seq(S) /\ Len(h) \in Nat /\ Len(h) >= 2 /\ h[1] = "*"
      /\ Tail(h) = Decimal[n] /\ NoBreak(h)
  BY HeaderFacts
<1>4. IsInt(Tail(h)) /\ IntOf(Tail(h)) = n
  BY <1>2, DecimalIsInt
<1> HIDE DEF h
<1>7. Lines(c) \in Seq(Seq(S))
  BY LinesAreLines
<1>8. Lines(s) = <<h>> \o Lines(c)
  BY <1>2, LineByLine
<1>10. Lines(s)[1] = h /\ Tail(Lines(s)) = Lines(c)
  <2> DEFINE l == Lines(c)
  <2>1. h \in Seq(S) /\ l \in Seq(Seq(S))
    BY <1>2, <1>7
  <2> HIDE DEF l
  <2>2. (<<h>> \o l)[1] = h /\ Tail(<<h>> \o l) = l
    BY ONLY <2>1, FirstOfLines
  <2> QED BY <1>8, <2>2 DEF l
<1>11. /\ s \in Seq(S) /\ Len(s) \in Nat /\ Len(s) >= 2 /\ s # <<>> /\ s[1] = "*"
       /\ \A i \in 1 .. Len(c) : c[i] \in Range(s)
  <2> DEFINE a == h \o CrLf
  <2>1. h \in Seq(S) /\ CrLf \in Seq(S) /\ Len(CrLf) = 2
    BY <1>2, CrLfIsText
  <2>2. a \in Seq(S) /\ Len(a) = Len(h) + Len(CrLf) /\ \A i \in 1 .. Len(h) : a[i] = h[i]
    <3>1. h \in Seq(S) /\ CrLf \in Seq(S)
      BY <2>1
    <3> QED BY ONLY <3>1, Joining
  <2> HIDE DEF a
  <2>3. a \in Seq(S) /\ c \in Seq(S)
    BY <2>2
  <2>4. /\ a \o c \in Seq(S) /\ Len(c) \in Nat /\ Len(a \o c) = Len(a) + Len(c)
        /\ \A i \in 1 .. Len(a) : (a \o c)[i] = a[i]
        /\ \A i \in 1 .. Len(c) : (a \o c)[Len(a) + i] = c[i]
    BY ONLY <2>3, Joining
  <2>5. s = a \o c
    BY DEF a
  <2> HIDE DEF s
  <2>6. 1 \in 1 .. Len(h) /\ 1 \in 1 .. Len(a) /\ Len(s) >= 2 /\ Len(s) \in Nat /\ Len(a) \in Nat
    BY <1>2, <2>1, <2>2, <2>4, <2>5
  <2>7. s[1] = "*"
    BY <1>2, <2>2, <2>4, <2>5, <2>6
  <2>8. s # <<>>
    BY <2>6
  <2>9. ASSUME NEW i \in 1 .. Len(c) PROVE c[i] \in Range(s)
    <3>1. Len(a) + i \in 1 .. Len(s) /\ s[Len(a) + i] = c[i]
      BY <2>4, <2>5, <2>6
    <3>2. DOMAIN s = 1 .. Len(s)
      BY <2>4, <2>5
    <3> QED BY ONLY <3>1, <3>2 DEF Range
  <2> QED BY <2>4, <2>5, <2>6, <2>7, <2>8, <2>9
<1> HIDE DEF s
<1> DEFINE T == Range(s) \cup Range(CrLf)
<1>12. s \in Seq(T)
  BY <1>11, OwnCharacters
<1>13. PICK parse, deeper :
         /\ Parse(s) = ParseBy(s, parse)
         /\ \A t \in Seq(T) : parse[t] = ParseBy(t, deeper)
  BY <1>11, <1>12, ParseIs
<1>14. e \in Seq(Seq(T))
  <2>1. CrLf \in Seq(T)
    <3>1. DOMAIN CrLf = 1 .. 2 /\ CrLf = [i \in 1 .. 2 |-> CrLf[i]]
      BY DEF CrLf
    <3>2. \A i \in 1 .. 2 : CrLf[i] \in T
      BY <3>1 DEF Range
    <3> HIDE DEF T
    <3>3. CrLf \in [1 .. 2 -> T] /\ 2 \in Nat
      BY <3>1, <3>2
    <3> QED BY ONLY <3>3, TupleIsSeq
  <2>2. c \in Seq(T)
    <3>1. \A i \in 1 .. Len(c) : c[i] \in T
      BY <1>11
    <3> HIDE DEF T
    <3>2. Len(c) \in Nat /\ c = [i \in 1 .. Len(c) |-> c[i]]
      OBVIOUS
    <3>3. c \in [1 .. Len(c) -> T]
      BY <3>1, <3>2
    <3> QED BY ONLY <3>2, <3>3, TupleIsSeq
  <2> HIDE DEF T
  <2>3. Lines(c) \in Seq(Seq(T))
    BY <2>2, LinesAreLines
  <2>4. n \in Nat
    OBVIOUS
  <2> QED BY ONLY <2>1, <2>3, <2>4, ElementsAreTexts
<1> HIDE DEF T
<1>15. ParseBy(s, parse) = ParseArray(s, parse)
  <2>1. "*" # "+" /\ "*" # ":" /\ "*" # "$"
    OBVIOUS
  <2> QED BY <1>11, <2>1 DEF ParseBy
<1>16. ParseArray(s, parse) = AllOrFirstFailure([i \in DOMAIN e |-> parse[e[i]]])
  <2> DEFINE N == IntOf(Tail(h))
             V == AllOrFirstFailure([i \in DOMAIN Elements(Lines(c), N) |-> parse[Elements(Lines(c), N)[i]]])
  <2>1. ParseArray(s, parse) = CASE N = -1 -> Null [] N < -1 -> Bad [] N >= 0 -> V
    BY <1>4, <1>10, Zenon DEF ParseArray
  <2>2. N = n
    BY <1>4
  <2> HIDE DEF N, V
  <2>3. N # -1 /\ ~ (N < -1) /\ N >= 0
    BY <2>2
  <2>4. ParseArray(s, parse) = V
    BY <2>1, <2>3
  <2> QED BY <2>2, <2>4, Zenon DEF V
<1>17. [i \in DOMAIN e |-> parse[e[i]]] = [i \in DOMAIN e |-> ParseBy(e[i], deeper)]
  <2>1. \A i \in DOMAIN e : e[i] \in Seq(T)
    <3> HIDE DEF e
    <3>1. DOMAIN e = 1 .. Len(e)
      BY <1>14
    <3> QED BY ONLY <1>14, <3>1, ElementOfSeq
  <2> HIDE DEF e
  <2>2. \A i \in DOMAIN e : parse[e[i]] = ParseBy(e[i], deeper)
    BY <1>13, <2>1
  <2> QED BY <2>2, Zenon
<1>19. Parse(s) = AllOrFirstFailure([i \in DOMAIN e |-> ParseBy(e[i], deeper)])
  BY <1>13, <1>15, <1>16, <1>17, Zenon
<1> QED BY <1>19 DEF s, h, e

-----------------------------------------------------------------------------
(* Requests that are cut.                                                  *)

(* The beginning of two texts that are joined.                             *)
LEMMA CutJoined ==
  ASSUME NEW S, NEW a \in Seq(S), NEW b \in Seq(S), NEW m \in 0 .. Len(a) + Len(b)
  PROVE  /\ m <= Len(a) => SubSeq(a \o b, 1, m) = SubSeq(a, 1, m)
         /\ m >= Len(a) => /\ m - Len(a) \in 0 .. Len(b)
                           /\ SubSeq(a \o b, 1, m) = a \o SubSeq(b, 1, m - Len(a))
<1> DEFINE s == a \o b
           x == SubSeq(s, 1, m)
<1>1. /\ s \in Seq(S) /\ Len(a) \in Nat /\ Len(b) \in Nat /\ Len(s) = Len(a) + Len(b)
      /\ \A i \in 1 .. Len(a) : s[i] = a[i]
      /\ \A i \in 1 .. Len(b) : s[Len(a) + i] = b[i]
  BY Joining
<1> HIDE DEF s
<1>2. x \in Seq(S) /\ Len(x) = m /\ \A i \in 1 .. m : x[i] = s[i]
  <2>1. m \in 0 .. Len(s)
    BY <1>1
  <2> QED BY <1>1, <2>1, BeginningOf
<1> HIDE DEF x
<1>3. ASSUME m <= Len(a) PROVE x = SubSeq(a, 1, m)
  <2> DEFINE y == SubSeq(a, 1, m)
  <2>1. m \in 0 .. Len(a)
    BY <1>1, <1>3
  <2>2. y \in Seq(S) /\ Len(y) = m /\ \A i \in 1 .. m : y[i] = a[i]
    BY <2>1, BeginningOf
  <2> HIDE DEF y
  <2>3. \A i \in 1 .. m : x[i] = y[i]
    <3>1. \A i \in 1 .. m : i \in 1 .. Len(a)
      BY ONLY <1>1, <2>1
    <3> QED BY ONLY <1>1, <1>2, <2>2, <3>1
  <2>4. x = y
    BY <1>2, <2>2, <2>3, Extensional
  <2> QED BY <2>4 DEF y
<1>4. ASSUME m >= Len(a) PROVE m - Len(a) \in 0 .. Len(b) /\ x = a \o SubSeq(b, 1, m - Len(a))
  <2> DEFINE k == m - Len(a)
             c == SubSeq(b, 1, k)
             y == a \o c
  <2>1. k \in 0 .. Len(b) /\ Len(a) + k = m
    BY <1>1, <1>4
  <2> HIDE DEF k
  <2>2. c \in Seq(S) /\ Len(c) = k /\ \A i \in 1 .. k : c[i] = b[i]
    BY <2>1, BeginningOf
  <2> HIDE DEF c
  <2>3. /\ y \in Seq(S) /\ Len(y) = Len(a) + Len(c)
        /\ \A i \in 1 .. Len(a) : y[i] = a[i]
        /\ \A i \in 1 .. Len(c) : y[Len(a) + i] = c[i]
    <3>1. a \in Seq(S) /\ c \in Seq(S)
      BY <2>2
    <3> QED BY ONLY <3>1, Joining
  <2> HIDE DEF y
  <2>4. ASSUME NEW i \in 1 .. m PROVE x[i] = y[i]
    <3>1. CASE i \in 1 .. Len(a)
      BY <1>1, <1>2, <2>3, <3>1
    <3>2. CASE i \notin 1 .. Len(a)
      <4>1. PICK j \in 1 .. k : i = Len(a) + j
        <5>1. i - Len(a) \in 1 .. k /\ i = Len(a) + (i - Len(a))
          BY <1>1, <2>1, <3>2
        <5> QED BY <5>1
      <4>2. j \in 1 .. Len(b)
        BY <1>1, <2>1
      <4> QED BY <1>1, <1>2, <2>2, <2>3, <4>1, <4>2
    <3> QED BY <3>1, <3>2
  <2>5. x = y
    BY <1>2, <2>1, <2>2, <2>3, <2>4, Extensional
  <2> QED BY <2>1, <2>5 DEF y, c, k
<1> QED BY <1>3, <1>4 DEF x, s

(* A header that is cut: it is a number, or none, and no line break.       *)
IsHeaderCut(w, symbol, S) ==
  /\ w \in Seq(S) /\ w # <<>> /\ w[1] = symbol /\ NoBreak(w)
  /\ IsInt(Tail(w)) => Len(w) >= 2 /\ IntOf(Tail(w)) \in Nat

LEMMA HeaderCut ==
  ASSUME NEW S, Symbols \subseteq S, NEW symbol \in {"$", "*"}, NEW n \in Nat,
         NEW m \in Nat \ {0}, m <= Len(Header(symbol, n)) + 1,
         NEW w, w = SubSeq(Header(symbol, n) \o CrLf, 1, m)
  PROVE  IsHeaderCut(w, symbol, S)
<1> DEFINE h == Header(symbol, n)
           x == h \o CrLf
           d == Decimal[n]
<1>1. /\ h \in Seq(S) /\ Len(h) \in Nat /\ Len(h) >= 2 /\ h[1] = symbol /\ Tail(h) = d
      /\ CrLf \in Seq(S) /\ Len(CrLf) = 2 /\ CrLf[1] = "cr"
  BY HeaderFacts, CrLfIsText, ZenonT(60)
<1>2. d \in Seq(DigitChars)
  BY DecimalFacts
<1> HIDE DEF h, d
<1>3. ASSUME NEW i \in 2 .. Len(h) PROVE h[i] \in DigitChars
  <2>1. h # <<>>
    BY <1>1
  <2>2. Len(Tail(h)) = Len(h) - 1 /\ \A j \in 1 .. Len(h) - 1 : Tail(h)[j] = h[j + 1]
    BY <1>1, <2>1
  <2>3. i - 1 \in 1 .. Len(h) - 1 /\ i - 1 + 1 = i
    BY <1>1
  <2>4. Tail(h)[i - 1] = h[i]
    BY <2>2, <2>3
  <2>5. Len(d) = Len(h) - 1
    BY <1>1, <2>2
  <2>6. i - 1 \in 1 .. Len(d)
    BY <2>3, <2>5
  <2>7. d[i - 1] \in DigitChars
    BY <1>2, <2>6, ElementOfSeq
  <2> QED BY <1>1, <2>4, <2>7
<1>4. /\ x \in Seq(S) /\ Len(x) = Len(h) + 2
      /\ \A i \in 1 .. Len(h) : x[i] = h[i]
      /\ x[Len(h) + 1] = "cr"
  <2>1. h \in Seq(S) /\ CrLf \in Seq(S)
    BY <1>1
  <2>2. /\ x \in Seq(S) /\ Len(x) = Len(h) + Len(CrLf)
        /\ \A i \in 1 .. Len(h) : x[i] = h[i]
        /\ \A i \in 1 .. Len(CrLf) : x[Len(h) + i] = CrLf[i]
    BY ONLY <2>1, Joining
  <2> HIDE DEF x
  <2> QED BY <1>1, <2>2
<1> HIDE DEF x
<1>5. m \in 0 .. Len(x) /\ m \in Nat /\ m >= 1 /\ m <= Len(h) + 1
  BY <1>1, <1>4 DEF h
<1>6. w \in Seq(S) /\ Len(w) = m /\ \A i \in 1 .. m : w[i] = x[i]
  <2>1. w = SubSeq(x, 1, m)
    BY DEF x, h
  <2> QED BY <1>4, <1>5, <2>1, BeginningOf, ZenonT(60)
<1>7. w # <<>> /\ w[1] = symbol
  <2>1. 1 \in 1 .. m /\ 1 \in 1 .. Len(h)
    BY ONLY <1>1, <1>5
  <2>2. w[1] = symbol
    BY ONLY <1>1, <1>4, <1>6, <2>1
  <2> QED BY ONLY <1>5, <1>6, <2>2
<1>8. ASSUME NEW i \in 2 .. m PROVE w[i] \in DigitChars \cup {"cr"}
  <2>1. i \in 2 .. Len(h) \/ i = Len(h) + 1
    BY <1>1, <1>5
  <2>2. w[i] = x[i]
    <3>1. i \in 1 .. m
      BY ONLY <1>5, i \in 2 .. m
    <3> QED BY ONLY <1>6, <3>1
  <2>3. CASE i \in 2 .. Len(h)
    <3>1. x[i] = h[i]
      BY <1>4, <2>3
    <3> QED BY <1>3, <2>2, <2>3, <3>1
  <2>4. CASE i = Len(h) + 1
    BY <1>4, <2>2, <2>4
  <2> QED BY <2>1, <2>3, <2>4
<1>9. "lf" \notin DigitChars \cup {"cr"} /\ "-" \notin DigitChars \cup {"cr"}
  BY DigitsAre
<1>10. NoBreak(w)
  <2>1. ASSUME NEW i \in 1 .. Len(w) - 1 PROVE w[i + 1] # "lf"
    <3>1. i + 1 \in 2 .. m
      BY <1>5, <1>6
    <3> QED BY <1>8, <1>9, <3>1
  <2> QED BY <2>1 DEF NoBreak
<1>11. ASSUME IsInt(Tail(w)) PROVE Len(w) >= 2 /\ IntOf(Tail(w)) \in Nat
  <2> DEFINE q == Tail(w)
  <2>1. q \in Seq(S) /\ Len(q) = m - 1 /\ \A i \in 1 .. m - 1 : q[i] = w[i + 1]
    <3>1. w \in Seq(S) /\ w # <<>> /\ Len(w) = m
      BY <1>6, <1>7
    <3> QED BY ONLY <3>1
  <2> HIDE DEF q
  <2>2. IsInt(q)
    BY <1>11 DEF q
  <2>3. q # <<>> /\ (q[1] # "-" => IntOf(q) \in Nat)
    BY <2>1, <2>2, IntFacts
  <2>4. m >= 2
    <3>1. Len(q) # 0
      BY <2>1, <2>3
    <3> QED BY <1>5, <2>1, <3>1
  <2>5. q[1] # "-"
    <3>1. 2 \in 2 .. m /\ 1 \in 1 .. m - 1 /\ 1 + 1 = 2
      BY <1>5, <2>4
    <3>2. q[1] = w[2]
      BY <2>1, <3>1
    <3> QED BY <1>8, <1>9, <3>1, <3>2
  <2> QED BY <1>6, <2>3, <2>4, <2>5 DEF q
<1> QED BY <1>5, <1>6, <1>7, <1>10, <1>11 DEF IsHeaderCut

(* A string is read in the same way whatever the depth.                    *)
LEMMA BulkByItself ==
  ASSUME NEW S, NEW e \in Seq(S), e # <<>>, e[1] = "$", NEW deeper
  PROVE  ParseBy(e, deeper) = ParseBulkString(e)
<1>1. "$" # "+" /\ "$" # ":" /\ "$" # "*"
  OBVIOUS
<1> QED BY <1>1 DEF ParseBy

(* The text of an element that is no string, or a shorter one, or t.       *)
ReadsAs(e, t) == \A deeper : ParseBy(e, deeper) \in {Bad, Panic, Bulk(t)}

LEMMA NothingIsOneLine == Lines(<<>>) = << <<>> >>
<1>1. <<>> \in Seq({}) /\ NoBreak(<<>>)
  BY DEF NoBreak
<1> QED BY ONLY <1>1, OneLine

LEMMA LineAndBreak ==
  ASSUME NEW S, Symbols \subseteq S, NEW w \in Seq(S), NoBreak(w)
  PROVE  /\ w \o CrLf \in Seq(S)
         /\ Lines(w \o CrLf) = <<w>> \o << <<>> >>
         /\ w # <<>> => w \o CrLf # <<>> /\ (w \o CrLf)[1] = w[1]
<1> DEFINE e == w \o CrLf
<1>1. /\ e \in Seq(S) /\ Len(w) \in Nat /\ Len(e) = Len(w) + Len(CrLf) /\ Len(CrLf) = 2
      /\ \A i \in 1 .. Len(w) : e[i] = w[i]
  <2>1. CrLf \in Seq(S) /\ Len(CrLf) = 2 /\ w \in Seq(S)
    BY CrLfIsText
  <2> QED BY <2>1, Joining
<1>2. e \o <<>> = e
  BY <1>1, ConcatEmptySeq
<1>3. Lines(e \o <<>>) = <<w>> \o Lines(<<>>)
  <2>1. <<>> \in Seq(S)
    OBVIOUS
  <2> QED BY <2>1, LineByLine
<1> HIDE DEF e
<1>4. w # <<>> => e # <<>> /\ e[1] = w[1]
  <2> SUFFICES ASSUME w # <<>> PROVE e # <<>> /\ e[1] = w[1]
    OBVIOUS
  <2>1. 1 \in 1 .. Len(w) /\ Len(e) >= 2
    BY <1>1
  <2> QED BY <1>1, <2>1
<1> QED BY <1>1, <1>2, <1>3, <1>4, NothingIsOneLine DEF e

(* A length that is cut so that it is none announces nothing, and is       *)
(* refused.                                                                *)
LEMMA NoNumber ==
  ASSUME NEW S, Symbols \subseteq S, NEW w \in Seq(S), NoBreak(w), w # <<>>, w[1] = "$",
         ~ IsInt(Tail(w)), NEW t
  PROVE  CountQoda(w) = 0 /\ ReadsAs(w \o CrLf, t)
<1> DEFINE e == w \o CrLf
<1>1. CountQoda(w) = 0
  BY DEF CountQoda
<1>2. e \in Seq(S) /\ Lines(e) = <<w>> \o << <<>> >> /\ e # <<>> /\ e[1] = "$"
  BY LineAndBreak
<1> HIDE DEF e
<1>3. (<<w>> \o << <<>> >>)[1] = w
  <2>1. w \in Seq(S) /\ << <<>> >> \in Seq(Seq(S))
    OBVIOUS
  <2> QED BY ONLY <2>1, FirstOfLines
<1>4. ParseBulkString(e) = Bad
  BY <1>2, <1>3 DEF ParseBulkString
<1>5. \A deeper : ParseBy(e, deeper) = Bad
  BY <1>2, <1>4, BulkByItself
<1> QED BY <1>1, <1>5 DEF ReadsAs, e

(* The empty line behind a line break is no value.                         *)
LEMMA NoElement ==
  ASSUME NEW t
  PROVE  ReadsAs(CrLf, t)
<1>1. CrLf # <<>> /\ CrLf[1] = "cr"
  BY DEF CrLf
<1>2. \A deeper : ParseBy(CrLf, deeper) = Bad
  BY <1>1 DEF ParseBy
<1> QED BY <1>2 DEF ReadsAs

(* Two lines and an empty one.                                             *)
LEMMA TwoLines ==
  ASSUME NEW S, NEW h \in Seq(S), NEW v \in Seq(S), NEW m, m = <<h>> \o (<<v>> \o << <<>> >>)
  PROVE  Len(m) = 3 /\ m[1] = h /\ m[2] = v
<1> DEFINE none == <<>>
           end == <<none>>
           l == <<v>> \o end
<1>1. none \in Seq(S)
  OBVIOUS
<1> HIDE DEF none
<1>2. end \in Seq(Seq(S)) /\ Len(end) = 1
  BY <1>1
<1> HIDE DEF end
<1>3. l \in Seq(Seq(S)) /\ Len(l) = 1 + Len(end) /\ l[1] = v
  BY ONLY <1>2, v \in Seq(S), FirstOfLines, ZenonT(60)
<1>4. m = <<h>> \o l
  BY DEF none, end
<1> HIDE DEF l
<1>5. m \in Seq(Seq(S)) /\ Len(m) = 1 + Len(l) /\ m[1] = h /\ Tail(m) = l
  BY ONLY <1>3, <1>4, h \in Seq(S), FirstOfLines
<1>6. Len(m) = 3
  BY ONLY <1>2, <1>3, <1>5
<1>7. Tail(m)[1] = m[2]
  <2>1. m \in Seq(Seq(S)) /\ m # <<>>
    BY <1>5, <1>6
  <2>2. \A i \in 1 .. Len(m) - 1 : Tail(m)[i] = m[i + 1]
    BY ONLY <2>1
  <2>3. 1 \in 1 .. Len(m) - 1 /\ 1 + 1 = 2
    BY ONLY <1>6
  <2> QED BY ONLY <2>2, <2>3
<1> QED BY <1>3, <1>5, <1>6, <1>7

(* A string that is cut behind its length.                                 *)
LEMMA ShortBulk ==
  ASSUME NEW S, Symbols \subseteq S, NEW t \in Seq(S), NoBreak(t),
         NEW k \in 0 .. Len(t) + 1, NEW v, v = SubSeq(t \o CrLf, 1, k)
  PROVE  /\ v \in Seq(S) /\ NoBreak(v)
         /\ ReadsAs(((Header("$", Len(t)) \o CrLf) \o v) \o CrLf, t)
<1> DEFINE h == Header("$", Len(t))
           x == h \o CrLf
           y == t \o CrLf
           e == (x \o v) \o CrLf
           n == Len(t)
<1>1. /\ n \in Nat /\ h \in Seq(S) /\ NoBreak(h) /\ h[1] = "$" /\ Len(h) \in Nat /\ Len(h) >= 2
      /\ CrLf \in Seq(S) /\ Len(CrLf) = 2 /\ CrLf[1] = "cr"
      /\ IsInt(Tail(h)) /\ IntOf(Tail(h)) = n
  <2>1. n \in Nat
    OBVIOUS
  <2> QED BY <2>1, HeaderFacts, CrLfIsText, DecimalIsInt
<1>2. /\ y \in Seq(S) /\ Len(y) = n + 2 /\ y[n + 1] = "cr"
      /\ \A i \in 1 .. n : y[i] = t[i]
  <2>1. t \in Seq(S) /\ CrLf \in Seq(S)
    BY <1>1
  <2>2. /\ y \in Seq(S) /\ Len(y) = Len(t) + Len(CrLf)
        /\ \A i \in 1 .. Len(t) : y[i] = t[i]
        /\ \A i \in 1 .. Len(CrLf) : y[Len(t) + i] = CrLf[i]
    BY ONLY <2>1, Joining
  <2>3. 1 \in 1 .. Len(CrLf)
    BY <1>1
  <2> QED BY <1>1, <2>2, <2>3
<1> HIDE DEF h, y
<1>3. k \in Nat /\ k <= n + 1 /\ k \in 0 .. Len(y)
  BY <1>1, <1>2
<1>4. v \in Seq(S) /\ Len(v) = k /\ \A i \in 1 .. k : v[i] = y[i]
  <2>1. v = SubSeq(y, 1, k)
    BY DEF y
  <2> QED BY <1>2, <1>3, <2>1, BeginningOf, ZenonT(60)
<1>5. NoBreak(v)
  <2>1. ASSUME NEW i \in 1 .. Len(v) - 1 PROVE ~ (v[i] = "cr" /\ v[i + 1] = "lf")
    <3>1. i \in 1 .. k /\ i + 1 \in 1 .. k /\ i \in 1 .. n /\ (i + 1 = n + 1 \/ (i + 1 \in 1 .. n /\ i \in 1 .. n - 1))
      BY ONLY <1>1, <1>3, <1>4, i \in 1 .. Len(v) - 1
    <3>2. v[i] = t[i] /\ v[i + 1] = y[i + 1]
      BY ONLY <1>2, <1>4, <3>1
    <3>3. CASE i + 1 = n + 1
      BY ONLY <1>2, <3>2, <3>3
    <3>4. CASE i + 1 \in 1 .. n /\ i \in 1 .. n - 1
      <4>1. y[i + 1] = t[i + 1]
        BY ONLY <1>2, <3>4
      <4>2. ~ (t[i] = "cr" /\ t[i + 1] = "lf")
        BY <3>4 DEF NoBreak
      <4> QED BY ONLY <3>2, <4>1, <4>2
    <3> QED BY ONLY <3>1, <3>3, <3>4
  <2> QED BY <2>1 DEF NoBreak
<1>6. n <= k => SubSeq(v, 1, n) = t
  <2> SUFFICES ASSUME n <= k PROVE SubSeq(v, 1, n) = t
    OBVIOUS
  <2> DEFINE z == SubSeq(v, 1, n)
  <2>1. n \in 0 .. Len(v)
    BY ONLY <1>1, <1>4, <1>3, n <= k
  <2> HIDE DEF n
  <2>2. z \in Seq(S) /\ Len(z) = n /\ \A i \in 1 .. n : z[i] = v[i]
    BY <1>4, <2>1, BeginningOf
  <2> HIDE DEF z
  <2>3. \A i \in 1 .. n : i \in 1 .. k
    BY ONLY <1>1, <1>3, n <= k
  <2>4. \A i \in 1 .. n : z[i] = t[i]
    BY ONLY <1>2, <1>4, <2>2, <2>3
  <2>5. t \in Seq(S) /\ Len(t) = n
    BY DEF n
  <2>6. z = t
    BY ONLY <2>2, <2>4, <2>5, Extensional
  <2> QED BY <2>6 DEF z
<1>7. e = x \o (v \o CrLf) /\ x \in Seq(S)
  <2>1. h \in Seq(S) /\ CrLf \in Seq(S) /\ v \in Seq(S)
    BY <1>1, <1>4
  <2>2. x \in Seq(S)
    BY ONLY <2>1, Joining
  <2>3. (x \o v) \o CrLf = x \o (v \o CrLf)
    <3> HIDE DEF e, n, x
    <3>1. x \in Seq(S) /\ v \in Seq(S) /\ CrLf \in Seq(S)
      BY <2>1, <2>2
    <3> QED BY ONLY <3>1, Regrouped, SMTT(60)
  <2> QED BY <2>2, <2>3
<1> DEFINE u == v \o CrLf
<1>8. u \in Seq(S) /\ Lines(u) = <<v>> \o << <<>> >>
  BY <1>4, <1>5, LineAndBreak
<1> HIDE DEF u
<1>9. Lines(x \o u) = <<h>> \o Lines(u)
  BY <1>1, <1>8, LineByLine
<1>10. /\ x \o u \in Seq(S) /\ x \o u # <<>> /\ (x \o u)[1] = "$"
  <2>1. h \in Seq(S) /\ CrLf \in Seq(S)
    BY <1>1
  <2>2. x \in Seq(S) /\ Len(x) = Len(h) + Len(CrLf) /\ \A i \in 1 .. Len(h) : x[i] = h[i]
    BY ONLY <2>1, Joining
  <2> HIDE DEF x
  <2>3. /\ x \o u \in Seq(S) /\ Len(x \o u) = Len(x) + Len(u) /\ Len(u) \in Nat
        /\ \A i \in 1 .. Len(x) : (x \o u)[i] = x[i]
    <3>1. x \in Seq(S) /\ u \in Seq(S)
      BY <1>8, <2>2
    <3> QED BY ONLY <3>1, Joining
  <2>4. 1 \in 1 .. Len(h) /\ 1 \in 1 .. Len(x) /\ Len(x \o u) >= 4
    BY ONLY <1>1, <2>2, <2>3
  <2> QED BY <1>1, <2>2, <2>3, <2>4
<1>11. Lines(e) = <<h>> \o (<<v>> \o << <<>> >>) /\ e \in Seq(S) /\ e # <<>> /\ e[1] = "$"
  BY <1>7, <1>8, <1>9, <1>10 DEF u
<1> HIDE DEF e
<1>12. Len(Lines(e)) = 3 /\ Lines(e)[1] = h /\ Lines(e)[2] = v
  <2>1. h \in Seq(S) /\ v \in Seq(S)
    BY <1>1, <1>4
  <2> QED BY ONLY <1>11, <2>1, TwoLines
<1> HIDE DEF n
<1> DEFINE N == IntOf(Tail(h))
<1>13. ParseBulkString(e) =
        CASE N = -1       -> Null
          [] N < -1       -> Bad
          [] N > Len(v)   -> Panic
          [] N \in 0 .. Len(v) -> Bulk(SubSeq(v, 1, N))
  BY <1>1, <1>12 DEF ParseBulkString
<1>14. N = n
  BY <1>1
<1> HIDE DEF N
<1>15. ParseBulkString(e) \in {Panic, Bulk(t)}
  <2>1. CASE n <= k
    <3>1. N # -1 /\ ~ (N < -1) /\ ~ (N > Len(v)) /\ N \in 0 .. Len(v)
      BY ONLY <1>1, <1>3, <1>4, <1>14, <2>1
    <3> QED BY <1>6, <1>13, <1>14, <2>1, <3>1
  <2>2. CASE n > k
    <3>1. N # -1 /\ ~ (N < -1) /\ N > Len(v) /\ N \notin 0 .. Len(v)
      BY ONLY <1>1, <1>3, <1>4, <1>14, <2>2
    <3> QED BY <1>13, <3>1
  <2> QED BY <1>1, <1>3, <2>1, <2>2
<1>16. \A deeper : ParseBy(e, deeper) \in {Panic, Bulk(t)}
  BY <1>11, <1>15, BulkByItself
<1> QED BY <1>4, <1>5, <1>16 DEF ReadsAs, e, x, h

(* A line that is gathered ends an element, or does not.                   *)
LEMMA GatherEnds ==
  ASSUME NEW acc, acc.left # 0, acc.qoda = 1, NEW w, CountQoda(w) = 0
  PROVE  Gather(acc, w).elements = Append(acc.elements, acc.tmp \o w \o CrLf)
<1> DEFINE x == acc.tmp \o w \o CrLf
           C == CountQoda(w)
<1>2. Gather(acc, w) = IF 1 + C - 1 = 0
                         THEN [left |-> acc.left - 1, qoda |-> 1, tmp |-> <<>>,
                               elements |-> Append(acc.elements, x)]
                         ELSE [acc EXCEPT !.qoda = 1 + C - 1, !.tmp = x]
  BY Zenon DEF Gather
<1> HIDE DEF x
<1>3. 1 + C - 1 = 0
  OBVIOUS
<1> HIDE DEF C
<1>4. Gather(acc, w).elements = Append(acc.elements, x)
  BY <1>2, <1>3
<1> QED BY <1>4 DEF x

LEMMA GatherGoesOn ==
  ASSUME NEW acc, acc.left # 0, acc.qoda = 1, NEW w, CountQoda(w) \in Nat \ {0}
  PROVE  Gather(acc, w) = [acc EXCEPT !.qoda = CountQoda(w), !.tmp = acc.tmp \o w \o CrLf]
<1> DEFINE x == acc.tmp \o w \o CrLf
           C == CountQoda(w)
<1>2. Gather(acc, w) = IF 1 + C - 1 = 0
                         THEN [left |-> acc.left - 1, qoda |-> 1, tmp |-> <<>>,
                               elements |-> Append(acc.elements, x)]
                         ELSE [acc EXCEPT !.qoda = 1 + C - 1, !.tmp = x]
  BY Zenon DEF Gather
<1> HIDE DEF x
<1>3. 1 + C - 1 # 0 /\ 1 + C - 1 = C
  OBVIOUS
<1> HIDE DEF C
<1>4. Gather(acc, w) = [acc EXCEPT !.qoda = C, !.tmp = x]
  BY <1>2, <1>3
<1> QED BY <1>4 DEF x, C

(* What the lines of a string that is cut add to the elements: nothing, or *)
(* the text of an element that is no string, or a shorter one, or t.       *)
Adds(new, es, t) == new = es \/ \E e : new = Append(es, e) /\ ReadsAs(e, t)

LEMMA PieceGathered ==
  ASSUME NEW S, Symbols \subseteq S, NEW t \in Seq(S), NoBreak(t),
         NEW m \in Nat, m < Len(BulkText(t)), NEW r, r = SubSeq(BulkText(t), 1, m),
         NEW left \in Nat \ {0}, NEW es,
         NEW a, a = [left |-> left, qoda |-> 1, tmp |-> <<>>, elements |-> es]
  PROVE  /\ r \in Seq(S)
         /\ \/ Len(Lines(r)) = 1 /\ Adds(Gather(a, Lines(r)[1]).elements, es, t)
            \/ Len(Lines(r)) = 2 /\ Adds(Gather(Gather(a, Lines(r)[1]), Lines(r)[2]).elements, es, t)
<1> DEFINE h == Header("$", Len(t))
           x == h \o CrLf
           y == t \o CrLf
           n == Len(t)
<1>1. /\ n \in Nat /\ h \in Seq(S) /\ NoBreak(h) /\ Len(h) \in Nat /\ Len(h) >= 2
      /\ CrLf \in Seq(S) /\ Len(CrLf) = 2 /\ CountQoda(h) = 1
  <2>1. n \in Nat
    OBVIOUS
  <2> QED BY <2>1, HeaderFacts, CrLfIsText, BulkHeaderCounts
<1>2. x \in Seq(S) /\ Len(x) = Len(h) + 2
  <2>1. h \in Seq(S) /\ CrLf \in Seq(S)
    BY <1>1
  <2>2. x \in Seq(S) /\ Len(x) = Len(h) + Len(CrLf)
    BY ONLY <2>1, Joining
  <2> QED BY <1>1, <2>2
<1>3. y \in Seq(S) /\ Len(y) = n + 2
  <2>1. t \in Seq(S) /\ CrLf \in Seq(S)
    BY <1>1
  <2>2. y \in Seq(S) /\ Len(y) = Len(t) + Len(CrLf)
    BY ONLY <2>1, Joining
  <2> QED BY <1>1, <2>2
<1>4. BulkText(t) = x \o y
  <2>1. BulkText(t) = (x \o t) \o CrLf
    BY DEF BulkText, Header
  <2>2. x \in Seq(S) /\ t \in Seq(S) /\ CrLf \in Seq(S)
    BY <1>1, <1>2
  <2>3. (x \o t) \o CrLf = x \o (t \o CrLf)
    <3> HIDE DEF x
    <3> QED BY ONLY <2>2, Regrouped
  <2> QED BY <2>1, <2>3
<1>5. Len(BulkText(t)) = Len(x) + Len(y)
  <2> HIDE DEF x, y
  <2>1. Len(x \o y) = Len(x) + Len(y)
    BY ONLY <1>2, <1>3, Joining
  <2> QED BY <1>4, <2>1
<1>6. m < Len(h) + n + 4 /\ m \in 0 .. Len(x) + Len(y)
  BY ONLY <1>1, <1>2, <1>3, <1>5, m \in Nat, m < Len(BulkText(t))
<1>7. /\ m <= Len(x) => r = SubSeq(x, 1, m)
      /\ m >= Len(x) => m - Len(x) \in 0 .. Len(y) /\ r = x \o SubSeq(y, 1, m - Len(x))
  <2>1. r = SubSeq(x \o y, 1, m)
    BY <1>4
  <2>2. x \in Seq(S) /\ y \in Seq(S)
    BY <1>2, <1>3
  <2> HIDE DEF x, y
  <2> QED BY ONLY <1>6, <2>1, <2>2, CutJoined, SMTT(60)
<1> HIDE DEF x, y, n, h
<1>8. <<>> \o CrLf = CrLf /\ left # 0
  OBVIOUS
<1>a. a.left # 0 /\ a.qoda = 1 /\ a.tmp = <<>> /\ a.elements = es
  BY <1>8
<1>9. CASE m = 0
  <2>1. r = <<>>
    BY <1>1, <1>2, <1>7, <1>9
  <2>2. Lines(r) = << <<>> >>
    BY <2>1, NothingIsOneLine
  <2>3. Len(Lines(r)) = 1 /\ Lines(r)[1] = <<>>
    BY <2>2
  <2>4. CountQoda(<<>>) = 0
    BY DEF CountQoda
  <2>5. Gather(a, <<>>).elements = Append(a.elements, a.tmp \o <<>> \o CrLf)
    BY ONLY <1>a, <2>4, GatherEnds
  <2>6. <<>> \o <<>> \o CrLf = CrLf
    OBVIOUS
  <2>7. Adds(Gather(a, <<>>).elements, es, t)
    BY <1>a, <2>5, <2>6, NoElement DEF Adds
  <2> QED BY <2>1, <2>3, <2>7
<1>10. CASE m \in 1 .. Len(h) + 1
  <2>1. m <= Len(x)
    BY <1>1, <1>2, <1>10
  <2>2. r = SubSeq(x, 1, m)
    BY <1>7, <2>1
  <2>3. /\ r \in Seq(S) /\ r # <<>> /\ r[1] = "$" /\ NoBreak(r)
        /\ IsInt(Tail(r)) => Len(r) >= 2 /\ IntOf(Tail(r)) \in Nat
    <3>1. n \in Nat /\ m \in Nat \ {0} /\ m <= Len(h) + 1
      BY ONLY <1>1, <1>10
    <3>2. m <= Len(Header("$", n)) + 1 /\ r = SubSeq(Header("$", n) \o CrLf, 1, m)
      BY <2>2, <3>1 DEF h, x, n
    <3>3. "$" \in {"$", "*"}
      OBVIOUS
    <3>4. IsHeaderCut(r, "$", S)
      BY ONLY <3>1, <3>2, <3>3, Symbols \subseteq S, HeaderCut
    <3> QED BY <3>4 DEF IsHeaderCut
  <2>4. Lines(r) = <<r>>
    BY <2>3, OneLine
  <2>5. Len(Lines(r)) = 1 /\ Lines(r)[1] = r
    BY <2>4
  <2>6. <<>> \o r = r
    BY <2>3, ConcatEmptySeq
  <2>7. CASE IsInt(Tail(r))
    <3> DEFINE N == IntOf(Tail(r))
    <3>1. N \in Nat /\ Len(r) >= 2 /\ Len(r) \in Nat
      BY <2>3, <2>7
    <3>2. ~ (Len(r) < 2 \/ r[1] \notin {"$", "*"} \/ ~ IsInt(Tail(r))) /\ ~ (N < 0)
      <4> HIDE DEF N
      <4> QED BY <2>3, <2>7, <3>1
    <3>3. CountQoda(r) = 1
      BY <2>3, <3>2 DEF CountQoda
    <3>4. Gather(a, r).elements = es
      <4>1. CountQoda(r) \in Nat \ {0}
        BY <3>3
      <4>2. Gather(a, r) = [a EXCEPT !.qoda = CountQoda(r), !.tmp = a.tmp \o r \o CrLf]
        BY ONLY <1>a, <4>1, GatherGoesOn
      <4> QED BY <4>2
    <3> QED BY <2>3, <2>5, <3>4 DEF Adds
  <2>8. CASE ~ IsInt(Tail(r))
    <3>1. CountQoda(r) = 0 /\ ReadsAs(r \o CrLf, t)
      BY <2>3, <2>8, NoNumber
    <3>2. Gather(a, r).elements = Append(a.elements, a.tmp \o r \o CrLf)
      BY ONLY <1>a, <3>1, GatherEnds
    <3>3. Adds(Gather(a, r).elements, es, t)
      BY <1>a, <2>6, <3>1, <3>2 DEF Adds
    <3> QED BY <2>3, <2>5, <3>3
  <2> QED BY <2>7, <2>8
<1>11. CASE m >= Len(x)
  <2> DEFINE k == m - Len(x)
             v == SubSeq(y, 1, k)
  <2>1. r = x \o v
    BY <1>7, <1>11
  <2>2. k \in 0 .. n + 1
    BY ONLY <1>1, <1>2, <1>6, <1>11, m \in Nat
  <2> HIDE DEF k
  <2>3. /\ v \in Seq(S) /\ NoBreak(v)
        /\ ReadsAs((x \o v) \o CrLf, t)
    <3>1. t \in Seq(S) /\ k \in 0 .. Len(t) + 1 /\ v = SubSeq(t \o CrLf, 1, k)
      BY <2>2 DEF n, y
    <3> HIDE DEF v
    <3>2. /\ v \in Seq(S) /\ NoBreak(v)
          /\ ReadsAs(((Header("$", Len(t)) \o CrLf) \o v) \o CrLf, t)
      BY ONLY <3>1, Symbols \subseteq S, NoBreak(t), ShortBulk
    <3> QED BY <3>2 DEF x, h
  <2> HIDE DEF v
  <2>4. Lines(r) = <<h>> \o Lines(v) /\ Lines(v) = <<v>>
    <3>1. Lines(h \o CrLf \o v) = <<h>> \o Lines(v)
      BY <1>1, <2>3, LineByLine
    <3>2. Lines(v) = <<v>>
      BY <2>3, OneLine
    <3> QED BY <2>1, <3>1, <3>2 DEF x
  <2>5. Lines(r) = <<h, v>>
    <3>1. <<h>> \o <<v>> = <<h, v>>
      BY <1>1, <2>3, Pair
    <3> QED BY <2>4, <3>1
  <2>6. Len(Lines(r)) = 2 /\ Lines(r)[1] = h /\ Lines(r)[2] = v
    BY <2>5
  <2>7. Gather(a, h) = [left |-> left, qoda |-> 1, tmp |-> x, elements |-> es]
    <3>0. CountQoda(h) \in Nat \ {0}
      BY <1>1
    <3>1. Gather(a, h) = [a EXCEPT !.qoda = CountQoda(h), !.tmp = a.tmp \o h \o CrLf]
      BY ONLY <3>0, <1>a, GatherGoesOn
    <3>2. a.tmp \o h = h
      BY <1>1, <1>a, ConcatEmptySeq
    <3>3. Gather(a, h) = [a EXCEPT !.qoda = 1, !.tmp = x]
      BY <1>1, <3>1, <3>2 DEF x
    <3> QED BY <3>3
  <2> DEFINE b == Gather(a, h)
  <2>b. b.left # 0 /\ b.qoda = 1 /\ b.tmp = x /\ b.elements = es
    BY <1>8, <2>7
  <2> HIDE DEF b
  <2>8. CASE CountQoda(v) = 0
    <3>1. Gather(b, v).elements = Append(b.elements, b.tmp \o v \o CrLf)
      BY ONLY <2>b, <2>8, GatherEnds
    <3>2. Adds(Gather(b, v).elements, es, t)
      BY <2>3, <2>b, <3>1 DEF Adds
    <3>4. x \in Seq(S) /\ v \in Seq(S)
      BY <1>2, <2>3
    <3>5. x \o v \in Seq(S)
      BY ONLY <3>4, Joining
    <3> QED BY <2>1, <2>6, <3>2, <3>5 DEF b
  <2>9. CASE CountQoda(v) # 0
    <3>1. CountQoda(v) \in Nat \ {0}
      BY <2>3, <2>9, CountIsNat
    <3>2. Gather(b, v) = [b EXCEPT !.qoda = CountQoda(v), !.tmp = b.tmp \o v \o CrLf]
      BY ONLY <2>b, <3>1, GatherGoesOn
    <3>3. Adds(Gather(b, v).elements, es, t)
      <4> DEFINE q == CountQoda(v)
                 z == b.tmp \o v \o CrLf
      <4>1. Gather(b, v) = [b EXCEPT !.qoda = q, !.tmp = z]
        BY <3>2
      <4> HIDE DEF q, z
      <4>2. b = [left |-> left, qoda |-> 1, tmp |-> x, elements |-> es]
        BY <2>7 DEF b
      <4>3. Gather(b, v).elements = es
        BY <4>1, <4>2
      <4> QED BY <4>3 DEF Adds
    <3>4. x \in Seq(S) /\ v \in Seq(S)
      BY <1>2, <2>3
    <3>5. x \o v \in Seq(S)
      BY ONLY <3>4, Joining
    <3> QED BY <2>1, <2>6, <3>3, <3>5 DEF b
  <2> QED BY <2>8, <2>9
<1>12. m = 0 \/ m \in 1 .. Len(h) + 1 \/ m >= Len(x)
  BY ONLY <1>1, <1>2, m \in Nat
<1> QED BY <1>9, <1>10, <1>11, <1>12

LEMMA WordRead ==
  ASSUME NEW S, Symbols \subseteq S, NEW t \in Seq(S), NoBreak(t), NEW deeper
  PROVE  ParseBy(BulkText(t), deeper) = Bulk(t)
<1> DEFINE w == BulkText(t)
<1>1. w \in Seq(S) /\ Len(w) >= 4 /\ w[1] = "$" /\ Len(w) \in Nat
  BY BulkTextFacts
<1>2. ParseBulkString(w) = Bulk(t)
  BY BulkRead
<1> HIDE DEF w
<1>3. w # <<>>
  BY <1>1
<1>4. ParseBy(w, deeper) = ParseBulkString(w)
  BY <1>1, <1>3, BulkByItself
<1> QED BY <1>2, <1>4 DEF w

(* A list of values one of which failed.                                   *)
LEMMA SomeFailed ==
  ASSUME NEW vs, NEW n \in Nat, DOMAIN vs = 1 .. n, Len(vs) = n, NEW j \in 1 .. n, Failed(vs[j])
  PROVE  AllOrFirstFailure(vs) \in {Bad, Panic}
<1> DEFINE I == {i \in 1 .. n : Failed(vs[i])}
<1>1. j \in I
  OBVIOUS
<1>2. \E i \in I : \A k \in I : i <= k
  BY <1>1, LeastNumber, I \subseteq Nat
<1>3. SelectInSeq(vs, Failed) = Min(I)
  BY <1>1 DEF SelectInSeq
<1>4. Min(I) \in I
  BY <1>2 DEF Min
<1>5. AllOrFirstFailure(vs) = vs[Min(I)]
  <2>1. \E i \in DOMAIN vs : Failed(vs[i])
    OBVIOUS
  <2> HIDE DEF I
  <2> QED BY <1>3, <2>1 DEF AllOrFirstFailure
<1>6. Failed(vs[Min(I)])
  BY <1>4
<1> QED BY <1>5, <1>6 DEF Failed

(* What is gathered of the lines of words the last of which is cut.        *)
LEMMA ElementsOfPiece ==
  ASSUME NEW S, Symbols \subseteq S, NEW ws \in Seq(Seq(S)),
         \A i \in 1 .. Len(ws) : Plain(ws[i]),
         NEW t \in Seq(S), NoBreak(t),
         NEW m \in Nat, m < Len(BulkText(t)), NEW r, r = SubSeq(BulkText(t), 1, m),
         NEW l \in Seq(Seq(S)), WordLines(l, ws, Len(ws), r),
         NEW count \in Nat, Len(ws) < count
  PROVE  Adds(Elements(l, count), Bulks(ws), t)
<1> DEFINE k == Len(ws)
           es == Bulks(ws)
           a == [left |-> count - k, qoda |-> 1, tmp |-> <<>>, elements |-> es]
           L == Lines(r)
<1>1. k \in Nat /\ Len(l) \in Nat /\ k <= count /\ count - k \in Nat \ {0}
  OBVIOUS
<1>2. PICK f : AreGathered(f, l, count, Len(l)) /\ Elements(l, count) = f[Len(l)].elements
  BY <1>1, ElementsAreGathered
<1>3. /\ r \in Seq(S)
      /\ \/ Len(L) = 1 /\ Adds(Gather(a, L[1]).elements, es, t)
         \/ Len(L) = 2 /\ Adds(Gather(Gather(a, L[1]), L[2]).elements, es, t)
  <2> HIDE DEF k, es
  <2>1. count - k \in Nat \ {0}
    BY <1>1
  <2> DEFINE left == count - k
  <2>2. a = [left |-> left, qoda |-> 1, tmp |-> <<>>, elements |-> es]
    OBVIOUS
  <2> HIDE DEF left, a
  <2>3. left \in Nat \ {0}
    BY <2>1 DEF left
  <2> QED BY <2>2, <2>3, PieceGathered
<1>4. f[2 * k] = a
  BY <1>1, <1>2, <1>3, WordsGathered, ZenonT(60)
<1>5. /\ Len(l) = 2 * k + Len(L)
      /\ \A j \in 1 .. Len(L) : l[2 * k + j] = L[j]
  BY Zenon DEF WordLines
<1>6. \A i \in 1 .. Len(l) : f[i] = Gather(f[i - 1], l[i])
  BY <1>2 DEF AreGathered
<1> HIDE DEF k, es, a, L
<1>7. CASE Len(L) = 1 /\ Adds(Gather(a, L[1]).elements, es, t)
  <2> DEFINE i == 2 * k + 1
  <2>1. i \in 1 .. Len(l) /\ i - 1 = 2 * k /\ Len(l) = i /\ l[i] = L[1]
    BY <1>1, <1>5, <1>7
  <2> HIDE DEF i
  <2>2. f[i] = Gather(f[i - 1], l[i])
    BY <1>6, <2>1, Zenon
  <2>3. f[i] = Gather(a, L[1])
    BY <1>4, <2>1, <2>2
  <2> QED BY <1>2, <1>7, <2>1, <2>3 DEF es
<1>8. CASE Len(L) = 2 /\ Adds(Gather(Gather(a, L[1]), L[2]).elements, es, t)
  <2> DEFINE i == 2 * k + 1
             j == 2 * k + 2
  <2>1. /\ i \in 1 .. Len(l) /\ i - 1 = 2 * k /\ l[i] = L[1]
        /\ j \in 1 .. Len(l) /\ j - 1 = i /\ Len(l) = j /\ l[j] = L[2]
    <3>1. k \in Nat /\ Len(L) = 2 /\ Len(l) = 2 * k + 2
      BY <1>1, <1>5, <1>8
    <3>2. 1 \in 1 .. Len(L) /\ 2 \in 1 .. Len(L)
      BY ONLY <3>1
    <3>3. l[i] = L[1] /\ l[j] = L[2]
      BY <1>5, <3>2
    <3>4. i \in 1 .. Len(l) /\ i - 1 = 2 * k /\ j \in 1 .. Len(l) /\ j - 1 = i /\ Len(l) = j
      BY ONLY <3>1
    <3> QED BY <3>3, <3>4
  <2> HIDE DEF i, j
  <2>2. f[i] = Gather(f[i - 1], l[i])
    BY <1>6, <2>1, Zenon
  <2>3. f[j] = Gather(f[j - 1], l[j])
    BY <1>6, <2>1, Zenon
  <2>4. f[i] = Gather(a, L[1])
    BY <1>4, <2>1, <2>2
  <2>5. f[j] = Gather(Gather(a, L[1]), L[2])
    BY <2>1, <2>3, <2>4
  <2> QED BY <1>2, <1>8, <2>1, <2>5 DEF es
<1> QED BY <1>3, <1>7, <1>8

(* src/parser.rs:50-73 and 125-210, against src/utils.rs:11-31: a request  *)
(* of plain words is read as the words it was made of, whatever stands     *)
(* behind it.                                                              *)
LEMMA RequestRead ==
  ASSUME NEW S, Symbols \subseteq S, NEW ts \in Seq(Seq(S)),
         \A i \in 1 .. Len(ts) : Plain(ts[i]), NEW rest \in Seq(S)
  PROVE  Parse(ArrayText(ts) \o rest) = Array([i \in 1 .. Len(ts) |-> Bulk(ts[i])])
<1> DEFINE n == Len(ts)
           c == FlattenSeq(Bulks(ts)) \o rest
           e == Elements(Lines(c), n)
<1>1. n \in Nat
  OBVIOUS
<1>2. ArrayText(ts) \o rest = (Header("*", n) \o CrLf) \o c /\ c \in Seq(S)
  BY RequestText
<1>3. WordLines(Lines(c), ts, n, rest)
  <2>1. \A i \in 1 .. Len(ts) : NoBreak(ts[i])
    BY DEF Plain
  <2> QED BY <2>1, AllWords
<1> HIDE DEF c
<1>4. e = Bulks(ts)
  <2>1. Lines(c) \in Seq(Seq(S))
    BY <1>2, LinesAreLines
  <2> QED BY <1>3, <2>1, ElementsAreBulks
<1>5. PICK deeper : Parse(ArrayText(ts) \o rest)
                      = AllOrFirstFailure([i \in DOMAIN e |-> ParseBy(e[i], deeper)])
  BY <1>1, <1>2, ArrayRead
<1> HIDE DEF e
<1>6. [i \in DOMAIN e |-> ParseBy(e[i], deeper)] = [i \in 1 .. n |-> Bulk(ts[i])]
  <2>1. DOMAIN e = 1 .. n /\ \A i \in 1 .. n : e[i] = BulkText(ts[i])
    BY <1>4 DEF Bulks
  <2>2. ASSUME NEW i \in 1 .. n PROVE ParseBy(BulkText(ts[i]), deeper) = Bulk(ts[i])
    <3>1. ts[i] \in Seq(S) /\ NoBreak(ts[i])
      BY ElementOfSeq DEF Plain
    <3> QED BY <3>1, WordRead
  <2> HIDE DEF n
  <2> QED BY <2>1, <2>2, Zenon
<1> HIDE DEF n
<1>7. AllOrFirstFailure([i \in 1 .. n |-> Bulk(ts[i])]) = Array([i \in 1 .. n |-> Bulk(ts[i])])
  BY <1>1, NoneFailed
<1>8. Parse(ArrayText(ts) \o rest) = Array([i \in 1 .. n |-> Bulk(ts[i])])
  BY <1>5, <1>6, <1>7, Zenon
<1> QED BY <1>8 DEF n

(* The value of a request that is cut: none, or its first words.           *)
FirstWords(v, ts) == v \in {Bad, Panic} \/ \E k \in 0 .. Len(ts) : v = Array([i \in 1 .. k |-> Bulk(ts[i])])

LEMMA PieceRead ==
  ASSUME NEW S, Symbols \subseteq S, NEW ts \in Seq(Seq(S)), \A i \in 1 .. Len(ts) : NoBreak(ts[i]),
         NEW k \in 0 .. Len(ts) - 1, NEW es \in Seq(Seq(S)), Len(es) = k,
         \A i \in 1 .. k : es[i] = BulkText(ts[i]),
         NEW e, Adds(e, es, ts[k + 1]), NEW deeper
  PROVE  FirstWords(AllOrFirstFailure([i \in DOMAIN e |-> ParseBy(e[i], deeper)]), ts)
<1> DEFINE vs == [i \in DOMAIN e |-> ParseBy(e[i], deeper)]
           t == ts[k + 1]
<1>1. Len(ts) \in Nat /\ k \in Nat /\ k + 1 \in 1 .. Len(ts) /\ k \in 0 .. Len(ts) /\ k + 1 \in 0 .. Len(ts)
  OBVIOUS
<1>2. \A i \in 1 .. k : ParseBy(es[i], deeper) = Bulk(ts[i])
  <2> SUFFICES ASSUME NEW i \in 1 .. k PROVE ParseBy(es[i], deeper) = Bulk(ts[i])
    OBVIOUS
  <2>1. i \in 1 .. Len(ts)
    BY <1>1
  <2>2. ts[i] \in Seq(S) /\ NoBreak(ts[i])
    BY <2>1, ElementOfSeq
  <2>3. ParseBy(BulkText(ts[i]), deeper) = Bulk(ts[i])
    BY <2>2, WordRead
  <2> QED BY <2>3
<1>3. DOMAIN es = 1 .. k
  OBVIOUS
<1>4. CASE e = es
  <2>1. vs = [i \in 1 .. k |-> Bulk(ts[i])]
    BY <1>2, <1>3, <1>4, Zenon
  <2>2. AllOrFirstFailure(vs) = Array([i \in 1 .. k |-> Bulk(ts[i])])
    BY <1>1, <2>1, NoneFailed
  <2> HIDE DEF vs
  <2>3. FirstWords(AllOrFirstFailure(vs), ts)
    BY <1>1, <2>2, Zenon DEF FirstWords
  <2> QED BY <2>3 DEF vs
<1>5. ASSUME NEW x, e = Append(es, x), ReadsAs(x, t)
      PROVE  FirstWords(AllOrFirstFailure(vs), ts)
  <2> DEFINE T == Seq(S) \cup {x}
  <2>1. es \in Seq(T) /\ x \in T
    OBVIOUS
  <2> HIDE DEF T
  <2>2. DOMAIN e = 1 .. k + 1 /\ (\A i \in 1 .. k : e[i] = es[i]) /\ e[k + 1] = x
    BY <1>1, <1>5, <2>1
  <2>3. ParseBy(x, deeper) \in {Bad, Panic, Bulk(t)}
    BY <1>5 DEF ReadsAs
  <2>4. vs = [i \in 1 .. k + 1 |-> ParseBy(e[i], deeper)]
    BY <2>2
  <2> HIDE DEF vs, t
  <2>5. CASE ParseBy(x, deeper) \in {Bad, Panic}
    <3>1. k + 1 \in Nat /\ k + 1 \in 1 .. k + 1
      BY <1>1
    <3>2. DOMAIN vs = 1 .. k + 1 /\ Len(vs) = k + 1
      BY <2>4, <3>1
    <3>3. Failed(vs[k + 1])
      BY <2>2, <2>4, <2>5, <3>1 DEF Failed
    <3>4. AllOrFirstFailure(vs) \in {Bad, Panic}
      BY ONLY <3>1, <3>2, <3>3, SomeFailed
    <3> QED BY <3>4 DEF FirstWords
  <2>6. CASE ParseBy(x, deeper) = Bulk(t)
    <3>1. \A i \in 1 .. k + 1 : ParseBy(e[i], deeper) = Bulk(ts[i])
      <4>1. \A i \in 1 .. k + 1 : i \in 1 .. k \/ i = k + 1
        BY <1>1
      <4> QED BY <1>2, <2>2, <2>6, <4>1, Zenon DEF t
    <3>2. vs = [i \in 1 .. k + 1 |-> Bulk(ts[i])]
      BY <2>4, <3>1, Zenon
    <3>3. AllOrFirstFailure(vs) = Array([i \in 1 .. k + 1 |-> Bulk(ts[i])])
      BY <1>1, <3>2, NoneFailed
    <3> QED BY <1>1, <3>3, Zenon DEF FirstWords
  <2> QED BY <2>3, <2>5, <2>6
<1> HIDE DEF vs, t
<1>6. FirstWords(AllOrFirstFailure(vs), ts)
  BY <1>4, <1>5, Zenon DEF Adds, t, vs
<1> QED BY <1>6 DEF vs

LEMMA ParseIsOne ==
  ASSUME NEW S, NEW s \in Seq(S), s # <<>>
  PROVE  \E parse : Parse(s) = ParseBy(s, parse)
<1> DEFINE T == Seq(Range(s) \cup Range(CrLf))
<1>1. Len(s) \in Nat /\ Len(s) \in 1 .. Len(s)
  OBVIOUS
<1>2. s \in T
  BY OwnCharacters
<1>3. PICK f : AreNested(f, T, Len(s)) /\ Parse(s) = f[Len(s)][s]
  BY <1>1, ParseIsNested
<1> HIDE DEF T
<1>4. f[Len(s)] = [t \in T |-> ParseBy(t, f[Len(s) - 1])]
  BY <1>1, <1>3 DEF AreNested
<1>5. Parse(s) = ParseBy(s, f[Len(s) - 1])
  BY <1>2, <1>3, <1>4
<1> QED BY <1>5

(* An array whose header is cut has no elements.                           *)
LEMMA HeadRead ==
  ASSUME NEW S, Symbols \subseteq S, NEW w, IsHeaderCut(w, "*", S), NEW ts, Len(ts) \in Nat
  PROVE  FirstWords(Parse(w), ts)
<1>1. /\ w \in Seq(S) /\ w # <<>> /\ w[1] = "*" /\ NoBreak(w)
      /\ IsInt(Tail(w)) => IntOf(Tail(w)) \in Nat
  BY DEF IsHeaderCut
<1>2. PICK parse : Parse(w) = ParseBy(w, parse)
  BY <1>1, ParseIsOne
<1>3. ParseBy(w, parse) = ParseArray(w, parse)
  <2>1. "*" # "+" /\ "*" # ":" /\ "*" # "$"
    OBVIOUS
  <2> QED BY <1>1, <2>1 DEF ParseBy
<1>4. Lines(w) = <<w>>
  BY <1>1, OneLine
<1>5. Lines(w)[1] = w /\ Tail(Lines(w)) = <<>>
  BY <1>4
<1>6. CASE ~ IsInt(Tail(w))
  <2>1. ParseArray(w, parse) = Bad
    BY <1>5, <1>6, Zenon DEF ParseArray
  <2> QED BY <1>2, <1>3, <2>1 DEF FirstWords
<1>7. CASE IsInt(Tail(w))
  <2> DEFINE N == IntOf(Tail(w))
             E == Elements(<<>>, N)
             V == AllOrFirstFailure([i \in DOMAIN E |-> parse[E[i]]])
  <2>1. ParseArray(w, parse) = CASE N = -1 -> Null [] N < -1 -> Bad [] N >= 0 -> V
    BY <1>5, <1>7, Zenon DEF ParseArray
  <2>2. N \in Nat
    BY <1>1, <1>7
  <2>3. E = <<>>
    <3>1. Len(<<>>) = 0
      OBVIOUS
    <3>2. PICK f : AreGathered(f, <<>>, N, Len(<<>>)) /\ E = f[Len(<<>>)].elements
      BY <3>1, ElementsAreGathered
    <3>3. f[0] = NothingGathered(N) /\ E = f[0].elements
      BY <3>1, <3>2 DEF AreGathered
    <3> HIDE DEF N, E
    <3> QED BY <3>3 DEF NothingGathered
  <2>4. V = Array([i \in 1 .. 0 |-> Bulk(ts[i])])
    <3>1. AllOrFirstFailure([i \in 1 .. 0 |-> Bulk(ts[i])]) = Array([i \in 1 .. 0 |-> Bulk(ts[i])])
      BY NoneFailed
    <3>2. [i \in DOMAIN E |-> parse[E[i]]] = [i \in 1 .. 0 |-> Bulk(ts[i])]
      <4>1. DOMAIN <<>> = 1 .. 0 /\ \A i \in 1 .. 0 : FALSE
        OBVIOUS
      <4> HIDE DEF E
      <4>2. DOMAIN E = 1 .. 0
        BY <2>3, <4>1
      <4> QED BY <4>1, <4>2, Zenon
    <3> HIDE DEF E
    <3> QED BY <3>1, <3>2
  <2> HIDE DEF N, V
  <2>5. ParseArray(w, parse) = V
    BY <2>1, <2>2
  <2>6. Parse(w) = Array([i \in 1 .. 0 |-> Bulk(ts[i])]) /\ 0 \in 0 .. Len(ts)
    BY <1>2, <1>3, <2>4, <2>5
  <2> QED BY <2>6, Zenon DEF FirstWords
<1> QED BY <1>6, <1>7

(* src/parser.rs, as src/main.rs:322 uses it: of a request of plain words  *)
(* that is cut anywhere, parse makes nothing, or its first words.          *)
LEMMA CutRead ==
  ASSUME NEW S, Symbols \subseteq S, NEW ts \in Seq(Seq(S)),
         \A i \in 1 .. Len(ts) : Plain(ts[i]),
         NEW p \in 1 .. Len(ArrayText(ts))
  PROVE  FirstWords(Parse(SubSeq(ArrayText(ts), 1, p)), ts)
<1> DEFINE n == Len(ts)
           h == Header("*", n)
           a == h \o CrLf
           b == FlattenSeq(Bulks(ts))
           s == SubSeq(ArrayText(ts), 1, p)
<1>1. n \in Nat
  OBVIOUS
<1>2. h \in Seq(S) /\ Len(h) \in Nat /\ Len(h) >= 2
  BY <1>1, HeaderFacts
<1>3. ArrayText(ts) = a \o b
  BY DEF ArrayText, Header, Bulks
<1>4. Bulks(ts) \in Seq(Seq(S)) /\ Len(Bulks(ts)) = n /\ \A i \in 1 .. n : Bulks(ts)[i] = BulkText(ts[i])
  <2>1. Bulks(ts) \in Seq(Seq(S)) /\ Len(Bulks(ts)) = n
    BY BulksAreTexts
  <2>2. \A i \in 1 .. n : Bulks(ts)[i] = BulkText(ts[i])
    BY DEF Bulks
  <2> QED BY <2>1, <2>2
<1>5. b \in Seq(S) /\ Len(b) \in Nat
  BY <1>4, Flattened
<1>6. \A i \in 1 .. n : NoBreak(ts[i])
  BY DEF Plain
<1>7. a \in Seq(S) /\ Len(a) = Len(h) + 2
  <2>1. h \in Seq(S) /\ CrLf \in Seq(S) /\ Len(CrLf) = 2
    BY <1>2, CrLfIsText
  <2> HIDE DEF h
  <2>2. h \in Seq(S) /\ CrLf \in Seq(S)
    BY <2>1
  <2>3. h \o CrLf \in Seq(S) /\ Len(h \o CrLf) = Len(h) + Len(CrLf)
    BY ONLY <2>2, Joining
  <2> QED BY <2>1, <2>3
<1> HIDE DEF n, h, a, b
<1>8. p \in Nat \ {0} /\ p \in 0 .. Len(a) + Len(b)
  <2>1. a \in Seq(S) /\ b \in Seq(S)
    BY <1>5, <1>7
  <2>2. Len(a \o b) = Len(a) + Len(b) /\ Len(a) \in Nat /\ Len(b) \in Nat
    BY ONLY <2>1, Joining
  <2> QED BY <1>3, <2>2
<1>9. /\ p <= Len(a) => SubSeq(a \o b, 1, p) = SubSeq(a, 1, p)
      /\ p >= Len(a) => /\ p - Len(a) \in 0 .. Len(b)
                        /\ SubSeq(a \o b, 1, p) = a \o SubSeq(b, 1, p - Len(a))
  <2>1. a \in Seq(S) /\ b \in Seq(S) /\ p \in 0 .. Len(a) + Len(b)
    BY <1>5, <1>7, <1>8
  <2> QED BY ONLY <2>1, CutJoined
<1>10. CASE p <= Len(h) + 1
  <2>1. s = SubSeq(a, 1, p)
    BY <1>3, <1>7, <1>9, <1>10, <1>2
  <2>2. IsHeaderCut(s, "*", S)
    <3>1. s = SubSeq(Header("*", n) \o CrLf, 1, p)
      BY <2>1 DEF a, h
    <3>2. p <= Len(Header("*", n)) + 1 /\ p \in Nat \ {0} /\ n \in Nat
      BY <1>1, <1>8, <1>10 DEF h
    <3> HIDE DEF s
    <3> QED BY <3>1, <3>2, HeaderCut
  <2>3. Len(ts) \in Nat
    BY <1>1 DEF n
  <2> HIDE DEF s
  <2>4. FirstWords(Parse(s), ts)
    BY <2>2, <2>3, HeadRead
  <2> QED BY <2>4 DEF s
<1>11. CASE p > Len(h) + 1
  <2> DEFINE q == p - Len(a)
             c == SubSeq(b, 1, q)
             e == Elements(Lines(c), n)
  <2>1. q \in 0 .. Len(b) /\ s = a \o c
    <3>1. p >= Len(a)
      BY <1>2, <1>7, <1>8, <1>11
    <3> QED BY <1>3, <1>9, <3>1, Zenon
  <2> HIDE DEF q
  <2>2. c \in Seq(S)
    BY <1>5, <2>1, BeginningOf
  <2>3. PICK deeper : Parse(s) = AllOrFirstFailure([i \in DOMAIN e |-> ParseBy(e[i], deeper)])
    <3> HIDE DEF c
    <3> QED BY <1>1, <2>1, <2>2, ArrayRead DEF a, h
  <2>4. CASE q = Len(b)
    <3>1. s = ArrayText(ts)
      <4>1. SubSeq(b, 1, q) = b
        BY <1>5, <2>4
      <4> QED BY <1>3, <2>1, <4>1
    <3>2. ArrayText(ts) \o <<>> = ArrayText(ts)
      <4>1. ArrayText(ts) \in Seq(S) /\ <<>> \in Seq(S)
        BY RequestText
      <4> QED BY ONLY <4>1, ConcatEmptySeq
    <3>3. Parse(ArrayText(ts) \o <<>>) = Array([i \in 1 .. Len(ts) |-> Bulk(ts[i])])
      <4>1. <<>> \in Seq(S)
        OBVIOUS
      <4> QED BY <4>1, RequestRead
    <3>4. Parse(s) = Array([i \in 1 .. Len(ts) |-> Bulk(ts[i])]) /\ Len(ts) \in 0 .. Len(ts)
      <4>1. Len(ts) \in 0 .. Len(ts)
        OBVIOUS
      <4> HIDE DEF s
      <4> QED BY <3>1, <3>2, <3>3, <4>1
    <3>5. FirstWords(Parse(s), ts)
      <4> HIDE DEF s
      <4> QED BY <3>4, Zenon DEF FirstWords
    <3> QED BY <3>5
  <2>5. CASE q # Len(b)
    <3> DEFINE B == Bulks(ts)
    <3>1. q \in 0 .. Len(FlattenSeq(B)) - 1 /\ B \in Seq(Seq(S))
      BY <1>4, <1>5, <2>1, <2>5 DEF b
    <3>2. PICK k \in 0 .. Len(B) - 1 :
            /\ Offset(B, k) \in Nat /\ Offset(B, k) <= q /\ q < Offset(B, k + 1)
            /\ q - Offset(B, k) < Len(B[k + 1])
            /\ SubSeq(FlattenSeq(B), 1, q)
                 = FlattenSeq([j \in 1 .. k |-> B[j]]) \o SubSeq(B[k + 1], 1, q - Offset(B, k))
      <4> HIDE DEF B
      <4> QED BY ONLY <3>1, CutInside
    <3> DEFINE ws == [j \in 1 .. k |-> ts[j]]
               t == ts[k + 1]
               m == q - Offset(B, k)
               r == SubSeq(BulkText(t), 1, m)
    <3>3. k \in Nat /\ k + 1 \in 1 .. n /\ k \in 0 .. n - 1
      BY <1>1, <1>4
    <3>4. /\ ws \in Seq(Seq(S)) /\ Len(ws) = k /\ (\A i \in 1 .. k : ws[i] = ts[i] /\ Plain(ws[i]))
          /\ t \in Seq(S) /\ NoBreak(t)
      <4>1. \A j \in 1 .. k : j \in 1 .. n
        BY <3>3, <1>1
      <4>2. \A j \in 1 .. n : ts[j] \in Seq(S) /\ Plain(ts[j]) /\ NoBreak(ts[j])
        BY <1>6, ElementOfSeq DEF n
      <4>3. ws \in [1 .. k -> Seq(S)]
        BY <4>1, <4>2
      <4>4. ws \in Seq(Seq(S)) /\ Len(ws) = k
        BY <3>3, <4>3, TupleIsSeq
      <4> QED BY <3>3, <4>1, <4>2, <4>4
    <3>5. [j \in 1 .. k |-> B[j]] = Bulks(ws)
      <4>1. DOMAIN ws = 1 .. k
        OBVIOUS
      <4>2. \A j \in 1 .. k : B[j] = BulkText(ws[j])
        <5>1. \A j \in 1 .. k : j \in 1 .. n
          BY <3>3, <1>1
        <5> QED BY <1>4, <3>4, <5>1
      <4> HIDE DEF ws, B
      <4> QED BY <4>1, <4>2, Zenon DEF Bulks
    <3>6. B[k + 1] = BulkText(t)
      BY <1>4, <3>3
    <3>7. c = FlattenSeq(Bulks(ws)) \o r /\ m \in Nat /\ m < Len(BulkText(t))
      <4>1. m \in Nat
        BY <2>1, <3>2
      <4> QED BY <3>2, <3>5, <3>6, <4>1 DEF b
    <3> HIDE DEF ws, t, m, B, c
    <3>8. r \in Seq(S)
      <4>1. BulkText(t) \in Seq(S) /\ Len(BulkText(t)) \in Nat
        BY <3>4, BulkTextFacts
      <4>2. m \in 0 .. Len(BulkText(t))
        BY <3>7, <4>1
      <4> QED BY <4>1, <4>2, BeginningOf
    <3>9. Lines(c) \in Seq(Seq(S)) /\ WordLines(Lines(c), ws, Len(ws), r)
      <4> HIDE DEF r
      <4>1. Lines(c) \in Seq(Seq(S))
        BY <2>2, LinesAreLines
      <4>2. \A i \in 1 .. Len(ws) : NoBreak(ws[i])
        BY <3>4 DEF Plain
      <4>3. WordLines(Lines(FlattenSeq(Bulks(ws)) \o r), ws, Len(ws), r)
        BY <3>4, <3>8, <4>2, AllWords
      <4> QED BY <3>7, <4>1, <4>3
    <3>10. Adds(e, Bulks(ws), t)
      <4> DEFINE l == Lines(c)
      <4>1. l \in Seq(Seq(S)) /\ WordLines(l, ws, Len(ws), r)
        BY <3>9
      <4>2. Len(ws) < n
        BY <3>3, <3>4, <1>1
      <4>3. \A i \in 1 .. Len(ws) : Plain(ws[i])
        BY <3>4
      <4> HIDE DEF l, r
      <4>4. r = SubSeq(BulkText(t), 1, m)
        BY DEF r
      <4>5. Adds(Elements(l, n), Bulks(ws), t)
        BY <1>1, <3>4, <3>7, <4>1, <4>2, <4>3, <4>4, ElementsOfPiece
      <4> QED BY <4>5 DEF l
    <3>11. /\ Bulks(ws) \in Seq(Seq(S)) /\ Len(Bulks(ws)) = k
           /\ \A i \in 1 .. k : Bulks(ws)[i] = BulkText(ts[i])
      <4>1. Bulks(ws) \in Seq(Seq(S)) /\ Len(Bulks(ws)) = k
        BY <3>4, BulksAreTexts
      <4>2. DOMAIN ws = 1 .. k
        BY <3>4
      <4> QED BY <3>4, <4>1, <4>2 DEF Bulks
    <3> DEFINE es == Bulks(ws)
    <3> HIDE DEF e, es
    <3>12. /\ es \in Seq(Seq(S)) /\ Len(es) = k /\ (\A i \in 1 .. k : es[i] = BulkText(ts[i]))
           /\ Adds(e, es, ts[k + 1]) /\ k \in 0 .. Len(ts) - 1 /\ \A i \in 1 .. Len(ts) : NoBreak(ts[i])
      BY <1>6, <3>3, <3>10, <3>11 DEF es, t, n
    <3>13. FirstWords(AllOrFirstFailure([i \in DOMAIN e |-> ParseBy(e[i], deeper)]), ts)
      BY <3>12, PieceRead
    <3>14. FirstWords(Parse(s), ts)
      <4> HIDE DEF s
      <4> QED BY <2>3, <3>13, Zenon
    <3> QED BY <3>14
  <2> QED BY <2>4, <2>5
<1> QED BY <1>2, <1>8, <1>10, <1>11

(* The first line of a text is its beginning.                              *)
FirstOf(acc, s, k, n) ==
  \/ acc.ended = <<>> /\ acc.line = SubSeq(s, 1, k) /\ k = n
  \/ acc.ended # <<>> /\ acc.ended[1] = SubSeq(s, 1, k) /\ k < n /\ s[k + 1] = "cr"

LEMMA FirstLine ==
  ASSUME NEW S, NEW s \in Seq(S)
  PROVE  \E k \in 0 .. Len(s) :
           Lines(s)[1] = SubSeq(s, 1, k) /\ (k = Len(s) \/ s[k + 1] = "cr")
<1> DEFINE N == Len(s)
<1>1. N \in Nat
  OBVIOUS
<1>2. PICK f : IsSplit(f, s, S) /\ Lines(s) = Append(f[N].ended, f[N].line)
  BY LinesAreSplit
<1>3. /\ \A n \in 0 .. N : f[n] \in SplitState(S)
      /\ f[0] = NoLine
      /\ \A i \in 1 .. N : f[i] = TakeChar(f[i - 1], s[i])
  BY <1>2 DEF IsSplit
<1> DEFINE P(n) == \E k \in 0 .. n : FirstOf(f[n], s, k, n)
           Good == {n \in 0 .. N : P(n)}
<1>4. P(0)
  <2>1. SubSeq(s, 1, 0) = <<>>
    OBVIOUS
  <2>2. FirstOf(f[0], s, 0, 0)
    BY <1>3, <2>1 DEF FirstOf, NoLine
  <2>3. 0 \in 0 .. 0
    OBVIOUS
  <2> QED BY <2>2, <2>3, Zenon
<1>5. ASSUME NEW n \in 0 .. N - 1, P(n) PROVE P(n + 1)
  <2> DEFINE acc == f[n]
             ch == s[n + 1]
             new == f[n + 1]
  <2>1. n \in Nat /\ n \in 0 .. N /\ n + 1 \in 1 .. N
    BY <1>1
  <2>2. new = TakeChar(acc, ch)
    <3>1. PICK m \in 1 .. N : m = n + 1 /\ m - 1 = n
      BY <2>1
    <3>2. f[m] = TakeChar(f[m - 1], s[m])
      BY <1>3, Zenon
    <3> QED BY <3>1, <3>2, Zenon
  <2>3. acc \in SplitState(S)
    BY <1>3, <2>1
  <2>4. acc.ended \in Seq(Seq(S)) /\ acc.line \in Seq(S) /\ ch \in S
    <3>1. ch \in S
      BY <2>1, ElementOfSeq
    <3> HIDE DEF acc
    <3> QED BY <2>3, <3>1 DEF SplitState
  <2>5. PICK k \in 0 .. n : FirstOf(acc, s, k, n)
    BY <1>5
  <2> HIDE DEF acc, ch, new
  <2>6. \/ /\ ch = "lf" /\ acc.line # <<>> /\ Last(acc.line) = "cr"
           /\ new.ended = Append(acc.ended, Front(acc.line)) /\ new.line = <<>>
        \/ new.ended = acc.ended /\ new.line = Append(acc.line, ch)
    BY <2>2 DEF TakeChar
  <2>7. CASE acc.ended = <<>>
    <3>1. acc.line = SubSeq(s, 1, n) /\ k = n
      BY <2>5, <2>7 DEF FirstOf
    <3>2. Len(SubSeq(s, 1, n)) = n /\ \A i \in 1 .. n : SubSeq(s, 1, n)[i] = s[i]
      BY <2>1, BeginningOf
    <3>3. CASE /\ ch = "lf" /\ acc.line # <<>> /\ Last(acc.line) = "cr"
               /\ new.ended = Append(acc.ended, Front(acc.line)) /\ new.line = <<>>
      <4>1. Len(acc.line) = n /\ n >= 1
        BY <2>1, <2>4, <3>1, <3>2, <3>3
      <4>2. n \in 1 .. n /\ n - 1 \in 0 .. n + 1 /\ n - 1 < n + 1 /\ (n - 1) + 1 = n
            /\ n - 1 \in 0 .. Len(s) /\ n \in 0 .. Len(s)
        BY <2>1, <4>1
      <4>3. s[n] = "cr"
        BY <3>1, <3>2, <3>3, <4>1, <4>2 DEF Last
      <4>4. Front(acc.line) = SubSeq(s, 1, n - 1)
        <5> DEFINE l == acc.line
                   F == SubSeq(l, 1, n - 1)
                   G == SubSeq(s, 1, n - 1)
        <5>1. l \in Seq(S) /\ n - 1 \in 0 .. Len(l)
          BY <2>4, <4>1
        <5>2. Front(acc.line) = F
          BY <4>1 DEF Front
        <5> HIDE DEF l
        <5>3. F \in Seq(S) /\ Len(F) = n - 1 /\ \A i \in 1 .. n - 1 : F[i] = l[i]
          BY <5>1, BeginningOf
        <5>4. G \in Seq(S) /\ Len(G) = n - 1 /\ \A i \in 1 .. n - 1 : G[i] = s[i]
          BY <4>2, BeginningOf
        <5>5. \A i \in 1 .. n - 1 : l[i] = s[i]
          <6>1. \A i \in 1 .. n - 1 : i \in 1 .. n
            BY <4>1, <2>1
          <6> QED BY <3>1, <3>2, <6>1 DEF l
        <5> HIDE DEF F, G
        <5>6. F = G
          BY <5>3, <5>4, <5>5, Extensional
        <5> QED BY <5>2, <5>6 DEF G
      <4>5. new.ended # <<>> /\ new.ended[1] = SubSeq(s, 1, n - 1)
        <5> DEFINE x == Front(acc.line)
        <5>1. new.ended = Append(<<>>, x)
          BY <2>7, <3>3
        <5> HIDE DEF x
        <5>2. new.ended # <<>> /\ new.ended[1] = x
          BY <5>1
        <5> QED BY <4>4, <5>2 DEF x
      <4>6. FirstOf(new, s, n - 1, n + 1)
        BY <4>2, <4>3, <4>5 DEF FirstOf
      <4> QED BY <4>2, <4>6, Zenon DEF new
    <3>4. CASE new.ended = acc.ended /\ new.line = Append(acc.line, ch)
      <4>1. Append(SubSeq(s, 1, n), ch) = SubSeq(s, 1, n + 1)
        <5>1. PICK m \in 1 .. N : m = n + 1 /\ m - 1 = n
          BY <2>1
        <5>2. Append(SubSeq(s, 1, m - 1), s[m]) = SubSeq(s, 1, m)
          BY NextOf
        <5> QED BY <5>1, <5>2 DEF ch
      <4>2. FirstOf(new, s, n + 1, n + 1)
        BY <2>7, <3>1, <3>4, <4>1 DEF FirstOf
      <4>3. n + 1 \in 0 .. n + 1
        BY <2>1
      <4> QED BY <4>2, <4>3, Zenon DEF new
    <3> QED BY <2>6, <3>3, <3>4
  <2>8. CASE acc.ended # <<>>
    <3>1. acc.ended[1] = SubSeq(s, 1, k) /\ k < n /\ s[k + 1] = "cr"
      BY <2>5, <2>8 DEF FirstOf
    <3>2. new.ended # <<>> /\ new.ended[1] = acc.ended[1]
      <4>1. Len(acc.ended) >= 1 /\ Len(acc.ended) \in Nat
        BY <2>4, <2>8
      <4>2. \A x \in Seq(S) : Append(acc.ended, x) # <<>> /\ Append(acc.ended, x)[1] = acc.ended[1]
        <5> DEFINE q == acc.ended
        <5>1. q \in Seq(Seq(S)) /\ 1 \in 1 .. Len(q)
          BY <2>4, <4>1
        <5> HIDE DEF q
        <5>2. ASSUME NEW x \in Seq(S) PROVE Append(q, x) # <<>> /\ Append(q, x)[1] = q[1]
          <6>1. Append(q, x) \in Seq(Seq(S)) /\ Len(Append(q, x)) = Len(q) + 1 /\ Append(q, x)[1] = q[1]
            BY <5>1
          <6>2. Append(q, x) # <<>>
            BY <5>1, <6>1
          <6> QED BY <6>1, <6>2
        <5> QED BY <5>2 DEF q
      <4>3. acc.line # <<>> => Front(acc.line) \in Seq(S)
        BY <2>4 DEF Front
      <4> QED BY <2>6, <2>8, <4>2, <4>3
    <3>3. k \in 0 .. n + 1 /\ k < n + 1
      BY <2>1, <3>1
    <3>4. FirstOf(new, s, k, n + 1)
      BY <3>1, <3>2, <3>3 DEF FirstOf
    <3> QED BY <3>3, <3>4, Zenon DEF new
  <2> QED BY <2>7, <2>8
<1>6. P(N)
  <2>1. 0 \in Good
    BY <1>1, <1>4
  <2>2. ASSUME NEW n \in 0 .. N - 1, n \in Good PROVE n + 1 \in Good
    <3>1. P(n)
      BY <2>2
    <3>2. P(n + 1)
      BY <1>5, <3>1
    <3>3. n + 1 \in 0 .. N
      BY <1>1
    <3> HIDE DEF P
    <3> QED BY <3>2, <3>3
  <2>3. \A n \in 0 .. N : n \in Good
    <3> HIDE DEF Good
    <3> QED BY <1>1, <2>1, <2>2, StepByStep
  <2> QED BY <1>1, <2>3
<1>7. PICK k \in 0 .. N : FirstOf(f[N], s, k, N)
  BY <1>6
<1> DEFINE acc == f[N]
<1>8. acc.ended \in Seq(Seq(S)) /\ acc.line \in Seq(S)
  <2>1. acc \in SplitState(S)
    BY <1>1, <1>3
  <2> HIDE DEF acc
  <2> QED BY <2>1 DEF SplitState
<1> HIDE DEF acc, N
<1>9. Lines(s) = Append(acc.ended, acc.line)
  BY <1>2 DEF acc
<1>10. Lines(s)[1] = SubSeq(s, 1, k) /\ (k = N \/ s[k + 1] = "cr")
  <2>1. CASE acc.ended = <<>>
    <3>1. acc.line = SubSeq(s, 1, k) /\ k = N
      BY <1>7, <2>1 DEF FirstOf, acc
    <3>2. Append(acc.ended, acc.line)[1] = acc.line
      BY <2>1
    <3> QED BY <1>9, <3>1, <3>2
  <2>2. CASE acc.ended # <<>>
    <3>1. acc.ended[1] = SubSeq(s, 1, k) /\ s[k + 1] = "cr"
      BY <1>7, <2>2 DEF FirstOf, acc
    <3>2. Append(acc.ended, acc.line)[1] = acc.ended[1]
      BY <1>8, <2>2
    <3> QED BY <1>9, <3>1, <3>2
  <2> QED BY <2>1, <2>2
<1> QED BY <1>10 DEF N

(* What does not start like an array is none.                              *)
NotNumber(ch) == ch \notin DigitChars \cup {"+", "-"}

LEMMA NoArray ==
  ASSUME NEW S, Symbols \subseteq S, NEW s \in Seq(S), s # <<>>,
         s[1] = "*" => Len(s) = 1 \/ NotNumber(s[2])
  PROVE  Parse(s)[1] # "array"
<1>1. Len(s) \in Nat /\ Len(s) >= 1
  OBVIOUS
<1>2. PICK parse : Parse(s) = ParseBy(s, parse)
  BY ParseIsOne
<1> DEFINE w == Lines(s)[1]
<1>3. s[1] # "cr" => /\ Tail(w) \in Seq(S)
                     /\ Tail(w) # <<>> => Len(s) # 1 /\ Tail(w)[1] = s[2]
  <2> SUFFICES ASSUME s[1] # "cr"
               PROVE  Tail(w) \in Seq(S) /\ (Tail(w) # <<>> => Len(s) # 1 /\ Tail(w)[1] = s[2])
    OBVIOUS
  <2>1. PICK k \in 0 .. Len(s) : w = SubSeq(s, 1, k) /\ (k = Len(s) \/ s[k + 1] = "cr")
    BY FirstLine
  <2> HIDE DEF w
  <2>2. k \in Nat /\ k >= 1
    <3>1. k # 0
      <4>1. 0 # Len(s)
        BY <1>1
      <4> QED BY <2>1, <4>1
    <3> QED BY <3>1
  <2>3. w \in Seq(S) /\ Len(w) = k /\ \A i \in 1 .. k : w[i] = s[i]
    BY <2>1, BeginningOf
  <2> DEFINE t == Tail(w)
  <2>4. t \in Seq(S) /\ Len(t) = k - 1 /\ \A i \in 1 .. k - 1 : t[i] = w[i + 1]
    BY <2>2, <2>3
  <2> HIDE DEF t
  <2>5. t # <<>> => k >= 2
    BY <2>2, <2>4
  <2>6. t # <<>> => t[1] = s[2] /\ Len(s) # 1
    BY <2>2, <2>3, <2>4, <2>5, <1>1
  <2> QED BY <2>4, <2>6 DEF t
<1> HIDE DEF w
<1>4. IsInt(Tail(w)) /\ s[1] # "cr" =>
        /\ IntOf(Tail(w)) \in Int /\ Len(s) # 1
        /\ s[2] \in DigitChars \cup {"+", "-"}
  <2> SUFFICES ASSUME IsInt(Tail(w)), s[1] # "cr"
               PROVE  /\ IntOf(Tail(w)) \in Int /\ Len(s) # 1
                      /\ s[2] \in DigitChars \cup {"+", "-"}
    OBVIOUS
  <2> DEFINE t == Tail(w)
  <2>1. t \in Seq(S) /\ IsInt(t) /\ (t # <<>> => Len(s) # 1 /\ t[1] = s[2])
    BY <1>3
  <2> HIDE DEF t
  <2>2. IntOf(t) \in Int /\ t # <<>> /\ t[1] \in DigitChars \cup {"+", "-"}
    BY ONLY <2>1, IntFacts
  <2> QED BY <2>1, <2>2 DEF t
<1>5. CASE s[1] = "*"
  <2>4. ~ IsInt(Tail(w))
    BY <1>4, <1>5 DEF NotNumber
  <2>5. ParseBy(s, parse) = ParseArray(s, parse)
    <3>1. "*" # "+" /\ "*" # ":" /\ "*" # "$"
      OBVIOUS
    <3> QED BY <1>5, <3>1 DEF ParseBy
  <2>6. ParseArray(s, parse) = Bad
    BY <2>4, Zenon DEF ParseArray, w
  <2> QED BY <1>2, <2>5, <2>6 DEF Bad
<1>6. CASE s[1] # "*"
  <2>1. \/ ParseBy(s, parse) = Bad
        \/ ParseBy(s, parse) = ParseSimpleString(s)
        \/ ParseBy(s, parse) = ParseInteger(s)
        \/ s[1] = "$" /\ ParseBy(s, parse) = ParseBulkString(s)
    BY <1>6 DEF ParseBy
  <2>2. ParseSimpleString(s)[1] # "array"
    BY DEF ParseSimpleString, Simple, Bad
  <2>3. ParseInteger(s)[1] # "array"
    BY DEF ParseInteger, Integer, Bad
  <2>4. ASSUME s[1] = "$" PROVE ParseBulkString(s)[1] # "array"
    <3> DEFINE n == IntOf(Tail(w))
               L == Len(Lines(s)[2])
               V == CASE n = -1     -> Null
                      [] n < -1     -> Bad
                      [] n > L      -> Panic
                      [] n \in 0 .. L -> Bulk(SubSeq(Lines(s)[2], 1, n))
    <3>1. \/ ParseBulkString(s) = Bad
          \/ IsInt(Tail(w)) /\ ~ (Len(Lines(s)) < 2) /\ ParseBulkString(s) = V
      BY Zenon DEF ParseBulkString, w
    <3>2. ASSUME IsInt(Tail(w)), ~ (Len(Lines(s)) < 2) PROVE V[1] # "array"
      <4>1. Lines(s) \in Seq(Seq(S))
        BY LinesAreLines
      <4>2. 2 \in 1 .. Len(Lines(s))
        BY <3>2, <4>1
      <4>3. Lines(s)[2] \in Seq(S)
        <5> DEFINE l == Lines(s)
        <5>1. l \in Seq(Seq(S)) /\ 2 \in 1 .. Len(l)
          BY <4>1, <4>2
        <5> HIDE DEF l
        <5> QED BY ONLY <5>1, ElementOfSeq DEF l
      <4>4. L \in Nat
        BY <4>3
      <4>5. n \in Int
        <5>1. s[1] # "cr"
          BY <2>4
        <5> QED BY <1>4, <3>2, <5>1
      <4> DEFINE x == SubSeq(Lines(s)[2], 1, n)
      <4> HIDE DEF n, L, x
      <4>6. V \in {Null, Bad, Panic, Bulk(x)}
        BY <4>4, <4>5 DEF x
      <4> HIDE DEF V
      <4> QED BY <4>6 DEF Null, Bad, Panic, Bulk
    <3>3. Bad[1] # "array"
      BY DEF Bad
    <3> HIDE DEF V
    <3> QED BY <3>1, <3>2, <3>3, Zenon
  <2>5. Bad[1] # "array"
    BY DEF Bad
  <2> QED BY <1>2, <2>1, <2>2, <2>3, <2>4, <2>5, Zenon
<1> QED BY <1>5, <1>6

(* A text in which no asterisk begins an array: none is its last character *)
(* or stands before a digit or a sign.                                     *)
NoArrayIn(s) == \A i \in 1 .. Len(s) : s[i] = "*" => i < Len(s) /\ NotNumber(s[i + 1])

(* The same of a word, which may end in an asterisk.                       *)
Starless(w) == \A i \in 1 .. Len(w) - 1 : w[i] = "*" => NotNumber(w[i + 1])

LEMMA NoArrayJoined ==
  ASSUME NEW S, NEW a \in Seq(S), NEW b \in Seq(S), NoArrayIn(a), NoArrayIn(b)
  PROVE  a \o b \in Seq(S) /\ NoArrayIn(a \o b)
<1> DEFINE c == a \o b
<1>1. /\ c \in Seq(S) /\ Len(a) \in Nat /\ Len(b) \in Nat /\ Len(c) = Len(a) + Len(b)
      /\ \A i \in 1 .. Len(a) : c[i] = a[i]
      /\ \A i \in 1 .. Len(b) : c[Len(a) + i] = b[i]
  BY Joining
<1> HIDE DEF c
<1>2. ASSUME NEW i \in 1 .. Len(c), c[i] = "*"
      PROVE  i < Len(c) /\ NotNumber(c[i + 1])
  <2>1. CASE i <= Len(a)
    <3>1. i \in 1 .. Len(a) /\ a[i] = "*"
      BY <1>1, <1>2, <2>1
    <3>2. i < Len(a) /\ NotNumber(a[i + 1])
      BY <3>1 DEF NoArrayIn
    <3>3. i + 1 \in 1 .. Len(a) /\ i < Len(c)
      BY <1>1, <3>2
    <3> QED BY <1>1, <3>2, <3>3
  <2>2. CASE i > Len(a)
    <3>1. PICK j \in 1 .. Len(b) : i = Len(a) + j
      <4>1. i - Len(a) \in 1 .. Len(b) /\ i = Len(a) + (i - Len(a))
        BY <1>1, <2>2
      <4> QED BY <4>1
    <3>2. b[j] = "*"
      BY <1>1, <1>2, <3>1
    <3>3. j < Len(b) /\ NotNumber(b[j + 1])
      BY <3>2 DEF NoArrayIn
    <3>4. j + 1 \in 1 .. Len(b) /\ i + 1 = Len(a) + (j + 1) /\ i < Len(c)
      BY <1>1, <3>1, <3>3
    <3>5. c[i + 1] = b[j + 1]
      BY <1>1, <3>4
    <3> QED BY <3>3, <3>4, <3>5
  <2> QED BY <1>1, <2>1, <2>2
<1>3. NoArrayIn(c)
  BY <1>2 DEF NoArrayIn
<1> QED BY <1>1, <1>3 DEF c

LEMMA NoArrayInNumber ==
  ASSUME NEW S, Symbols \subseteq S, NEW n \in Nat
  PROVE  /\ Decimal[n] \in Seq(S) /\ NoArrayIn(Decimal[n])
         /\ CrLf \in Seq(S) /\ NoArrayIn(CrLf)
         /\ <<"$">> \in Seq(S) /\ NoArrayIn(<<"$">>)
<1>1. Decimal[n] \in Seq(DigitChars)
  BY DecimalFacts
<1>2. DigitChars \subseteq S /\ "*" \notin DigitChars
  <2>1. "*" \notin DigitChars
    BY DigitsAre
  <2> QED BY <2>1 DEF Symbols, DigitChars
<1> DEFINE d == Decimal[n]
<1>3. d \in Seq(DigitChars)
  BY <1>1
<1> HIDE DEF d
<1>4. d \in Seq(S)
  BY <1>2, <1>3
<1>5. \A i \in 1 .. Len(d) : d[i] \in DigitChars
  BY <1>3, ElementOfSeq
<1>6. NoArrayIn(d)
  BY <1>2, <1>5 DEF NoArrayIn
<1>7. CrLf \in Seq(S) /\ NoArrayIn(CrLf)
  <2>1. CrLf \in Seq(S) /\ Len(CrLf) = 2 /\ CrLf[1] = "cr" /\ CrLf[2] = "lf"
    BY CrLfIsText
  <2>2. \A i \in 1 .. 2 : i = 1 \/ i = 2
    OBVIOUS
  <2>3. \A i \in 1 .. 2 : CrLf[i] # "*"
    BY <2>1, <2>2
  <2> QED BY <2>1, <2>3 DEF NoArrayIn
<1>8. <<"$">> \in Seq(S) /\ NoArrayIn(<<"$">>)
  <2>1. "$" \in S
    BY DEF Symbols
  <2> QED BY <2>1 DEF NoArrayIn
<1> QED BY <1>4, <1>6, <1>7, <1>8 DEF d

LEMMA NoArrayInWord ==
  ASSUME NEW S, Symbols \subseteq S, NEW w \in Seq(S), Starless(w)
  PROVE  w \o CrLf \in Seq(S) /\ NoArrayIn(w \o CrLf)
<1> DEFINE c == w \o CrLf
<1>1. CrLf \in Seq(S) /\ Len(CrLf) = 2 /\ CrLf[1] = "cr" /\ CrLf[2] = "lf" /\ w \in Seq(S)
  BY CrLfIsText
<1>2. /\ c \in Seq(S) /\ Len(w) \in Nat /\ Len(c) = Len(w) + Len(CrLf)
      /\ \A i \in 1 .. Len(w) : c[i] = w[i]
      /\ \A i \in 1 .. Len(CrLf) : c[Len(w) + i] = CrLf[i]
  <2>1. CrLf \in Seq(S) /\ w \in Seq(S)
    BY <1>1
  <2> QED BY ONLY <2>1, Joining
<1> HIDE DEF c
<1>3. Len(c) = Len(w) + 2 /\ c[Len(w) + 1] = "cr" /\ c[Len(w) + 2] = "lf"
  BY <1>1, <1>2
<1>4. ASSUME NEW i \in 1 .. Len(c), c[i] = "*"
      PROVE  i < Len(c) /\ NotNumber(c[i + 1])
  <2>1. i \in 1 .. Len(w)
    <3>1. i # Len(w) + 1 /\ i # Len(w) + 2
      BY <1>3, <1>4
    <3> QED BY <1>2, <1>3, <3>1
  <2>2. CASE i = Len(w)
    <3>1. "cr" \notin DigitChars \cup {"+", "-"}
      BY DigitsAre
    <3> QED BY <1>2, <1>3, <2>2, <3>1 DEF NotNumber
  <2>3. CASE i # Len(w)
    <3>1. i \in 1 .. Len(w) - 1 /\ i + 1 \in 1 .. Len(w) /\ i < Len(c)
      BY <1>2, <1>3, <2>1, <2>3
    <3>2. w[i] = "*" /\ c[i + 1] = w[i + 1]
      BY <1>2, <1>4, <2>1, <3>1
    <3>3. NotNumber(w[i + 1])
      BY <3>1, <3>2 DEF Starless
    <3> QED BY <3>1, <3>2, <3>3
  <2> QED BY <2>2, <2>3
<1>5. NoArrayIn(c)
  BY <1>4 DEF NoArrayIn
<1> QED BY <1>2, <1>5 DEF c

LEMMA NoArrayInAll ==
  ASSUME NEW S, NEW seqs \in Seq(Seq(S)), \A i \in 1 .. Len(seqs) : NoArrayIn(seqs[i])
  PROVE  FlattenSeq(seqs) \in Seq(S) /\ NoArrayIn(FlattenSeq(seqs))
<1> DEFINE g == Joins(seqs)
           Good == {k \in 0 .. Len(seqs) : g[k] \in Seq(S) /\ NoArrayIn(g[k])}
<1>1. Len(seqs) \in Nat
  OBVIOUS
<1>2. AreJoins(g, seqs, Len(seqs))
  BY <1>1, JoinsExist
<1> HIDE DEF g
<1>3. 0 \in Good
  <2>1. g[0] = <<>>
    BY <1>2 DEF AreJoins
  <2>2. <<>> \in Seq(S) /\ NoArrayIn(<<>>)
    BY DEF NoArrayIn
  <2>3. 0 \in 0 .. Len(seqs)
    BY <1>1
  <2>4. g[0] \in Seq(S) /\ NoArrayIn(g[0])
    BY <2>1, <2>2, Zenon
  <2> QED BY <2>3, <2>4
<1>4. ASSUME NEW k \in 0 .. Len(seqs) - 1, k \in Good PROVE k + 1 \in Good
  <2>1. k + 1 \in 1 .. Len(seqs) /\ k + 1 \in 0 .. Len(seqs)
    BY <1>1
  <2>2. g[k + 1] = g[k] \o seqs[k + 1]
    <3>1. PICK m \in 1 .. Len(seqs) : m = k + 1 /\ m - 1 = k
      BY <2>1
    <3>2. g[m] = g[m - 1] \o seqs[m]
      BY <1>2 DEF AreJoins
    <3> QED BY <3>1, <3>2, Zenon
  <2> DEFINE x == g[k]
             y == seqs[k + 1]
  <2>3. x \in Seq(S) /\ NoArrayIn(x) /\ y \in Seq(S) /\ NoArrayIn(y)
    BY <1>4, <2>1, ElementOfSeq
  <2> HIDE DEF x, y
  <2>4. x \o y \in Seq(S) /\ NoArrayIn(x \o y)
    BY ONLY <2>3, NoArrayJoined
  <2> QED BY <2>1, <2>2, <2>4 DEF x, y
<1>5. \A k \in 0 .. Len(seqs) : k \in Good
  <2> HIDE DEF Good
  <2> QED BY <1>1, <1>3, <1>4, StepByStep
<1>6. Len(seqs) \in 0 .. Len(seqs)
  BY <1>1
<1>7. FlattenSeq(seqs) = g[Len(seqs)]
  BY FlattenIsJoins DEF g
<1> QED BY <1>5, <1>6, <1>7

(* In the text of a request an array begins at its first character only.   *)
LEMMA NoArrayInside ==
  ASSUME NEW S, Symbols \subseteq S, NEW ts \in Seq(Seq(S)), \A i \in 1 .. Len(ts) : Starless(ts[i])
  PROVE  /\ ArrayText(ts) \in Seq(S) /\ Len(ArrayText(ts)) \in Nat \ {0}
         /\ \A i \in 2 .. Len(ArrayText(ts)) :
              ArrayText(ts)[i] = "*" => i < Len(ArrayText(ts)) /\ NotNumber(ArrayText(ts)[i + 1])
<1> DEFINE d == Decimal[Len(ts)]
           b == FlattenSeq(Bulks(ts))
           r == (d \o CrLf) \o b
           s == ArrayText(ts)
           one == <<"*">>
<1>1. Len(ts) \in Nat
  OBVIOUS
<1>2. /\ d \in Seq(S) /\ NoArrayIn(d)
      /\ CrLf \in Seq(S) /\ NoArrayIn(CrLf)
  BY <1>1, NoArrayInNumber
<1>3. ASSUME NEW i \in 1 .. Len(ts)
      PROVE  BulkText(ts[i]) \in Seq(S) /\ NoArrayIn(BulkText(ts[i]))
  <2> DEFINE t == ts[i]
             n == Decimal[Len(t)]
             D == <<"$">>
             z == t \o CrLf
  <2>1. t \in Seq(S) /\ Starless(t) /\ Len(t) \in Nat
    BY ElementOfSeq
  <2>2. n \in Seq(S) /\ NoArrayIn(n) /\ D \in Seq(S) /\ NoArrayIn(D)
    <3> HIDE DEF t
    <3> QED BY <2>1, NoArrayInNumber
  <2>3. z \in Seq(S) /\ NoArrayIn(z)
    <3> HIDE DEF t
    <3> QED BY <2>1, NoArrayInWord
  <2>4. BulkText(t) = (((D \o n) \o CrLf) \o t) \o CrLf
    BY DEF BulkText
  <2> HIDE DEF t, n, D
  <2>5. D \o n \in Seq(S) /\ NoArrayIn(D \o n)
    BY ONLY <2>2, NoArrayJoined
  <2> DEFINE y == D \o n
             x == y \o CrLf
  <2> HIDE DEF y
  <2>6. x \in Seq(S) /\ NoArrayIn(x)
    <3>1. y \in Seq(S) /\ NoArrayIn(y)
      BY <2>5 DEF y
    <3> QED BY ONLY <1>2, <3>1, NoArrayJoined
  <2> HIDE DEF x
  <2>7. x \o z \in Seq(S) /\ NoArrayIn(x \o z)
    <3> HIDE DEF z
    <3> QED BY ONLY <2>3, <2>6, NoArrayJoined
  <2>8. (x \o t) \o CrLf = x \o z
    <3>1. x \in Seq(S) /\ t \in Seq(S) /\ CrLf \in Seq(S)
      BY <1>2, <2>1, <2>6
    <3> QED BY ONLY <3>1, Regrouped, SMTT(60) DEF z
  <2>9. BulkText(t) = x \o z
    BY <2>4, <2>8 DEF x, y
  <2> QED BY <2>7, <2>9 DEF t
<1>4. b \in Seq(S) /\ NoArrayIn(b)
  <2> DEFINE B == Bulks(ts)
  <2>1. B \in Seq(Seq(S)) /\ Len(B) = Len(ts)
    BY BulksAreTexts
  <2>2. \A i \in 1 .. Len(B) : NoArrayIn(B[i])
    BY <1>3, <2>1 DEF Bulks
  <2> HIDE DEF B
  <2>3. FlattenSeq(B) \in Seq(S) /\ NoArrayIn(FlattenSeq(B))
    BY ONLY <2>1, <2>2, NoArrayInAll
  <2> QED BY <2>3 DEF B
<1>5. s = ((one \o d) \o CrLf) \o b
  BY DEF ArrayText, Bulks
<1>6. one \in Seq(S) /\ Len(one) = 1
  <2>1. "*" \in S
    BY DEF Symbols
  <2> QED BY <2>1
<1> HIDE DEF d, b, one, s
<1>7. d \o CrLf \in Seq(S) /\ NoArrayIn(d \o CrLf)
  BY ONLY <1>2, NoArrayJoined
<1> DEFINE e == d \o CrLf
<1>8. ((one \o d) \o CrLf) \o b = one \o (e \o b)
  <2>1. (one \o d) \o CrLf = one \o e
    BY ONLY <1>2, <1>6, Regrouped DEF e
  <2>2. (one \o e) \o b = one \o (e \o b)
    <3> HIDE DEF e
    <3>1. e \in Seq(S)
      BY <1>7 DEF e
    <3> QED BY ONLY <1>4, <1>6, <3>1, Regrouped, SMTT(60)
  <2> QED BY <2>1, <2>2
<1>9. r \in Seq(S) /\ NoArrayIn(r)
  <2> HIDE DEF e
  <2>1. e \in Seq(S) /\ NoArrayIn(e)
    BY <1>7 DEF e
  <2>2. e \o b \in Seq(S) /\ NoArrayIn(e \o b)
    BY ONLY <1>4, <2>1, NoArrayJoined
  <2> QED BY <2>2 DEF e
<1>10. s = one \o r
  BY <1>5, <1>8
<1> HIDE DEF r
<1>11. /\ one \o r \in Seq(S) /\ Len(r) \in Nat /\ Len(one \o r) = Len(one) + Len(r)
       /\ \A i \in 1 .. Len(r) : (one \o r)[Len(one) + i] = r[i]
  <2>1. one \in Seq(S) /\ r \in Seq(S)
    BY <1>6, <1>9
  <2> QED BY ONLY <2>1, Joining
<1>12. /\ s \in Seq(S) /\ Len(s) = 1 + Len(r) /\ Len(r) \in Nat
       /\ \A i \in 1 .. Len(r) : s[1 + i] = r[i]
  BY <1>6, <1>10, <1>11
<1>13. ASSUME NEW i \in 2 .. Len(s), s[i] = "*"
       PROVE  i < Len(s) /\ NotNumber(s[i + 1])
  <2>1. PICK j \in 1 .. Len(r) : i = 1 + j
    <3>1. i - 1 \in 1 .. Len(r) /\ i = 1 + (i - 1)
      BY <1>12
    <3> QED BY <3>1
  <2>2. r[j] = "*"
    BY <1>12, <1>13, <2>1
  <2>3. j < Len(r) /\ NotNumber(r[j + 1])
    BY <1>9, <2>2 DEF NoArrayIn
  <2>4. j + 1 \in 1 .. Len(r) /\ i + 1 = 1 + (j + 1) /\ i < Len(s)
    BY <1>12, <2>1, <2>3
  <2>5. s[i + 1] = r[j + 1]
    BY <1>12, <2>4
  <2> QED BY <2>3, <2>4, <2>5
<1>14. Len(s) \in Nat \ {0}
  BY <1>12
<1> QED BY <1>12, <1>13, <1>14 DEF s

-----------------------------------------------------------------------------
(* A request that is whole and alone.                                      *)
LEMMA WholeRead ==
  ASSUME NEW S, Symbols \subseteq S, NEW ts \in Seq(Seq(S)),
         \A i \in 1 .. Len(ts) : Plain(ts[i])
  PROVE  Parse(ArrayText(ts)) = Array([i \in 1 .. Len(ts) |-> Bulk(ts[i])])
<1>1. ArrayText(ts) \in Seq(S) /\ <<>> \in Seq(S)
  BY RequestText
<1>2. ArrayText(ts) \o <<>> = ArrayText(ts)
  BY ONLY <1>1, ConcatEmptySeq
<1>3. Parse(ArrayText(ts) \o <<>>) = Array([i \in 1 .. Len(ts) |-> Bulk(ts[i])])
  BY <1>1, RequestRead
<1> QED BY <1>2, <1>3

(* The words of a request that can be read from pieces.                    *)
IsRequest(ts, S) ==
  /\ ts \in Seq(Seq(S))
  /\ \A i \in 1 .. Len(ts) : Plain(ts[i]) /\ Starless(ts[i])

(* src/parser.rs, as src/main.rs:322 uses it: of any piece of the requests *)
(* of a client, parse makes no array, or the piece begins with a request   *)
(* and parse makes that request of it, or its first words.                 *)
LEMMA ChunkRead ==
  ASSUME NEW S, Symbols \subseteq S, NEW texts \in Seq(Seq(S)), NEW words,
         \A i \in 1 .. Len(texts) : texts[i] = ArrayText(words[i]) /\ IsRequest(words[i], S),
         NEW a \in Nat, NEW b \in Nat, a < b, b <= Len(FlattenSeq(texts))
  PROVE  \/ Parse(SubSeq(FlattenSeq(texts), a + 1, b))[1] # "array"
         \/ \E k \in 1 .. Len(texts) :
              /\ a = Offset(texts, k - 1)
              /\ FirstWords(Parse(SubSeq(FlattenSeq(texts), a + 1, b)), words[k])
<1> DEFINE T == FlattenSeq(texts)
           s == SubSeq(T, a + 1, b)
<1>1. /\ T \in Seq(S) /\ Len(T) \in Nat
      /\ \A n \in 0 .. Len(texts) : Offset(texts, n) \in Nat /\ Offset(texts, n) <= Len(T)
      /\ \A n \in 1 .. Len(texts) :
           /\ Offset(texts, n) = Offset(texts, n - 1) + Len(texts[n])
           /\ PartOf(T, Offset(texts, n - 1) + 1, texts[n])
  BY Flattened
<1>2. Len(texts) \in Nat
  OBVIOUS
<1>3. PICK q \in 0 .. Len(texts) - 1 :
         Offset(texts, q) \in Nat /\ Offset(texts, q) <= a /\ a < Offset(texts, q + 1)
  <2>1. a \in 0 .. Len(FlattenSeq(texts)) - 1
    BY <1>1
  <2> QED BY <2>1, CutInside
<1>4. PICK k \in 1 .. Len(texts) : k = q + 1 /\ k - 1 = q
  BY <1>2
<1> DEFINE o == Offset(texts, k - 1)
           t == texts[k]
           ts == words[k]
<1>5. o \in Nat /\ o <= a /\ a < o + Len(t) /\ PartOf(T, o + 1, t) /\ o + Len(t) <= Len(T)
  <2>1. /\ Offset(texts, k) = Offset(texts, k - 1) + Len(texts[k])
        /\ PartOf(T, Offset(texts, k - 1) + 1, texts[k])
    BY <1>1
  <2>2. Offset(texts, k) <= Len(T)
    BY <1>1, <1>2
  <2> QED BY <1>3, <1>4, <2>1, <2>2
<1>6. t = ArrayText(ts) /\ ts \in Seq(Seq(S)) /\ \A i \in 1 .. Len(ts) : Plain(ts[i]) /\ Starless(ts[i])
  BY DEF IsRequest
<1>7. /\ t \in Seq(S) /\ Len(t) \in Nat \ {0}
      /\ \A i \in 2 .. Len(t) : t[i] = "*" => i < Len(t) /\ NotNumber(t[i + 1])
  <2> HIDE DEF t, ts
  <2>1. /\ ArrayText(ts) \in Seq(S) /\ Len(ArrayText(ts)) \in Nat \ {0}
        /\ \A i \in 2 .. Len(ArrayText(ts)) :
              ArrayText(ts)[i] = "*" => i < Len(ArrayText(ts)) /\ NotNumber(ArrayText(ts)[i + 1])
    <3>1. ts \in Seq(Seq(S)) /\ \A i \in 1 .. Len(ts) : Starless(ts[i])
      BY <1>6
    <3> QED BY <3>1, NoArrayInside
  <2> QED BY <1>6, <2>1
<1> HIDE DEF T, o, t, ts
<1>8. /\ s \in Seq(S) /\ Len(s) = b - a /\ s # <<>>
      /\ \A i \in 1 .. b - a : s[i] = T[a + i]
  <2>1. T \in Seq(S) /\ a \in Nat /\ b \in Nat /\ a <= b /\ b <= Len(T)
    BY <1>1 DEF T
  <2>2. s \in Seq(S) /\ Len(s) = b - a /\ \A i \in 1 .. b - a : s[i] = T[a + i]
    BY ONLY <2>1, PieceOf
  <2> HIDE DEF s
  <2>3. s # <<>>
    BY <2>2
  <2> QED BY <2>2, <2>3
<1>9. CASE a = o
  <2>1. CASE o + Len(t) <= b
    <3> DEFINE rest == SubSeq(T, o + Len(t) + 1, b)
    <3>1. rest \in Seq(S) /\ s = t \o rest
      <4>1. T \in Seq(S) /\ o \in Nat /\ t \in Seq(S) /\ PartOf(T, o + 1, t) /\ b \in Nat
            /\ o + Len(t) <= b /\ b <= Len(T)
        BY <1>1, <1>5, <1>7, <2>1 DEF T
      <4>2. rest \in Seq(S) /\ SubSeq(T, o + 1, b) = t \o rest
        BY ONLY <4>1, CutBehind, SMTT(60)
      <4> QED BY <1>9, <4>2
    <3> HIDE DEF rest, s
    <3>2. Parse(ArrayText(ts) \o rest) = Array([i \in 1 .. Len(ts) |-> Bulk(ts[i])])
      BY <1>6, <3>1, RequestRead
    <3>3. Parse(s) = Array([i \in 1 .. Len(ts) |-> Bulk(ts[i])])
      BY <1>6, <3>1, <3>2
    <3>4. Len(ts) \in 0 .. Len(ts)
      BY <1>6
    <3>5. FirstWords(Parse(s), ts)
      BY <3>3, <3>4, Zenon DEF FirstWords
    <3> QED BY <1>9, <3>5 DEF s, T, o, ts
  <2>2. CASE b < o + Len(t)
    <3> DEFINE p == b - a
               u == SubSeq(t, 1, p)
    <3>1. p \in 1 .. Len(t) /\ p \in 0 .. Len(t)
      BY <1>7, <1>9, <2>2
    <3>2. u \in Seq(S) /\ Len(u) = p /\ \A i \in 1 .. p : u[i] = t[i]
      BY <1>7, <3>1, BeginningOf
    <3>3. \A i \in 1 .. p : s[i] = t[i]
      <4> SUFFICES ASSUME NEW i \in 1 .. p PROVE s[i] = t[i]
        OBVIOUS
      <4>1. i \in 1 .. Len(t) /\ (o + 1) + i - 1 = o + i /\ o + i <= Len(T)
        BY <1>5, <3>1, <1>7
      <4>2. T[(o + 1) + i - 1] = t[i]
        BY <1>5, <4>1 DEF PartOf
      <4> QED BY <1>8, <1>9, <4>1, <4>2
    <3> HIDE DEF u, s
    <3>4. s = u
      <4>1. u \in Seq(S) /\ s \in Seq(S) /\ Len(s) = Len(u) /\ \A i \in 1 .. Len(s) : s[i] = u[i]
        BY <1>8, <3>2, <3>3
      <4> QED BY ONLY <4>1, Extensional
    <3> HIDE DEF p
    <3>5. FirstWords(Parse(SubSeq(ArrayText(ts), 1, p)), ts)
      <4>1. p \in 1 .. Len(ArrayText(ts)) /\ ts \in Seq(Seq(S)) /\ \A i \in 1 .. Len(ts) : Plain(ts[i])
        BY <1>6, <3>1
      <4> QED BY <4>1, CutRead
    <3>6. FirstWords(Parse(s), ts)
      BY <1>6, <3>4, <3>5 DEF u
    <3> QED BY <1>9, <3>6 DEF s, T, o, ts
  <2> QED BY <1>5, <1>7, <2>1, <2>2
<1>10. CASE a # o
  <2> DEFINE i == a - o + 1
  <2>1. i \in 2 .. Len(t) /\ i \in 1 .. Len(t) /\ (o + 1) + i - 1 = a + 1 /\ (o + 1) + i - 1 <= Len(T)
    BY <1>5, <1>7, <1>10
  <2>2. (o + 1) + (i + 1) - 1 = a + 2 /\ (i < Len(t) => i + 1 \in 1 .. Len(t) /\ (o + 1) + (i + 1) - 1 <= Len(T))
    BY <1>5, <1>7, <2>1, SMTT(60)
  <2> HIDE DEF i
  <2>3. T[a + 1] = t[i]
    BY <1>5, <2>1 DEF PartOf
  <2>4. i < Len(t) => T[a + 2] = t[i + 1]
    <3> SUFFICES ASSUME i < Len(t) PROVE T[a + 2] = t[i + 1]
      OBVIOUS
    <3> DEFINE j == i + 1
    <3>1. j \in 1 .. Len(t) /\ (o + 1) + j - 1 = a + 2 /\ (o + 1) + j - 1 <= Len(T)
      BY <2>2
    <3> HIDE DEF j
    <3>2. T[(o + 1) + j - 1] = t[j]
      BY <1>5, <3>1 DEF PartOf
    <3> QED BY <3>1, <3>2 DEF j
  <2>5. s[1] = t[i]
    <3>1. 1 \in 1 .. b - a
      OBVIOUS
    <3> QED BY <1>8, <2>3, <3>1
  <2>6. Len(s) # 1 => s[2] = T[a + 2]
    <3>1. Len(s) # 1 => 2 \in 1 .. b - a
      BY <1>8
    <3> QED BY <1>8, <3>1
  <2>7. s[1] = "*" => Len(s) = 1 \/ NotNumber(s[2])
    BY <1>7, <2>1, <2>4, <2>5, <2>6
  <2> HIDE DEF s
  <2>8. Parse(s)[1] # "array"
    BY <1>8, <2>7, NoArray
  <2> QED BY <2>8 DEF s, T
<1> QED BY <1>9, <1>10
=============================================================================
