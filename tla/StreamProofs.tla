---------------------------- MODULE StreamProofs -----------------------------
(***************************************************************************)
(* Requests of plain words on the text of a stream, for streams, words,    *)
(* numbers and chunks of any length: parse reads the first request of a    *)
(* chunk and nothing else, a SET is understood as it was meant, a chunk of *)
(* whole messages is executed whole and counted short, and what is         *)
(* executed of any chunk is what Wire says of its two cuts.                *)
(***************************************************************************)
EXTENDS Stream, RespProofs

(* What requests are made of, next to the characters of their words.       *)
Letters == Symbols \cup {"s", "e", "t", "p", "x"}

(* SETs whose words have no line break in them and are no header.          *)
PlainWords(S) == {w \in Seq(S) : Plain(w)}
PlainSet(S) == [key : PlainWords(S), val : PlainWords(S), px : Nat \cup {NoPx}]

Words(m) ==
  IF m.px = NoPx THEN <<SetWord, m.key, m.val>>
  ELSE <<SetWord, m.key, m.val, PxWord, Decimal[m.px]>>
Values(m) == [i \in 1 .. Len(Words(m)) |-> Bulk(Words(m)[i])]

-----------------------------------------------------------------------------
LEMMA NoHeader ==
  ASSUME NEW w, w[1] # "$", w[1] # "*"
  PROVE  CountQoda(w) = 0
BY DEF CountQoda

LEMMA KnownWordsArePlain ==
  ASSUME NEW S, Letters \subseteq S
  PROVE  SetWord \in PlainWords(S) /\ PxWord \in PlainWords(S)
<1>1. "s" \in S /\ "e" \in S /\ "t" \in S /\ "p" \in S /\ "x" \in S
  BY DEF Letters
<1>2. SetWord \in Seq(S) /\ Len(SetWord) = 3
      /\ SetWord[1] = "s" /\ SetWord[2] = "e" /\ SetWord[3] = "t"
  BY <1>1 DEF SetWord
<1>3. PxWord \in Seq(S) /\ Len(PxWord) = 2 /\ PxWord[1] = "p" /\ PxWord[2] = "x"
  BY <1>1 DEF PxWord
<1>4. CountQoda(SetWord) = 0 /\ CountQoda(PxWord) = 0
  BY <1>2, <1>3, NoHeader
<1>5. NoBreak(SetWord)
  <2>1. \A i \in 1 .. 3 - 1 : i = 1 \/ i = 2
    OBVIOUS
  <2> QED BY <1>2, <2>1 DEF NoBreak
<1>6. NoBreak(PxWord)
  <2>1. \A i \in 1 .. 2 - 1 : i = 1
    OBVIOUS
  <2> QED BY <1>3, <2>1 DEF NoBreak
<1> QED BY <1>2, <1>3, <1>4, <1>5, <1>6 DEF PlainWords, Plain

LEMMA NumbersArePlain ==
  ASSUME NEW S, Letters \subseteq S, NEW n \in Nat
  PROVE  Decimal[n] \in PlainWords(S)
<1> DEFINE t == Decimal[n]
<1>1. t \in Seq(DigitChars) /\ Len(t) \in Nat \ {0}
  BY DecimalFacts
<1> HIDE DEF t
<1>2. DigitChars \subseteq S
  BY DEF Letters, Symbols, DigitChars
<1>3. t \in Seq(S)
  BY <1>1, <1>2, SeqMonotonic
<1>4. \A i \in 1 .. Len(t) : t[i] \in DigitChars
  BY <1>1, ElementOfSeq
<1>5. "cr" \notin DigitChars /\ "$" \notin DigitChars /\ "*" \notin DigitChars
  BY DEF DigitChars, Digits, Range
<1>6. NoBreak(t)
  <2>1. \A i \in 1 .. Len(t) - 1 : i \in 1 .. Len(t)
    BY <1>1
  <2> QED BY <1>4, <1>5, <2>1 DEF NoBreak
<1>7. CountQoda(t) = 0
  <2>1. 1 \in 1 .. Len(t)
    BY <1>1
  <2> QED BY <1>4, <1>5, <2>1, NoHeader
<1> QED BY <1>3, <1>6, <1>7 DEF PlainWords, Plain, t

(* The text of a SET is that of a request of plain words.                  *)
LEMMA WordsOfSet ==
  ASSUME NEW S, Letters \subseteq S, NEW m \in PlainSet(S)
  PROVE  /\ Words(m) \in Seq(Seq(S)) /\ Len(Words(m)) = (IF m.px = NoPx THEN 3 ELSE 5)
         /\ \A i \in 1 .. Len(Words(m)) : Plain(Words(m)[i])
         /\ TextOf(m) = ArrayText(Words(m))
<1>1. m.key \in PlainWords(S) /\ m.val \in PlainWords(S) /\ m.px \in Nat \cup {NoPx}
  BY DEF PlainSet
<1>2. SetWord \in PlainWords(S) /\ PxWord \in PlainWords(S)
  BY KnownWordsArePlain
<1>3. \A w \in PlainWords(S) : w \in Seq(S) /\ Plain(w)
  BY DEF PlainWords
<1>4. CASE m.px = NoPx
  <2> DEFINE ws == <<SetWord, m.key, m.val>>
  <2>1. /\ ws \in Seq(Seq(S)) /\ Len(ws) = 3
        /\ ws[1] = SetWord /\ ws[2] = m.key /\ ws[3] = m.val
    BY <1>1, <1>2, <1>3
  <2> HIDE DEF ws
  <2>2. \A i \in 1 .. 3 : i = 1 \/ i = 2 \/ i = 3
    OBVIOUS
  <2>3. \A i \in 1 .. Len(ws) : Plain(ws[i])
    BY <1>1, <1>2, <1>3, <2>1, <2>2
  <2>4. TextOf(m) = ArrayText(ws) /\ Words(m) = ws
    BY <1>4 DEF TextOf, PxOf, GenerateResp, Words, ws
  <2> QED BY <1>4, <2>1, <2>3, <2>4
<1>5. CASE m.px # NoPx
  <2> DEFINE d == Decimal[m.px]
             ws == <<SetWord, m.key, m.val, PxWord, d>>
  <2>1. m.px \in Nat
    BY <1>1, <1>5
  <2>2. d \in PlainWords(S)
    BY <2>1, NumbersArePlain
  <2> HIDE DEF d
  <2>3. /\ ws \in Seq(Seq(S)) /\ Len(ws) = 5
        /\ ws[1] = SetWord /\ ws[2] = m.key /\ ws[3] = m.val /\ ws[4] = PxWord /\ ws[5] = d
    BY <1>1, <1>2, <1>3, <2>2
  <2> HIDE DEF ws
  <2>4. \A i \in 1 .. 5 : i = 1 \/ i = 2 \/ i = 3 \/ i = 4 \/ i = 5
    OBVIOUS
  <2>5. \A i \in 1 .. Len(ws) : Plain(ws[i])
    BY <1>1, <1>2, <1>3, <2>2, <2>3, <2>4
  <2>6. <<"px", m.px>> # <<"no px">> /\ <<"px", m.px>>[2] = m.px
    OBVIOUS
  <2>7. TextOf(m) = ArrayText(ws) /\ Words(m) = ws
    BY <1>5, <2>6 DEF TextOf, PxOf, GenerateResp, Words, ws, d
  <2> QED BY <1>5, <2>3, <2>5, <2>7
<1> QED BY <1>4, <1>5

LEMMA SetRead ==
  ASSUME NEW S, Letters \subseteq S, NEW m \in PlainSet(S), NEW rest \in Seq(S)
  PROVE  TextOf(m) \in Seq(S) /\ Parse(TextOf(m) \o rest) = Array(Values(m))
<1>1. Symbols \subseteq S
  BY DEF Letters
<1> DEFINE ws == Words(m)
<1>2. ws \in Seq(Seq(S)) /\ (\A i \in 1 .. Len(ws) : Plain(ws[i])) /\ TextOf(m) = ArrayText(ws)
  BY WordsOfSet
<1> HIDE DEF ws
<1>3. ArrayText(ws) \in Seq(S)
  BY <1>1, <1>2, RequestText
<1>4. Parse(ArrayText(ws) \o rest) = Array([i \in 1 .. Len(ws) |-> Bulk(ws[i])])
  BY <1>1, <1>2, RequestRead
<1> QED BY <1>2, <1>3, <1>4 DEF Values, ws

LEMMA SetReadAlone ==
  ASSUME NEW S, Letters \subseteq S, NEW m \in PlainSet(S)
  PROVE  Parse(TextOf(m)) = Array(Values(m))
<1>1. <<>> \in Seq(S)
  OBVIOUS
<1>2. TextOf(m) \in Seq(S) /\ Parse(TextOf(m) \o <<>>) = Array(Values(m))
  BY <1>1, SetRead
<1>3. TextOf(m) \o <<>> = TextOf(m)
  BY <1>2, ConcatEmptySeq
<1> QED BY <1>2, <1>3

-----------------------------------------------------------------------------
(* How far the replica has read.                                           *)
Reading == /\ stream \in Streams
           /\ begun \in Nat /\ taken \in Nat /\ begun <= taken /\ taken <= Len(Text)
PlainStreams(S) == \A s \in Streams : s \in Seq(PlainSet(S))

LEMMA TextIsText ==
  ASSUME NEW S, Letters \subseteq S, stream \in Seq(PlainSet(S))
  PROVE  LET texts == [j \in DOMAIN stream |-> TextOf(stream[j])] IN
         /\ texts \in Seq(Seq(S)) /\ Len(texts) = Len(stream) /\ DOMAIN stream = 1 .. Len(stream)
         /\ Text = FlattenSeq(texts) /\ Text \in Seq(S) /\ Len(Text) \in Nat
<1> DEFINE texts == [j \in DOMAIN stream |-> TextOf(stream[j])]
<1>1. Len(stream) \in Nat /\ DOMAIN stream = 1 .. Len(stream)
  OBVIOUS
<1>2. \A j \in 1 .. Len(stream) : stream[j] \in PlainSet(S)
  BY ElementOfSeq
<1>3. <<>> \in Seq(S)
  OBVIOUS
<1>4. \A j \in 1 .. Len(stream) : TextOf(stream[j]) \in Seq(S)
  BY <1>2, <1>3, SetRead
<1>5. texts \in [1 .. Len(stream) -> Seq(S)]
  BY <1>1, <1>4
<1>6. Text = FlattenSeq(texts)
  BY DEF Text
<1> HIDE DEF texts
<1>7. texts \in Seq(Seq(S)) /\ Len(texts) = Len(stream)
  BY <1>1, <1>5, TupleIsSeq
<1>8. FlattenSeq(texts) \in Seq(S)
  BY <1>7, Flattened
<1>9. Len(FlattenSeq(texts)) \in Nat
  BY <1>8
<1> QED BY <1>1, <1>6, <1>7, <1>8, <1>9 DEF texts

LEMMA ReadingIsKept ==
  ASSUME NEW S, Letters \subseteq S, PlainStreams(S)
  PROVE  Spec => []Reading
<1>1. Init => Reading
  <2> SUFFICES ASSUME Init PROVE Reading
    OBVIOUS
  <2>1. stream \in Streams /\ begun = 0 /\ taken = 0
    BY DEF Init
  <2>2. Len(Text) \in Nat
    <3>1. stream \in Seq(PlainSet(S))
      BY <2>1 DEF PlainStreams
    <3> QED BY <3>1, TextIsText
  <2> QED BY <2>1, <2>2 DEF Reading
<1>2. Reading /\ [Next]_vars => Reading'
  <2> SUFFICES ASSUME Reading, [Next]_vars PROVE Reading'
    OBVIOUS
  <2>1. stream' = stream
    BY DEF Next, vars, ReadChunk, ParseChunk
  <2>2. Text' = Text
    BY <2>1 DEF Text
  <2>3. Len(Text) \in Nat
    <3>1. stream \in Seq(PlainSet(S))
      BY DEF Reading, PlainStreams
    <3> QED BY <3>1, TextIsText
  <2>4. CASE ReadChunk
    <3>1. taken' \in taken + 1 .. Len(Text) /\ begun' = taken
      BY <2>4 DEF ReadChunk
    <3> QED BY <2>1, <2>2, <2>3, <3>1 DEF Reading
  <2>5. CASE ParseChunk
    BY <2>1, <2>2, <2>5 DEF ParseChunk, Reading
  <2>6. CASE UNCHANGED vars
    BY <2>1, <2>2, <2>6 DEF vars, Reading
  <2> QED BY <2>4, <2>5, <2>6 DEF Next
<1> QED BY <1>1, <1>2, PTL DEF Spec

LEMMA FirstIsRead ==
  ASSUME NEW S, Letters \subseteq S, PlainStreams(S), Reading
  PROVE  FirstRequestOnly
<1> SUFFICES ASSUME NEW i \in DOMAIN stream, begun = Len(Before(i)),
                    taken - begun >= Len(TextOf(stream[i]))
             PROVE  Parse(SubSeq(Text, begun + 1, taken)) = Parse(TextOf(stream[i]))
  BY DEF FirstRequestOnly
<1> DEFINE texts == [j \in DOMAIN stream |-> TextOf(stream[j])]
           w == TextOf(stream[i])
           m == stream[i]
<1>1. stream \in Seq(PlainSet(S))
  BY DEF Reading, PlainStreams
<1>2. /\ texts \in Seq(Seq(S)) /\ Len(texts) = Len(stream) /\ DOMAIN stream = 1 .. Len(stream)
      /\ Text = FlattenSeq(texts) /\ Text \in Seq(S) /\ Len(Text) \in Nat
  BY <1>1, TextIsText
<1>3. i \in 1 .. Len(texts) /\ Len(stream) \in Nat
  BY <1>1, <1>2
<1>4. i - 1 \in 0 .. Len(texts) /\ i \in Nat
  BY <1>2, <1>3
<1>5. \A j \in 1 .. Len(texts) : texts[j] = TextOf(stream[j])
  BY <1>2
<1>6. Before(i) = FlattenSeq([j \in 1 .. i - 1 |-> texts[j]])
  <2>1. \A j \in 1 .. i - 1 : j \in 1 .. Len(texts)
    BY <1>2, <1>3, <1>4
  <2> HIDE DEF texts
  <2>2. [j \in 1 .. i - 1 |-> texts[j]] = [j \in 1 .. i - 1 |-> TextOf(stream[j])]
    BY <1>5, <2>1, Zenon
  <2> QED BY <2>2, Zenon DEF Before
<1>7. texts[i] = w
  BY <1>3, <1>5
<1> HIDE DEF texts
<1>8. begun = Offset(texts, i - 1)
  <2>1. FlattenSeq([j \in 1 .. i - 1 |-> texts[j]]) = Joins(texts)[i - 1]
    BY <1>2, <1>4, FlattenPrefix
  <2> QED BY <1>6, <2>1 DEF Offset
<1>9. PartOf(Text, begun + 1, w)
  <2>1. PartOf(FlattenSeq(texts), Offset(texts, i - 1) + 1, texts[i])
    BY <1>2, <1>3, Flattened
  <2> QED BY <1>2, <1>7, <1>8, <2>1
<1>10. m \in PlainSet(S)
  <2>1. i \in 1 .. Len(stream)
    BY <1>2, <1>3
  <2> QED BY <1>1, <2>1, ElementOfSeq
<1>11. <<>> \in Seq(S)
  OBVIOUS
<1>12. w \in Seq(S) /\ Parse(w) = Array(Values(m))
  BY <1>10, <1>11, SetRead, SetReadAlone
<1> HIDE DEF w, m
<1>13. begun \in Nat /\ taken \in Nat /\ begun + Len(w) <= taken /\ taken <= Len(Text)
  <2>1. begun \in Nat /\ taken \in Nat /\ taken <= Len(Text) /\ Len(w) \in Nat
    BY <1>12 DEF Reading
  <2>2. taken - begun >= Len(w)
    BY DEF w
  <2> QED BY <2>1, <2>2
<1>14. PICK rest \in Seq(S) : SubSeq(Text, begun + 1, taken) = w \o rest
  <2>1. Text \in Seq(S) /\ w \in Seq(S) /\ begun \in Nat /\ taken \in Nat
    BY <1>2, <1>12, <1>13
  <2>2. begun + Len(w) <= taken /\ taken <= Len(Text)
    BY <1>13
  <2> DEFINE f == Text
             b == begun
             e == taken
  <2>3. /\ f \in Seq(S) /\ w \in Seq(S) /\ b \in Nat /\ e \in Nat
        /\ b + Len(w) <= e /\ e <= Len(f) /\ PartOf(f, b + 1, w)
    BY <1>9, <2>1, <2>2
  <2> HIDE DEF f, b, e
  <2>4. SubSeq(f, b + Len(w) + 1, e) \in Seq(S)
        /\ SubSeq(f, b + 1, e) = w \o SubSeq(f, b + Len(w) + 1, e)
    BY <2>3, CutBehind
  <2> QED BY <2>4 DEF f, b, e
<1>15. Parse(w \o rest) = Array(Values(m))
  BY <1>10, SetRead DEF w, m
<1> QED BY <1>12, <1>14, <1>15 DEF w

(* src/parser.rs:50-73 and 125-210, src/main.rs:322: whatever SETs of      *)
(* plain words a stream is made of and however it is cut, parse makes of a *)
(* chunk that starts with a whole request that request and nothing else.   *)
THEOREM FirstRequestsAreRead ==
  ASSUME NEW S, Letters \subseteq S, PlainStreams(S)
  PROVE  Spec => []FirstRequestOnly
<1>1. Reading => FirstRequestOnly
  BY FirstIsRead
<1>2. Spec => []Reading
  BY ReadingIsKept
<1> QED BY <1>1, <1>2, PTL

-----------------------------------------------------------------------------
(* The options behind key and value, one after the other.                  *)
NoOption == [wants |-> FALSE, px |-> <<"no px">>]
AreScanned(f, vs, N) ==
  f = [i \in 3 .. N |-> IF i = 3 THEN [wants |-> FALSE, px |-> <<"no px">>]
                        ELSE ScanOption(f[i - 1], vs[i])]

LEMMA NoOptionScanned ==
  ASSUME NEW vs
  PROVE  AreScanned([i \in 3 .. 3 |-> NoOption], vs, 3)
<1> DEFINE f == [i \in 3 .. 3 |-> NoOption]
<1>1. \A i \in 3 .. 3 : i = 3
  OBVIOUS
<1>2. f = [i \in 3 .. 3 |-> IF i = 3 THEN NoOption ELSE ScanOption(f[i - 1], vs[i])]
  BY <1>1, Zenon
<1> QED BY <1>2 DEF AreScanned, NoOption

LEMMA TwoOptionsScanned ==
  ASSUME NEW vs
  PROVE  \E f : AreScanned(f, vs, 5)
<1> DEFINE a == NoOption
           b == ScanOption(a, vs[4])
           c == ScanOption(b, vs[5])
           f == [i \in 3 .. 5 |-> IF i = 3 THEN a ELSE IF i = 4 THEN b ELSE c]
<1>1. f[3] = a /\ f[4] = b /\ f[5] = c /\ f = [i \in 3 .. 5 |-> f[i]]
  <2> HIDE DEF a, b, c
  <2> QED OBVIOUS
<1> HIDE DEF f
<1>2. \A i \in 3 .. 5 : f[i] = IF i = 3 THEN a ELSE ScanOption(f[i - 1], vs[i])
  <2> SUFFICES ASSUME NEW i \in 3 .. 5
               PROVE  f[i] = IF i = 3 THEN a ELSE ScanOption(f[i - 1], vs[i])
    OBVIOUS
  <2>1. CASE i = 3
    BY <1>1, <2>1
  <2>2. CASE i = 4
    <3>1. i # 3 /\ i - 1 = 3
      BY <2>2
    <3> QED BY <1>1, <2>2, <3>1, Zenon
  <2>3. CASE i = 5
    <3>1. i # 3 /\ i - 1 = 4
      BY <2>3
    <3> QED BY <1>1, <2>3, <3>1, Zenon
  <2> QED BY <2>1, <2>2, <2>3
<1>3. AreScanned(f, vs, 5)
  BY <1>1, <1>2, Zenon DEF AreScanned, NoOption
<1> QED BY <1>3

(* What parse_set makes of values that start with SET, a key and a value.  *)
LEMMA SetParsed ==
  ASSUME NEW vs, NEW n \in Nat, Len(vs) = n, n >= 3,
         NEW key, NEW val, vs[1] = Bulk(SetWord), vs[2] = Bulk(key), vs[3] = Bulk(val),
         NEW g, AreScanned(g, vs, n)
  PROVE  \E f : /\ AreScanned(f, vs, n)
                /\ ParseSet(vs) = IF f[n].wants \/ f[n].px = NoCommand THEN NoCommand
                                  ELSE <<"set", key, val, f[n].px>>
<1> DEFINE scanned[i \in 3 .. Len(vs)] ==
             IF i = 3 THEN [wants |-> FALSE, px |-> <<"no px">>]
             ELSE ScanOption(scanned[i - 1], vs[i])
           IsF(f) == f = [i \in 3 .. Len(vs) |-> IF i = 3 THEN [wants |-> FALSE, px |-> <<"no px">>]
                                                 ELSE ScanOption(f[i - 1], vs[i])]
<1>1. \A f : IsF(f) <=> AreScanned(f, vs, n)
  BY Zenon DEF AreScanned
<1>2. AreScanned(scanned, vs, n)
  <2>1. scanned = CHOOSE f : IsF(f)
    OBVIOUS
  <2> HIDE DEF scanned, IsF
  <2> QED BY <1>1, <2>1, Zenon
<1>3. vs[1][1] = "bulk" /\ vs[2][1] = "bulk" /\ vs[3][1] = "bulk" /\ vs[2][2] = key /\ vs[3][2] = val
  BY DEF Bulk
<1>4. ~ \E i \in 1 .. 3 : vs[i][1] # "bulk"
  <2>1. \A i \in 1 .. 3 : i = 1 \/ i = 2 \/ i = 3
    OBVIOUS
  <2> QED BY <1>3, <2>1
<1>5. ~ (Len(vs) < 3)
  OBVIOUS
<1>6. ParseSet(vs) = IF \/ Len(vs) < 3 \/ \E i \in 1 .. 3 : vs[i][1] # "bulk"
                        \/ vs[1] # Bulk(SetWord) \/ scanned[Len(vs)].wants
                        \/ scanned[Len(vs)].px = NoCommand
                       THEN NoCommand ELSE <<"set", vs[2][2], vs[3][2], scanned[Len(vs)].px>>
  BY Zenon DEF ParseSet
<1> HIDE DEF scanned
<1>7. ParseSet(vs) = IF scanned[n].wants \/ scanned[n].px = NoCommand THEN NoCommand
                     ELSE <<"set", key, val, scanned[n].px>>
  BY <1>3, <1>4, <1>5, <1>6, Zenon
<1> QED BY <1>2, <1>7

(* src/command_parser.rs: a SET of plain words is understood.              *)
LEMMA SetUnderstood ==
  ASSUME NEW S, Letters \subseteq S, NEW m \in PlainSet(S)
  PROVE  ParseSet(Values(m)) = <<"set", m.key, m.val, PxOf(m)>>
<1> DEFINE vs == Values(m)
           n == Len(Words(m))
<1>1. Words(m) \in Seq(Seq(S)) /\ n = (IF m.px = NoPx THEN 3 ELSE 5)
  BY WordsOfSet
<1>2. n \in Nat /\ n >= 3
  BY <1>1
<1>3. vs = [i \in 1 .. n |-> Bulk(Words(m)[i])]
  BY DEF Values
<1>4. Len(vs) = n /\ \A i \in 1 .. n : vs[i] = Bulk(Words(m)[i])
  <2> DEFINE k == n
  <2>1. k \in Nat /\ vs = [i \in 1 .. k |-> Bulk(Words(m)[i])]
    BY <1>2, <1>3
  <2> HIDE DEF k, vs
  <2> QED BY <2>1 DEF k
<1>5. Words(m)[1] = SetWord /\ Words(m)[2] = m.key /\ Words(m)[3] = m.val
  BY DEF Words
<1> HIDE DEF vs
<1>6. vs[1] = Bulk(SetWord) /\ vs[2] = Bulk(m.key) /\ vs[3] = Bulk(m.val)
  <2>1. 1 \in 1 .. n /\ 2 \in 1 .. n /\ 3 \in 1 .. n
    BY <1>2
  <2> QED BY <1>4, <1>5, <2>1
<1>7. NoOption.wants = FALSE /\ NoOption.px = <<"no px">> /\ <<"no px">> # NoCommand
  BY DEF NoOption, NoCommand
<1>8. CASE m.px = NoPx
  <2>1. n = 3
    BY <1>1, <1>8
  <2>2. AreScanned([i \in 3 .. 3 |-> NoOption], vs, 3)
    BY NoOptionScanned
  <2> HIDE DEF n
  <2>3. PICK f : /\ AreScanned(f, vs, 3)
                 /\ ParseSet(vs) = IF f[3].wants \/ f[3].px = NoCommand THEN NoCommand
                                   ELSE <<"set", m.key, m.val, f[3].px>>
    <3>1. 3 \in Nat /\ Len(vs) = 3 /\ 3 >= 3
      BY <1>4, <2>1
    <3> QED BY ONLY <1>6, <2>2, <3>1, SetParsed, ZenonT(60)
  <2>4. f[3] = NoOption
    <3>1. 3 \in 3 .. 3
      OBVIOUS
    <3> QED BY <2>3, <3>1, Zenon DEF AreScanned, NoOption
  <2>5. ParseSet(vs) = <<"set", m.key, m.val, <<"no px">> >>
    BY <1>7, <2>3, <2>4
  <2> QED BY <1>8, <2>5 DEF PxOf, vs
<1>9. CASE m.px # NoPx
  <2> DEFINE d == Decimal[m.px]
             px == m.px
  <2>1. n = 5 /\ px \in Nat
    BY <1>1, <1>9 DEF PlainSet
  <2>2. PICK g : AreScanned(g, vs, 5)
    BY TwoOptionsScanned
  <2>3. Words(m)[4] = PxWord /\ Words(m)[5] = d
    BY <1>9 DEF Words
  <2>4. vs[4] = Bulk(PxWord) /\ vs[5] = Bulk(d)
    <3>1. 4 \in 1 .. n /\ 5 \in 1 .. n
      BY <2>1
    <3> QED BY <1>4, <2>3, <3>1
  <2> HIDE DEF n
  <2>5. PICK f : /\ AreScanned(f, vs, 5)
                 /\ ParseSet(vs) = IF f[5].wants \/ f[5].px = NoCommand THEN NoCommand
                                   ELSE <<"set", m.key, m.val, f[5].px>>
    <3>1. 5 \in Nat /\ Len(vs) = 5 /\ 5 >= 3
      BY <1>4, <2>1
    <3> QED BY ONLY <1>6, <2>2, <3>1, SetParsed, ZenonT(60)
  <2>6. f[3] = NoOption /\ f[4] = ScanOption(f[3], vs[4]) /\ f[5] = ScanOption(f[4], vs[5])
    <3>1. 3 \in 3 .. 5 /\ 4 \in 3 .. 5 /\ 5 \in 3 .. 5 /\ 4 # 3 /\ 5 # 3 /\ 4 - 1 = 3 /\ 5 - 1 = 4
      OBVIOUS
    <3>2. f = [i \in 3 .. 5 |-> IF i = 3 THEN NoOption ELSE ScanOption(f[i - 1], vs[i])]
      BY <2>5, Zenon DEF AreScanned, NoOption
    <3>3. f[3] = NoOption
      BY <3>1, <3>2, Zenon
    <3>4. f[4] = ScanOption(f[4 - 1], vs[4])
      BY <3>1, <3>2, Zenon
    <3>5. f[5] = ScanOption(f[5 - 1], vs[5])
      BY <3>1, <3>2, Zenon
    <3> QED BY <3>1, <3>3, <3>4, <3>5
  <2>7. vs[4][1] = "bulk" /\ vs[4][2] = PxWord /\ vs[5][1] = "bulk" /\ vs[5][2] = d
    BY <2>4 DEF Bulk
  <2>8. f[4] = [wants |-> TRUE, px |-> <<"no px">>]
    <3> DEFINE acc == f[3]
               v == vs[4]
    <3>1. acc.px # NoCommand /\ v[1] = "bulk" /\ ~ acc.wants /\ v[2] = PxWord
      BY <1>7, <2>6, <2>7
    <3>2. acc = [wants |-> FALSE, px |-> <<"no px">>]
      BY <2>6 DEF NoOption
    <3> HIDE DEF acc, v
    <3>3. ScanOption(acc, v) = [acc EXCEPT !.wants = v[2] = PxWord]
      BY <3>1 DEF ScanOption
    <3>4. ScanOption(acc, v) = [wants |-> TRUE, px |-> <<"no px">>]
      BY <3>1, <3>2, <3>3
    <3> QED BY <2>6, <3>4 DEF acc, v
  <2>9. d \in Seq(DigitChars) /\ Len(d) \in Nat \ {0} /\ IsInt(d) /\ IntOf(d) = px
    BY <2>1, DecimalFacts, DecimalIsInt
  <2> HIDE DEF d, px
  <2>10. d[1] # "-"
    <3>1. 1 \in 1 .. Len(d)
      BY <2>9
    <3>2. d[1] \in DigitChars
      BY <2>9, <3>1, ElementOfSeq
    <3> QED BY <3>2 DEF DigitChars, Digits, Range
  <2>11. f[5] = [wants |-> FALSE, px |-> <<"px", px>>]
    <3> DEFINE acc == f[4]
               v == vs[5]
    <3>1. acc.px # NoCommand /\ v[1] = "bulk" /\ acc.wants /\ v[2] = d
      <4>1. acc = [wants |-> TRUE, px |-> <<"no px">>]
        BY <2>8
      <4> HIDE DEF acc
      <4>2. acc.wants
        BY <4>1
      <4>3. acc.px = <<"no px">>
        BY <4>1
      <4> QED BY <1>7, <2>7, <4>2, <4>3
    <3> HIDE DEF acc, v
    <3>2. ScanOption(acc, v) = [wants |-> FALSE, px |-> <<"px", IntOf(v[2])>>]
      BY <2>9, <2>10, <3>1 DEF ScanOption
    <3> QED BY <2>6, <2>9, <3>1, <3>2 DEF acc, v
  <2>12. <<"px", px>> # NoCommand
    BY DEF NoCommand
  <2>13. ParseSet(vs) = <<"set", m.key, m.val, <<"px", px>> >>
    BY <2>5, <2>11, <2>12
  <2> QED BY <1>9, <2>13 DEF PxOf, vs, px
<1> QED BY <1>8, <1>9

(* README.md:9, for words that do not look like headers: any key and value *)
(* can be stored with SET, of any length and with any deadline.            *)
THEOREM PlainSetsAreUnderstood ==
  ASSUME NEW S, Letters \subseteq S, PlainStreams(S)
  PROVE  Spec => []SetIsUnderstood
<1>1. Reading => SetIsUnderstood
  <2> SUFFICES ASSUME Reading, NEW i \in DOMAIN stream
               PROVE  LET request == Parse(TextOf(stream[i]))
                      IN  request[1] = "array" /\ ParseSet(request[2]) = CommandOf(stream[i], TRUE)
    BY DEF SetIsUnderstood
  <2> DEFINE m == stream[i]
  <2>1. m \in PlainSet(S)
    <3>1. stream \in Seq(PlainSet(S))
      BY DEF Reading, PlainStreams
    <3> QED BY <3>1, ElementOfSeq
  <2> HIDE DEF m
  <2>2. Parse(TextOf(m)) = Array(Values(m))
    BY <2>1, SetReadAlone
  <2>3. ParseSet(Values(m)) = <<"set", m.key, m.val, PxOf(m)>>
    BY <2>1, SetUnderstood
  <2>4. Array(Values(m))[1] = "array" /\ Array(Values(m))[2] = Values(m)
    BY DEF Array
  <2>5. CommandOf(m, TRUE) = <<"set", m.key, m.val, PxOf(m)>>
    BY DEF CommandOf
  <2> QED BY <2>2, <2>3, <2>4, <2>5 DEF m
<1>2. Spec => []Reading
  BY ReadingIsKept
<1> QED BY <1>1, <1>2, PTL
-----------------------------------------------------------------------------
(* parse_multi_array's loop: before the first character, and inside a      *)
(* message that begins at pre, out being what the messages before it hold. *)
Initially == [first |-> TRUE, pre |-> 1, out |-> <<>>, fate |-> Fine]
Inside(pre, out) == [first |-> FALSE, pre |-> pre, out |-> out, fate |-> Fine]

AreTurns(f, s, N) ==
  /\ f = [i \in 0 .. N |-> f[i]]
  /\ f[0] = Initially
  /\ \A i \in 1 .. N : f[i] = AtChar(s, f[i - 1], i)

LEMMA OneTurnMore ==
  ASSUME NEW s, NEW n \in Nat, NEW f, AreTurns(f, s, n)
  PROVE  \E h : AreTurns(h, s, n + 1)
<1> DEFINE x == AtChar(s, f[n], n + 1)
           h == [i \in 0 .. n + 1 |-> IF i = n + 1 THEN x ELSE f[i]]
<1> HIDE DEF x
<1>1. h = [i \in 0 .. n + 1 |-> h[i]]
  OBVIOUS
<1>2. h[n + 1] = x /\ \A i \in 0 .. n : h[i] = f[i]
  OBVIOUS
<1> HIDE DEF h
<1>3. h[0] = Initially
  BY <1>2 DEF AreTurns
<1>4. ASSUME NEW i \in 1 .. n + 1 PROVE h[i] = AtChar(s, h[i - 1], i)
  <2>1. CASE i = n + 1
    <3>1. i - 1 = n /\ h[n] = f[n]
      BY <1>2, <2>1
    <3> QED BY <1>2, <2>1, <3>1, Zenon DEF x
  <2>2. CASE i # n + 1
    <3>1. i \in 1 .. n /\ h[i] = f[i] /\ h[i - 1] = f[i - 1]
      BY <1>2, <2>2
    <3>2. f[i] = AtChar(s, f[i - 1], i)
      BY <3>1 DEF AreTurns
    <3> QED BY <3>1, <3>2, Zenon
  <2> QED BY <2>1, <2>2
<1>5. AreTurns(h, s, n + 1)
  BY <1>1, <1>3, <1>4 DEF AreTurns
<1> QED BY <1>5

LEMMA LastStarIs ==
  ASSUME NEW s
  PROVE  /\ LastStar(s, 0) = 0
         /\ \A i \in Nat \ {0} :
              LastStar(s, i) = IF s[i] = "*" THEN i ELSE LastStar(s, i - 1)
<1> DEFINE Stars(i) == {0} \cup {b \in 1 .. i : s[b] = "*"}
<1>1. \A i \in Nat : LastStar(s, i) = Max(Stars(i))
  BY DEF LastStar
<1>2. LastStar(s, 0) = 0
  <2>1. Stars(0) \subseteq Nat /\ 0 \in Stars(0) /\ \A m \in Stars(0) : m <= 0
    OBVIOUS
  <2> HIDE DEF Stars
  <2>2. Max(Stars(0)) = 0
    BY <2>1, MaxIsGreatest
  <2> QED BY <1>1, <2>2
<1>3. ASSUME NEW i \in Nat \ {0}, s[i] = "*" PROVE LastStar(s, i) = i
  <2>1. Stars(i) \subseteq Nat /\ i \in Stars(i) /\ \A m \in Stars(i) : m <= i
    BY <1>3
  <2> HIDE DEF Stars
  <2>2. Max(Stars(i)) = i
    BY <2>1, MaxIsGreatest
  <2> QED BY <1>1, <2>2
<1>4. ASSUME NEW i \in Nat \ {0}, s[i] # "*" PROVE LastStar(s, i) = LastStar(s, i - 1)
  <2>1. Stars(i) = Stars(i - 1)
    <3>1. \A b \in 1 .. i : b \in 1 .. i - 1 \/ b = i
      OBVIOUS
    <3>2. \A b \in 1 .. i - 1 : b \in 1 .. i
      OBVIOUS
    <3> QED BY <1>4, <3>1, <3>2, Zenon
  <2>2. i - 1 \in Nat
    OBVIOUS
  <2> HIDE DEF Stars
  <2> QED BY <1>1, <2>1, <2>2
<1> QED BY <1>2, <1>3, <1>4

LEMMA NothingToDo ==
  ASSUME NEW s, NEW acc, NEW idx, idx # Len(s), s[idx] # "*"
  PROVE  AtChar(s, acc, idx) = acc
<1>1. AtLast(s, acc, idx) = acc
  BY Zenon DEF AtLast
<1>2. AtStar(s, acc, idx) = acc
  BY DEF AtStar
<1> QED BY <1>1, <1>2, Zenon DEF AtChar

(* The loop goes from one `*' to the next; between them it would do nothing. *)
LEMMA TurnsAreTaken ==
  ASSUME NEW s, Len(s) \in Nat
  PROVE  \E f : AreTurns(f, s, Len(s)) /\ ParseMultiArray(s) = f[Len(s)]
<1> DEFINE N == Len(s)
           Some == {n \in Nat : \E f : AreTurns(f, s, n)}
           T(f, i) == IF i = 0 THEN Initially ELSE AtChar(s, f[LastStar(s, i - 1)], i)
<1>1. 0 \in Some
  <2> DEFINE f == [i \in 0 .. 0 |-> Initially]
  <2>1. f = [i \in 0 .. 0 |-> f[i]] /\ f[0] = Initially /\ \A i \in 1 .. 0 : FALSE
    OBVIOUS
  <2> HIDE DEF f
  <2>2. AreTurns(f, s, 0)
    BY <2>1 DEF AreTurns
  <2> QED BY <2>2
<1>2. ASSUME NEW n \in 0 .. N - 1, n \in Some PROVE n + 1 \in Some
  BY <1>2, OneTurnMore
<1>3. \A n \in 0 .. N : n \in Some
  <2> HIDE DEF Some
  <2> QED BY <1>1, <1>2, StepByStep
<1>4. PICK g : AreTurns(g, s, N)
  BY <1>3
<1>5. \A i \in 0 .. N : i = 0 \/ (i # 0 /\ i \in 1 .. N)
  OBVIOUS
<1>6. g = [i \in 0 .. N |-> T(g, i)]
  <2>1. g = [i \in 0 .. N |-> g[i]] /\ g[0] = Initially
        /\ \A i \in 1 .. N : g[i] = AtChar(s, g[i - 1], i)
    BY <1>4 DEF AreTurns
  <2> DEFINE Good == {i \in 0 .. N : i < N => g[i] = g[LastStar(s, i)]}
  <2>2. 0 \in Good
    BY LastStarIs
  <2>3. ASSUME NEW n \in 0 .. N - 1, n \in Good PROVE n + 1 \in Good
    <3> SUFFICES ASSUME n + 1 < N PROVE g[n + 1] = g[LastStar(s, n + 1)]
      OBVIOUS
    <3> DEFINE i == n + 1
    <3>1. i \in 1 .. N /\ i \in Nat \ {0} /\ i - 1 = n /\ i # N
      OBVIOUS
    <3>2. g[n] = g[LastStar(s, n)]
      BY <2>3
    <3> HIDE DEF i
    <3>3. LastStar(s, i) = IF s[i] = "*" THEN i ELSE LastStar(s, n)
      BY <3>1, LastStarIs
    <3>4. s[i] # "*" => g[i] = g[n]
      <4>1. g[i] = AtChar(s, g[n], i)
        BY <2>1, <3>1
      <4> QED BY <3>1, <4>1, NothingToDo
    <3>5. g[i] = g[LastStar(s, i)]
      BY <3>2, <3>3, <3>4
    <3> QED BY <3>5 DEF i
  <2>4. \A n \in 0 .. N : n \in Good
    <3> HIDE DEF Good
    <3> QED BY <2>2, <2>3, StepByStep
  <2>5. \A i \in 1 .. N : g[i - 1] = g[LastStar(s, i - 1)]
    <3>1. \A i \in 1 .. N : i - 1 \in 0 .. N /\ i - 1 < N
      OBVIOUS
    <3> QED BY <2>4, <3>1
  <2>6. \A i \in 1 .. N : g[i] = AtChar(s, g[LastStar(s, i - 1)], i)
    BY <2>1, <2>5, Zenon
  <2>7. \A i \in 0 .. N : g[i] = T(g, i)
    BY <1>5, <2>1, <2>6, Zenon
  <2> QED BY <2>1, <2>7, Zenon
<1> DEFINE loop[idx \in 0 .. Len(s)] ==
             IF idx = 0 THEN [first |-> TRUE, pre |-> 1, out |-> <<>>, fate |-> Fine]
             ELSE AtChar(s, loop[LastStar(s, idx - 1)], idx)
           IsF(f) == f = [idx \in 0 .. Len(s) |->
                            IF idx = 0 THEN [first |-> TRUE, pre |-> 1, out |-> <<>>, fate |-> Fine]
                            ELSE AtChar(s, f[LastStar(s, idx - 1)], idx)]
<1>7. IsF(g)
  BY <1>6, Zenon DEF Initially
<1>8. loop = CHOOSE f : IsF(f)
  OBVIOUS
<1>9. ParseMultiArray(s) = loop[Len(s)]
  BY Zenon DEF ParseMultiArray
<1> HIDE DEF loop
<1>10. IsF(loop)
  <2> HIDE DEF IsF
  <2> QED BY <1>7, <1>8, Zenon
<1>11. AreTurns(loop, s, N)
  <2>1. loop = [i \in 0 .. N |-> T(loop, i)]
    BY <1>10, Zenon DEF Initially
  <2>2. \A i \in 0 .. N : loop[i] = T(loop, i)
    BY <2>1, Zenon
  <2>3. loop = [i \in 0 .. N |-> loop[i]]
    BY <2>1, <2>2, Zenon
  <2>4. 0 \in 0 .. N /\ \A i \in 1 .. N : i \in 0 .. N /\ i # 0
    OBVIOUS
  <2>5. loop[0] = Initially
    BY <2>2, <2>4, Zenon
  <2>6. \A i \in 1 .. N : loop[i] = AtChar(s, loop[LastStar(s, i - 1)], i)
    BY <2>2, <2>4, Zenon
  <2>7. ASSUME NEW i \in 0 .. N, i # N PROVE loop[LastStar(s, i)] = loop[i]
    <3>1. CASE i = 0
      BY <3>1, LastStarIs
    <3>2. CASE i # 0
      <4>1. i \in 1 .. N /\ i \in Nat \ {0}
        BY <3>2
      <4>2. LastStar(s, i) = IF s[i] = "*" THEN i ELSE LastStar(s, i - 1)
        BY <4>1, LastStarIs
      <4>3. s[i] # "*" => loop[i] = loop[LastStar(s, i - 1)]
        <5>1. loop[i] = AtChar(s, loop[LastStar(s, i - 1)], i)
          BY <2>6, <4>1
        <5> QED BY <2>7, <5>1, NothingToDo
      <4> QED BY <4>2, <4>3
    <3> QED BY <3>1, <3>2
  <2>8. \A i \in 1 .. N : loop[i] = AtChar(s, loop[i - 1], i)
    <3>1. \A i \in 1 .. N : i - 1 \in 0 .. N /\ i - 1 # N
      OBVIOUS
    <3>2. \A i \in 1 .. N : loop[LastStar(s, i - 1)] = loop[i - 1]
      BY <2>7, <3>1
    <3> QED BY <2>6, <3>2, Zenon
  <2> QED BY <2>3, <2>5, <2>8, Zenon DEF AreTurns
<1> QED BY <1>9, <1>11

(* What one turn does where nothing, a message or the text begins or ends. *)
LEMMA FineIsFine == ~ Failed(Fine)
BY DEF Failed, Fine, Bad, Panic

LEMMA Taken ==
  ASSUME NEW pre, NEW out, NEW v, ~ Failed(v)
  PROVE  Take(Inside(pre, out), v) = Inside(pre, Append(out, v))
BY DEF Take, Inside

LEMMA TurnOver ==
  ASSUME NEW s, NEW pre, NEW out, NEW idx \in Nat, Len(s) \in Nat, idx # Len(s),
         s[idx] = "*" => idx < Len(s) /\ ~ IsDigit(s[idx + 1])
  PROVE  AtChar(s, Inside(pre, out), idx) = Inside(pre, out)
<1> DEFINE acc == Inside(pre, out)
<1>1. acc.fate = Fine
  BY DEF Inside
<1> HIDE DEF acc
<1>2. AtLast(s, acc, idx) = acc
  BY DEF AtLast
<1>3. AtStar(s, acc, idx) = acc
  BY DEF AtStar
<1> QED BY <1>1, <1>2, <1>3, FineIsFine, Zenon DEF AtChar, acc

LEMMA TurnAtMessage ==
  ASSUME NEW s, NEW pre, NEW out, NEW idx \in Nat, Len(s) \in Nat, idx < Len(s),
         s[idx] = "*", IsDigit(s[idx + 1]), ~ Failed(Parse(SubSeq(s, pre, idx - 1)))
  PROVE  AtChar(s, Inside(pre, out), idx) = Inside(idx, Append(out, Parse(SubSeq(s, pre, idx - 1))))
<1> DEFINE acc == Inside(pre, out)
           v == Parse(SubSeq(s, pre, idx - 1))
<1>1. acc.fate = Fine /\ acc.first = FALSE /\ acc.pre = pre
  BY DEF Inside
<1>2. ~ Failed(v) /\ Take(acc, v) = Inside(pre, Append(out, v))
  BY Taken
<1> HIDE DEF acc
<1>3. AtLast(s, acc, idx) = acc
  BY DEF AtLast
<1>4. AtStar(s, acc, idx) = [Take(acc, v) EXCEPT !.pre = idx]
  BY <1>1 DEF AtStar
<1>5. [Take(acc, v) EXCEPT !.pre = idx] = Inside(idx, Append(out, v))
  <2> DEFINE y == Append(out, v)
  <2>1. Take(acc, v) = [first |-> FALSE, pre |-> pre, out |-> y, fate |-> Fine]
    BY <1>2, Zenon DEF Inside
  <2> HIDE DEF y
  <2>2. ASSUME NEW no, NEW f
        PROVE  [[first |-> no, pre |-> pre, out |-> y, fate |-> f] EXCEPT !.pre = idx]
                 = [first |-> no, pre |-> idx, out |-> y, fate |-> f]
    OBVIOUS
  <2> QED BY <2>1, <2>2, Zenon DEF Inside, y
<1> HIDE DEF v
<1> QED BY <1>1, <1>3, <1>4, <1>5, FineIsFine, Zenon DEF AtChar, acc, v

LEMMA TurnAtEnd ==
  ASSUME NEW s, NEW pre, NEW out, s[Len(s)] # "*", ~ Failed(Parse(SubSeq(s, pre, Len(s))))
  PROVE  AtChar(s, Inside(pre, out), Len(s)) = Inside(pre, Append(out, Parse(SubSeq(s, pre, Len(s)))))
<1> DEFINE acc == Inside(pre, out)
           v == Parse(SubSeq(s, pre, Len(s)))
           mid == Inside(pre, Append(out, v))
<1>1. acc.fate = Fine /\ acc.pre = pre /\ mid.fate = Fine
  BY DEF Inside
<1>2. ~ Failed(v) /\ Take(acc, v) = mid
  BY Taken
<1> HIDE DEF acc, mid
<1>3. AtLast(s, acc, Len(s)) = mid
  BY <1>1, <1>2, Zenon DEF AtLast
<1>4. AtStar(s, mid, Len(s)) = mid
  BY DEF AtStar
<1> QED BY <1>1, <1>3, <1>4, FineIsFine, Zenon DEF AtChar, acc, mid, v

LEMMA TurnAtFirst ==
  ASSUME NEW s, Len(s) \in Nat, 1 < Len(s), s[1] = "*", IsDigit(s[2])
  PROVE  AtChar(s, Initially, 1) = Inside(1, <<>>)
<1>1. Initially.fate = Fine /\ Initially.first = TRUE
  BY DEF Initially
<1>2. AtLast(s, Initially, 1) = Initially
  BY DEF AtLast
<1>3. AtStar(s, Initially, 1) = [Initially EXCEPT !.first = FALSE]
  <2> DEFINE acc == Initially
  <2>1. acc.first /\ 1 + 1 = 2
    BY <1>1
  <2> HIDE DEF acc
  <2>2. AtStar(s, acc, 1) = [acc EXCEPT !.first = FALSE]
    BY <2>1 DEF AtStar
  <2> QED BY <2>2 DEF acc
<1>4. [Initially EXCEPT !.first = FALSE] = Inside(1, <<>>)
  <2> DEFINE none == <<>>
  <2>1. Initially = [first |-> TRUE, pre |-> 1, out |-> none, fate |-> Fine]
    BY Zenon DEF Initially
  <2> HIDE DEF none
  <2>2. ASSUME NEW yes, NEW no, NEW f
        PROVE  [[first |-> yes, pre |-> 1, out |-> none, fate |-> f] EXCEPT !.first = no]
                 = [first |-> no, pre |-> 1, out |-> none, fate |-> f]
    OBVIOUS
  <2> QED BY <2>1, <2>2, Zenon DEF Inside, none
<1> QED BY <1>1, <1>2, <1>3, <1>4, FineIsFine, Zenon DEF AtChar
-----------------------------------------------------------------------------
(* What parse_multi_array makes of the first n requests.                   *)
ValueOf(ts) == Array([i \in 1 .. Len(ts) |-> Bulk(ts[i])])
ReadOf(words, n) == [j \in 1 .. n |-> ValueOf(words[j])]

LEMMA ReadOneMore ==
  ASSUME NEW words, NEW n \in Nat
  PROVE  Append(ReadOf(words, n), ValueOf(words[n + 1])) = ReadOf(words, n + 1)
<1> DEFINE V == {ValueOf(words[j]) : j \in 1 .. n + 1}
           a == ReadOf(words, n)
           b == ReadOf(words, n + 1)
           x == ValueOf(words[n + 1])
<1>1. a \in [1 .. n -> V] /\ b \in [1 .. n + 1 -> V] /\ x \in V
  <2>1. \A j \in 1 .. n + 1 : ValueOf(words[j]) \in V
    OBVIOUS
  <2>2. \A j \in 1 .. n : j \in 1 .. n + 1
    OBVIOUS
  <2>3. n + 1 \in 1 .. n + 1
    OBVIOUS
  <2> HIDE DEF V
  <2> QED BY <2>1, <2>2, <2>3, Zenon DEF ReadOf
<1>2. (\A j \in 1 .. n : a[j] = b[j]) /\ b[n + 1] = x
  <2>1. \A j \in 1 .. n : j \in 1 .. n + 1
    OBVIOUS
  <2>2. n + 1 \in 1 .. n + 1
    OBVIOUS
  <2> QED BY <2>1, <2>2, Zenon DEF ReadOf
<1> HIDE DEF V, a, b, x
<1>3. a \in Seq(V) /\ Len(a) = n /\ b \in Seq(V) /\ Len(b) = n + 1
  BY <1>1, TupleIsSeq
<1>4. Append(a, x) \in Seq(V) /\ Len(Append(a, x)) = n + 1
      /\ (\A j \in 1 .. n : Append(a, x)[j] = a[j]) /\ Append(a, x)[n + 1] = x
  BY <1>1, <1>3
<1> DEFINE c == Append(a, x)
<1>5. \A j \in 1 .. n + 1 : c[j] = b[j]
  <2>1. \A j \in 1 .. n + 1 : j \in 1 .. n \/ j = n + 1
    OBVIOUS
  <2> QED BY <1>2, <1>4, <2>1
<1>6. c = b
  <2> HIDE DEF c
  <2>1. c \in Seq(V) /\ b \in Seq(V) /\ Len(c) = Len(b) /\ \A j \in 1 .. Len(c) : c[j] = b[j]
    BY <1>3, <1>4, <1>5 DEF c
  <2> QED BY ONLY <2>1, Extensional
<1> QED BY <1>6 DEF a, b, c, x

(* The characters of a request by which the loop tells where it begins.    *)
LEMMA RequestChars ==
  ASSUME NEW S, Symbols \subseteq S, NEW ts, IsRequest(ts, S), NEW t, t = ArrayText(ts)
  PROVE  /\ t \in Seq(S) /\ Len(t) \in Nat /\ Len(t) >= 2
         /\ t[1] = "*" /\ IsDigit(t[2])
         /\ \A i \in 2 .. Len(t) : t[i] = "*" => i < Len(t) /\ ~ IsDigit(t[i + 1])
<1>1. ts \in Seq(Seq(S)) /\ (\A i \in 1 .. Len(ts) : Starless(ts[i])) /\ Len(ts) \in Nat
  BY DEF IsRequest
<1>2. /\ t \in Seq(S) /\ Len(t) \in Nat \ {0}
      /\ \A i \in 2 .. Len(t) : t[i] = "*" => i < Len(t) /\ NotNumber(t[i + 1])
  BY <1>1, NoArrayInside
<1>3. \A ch : NotNumber(ch) => ~ IsDigit(ch)
  BY DEF NotNumber, IsDigit, DigitChars
<1> DEFINE h == Header("*", Len(ts))
           d == Decimal[Len(ts)]
           b == FlattenSeq(Bulks(ts))
           a == h \o CrLf
<1>4. /\ h \in Seq(S) /\ Len(h) \in Nat /\ Len(h) >= 2 /\ h[1] = "*" /\ Tail(h) = d
  BY <1>1, HeaderFacts
<1>5. d \in Seq(DigitChars) /\ Len(d) \in Nat \ {0}
  BY <1>1, DecimalFacts
<1>6. b \in Seq(S)
  BY <1>1, BulksAreTexts, Flattened
<1>7. t = a \o b
  BY DEF ArrayText, Header, Bulks
<1>8. CrLf \in Seq(S)
  BY CrLfIsText
<1> HIDE DEF h, d, b
<1>9. IsDigit(h[2])
  <2>1. d[1] \in DigitChars
    BY <1>5
  <2>2. Tail(h)[1] = h[2]
    BY <1>4
  <2> QED BY <1>4, <2>1, <2>2 DEF IsDigit, DigitChars
<1>10. /\ a \in Seq(S) /\ Len(a) = Len(h) + Len(CrLf) /\ Len(CrLf) \in Nat
       /\ \A i \in 1 .. Len(h) : a[i] = h[i]
  BY ONLY <1>4, <1>8, Joining
<1> HIDE DEF a
<1>11. /\ Len(a \o b) = Len(a) + Len(b) /\ Len(b) \in Nat
       /\ \A i \in 1 .. Len(a) : (a \o b)[i] = a[i]
  BY ONLY <1>6, <1>10, Joining
<1>12. 1 \in 1 .. Len(h) /\ 2 \in 1 .. Len(h) /\ 1 \in 1 .. Len(a) /\ 2 \in 1 .. Len(a)
  BY <1>4, <1>10
<1>13. (a \o b)[1] = h[1] /\ (a \o b)[2] = h[2]
  BY <1>10, <1>11, <1>12
<1>14. Len(t) >= 2
  BY <1>4, <1>7, <1>10, <1>11
<1>15. t[1] = "*" /\ IsDigit(t[2])
  BY <1>4, <1>7, <1>9, <1>13
<1> QED BY <1>2, <1>3, <1>14, <1>15

LEMMA RequestsRead ==
  ASSUME NEW S, Symbols \subseteq S, NEW ts, IsRequest(ts, S)
  PROVE  Parse(ArrayText(ts)) = ValueOf(ts) /\ ~ Failed(ValueOf(ts))
<1>1. ts \in Seq(Seq(S)) /\ \A i \in 1 .. Len(ts) : Plain(ts[i])
  BY DEF IsRequest
<1>2. Parse(ArrayText(ts)) = ValueOf(ts)
  BY <1>1, WholeRead DEF ValueOf
<1>3. ValueOf(ts)[1] = "array" /\ Bad[1] = "bad" /\ Panic[1] = "panic"
  BY DEF ValueOf, Array, Bad, Panic
<1>4. ValueOf(ts) # Bad /\ ValueOf(ts) # Panic
  BY <1>3
<1> QED BY <1>2, <1>4 DEF Failed
-----------------------------------------------------------------------------
(* The texts of K requests, one behind the other, make s; o says where     *)
(* each of them ends.                                                      *)
AreBehind(s, o, words, K, S) ==
  /\ s \in Seq(S) /\ K \in Nat \ {0}
  /\ o[0] = 0 /\ o[K] = Len(s)
  /\ \A k \in 0 .. K : o[k] \in Nat /\ o[k] <= Len(s)
  /\ \A k \in 1 .. K :
       /\ IsRequest(words[k], S)
       /\ o[k] = o[k - 1] + Len(ArrayText(words[k]))
       /\ PartOf(s, o[k - 1] + 1, ArrayText(words[k]))

(* One of them, as the loop sees it.                                       *)
IsMessage(s, o, k, N) ==
  /\ o[k - 1] \in Nat /\ o[k] \in Nat /\ o[k - 1] + 2 <= o[k] /\ o[k] <= N
  /\ s[o[k - 1] + 1] = "*" /\ IsDigit(s[o[k - 1] + 2])
  /\ \A i \in o[k - 1] + 2 .. o[k] : s[i] = "*" => i < o[k] /\ ~ IsDigit(s[i + 1])

LEMMA MessagesStand ==
  ASSUME NEW S, Symbols \subseteq S, NEW s, NEW o, NEW words, NEW K, AreBehind(s, o, words, K, S),
         NEW k \in 1 .. K
  PROVE  /\ IsMessage(s, o, k, Len(s))
         /\ SubSeq(s, o[k - 1] + 1, o[k]) = ArrayText(words[k])
<1> DEFINE t == ArrayText(words[k])
           a == o[k - 1]
           b == o[k]
<1>1. /\ s \in Seq(S) /\ Len(s) \in Nat /\ K \in Nat /\ a \in Nat /\ b \in Nat /\ b <= Len(s)
      /\ b = a + Len(t) /\ PartOf(s, a + 1, t) /\ IsRequest(words[k], S)
  <2>1. K \in Nat /\ k \in 0 .. K /\ k - 1 \in 0 .. K
    BY DEF AreBehind
  <2> QED BY <2>1 DEF AreBehind
<1>2. /\ t \in Seq(S) /\ Len(t) \in Nat /\ Len(t) >= 2
      /\ t[1] = "*" /\ IsDigit(t[2])
      /\ \A i \in 2 .. Len(t) : t[i] = "*" => i < Len(t) /\ ~ IsDigit(t[i + 1])
  BY <1>1, RequestChars
<1> HIDE DEF t, a, b
<1>3. \A j \in 1 .. Len(t) : s[a + j] = t[j]
  <2> SUFFICES ASSUME NEW j \in 1 .. Len(t) PROVE s[a + j] = t[j]
    OBVIOUS
  <2>1. (a + 1) + j - 1 = a + j /\ (a + 1) + j - 1 <= Len(s)
    BY <1>1, <1>2
  <2>2. s[(a + 1) + j - 1] = t[j]
    BY <1>1, <2>1 DEF PartOf
  <2> QED BY <2>1, <2>2
<1>4. s[a + 1] = "*" /\ IsDigit(s[a + 2])
  <2>1. 1 \in 1 .. Len(t) /\ 2 \in 1 .. Len(t)
    BY <1>2
  <2> QED BY <1>2, <1>3, <2>1
<1>5. ASSUME NEW i \in a + 2 .. b, s[i] = "*" PROVE i < b /\ ~ IsDigit(s[i + 1])
  <2>1. PICK j \in 2 .. Len(t) : i = a + j
    <3>1. i - a \in 2 .. Len(t) /\ i = a + (i - a)
      BY <1>1, <1>2
    <3> QED BY <3>1
  <2>2. t[j] = "*"
    BY <1>3, <1>5, <2>1
  <2>3. j < Len(t) /\ ~ IsDigit(t[j + 1])
    BY <1>2, <2>2
  <2>4. j + 1 \in 1 .. Len(t) /\ i + 1 = a + (j + 1) /\ i < b
    BY <1>1, <1>2, <2>1, <2>3
  <2>5. s[i + 1] = t[j + 1]
    BY <1>3, <2>4
  <2> QED BY <2>3, <2>4, <2>5
<1>6. IsMessage(s, o, k, Len(s))
  <2>1. a + 2 <= b
    BY <1>1, <1>2
  <2> QED BY <1>1, <1>4, <1>5, <2>1 DEF IsMessage, a, b
<1>7. SubSeq(s, a + 1, b) = t
  <2> DEFINE u == SubSeq(s, a + 1, b)
  <2>1. u \in Seq(S) /\ Len(u) = b - a /\ \A i \in 1 .. b - a : u[i] = s[a + i]
    <3>1. a <= b
      BY <1>1, <1>2
    <3> QED BY <1>1, <3>1, PieceOf
  <2> HIDE DEF u
  <2>2. b - a = Len(t)
    BY <1>1, <1>2
  <2>3. Len(u) = Len(t) /\ \A i \in 1 .. Len(u) : u[i] = t[i]
    BY <1>3, <2>1, <2>2
  <2>4. u = t
    BY <1>2, <2>1, <2>3, Extensional
  <2> QED BY <2>4 DEF u
<1> QED BY <1>6, <1>7 DEF a, b, t

(* Where the loop is after its first i turns.                              *)
Reached(f, s, o, words, K, i) ==
  \/ i = 0
  \/ \E k \in 1 .. K : /\ o[k - 1] < i /\ i <= o[k] /\ i # Len(s)
                       /\ f[i] = Inside(o[k - 1] + 1, ReadOf(words, k - 1))
  \/ i = Len(s) /\ f[i].fate = Fine /\ f[i].out = ReadOf(words, K)

LEMMA FirstTurn ==
  ASSUME NEW S, Symbols \subseteq S, NEW s, NEW o, NEW words, NEW K, AreBehind(s, o, words, K, S),
         NEW f, AreTurns(f, s, Len(s))
  PROVE  Len(s) >= 2 /\ Reached(f, s, o, words, K, 1)
<1>1. s \in Seq(S) /\ Len(s) \in Nat /\ 1 \in 1 .. K /\ o[0] = 0
  BY DEF AreBehind
<1>2. IsMessage(s, o, 1, Len(s))
  BY <1>1, MessagesStand
<1>3. o[1] \in Nat /\ 2 <= o[1] /\ o[1] <= Len(s) /\ s[1] = "*" /\ IsDigit(s[2])
  <2>1. 1 - 1 = 0
    OBVIOUS
  <2>2. o[0] + 2 <= o[1] /\ o[1] <= Len(s) /\ s[o[0] + 1] = "*" /\ IsDigit(s[o[0] + 2]) /\ o[1] \in Nat
    BY <1>2, <2>1 DEF IsMessage
  <2>3. o[0] + 1 = 1 /\ o[0] + 2 = 2
    BY <1>1
  <2> QED BY <2>2, <2>3
<1>4. f[1] = Inside(1, <<>>)
  <2>1. f[0] = Initially /\ f[1] = AtChar(s, f[1 - 1], 1)
    <3>1. 1 \in 1 .. Len(s)
      BY <1>1, <1>3
    <3> QED BY <3>1 DEF AreTurns
  <2>2. 1 - 1 = 0 /\ 1 < Len(s)
    BY <1>1, <1>3
  <2>3. AtChar(s, Initially, 1) = Inside(1, <<>>)
    BY <1>1, <1>3, <2>2, TurnAtFirst
  <2> QED BY <2>1, <2>2, <2>3
<1>5. ReadOf(words, 0) = <<>>
  <2>1. 1 .. 0 = {}
    OBVIOUS
  <2>2. ReadOf(words, 0) = [j \in {} |-> ValueOf(words[j])]
    BY <2>1, Zenon DEF ReadOf
  <2> QED BY <2>2
<1>6. \E k \in 1 .. K : /\ o[k - 1] < 1 /\ 1 <= o[k] /\ 1 # Len(s)
                        /\ f[1] = Inside(o[k - 1] + 1, ReadOf(words, k - 1))
  <2>1. 1 - 1 = 0 /\ o[0] < 1 /\ 1 <= o[1] /\ 1 # Len(s) /\ o[0] + 1 = 1
    BY <1>1, <1>3
  <2>2. f[1] = Inside(o[0] + 1, ReadOf(words, 0))
    BY <1>4, <1>5, <2>1
  <2> QED BY <1>1, <2>1, <2>2
<1> QED BY <1>1, <1>3, <1>6 DEF Reached

LEMMA NextTurn ==
  ASSUME NEW S, Symbols \subseteq S, NEW s, NEW o, NEW words, NEW K, AreBehind(s, o, words, K, S),
         NEW f, AreTurns(f, s, Len(s)), NEW i \in 1 .. Len(s) - 1, Reached(f, s, o, words, K, i)
  PROVE  Reached(f, s, o, words, K, i + 1)
<1> DEFINE N == Len(s)
           n == i + 1
<1>1. s \in Seq(S) /\ N \in Nat /\ K \in Nat /\ o[K] = N
  BY DEF AreBehind
<1>2. n \in Nat /\ n \in 1 .. N /\ n - 1 = i /\ i \in Nat /\ i < N
  BY <1>1
<1>3. PICK k \in 1 .. K : /\ o[k - 1] < i /\ i <= o[k]
                          /\ f[i] = Inside(o[k - 1] + 1, ReadOf(words, k - 1))
  BY <1>2 DEF Reached
<1> DEFINE a == o[k - 1]
           b == o[k]
           w == ReadOf(words, k - 1)
           v == ValueOf(words[k])
<1>4. IsMessage(s, o, k, N) /\ SubSeq(s, a + 1, b) = ArrayText(words[k])
  <2>1. Symbols \subseteq S /\ AreBehind(s, o, words, K, S) /\ k \in 1 .. K
    OBVIOUS
  <2>2. IsMessage(s, o, k, Len(s)) /\ SubSeq(s, o[k - 1] + 1, o[k]) = ArrayText(words[k])
    BY ONLY <2>1, MessagesStand, SMTT(60)
  <2> QED BY <2>2
<1>5. /\ a \in Nat /\ b \in Nat /\ a + 2 <= b /\ b <= N
      /\ \A j \in a + 2 .. b : s[j] = "*" => j < b /\ ~ IsDigit(s[j + 1])
  BY <1>4 DEF IsMessage
<1>6. f[n] = AtChar(s, Inside(a + 1, w), n)
  <2>1. f[n] = AtChar(s, f[n - 1], n)
    BY <1>2 DEF AreTurns
  <2> QED BY <1>2, <1>3, <2>1, Zenon
<1>7. Parse(SubSeq(s, a + 1, b)) = v /\ ~ Failed(v)
  <2>1. IsRequest(words[k], S)
    BY DEF AreBehind
  <2> QED BY <1>4, <2>1, RequestsRead
<1>8. Append(w, v) = ReadOf(words, k)
  <2> DEFINE m == k - 1
  <2>1. m \in Nat /\ m + 1 = k
    BY <1>1
  <2> HIDE DEF m
  <2>2. Append(ReadOf(words, m), ValueOf(words[m + 1])) = ReadOf(words, m + 1)
    BY <2>1, ReadOneMore
  <2> QED BY <2>1, <2>2 DEF m
<1>9. ASSUME k # K PROVE IsMessage(s, o, k + 1, N)
  <2>1. k + 1 \in 1 .. K
    BY <1>1, <1>9
  <2> QED BY <2>1, MessagesStand
<1> HIDE DEF N, a, b, w, v
(* The text ends.                                                          *)
<1>10. CASE n = N
  <2>1. k = K
    <3> SUFFICES ASSUME k # K PROVE FALSE
      OBVIOUS
    <3>1. b \in Nat /\ b + 2 <= o[k + 1] /\ o[k + 1] <= N /\ o[k + 1] \in Nat
      <4>1. k + 1 - 1 = k
        BY <1>1
      <4> QED BY <1>9, <4>1 DEF IsMessage, b
    <3> QED BY <1>2, <1>3, <1>10, <3>1 DEF b
  <2>2. b = N
    BY <1>1, <2>1 DEF b
  <2>3. s[N] # "*"
    <3>1. N \in a + 2 .. b
      BY <1>1, <1>5, <2>2
    <3> QED BY <1>5, <2>2, <3>1
  <2>4. AtChar(s, Inside(a + 1, w), Len(s)) = Inside(a + 1, Append(w, Parse(SubSeq(s, a + 1, Len(s)))))
    <3>1. s[Len(s)] # "*" /\ ~ Failed(Parse(SubSeq(s, a + 1, Len(s))))
      BY <1>7, <2>2, <2>3 DEF N
    <3> QED BY <3>1, TurnAtEnd
  <2>5. Append(w, Parse(SubSeq(s, a + 1, Len(s)))) = ReadOf(words, K)
    BY <1>7, <1>8, <2>1, <2>2 DEF N
  <2>6. f[n] = Inside(a + 1, ReadOf(words, K))
    BY <1>6, <1>10, <2>4, <2>5 DEF N
  <2>7. f[n].fate = Fine /\ f[n].out = ReadOf(words, K)
    BY <2>6 DEF Inside
  <2> QED BY <1>10, <2>7 DEF Reached, N
(* The message goes on.                                                    *)
<1>11. CASE n # N /\ n <= b
  <2>1. n \in a + 2 .. b
    BY <1>2, <1>3, <1>5, <1>11 DEF a
  <2>2. s[n] = "*" => n < Len(s) /\ ~ IsDigit(s[n + 1])
    BY <1>1, <1>5, <2>1 DEF N
  <2>3. AtChar(s, Inside(a + 1, w), n) = Inside(a + 1, w)
    <3>1. n # Len(s) /\ Len(s) \in Nat
      BY <1>1, <1>11 DEF N
    <3> HIDE DEF n
    <3> QED BY <1>2, <2>2, <3>1, TurnOver
  <2>4. \E m \in 1 .. K : /\ o[m - 1] < n /\ n <= o[m] /\ n # Len(s)
                          /\ f[n] = Inside(o[m - 1] + 1, ReadOf(words, m - 1))
    <3>1. o[k - 1] < n /\ n <= o[k] /\ n # Len(s)
      BY <1>2, <1>3, <1>5, <1>11 DEF a, b, N
    <3>2. f[n] = Inside(o[k - 1] + 1, ReadOf(words, k - 1))
      BY <1>6, <2>3 DEF a, w
    <3> QED BY <3>1, <3>2
  <2> QED BY <2>4 DEF Reached
(* The next message begins.                                                *)
<1>12. CASE n # N /\ n > b
  <2>1. i = b /\ n = b + 1
    BY <1>2, <1>3, <1>5, <1>12 DEF b
  <2>2. k # K
    BY <1>1, <1>2, <2>1 DEF b
  <2>3. /\ s[b + 1] = "*" /\ IsDigit(s[b + 2]) /\ b + 2 <= o[k + 1] /\ o[k + 1] <= N
        /\ o[k + 1] \in Nat
    <3>1. k + 1 - 1 = k
      BY <1>1
    <3> QED BY <1>9, <2>2, <3>1 DEF IsMessage, b
  <2>4. s[n] = "*" /\ IsDigit(s[n + 1]) /\ n < Len(s) /\ Len(s) \in Nat /\ n - 1 = b
    <3>1. n + 1 = b + 2 /\ n < N /\ n - 1 = b
      BY <1>1, <1>5, <2>1, <2>3
    <3> QED BY <1>1, <2>1, <2>3, <3>1 DEF N
  <2>5. AtChar(s, Inside(a + 1, w), n) = Inside(n, Append(w, Parse(SubSeq(s, a + 1, n - 1))))
    <3>1. ~ Failed(Parse(SubSeq(s, a + 1, n - 1)))
      BY <1>7, <2>4
    <3> HIDE DEF n
    <3> QED BY <1>2, <2>4, <3>1, TurnAtMessage
  <2>6. f[n] = Inside(b + 1, ReadOf(words, k))
    BY <1>6, <1>7, <1>8, <2>1, <2>4, <2>5
  <2>7. \E m \in 1 .. K : /\ o[m - 1] < n /\ n <= o[m] /\ n # Len(s)
                          /\ f[n] = Inside(o[m - 1] + 1, ReadOf(words, m - 1))
    <3>1. k + 1 \in 1 .. K /\ (k + 1) - 1 = k
      BY <1>1, <2>2
    <3>2. o[k] < n /\ n <= o[k + 1] /\ n # Len(s)
      BY <1>5, <1>12, <2>1, <2>3 DEF b, N
    <3>3. f[n] = Inside(o[k] + 1, ReadOf(words, k))
      BY <2>6 DEF b
    <3> DEFINE m == k + 1
    <3>4. m \in 1 .. K /\ m - 1 = k /\ n <= o[m]
      BY <3>1, <3>2
    <3> HIDE DEF m
    <3> QED BY <3>2, <3>3, <3>4
  <2> QED BY <2>7 DEF Reached
<1> QED BY <1>1, <1>2, <1>5, <1>10, <1>11, <1>12

(* src/parser.rs:23-48: whole requests, one behind the other, are each     *)
(* read, and nothing else is.                                              *)
LEMMA ManyRead ==
  ASSUME NEW S, Symbols \subseteq S, NEW s, NEW o, NEW words, NEW K, AreBehind(s, o, words, K, S)
  PROVE  ParseMultiArray(s).fate = Fine /\ ParseMultiArray(s).out = ReadOf(words, K)
<1> DEFINE N == Len(s)
<1>1. N \in Nat
  BY DEF AreBehind
<1>2. PICK f : AreTurns(f, s, N) /\ ParseMultiArray(s) = f[N]
  BY <1>1, TurnsAreTaken
<1>3. N >= 2 /\ Reached(f, s, o, words, K, 1)
  BY <1>2, FirstTurn
<1> DEFINE Good == {i \in 0 .. N : Reached(f, s, o, words, K, i)}
<1>4. 0 \in Good
  BY <1>1 DEF Reached
<1>5. ASSUME NEW i \in 0 .. N - 1, i \in Good PROVE i + 1 \in Good
  <2>1. i + 1 \in 0 .. N
    BY <1>1
  <2>2. CASE i = 0
    BY <1>3, <2>1, <2>2
  <2>3. CASE i # 0
    <3>1. i \in 1 .. Len(s) - 1 /\ Reached(f, s, o, words, K, i)
      BY <1>1, <1>5, <2>3
    <3>2. Reached(f, s, o, words, K, i + 1)
      BY <1>2, <3>1, NextTurn
    <3> QED BY <2>1, <3>2
  <2> QED BY <2>2, <2>3
<1>6. \A i \in 0 .. N : i \in Good
  <2> HIDE DEF Good, N
  <2> QED BY <1>1, <1>4, <1>5, StepByStep
<1>7. Reached(f, s, o, words, K, N)
  <2>1. N \in 0 .. N
    BY <1>1
  <2> QED BY <1>6, <2>1
<1>8. f[N].fate = Fine /\ f[N].out = ReadOf(words, K)
  BY <1>3, <1>7 DEF Reached
<1> QED BY <1>2, <1>8
-----------------------------------------------------------------------------
(* SETs of plain words in which an asterisk stands before no number: what  *)
(* parse_multi_array splits a chunk at are the messages only.              *)
StarlessStreams(S) ==
  \A s \in Streams :
    s \in Seq(PlainSet(S)) /\ \A i \in 1 .. Len(s) : Starless(s[i].key) /\ Starless(s[i].val)

LEMMA NoStar ==
  ASSUME NEW w, Len(w) \in Nat, \A i \in 1 .. Len(w) : w[i] # "*"
  PROVE  Starless(w)
<1>1. \A i \in 1 .. Len(w) - 1 : i \in 1 .. Len(w)
  OBVIOUS
<1> QED BY <1>1 DEF Starless

LEMMA RequestOfSet ==
  ASSUME NEW S, Letters \subseteq S, NEW m \in PlainSet(S), Starless(m.key), Starless(m.val)
  PROVE  IsRequest(Words(m), S) /\ TextOf(m) = ArrayText(Words(m)) /\ ValueOf(Words(m)) = Array(Values(m))
<1> DEFINE ws == Words(m)
<1>1. /\ ws \in Seq(Seq(S)) /\ Len(ws) = (IF m.px = NoPx THEN 3 ELSE 5)
      /\ \A i \in 1 .. Len(ws) : Plain(ws[i])
      /\ TextOf(m) = ArrayText(ws)
  BY WordsOfSet
<1>2. Starless(SetWord) /\ Starless(PxWord)
  <2>1. Len(SetWord) = 3 /\ SetWord[1] = "s" /\ SetWord[2] = "e" /\ SetWord[3] = "t"
    BY DEF SetWord
  <2>2. Len(PxWord) = 2 /\ PxWord[1] = "p" /\ PxWord[2] = "x"
    BY DEF PxWord
  <2>3. \A i \in 1 .. 3 : i = 1 \/ i = 2 \/ i = 3
    OBVIOUS
  <2>4. \A i \in 1 .. 2 : i = 1 \/ i = 2
    OBVIOUS
  <2>5. \A i \in 1 .. Len(SetWord) : SetWord[i] # "*"
    BY <2>1, <2>3
  <2>6. \A i \in 1 .. Len(PxWord) : PxWord[i] # "*"
    BY <2>2, <2>4
  <2>7. Len(SetWord) \in Nat /\ Len(PxWord) \in Nat
    BY <2>1, <2>2
  <2> QED BY <2>5, <2>6, <2>7, NoStar
<1>3. ASSUME NEW n \in Nat PROVE Starless(Decimal[n])
  <2> DEFINE d == Decimal[n]
  <2>1. d \in Seq(DigitChars) /\ Len(d) \in Nat
    BY DecimalFacts
  <2> HIDE DEF d
  <2>2. "*" \notin DigitChars
    BY DigitsAre
  <2>3. \A i \in 1 .. Len(d) : d[i] # "*"
    BY <2>1, <2>2, ElementOfSeq
  <2>4. Starless(d)
    BY <2>1, <2>3, NoStar
  <2> QED BY <2>4 DEF d
<1>4. ws[1] = SetWord /\ ws[2] = m.key /\ ws[3] = m.val
      /\ (m.px # NoPx => ws[4] = PxWord /\ ws[5] = Decimal[m.px] /\ m.px \in Nat)
  BY DEF Words, PlainSet
<1> HIDE DEF ws
<1>5. ASSUME NEW i \in 1 .. Len(ws) PROVE Starless(ws[i])
  <2>1. CASE m.px = NoPx
    <3>1. i = 1 \/ i = 2 \/ i = 3
      BY <1>1, <2>1
    <3> QED BY <1>2, <1>4, <3>1
  <2>2. CASE m.px # NoPx
    <3>1. i = 1 \/ i = 2 \/ i = 3 \/ i = 4 \/ i = 5
      BY <1>1, <2>2
    <3>2. Starless(Decimal[m.px])
      BY <1>3, <1>4, <2>2
    <3> QED BY <1>2, <1>4, <2>2, <3>1, <3>2
  <2> QED BY <2>1, <2>2
<1>6. IsRequest(ws, S)
  BY <1>1, <1>5 DEF IsRequest
<1>7. ValueOf(ws) = Array(Values(m))
  BY Zenon DEF ValueOf, Values, ws
<1> QED BY <1>1, <1>6, <1>7 DEF ws

(* What is executed of a request.                                          *)
LEMMA OneCommand ==
  ASSUME NEW S, Letters \subseteq S, NEW m \in PlainSet(S)
  PROVE  CommandsIn(Array(Values(m))) = <<CommandOf(m, TRUE)>>
<1> DEFINE c == CommandOf(m, TRUE)
           x == Values(m)
<1>1. ParseSet(x) = c
  BY SetUnderstood DEF CommandOf
<1>2. c # NoCommand
  <2>1. c[1] = "set" /\ NoCommand[1] = "none"
    BY DEF CommandOf, NoCommand
  <2> QED BY <2>1
<1>3. Array(x)[1] = "array" /\ Array(x)[2] = x
  BY DEF Array
<1> HIDE DEF c, x
<1>4. CommandsIn(Array(x)) = <<c>>
  BY <1>1, <1>2, <1>3, Zenon DEF CommandsIn
<1> QED BY <1>4 DEF c, x

(* Sequences of one element each, joined.                                  *)
LEMMA SinglesJoined ==
  ASSUME NEW C, NEW n \in Nat, NEW c \in [1 .. n -> C]
  PROVE  FlattenSeq([i \in 1 .. n |-> <<c[i]>>]) = c /\ c \in Seq(C) /\ Len(c) = n
<1> DEFINE seqs == [i \in 1 .. n |-> <<c[i]>>]
           f == FlattenSeq(seqs)
<1>1. c \in Seq(C) /\ Len(c) = n
  BY TupleIsSeq
<1>2. \A i \in 1 .. n : c[i] \in C /\ <<c[i]>> \in Seq(C) /\ Len(<<c[i]>>) = 1 /\ <<c[i]>>[1] = c[i]
  OBVIOUS
<1>3. seqs \in [1 .. n -> Seq(C)] /\ \A i \in 1 .. n : seqs[i] = <<c[i]>>
  BY <1>2
<1> HIDE DEF seqs
<1>4. seqs \in Seq(Seq(C)) /\ Len(seqs) = n
  BY <1>3, TupleIsSeq
<1>5. /\ f \in Seq(C) /\ Offset(seqs, 0) = 0 /\ Offset(seqs, n) = Len(f)
      /\ \A k \in 0 .. n : Offset(seqs, k) \in Nat /\ Offset(seqs, k) <= Len(f)
      /\ \A k \in 1 .. n : /\ Offset(seqs, k) = Offset(seqs, k - 1) + Len(seqs[k])
                           /\ PartOf(f, Offset(seqs, k - 1) + 1, seqs[k])
  BY <1>4, Flattened
<1> HIDE DEF f
<1>6. \A k \in 0 .. n : Offset(seqs, k) = k
  <2> DEFINE Good == {k \in 0 .. n : Offset(seqs, k) = k}
  <2>1. 0 \in Good
    BY <1>5
  <2>2. ASSUME NEW k \in 0 .. n - 1, k \in Good PROVE k + 1 \in Good
    <3> DEFINE l == k + 1
    <3>1. l \in 1 .. n /\ l - 1 = k /\ Offset(seqs, k) = k /\ l \in 0 .. n
      BY <2>2
    <3> HIDE DEF l
    <3>2. Offset(seqs, l) = Offset(seqs, l - 1) + Len(seqs[l]) /\ Len(seqs[l]) = 1
      BY <1>2, <1>3, <1>5, <3>1
    <3>3. Offset(seqs, l) = k + 1
      BY <3>1, <3>2
    <3> QED BY <3>1, <3>3 DEF l
  <2>3. \A k \in 0 .. n : k \in Good
    <3> HIDE DEF Good
    <3> QED BY <2>1, <2>2, StepByStep
  <2> QED BY <2>3
<1>7. Len(f) = n
  BY <1>5, <1>6
<1>8. ASSUME NEW k \in 1 .. n PROVE f[k] = c[k]
  <2>1. PartOf(f, Offset(seqs, k - 1) + 1, seqs[k]) /\ Offset(seqs, k - 1) = k - 1
    <3>1. k - 1 \in 0 .. n
      OBVIOUS
    <3> QED BY <1>5, <1>6, <3>1
  <2>2. 1 \in 1 .. Len(seqs[k]) /\ seqs[k][1] = c[k]
    BY <1>2, <1>3
  <2>3. (Offset(seqs, k - 1) + 1) + 1 - 1 = k /\ k <= Len(f)
    BY <1>7, <2>1
  <2> QED BY <2>1, <2>2, <2>3 DEF PartOf
<1>9. f = c
  BY <1>1, <1>5, <1>7, <1>8, Extensional
<1> QED BY <1>1, <1>9 DEF f, seqs

AreStarless(ms, K, S) ==
  \A j \in 1 .. K : ms[j] \in PlainSet(S) /\ Starless(ms[j].key) /\ Starless(ms[j].val)
WordsOf(ms, K) == [j \in 1 .. K |-> Words(ms[j])]
CommandsOf(ms, K) == [j \in 1 .. K |-> CommandOf(ms[j], TRUE)]

LEMMA ManyCommands ==
  ASSUME NEW S, Letters \subseteq S, NEW ms, NEW K \in Nat, AreStarless(ms, K, S)
  PROVE  Commands(ReadOf(WordsOf(ms, K), K)) = CommandsOf(ms, K) /\ Len(CommandsOf(ms, K)) = K
<1> DEFINE words == [j \in 1 .. K |-> Words(ms[j])]
           cmds == [j \in 1 .. K |-> CommandOf(ms[j], TRUE)]
           out == ReadOf(words, K)
           C == {CommandOf(ms[j], TRUE) : j \in 1 .. K}
<1>1. DOMAIN out = 1 .. K /\ \A j \in 1 .. K : out[j] = ValueOf(words[j])
  BY Zenon DEF ReadOf
<1>2. \A j \in 1 .. K : words[j] = Words(ms[j]) /\ cmds[j] = CommandOf(ms[j], TRUE)
  OBVIOUS
<1>3. cmds \in [1 .. K -> C]
  OBVIOUS
<1> HIDE DEF words, cmds, out, C
<1>4. ASSUME NEW j \in 1 .. K PROVE CommandsIn(out[j]) = <<cmds[j]>>
  <2>1. out[j] = Array(Values(ms[j]))
    BY <1>1, <1>2, RequestOfSet DEF AreStarless
  <2>2. CommandsIn(Array(Values(ms[j]))) = <<CommandOf(ms[j], TRUE)>>
    BY OneCommand DEF AreStarless
  <2> QED BY <1>2, <2>1, <2>2
<1>5. [i \in DOMAIN out |-> CommandsIn(out[i])] = [i \in 1 .. K |-> <<cmds[i]>>]
  BY <1>1, <1>4, Zenon
<1>6. FlattenSeq([i \in 1 .. K |-> <<cmds[i]>>]) = cmds /\ Len(cmds) = K
  BY <1>3, SinglesJoined
<1> QED BY <1>5, <1>6, Zenon DEF Commands, WordsOf, CommandsOf, out, words, cmds
-----------------------------------------------------------------------------
(* How long the text of a SET is.                                          *)
LEMMA SmallWidth ==
  ASSUME NEW n \in 0 .. 9
  PROVE  Width(n) = 1
<1>1. n \in Nat /\ n < 10
  OBVIOUS
<1>2. Decimal[n] = <<Digits[n + 1]>>
  BY <1>1, DecimalIs DEF DecimalStep
<1> QED BY <1>2 DEF Width

LEMMA WidthIsNat ==
  ASSUME NEW n \in Nat
  PROVE  Width(n) \in Nat \ {0} /\ Len(Decimal[n]) = Width(n)
BY DecimalFacts DEF Width

LEMMA BulkLength ==
  ASSUME NEW S, Symbols \subseteq S, NEW t \in Seq(S)
  PROVE  Len(t) \in Nat /\ Width(Len(t)) \in Nat /\ Len(BulkText(t)) = Len(t) + Width(Len(t)) + 5
<1> DEFINE h == Header("$", Len(t))
           one == <<"$">>
           d == Decimal[Len(t)]
           a == h \o CrLf
           b == a \o t
<1>1. Len(t) \in Nat
  OBVIOUS
<1>2. BulkText(t) = b \o CrLf /\ h = one \o d
  BY DEF BulkText, Header
<1>3. CrLf \in Seq(S) /\ Len(CrLf) = 2
  BY CrLfIsText
<1>4. d \in Seq(S) /\ one \in Seq(S) /\ Len(one) = 1
  <2>1. d \in Seq(S) /\ one \in Seq(S)
    BY <1>1, NoArrayInNumber
  <2> QED BY <2>1
<1>5. Len(d) = Width(Len(t)) /\ Width(Len(t)) \in Nat
  BY <1>1, WidthIsNat
<1> HIDE DEF d, one, h
<1>6. h \in Seq(S) /\ Len(h) = 1 + Width(Len(t))
  <2>1. one \o d \in Seq(S) /\ Len(one \o d) = Len(one) + Len(d)
    BY ONLY <1>4, Joining
  <2> QED BY <1>2, <1>4, <1>5, <2>1
<1>7. a \in Seq(S) /\ Len(a) = Len(h) + Len(CrLf)
  BY ONLY <1>3, <1>6, Joining
<1> HIDE DEF a
<1>8. b \in Seq(S) /\ Len(b) = Len(a) + Len(t)
  <2>1. t \in Seq(S)
    OBVIOUS
  <2> QED BY ONLY <1>7, <2>1, Joining
<1> HIDE DEF b
<1>9. Len(b \o CrLf) = Len(b) + Len(CrLf)
  BY ONLY <1>3, <1>8, Joining
<1>10. Len(b \o CrLf) = Len(t) + Width(Len(t)) + 5
  <2> DEFINE w == Width(Len(t))
             l == Len(t)
             lh == Len(h)
             la == Len(a)
             lb == Len(b)
             lc == Len(b \o CrLf)
  <2>1. w \in Nat /\ l \in Nat /\ lh = 1 + w /\ la = lh + 2 /\ lb = la + l /\ lc = lb + 2
    BY <1>1, <1>3, <1>5, <1>6, <1>7, <1>8, <1>9
  <2> HIDE DEF w, l, lh, la, lb, lc
  <2>2. lc = l + w + 5
    BY <2>1
  <2> QED BY <2>2 DEF lc, l, w
<1> QED BY <1>1, <1>2, <1>5, <1>10

(* Of three sequences, and of five.                                        *)
LEMMA LengthOfThree ==
  ASSUME NEW S, NEW seqs \in Seq(Seq(S)), Len(seqs) = 3
  PROVE  Len(FlattenSeq(seqs)) = Len(seqs[1]) + Len(seqs[2]) + Len(seqs[3])
<1>1. /\ Offset(seqs, 0) = 0 /\ Offset(seqs, 3) = Len(FlattenSeq(seqs))
      /\ \A n \in 1 .. 3 : Offset(seqs, n) = Offset(seqs, n - 1) + Len(seqs[n])
  BY Flattened
<1>2. \A n \in 1 .. 3 : Len(seqs[n]) \in Nat
  BY ElementOfSeq
<1>3. 1 \in 1 .. 3 /\ 2 \in 1 .. 3 /\ 3 \in 1 .. 3 /\ 1 - 1 = 0 /\ 2 - 1 = 1 /\ 3 - 1 = 2
  OBVIOUS
<1> QED BY <1>1, <1>2, <1>3

LEMMA LengthOfFive ==
  ASSUME NEW S, NEW seqs \in Seq(Seq(S)), Len(seqs) = 5
  PROVE  Len(FlattenSeq(seqs))
           = Len(seqs[1]) + Len(seqs[2]) + Len(seqs[3]) + Len(seqs[4]) + Len(seqs[5])
<1>1. /\ Offset(seqs, 0) = 0 /\ Offset(seqs, 5) = Len(FlattenSeq(seqs))
      /\ \A n \in 1 .. 5 : Offset(seqs, n) = Offset(seqs, n - 1) + Len(seqs[n])
  BY Flattened
<1>2. \A n \in 1 .. 5 : Len(seqs[n]) \in Nat
  BY ElementOfSeq
<1>3. /\ 1 \in 1 .. 5 /\ 2 \in 1 .. 5 /\ 3 \in 1 .. 5 /\ 4 \in 1 .. 5 /\ 5 \in 1 .. 5
      /\ 1 - 1 = 0 /\ 2 - 1 = 1 /\ 3 - 1 = 2 /\ 4 - 1 = 3 /\ 5 - 1 = 4
  OBVIOUS
<1> QED BY <1>1, <1>2, <1>3

LEMMA ArrayLength ==
  ASSUME NEW S, Symbols \subseteq S, NEW ts \in Seq(Seq(S)), Len(ts) \in 0 .. 9
  PROVE  /\ Bulks(ts) \in Seq(Seq(S)) /\ Len(Bulks(ts)) = Len(ts)
         /\ \A i \in 1 .. Len(ts) :
              /\ Len(ts[i]) \in Nat /\ Width(Len(ts[i])) \in Nat
              /\ Len(Bulks(ts)[i]) = Len(ts[i]) + Width(Len(ts[i])) + 5
         /\ Len(FlattenSeq(Bulks(ts))) \in Nat
         /\ Len(ArrayText(ts)) = 4 + Len(FlattenSeq(Bulks(ts)))
<1> DEFINE one == <<"*">>
           d == Decimal[Len(ts)]
           b == FlattenSeq(Bulks(ts))
           h == one \o d
           a == h \o CrLf
<1>1. Bulks(ts) \in Seq(Seq(S)) /\ Len(Bulks(ts)) = Len(ts)
  BY BulksAreTexts
<1>2. ASSUME NEW i \in 1 .. Len(ts)
      PROVE  /\ Len(ts[i]) \in Nat /\ Width(Len(ts[i])) \in Nat
             /\ Len(Bulks(ts)[i]) = Len(ts[i]) + Width(Len(ts[i])) + 5
  <2>1. ts[i] \in Seq(S) /\ i \in DOMAIN ts
    BY ElementOfSeq
  <2>2. Bulks(ts)[i] = BulkText(ts[i])
    BY <2>1 DEF Bulks
  <2> QED BY <2>1, <2>2, BulkLength
<1>3. b \in Seq(S) /\ Len(b) \in Nat
  BY <1>1, Flattened
<1>4. CrLf \in Seq(S) /\ Len(CrLf) = 2
  BY CrLfIsText
<1>5. d \in Seq(S) /\ Len(d) = 1 /\ one \in Seq(S) /\ Len(one) = 1
  <2>1. d \in Seq(S)
    <3>1. Len(ts) \in Nat
      OBVIOUS
    <3> QED BY <3>1, NoArrayInNumber
  <2>2. Len(d) = 1
    BY SmallWidth DEF Width
  <2>3. "*" \in S
    BY DEF Symbols
  <2> QED BY <2>1, <2>2, <2>3
<1>6. ArrayText(ts) = a \o b
  BY DEF ArrayText, Bulks
<1> HIDE DEF d, b, one
<1>7. h \in Seq(S) /\ Len(h) = Len(one) + Len(d)
  BY ONLY <1>5, Joining
<1> HIDE DEF h
<1>8. a \in Seq(S) /\ Len(a) = Len(h) + Len(CrLf)
  BY ONLY <1>4, <1>7, Joining
<1> HIDE DEF a
<1>9. Len(a \o b) = Len(a) + Len(b)
  BY ONLY <1>3, <1>8, Joining
<1>10. Len(ArrayText(ts)) = 4 + Len(b)
  BY <1>3, <1>4, <1>5, <1>6, <1>7, <1>8, <1>9
<1> QED BY <1>1, <1>2, <1>3, <1>10 DEF b

(* src/main.rs:280-297 against src/utils.rs:11-41: what is counted of a    *)
(* SET is nine less than the length of its text.                           *)
LEMMA TextLength ==
  ASSUME NEW S, Letters \subseteq S, NEW m \in PlainSet(S)
  PROVE  /\ Len(TextOf(m)) \in Nat
         /\ OffsetIncrement(m.key, m.val, PxOf(m)) \in Nat
         /\ Len(TextOf(m)) = OffsetIncrement(m.key, m.val, PxOf(m)) + 9
<1> DEFINE ws == Words(m)
           B == Bulks(ws)
<1>1. Symbols \subseteq S
  BY DEF Letters
<1>2. ws \in Seq(Seq(S)) /\ Len(ws) = (IF m.px = NoPx THEN 3 ELSE 5) /\ TextOf(m) = ArrayText(ws)
  BY WordsOfSet
<1>3. ws[1] = SetWord /\ ws[2] = m.key /\ ws[3] = m.val
      /\ (m.px # NoPx => ws[4] = PxWord /\ ws[5] = Decimal[m.px] /\ m.px \in Nat)
  BY DEF Words, PlainSet
<1>4. Len(SetWord) = 3 /\ Len(PxWord) = 2 /\ Width(3) = 1 /\ Width(2) = 1
  <2>1. 3 \in 0 .. 9 /\ 2 \in 0 .. 9
    OBVIOUS
  <2> QED BY <2>1, SmallWidth DEF SetWord, PxWord
<1> HIDE DEF ws
<1>5. /\ B \in Seq(Seq(S)) /\ Len(B) = Len(ws)
      /\ \A i \in 1 .. Len(ws) :
           /\ Len(ws[i]) \in Nat /\ Width(Len(ws[i])) \in Nat
           /\ Len(B[i]) = Len(ws[i]) + Width(Len(ws[i])) + 5
      /\ Len(FlattenSeq(B)) \in Nat
      /\ Len(ArrayText(ws)) = 4 + Len(FlattenSeq(B))
  <2>1. Len(ws) \in 0 .. 9
    BY <1>2
  <2> QED BY <1>1, <1>2, <2>1, ArrayLength
<1> HIDE DEF B
<1> DEFINE k == Len(m.key)
           v == Len(m.val)
           wk == Width(k)
           wv == Width(v)
<1>6. /\ k \in Nat /\ wk \in Nat /\ v \in Nat /\ wv \in Nat
      /\ Len(B[1]) = 9 /\ Len(B[2]) = k + wk + 5 /\ Len(B[3]) = v + wv + 5
  <2>1. 1 \in 1 .. Len(ws) /\ 2 \in 1 .. Len(ws) /\ 3 \in 1 .. Len(ws)
    BY <1>2
  <2>2. /\ Len(B[1]) = Len(ws[1]) + Width(Len(ws[1])) + 5
        /\ Len(ws[2]) \in Nat /\ Width(Len(ws[2])) \in Nat /\ Len(B[2]) = Len(ws[2]) + Width(Len(ws[2])) + 5
        /\ Len(ws[3]) \in Nat /\ Width(Len(ws[3])) \in Nat /\ Len(B[3]) = Len(ws[3]) + Width(Len(ws[3])) + 5
    BY <1>5, <2>1
  <2>3. Len(ws[1]) = 3 /\ Width(Len(ws[1])) = 1 /\ ws[2] = m.key /\ ws[3] = m.val
    BY <1>3, <1>4
  <2>4. Len(B[1]) = 9
    BY <2>2, <2>3
  <2> QED BY <2>2, <2>3, <2>4, Zenon
<1> DEFINE n == Len(TextOf(m))
           F == Len(FlattenSeq(B))
           inc == OffsetIncrement(m.key, m.val, PxOf(m))
<1>7. F \in Nat /\ n = 4 + F
  BY <1>2, <1>5
<1>8. CASE m.px = NoPx
  <2>1. PxOf(m) = <<"no px">>
    BY <1>8 DEF PxOf
  <2>2. F = Len(B[1]) + Len(B[2]) + Len(B[3])
    BY <1>2, <1>5, <1>8, LengthOfThree
  <2>3. inc = 4 + (k + wk + 5) + (v + wv + 5) + 0
    BY <2>1, Zenon DEF OffsetIncrement
  <2> HIDE DEF n, F, inc, k, v, wk, wv
  <2>4. n \in Nat /\ inc \in Nat /\ n = inc + 9
    BY <1>6, <1>7, <2>2, <2>3
  <2> QED BY <2>4 DEF n, inc
<1>9. CASE m.px # NoPx
  <2> DEFINE p == Width(m.px)
             wp == Width(p)
  <2>1. PxOf(m) = <<"px", m.px>> /\ m.px \in Nat
    BY <1>3, <1>9 DEF PxOf
  <2>2. F = Len(B[1]) + Len(B[2]) + Len(B[3]) + Len(B[4]) + Len(B[5])
    BY <1>2, <1>5, <1>9, LengthOfFive
  <2>3. 4 \in 1 .. Len(ws) /\ 5 \in 1 .. Len(ws)
    BY <1>2, <1>9
  <2>4. /\ Len(B[4]) = Len(ws[4]) + Width(Len(ws[4])) + 5
        /\ Width(Len(ws[5])) \in Nat /\ Len(B[5]) = Len(ws[5]) + Width(Len(ws[5])) + 5
    BY <1>5, <2>3
  <2>5. Len(ws[4]) = 2 /\ Width(Len(ws[4])) = 1 /\ ws[5] = Decimal[m.px]
    BY <1>3, <1>4, <1>9
  <2>6. Len(ws[5]) = p /\ p \in Nat
    BY <2>1, <2>5, WidthIsNat
  <2>7. Len(B[4]) = 8 /\ wp \in Nat /\ Len(B[5]) = p + wp + 5
    <3>1. Len(B[4]) = 8
      BY <2>4, <2>5
    <3> QED BY <2>4, <2>6, <3>1, Zenon
  <2>8. <<"px", m.px>> # <<"no px">> /\ <<"px", m.px>>[2] = m.px
    OBVIOUS
  <2>9. PxOf(m) # <<"no px">> /\ PxOf(m)[2] = m.px
    BY <2>1, <2>8, Zenon
  <2>10. inc = 4 + (k + wk + 5) + (v + wv + 5) + (8 + p + wp + 5)
    BY <2>9, Zenon DEF OffsetIncrement
  <2> HIDE DEF n, F, inc, k, v, wk, wv, p, wp
  <2>11. n \in Nat /\ inc \in Nat /\ n = inc + 9
    BY <1>6, <1>7, <2>2, <2>6, <2>7, <2>10
  <2> QED BY <2>11 DEF n, inc
<1> QED BY <1>8, <1>9
-----------------------------------------------------------------------------
(* Sequences of the same lengths, joined, begin in the same places.        *)
LEMMA SameOffsets ==
  ASSUME NEW S, NEW T, NEW seqs \in Seq(Seq(S)), NEW others \in Seq(Seq(T)), Len(seqs) = Len(others),
         \A i \in 1 .. Len(seqs) : Len(seqs[i]) = Len(others[i])
  PROVE  /\ \A k \in 0 .. Len(seqs) : Offset(seqs, k) = Offset(others, k)
         /\ Len(FlattenSeq(seqs)) = Len(FlattenSeq(others))
<1> DEFINE N == Len(seqs)
<1>1. /\ Offset(seqs, 0) = 0 /\ Offset(seqs, N) = Len(FlattenSeq(seqs))
      /\ \A n \in 1 .. N : Offset(seqs, n) = Offset(seqs, n - 1) + Len(seqs[n])
  BY Flattened
<1>2. /\ Offset(others, 0) = 0 /\ Offset(others, N) = Len(FlattenSeq(others))
      /\ \A n \in 1 .. N : Offset(others, n) = Offset(others, n - 1) + Len(others[n])
  BY Flattened
<1>3. N \in Nat
  OBVIOUS
<1> HIDE DEF N
<1> DEFINE Good == {k \in 0 .. N : Offset(seqs, k) = Offset(others, k)}
<1>4. 0 \in Good
  BY <1>1, <1>2, <1>3
<1>5. ASSUME NEW k \in 0 .. N - 1, k \in Good PROVE k + 1 \in Good
  <2> DEFINE l == k + 1
  <2>1. l \in 1 .. N /\ l - 1 = k /\ Offset(seqs, k) = Offset(others, k) /\ l \in 0 .. N
    BY <1>3, <1>5
  <2> HIDE DEF l
  <2>2. Len(seqs[l]) = Len(others[l])
    BY <2>1 DEF N
  <2>3. Offset(seqs, l) = Offset(others, l)
    BY <1>1, <1>2, <2>1, <2>2
  <2> QED BY <2>1, <2>3 DEF l
<1>6. \A k \in 0 .. N : k \in Good
  <2> HIDE DEF Good
  <2> QED BY <1>3, <1>4, <1>5, StepByStep
<1>7. N \in 0 .. N
  BY <1>3
<1> QED BY <1>1, <1>2, <1>6, <1>7 DEF N

(* The points of a message are as many as its characters, and only the     *)
(* first of them is its start.                                             *)
Points == (0 .. 5) \X (0 .. 5)

LEMMA ArgumentPointsAre ==
  ASSUME NEW a \in 1 .. 5, NEW length \in Nat
  PROVE  /\ ArgumentPoints(a, length) \in Seq((1 .. 5) \X (0 .. 5))
         /\ Len(ArgumentPoints(a, length)) = length + Width(length) + 5
<1> DEFINE h == Width(length) + 3
           n == h + length + 2
           Q == (1 .. 5) \X (0 .. 5)
           e(w) == IF w <= 2 THEN w - 1 ELSE IF w < h THEN 2 ELSE IF w = h THEN 3
                   ELSE IF w <= h + length THEN 4 ELSE 5
<1>1. Width(length) \in Nat
  BY WidthIsNat
<1>2. h \in Nat /\ n \in Nat /\ n = length + Width(length) + 5
  BY <1>1
<1>3. ArgumentPoints(a, length) = [w \in 1 .. n |-> <<a, e(w)>>]
  BY Zenon DEF ArgumentPoints
<1> HIDE DEF h, n
<1>4. \A w \in 1 .. n : e(w) \in 0 .. 5
  BY <1>2
<1> HIDE DEF e
<1>5. \A w \in 1 .. n : <<a, e(w)>> \in Q
  BY <1>4
<1> HIDE DEF Q
<1> DEFINE f == [w \in 1 .. n |-> <<a, e(w)>>]
<1>6. f \in [1 .. n -> Q]
  BY <1>5
<1> HIDE DEF f
<1>7. f \in Seq(Q) /\ Len(f) = n
  BY <1>2, <1>6, TupleIsSeq
<1> QED BY <1>2, <1>3, <1>7 DEF f, Q

LEMMA PointsAre ==
  ASSUME NEW S, Letters \subseteq S, NEW m \in PlainSet(S)
  PROVE  /\ PointsOf(m) \in Seq(Points) /\ Len(PointsOf(m)) = Len(TextOf(m)) /\ Len(TextOf(m)) \in Nat \ {0}
         /\ \A j \in 1 .. Len(TextOf(m)) : PointsOf(m)[j] = Start => j = 1
<1> DEFINE ws == Words(m)
           B == Bulks(ws)
           lengths == IF m.px = NoPx THEN <<3, Len(m.key), Len(m.val)>>
                      ELSE <<3, Len(m.key), Len(m.val), 2, Width(m.px)>>
           args == [a \in DOMAIN lengths |-> ArgumentPoints(a, lengths[a])]
           four == << <<0, 0>>, <<0, 1>>, <<0, 2>>, <<0, 3>> >>
           Q == (1 .. 5) \X (0 .. 5)
           F == FlattenSeq(args)
<1>1. Symbols \subseteq S
  BY DEF Letters
<1>2. ws \in Seq(Seq(S)) /\ Len(ws) = (IF m.px = NoPx THEN 3 ELSE 5) /\ TextOf(m) = ArrayText(ws)
  BY WordsOfSet
<1>3. ws[1] = SetWord /\ ws[2] = m.key /\ ws[3] = m.val
      /\ (m.px # NoPx => ws[4] = PxWord /\ ws[5] = Decimal[m.px] /\ m.px \in Nat)
  BY DEF Words, PlainSet
<1>4. Len(SetWord) = 3 /\ Len(PxWord) = 2
  BY DEF SetWord, PxWord
<1> HIDE DEF ws
<1>5. /\ B \in Seq(Seq(S)) /\ Len(B) = Len(ws)
      /\ \A i \in 1 .. Len(ws) : Len(ws[i]) \in Nat /\ Len(B[i]) = Len(ws[i]) + Width(Len(ws[i])) + 5
      /\ Len(FlattenSeq(B)) \in Nat
      /\ Len(ArrayText(ws)) = 4 + Len(FlattenSeq(B))
  <2>1. Len(ws) \in 0 .. 9
    BY <1>2
  <2> QED BY <1>1, <1>2, <2>1, ArrayLength
<1> HIDE DEF B
<1>6. DOMAIN lengths = 1 .. Len(ws) /\ \A a \in 1 .. Len(ws) : lengths[a] = Len(ws[a])
  <2>1. CASE m.px = NoPx
    <3>1. Len(ws) = 3 /\ \A a \in 1 .. 3 : a = 1 \/ a = 2 \/ a = 3
      BY <1>2, <2>1
    <3> DEFINE k == Len(m.key)
               v == Len(m.val)
    <3>2. lengths = <<3, k, v>>
      BY <2>1
    <3> HIDE DEF k, v, lengths
    <3>3. DOMAIN lengths = 1 .. 3 /\ lengths[1] = 3 /\ lengths[2] = k /\ lengths[3] = v
      BY <3>2
    <3> QED BY <1>3, <1>4, <3>1, <3>3 DEF k, v
  <2>2. CASE m.px # NoPx
    <3>1. Len(ws) = 5 /\ \A a \in 1 .. 5 : a = 1 \/ a = 2 \/ a = 3 \/ a = 4 \/ a = 5
      BY <1>2, <2>2
    <3> DEFINE k == Len(m.key)
               v == Len(m.val)
               p == Width(m.px)
    <3>2. lengths = <<3, k, v, 2, p>>
      BY <2>2
    <3>3. Len(ws[5]) = p
      BY <1>3, <2>2, WidthIsNat
    <3> HIDE DEF k, v, p, lengths
    <3>4. DOMAIN lengths = 1 .. 5 /\ lengths[1] = 3 /\ lengths[2] = k /\ lengths[3] = v
          /\ lengths[4] = 2 /\ lengths[5] = p
      BY <3>2
    <3> QED BY <1>3, <1>4, <2>2, <3>1, <3>3, <3>4 DEF k, v
  <2> QED BY <2>1, <2>2
<1>7. PointsOf(m) = four \o F
  BY Zenon DEF PointsOf
<1> HIDE DEF lengths
<1>8. ASSUME NEW a \in 1 .. Len(ws)
      PROVE  ArgumentPoints(a, lengths[a]) \in Seq(Q) /\ Len(ArgumentPoints(a, lengths[a])) = Len(B[a])
  <2>1. a \in 1 .. 5
    BY <1>2
  <2>2. Len(ws[a]) \in Nat /\ lengths[a] = Len(ws[a]) /\ Len(B[a]) = Len(ws[a]) + Width(Len(ws[a])) + 5
    BY <1>5, <1>6
  <2> QED BY <2>1, <2>2, ArgumentPointsAre
<1> HIDE DEF Q
<1>9. args \in Seq(Seq(Q)) /\ Len(args) = Len(ws) /\ \A a \in 1 .. Len(ws) : Len(args[a]) = Len(B[a])
  <2>1. args \in [1 .. Len(ws) -> Seq(Q)] /\ \A a \in 1 .. Len(ws) : args[a] = ArgumentPoints(a, lengths[a])
    BY <1>6, <1>8
  <2>2. Len(ws) \in Nat
    BY <1>2
  <2> HIDE DEF args
  <2>3. args \in Seq(Seq(Q)) /\ Len(args) = Len(ws)
    BY <2>1, <2>2, TupleIsSeq
  <2> QED BY <1>8, <2>1, <2>3
<1> HIDE DEF args
<1>10. F \in Seq(Q) /\ Len(F) = Len(FlattenSeq(B))
  <2>1. F \in Seq(Q)
    BY <1>9, Flattened
  <2>2. Len(F) = Len(FlattenSeq(B))
    BY <1>5, <1>9, SameOffsets
  <2> QED BY <2>1, <2>2
<1> HIDE DEF F
<1>11. Q \subseteq Points /\ Start \notin Q
  BY DEF Q, Points, Start
<1>12. four \in Seq(Points) /\ Len(four) = 4
       /\ \A j \in 1 .. 4 : four[j] = Start => j = 1
  <2>1. <<0, 0>> \in Points /\ <<0, 1>> \in Points /\ <<0, 2>> \in Points /\ <<0, 3>> \in Points
    BY DEF Points
  <2>2. <<0, 1>> # Start /\ <<0, 2>> # Start /\ <<0, 3>> # Start
    BY DEF Start
  <2> DEFINE x0 == <<0, 0>>
             x1 == <<0, 1>>
             x2 == <<0, 2>>
             x3 == <<0, 3>>
  <2>3. x0 \in Points /\ x1 \in Points /\ x2 \in Points /\ x3 \in Points
        /\ x1 # Start /\ x2 # Start /\ x3 # Start /\ four = <<x0, x1, x2, x3>>
    BY <2>1, <2>2
  <2> HIDE DEF x0, x1, x2, x3, four
  <2>4. \A j \in 1 .. 4 : j = 1 \/ j = 2 \/ j = 3 \/ j = 4
    OBVIOUS
  <2>5. four \in Seq(Points) /\ Len(four) = 4 /\ four[2] = x1 /\ four[3] = x2 /\ four[4] = x3
    BY <2>3
  <2> QED BY <2>3, <2>4, <2>5
<1> HIDE DEF four
<1>13. F \in Seq(Points)
  BY <1>10, <1>11
<1>14. /\ four \o F \in Seq(Points) /\ Len(F) \in Nat /\ Len(four \o F) = Len(four) + Len(F)
       /\ \A i \in 1 .. Len(four) : (four \o F)[i] = four[i]
       /\ \A i \in 1 .. Len(F) : (four \o F)[Len(four) + i] = F[i]
  <2>1. four \in Seq(Points)
    BY <1>12
  <2> QED BY ONLY <1>13, <2>1, Joining
<1> DEFINE x == four \o F
<1>15. Len(x) = Len(TextOf(m)) /\ Len(x) \in Nat \ {0}
  BY <1>2, <1>5, <1>10, <1>12, <1>14
<1>16. ASSUME NEW j \in 1 .. Len(x), x[j] = Start PROVE j = 1
  <2>1. CASE j \in 1 .. 4
    <3>1. x[j] = four[j]
      BY <1>12, <1>14, <2>1
    <3> QED BY <1>12, <1>16, <2>1, <3>1
  <2>2. CASE j \notin 1 .. 4
    <3>1. PICK i \in 1 .. Len(F) : j = 4 + i
      <4>1. j - 4 \in 1 .. Len(F) /\ j = 4 + (j - 4)
        BY <1>12, <1>14, <2>2
      <4> QED BY <4>1
    <3>2. x[j] = F[i]
      BY <1>12, <1>14, <3>1
    <3>3. F[i] \in Q
      BY <1>10, ElementOfSeq
    <3> QED BY <1>11, <1>16, <3>2, <3>3
  <2> QED BY <2>1, <2>2
<1> QED BY <1>7, <1>14, <1>15, <1>16
-----------------------------------------------------------------------------
Messages == [j \in DOMAIN stream |-> TextOf(stream[j])]

(* Where the points say that a message starts, one does.                   *)
LEMMA StartsWhereMessagesDo ==
  ASSUME NEW S, Letters \subseteq S, stream \in Seq(PlainSet(S)),
         NEW n \in 0 .. Len(Text), PositionAt(n)[2] = Start
  PROVE  \E k \in 0 .. Len(stream) : n = Offset(Messages, k)
<1> DEFINE texts == Messages
           N == Len(stream)
           part(i) == [j \in DOMAIN PointsOf(stream[i]) |-> <<i, PointsOf(stream[i])[j]>>]
           parts == [i \in DOMAIN stream |-> part(i)]
           P == (1 .. N) \X Points
           f == FlattenSeq(parts)
           end == << <<N + 1, Start>> >>
<1>1. /\ texts \in Seq(Seq(S)) /\ Len(texts) = N /\ DOMAIN stream = 1 .. N
      /\ Text = FlattenSeq(texts) /\ Len(Text) \in Nat
  BY TextIsText DEF Messages
<1>2. N \in Nat /\ \A i \in 1 .. N : stream[i] \in PlainSet(S) /\ texts[i] = TextOf(stream[i])
  BY <1>1, ElementOfSeq DEF Messages
<1>3. Positions = f \o end
  BY Zenon DEF Positions
<1> HIDE DEF texts, N
<1>4. ASSUME NEW i \in 1 .. N
      PROVE  /\ part(i) \in Seq(P) /\ Len(part(i)) = Len(texts[i]) /\ Len(texts[i]) \in Nat \ {0}
             /\ \A j \in 1 .. Len(texts[i]) : part(i)[j][2] = Start => j = 1
  <2> DEFINE p == PointsOf(stream[i])
             l == Len(texts[i])
             q == [j \in 1 .. l |-> <<i, p[j]>>]
  <2>1. /\ p \in Seq(Points) /\ Len(p) = l /\ l \in Nat \ {0}
        /\ \A j \in 1 .. l : p[j] = Start => j = 1
    BY <1>2, PointsAre
  <2> HIDE DEF p, l
  <2>2. DOMAIN p = 1 .. l /\ \A j \in 1 .. l : p[j] \in Points
    BY <2>1, ElementOfSeq
  <2>3. part(i) = q
    BY <2>2, Zenon DEF p
  <2>4. q \in [1 .. l -> P] /\ \A j \in 1 .. l : q[j][2] = p[j]
    BY <2>2
  <2> HIDE DEF q, P
  <2>5. q \in Seq(P) /\ Len(q) = l
    BY <2>1, <2>4, TupleIsSeq
  <2>6. \A j \in 1 .. l : q[j][2] = Start => j = 1
    BY <2>1, <2>4
  <2> HIDE DEF part
  <2> QED BY <2>1, <2>3, <2>5, <2>6 DEF l
<1> HIDE DEF P
<1>5. parts \in [1 .. N -> Seq(P)] /\ \A i \in 1 .. N : parts[i] = part(i)
  <2>1. DOMAIN stream = 1 .. N
    BY <1>1
  <2> HIDE DEF part
  <2> QED BY <1>4, <2>1
<1> HIDE DEF part, parts
<1>6. parts \in Seq(Seq(P)) /\ Len(parts) = N
  BY <1>2, <1>5, TupleIsSeq
<1>7. /\ \A k \in 0 .. N : Offset(parts, k) = Offset(texts, k)
      /\ Len(f) = Len(Text)
  <2>1. \A i \in 1 .. N : Len(parts[i]) = Len(texts[i])
    BY <1>4, <1>5
  <2>2. /\ \A k \in 0 .. Len(parts) : Offset(parts, k) = Offset(texts, k)
        /\ Len(FlattenSeq(parts)) = Len(FlattenSeq(texts))
    BY <1>1, <1>6, <2>1, SameOffsets, SMTT(60)
  <2> QED BY <1>1, <1>6, <2>2
<1>8. CASE n = Len(Text)
  <2>1. Offset(texts, N) = Len(FlattenSeq(texts))
    BY <1>1, Flattened
  <2>2. N \in 0 .. N
    BY <1>2
  <2> QED BY <1>1, <1>8, <2>1, <2>2 DEF texts, N
<1>9. CASE n # Len(Text)
  <2>1. n \in 0 .. Len(FlattenSeq(parts)) - 1
    BY <1>1, <1>7, <1>9
  <2>2. PICK k \in 0 .. N - 1 : /\ Offset(parts, k) \in Nat /\ Offset(parts, k) <= n
                                /\ n < Offset(parts, k + 1) /\ n - Offset(parts, k) < Len(parts[k + 1])
    <3>1. \E k \in 0 .. Len(parts) - 1 : /\ Offset(parts, k) \in Nat /\ Offset(parts, k) <= n
                                         /\ n < Offset(parts, k + 1) /\ n - Offset(parts, k) < Len(parts[k + 1])
      BY <1>6, <2>1, CutInside
    <3> QED BY <1>6, <3>1
  <2> DEFINE i == k + 1
             o == Offset(parts, k)
             j == n - o + 1
  <2>3. i \in 1 .. N /\ i - 1 = k /\ k \in 0 .. N
    BY <1>2
  <2> HIDE DEF i
  <2>4. Len(parts[i]) = Len(texts[i]) /\ Len(texts[i]) \in Nat
    BY <1>4, <1>5, <2>3
  <2>5. o \in Nat /\ j \in 1 .. Len(texts[i]) /\ (o + 1) + j - 1 = n + 1 /\ n + 1 <= Len(f) /\ n + 1 \in 1 .. Len(f)
    <3>1. o \in Nat /\ o <= n /\ n - o < Len(parts[i])
      BY <2>2 DEF i
    <3>2. n + 1 <= Len(f) /\ n \in Nat
      BY <2>1
    <3> HIDE DEF o
    <3> QED BY <2>4, <3>1, <3>2
  <2> HIDE DEF o, j
  <2>6. f \in Seq(P) /\ PartOf(f, o + 1, parts[i])
    <3>1. FlattenSeq(parts) \in Seq(P) /\ PartOf(FlattenSeq(parts), Offset(parts, i - 1) + 1, parts[i])
      BY <1>6, <2>3, Flattened
    <3> QED BY <2>3, <3>1 DEF o
  <2> HIDE DEF f
  <2>7. f[n + 1] = parts[i][j]
    <3>1. j \in 1 .. Len(parts[i]) /\ (o + 1) + j - 1 <= Len(f)
      BY <2>4, <2>5
    <3>2. f[(o + 1) + j - 1] = parts[i][j]
      BY <2>6, <3>1 DEF PartOf
    <3> QED BY <2>5, <3>2
  <2>8. Positions[n + 1] = f[n + 1]
    <3> DEFINE X == P \cup {<<N + 1, Start>>}
    <3>1. f \in Seq(X)
      BY <2>6
    <3>2. end \in Seq(X)
      OBVIOUS
    <3> HIDE DEF X, end
    <3>3. \A w \in 1 .. Len(f) : (f \o end)[w] = f[w]
      BY ONLY <3>1, <3>2, Joining
    <3> QED BY <1>3, <2>5, <3>3
  <2>9. part(i)[j][2] = Start
    BY <1>5, <2>3, <2>7, <2>8 DEF PositionAt
  <2>10. j = 1
    BY <1>4, <2>3, <2>5, <2>9
  <2>11. n = o
    BY <2>5, <2>10 DEF j
  <2> QED BY <1>7, <2>3, <2>11 DEF o, texts, N
<1> QED BY <1>8, <1>9

-----------------------------------------------------------------------------
(* What is counted, by the sums of what was counted before.                *)
LEMMA CountedIs ==
  ASSUME NEW N \in Nat, Len(Executed) = N, NEW g,
         g = [i \in 0 .. N |-> g[i]], g[0] = 0,
         \A i \in 1 .. N : g[i] = g[i - 1] + OffsetIncrement(Executed[i][2], Executed[i][3], Executed[i][4])
  PROVE  Counted = g[N]
<1> DEFINE e == Executed
           inc(i) == OffsetIncrement(e[i][2], e[i][3], e[i][4])
           sum[i \in 0 .. Len(e)] == IF i = 0 THEN 0 ELSE sum[i - 1] + inc(i)
           IsF(f) == f = [i \in 0 .. Len(e) |-> IF i = 0 THEN 0 ELSE f[i - 1] + inc(i)]
<1>1. Counted = sum[Len(e)]
  BY Zenon DEF Counted
<1>2. sum = CHOOSE f : IsF(f)
  OBVIOUS
<1> HIDE DEF sum
<1>3. Len(e) = N /\ g[0] = 0 /\ \A i \in 1 .. N : g[i] = g[i - 1] + inc(i)
  OBVIOUS
<1> HIDE DEF e, inc
<1>4. IsF(g)
  <2>1. \A i \in 0 .. N : i = 0 \/ (i # 0 /\ i \in 1 .. N)
    OBVIOUS
  <2>2. \A i \in 0 .. N : g[i] = IF i = 0 THEN 0 ELSE g[i - 1] + inc(i)
    BY <1>3, <2>1, Zenon
  <2> QED BY <1>3, <2>2, Zenon
<1>5. IsF(sum)
  <2> HIDE DEF IsF
  <2> QED BY <1>2, <1>4, Zenon
<1>6. sum[0] = 0 /\ \A i \in 1 .. N : sum[i] = sum[i - 1] + inc(i)
  <2>1. 0 \in 0 .. N /\ \A i \in 1 .. N : i \in 0 .. N /\ i # 0
    OBVIOUS
  <2>2. \A i \in 0 .. N : sum[i] = IF i = 0 THEN 0 ELSE sum[i - 1] + inc(i)
    BY <1>3, <1>5, Zenon
  <2> QED BY <2>1, <2>2, Zenon
<1> DEFINE Good == {i \in 0 .. N : sum[i] = g[i]}
<1>7. 0 \in Good
  BY <1>3, <1>6
<1>8. ASSUME NEW i \in 0 .. N - 1, i \in Good PROVE i + 1 \in Good
  <2> DEFINE l == i + 1
  <2>1. l \in 1 .. N /\ l - 1 = i /\ sum[i] = g[i] /\ l \in 0 .. N
    BY <1>8
  <2> HIDE DEF l
  <2>2. sum[l] = sum[l - 1] + inc(l) /\ g[l] = g[l - 1] + inc(l)
    BY <1>3, <1>6, <2>1
  <2>3. sum[l] = g[l]
    BY <2>1, <2>2, Zenon
  <2> QED BY <2>1, <2>3 DEF l
<1>9. \A i \in 0 .. N : i \in Good
  <2> HIDE DEF Good
  <2> QED BY <1>7, <1>8, StepByStep
<1>10. N \in 0 .. N
  OBVIOUS
<1> QED BY <1>1, <1>3, <1>9, <1>10
-----------------------------------------------------------------------------
(* Of a chunk of whole messages, from the one behind the a-th to the b-th. *)
LEMMA WholeMessages ==
  ASSUME NEW S, Letters \subseteq S, stream \in Seq(PlainSet(S)),
         \A i \in 1 .. Len(stream) : Starless(stream[i].key) /\ Starless(stream[i].val),
         NEW a \in 0 .. Len(stream), NEW b \in 0 .. Len(stream), a < b
  PROVE  LET v == ParseMultiArray(SubSeq(Text, Offset(Messages, a) + 1, Offset(Messages, b)))
             cmds == [j \in 1 .. b - a |-> CommandOf(stream[a + j], TRUE)]
         IN  v.fate = Fine /\ Commands(v.out) = cmds /\ Len(cmds) = b - a
<1> DEFINE texts == Messages
           N == Len(stream)
           K == b - a
           at == Offset(texts, a)
           s == SubSeq(Text, at + 1, Offset(texts, b))
           o == [k \in 0 .. K |-> Offset(texts, a + k) - at]
           ms == [j \in 1 .. K |-> stream[a + j]]
           words == [j \in 1 .. K |-> Words(ms[j])]
<1>1. /\ texts \in Seq(Seq(S)) /\ Len(texts) = N /\ DOMAIN stream = 1 .. N
      /\ Text = FlattenSeq(texts) /\ Text \in Seq(S) /\ Len(Text) \in Nat
  BY TextIsText DEF Messages
<1>2. N \in Nat /\ a \in Nat /\ b \in Nat /\ a < b /\ b <= N /\ K \in Nat \ {0}
      /\ (\A j \in 1 .. K : a + j \in 1 .. N) /\ \A k \in 0 .. K : a + k \in 0 .. N /\ a + k \in a .. N
  OBVIOUS
<1>3. \A i \in 1 .. N : texts[i] = TextOf(stream[i]) /\ stream[i] \in PlainSet(S)
  BY <1>1, ElementOfSeq DEF Messages
<1> HIDE DEF texts
<1>4. ASSUME NEW j \in 1 .. K
      PROVE  /\ ms[j] = stream[a + j] /\ words[j] = Words(ms[j])
             /\ ms[j] \in PlainSet(S) /\ Starless(ms[j].key) /\ Starless(ms[j].val)
             /\ IsRequest(words[j], S) /\ ArrayText(words[j]) = texts[a + j]
  <2>1. ms[j] = stream[a + j] /\ words[j] = Words(ms[j]) /\ a + j \in 1 .. N
    BY <1>2
  <2> HIDE DEF ms, words, N, K
  <2>2. ms[j] \in PlainSet(S) /\ Starless(ms[j].key) /\ Starless(ms[j].val)
    BY <1>3, <2>1 DEF N
  <2>3. IsRequest(Words(ms[j]), S) /\ TextOf(ms[j]) = ArrayText(Words(ms[j]))
    BY <2>2, RequestOfSet
  <2> QED BY <1>3, <2>1, <2>2, <2>3
<1>5. /\ \A n \in 0 .. N : Offset(texts, n) \in Nat /\ Offset(texts, n) <= Len(Text)
      /\ \A n \in 1 .. N : /\ Offset(texts, n) = Offset(texts, n - 1) + Len(texts[n])
                           /\ PartOf(Text, Offset(texts, n - 1) + 1, texts[n])
  BY <1>1, Flattened
<1>6. \A n \in 0 .. N : \A m \in n .. N : Offset(texts, n) <= Offset(texts, m)
  BY <1>1, JoinsBegin
<1>7. \A k \in 0 .. K : /\ o[k] = Offset(texts, a + k) - at /\ o[k] \in Nat
                        /\ Offset(texts, a + k) \in Nat /\ Offset(texts, a + k) <= Offset(texts, b)
                        /\ at \in Nat
  <2> SUFFICES ASSUME NEW k \in 0 .. K
               PROVE  /\ o[k] = Offset(texts, a + k) - at /\ o[k] \in Nat
                      /\ Offset(texts, a + k) \in Nat /\ Offset(texts, a + k) <= Offset(texts, b)
                      /\ at \in Nat
    OBVIOUS
  <2>1. a + k \in 0 .. N /\ a + k \in a .. N /\ b \in a + k .. N /\ b \in 0 .. N
    BY <1>2
  <2>2. at \in Nat /\ Offset(texts, a + k) \in Nat /\ at <= Offset(texts, a + k)
        /\ Offset(texts, a + k) <= Offset(texts, b)
    BY <1>5, <1>6, <2>1
  <2>3. o[k] = Offset(texts, a + k) - at
    OBVIOUS
  <2> QED BY <2>2, <2>3
<1> DEFINE end == Offset(texts, b)
<1>8. at \in Nat /\ end \in Nat /\ at <= end /\ end <= Len(Text) /\ o[0] = 0 /\ o[K] = end - at
  <2>1. 0 \in 0 .. K /\ K \in 0 .. K /\ a + 0 = a /\ a + K = b
    BY <1>2
  <2>2. end \in Nat /\ end <= Len(Text)
    BY <1>5
  <2>3. o[0] = at - at /\ o[K] = end - at /\ at \in Nat /\ at <= end
    BY <1>7, <2>1
  <2> QED BY <2>2, <2>3
<1> HIDE DEF o, at, end
<1>9. s \in Seq(S) /\ Len(s) = end - at /\ \A i \in 1 .. end - at : s[i] = Text[at + i]
  <2>1. s = SubSeq(Text, at + 1, end)
    BY DEF end
  <2> HIDE DEF s
  <2> QED BY <1>1, <1>8, <2>1, PieceOf
<1> HIDE DEF s, ms, words, N, K
<1>10. \A k \in 0 .. K : o[k] \in Nat /\ o[k] <= Len(s)
  <2> SUFFICES ASSUME NEW k \in 0 .. K PROVE o[k] \in Nat /\ o[k] <= Len(s)
    OBVIOUS
  <2>1. o[k] = Offset(texts, a + k) - at /\ o[k] \in Nat /\ Offset(texts, a + k) \in Nat
        /\ Offset(texts, a + k) <= end
    BY <1>7 DEF end
  <2> QED BY <1>8, <1>9, <2>1
<1>11. ASSUME NEW k \in 1 .. K
       PROVE  /\ o[k] = o[k - 1] + Len(ArrayText(words[k]))
              /\ PartOf(s, o[k - 1] + 1, ArrayText(words[k]))
  <2> DEFINE n == a + k
             m == a + (k - 1)
             x == Offset(texts, m)
             y == Offset(texts, n)
             t == texts[n]
  <2>1. n \in 1 .. N /\ n - 1 = m /\ k \in 0 .. K /\ k - 1 \in 0 .. K
    BY <1>2
  <2>2. o[k] = y - at /\ o[k - 1] = x - at /\ x \in Nat /\ y \in Nat /\ o[k - 1] \in Nat
    BY <1>7, <2>1
  <2> HIDE DEF n, m
  <2>3. y = x + Len(t) /\ PartOf(Text, x + 1, t)
    <3>1. /\ Offset(texts, n) = Offset(texts, n - 1) + Len(texts[n])
          /\ PartOf(Text, Offset(texts, n - 1) + 1, texts[n])
      BY <1>5, <2>1
    <3> QED BY <2>1, <3>1
  <2>4. ArrayText(words[k]) = t
    BY <1>4 DEF n
  <2>5. Len(t) \in Nat
    <3>1. t \in Seq(S)
      BY <1>1, <2>1, ElementOfSeq DEF N
    <3> QED BY <3>1
  <2> HIDE DEF x, y, t
  <2>6. o[k] = o[k - 1] + Len(t)
    BY <1>8, <2>2, <2>3, <2>5
  <2>7. PartOf(s, o[k - 1] + 1, t)
    <3> SUFFICES ASSUME NEW j \in 1 .. Len(t), (o[k - 1] + 1) + j - 1 <= Len(s)
                 PROVE  s[(o[k - 1] + 1) + j - 1] = t[j]
      BY DEF PartOf
    <3> DEFINE i == (o[k - 1] + 1) + j - 1
    <3>1. i \in 1 .. end - at /\ at + i = (x + 1) + j - 1 /\ (x + 1) + j - 1 <= Len(Text)
      BY <1>1, <1>8, <1>9, <2>2, <2>5, SMTT(60)
    <3> HIDE DEF i
    <3>2. s[i] = Text[(x + 1) + j - 1]
      BY <1>9, <3>1
    <3>3. Text[(x + 1) + j - 1] = t[j]
      BY <2>3, <3>1 DEF PartOf
    <3> QED BY <3>2, <3>3 DEF i
  <2> QED BY <2>4, <2>6, <2>7
<1>12. AreBehind(s, o, words, K, S)
  <2>1. \A k \in 1 .. K : IsRequest(words[k], S)
    BY <1>4
  <2>2. K \in Nat \ {0} /\ s \in Seq(S) /\ o[0] = 0 /\ o[K] = Len(s)
    BY <1>2, <1>8, <1>9
  <2> QED BY <1>10, <1>11, <2>1, <2>2 DEF AreBehind
<1> DEFINE v == ParseMultiArray(s)
<1>13. v.fate = Fine /\ v.out = ReadOf(words, K)
  <2>1. Symbols \subseteq S
    BY DEF Letters
  <2> QED BY <1>12, <2>1, ManyRead
<1> HIDE DEF v
<1>14. Commands(ReadOf(words, K)) = CommandsOf(ms, K) /\ Len(CommandsOf(ms, K)) = K
  <2>1. AreStarless(ms, K, S)
    BY <1>4 DEF AreStarless
  <2>2. K \in Nat /\ Letters \subseteq S
    BY <1>2
  <2>3. words = WordsOf(ms, K)
    BY DEF words, WordsOf
  <2>4. Commands(ReadOf(WordsOf(ms, K), K)) = CommandsOf(ms, K) /\ Len(CommandsOf(ms, K)) = K
    BY ONLY <2>1, <2>2, ManyCommands
  <2> QED BY <2>3, <2>4, Zenon
<1>15. CommandsOf(ms, K) = [j \in 1 .. K |-> CommandOf(stream[a + j], TRUE)]
  <2>1. \A j \in 1 .. K : ms[j] = stream[a + j]
    BY <1>4
  <2> QED BY <2>1, Zenon DEF CommandsOf
<1>16. /\ v.fate = Fine /\ Commands(v.out) = [j \in 1 .. K |-> CommandOf(stream[a + j], TRUE)]
       /\ Len([j \in 1 .. K |-> CommandOf(stream[a + j], TRUE)]) = K
  BY <1>13, <1>14, <1>15, Zenon
<1> QED BY <1>16 DEF v, s, at, texts, K

(* What the loop has made of the last chunk.                               *)
Parsed ==
  /\ made = Unread => begun < taken
  /\ \/ made = Unread
     \/ begun = 0 /\ taken = 0 /\ made = [fate |-> Fine, out |-> <<>>]
     \/ begun < taken /\ made = ParseMultiArray(SubSeq(Text, begun + 1, taken))

LEMMA ParsedIsKept ==
  ASSUME NEW S, Letters \subseteq S, PlainStreams(S)
  PROVE  Spec => []Parsed
<1>1. Init => Parsed
  <2> SUFFICES ASSUME Init PROVE Parsed
    OBVIOUS
  <2>1. begun = 0 /\ taken = 0 /\ made = [fate |-> Fine, out |-> <<>>]
    BY DEF Init
  <2>2. made # Unread
    <3>1. made.fate = <<"fine">> /\ Unread.fate = <<"unread">>
      BY <2>1 DEF Fine, Unread
    <3>2. <<"fine">> # <<"unread">>
      OBVIOUS
    <3> QED BY <3>1, <3>2
  <2> QED BY <2>1, <2>2 DEF Parsed
<1>2. Reading /\ Parsed /\ [Next]_vars => Parsed'
  <2> SUFFICES ASSUME Reading, Parsed, [Next]_vars PROVE Parsed'
    OBVIOUS
  <2>1. stream' = stream
    BY DEF Next, vars, ReadChunk, ParseChunk
  <2>2. Text' = Text
    BY <2>1 DEF Text
  <2>3. CASE ReadChunk
    <3>1. taken' \in taken + 1 .. Len(Text) /\ begun' = taken /\ made' = Unread
      BY <2>3 DEF ReadChunk
    <3>2. begun' < taken'
      BY <3>1 DEF Reading
    <3> QED BY <3>1, <3>2 DEF Parsed
  <2>4. CASE ParseChunk
    <3>1. made = Unread /\ begun' = begun /\ taken' = taken
          /\ made' = ParseMultiArray(SubSeq(Text, begun + 1, taken))
      BY <2>4 DEF ParseChunk
    <3>2. begun < taken
      BY <3>1 DEF Parsed
    <3> QED BY <2>2, <3>1, <3>2 DEF Parsed
  <2>5. CASE UNCHANGED vars
    BY <2>2, <2>5 DEF vars, Parsed, Unread
  <2> QED BY <2>3, <2>4, <2>5 DEF Next
<1>3. Spec => []Reading
  BY ReadingIsKept
<1> QED BY <1>1, <1>2, <1>3, PTL DEF Spec

LEMMA FallsShort ==
  ASSUME NEW S, Letters \subseteq S, StarlessStreams(S), Reading, Parsed
  PROVE  OffsetFallsShort
<1> SUFFICES ASSUME made.fate = Fine,
                    PositionAt(begun)[2] = Start, PositionAt(taken)[2] = Start
             PROVE  Counted = (taken - begun) - 9 * Len(Executed)
  BY DEF OffsetFallsShort
<1>0. made # Unread
  BY DEF Unread, Fine
<1> DEFINE texts == Messages
           N == Len(stream)
<1>1. stream \in Seq(PlainSet(S)) /\ \A i \in 1 .. N : Starless(stream[i].key) /\ Starless(stream[i].val)
  BY DEF Reading, StarlessStreams
<1>2. begun \in Nat /\ taken \in Nat /\ begun <= taken /\ taken <= Len(Text) /\ Len(Text) \in Nat
  BY <1>1, TextIsText DEF Reading
(* Nothing has been read.                                                  *)
<1>3. CASE begun = 0 /\ taken = 0 /\ made = [fate |-> Fine, out |-> <<>>]
  <2>1. Executed = Commands(<<>>)
    BY <1>3 DEF Executed
  <2>2. Commands(<<>>) = <<>>
    <3> DEFINE q == [i \in DOMAIN <<>> |-> CommandsIn(<<>>[i])]
    <3>1. q = <<>>
      OBVIOUS
    <3>2. <<>> \in Seq(Seq(S)) /\ Len(<<>>) = 0
      OBVIOUS
    <3>3. FlattenSeq(<<>>) \in Seq(S) /\ Offset(<<>>, 0) = 0 /\ Offset(<<>>, Len(<<>>)) = Len(FlattenSeq(<<>>))
      BY <3>2, Flattened
    <3>4. FlattenSeq(<<>>) = <<>>
      <4>1. Len(FlattenSeq(<<>>)) = 0
        BY <3>2, <3>3
      <4> QED BY <3>3, <4>1, EmptySeq
    <3> HIDE DEF q
    <3> QED BY <3>1, <3>4, Zenon DEF Commands, q
  <2>3. Len(Executed) = 0
    BY <2>1, <2>2
  <2> DEFINE g == [i \in 0 .. 0 |-> 0]
  <2>4. g = [i \in 0 .. 0 |-> g[i]] /\ g[0] = 0 /\ \A i \in 1 .. 0 : FALSE
    OBVIOUS
  <2> HIDE DEF g
  <2>5. Counted = g[0]
    <3>1. \A i \in 1 .. 0 :
            g[i] = g[i - 1] + OffsetIncrement(Executed[i][2], Executed[i][3], Executed[i][4])
      BY <2>4
    <3>2. 0 \in Nat
      OBVIOUS
    <3> QED BY ONLY <2>3, <2>4, <3>1, <3>2, CountedIs, ZenonT(60)
  <2> QED BY <1>2, <1>3, <2>3, <2>4, <2>5
(* A chunk of whole messages.                                              *)
<1>4. CASE begun < taken /\ made = ParseMultiArray(SubSeq(Text, begun + 1, taken))
  <2>1. PICK a \in 0 .. N : begun = Offset(texts, a)
    <3>1. begun \in 0 .. Len(Text)
      BY <1>2
    <3> QED BY <1>1, <3>1, StartsWhereMessagesDo
  <2>2. PICK b \in 0 .. N : taken = Offset(texts, b)
    <3>1. taken \in 0 .. Len(Text)
      BY <1>2
    <3> QED BY <1>1, <3>1, StartsWhereMessagesDo
  <2>3. /\ texts \in Seq(Seq(S)) /\ Len(texts) = N /\ DOMAIN stream = 1 .. N /\ N \in Nat
    BY <1>1, TextIsText DEF Messages
  <2>4. \A i \in 1 .. N : /\ stream[i] \in PlainSet(S) /\ texts[i] = TextOf(stream[i])
                          /\ Len(texts[i]) \in Nat \ {0}
    <3> SUFFICES ASSUME NEW i \in 1 .. N
                 PROVE  /\ stream[i] \in PlainSet(S) /\ texts[i] = TextOf(stream[i])
                        /\ Len(texts[i]) \in Nat \ {0}
      OBVIOUS
    <3>1. stream[i] \in PlainSet(S) /\ texts[i] = TextOf(stream[i])
      BY <1>1, <2>3, ElementOfSeq DEF Messages
    <3> QED BY <3>1, PointsAre
  <2> HIDE DEF texts
  <2>5. a < b
    <3>1. Offset(texts, a) < Offset(texts, b) => a < b
      BY <2>3, <2>4, OffsetsGrow
    <3> QED BY <1>4, <2>1, <2>2, <3>1
  <2> DEFINE K == b - a
             cmds == [j \in 1 .. K |-> CommandOf(stream[a + j], TRUE)]
  <2>6. made.fate = Fine /\ Commands(made.out) = cmds /\ Len(cmds) = K
    <3>1. LET v == ParseMultiArray(SubSeq(Text, Offset(Messages, a) + 1, Offset(Messages, b)))
          IN  v.fate = Fine /\ Commands(v.out) = cmds /\ Len(cmds) = K
      BY <1>1, <2>5, WholeMessages
    <3> QED BY <1>4, <2>1, <2>2, <3>1 DEF texts
  <2>7. Executed = cmds /\ Len(Executed) = K /\ K \in Nat
    BY <2>3, <2>5, <2>6 DEF Executed
  <2> DEFINE g == [i \in 0 .. K |-> (Offset(texts, a + i) - begun) - 9 * i]
  <2>8. \A i \in 0 .. K : a + i \in 0 .. N /\ Offset(texts, a + i) \in Nat
    <3>1. \A i \in 0 .. K : a + i \in 0 .. N
      BY <2>3, <2>5
    <3>2. \A n \in 0 .. N : Offset(texts, n) \in Nat
      BY <2>3, Flattened
    <3> QED BY <3>1, <3>2
  <2>9. g = [i \in 0 .. K |-> g[i]] /\ \A i \in 0 .. K : g[i] = (Offset(texts, a + i) - begun) - 9 * i
    OBVIOUS
  <2> HIDE DEF g
  <2>10. g[0] = 0 /\ g[K] = (taken - begun) - 9 * K
    <3>1. 0 \in 0 .. K /\ K \in 0 .. K /\ a + 0 = a /\ a + K = b /\ K \in Nat
      BY <2>3, <2>7
    <3> HIDE DEF K
    <3>2. g[0] = (Offset(texts, a + 0) - begun) - 9 * 0 /\ g[K] = (Offset(texts, a + K) - begun) - 9 * K
      BY <2>9, <3>1, Zenon
    <3>3. g[0] = (begun - begun) - 9 * 0 /\ g[K] = (taken - begun) - 9 * K
      BY <2>1, <2>2, <3>1, <3>2, Zenon
    <3> QED BY <1>2, <3>1, <3>3
  <2> HIDE DEF cmds, K
  <2>11. ASSUME NEW i \in 1 .. K
         PROVE  g[i] = g[i - 1] + OffsetIncrement(Executed[i][2], Executed[i][3], Executed[i][4])
    <3> DEFINE n == a + i
               m == stream[n]
               inc == OffsetIncrement(m.key, m.val, PxOf(m))
               x == Offset(texts, a + (i - 1))
               y == Offset(texts, n)
               l == Len(TextOf(m))
    <3>1. n \in 1 .. N /\ n - 1 = a + (i - 1) /\ i \in 0 .. K /\ i - 1 \in 0 .. K
      BY <2>3, <2>5, <2>7 DEF K
    <3>2. Executed[i] = CommandOf(m, TRUE)
      BY <2>7 DEF cmds
    <3>3. Executed[i][2] = m.key /\ Executed[i][3] = m.val /\ Executed[i][4] = PxOf(m)
      BY <3>2 DEF CommandOf
    <3>4. l \in Nat /\ inc \in Nat /\ l = inc + 9
      BY <2>4, <3>1, TextLength
    <3>5. y = x + l /\ x \in Nat /\ y \in Nat
      <4>1. Offset(texts, n) = Offset(texts, n - 1) + Len(texts[n])
        <5> HIDE DEF n
        <5> QED BY <2>3, <3>1, Flattened
      <4>2. texts[n] = TextOf(m)
        BY <2>4, <3>1
      <4> QED BY <2>8, <3>1, <4>1, <4>2
    <3>6. g[i] = (y - begun) - 9 * i /\ g[i - 1] = (x - begun) - 9 * (i - 1)
      BY <2>9, <3>1
    <3> HIDE DEF n, m, inc, x, y, l
    <3>7. g[i] = g[i - 1] + inc
      BY <1>2, <3>4, <3>5, <3>6
    <3> QED BY <3>3, <3>7 DEF inc
  <2>12. Counted = g[K]
    BY <2>7, <2>9, <2>10, <2>11, CountedIs
  <2> QED BY <2>7, <2>10, <2>12
<1> QED BY <1>0, <1>3, <1>4 DEF Parsed

(* src/main.rs:278-297 against src/utils.rs:11-41: whatever SETs a stream  *)
(* is made of, if their words are plain and look like no array, and        *)
(* however many whole messages a chunk has, each is executed and the       *)
(* replica's offset falls short by nine characters for each of them.       *)
THEOREM OffsetsFallShort ==
  ASSUME NEW S, Letters \subseteq S, StarlessStreams(S)
  PROVE  Spec => []OffsetFallsShort
<1>1. PlainStreams(S)
  BY DEF StarlessStreams, PlainStreams
<1>2. Reading /\ Parsed => OffsetFallsShort
  BY FallsShort
<1>3. Spec => []Reading
  BY <1>1, ReadingIsKept
<1>4. Spec => []Parsed
  BY <1>1, ParsedIsKept
<1> QED BY <1>2, <1>3, <1>4, PTL

-----------------------------------------------------------------------------
(* parse_multi_array on a chunk of segments: pieces that end where the     *)
(* next message begins, all but the last of which parse.                   *)
MessageAt(s, i) == s[i] = "*" /\ i < Len(s) /\ IsDigit(s[i + 1])
Between(first, pre, out) == [first |-> first, pre |-> pre, out |-> out, fate |-> Fine]

LEMMA NoMessageThere ==
  ASSUME NEW s, NEW first \in BOOLEAN, NEW pre, NEW out, NEW idx \in Nat, Len(s) \in Nat,
         idx < Len(s), ~ MessageAt(s, idx)
  PROVE  AtChar(s, Between(first, pre, out), idx) = Between(first, pre, out)
<1> DEFINE acc == Between(first, pre, out)
<1>1. acc.fate = Fine
  BY DEF Between
<1> HIDE DEF acc
<1>2. AtLast(s, acc, idx) = acc
  BY DEF AtLast
<1>3. AtStar(s, acc, idx) = acc
  BY DEF AtStar, MessageAt
<1> QED BY <1>1, <1>2, <1>3, FineIsFine, Zenon DEF AtChar, acc

LEMMA FirstMessageThere ==
  ASSUME NEW s, NEW pre, NEW out, NEW idx \in Nat, Len(s) \in Nat, MessageAt(s, idx)
  PROVE  AtChar(s, Between(TRUE, pre, out), idx) = Between(FALSE, pre, out)
<1> DEFINE acc == Between(TRUE, pre, out)
<1>1. acc.fate = Fine /\ acc.first = TRUE
  BY DEF Between
<1>2. s[idx] = "*" /\ idx < Len(s) /\ IsDigit(s[idx + 1])
  BY DEF MessageAt
<1> HIDE DEF acc
<1>3. AtLast(s, acc, idx) = acc
  BY <1>2 DEF AtLast
<1>4. AtStar(s, acc, idx) = [acc EXCEPT !.first = FALSE]
  BY <1>1, <1>2 DEF AtStar
<1>5. [acc EXCEPT !.first = FALSE] = Between(FALSE, pre, out)
  <2>1. ASSUME NEW yes, NEW no, NEW f
        PROVE  [[first |-> yes, pre |-> pre, out |-> out, fate |-> f] EXCEPT !.first = no]
                 = [first |-> no, pre |-> pre, out |-> out, fate |-> f]
    OBVIOUS
  <2> QED BY <2>1, Zenon DEF Between, acc
<1> QED BY <1>1, <1>3, <1>4, <1>5, FineIsFine, Zenon DEF AtChar, acc

LEMMA NextMessageThere ==
  ASSUME NEW s, NEW pre, NEW out, NEW idx \in Nat, Len(s) \in Nat, MessageAt(s, idx),
         ~ Failed(Parse(SubSeq(s, pre, idx - 1)))
  PROVE  AtChar(s, Between(FALSE, pre, out), idx)
           = Between(FALSE, idx, Append(out, Parse(SubSeq(s, pre, idx - 1))))
<1>1. s[idx] = "*" /\ idx < Len(s) /\ IsDigit(s[idx + 1])
  BY DEF MessageAt
<1>2. AtChar(s, Inside(pre, out), idx) = Inside(idx, Append(out, Parse(SubSeq(s, pre, idx - 1))))
  BY <1>1, TurnAtMessage
<1> QED BY <1>2, Zenon DEF Between, Inside

(* What the last character does.                                           *)
Ended(acc, s, out, v) ==
  IF Failed(v) THEN acc.fate = v
  ELSE IF s[Len(s)] = "*" THEN acc.fate = Panic
  ELSE acc.fate = Fine /\ acc.out = Append(out, v)

LEMMA TheEnd ==
  ASSUME NEW s, NEW first \in BOOLEAN, NEW pre, NEW out, NEW v, v = Parse(SubSeq(s, pre, Len(s)))
  PROVE  Ended(AtChar(s, Between(first, pre, out), Len(s)), s, out, v)
<1> DEFINE acc == Between(first, pre, out)
           mid == AtLast(s, acc, Len(s))
<1>1. acc.fate = Fine /\ acc.pre = pre
  BY DEF Between
<1>2. mid = Take(acc, v)
  BY <1>1, Zenon DEF AtLast
<1>3. AtChar(s, acc, Len(s)) = IF Failed(mid.fate) THEN mid ELSE AtStar(s, mid, Len(s))
  <2> HIDE DEF acc
  <2> QED BY <1>1, FineIsFine, Zenon DEF AtChar
<1>4. CASE Failed(v)
  <2>1. Take(acc, v).fate = v
    <3>1. Take(acc, v) = [acc EXCEPT !.fate = v]
      BY <1>4 DEF Take
    <3>2. ASSUME NEW f
          PROVE  [[first |-> first, pre |-> pre, out |-> out, fate |-> f] EXCEPT !.fate = v].fate = v
      OBVIOUS
    <3> QED BY <3>1, <3>2, Zenon DEF Between
  <2> HIDE DEF acc, mid
  <2>2. mid.fate = v /\ Failed(mid.fate)
    BY <1>2, <1>4, <2>1
  <2>3. AtChar(s, acc, Len(s)).fate = v
    BY <1>3, <2>2
  <2> QED BY <1>4, <2>3 DEF Ended, acc
<1>5. CASE ~ Failed(v)
  <2> DEFINE y == Append(out, v)
  <2>1. Take(acc, v) = [first |-> first, pre |-> pre, out |-> y, fate |-> Fine]
    <3>1. Take(acc, v) = [acc EXCEPT !.out = Append(@, v)]
      BY <1>5 DEF Take
    <3>2. ASSUME NEW f
          PROVE  [[first |-> first, pre |-> pre, out |-> out, fate |-> f] EXCEPT !.out = Append(@, v)]
                   = [first |-> first, pre |-> pre, out |-> y, fate |-> f]
      OBVIOUS
    <3> QED BY <3>1, <3>2, Zenon DEF Between
  <2> HIDE DEF y, acc, mid
  <2>2. mid.fate = Fine /\ mid.out = y
    BY <1>2, <2>1
  <2>3. AtChar(s, acc, Len(s)) = AtStar(s, mid, Len(s))
    BY <1>3, <2>2, FineIsFine
  <2>4. CASE s[Len(s)] = "*"
    <3>1. AtStar(s, mid, Len(s)) = [mid EXCEPT !.fate = Panic]
      BY <2>4 DEF AtStar
    <3>2. mid = [first |-> first, pre |-> pre, out |-> y, fate |-> Fine]
      BY <1>2, <2>1
    <3>3. [mid EXCEPT !.fate = Panic].fate = Panic
      <4>1. ASSUME NEW f, NEW g
            PROVE  [[first |-> first, pre |-> pre, out |-> y, fate |-> f] EXCEPT !.fate = g].fate = g
        OBVIOUS
      <4> QED BY <3>2, <4>1, Zenon
    <3>4. AtChar(s, acc, Len(s)).fate = Panic
      BY <2>3, <3>1, <3>3
    <3> QED BY <1>5, <2>4, <3>4 DEF Ended, acc
  <2>5. CASE s[Len(s)] # "*"
    <3>1. AtStar(s, mid, Len(s)) = mid
      BY <2>5 DEF AtStar
    <3> QED BY <1>5, <2>2, <2>3, <2>5, <3>1 DEF Ended, acc, y
  <2> QED BY <2>4, <2>5
<1> QED BY <1>4, <1>5

FirstOnes(v, n) == [j \in 1 .. n |-> v[j]]

LEMMA OneMoreOf ==
  ASSUME NEW v, NEW n \in Nat
  PROVE  FirstOnes(v, 0) = <<>> /\ Append(FirstOnes(v, n), v[n + 1]) = FirstOnes(v, n + 1)
<1> DEFINE V == {v[j] : j \in 1 .. n + 1}
           a == FirstOnes(v, n)
           b == FirstOnes(v, n + 1)
           x == v[n + 1]
<1>0. \A j \in 1 .. n : j \in 1 .. n + 1
  OBVIOUS
<1>1. a \in [1 .. n -> V] /\ b \in [1 .. n + 1 -> V] /\ x \in V
  <2>1. \A j \in 1 .. n + 1 : v[j] \in V
    OBVIOUS
  <2>2. n + 1 \in 1 .. n + 1
    OBVIOUS
  <2> HIDE DEF V
  <2> QED BY <1>0, <2>1, <2>2, Zenon DEF FirstOnes
<1>2. (\A j \in 1 .. n : a[j] = b[j]) /\ b[n + 1] = x
  <2>1. n + 1 \in 1 .. n + 1
    OBVIOUS
  <2> QED BY <1>0, <2>1, Zenon DEF FirstOnes
<1>7. FirstOnes(v, 0) = <<>>
  <2>1. 1 .. 0 = {}
    OBVIOUS
  <2>2. FirstOnes(v, 0) = [j \in {} |-> v[j]]
    BY <2>1, Zenon DEF FirstOnes
  <2> QED BY <2>2
<1> HIDE DEF V, a, b, x
<1>3. a \in Seq(V) /\ Len(a) = n /\ b \in Seq(V) /\ Len(b) = n + 1
  BY <1>1, TupleIsSeq
<1>4. Append(a, x) \in Seq(V) /\ Len(Append(a, x)) = n + 1
      /\ (\A j \in 1 .. n : Append(a, x)[j] = a[j]) /\ Append(a, x)[n + 1] = x
  BY <1>1, <1>3
<1> DEFINE c == Append(a, x)
<1>5. \A j \in 1 .. n + 1 : c[j] = b[j]
  <2>1. \A j \in 1 .. n + 1 : j \in 1 .. n \/ j = n + 1
    OBVIOUS
  <2> QED BY <1>2, <1>4, <2>1
<1>6. c = b
  <2> HIDE DEF c
  <2>1. c \in Seq(V) /\ b \in Seq(V) /\ Len(c) = Len(b) /\ \A j \in 1 .. Len(c) : c[j] = b[j]
    BY <1>3, <1>4, <1>5 DEF c
  <2> QED BY ONLY <2>1, Extensional
<1> QED BY <1>6, <1>7 DEF a, b, c, x

(* Segment k of s ends at o[k] and has the value v[k]; q is where the      *)
(* first message in the first segment begins, 0 if none does.              *)
AreSegments(s, o, v, K, q) ==
  /\ Len(s) \in Nat /\ K \in Nat \ {0}
  /\ o[0] = 0 /\ o[K] = Len(s) /\ \A k \in 0 .. K : o[k] \in Nat
  /\ \A k \in 0 .. K : \A l \in 0 .. K : k < l => o[k] < o[l]
  /\ q \in 0 .. o[1] /\ (K # 1 => q # 0)
  /\ \A i \in 1 .. Len(s) : MessageAt(s, i) <=> i = q \/ \E k \in 1 .. K - 1 : i = o[k] + 1
  /\ \A k \in 1 .. K : Parse(SubSeq(s, o[k - 1] + 1, o[k])) = v[k]
  /\ \A k \in 1 .. K - 1 : ~ Failed(v[k])

InSegment(f, o, v, q, k, i) ==
  /\ o[k - 1] < i \/ (i = 0 /\ k = 1)
  /\ i <= o[k]
  /\ f[i] = Between(q = 0 \/ i < q, o[k - 1] + 1, FirstOnes(v, k - 1))

(* From one character to the next the loop stays in its segment or enters  *)
(* the one behind it, of which the first line starts a message.            *)
LEMMA NextInSegment ==
  ASSUME NEW s, NEW o, NEW v, NEW K, NEW q, AreSegments(s, o, v, K, q),
         NEW f, AreTurns(f, s, Len(s)), NEW i \in Nat, i + 1 < Len(s),
         NEW k \in 1 .. K, InSegment(f, o, v, q, k, i)
  PROVE  \E m \in 1 .. K : InSegment(f, o, v, q, m, i + 1)
<1> DEFINE n == i + 1
           first == q = 0 \/ i < q
           a == o[k - 1]
           b == o[k]
           w == FirstOnes(v, k - 1)
<1>1. /\ Len(s) \in Nat /\ K \in Nat \ {0} /\ o[0] = 0 /\ o[K] = Len(s)
      /\ \A l \in 0 .. K : o[l] \in Nat
      /\ \A l \in 0 .. K : \A m \in 0 .. K : l < m => o[l] < o[m]
      /\ q \in 0 .. o[1] /\ (K # 1 => q # 0)
  BY DEF AreSegments
<1>2. \A j \in 1 .. Len(s) : MessageAt(s, j) <=> j = q \/ \E l \in 1 .. K - 1 : j = o[l] + 1
  BY DEF AreSegments
<1>3. /\ k \in Nat /\ k - 1 \in Nat /\ k - 1 \in 0 .. K /\ k \in 0 .. K /\ a \in Nat /\ b \in Nat
      /\ 1 \in 0 .. K /\ 0 \in 0 .. K /\ K \in 0 .. K
  <2>1. k \in Nat /\ k - 1 \in Nat /\ k - 1 \in 0 .. K /\ k \in 0 .. K /\ 1 \in 0 .. K /\ 0 \in 0 .. K /\ K \in 0 .. K
    BY <1>1
  <2> QED BY <1>1, <2>1
<1>4. /\ a < i \/ (i = 0 /\ k = 1)
      /\ i <= b
      /\ f[i] = Between(first, a + 1, w)
  BY DEF InSegment
<1>5. n \in Nat /\ n \in 1 .. Len(s) /\ n - 1 = i /\ n < Len(s) /\ o[1] \in Nat /\ q \in Nat
  BY <1>1, <1>3
<1>6. f[n] = AtChar(s, Between(first, a + 1, w), n)
  <2>1. f[n] = AtChar(s, f[n - 1], n)
    BY <1>5 DEF AreTurns
  <2> QED BY <1>4, <1>5, <2>1
<1>7. first \in BOOLEAN
  OBVIOUS
<1>8. k # 1 => 1 < k /\ o[1] <= a
  <2> SUFFICES ASSUME k # 1 PROVE 1 < k /\ o[1] <= a
    OBVIOUS
  <2>1. 1 < k /\ (1 = k - 1 \/ 1 < k - 1)
    BY <1>3
  <2> QED BY <1>1, <1>3, <1>5, <2>1
<1> HIDE DEF first, n, a, b, w
(* Nothing begins here.                                                    *)
<1>9. CASE ~ MessageAt(s, n)
  <2>1. f[n] = Between(first, a + 1, w)
    BY <1>1, <1>5, <1>6, <1>7, <1>9, NoMessageThere
  <2>2. n # q /\ \A l \in 1 .. K - 1 : n # o[l] + 1
    BY <1>2, <1>5, <1>9
  <2>3. first <=> (q = 0 \/ n < q)
    BY <1>5, <2>2 DEF first, n
  <2>4. n <= b
    <3> SUFFICES ASSUME ~ (n <= b) PROVE FALSE
      OBVIOUS
    <3>1. i = b /\ n = b + 1
      BY <1>3, <1>4 DEF n
    <3>2. k # K
      BY <1>1, <1>5, <3>1 DEF b
    <3>3. k \in 1 .. K - 1
      BY <1>1, <3>2
    <3> QED BY <2>2, <3>1, <3>3 DEF b
  <2>5. a < n
    BY <1>1, <1>3, <1>4 DEF n, a
  <2>6. f[n] = Between(q = 0 \/ n < q, a + 1, w)
    BY <2>1, <2>3 DEF first
  <2> QED BY <2>4, <2>5, <2>6 DEF InSegment, a, b, w, n
(* The first message begins.                                               *)
<1>10. CASE MessageAt(s, n) /\ n = q
  <2>1. k = 1
    <3> SUFFICES ASSUME k # 1 PROVE FALSE
      OBVIOUS
    <3>1. (o[1] <= a /\ a < i) \/ (i = 0 /\ k = 1)
      BY <1>4, <1>8
    <3> QED BY <1>1, <1>3, <1>5, <1>10, <3>1
  <2>2. first = TRUE
    BY <1>5, <1>10 DEF first
  <2>3. f[n] = Between(FALSE, a + 1, w)
    <3>1. f[n] = AtChar(s, Between(TRUE, a + 1, w), n)
      BY <1>6, <2>2
    <3> DEFINE p == a + 1
    <3> HIDE DEF p
    <3>2. Len(s) \in Nat /\ n \in Nat /\ MessageAt(s, n)
      BY <1>1, <1>5, <1>10
    <3>3. AtChar(s, Between(TRUE, p, w), n) = Between(FALSE, p, w)
      BY ONLY <3>2, FirstMessageThere
    <3> QED BY <3>1, <3>3 DEF p
  <2>4. n <= b /\ a < n
    <3>1. a = 0 /\ b = o[1]
      BY <1>1, <2>1 DEF a, b
    <3> QED BY <1>1, <1>5, <1>10, <3>1
  <2>5. (q = 0 \/ n < q) = FALSE
    BY <1>5, <1>10
  <2>6. f[n] = Between(q = 0 \/ n < q, a + 1, w)
    BY <2>3, <2>5
  <2> QED BY <2>4, <2>6 DEF InSegment, a, b, w, n
(* The next segment begins.                                                *)
<1>11. CASE MessageAt(s, n) /\ n # q
  <2>1. PICK l \in 1 .. K - 1 : n = o[l] + 1
    BY <1>2, <1>5, <1>11
  <2>2. l \in 0 .. K /\ l + 1 \in 1 .. K /\ l + 1 \in 0 .. K /\ (l + 1) - 1 = l /\ o[l] \in Nat /\ i = o[l]
        /\ l \in Nat /\ l >= 1
    <3>1. l \in 0 .. K /\ l + 1 \in 1 .. K /\ l + 1 \in 0 .. K /\ (l + 1) - 1 = l /\ l \in Nat /\ l >= 1
      BY <1>1
    <3>2. o[l] \in Nat
      BY <1>1, <3>1
    <3> QED BY <2>1, <3>1, <3>2 DEF n
  <2>3. l = k
    <3>1. 0 < o[l]
      BY <1>1, <1>3, <2>2
    <3>2. o[k - 1] < o[l] /\ o[l] <= o[k]
      BY <1>4, <2>2, <3>1 DEF a, b
    <3>3. ~ (k < l)
      BY <1>1, <1>3, <2>2, <3>2 DEF b
    <3>4. ~ (l <= k - 1)
      <4>1. l < k - 1 => o[l] < o[k - 1]
        BY <1>1, <1>3, <2>2
      <4>2. o[k - 1] \in Nat
        BY <1>3 DEF a
      <4> QED BY <1>3, <2>2, <3>2, <4>1, <4>2
    <3> QED BY <1>3, <2>2, <3>3, <3>4
  <2>4. q # 0 /\ q <= i
    <3>1. K # 1
      BY <1>1
    <3>2. o[1] <= o[l]
      <4>1. l = 1 \/ 1 < l
        BY <2>2
      <4>2. 1 < l => o[1] < o[l]
        BY <1>1, <1>3, <2>2
      <4> QED BY <1>5, <2>2, <4>1, <4>2
    <3> QED BY <1>1, <1>5, <2>2, <3>1, <3>2
  <2>5. first = FALSE
    BY <1>5, <2>4 DEF first
  <2>6. v[k] = Parse(SubSeq(s, a + 1, n - 1)) /\ ~ Failed(v[k])
    <3>1. Parse(SubSeq(s, o[k - 1] + 1, o[k])) = v[k] /\ ~ Failed(v[k])
      BY <2>3 DEF AreSegments
    <3> QED BY <1>5, <2>2, <2>3, <3>1 DEF a
  <2>7. f[n] = Between(FALSE, n, Append(w, v[k]))
    <3>1. f[n] = AtChar(s, Between(FALSE, a + 1, w), n)
      BY <1>6, <2>5
    <3> DEFINE p == a + 1
    <3>2. ~ Failed(Parse(SubSeq(s, p, n - 1)))
      BY <2>6
    <3> HIDE DEF p
    <3>3. AtChar(s, Between(FALSE, p, w), n) = Between(FALSE, n, Append(w, Parse(SubSeq(s, p, n - 1))))
      BY <1>1, <1>5, <1>11, <3>2, NextMessageThere
    <3> QED BY <2>6, <3>1, <3>3, Zenon DEF p
  <2>8. Append(w, v[k]) = FirstOnes(v, k)
    <3> DEFINE j == k - 1
    <3>1. j \in Nat /\ j + 1 = k
      BY <1>3
    <3> HIDE DEF j
    <3>2. Append(FirstOnes(v, j), v[j + 1]) = FirstOnes(v, j + 1)
      BY <3>1, OneMoreOf
    <3> QED BY <3>1, <3>2 DEF w, j
  <2> DEFINE m == k + 1
  <2>9. m \in 1 .. K /\ m - 1 = k /\ o[m - 1] < n /\ n <= o[m] /\ n = o[m - 1] + 1
    <3>1. k + 1 \in 1 .. K /\ (k + 1) - 1 = k /\ n = o[k] + 1 /\ o[k] < o[k + 1] /\ o[k + 1] \in Nat /\ o[k] \in Nat
      <4>1. k < k + 1
        BY <1>3
      <4> QED BY <1>1, <2>1, <2>2, <2>3, <4>1
    <3> QED BY <3>1
  <2>10. (q = 0 \/ n < q) = FALSE
    BY <1>5, <2>4
  <2> HIDE DEF m
  <2>11. f[n] = Between(q = 0 \/ n < q, o[m - 1] + 1, FirstOnes(v, m - 1))
    BY <2>7, <2>8, <2>9, <2>10
  <2>12. InSegment(f, o, v, q, m, n)
    BY <2>9, <2>11 DEF InSegment
  <2> QED BY <2>9, <2>12 DEF n
<1> QED BY <1>9, <1>10, <1>11

(* src/parser.rs:23-48, a chunk of segments.                               *)
LEMMA SegmentsRead ==
  ASSUME NEW s, NEW o, NEW v, NEW K, NEW q, AreSegments(s, o, v, K, q)
  PROVE  LET r == ParseMultiArray(s) IN
         IF Failed(v[K]) THEN r.fate = v[K]
         ELSE IF s[Len(s)] = "*" THEN r.fate = Panic
         ELSE r.fate = Fine /\ r.out = FirstOnes(v, K)
<1> DEFINE N == Len(s)
<1>1. /\ N \in Nat /\ K \in Nat \ {0} /\ o[0] = 0 /\ o[K] = N
      /\ \A l \in 0 .. K : o[l] \in Nat
      /\ \A l \in 0 .. K : \A m \in 0 .. K : l < m => o[l] < o[m]
      /\ Parse(SubSeq(s, o[K - 1] + 1, N)) = v[K]
      /\ q \in 0 .. o[1]
  <2>1. K \in Nat \ {0} /\ o[K] = Len(s) /\ \A k \in 1 .. K : Parse(SubSeq(s, o[k - 1] + 1, o[k])) = v[k]
    BY DEF AreSegments
  <2>2. K \in 1 .. K
    BY <2>1
  <2> QED BY <2>1, <2>2 DEF AreSegments
<1>2. PICK f : AreTurns(f, s, N) /\ ParseMultiArray(s) = f[N]
  BY <1>1, TurnsAreTaken
<1>3. N \in Nat \ {0} /\ o[1] \in Nat
  <2>1. 0 \in 0 .. K /\ 1 \in 0 .. K /\ K \in 0 .. K /\ 0 < K
    BY <1>1
  <2>2. 0 < o[K]
    BY <1>1, <2>1
  <2> QED BY <1>1, <2>1, <2>2
<1> DEFINE Good == {i \in 0 .. N - 1 : \E k \in 1 .. K : InSegment(f, o, v, q, k, i)}
<1>4. 0 \in Good
  <2>1. f[0] = Initially
    BY <1>2 DEF AreTurns
  <2>2. 1 - 1 = 0 /\ 0 \in 0 .. N - 1 /\ 1 \in 1 .. K /\ 0 <= o[1] /\ o[0] + 1 = 1
    BY <1>1, <1>3
  <2>3. FirstOnes(v, 1 - 1) = <<>>
    <3>1. 0 \in Nat
      OBVIOUS
    <3> QED BY <2>2, <3>1, OneMoreOf
  <2>4. (q = 0 \/ 0 < q) = TRUE
    BY <1>1, <1>3
  <2>5. Initially = Between(TRUE, 1, <<>>)
    BY Zenon DEF Initially, Between
  <2>6. o[1 - 1] + 1 = 1
    BY <2>2
  <2>7. f[0] = Between(q = 0 \/ 0 < q, o[1 - 1] + 1, FirstOnes(v, 1 - 1))
    BY <2>1, <2>3, <2>4, <2>5, <2>6
  <2>8. InSegment(f, o, v, q, 1, 0)
    BY <2>2, <2>7 DEF InSegment
  <2> QED BY <2>2, <2>8
<1>5. ASSUME NEW i \in 0 .. (N - 1) - 1, i \in Good PROVE i + 1 \in Good
  <2>1. i \in Nat /\ i + 1 < Len(s) /\ i + 1 \in 0 .. N - 1
    BY <1>3
  <2>2. PICK k \in 1 .. K : InSegment(f, o, v, q, k, i)
    BY <1>5
  <2>3. AreTurns(f, s, Len(s))
    BY <1>2
  <2>4. \E m \in 1 .. K : InSegment(f, o, v, q, m, i + 1)
    BY <2>1, <2>2, <2>3, NextInSegment
  <2> QED BY <2>1, <2>4
<1>6. \A i \in 0 .. N - 1 : i \in Good
  <2> HIDE DEF Good
  <2> DEFINE M == N - 1
  <2>1. M \in Nat /\ 0 \in Good
    BY <1>3, <1>4
  <2>2. \A i \in 0 .. M - 1 : i \in Good => i + 1 \in Good
    BY <1>5
  <2> HIDE DEF M, N
  <2>3. \A i \in 0 .. M : i \in Good
    BY <2>1, <2>2, StepByStep
  <2> QED BY <2>3 DEF M
<1> DEFINE i == N - 1
<1>7. i \in Nat /\ i + 1 = N /\ i \in 0 .. N - 1 /\ N \in 1 .. N /\ N - 1 = i
  BY <1>3
<1>8. PICK k \in 1 .. K : InSegment(f, o, v, q, k, i)
  BY <1>6, <1>7
<1> HIDE DEF Good, i, N
(* The last character is in the last segment.                              *)
<1>9. k = K
  <2> SUFFICES ASSUME k # K PROVE FALSE
    OBVIOUS
  <2>1. k \in 0 .. K /\ k < K /\ K \in 0 .. K /\ k - 1 \in 0 .. K /\ k \in 1 .. K - 1
    BY <1>1
  <2>2. o[k] < N /\ o[k] \in Nat
    BY <1>1, <2>1
  <2>3. i <= o[k]
    BY <1>8 DEF InSegment
  <2>4. o[k] = i
    BY <1>7, <2>2, <2>3, <1>3
  <2>5. MessageAt(s, N)
    <3>1. N = o[k] + 1 /\ N \in 1 .. Len(s)
      BY <1>7, <2>4 DEF N
    <3> QED BY <2>1, <3>1 DEF AreSegments
  <2> QED BY <1>3, <2>5 DEF MessageAt, N
<1> DEFINE first == q = 0 \/ i < q
           a == o[k - 1]
           w == FirstOnes(v, k - 1)
           x == v[K]
           p == a + 1
<1>10. f[N] = AtChar(s, Between(first, p, w), N)
  <2>1. f[N] = AtChar(s, f[N - 1], N)
    BY <1>2, <1>7 DEF AreTurns
  <2>2. f[i] = Between(first, p, w)
    BY <1>8 DEF InSegment
  <2> QED BY <1>7, <2>1, <2>2
<1>11. x = Parse(SubSeq(s, p, N))
  BY <1>1, <1>9
<1>12. first \in BOOLEAN
  OBVIOUS
<1>13. Append(w, x) = FirstOnes(v, K)
  <2> DEFINE j == k - 1
  <2>1. j \in Nat /\ j + 1 = K
    BY <1>1, <1>9
  <2> HIDE DEF j
  <2>2. Append(FirstOnes(v, j), v[j + 1]) = FirstOnes(v, j + 1)
    BY <2>1, OneMoreOf
  <2> QED BY <2>1, <2>2 DEF j
<1> HIDE DEF first, p, w, x
<1>14. Ended(f[N], s, w, x)
  <2>1. x = Parse(SubSeq(s, p, Len(s)))
    BY <1>11 DEF N
  <2>2. Ended(AtChar(s, Between(first, p, w), Len(s)), s, w, x)
    BY ONLY <1>12, <2>1, TheEnd
  <2> QED BY <1>10, <2>2 DEF N
<1> DEFINE r == ParseMultiArray(s)
<1>15. r = f[N]
  BY <1>2
<1> HIDE DEF r
<1>16. IF Failed(x) THEN r.fate = x
       ELSE IF s[Len(s)] = "*" THEN r.fate = Panic
       ELSE r.fate = Fine /\ r.out = FirstOnes(v, K)
  BY <1>13, <1>14, <1>15, Zenon DEF Ended
<1> QED BY <1>16 DEF r, x

(* If no beginning of a chunk parses, the chunk does not.                  *)
LEMMA NothingRead ==
  ASSUME NEW s, Len(s) \in Nat \ {0}, \A n \in 0 .. Len(s) : Parse(SubSeq(s, 1, n)) = Bad
  PROVE  ParseMultiArray(s).fate = Bad
<1> DEFINE N == Len(s)
<1>1. N \in Nat /\ N \in Nat \ {0}
  OBVIOUS
<1>2. PICK f : AreTurns(f, s, N) /\ ParseMultiArray(s) = f[N]
  BY <1>1, TurnsAreTaken
<1> DEFINE Lost(acc) == acc.fate = Bad \/ \E first \in BOOLEAN : acc = Between(first, 1, <<>>)
           Good == {i \in 0 .. N - 1 : Lost(f[i])}
<1>3. Failed(Bad)
  BY DEF Failed
<1>4. 0 \in Good
  <2>1. f[0] = Initially
    BY <1>2 DEF AreTurns
  <2>2. Initially = Between(TRUE, 1, <<>>)
    BY Zenon DEF Initially, Between
  <2>3. 0 \in 0 .. N - 1
    BY <1>1
  <2> QED BY <2>1, <2>2, <2>3
<1>5. ASSUME NEW i \in 1 .. N, f[i - 1].fate = Bad PROVE f[i].fate = Bad
  <2>1. f[i] = AtChar(s, f[i - 1], i)
    BY <1>2 DEF AreTurns
  <2> DEFINE acc == f[i - 1]
  <2>2. acc.fate = Bad
    BY <1>5
  <2> HIDE DEF acc
  <2>3. AtChar(s, acc, i) = acc
    BY <1>3, <2>2, Zenon DEF AtChar
  <2> QED BY <2>1, <2>2, <2>3 DEF acc
<1>6. ASSUME NEW i \in 0 .. (N - 1) - 1, i \in Good PROVE i + 1 \in Good
  <2> DEFINE n == i + 1
  <2>1. n \in 0 .. N - 1 /\ n \in 1 .. N /\ n - 1 = i /\ n \in Nat /\ n < Len(s) /\ i \in 0 .. N
    BY <1>1
  <2>2. f[n] = AtChar(s, f[n - 1], n)
    BY <1>2, <2>1 DEF AreTurns
  <2> HIDE DEF n
  <2>3. CASE f[i].fate = Bad
    BY <1>5, <2>1, <2>3 DEF n
  <2>4. ASSUME NEW first \in BOOLEAN, f[i] = Between(first, 1, <<>>) PROVE Lost(f[n])
    <3>1. f[n] = AtChar(s, Between(first, 1, <<>>), n)
      BY <2>1, <2>2, <2>4
    <3>2. CASE ~ MessageAt(s, n)
      <4>1. f[n] = Between(first, 1, <<>>)
        BY <2>1, <3>1, <3>2, NoMessageThere
      <4> QED BY <4>1
    <3>3. CASE MessageAt(s, n) /\ first
      <4>1. f[n] = Between(FALSE, 1, <<>>)
        <5> DEFINE none == <<>>
        <5>1. f[n] = AtChar(s, Between(TRUE, 1, none), n)
          BY <3>1, <3>3
        <5> HIDE DEF none
        <5>2. Len(s) \in Nat /\ n \in Nat /\ MessageAt(s, n)
          BY <2>1, <3>3
        <5>3. AtChar(s, Between(TRUE, 1, none), n) = Between(FALSE, 1, none)
          BY ONLY <5>2, FirstMessageThere
        <5> QED BY <5>1, <5>3 DEF none
      <4> QED BY <4>1
    <3>4. CASE MessageAt(s, n) /\ ~ first
      <4> DEFINE acc == Between(FALSE, 1, <<>>)
      <4>1. f[n] = AtChar(s, acc, n)
        BY <3>1, <3>4
      <4>2. s[n] = "*" /\ n < Len(s) /\ IsDigit(s[n + 1])
        BY <3>4 DEF MessageAt
      <4>3. acc.fate = Fine /\ acc.first = FALSE /\ acc.pre = 1
        BY DEF Between
      <4> HIDE DEF acc
      <4>4. AtLast(s, acc, n) = acc
        BY <4>2 DEF AtLast
      <4>5. AtStar(s, acc, n) = [Take(acc, Bad) EXCEPT !.pre = n]
        <5>1. Parse(SubSeq(s, acc.pre, n - 1)) = Bad
          BY <2>1, <4>3
        <5> DEFINE y == Parse(SubSeq(s, acc.pre, n - 1))
        <5>2. AtStar(s, acc, n) = [Take(acc, y) EXCEPT !.pre = n]
          BY <4>2, <4>3 DEF AtStar
        <5> QED BY <5>1, <5>2
      <4>6. [Take(acc, Bad) EXCEPT !.pre = n].fate = Bad
        <5>1. Take(acc, Bad) = [acc EXCEPT !.fate = Bad]
          BY <1>3 DEF Take
        <5>2. ASSUME NEW x, NEW fst, NEW g, NEW none
              PROVE  [[[first |-> fst, pre |-> 1, out |-> none, fate |-> g] EXCEPT !.fate = x]
                       EXCEPT !.pre = n].fate = x
          OBVIOUS
        <5> QED BY <5>1, <5>2, Zenon DEF acc, Between
      <4>7. AtChar(s, acc, n).fate = Bad
        BY <4>3, <4>4, <4>5, <4>6, FineIsFine, Zenon DEF AtChar
      <4> QED BY <4>1, <4>7
    <3> QED BY <3>2, <3>3, <3>4
  <2> QED BY <1>6, <2>1, <2>3, <2>4 DEF n
<1>7. \A i \in 0 .. N - 1 : i \in Good
  <2> HIDE DEF Good
  <2> DEFINE M == N - 1
  <2>1. M \in Nat /\ 0 \in Good
    BY <1>1, <1>4
  <2>2. \A i \in 0 .. M - 1 : i \in Good => i + 1 \in Good
    BY <1>6
  <2> HIDE DEF M, N
  <2>3. \A i \in 0 .. M : i \in Good
    BY <2>1, <2>2, StepByStep
  <2> QED BY <2>3 DEF M
<1>8. Lost(f[N - 1])
  <2>1. N - 1 \in 0 .. N - 1
    BY <1>1
  <2> QED BY <1>7, <2>1
<1>9. N \in 1 .. N
  BY <1>1
<1>10. CASE f[N - 1].fate = Bad
  BY <1>2, <1>5, <1>9, <1>10
<1>11. ASSUME NEW first \in BOOLEAN, f[N - 1] = Between(first, 1, <<>>) PROVE f[N].fate = Bad
  <2>1. f[N] = AtChar(s, Between(first, 1, <<>>), Len(s))
    BY <1>2, <1>9, <1>11 DEF AreTurns
  <2>2. Parse(SubSeq(s, 1, Len(s))) = Bad
    <3>1. N \in 0 .. Len(s)
      BY <1>1
    <3> QED BY <3>1
  <2>3. Ended(f[N], s, <<>>, Bad)
    BY <2>1, <2>2, TheEnd
  <2> QED BY <1>3, <2>3 DEF Ended
<1> QED BY <1>2, <1>8, <1>10, <1>11

-----------------------------------------------------------------------------
(* A header and its line break, character by character.                    *)
HasHeaderChars(x, symbol, width, length, S) ==
  /\ width \in Nat \ {0} /\ length = width + 1
  /\ x \in Seq(S) /\ Len(x) = width + 3
  /\ x[1] = symbol /\ x[width + 2] = "cr" /\ x[width + 3] = "lf"
  /\ \A i \in 2 .. width + 1 : x[i] \in DigitChars

LEMMA HeaderChars ==
  ASSUME NEW S, Symbols \subseteq S, NEW symbol \in {"$", "*"}, NEW n \in Nat
  PROVE  HasHeaderChars(Header(symbol, n) \o CrLf, symbol, Width(n), Len(Header(symbol, n)), S)
<1> DEFINE h == Header(symbol, n)
           x == h \o CrLf
           d == Decimal[n]
           W == Width(n)
           a == <<symbol>>
<1>1. /\ h \in Seq(S) /\ Len(h) \in Nat /\ Len(h) >= 2 /\ h[1] = symbol
      /\ CrLf \in Seq(S) /\ Len(CrLf) = 2 /\ CrLf[1] = "cr" /\ CrLf[2] = "lf"
  BY HeaderFacts, CrLfIsText, ZenonT(60)
<1>2. d \in Seq(DigitChars) /\ Len(d) = W /\ W \in Nat \ {0}
  BY DecimalFacts, WidthIsNat
<1>3. a \o d = h
  BY DEF Header
<1> HIDE DEF x
<1>4. DigitChars \subseteq S /\ symbol \in S
  BY DEF Symbols, DigitChars
<1>5. d \in Seq(S) /\ a \in Seq(S) /\ Len(a) = 1
  <2>1. d \in Seq(S)
    <3> HIDE DEF d
    <3> QED BY <1>2, <1>4, SeqMonotonic
  <2> QED BY <1>4, <2>1
<1> HIDE DEF d, W, a
<1>6. Len(a \o d) = Len(a) + Len(d) /\ \A i \in 1 .. Len(d) : (a \o d)[Len(a) + i] = d[i]
  BY ONLY <1>5, Joining
<1> HIDE DEF h
<1>7. Len(h) = W + 1 /\ \A i \in 1 .. W : h[1 + i] = d[i]
  BY <1>2, <1>3, <1>5, <1>6
<1>8. /\ x \in Seq(S) /\ Len(x) = Len(h) + Len(CrLf)
      /\ \A i \in 1 .. Len(h) : x[i] = h[i]
      /\ \A i \in 1 .. Len(CrLf) : x[Len(h) + i] = CrLf[i]
  <2>1. x = h \o CrLf
    BY DEF h, x
  <2>2. h \in Seq(S) /\ CrLf \in Seq(S)
    BY <1>1
  <2> QED BY ONLY <2>1, <2>2, Joining
<1>9. x[1] = symbol /\ x[W + 2] = "cr" /\ x[W + 3] = "lf" /\ Len(x) = W + 3
  <2>1. 1 \in 1 .. Len(h) /\ 1 \in 1 .. Len(CrLf) /\ 2 \in 1 .. Len(CrLf)
        /\ Len(h) + 1 = W + 2 /\ Len(h) + 2 = W + 3
    BY <1>1, <1>2, <1>7
  <2> QED BY <1>1, <1>7, <1>8, <2>1
<1>10. ASSUME NEW i \in 2 .. W + 1 PROVE x[i] \in DigitChars
  <2> DEFINE j == i - 1
  <2>1. j \in 1 .. W /\ 1 + j = i /\ i \in 1 .. Len(h)
    BY <1>2, <1>7
  <2> HIDE DEF j
  <2>2. x[i] = d[j]
    BY <1>7, <1>8, <2>1
  <2>3. d[j] \in DigitChars
    BY <1>2, <2>1, ElementOfSeq
  <2> QED BY <2>2, <2>3
<1>11. HasHeaderChars(x, symbol, W, Len(h), S)
  BY <1>2, <1>7, <1>8, <1>9, <1>10 DEF HasHeaderChars
<1> QED BY <1>11 DEF W, h, x

(* A header that is cut announces nothing unless the cut is in its number, *)
(* or right behind it.                                                     *)
IsCutHeader(w, symbol, width, m, S) ==
  /\ w \in Seq(S) /\ Len(w) = m /\ w # <<>> /\ w[1] = symbol /\ NoBreak(w)
  /\ IsInt(Tail(w)) <=> m \in 2 .. width + 1
  /\ IsInt(Tail(w)) => IntOf(Tail(w)) \in Nat

LEMMA HeaderCutAt ==
  ASSUME NEW S, Symbols \subseteq S, NEW symbol \in {"$", "*"}, NEW n \in Nat,
         NEW m \in 1 .. Width(n) + 2
  PROVE  IsCutHeader(SubSeq(Header(symbol, n) \o CrLf, 1, m), symbol, Width(n), m, S)
<1> DEFINE x == Header(symbol, n) \o CrLf
           w == SubSeq(x, 1, m)
           W == Width(n)
           t == Tail(w)
<1> SUFFICES IsCutHeader(w, symbol, W, m, S)
  OBVIOUS
<1>1. /\ W \in Nat \ {0} /\ Len(Header(symbol, n)) = W + 1
      /\ x \in Seq(S) /\ Len(x) = W + 3
      /\ x[1] = symbol /\ x[W + 2] = "cr"
      /\ \A i \in 2 .. W + 1 : x[i] \in DigitChars
  <2>1. HasHeaderChars(x, symbol, W, Len(Header(symbol, n)), S)
    BY HeaderChars
  <2> HIDE DEF x, W, t
  <2> QED BY <2>1 DEF HasHeaderChars
<1>2. w = SubSeq(x, 1, m)
  OBVIOUS
<1> HIDE DEF x, w, t
<1>3. m \in Nat \ {0} /\ m \in 0 .. Len(x) /\ m <= Len(Header(symbol, n)) + 1
  BY <1>1 DEF W
<1>4. IsHeaderCut(w, symbol, S)
  BY <1>2, <1>3, HeaderCut DEF x, w
<1>5. w \in Seq(S) /\ w # <<>> /\ w[1] = symbol /\ NoBreak(w) /\ (IsInt(t) => IntOf(t) \in Nat)
  BY <1>4 DEF IsHeaderCut, t
<1>6. Len(w) = m /\ \A i \in 1 .. m : w[i] = x[i]
  BY <1>1, <1>2, <1>3, BeginningOf, ZenonT(60)
<1>7. t \in Seq(S) /\ Len(t) = m - 1 /\ \A i \in 1 .. m - 1 : t[i] = w[i + 1]
  BY ONLY <1>5, <1>6 DEF t
<1> HIDE DEF W
<1>8. CASE m = 1
  <2>1. t = <<>>
    BY <1>7, <1>8
  <2>2. ~ IsInt(t)
    BY <2>1 DEF IsInt, Unsigned
  <2>3. m \notin 2 .. W + 1
    BY <1>1, <1>8
  <2> QED BY <1>5, <1>6, <2>2, <2>3 DEF t, IsCutHeader
<1>9. CASE m \in 2 .. W + 1
  <2>1. \A i \in 1 .. m - 1 : i + 1 \in 2 .. W + 1 /\ i + 1 \in 1 .. m
    BY <1>1, <1>9
  <2>2. \A i \in 1 .. m - 1 : t[i] \in DigitChars
    BY <1>1, <1>6, <1>7, <2>1
  <2>3. t \in Seq(DigitChars)
    <3>1. DOMAIN t = 1 .. m - 1 /\ m - 1 \in Nat
      BY <1>3, <1>7
    <3>2. t \in [1 .. m - 1 -> DigitChars]
      <4>1. t = [i \in 1 .. m - 1 |-> t[i]]
        BY <1>7, <3>1
      <4> QED BY <2>2, <4>1, Zenon
    <3> QED BY <3>1, <3>2, TupleIsSeq
  <2>4. t # <<>>
    BY <1>7, <1>9, <1>1
  <2>5. IsInt(t)
    BY <2>3, <2>4, DigitsAreInt
  <2> QED BY <1>5, <1>6, <1>9, <2>5 DEF t, IsCutHeader
<1>10. CASE m = W + 2
  <2>1. t # <<>> /\ t[Len(t)] = "cr"
    <3>1. m - 1 \in 1 .. m - 1 /\ m \in 1 .. m /\ (m - 1) + 1 = m
      BY <1>1, <1>10
    <3>2. t[m - 1] = x[m]
      BY <1>6, <1>7, <3>1
    <3>3. t # <<>>
      BY <1>7, <3>1
    <3> QED BY <1>1, <1>7, <1>10, <3>2, <3>3
  <2>2. ~ IsInt(t)
    BY <1>7, <2>1, NoIntBeforeBreak
  <2>3. m \notin 2 .. W + 1
    BY <1>1, <1>10
  <2> QED BY <1>5, <1>6, <2>2, <2>3 DEF t, IsCutHeader
<1>11. m = 1 \/ m \in 2 .. W + 1 \/ m = W + 2
  BY <1>1, m \in 1 .. Width(n) + 2 DEF W
<1> QED BY <1>8, <1>9, <1>10, <1>11

(* A word with none of the characters that begin a value or a line break.  *)
Signs == {"*", "$", "+", ":", "cr", "lf"}
Bare(w) == \A i \in 1 .. Len(w) : w[i] \notin Signs

IsCutWord(v, k, S) == v \in Seq(S) /\ Len(v) = k /\ NoBreak(v) /\ CountQoda(v) = 0

LEMMA CutWord ==
  ASSUME NEW S, Symbols \subseteq S, NEW t \in Seq(S), NoBreak(t), Bare(t),
         NEW k \in 0 .. Len(t) + 1
  PROVE  IsCutWord(SubSeq(t \o CrLf, 1, k), k, S)
<1> DEFINE y == t \o CrLf
           v == SubSeq(y, 1, k)
           n == Len(t)
<1>1. v \in Seq(S) /\ NoBreak(v)
  <2>1. v = SubSeq(t \o CrLf, 1, k)
    OBVIOUS
  <2> HIDE DEF v
  <2> QED BY <2>1, ShortBulk
<1> SUFFICES IsCutWord(v, k, S)
  OBVIOUS
<1>2. /\ n \in Nat /\ y \in Seq(S) /\ Len(y) = n + 2 /\ y[n + 1] = "cr"
      /\ \A i \in 1 .. n : y[i] = t[i]
  <2>1. t \in Seq(S) /\ CrLf \in Seq(S) /\ Len(CrLf) = 2 /\ CrLf[1] = "cr"
    BY CrLfIsText
  <2>2. /\ y \in Seq(S) /\ Len(y) = Len(t) + Len(CrLf)
        /\ \A i \in 1 .. Len(t) : y[i] = t[i]
        /\ \A i \in 1 .. Len(CrLf) : y[Len(t) + i] = CrLf[i]
    <3>1. t \in Seq(S) /\ CrLf \in Seq(S)
      BY <2>1
    <3> QED BY ONLY <3>1, Joining
  <2>3. 1 \in 1 .. Len(CrLf) /\ n \in Nat
    BY <2>1
  <2> HIDE DEF y
  <2> QED BY <2>1, <2>2, <2>3
<1> HIDE DEF y, v
<1>3. k \in 0 .. Len(y)
  BY <1>2
<1>4. Len(v) = k /\ \A i \in 1 .. k : v[i] = y[i]
  <2>1. v = SubSeq(y, 1, k)
    BY DEF y, v
  <2> QED BY <1>2, <1>3, <2>1, BeginningOf, ZenonT(60)
<1>5. CASE k = 0
  <2>1. Len(v) < 2
    BY <1>4, <1>5
  <2>2. CountQoda(v) = 0
    BY <2>1 DEF CountQoda
  <2> QED BY <1>1, <1>4, <2>2 DEF IsCutWord
<1>6. CASE k # 0
  <2>1. v[1] # "$" /\ v[1] # "*"
    <3>1. 1 \in 1 .. k /\ (1 \in 1 .. n \/ 1 = n + 1)
      BY <1>2, <1>6
    <3>2. v[1] = y[1]
      BY <1>4, <3>1
    <3>3. CASE 1 \in 1 .. n
      <4>1. y[1] = t[1] /\ t[1] \notin Signs
        BY <1>2, <3>3 DEF Bare
      <4> QED BY <3>2, <4>1 DEF Signs
    <3>4. CASE 1 = n + 1
      BY <1>2, <3>2, <3>4
    <3> QED BY <3>1, <3>3, <3>4
  <2>2. CountQoda(v) = 0
    BY <2>1, NoHeader
  <2> QED BY <1>1, <1>4, <2>2 DEF IsCutWord
<1> QED BY <1>5, <1>6

-----------------------------------------------------------------------------
(* What is left of a string that is cut, by the place of the cut.          *)
PlaceOf(length, r) ==
  IF r <= 1 THEN r ELSE IF r < Width(length) + 2 THEN 2 ELSE IF r = Width(length) + 2 THEN 3
  ELSE IF r < Width(length) + 3 + length THEN 4 ELSE 5
PlaceValue(t, place) == IF place = 4 THEN Panic ELSE IF place = 5 THEN Bulk(t) ELSE Bad
Exactly(e, v) == \A deeper : ParseBy(e, deeper) = v

LEMMA BulkOrPanic ==
  ASSUME NEW S, Symbols \subseteq S, NEW t \in Seq(S),
         NEW k \in 0 .. Len(t) + 1, NEW u \in Seq(S), u # <<>>, u[1] = "$",
         Len(Lines(u)) \in Nat, Len(Lines(u)) >= 2,
         Lines(u)[1] = Header("$", Len(t)), Lines(u)[2] = SubSeq(t \o CrLf, 1, k)
  PROVE  Exactly(u, IF k < Len(t) THEN Panic ELSE Bulk(t))
<1> DEFINE h == Header("$", Len(t))
           y == t \o CrLf
           n == Len(t)
           v == SubSeq(y, 1, k)
           N == IntOf(Tail(h))
<1>1. n \in Nat /\ IsInt(Tail(h)) /\ IntOf(Tail(h)) = n
  <2>1. n \in Nat
    OBVIOUS
  <2> QED BY <2>1, HeaderFacts, DecimalIsInt
<1>2. /\ y \in Seq(S) /\ Len(y) = n + 2
      /\ \A i \in 1 .. n : y[i] = t[i]
  <2>1. t \in Seq(S) /\ CrLf \in Seq(S) /\ Len(CrLf) = 2
    BY CrLfIsText
  <2>2. /\ y \in Seq(S) /\ Len(y) = Len(t) + Len(CrLf)
        /\ \A i \in 1 .. Len(t) : y[i] = t[i]
    <3>1. t \in Seq(S) /\ CrLf \in Seq(S)
      BY <2>1
    <3> QED BY ONLY <3>1, Joining
  <2> HIDE DEF y
  <2> QED BY <2>1, <2>2
<1>3. Lines(u)[1] = h /\ Lines(u)[2] = v /\ t \in Seq(S)
  OBVIOUS
<1> HIDE DEF y
<1>4. k \in Nat /\ k \in 0 .. Len(y)
  BY <1>1, <1>2
<1>5. v \in Seq(S) /\ Len(v) = k /\ \A i \in 1 .. k : v[i] = y[i]
  BY <1>2, <1>4, BeginningOf, ZenonT(60)
<1> HIDE DEF v
<1>6. n <= k => SubSeq(v, 1, n) = t
  <2> SUFFICES ASSUME n <= k PROVE SubSeq(v, 1, n) = t
    OBVIOUS
  <2> DEFINE z == SubSeq(v, 1, n)
  <2>5. t \in Seq(S) /\ Len(t) = n
    BY <1>3
  <2> HIDE DEF n
  <2>1. n \in 0 .. Len(v)
    BY ONLY <1>1, <1>4, <1>5, n <= k
  <2>2. z \in Seq(S) /\ Len(z) = n /\ \A i \in 1 .. n : z[i] = v[i]
    BY <1>5, <2>1, BeginningOf
  <2> HIDE DEF z
  <2>3. \A i \in 1 .. n : i \in 1 .. k
    BY ONLY <1>1, <1>4, n <= k
  <2>4. \A i \in 1 .. n : z[i] = t[i]
    BY ONLY <1>2, <1>5, <2>2, <2>3
  <2>6. z = t
    BY ONLY <2>2, <2>4, <2>5, Extensional
  <2> QED BY <2>6 DEF z
<1> HIDE DEF h
<1>7. ParseBulkString(u) =
        CASE N = -1       -> Null
          [] N < -1       -> Bad
          [] N > Len(v)   -> Panic
          [] N \in 0 .. Len(v) -> Bulk(SubSeq(v, 1, N))
  <2>1. ~ (Len(Lines(u)) < 2)
    OBVIOUS
  <2>2. ~ (Len(Lines(u)) < 2 \/ ~ IsInt(Tail(Lines(u)[1]))) /\ Tail(Lines(u)[1]) = Tail(h)
    BY <1>1, <1>3, <2>1
  <2> QED BY <1>3, <2>2, Zenon DEF ParseBulkString
<1>8. N = n
  BY <1>1
<1> HIDE DEF N, n
<1>9. ParseBulkString(u) = IF k < n THEN Panic ELSE Bulk(t)
  <2>1. CASE n <= k
    <3>1. N # -1 /\ ~ (N < -1) /\ ~ (N > Len(v)) /\ N \in 0 .. Len(v) /\ ~ (k < n)
      BY ONLY <1>1, <1>4, <1>5, <1>8, <2>1
    <3> QED BY <1>6, <1>7, <1>8, <2>1, <3>1
  <2>2. CASE n > k
    <3>1. N # -1 /\ ~ (N < -1) /\ N > Len(v) /\ N \notin 0 .. Len(v)
      BY ONLY <1>1, <1>4, <1>5, <1>8, <2>2
    <3> QED BY <1>7, <2>2, <3>1
  <2> QED BY <1>1, <1>4, <2>1, <2>2
<1>10. \A deeper : ParseBy(u, deeper) = IF k < n THEN Panic ELSE Bulk(t)
  BY <1>9, BulkByItself
<1> QED BY <1>10, Zenon DEF Exactly, n

(* A string is read whatever stands behind it.                             *)
LEMMA BulkAndRest ==
  ASSUME NEW S, Symbols \subseteq S, NEW t \in Seq(S), NoBreak(t), NEW rest \in Seq(S)
  PROVE  BulkText(t) \o rest \in Seq(S) /\ Exactly(BulkText(t) \o rest, Bulk(t))
<1> DEFINE u == BulkText(t) \o rest
           h == Header("$", Len(t))
           l == Lines(rest)
           n == Len(t)
<1>1. /\ BulkText(t) \in Seq(S) /\ Len(BulkText(t)) \in Nat /\ Len(BulkText(t)) >= 4
      /\ BulkText(t)[1] = "$"
  BY BulkTextFacts
<1>2. /\ u \in Seq(S) /\ Len(u) = Len(BulkText(t)) + Len(rest) /\ Len(rest) \in Nat
      /\ \A i \in 1 .. Len(BulkText(t)) : u[i] = BulkText(t)[i]
  <2>1. BulkText(t) \in Seq(S) /\ rest \in Seq(S)
    BY <1>1
  <2> QED BY ONLY <2>1, Joining
<1>3. u # <<>> /\ u[1] = "$"
  <2>1. 1 \in 1 .. Len(BulkText(t)) /\ Len(u) >= 4
    BY <1>1, <1>2
  <2> QED BY <1>1, <1>2, <2>1
<1>4. l \in Seq(Seq(S)) /\ Lines(u) = <<h, t>> \o l
  BY BulkLines
<1>5. n \in Nat /\ h \in Seq(S)
  <2>1. n \in Nat
    OBVIOUS
  <2> QED BY <2>1, HeaderFacts
<1> HIDE DEF u, h, l
<1>6. Len(Lines(u)) \in Nat /\ Len(Lines(u)) >= 2 /\ Lines(u)[1] = h /\ Lines(u)[2] = t
  BY <1>4, <1>5
<1>7. n \in 0 .. Len(t) + 1 /\ SubSeq(t \o CrLf, 1, n) = t
  <2>1. t \in Seq(S) /\ CrLf \in Seq(S) /\ Len(CrLf) = 2
    BY CrLfIsText
  <2>2. n \in 0 .. Len(t) + Len(CrLf) /\ n <= Len(t)
    BY <2>1
  <2>3. SubSeq(t \o CrLf, 1, n) = SubSeq(t, 1, n)
    <3> HIDE DEF n
    <3> QED BY <2>1, <2>2, CutJoined
  <2>4. SubSeq(t, 1, n) = t
    OBVIOUS
  <2> QED BY <2>2, <2>3, <2>4
<1>8. Exactly(u, IF n < n THEN Panic ELSE Bulk(t))
  <2> HIDE DEF n
  <2>1. Lines(u)[2] = SubSeq(t \o CrLf, 1, n) /\ Lines(u)[1] = Header("$", Len(t)) /\ Len(t) = n
    BY <1>6, <1>7 DEF h, n
  <2> QED BY <1>2, <1>3, <1>6, <1>7, <2>1, BulkOrPanic
<1>9. ~ (n < n)
  BY <1>5
<1> QED BY <1>2, <1>8, <1>9 DEF u

(* One line that begins as the header of a string is no value, with its    *)
(* line break or without.                                                  *)
LEMMA OneLineIsBad ==
  ASSUME NEW S, Symbols \subseteq S, NEW w \in Seq(S), NoBreak(w), w # <<>>, w[1] = "$"
  PROVE  /\ Exactly(w, Bad)
         /\ ~ IsInt(Tail(w)) => CountQoda(w) = 0 /\ Exactly(w \o CrLf, Bad)
         /\ IsInt(Tail(w)) /\ IntOf(Tail(w)) \in Nat /\ Len(w) >= 2 => CountQoda(w) = 1
<1>1. Exactly(w, Bad)
  <2>1. Lines(w) = <<w>>
    BY OneLine
  <2>2. Len(Lines(w)) < 2
    BY <2>1
  <2>3. ParseBulkString(w) = Bad
    BY <2>2, Zenon DEF ParseBulkString
  <2>4. \A deeper : ParseBy(w, deeper) = Bad
    BY <2>3, BulkByItself
  <2> QED BY <2>4 DEF Exactly
<1>2. ASSUME ~ IsInt(Tail(w)) PROVE CountQoda(w) = 0 /\ Exactly(w \o CrLf, Bad)
  <2> DEFINE e == w \o CrLf
  <2>1. CountQoda(w) = 0
    BY <1>2 DEF CountQoda
  <2>2. e \in Seq(S) /\ Lines(e) = <<w>> \o << <<>> >> /\ e # <<>> /\ e[1] = "$"
    BY LineAndBreak
  <2> HIDE DEF e
  <2>3. (<<w>> \o << <<>> >>)[1] = w
    <3>1. w \in Seq(S) /\ << <<>> >> \in Seq(Seq(S))
      OBVIOUS
    <3> QED BY ONLY <3>1, FirstOfLines
  <2>4. ParseBulkString(e) = Bad
    BY <1>2, <2>2, <2>3 DEF ParseBulkString
  <2>5. \A deeper : ParseBy(e, deeper) = Bad
    BY <2>2, <2>4, BulkByItself
  <2> QED BY <2>1, <2>5 DEF Exactly, e
<1>3. ASSUME IsInt(Tail(w)), IntOf(Tail(w)) \in Nat, Len(w) >= 2 PROVE CountQoda(w) = 1
  <2> DEFINE N == IntOf(Tail(w))
  <2>1. ~ (Len(w) < 2 \/ w[1] \notin {"$", "*"} \/ ~ IsInt(Tail(w))) /\ ~ (N < 0)
    <3>1. N \in Nat /\ Len(w) \in Nat
      BY <1>3
    <3> HIDE DEF N
    <3> QED BY <1>3, <3>1
  <2> QED BY <2>1 DEF CountQoda
<1> QED BY <1>1, <1>2, <1>3

LEMMA BreakIsBad == Exactly(CrLf, Bad)
<1>1. CrLf # <<>> /\ CrLf[1] = "cr"
  BY DEF CrLf
<1>2. \A deeper : ParseBy(CrLf, deeper) = Bad
  BY <1>1 DEF ParseBy
<1> QED BY <1>2 DEF Exactly

(* The lines of a string that is cut, and what its text is read as.        *)
Places == 0 .. 5
Waits(r) == Len(Lines(r)) = 1 /\ Lines(r)[1] = r /\ CountQoda(r) = 1
Breaks(r) == Len(Lines(r)) = 1 /\ Lines(r)[1] = r /\ CountQoda(r) = 0 /\ Exactly(r \o CrLf, Bad)
HasBoth(r, v) == /\ Len(Lines(r)) = 2 /\ CountQoda(Lines(r)[1]) = 1 /\ CountQoda(Lines(r)[2]) = 0
                 /\ (Lines(r)[1] \o CrLf) \o Lines(r)[2] = r
                 /\ Exactly(r \o CrLf, v)
BulkPiece(r, t, place, S) ==
  /\ r \in Seq(S) /\ place \in Places
  /\ place = 2 => Waits(r)
  /\ place \in {0, 1, 3} => Breaks(r)
  /\ place \in {4, 5} => HasBoth(r, PlaceValue(t, place))
  /\ r # <<>> => Exactly(r, PlaceValue(t, place))

(* A string cut inside its header, by the place of the cut.                *)
LEMMA PieceOfHeader ==
  ASSUME NEW S, Symbols \subseteq S, NEW t \in Seq(S), NEW m \in 0 .. Width(Len(t)) + 2
  PROVE  BulkPiece(SubSeq(Header("$", Len(t)) \o CrLf, 1, m), t, PlaceOf(Len(t), m), S)
<1> DEFINE n == Len(t)
           W == Width(n)
           x == Header("$", n) \o CrLf
           r == SubSeq(x, 1, m)
           place == PlaceOf(n, m)
<1>1. n \in Nat /\ W \in Nat \ {0}
  <2>1. n \in Nat
    OBVIOUS
  <2> QED BY <2>1, WidthIsNat
<1>2. CASE m = 0
  <2>1. r = <<>>
    <3> HIDE DEF x
    <3> QED BY <1>2
  <2>2. place = 0
    BY <1>2 DEF PlaceOf
  <2> HIDE DEF r
  <2>3. Lines(r) = << <<>> >> /\ CountQoda(<<>>) = 0 /\ <<>> \o CrLf = CrLf
    BY <2>1, NothingIsOneLine DEF CountQoda, CrLf
  <2>4. Len(Lines(r)) = 1 /\ Lines(r)[1] = <<>>
    BY <2>3
  <2>5. Breaks(r)
    <3>1. Lines(r)[1] = r /\ CountQoda(r) = 0 /\ r \o CrLf = CrLf
      BY <2>1, <2>3, <2>4
    <3> QED BY <2>4, <3>1, BreakIsBad DEF Breaks
  <2>6. r \in Seq(S)
    BY <2>1
  <2> HIDE DEF place
  <2>7. BulkPiece(r, t, place, S)
    BY <2>1, <2>2, <2>5, <2>6 DEF BulkPiece, Places
  <2> QED BY <2>7 DEF r, place
<1>3. CASE m \in 1 .. W + 2
  <2>0. IsCutHeader(r, "$", W, m, S)
    <3>1. n \in Nat /\ m \in 1 .. Width(n) + 2 /\ "$" \in {"$", "*"}
      BY <1>1, <1>3
    <3> HIDE DEF n
    <3> QED BY ONLY <3>1, Symbols \subseteq S, HeaderCutAt
  <2> HIDE DEF r
  <2>1. /\ r \in Seq(S) /\ Len(r) = m /\ r # <<>> /\ r[1] = "$" /\ NoBreak(r)
        /\ (IsInt(Tail(r)) <=> m \in 2 .. W + 1)
        /\ (IsInt(Tail(r)) => IntOf(Tail(r)) \in Nat)
    BY <2>0 DEF IsCutHeader
  <2>2. Lines(r) = <<r>>
    BY <2>1, OneLine
  <2>3. Len(Lines(r)) = 1 /\ Lines(r)[1] = r
    BY <2>2
  <2>4. /\ Exactly(r, Bad)
        /\ ~ IsInt(Tail(r)) => CountQoda(r) = 0 /\ Exactly(r \o CrLf, Bad)
        /\ IsInt(Tail(r)) /\ IntOf(Tail(r)) \in Nat /\ Len(r) >= 2 => CountQoda(r) = 1
    BY <2>1, OneLineIsBad
  <2>5. CASE m \in 2 .. W + 1
    <3>1. place = 2
      BY <1>1, <2>5 DEF PlaceOf
    <3>2. Waits(r)
      BY <2>1, <2>3, <2>4, <2>5 DEF Waits
    <3>3. PlaceValue(t, place) = Bad
      BY <3>1 DEF PlaceValue
    <3> HIDE DEF place
    <3>4. BulkPiece(r, t, place, S)
      BY <2>1, <2>4, <3>1, <3>2, <3>3 DEF BulkPiece, Places
    <3> QED BY <3>4 DEF place, r
  <2>6. CASE m = 1 \/ m = W + 2
    <3>1. place \in {1, 3}
      BY <1>1, <2>6 DEF PlaceOf
    <3>2. ~ IsInt(Tail(r))
      <4>1. m \notin 2 .. W + 1
        BY <1>1, <2>6
      <4> QED BY <2>1, <4>1
    <3>3. PlaceValue(t, place) = Bad
      BY <3>1 DEF PlaceValue
    <3>4. Breaks(r)
      BY <2>3, <2>4, <3>2 DEF Breaks
    <3> HIDE DEF place
    <3>5. place \in Places /\ place # 2 /\ place \notin {4, 5}
      BY <3>1 DEF Places
    <3>6. BulkPiece(r, t, place, S)
      BY <2>1, <2>4, <3>3, <3>4, <3>5 DEF BulkPiece
    <3> QED BY <3>6 DEF place, r
  <2> QED BY <1>1, <1>3, <2>5, <2>6
<1> QED BY <1>1, <1>2, <1>3

(* A string cut inside its data.                                           *)
LEMMA PieceOfData ==
  ASSUME NEW S, Symbols \subseteq S, NEW t \in Seq(S), NoBreak(t), Bare(t), NEW k \in 0 .. Len(t) + 1
  PROVE  BulkPiece((Header("$", Len(t)) \o CrLf) \o SubSeq(t \o CrLf, 1, k), t,
                   IF k < Len(t) THEN 4 ELSE 5, S)
<1> DEFINE h == Header("$", Len(t))
           x == h \o CrLf
           v == SubSeq(t \o CrLf, 1, k)
           r == x \o v
           e == r \o CrLf
           n == Len(t)
           place == IF k < n THEN 4 ELSE 5
           w == IF k < n THEN Panic ELSE Bulk(t)
<1>1. /\ n \in Nat /\ h \in Seq(S) /\ NoBreak(h) /\ h[1] = "$" /\ Len(h) \in Nat /\ Len(h) >= 2
      /\ CrLf \in Seq(S) /\ Len(CrLf) = 2 /\ CountQoda(h) = 1
  <2>1. n \in Nat
    OBVIOUS
  <2> QED BY <2>1, HeaderFacts, CrLfIsText, BulkHeaderCounts
<1>2. v \in Seq(S) /\ NoBreak(v) /\ CountQoda(v) = 0
  <2>1. IsCutWord(v, k, S)
    BY CutWord
  <2> HIDE DEF v
  <2> QED BY <2>1 DEF IsCutWord
<1>3. x \in Seq(S) /\ Len(x) \in Nat /\ Len(x) >= 4 /\ x[1] = "$"
  <2>1. h \in Seq(S) /\ CrLf \in Seq(S)
    BY <1>1
  <2> HIDE DEF h
  <2>2. x \in Seq(S) /\ Len(x) = Len(h) + Len(CrLf) /\ \A i \in 1 .. Len(h) : x[i] = h[i]
    BY ONLY <2>1, Joining
  <2>3. 1 \in 1 .. Len(h)
    BY <1>1
  <2> QED BY <1>1, <2>2, <2>3
<1> SUFFICES BulkPiece(r, t, place, S)
  OBVIOUS
<1> HIDE DEF n, x, v
<1>4. /\ r \in Seq(S) /\ Len(r) >= 4 /\ Len(r) \in Nat /\ r[1] = "$" /\ r # <<>>
  <2>1. x \in Seq(S) /\ v \in Seq(S)
    BY <1>2, <1>3
  <2>2. /\ r \in Seq(S) /\ Len(r) = Len(x) + Len(v) /\ Len(v) \in Nat
        /\ \A i \in 1 .. Len(x) : r[i] = x[i]
    BY ONLY <2>1, Joining
  <2>3. 1 \in 1 .. Len(x)
    BY <1>3
  <2> HIDE DEF r
  <2>4. Len(r) >= 4 /\ Len(r) \in Nat /\ r[1] = "$"
    BY <1>3, <2>2, <2>3
  <2> QED BY <2>2, <2>4
<1>5. /\ e \in Seq(S) /\ e # <<>> /\ e[1] = "$"
  <2>1. r \in Seq(S) /\ CrLf \in Seq(S)
    BY <1>1, <1>4
  <2> HIDE DEF r
  <2>2. /\ e \in Seq(S) /\ Len(e) = Len(r) + Len(CrLf)
        /\ \A i \in 1 .. Len(r) : e[i] = r[i]
    BY ONLY <2>1, Joining
  <2>3. 1 \in 1 .. Len(r)
    BY <1>4
  <2> QED BY <1>1, <1>4, <2>2, <2>3
<1>6. e = x \o (v \o CrLf)
  <2>1. x \in Seq(S) /\ v \in Seq(S) /\ CrLf \in Seq(S)
    BY <1>1, <1>2, <1>3
  <2> QED BY ONLY <2>1, Regrouped, SMTT(60)
<1> DEFINE u == v \o CrLf
<1>7. u \in Seq(S) /\ Lines(u) = <<v>> \o << <<>> >> /\ Lines(v) = <<v>>
  BY <1>2, LineAndBreak, OneLine
<1> HIDE DEF u, h
<1>8. Lines(x \o u) = <<h>> \o Lines(u) /\ Lines(x \o v) = <<h>> \o Lines(v)
  BY <1>1, <1>2, <1>7, LineByLine DEF x
<1>9. Len(Lines(e)) = 3 /\ Lines(e)[1] = h /\ Lines(e)[2] = v
  <2>1. Lines(e) = <<h>> \o (<<v>> \o << <<>> >>)
    BY <1>6, <1>7, <1>8 DEF u
  <2>2. h \in Seq(S) /\ v \in Seq(S)
    BY <1>1, <1>2
  <2> HIDE DEF e
  <2> QED BY ONLY <2>1, <2>2, TwoLines
<1>10. Len(Lines(r)) = 2 /\ Lines(r)[1] = h /\ Lines(r)[2] = v
  <2>1. <<h>> \o <<v>> = <<h, v>>
    BY <1>1, <1>2, Pair
  <2>2. Lines(r) = <<h, v>>
    BY <1>7, <1>8, <2>1
  <2> HIDE DEF r
  <2> QED BY <2>2
<1>11. (Lines(r)[1] \o CrLf) \o Lines(r)[2] = r
  BY <1>10 DEF x
<1> HIDE DEF e, r
<1>12. Exactly(e, w)
  <2>1. Len(Lines(e)) \in Nat /\ Len(Lines(e)) >= 2
    BY <1>9
  <2>2. Lines(e)[1] = Header("$", Len(t)) /\ Lines(e)[2] = SubSeq(t \o CrLf, 1, k)
    BY <1>9 DEF h, v
  <2>3. Exactly(e, IF k < Len(t) THEN Panic ELSE Bulk(t))
    BY <1>5, <2>1, <2>2, BulkOrPanic
  <2> QED BY <2>3 DEF n
<1>13. Exactly(r, w)
  <2>1. Len(Lines(r)) \in Nat /\ Len(Lines(r)) >= 2
    BY <1>10
  <2>2. Lines(r)[1] = Header("$", Len(t)) /\ Lines(r)[2] = SubSeq(t \o CrLf, 1, k)
    BY <1>10 DEF h, v
  <2>3. Exactly(r, IF k < Len(t) THEN Panic ELSE Bulk(t))
    BY <1>4, <2>1, <2>2, BulkOrPanic
  <2> QED BY <2>3 DEF n
<1>14. w = PlaceValue(t, place) /\ place \in {4, 5}
  BY DEF PlaceValue
<1> HIDE DEF w, place
<1>15. HasBoth(r, PlaceValue(t, place))
  BY <1>1, <1>2, <1>10, <1>11, <1>12, <1>14 DEF HasBoth, e
<1>16. place \in Places /\ place # 2 /\ place \notin {0, 1, 3}
  BY <1>14 DEF Places
<1> QED BY <1>4, <1>13, <1>14, <1>15, <1>16 DEF BulkPiece

LEMMA PieceOfBulk ==
  ASSUME NEW S, Symbols \subseteq S, NEW t \in Seq(S), NoBreak(t), Bare(t),
         NEW m \in Nat, m < Len(BulkText(t))
  PROVE  BulkPiece(SubSeq(BulkText(t), 1, m), t, PlaceOf(Len(t), m), S)
<1> DEFINE x == Header("$", Len(t)) \o CrLf
           y == t \o CrLf
           n == Len(t)
           W == Width(n)
           r == SubSeq(BulkText(t), 1, m)
<1>1. n \in Nat /\ W \in Nat \ {0} /\ x \in Seq(S) /\ Len(x) = W + 3
  <2>1. n \in Nat
    OBVIOUS
  <2>2. "$" \in {"$", "*"}
    OBVIOUS
  <2>3. HasHeaderChars(Header("$", n) \o CrLf, "$", Width(n), Len(Header("$", n)), S)
    BY ONLY <2>1, <2>2, Symbols \subseteq S, HeaderChars
  <2> QED BY <2>1, <2>3 DEF HasHeaderChars
<1>2. y \in Seq(S) /\ Len(y) = n + 2
  <2>1. t \in Seq(S) /\ CrLf \in Seq(S) /\ Len(CrLf) = 2
    BY CrLfIsText
  <2>2. t \in Seq(S) /\ CrLf \in Seq(S)
    BY <2>1
  <2>3. y \in Seq(S) /\ Len(y) = Len(t) + Len(CrLf)
    BY ONLY <2>2, Joining
  <2> QED BY <2>1, <2>3
<1>3. BulkText(t) = x \o y
  <2>1. BulkText(t) = (x \o t) \o CrLf
    BY DEF BulkText, Header
  <2>2. x \in Seq(S) /\ t \in Seq(S) /\ CrLf \in Seq(S)
    BY <1>1, CrLfIsText
  <2>3. (x \o t) \o CrLf = x \o (t \o CrLf)
    <3> HIDE DEF x
    <3> QED BY ONLY <2>2, Regrouped
  <2> QED BY <2>1, <2>3
<1>4. Len(BulkText(t)) = Len(x) + Len(y)
  <2> HIDE DEF x, y
  <2>1. Len(x \o y) = Len(x) + Len(y)
    BY ONLY <1>1, <1>2, Joining
  <2> QED BY <1>3, <2>1
<1>5. m < W + n + 5 /\ m \in 0 .. Len(x) + Len(y)
  BY ONLY <1>1, <1>2, <1>4, m \in Nat, m < Len(BulkText(t))
<1>6. /\ m <= Len(x) => r = SubSeq(x, 1, m)
      /\ m >= Len(x) => m - Len(x) \in 0 .. Len(y) /\ r = x \o SubSeq(y, 1, m - Len(x))
  <2>1. r = SubSeq(x \o y, 1, m)
    BY <1>3
  <2>2. x \in Seq(S) /\ y \in Seq(S)
    BY <1>1, <1>2
  <2> HIDE DEF x, y, r
  <2> QED BY ONLY <1>5, <2>1, <2>2, CutJoined, SMTT(60)
<1> HIDE DEF r
<1>7. CASE m < W + 3
  <2>1. m \in 0 .. Width(Len(t)) + 2 /\ m <= Len(x)
    BY <1>1, <1>7
  <2>2. BulkPiece(SubSeq(Header("$", Len(t)) \o CrLf, 1, m), t, PlaceOf(Len(t), m), S)
    BY <2>1, PieceOfHeader
  <2> QED BY <1>6, <2>1, <2>2 DEF r
<1>8. CASE ~ (m < W + 3)
  <2> DEFINE k == m - Len(x)
  <2>1. k \in 0 .. n + 1 /\ m >= Len(x)
    BY <1>1, <1>5, <1>8
  <2>2. PlaceOf(n, m) = IF k < n THEN 4 ELSE 5
    <3>1. ~ (m <= 1) /\ ~ (m < W + 2) /\ m # W + 2 /\ (m < W + 3 + n <=> k < n)
      BY <1>1, <1>8
    <3> HIDE DEF k
    <3> QED BY <3>1 DEF PlaceOf, W
  <2>3. r = x \o SubSeq(y, 1, k)
    BY <1>6, <2>1
  <2> HIDE DEF k, r
  <2>4. k \in 0 .. Len(t) + 1
    BY <2>1
  <2>5. BulkPiece((Header("$", Len(t)) \o CrLf) \o SubSeq(t \o CrLf, 1, k), t,
                  IF k < Len(t) THEN 4 ELSE 5, S)
    BY <2>4, PieceOfData
  <2>6. BulkPiece(r, t, PlaceOf(n, m), S)
    BY <2>2, <2>3, <2>5
  <2> QED BY <2>6 DEF r
<1> QED BY <1>7, <1>8

-----------------------------------------------------------------------------
(* What the lines of a string that is cut add to the elements.             *)
AddsAt(new, es, t, place) ==
  IF place = 2 THEN new = es
  ELSE \E e : new = Append(es, e) /\ Exactly(e, PlaceValue(t, place))
Ready(left, es) == [left |-> left, qoda |-> 1, tmp |-> <<>>, elements |-> es]
GatheredAt(r, left, es, t, place) ==
  \/ Len(Lines(r)) = 1 /\ AddsAt(Gather(Ready(left, es), Lines(r)[1]).elements, es, t, place)
  \/ /\ Len(Lines(r)) = 2
     /\ AddsAt(Gather(Gather(Ready(left, es), Lines(r)[1]), Lines(r)[2]).elements, es, t, place)

(* What a piece adds to the elements of the array it is the last of.       *)
LEMMA PieceGathers ==
  ASSUME NEW S, Symbols \subseteq S, NEW t \in Seq(S), NEW r, NEW place, BulkPiece(r, t, place, S),
         NEW left \in Nat \ {0}, NEW es
  PROVE  GatheredAt(r, left, es, t, place)
<1> DEFINE a == Ready(left, es)
           h == Lines(r)[1]
           v == Lines(r)[2]
<1>1. a.left # 0 /\ a.qoda = 1 /\ a.tmp = <<>> /\ a.elements = es
  <2>1. left # 0
    OBVIOUS
  <2> QED BY <2>1 DEF Ready
<1>2. r \in Seq(S) /\ place \in 0 .. 5
  BY DEF BulkPiece, Places
<1>3. <<>> \o r = r
  BY <1>2, ConcatEmptySeq
<1>4. CASE place = 2
  <2>1. Len(Lines(r)) = 1 /\ h = r /\ CountQoda(r) = 1
    BY <1>4 DEF BulkPiece, Waits
  <2> HIDE DEF a, h
  <2>2. CountQoda(r) \in Nat \ {0}
    BY <2>1
  <2>3. Gather(a, r) = [a EXCEPT !.qoda = CountQoda(r), !.tmp = a.tmp \o r \o CrLf]
    BY ONLY <1>1, <2>2, GatherGoesOn
  <2>4. Gather(a, r).elements = es
    <3> DEFINE q == CountQoda(r)
               z == a.tmp \o r \o CrLf
    <3>1. Gather(a, r) = [a EXCEPT !.qoda = q, !.tmp = z] /\ a = Ready(left, es)
      BY <2>3 DEF a
    <3> HIDE DEF q, z
    <3> QED BY <3>1 DEF Ready
  <2>5. AddsAt(Gather(a, h).elements, es, t, place)
    BY <1>4, <2>1, <2>4 DEF AddsAt
  <2> QED BY <2>1, <2>5 DEF GatheredAt, a, h
<1>5. CASE place \in {0, 1, 3}
  <2>1. Len(Lines(r)) = 1 /\ h = r /\ CountQoda(r) = 0 /\ Exactly(r \o CrLf, Bad)
    BY <1>5 DEF BulkPiece, Breaks
  <2> HIDE DEF a, h
  <2>2. Gather(a, r).elements = Append(a.elements, a.tmp \o r \o CrLf)
    BY ONLY <1>1, <2>1, GatherEnds
  <2>3. Gather(a, r).elements = Append(es, r \o CrLf)
    BY <1>1, <1>3, <2>2
  <2>4. place # 2 /\ PlaceValue(t, place) = Bad
    BY <1>5 DEF PlaceValue
  <2>5. AddsAt(Gather(a, h).elements, es, t, place)
    BY <2>1, <2>3, <2>4 DEF AddsAt
  <2> QED BY <2>1, <2>5 DEF GatheredAt, a, h
<1>6. CASE place \in {4, 5}
  <2>1. /\ Len(Lines(r)) = 2 /\ CountQoda(h) = 1 /\ CountQoda(v) = 0
        /\ (h \o CrLf) \o v = r
        /\ Exactly(r \o CrLf, PlaceValue(t, place))
    BY <1>6 DEF BulkPiece, HasBoth
  <2>h. h \in Seq(S)
    <3>1. Lines(r) \in Seq(Seq(S))
      BY <1>2, LinesAreLines
    <3>2. 1 \in 1 .. Len(Lines(r))
      BY <2>1
    <3> QED BY <3>1, <3>2, ElementOfSeq
  <2> HIDE DEF a, h, v
  <2>2. CountQoda(h) \in Nat \ {0}
    BY <2>1
  <2>3. Gather(a, h) = [a EXCEPT !.qoda = CountQoda(h), !.tmp = a.tmp \o h \o CrLf]
    BY ONLY <1>1, <2>2, GatherGoesOn
  <2> DEFINE b == Gather(a, h)
             x == h \o CrLf
  <2>4. b.left # 0 /\ b.qoda = 1 /\ b.tmp = x /\ b.elements = es
    <3>1. a.tmp \o h = h
      BY <1>1, <2>h, ConcatEmptySeq
    <3>2. b = [a EXCEPT !.qoda = 1, !.tmp = x] /\ a = Ready(left, es)
      BY <2>1, <2>3, <3>1 DEF a
    <3> HIDE DEF b, x
    <3>3. left # 0
      OBVIOUS
    <3> QED BY <3>2, <3>3 DEF Ready
  <2> HIDE DEF b
  <2>5. Gather(b, v).elements = Append(b.elements, b.tmp \o v \o CrLf)
    BY ONLY <2>4, <2>1, GatherEnds
  <2>6. Gather(b, v).elements = Append(es, r \o CrLf)
    BY <2>1, <2>4, <2>5
  <2>7. place # 2
    BY <1>6
  <2>8. AddsAt(Gather(b, v).elements, es, t, place)
    BY <2>1, <2>6, <2>7 DEF AddsAt
  <2> QED BY <2>1, <2>8 DEF GatheredAt, a, h, v, b
<1> QED BY <1>2, <1>4, <1>5, <1>6

(* What is gathered of the lines of words the last of which is cut.        *)
LEMMA ElementsAt ==
  ASSUME NEW S, Symbols \subseteq S, NEW ws \in Seq(Seq(S)),
         \A i \in 1 .. Len(ws) : Plain(ws[i]),
         NEW t \in Seq(S), NEW r, NEW place, BulkPiece(r, t, place, S),
         NEW l \in Seq(Seq(S)), WordLines(l, ws, Len(ws), r),
         NEW count \in Nat, Len(ws) < count
  PROVE  AddsAt(Elements(l, count), Bulks(ws), t, place)
<1> DEFINE k == Len(ws)
           es == Bulks(ws)
           a == Ready(count - k, es)
           L == Lines(r)
<1>1. k \in Nat /\ Len(l) \in Nat /\ k <= count /\ count - k \in Nat \ {0}
  OBVIOUS
<1>2. PICK f : AreGathered(f, l, count, Len(l)) /\ Elements(l, count) = f[Len(l)].elements
  BY <1>1, ElementsAreGathered
<1>r. r \in Seq(S)
  BY DEF BulkPiece
<1>3. \/ Len(L) = 1 /\ AddsAt(Gather(a, L[1]).elements, es, t, place)
      \/ Len(L) = 2 /\ AddsAt(Gather(Gather(a, L[1]), L[2]).elements, es, t, place)
  <2> HIDE DEF k, es
  <2> DEFINE left == count - k
  <2>1. left \in Nat \ {0} /\ a = Ready(left, es)
    BY <1>1
  <2> HIDE DEF left, a
  <2>2. GatheredAt(r, left, es, t, place)
    BY <2>1, PieceGathers
  <2> QED BY <2>1, <2>2 DEF GatheredAt
<1>4. f[2 * k] = a
  BY <1>1, <1>2, <1>r, WordsGathered, ZenonT(60) DEF Ready
<1>5. /\ Len(l) = 2 * k + Len(L)
      /\ \A j \in 1 .. Len(L) : l[2 * k + j] = L[j]
  BY Zenon DEF WordLines
<1>6. \A i \in 1 .. Len(l) : f[i] = Gather(f[i - 1], l[i])
  BY <1>2 DEF AreGathered
<1> HIDE DEF k, es, a, L
<1>7. CASE Len(L) = 1 /\ AddsAt(Gather(a, L[1]).elements, es, t, place)
  <2> DEFINE i == 2 * k + 1
  <2>1. i \in 1 .. Len(l) /\ i - 1 = 2 * k /\ Len(l) = i /\ l[i] = L[1]
    BY <1>1, <1>5, <1>7
  <2> HIDE DEF i
  <2>2. f[i] = Gather(f[i - 1], l[i])
    BY <1>6, <2>1, Zenon
  <2>3. f[i] = Gather(a, L[1])
    BY <1>4, <2>1, <2>2
  <2> QED BY <1>2, <1>7, <2>1, <2>3 DEF es
<1>8. CASE Len(L) = 2 /\ AddsAt(Gather(Gather(a, L[1]), L[2]).elements, es, t, place)
  <2> DEFINE i == 2 * k + 1
             j == 2 * k + 2
  <2>1. /\ i \in 1 .. Len(l) /\ i - 1 = 2 * k /\ l[i] = L[1]
        /\ j \in 1 .. Len(l) /\ j - 1 = i /\ Len(l) = j /\ l[j] = L[2]
    <3>1. k \in Nat /\ Len(L) = 2 /\ Len(l) = 2 * k + 2
      BY <1>1, <1>5, <1>8
    <3>2. 1 \in 1 .. Len(L) /\ 2 \in 1 .. Len(L)
      BY ONLY <3>1
    <3>3. l[i] = L[1] /\ l[j] = L[2]
      BY <1>5, <3>2
    <3>4. i \in 1 .. Len(l) /\ i - 1 = 2 * k /\ j \in 1 .. Len(l) /\ j - 1 = i /\ Len(l) = j
      BY ONLY <3>1
    <3> QED BY <3>3, <3>4
  <2> HIDE DEF i, j
  <2>2. f[i] = Gather(f[i - 1], l[i])
    BY <1>6, <2>1, Zenon
  <2>3. f[j] = Gather(f[j - 1], l[j])
    BY <1>6, <2>1, Zenon
  <2>4. f[i] = Gather(a, L[1])
    BY <1>4, <2>1, <2>2
  <2>5. f[j] = Gather(Gather(a, L[1]), L[2])
    BY <2>1, <2>3, <2>4
  <2> QED BY <1>2, <1>8, <2>1, <2>5 DEF es
<1> QED BY <1>3, <1>7, <1>8

(* A list the last value of which, and no other, failed.                   *)
LEMMA LastFailed ==
  ASSUME NEW vs, NEW n \in Nat \ {0}, DOMAIN vs = 1 .. n, Failed(vs[n]),
         \A i \in 1 .. n - 1 : ~ Failed(vs[i])
  PROVE  AllOrFirstFailure(vs) = vs[n]
<1> DEFINE I == {i \in 1 .. n : Failed(vs[i])}
<1>1. n \in 1 .. n /\ \A i \in 1 .. n : i = n \/ i \in 1 .. n - 1
  OBVIOUS
<1>2. I = {n}
  <2>1. \A i \in 1 .. n : Failed(vs[i]) <=> i = n
    BY <1>1, Zenon
  <2> QED BY <1>1, <2>1
<1>3. Len(vs) = n
  OBVIOUS
<1>4. SelectInSeq(vs, Failed) = Min(I)
  BY <1>2, <1>3 DEF SelectInSeq
<1>5. Min(I) = n
  <2>1. \A i \in I : n <= i
    BY <1>2
  <2> QED BY <1>2, <2>1 DEF Min
<1>6. \E i \in DOMAIN vs : Failed(vs[i])
  BY <1>1
<1> HIDE DEF I
<1> QED BY <1>4, <1>5, <1>6 DEF AllOrFirstFailure

LEMMA ValueFails ==
  /\ Failed(Bad) /\ Failed(Panic)
  /\ \A t : ~ Failed(Bulk(t))
  /\ \A t : ~ Failed(Array(t))
  BY DEF Failed, Bad, Panic, Bulk, Array

FirstValues(ts, k) == Array([i \in 1 .. k |-> Bulk(ts[i])])
CutValueAt(ts, k, place) ==
  IF place \in {0, 1, 3} THEN Bad ELSE IF place = 4 THEN Panic
  ELSE FirstValues(ts, IF place = 5 THEN k + 1 ELSE k)

AllRead(e, deeper) == AllOrFirstFailure([i \in DOMAIN e |-> ParseBy(e[i], deeper)])

AreTexts(es, ts, k, S) ==
  /\ es \in Seq(Seq(S)) /\ Len(es) = k /\ \A i \in 1 .. k : es[i] = BulkText(ts[i])
  /\ ts \in Seq(Seq(S)) /\ \A i \in 1 .. Len(ts) : NoBreak(ts[i])
  /\ k \in 0 .. Len(ts) - 1

(* What an array of strings is read as, the last of which is a piece.      *)
LEMMA ValuesAt ==
  ASSUME NEW S, Symbols \subseteq S, NEW ts, NEW k, NEW es, AreTexts(es, ts, k, S),
         NEW place \in Places, NEW e, AddsAt(e, es, ts[k + 1], place), NEW deeper
  PROVE  AllRead(e, deeper) = CutValueAt(ts, k, place)
<1> DEFINE vs == [i \in DOMAIN e |-> ParseBy(e[i], deeper)]
           t == ts[k + 1]
<1> SUFFICES AllOrFirstFailure(vs) = CutValueAt(ts, k, place)
  BY DEF AllRead
<1>0. /\ es \in Seq(Seq(S)) /\ Len(es) = k /\ \A i \in 1 .. k : es[i] = BulkText(ts[i])
      /\ ts \in Seq(Seq(S)) /\ \A i \in 1 .. Len(ts) : NoBreak(ts[i])
      /\ k \in 0 .. Len(ts) - 1
  BY DEF AreTexts
<1>1. Len(ts) \in Nat /\ k \in Nat
  BY <1>0
<1>2. \A i \in 1 .. k : ParseBy(es[i], deeper) = Bulk(ts[i])
  <2> SUFFICES ASSUME NEW i \in 1 .. k PROVE ParseBy(es[i], deeper) = Bulk(ts[i])
    OBVIOUS
  <2>1. i \in 1 .. Len(ts)
    BY <1>0, <1>1
  <2>2. ts[i] \in Seq(S) /\ NoBreak(ts[i])
    BY <1>0, <2>1, ElementOfSeq
  <2>3. ParseBy(BulkText(ts[i]), deeper) = Bulk(ts[i])
    BY <2>2, WordRead
  <2> QED BY <1>0, <2>3
<1>3. DOMAIN es = 1 .. k
  BY <1>0
<1>4. CASE place = 2
  <2>1. e = es
    BY <1>4 DEF AddsAt
  <2>2. vs = [i \in 1 .. k |-> Bulk(ts[i])]
    BY <1>2, <1>3, <2>1, Zenon
  <2>3. AllOrFirstFailure(vs) = FirstValues(ts, k)
    BY <1>1, <2>2, NoneFailed DEF FirstValues
  <2>4. CutValueAt(ts, k, place) = FirstValues(ts, k)
    BY <1>4 DEF CutValueAt
  <2> HIDE DEF vs
  <2>5. AllOrFirstFailure(vs) = CutValueAt(ts, k, place)
    BY <2>3, <2>4
  <2> QED BY <2>5 DEF vs
<1>5. CASE place # 2
  <2>1. PICK x : e = Append(es, x) /\ Exactly(x, PlaceValue(t, place))
    BY <1>5 DEF AddsAt
  <2> DEFINE T == Seq(S) \cup {x}
             n == k + 1
  <2>2. es \in Seq(T) /\ x \in T
    BY <1>0
  <2> HIDE DEF T
  <2>3. DOMAIN e = 1 .. n /\ (\A i \in 1 .. k : e[i] = es[i]) /\ e[n] = x
    BY <1>0, <1>1, <2>1, <2>2
  <2>4. ParseBy(x, deeper) = PlaceValue(t, place)
    BY <2>1 DEF Exactly
  <2>5. n \in Nat \ {0} /\ n \in 1 .. n /\ n - 1 = k
    BY <1>1
  <2> HIDE DEF n
  <2>6. DOMAIN vs = 1 .. n /\ vs[n] = PlaceValue(t, place) /\ \A i \in 1 .. k : vs[i] = Bulk(ts[i])
    <3>1. \A i \in 1 .. k : i \in 1 .. n
      BY <2>5, <1>1
    <3> QED BY <1>2, <2>3, <2>4, <2>5, <3>1
  <2>7. vs = [i \in 1 .. n |-> vs[i]]
    BY <2>6
  <2> HIDE DEF vs, t
  <2>8. CASE place = 5
    <3>1. vs[n] = Bulk(ts[n])
      BY <2>6, <2>8 DEF PlaceValue, t, n
    <3>2. \A i \in 1 .. n : vs[i] = Bulk(ts[i])
      <4>1. \A i \in 1 .. n : i \in 1 .. k \/ i = n
        BY <1>1, <2>5
      <4> QED BY <2>6, <3>1, <4>1, Zenon
    <3>3. vs = [i \in 1 .. n |-> Bulk(ts[i])]
      BY <2>7, <3>2, Zenon
    <3>4. AllOrFirstFailure(vs) = FirstValues(ts, n)
      <4>1. n \in Nat
        BY <2>5
      <4> QED BY <3>3, <4>1, NoneFailed DEF FirstValues
    <3>5. CutValueAt(ts, k, place) = FirstValues(ts, n)
      BY <2>8 DEF CutValueAt, n
    <3>6. AllOrFirstFailure(vs) = CutValueAt(ts, k, place)
      BY <3>4, <3>5
    <3> QED BY <3>6 DEF vs
  <2>9. CASE place # 5
    <3>1. PlaceValue(t, place) = CutValueAt(ts, k, place) /\ Failed(PlaceValue(t, place))
      <4>1. place = 4 \/ place \in {0, 1, 3}
        BY <1>5, <2>9 DEF Places
      <4>2. CASE place = 4
        BY <4>2, ValueFails DEF PlaceValue, CutValueAt
      <4>3. CASE place \in {0, 1, 3}
        <5>1. place # 4 /\ place # 5
          BY <4>3
        <5> QED BY <4>3, <5>1, ValueFails DEF PlaceValue, CutValueAt
      <4> QED BY <4>1, <4>2, <4>3
    <3>2. \A i \in 1 .. n - 1 : ~ Failed(vs[i])
      BY <2>5, <2>6, ValueFails
    <3>3. AllOrFirstFailure(vs) = vs[n]
      <4>1. Failed(vs[n])
        BY <2>6, <3>1
      <4> QED BY ONLY <2>5, <2>6, <3>2, <4>1, LastFailed
    <3>4. AllOrFirstFailure(vs) = CutValueAt(ts, k, place)
      BY <2>6, <3>1, <3>3
    <3> QED BY <3>4 DEF vs
  <2> QED BY <2>8, <2>9
<1> QED BY <1>4, <1>5

(* A request of bare words that is cut in one of its words.                *)
AreBare(ts, S) ==
  ts \in Seq(Seq(S)) /\ \A i \in 1 .. Len(ts) : Plain(ts[i]) /\ NoBreak(ts[i]) /\ Bare(ts[i])

(* An array that is cut inside one of its strings.                         *)
LEMMA CutInWord ==
  ASSUME NEW S, Symbols \subseteq S, NEW ts, AreBare(ts, S), NEW k \in 0 .. Len(ts) - 1,
         NEW m \in Nat, m < Len(BulkText(ts[k + 1]))
  PROVE  Parse((Header("*", Len(ts)) \o CrLf)
                 \o (FlattenSeq(Bulks(FirstOnes(ts, k))) \o SubSeq(BulkText(ts[k + 1]), 1, m)))
           = CutValueAt(ts, k, PlaceOf(Len(ts[k + 1]), m))
<1> DEFINE n == Len(ts)
           ws == FirstOnes(ts, k)
           t == ts[k + 1]
           r == SubSeq(BulkText(t), 1, m)
           c == FlattenSeq(Bulks(ws)) \o r
           e == Elements(Lines(c), n)
           place == PlaceOf(Len(t), m)
<1>1. /\ ts \in Seq(Seq(S)) /\ n \in Nat /\ k \in Nat /\ k + 1 \in 1 .. n /\ k < n
      /\ \A i \in 1 .. n : ts[i] \in Seq(S) /\ Plain(ts[i]) /\ NoBreak(ts[i]) /\ Bare(ts[i])
  <2>1. ts \in Seq(Seq(S))
    BY DEF AreBare
  <2>2. \A i \in 1 .. n : Plain(ts[i]) /\ NoBreak(ts[i]) /\ Bare(ts[i])
    BY DEF AreBare
  <2>3. \A i \in 1 .. n : ts[i] \in Seq(S)
    BY <2>1, ElementOfSeq
  <2> QED BY <2>1, <2>2, <2>3
<1>2. t \in Seq(S) /\ NoBreak(t) /\ Bare(t)
  BY <1>1
<1>3. /\ ws \in Seq(Seq(S)) /\ Len(ws) = k /\ DOMAIN ws = 1 .. k
      /\ \A i \in 1 .. k : ws[i] = ts[i] /\ Plain(ws[i]) /\ NoBreak(ws[i])
  <2>1. \A j \in 1 .. k : j \in 1 .. n
    BY <1>1
  <2>2. ws \in [1 .. k -> Seq(S)]
    BY <1>1, <2>1 DEF FirstOnes
  <2>3. ws \in Seq(Seq(S)) /\ Len(ws) = k
    BY <1>1, <2>2, TupleIsSeq
  <2>4. DOMAIN ws = 1 .. k /\ \A i \in 1 .. k : ws[i] = ts[i]
    BY DEF FirstOnes
  <2> QED BY <1>1, <2>1, <2>3, <2>4
<1>4. BulkPiece(r, t, place, S)
  <2> HIDE DEF t
  <2> QED BY <1>2, PieceOfBulk DEF t
<1>5. r \in Seq(S) /\ place \in Places
  BY <1>4 DEF BulkPiece
<1> HIDE DEF n, ws, t, r, place
<1>6. WordLines(Lines(c), ws, Len(ws), r) /\ FlattenSeq(Bulks(ws)) \in Seq(S)
  <2>1. \A i \in 1 .. Len(ws) : NoBreak(ws[i])
    BY <1>3
  <2> QED BY <1>3, <1>5, <2>1, AllWords
<1>7. c \in Seq(S)
  <2> DEFINE b == FlattenSeq(Bulks(ws))
  <2>1. b \in Seq(S) /\ r \in Seq(S)
    BY <1>5, <1>6
  <2> HIDE DEF b
  <2>2. b \o r \in Seq(S)
    BY ONLY <2>1, Joining
  <2> QED BY <2>2 DEF b
<1> HIDE DEF c
<1>8. AddsAt(e, Bulks(ws), t, place)
  <2> DEFINE l == Lines(c)
  <2>1. l \in Seq(Seq(S)) /\ WordLines(l, ws, Len(ws), r)
    BY <1>6, <1>7, LinesAreLines
  <2>2. Len(ws) < n
    BY <1>1, <1>3
  <2>3. \A i \in 1 .. Len(ws) : Plain(ws[i])
    BY <1>3
  <2> HIDE DEF l
  <2>4. AddsAt(Elements(l, n), Bulks(ws), t, place)
    BY <1>1, <1>2, <1>3, <1>4, <2>1, <2>2, <2>3, ElementsAt
  <2> QED BY <2>4 DEF l
<1>9. PICK deeper : Parse((Header("*", n) \o CrLf) \o c)
                      = AllOrFirstFailure([i \in DOMAIN e |-> ParseBy(e[i], deeper)])
  BY <1>1, <1>7, ArrayRead
<1> DEFINE es == Bulks(ws)
<1>10. es \in Seq(Seq(S)) /\ Len(es) = k /\ \A i \in 1 .. k : es[i] = BulkText(ts[i])
  <2>1. Bulks(ws) \in Seq(Seq(S)) /\ Len(Bulks(ws)) = k
    BY <1>3, BulksAreTexts
  <2> QED BY <1>3, <2>1 DEF Bulks
<1> HIDE DEF e, es
<1>11. AllRead(e, deeper) = CutValueAt(ts, k, place)
  <2>1. AddsAt(e, es, ts[k + 1], place)
    BY <1>8 DEF es, t
  <2>2. \A i \in 1 .. Len(ts) : NoBreak(ts[i])
    BY <1>1 DEF n
  <2>3. AreTexts(es, ts, k, S)
    BY <1>1, <1>10, <2>2 DEF AreTexts
  <2> QED BY <1>5, <2>1, <2>3, ValuesAt
<1> QED BY <1>9, <1>11 DEF AllRead, c, n, ws, t, r, place

-----------------------------------------------------------------------------
(* The points of a message: those of its first line, and of its arguments. *)
HeaderPoints == << <<0, 0>>, <<0, 1>>, <<0, 2>>, <<0, 3>> >>
InArguments == (1 .. 5) \X (0 .. 5)
WordPoints(ws) == [a \in 1 .. Len(ws) |-> ArgumentPoints(a, Len(ws[a]))]

LEMMA PointParts ==
  ASSUME NEW S, Letters \subseteq S, NEW m \in PlainSet(S)
  PROVE  /\ PointsOf(m) = HeaderPoints \o FlattenSeq(WordPoints(Words(m)))
         /\ WordPoints(Words(m)) \in Seq(Seq(InArguments))
         /\ Len(WordPoints(Words(m))) = Len(Words(m))
         /\ \A a \in 1 .. Len(Words(m)) :
              Len(WordPoints(Words(m))[a]) = Len(Bulks(Words(m))[a])
         /\ Bulks(Words(m)) \in Seq(Seq(S)) /\ Len(Bulks(Words(m))) = Len(Words(m))
         /\ Len(Words(m)) = (IF m.px = NoPx THEN 3 ELSE 5)
         /\ Len(TextOf(m)) = 4 + Len(FlattenSeq(Bulks(Words(m))))
<1> DEFINE ws == Words(m)
           B == Bulks(ws)
           lengths == IF m.px = NoPx THEN <<3, Len(m.key), Len(m.val)>>
                      ELSE <<3, Len(m.key), Len(m.val), 2, Width(m.px)>>
           args == [a \in DOMAIN lengths |-> ArgumentPoints(a, lengths[a])]
           four == << <<0, 0>>, <<0, 1>>, <<0, 2>>, <<0, 3>> >>
           Q == InArguments
           F == FlattenSeq(args)
<1>1. Symbols \subseteq S
  BY DEF Letters
<1>2. ws \in Seq(Seq(S)) /\ Len(ws) = (IF m.px = NoPx THEN 3 ELSE 5) /\ TextOf(m) = ArrayText(ws)
  BY WordsOfSet
<1>3. ws[1] = SetWord /\ ws[2] = m.key /\ ws[3] = m.val
      /\ (m.px # NoPx => ws[4] = PxWord /\ ws[5] = Decimal[m.px] /\ m.px \in Nat)
  BY DEF Words, PlainSet
<1>4. Len(SetWord) = 3 /\ Len(PxWord) = 2
  BY DEF SetWord, PxWord
<1> HIDE DEF ws
<1>5. /\ B \in Seq(Seq(S)) /\ Len(B) = Len(ws)
      /\ \A i \in 1 .. Len(ws) : Len(ws[i]) \in Nat /\ Len(B[i]) = Len(ws[i]) + Width(Len(ws[i])) + 5
      /\ Len(ArrayText(ws)) = 4 + Len(FlattenSeq(B))
  <2>1. Len(ws) \in 0 .. 9
    BY <1>2
  <2> QED BY <1>1, <1>2, <2>1, ArrayLength
<1> HIDE DEF B
<1>6. DOMAIN lengths = 1 .. Len(ws) /\ \A a \in 1 .. Len(ws) : lengths[a] = Len(ws[a])
  <2>1. CASE m.px = NoPx
    <3>1. Len(ws) = 3 /\ \A a \in 1 .. 3 : a = 1 \/ a = 2 \/ a = 3
      BY <1>2, <2>1
    <3> DEFINE k == Len(m.key)
               v == Len(m.val)
    <3>2. lengths = <<3, k, v>>
      BY <2>1
    <3> HIDE DEF k, v, lengths
    <3>3. DOMAIN lengths = 1 .. 3 /\ lengths[1] = 3 /\ lengths[2] = k /\ lengths[3] = v
      BY <3>2
    <3> QED BY <1>3, <1>4, <3>1, <3>3 DEF k, v
  <2>2. CASE m.px # NoPx
    <3>1. Len(ws) = 5 /\ \A a \in 1 .. 5 : a = 1 \/ a = 2 \/ a = 3 \/ a = 4 \/ a = 5
      BY <1>2, <2>2
    <3> DEFINE k == Len(m.key)
               v == Len(m.val)
               p == Width(m.px)
    <3>2. lengths = <<3, k, v, 2, p>>
      BY <2>2
    <3>3. Len(ws[5]) = p
      BY <1>3, <2>2, WidthIsNat
    <3> HIDE DEF k, v, p, lengths
    <3>4. DOMAIN lengths = 1 .. 5 /\ lengths[1] = 3 /\ lengths[2] = k /\ lengths[3] = v
          /\ lengths[4] = 2 /\ lengths[5] = p
      BY <3>2
    <3> QED BY <1>3, <1>4, <2>2, <3>1, <3>3, <3>4 DEF k, v
  <2> QED BY <2>1, <2>2
<1>7. PointsOf(m) = four \o F
  BY Zenon DEF PointsOf
<1> HIDE DEF lengths
<1>8. ASSUME NEW a \in 1 .. Len(ws)
      PROVE  ArgumentPoints(a, lengths[a]) \in Seq(Q) /\ Len(ArgumentPoints(a, lengths[a])) = Len(B[a])
  <2>1. a \in 1 .. 5
    BY <1>2
  <2>2. Len(ws[a]) \in Nat /\ lengths[a] = Len(ws[a]) /\ Len(B[a]) = Len(ws[a]) + Width(Len(ws[a])) + 5
    BY <1>5, <1>6
  <2> QED BY <2>1, <2>2, ArgumentPointsAre DEF InArguments
<1> HIDE DEF Q
<1>9. args = WordPoints(ws)
  BY <1>6, Zenon DEF WordPoints
<1>10. args \in Seq(Seq(Q)) /\ Len(args) = Len(ws) /\ \A a \in 1 .. Len(ws) : Len(args[a]) = Len(B[a])
  <2>1. args \in [1 .. Len(ws) -> Seq(Q)] /\ \A a \in 1 .. Len(ws) : args[a] = ArgumentPoints(a, lengths[a])
    BY <1>6, <1>8
  <2>2. Len(ws) \in Nat
    BY <1>2
  <2> HIDE DEF args
  <2>3. args \in Seq(Seq(Q)) /\ Len(args) = Len(ws)
    BY <2>1, <2>2, TupleIsSeq
  <2> QED BY <1>8, <2>1, <2>3
<1> HIDE DEF args, four
<1>11. PointsOf(m) = HeaderPoints \o FlattenSeq(WordPoints(ws))
  BY <1>7, <1>9 DEF four, HeaderPoints
<1> QED BY <1>2, <1>5, <1>9, <1>10, <1>11 DEF ws, B, Q

LEMMA HeaderPointsAre ==
  /\ HeaderPoints \in Seq(Points) /\ Len(HeaderPoints) = 4
  /\ \A j \in 0 .. 3 : HeaderPoints[j + 1] = <<0, j>>
  /\ InArguments \subseteq Points /\ Start \notin InArguments
<1> DEFINE x0 == <<0, 0>>
           x1 == <<0, 1>>
           x2 == <<0, 2>>
           x3 == <<0, 3>>
<1>1. x0 \in Points /\ x1 \in Points /\ x2 \in Points /\ x3 \in Points
      /\ HeaderPoints = <<x0, x1, x2, x3>>
  BY DEF Points, HeaderPoints
<1> HIDE DEF x0, x1, x2, x3
<1>2. \A j \in 0 .. 3 : j = 0 \/ j = 1 \/ j = 2 \/ j = 3
  OBVIOUS
<1>3. HeaderPoints \in Seq(Points) /\ Len(HeaderPoints) = 4
      /\ HeaderPoints[1] = x0 /\ HeaderPoints[2] = x1 /\ HeaderPoints[3] = x2 /\ HeaderPoints[4] = x3
  BY <1>1
<1>4. \A j \in 0 .. 3 : HeaderPoints[j + 1] = <<0, j>>
  BY <1>2, <1>3 DEF x0, x1, x2, x3
<1>5. InArguments \subseteq Points /\ Start \notin InArguments
  BY DEF InArguments, Points, Start
<1> QED BY <1>3, <1>4, <1>5

LEMMA ArgumentPointAt ==
  ASSUME NEW a \in 1 .. 5, NEW length \in Nat, NEW r \in Nat, r < length + Width(length) + 5
  PROVE  ArgumentPoints(a, length)[r + 1] = <<a, PlaceOf(length, r)>>
<1> DEFINE h == Width(length) + 3
           n == h + length + 2
           e(w) == IF w <= 2 THEN w - 1 ELSE IF w < h THEN 2 ELSE IF w = h THEN 3
                   ELSE IF w <= h + length THEN 4 ELSE 5
<1>1. Width(length) \in Nat
  BY WidthIsNat
<1>2. ArgumentPoints(a, length) = [w \in 1 .. n |-> <<a, e(w)>>]
  BY Zenon DEF ArgumentPoints
<1>3. r + 1 \in 1 .. n /\ e(r + 1) = PlaceOf(length, r)
  BY <1>1 DEF PlaceOf
<1> HIDE DEF n, e
<1> QED BY <1>2, <1>3

(* The point of every place in a message.                                  *)
LEMMA PointAt ==
  ASSUME NEW S, Letters \subseteq S, NEW m \in PlainSet(S)
  PROVE  /\ \A p \in 0 .. 3 : PointsOf(m)[p + 1] = <<0, p>>
         /\ \A k \in 0 .. Len(Words(m)) - 1 : \A r \in Nat :
              r < Len(BulkText(Words(m)[k + 1])) =>
                PointsOf(m)[4 + Offset(Bulks(Words(m)), k) + r + 1]
                  = <<k + 1, PlaceOf(Len(Words(m)[k + 1]), r)>>
<1> DEFINE ws == Words(m)
           B == Bulks(ws)
           args == WordPoints(ws)
           F == FlattenSeq(args)
           x == HeaderPoints \o F
<1>1. /\ PointsOf(m) = x
      /\ args \in Seq(Seq(InArguments)) /\ Len(args) = Len(ws)
      /\ \A a \in 1 .. Len(ws) : Len(args[a]) = Len(B[a])
      /\ B \in Seq(Seq(S)) /\ Len(B) = Len(ws)
      /\ Len(ws) \in {3, 5}
  BY PointParts
<1>s. Symbols \subseteq S /\ ws \in Seq(Seq(S))
  BY WordsOfSet DEF Letters
<1>2. \A k \in 0 .. Len(args) : Offset(args, k) = Offset(B, k)
  <2> HIDE DEF args, B, ws
  <2> QED BY <1>1, SameOffsets
<1>3. F \in Seq(Points)
  <2> HIDE DEF args
  <2>1. F \in Seq(InArguments)
    BY <1>1, Flattened
  <2> QED BY <2>1, HeaderPointsAre
<1> HIDE DEF F
<1>4. /\ Len(F) \in Nat
      /\ \A i \in 1 .. 4 : x[i] = HeaderPoints[i]
      /\ \A i \in 1 .. Len(F) : x[4 + i] = F[i]
  <2>1. HeaderPoints \in Seq(Points) /\ Len(HeaderPoints) = 4
    BY HeaderPointsAre
  <2>2. HeaderPoints \in Seq(Points)
    BY <2>1
  <2>3. /\ Len(F) \in Nat
        /\ \A i \in 1 .. Len(HeaderPoints) : x[i] = HeaderPoints[i]
        /\ \A i \in 1 .. Len(F) : x[Len(HeaderPoints) + i] = F[i]
    BY ONLY <1>3, <2>2, Joining
  <2> HIDE DEF x
  <2> QED BY <2>1, <2>3
<1> HIDE DEF x
<1>5. ASSUME NEW p \in 0 .. 3 PROVE PointsOf(m)[p + 1] = <<0, p>>
  <2>1. p + 1 \in 1 .. 4
    OBVIOUS
  <2> QED BY <1>1, <1>4, <2>1, HeaderPointsAre
<1>6. ASSUME NEW k \in 0 .. Len(ws) - 1, NEW r \in Nat, r < Len(BulkText(ws[k + 1]))
      PROVE  PointsOf(m)[4 + Offset(B, k) + r + 1] = <<k + 1, PlaceOf(Len(ws[k + 1]), r)>>
  <2> DEFINE a == k + 1
             o == Offset(args, k)
             j == o + r + 1
             t == ws[a]
  <2>1. a \in 1 .. Len(ws) /\ a \in 1 .. 5 /\ a - 1 = k /\ k \in 0 .. Len(args) /\ k \in Nat
    <3> DEFINE n == Len(ws)
    <3>1. n \in {3, 5} /\ Len(args) = n /\ k \in 0 .. n - 1
      BY <1>1
    <3> HIDE DEF n, args
    <3>2. a \in 1 .. n /\ a \in 1 .. 5 /\ a - 1 = k /\ k \in 0 .. n /\ k \in Nat
      BY <3>1
    <3> QED BY <3>1, <3>2 DEF n
  <2>2. t \in Seq(S) /\ Len(t) \in Nat
    BY <1>s, <2>1, ElementOfSeq
  <2>3. B[a] = BulkText(t)
    BY <1>s, <2>1 DEF Bulks
  <2>4. Len(BulkText(t)) = Len(t) + Width(Len(t)) + 5
    <3> HIDE DEF t
    <3> QED BY <1>s, <2>2, BulkLength
  <2>5. args[a] = ArgumentPoints(a, Len(t))
    BY <2>1 DEF WordPoints
  <2> HIDE DEF ws, args, B
  <2>6. /\ o \in Nat /\ Offset(args, a) \in Nat /\ Offset(args, a) <= Len(F)
        /\ Offset(args, a) = o + Len(args[a]) /\ PartOf(F, o + 1, args[a])
    <3>1. a \in 1 .. Len(args) /\ a \in 0 .. Len(args) /\ k \in 0 .. Len(args)
      BY <1>1, <2>1
    <3>2. /\ \A n \in 0 .. Len(args) : Offset(args, n) \in Nat /\ Offset(args, n) <= Len(FlattenSeq(args))
          /\ \A n \in 1 .. Len(args) :
               /\ Offset(args, n) = Offset(args, n - 1) + Len(args[n])
               /\ PartOf(FlattenSeq(args), Offset(args, n - 1) + 1, args[n])
      BY <1>1, Flattened
    <3> QED BY <2>1, <3>1, <3>2 DEF F
  <2> HIDE DEF a, t, o
  <2>7. r + 1 \in 1 .. Len(args[a]) /\ j \in 1 .. Len(F) /\ (o + 1) + (r + 1) - 1 = j /\ j <= Len(F)
    <3>1. Len(args[a]) = Len(B[a])
      BY <1>1, <2>1
    <3>2. r < Len(BulkText(t))
      BY <1>6 DEF t, a
    <3>3. Len(t) \in Nat /\ Width(Len(t)) \in Nat
      BY <2>2, WidthIsNat
    <3> QED BY <1>4, <2>3, <2>4, <2>6, <3>1, <3>2, <3>3
  <2>8. F[j] = args[a][r + 1]
    <3> DEFINE i == r + 1
    <3>1. i \in 1 .. Len(args[a]) /\ (o + 1) + i - 1 <= Len(F) /\ (o + 1) + i - 1 = j
      BY <2>7
    <3> HIDE DEF i, j
    <3>2. F[(o + 1) + i - 1] = args[a][i]
      BY <2>6, <3>1 DEF PartOf
    <3> QED BY <3>1, <3>2 DEF i
  <2>9. args[a][r + 1] = <<a, PlaceOf(Len(t), r)>>
    <3>1. r < Len(t) + Width(Len(t)) + 5
      BY <1>6, <2>4 DEF t, a
    <3> QED BY <2>1, <2>2, <2>5, <3>1, ArgumentPointAt
  <2>10. PointsOf(m)[4 + j] = F[j]
    BY <1>1, <1>4, <2>7
  <2>11. 4 + Offset(B, k) + r + 1 = 4 + j
    BY <1>2, <2>1, <2>6 DEF o
  <2> QED BY <2>8, <2>9, <2>10, <2>11 DEF a, t
<1> QED BY <1>5, <1>6

-----------------------------------------------------------------------------
(* SETs of bare words.                                                     *)
BareSet(S) == {m \in PlainSet(S) : Bare(m.key) /\ Bare(m.val)}

LEMMA WordsAreBare ==
  ASSUME NEW S, Letters \subseteq S, NEW m \in BareSet(S)
  PROVE  /\ m \in PlainSet(S) /\ AreBare(Words(m), S) /\ IsRequest(Words(m), S)
         /\ TextOf(m) = ArrayText(Words(m))
         /\ Len(Words(m)) = Args(m) /\ Args(m) \in {3, 5}
         /\ Starless(m.key) /\ Starless(m.val)
<1>1. m \in PlainSet(S) /\ Bare(m.key) /\ Bare(m.val)
  BY DEF BareSet
<1>2. m.key \in Seq(S) /\ m.val \in Seq(S) /\ (m.px # NoPx => m.px \in Nat)
  BY <1>1 DEF PlainSet, PlainWords
<1>3. Starless(m.key) /\ Starless(m.val)
  <2>1. ASSUME NEW w \in Seq(S), Bare(w) PROVE Starless(w)
    <3>1. \A i \in 1 .. Len(w) : w[i] # "*"
      BY <2>1 DEF Bare, Signs
    <3> QED BY <3>1, NoStar
  <2> QED BY <1>1, <1>2, <2>1
<1>4. /\ IsRequest(Words(m), S) /\ TextOf(m) = ArrayText(Words(m))
  BY <1>1, <1>3, RequestOfSet
<1>5. /\ Words(m) \in Seq(Seq(S)) /\ Len(Words(m)) = (IF m.px = NoPx THEN 3 ELSE 5)
      /\ \A i \in 1 .. Len(Words(m)) : Plain(Words(m)[i])
  BY <1>1, WordsOfSet
<1>6. Bare(SetWord) /\ Bare(PxWord) /\ \A n \in Nat : Bare(Decimal[n])
  <2>1. Bare(SetWord)
    <3>1. \A i \in 1 .. 3 : i = 1 \/ i = 2 \/ i = 3
      OBVIOUS
    <3>2. Len(SetWord) = 3 /\ SetWord[1] = "s" /\ SetWord[2] = "e" /\ SetWord[3] = "t"
      BY DEF SetWord
    <3> QED BY <3>1, <3>2 DEF Bare, Signs
  <2>2. Bare(PxWord)
    <3>1. \A i \in 1 .. 2 : i = 1 \/ i = 2
      OBVIOUS
    <3>2. Len(PxWord) = 2 /\ PxWord[1] = "p" /\ PxWord[2] = "x"
      BY DEF PxWord
    <3> QED BY <3>1, <3>2 DEF Bare, Signs
  <2>3. ASSUME NEW n \in Nat PROVE Bare(Decimal[n])
    <3> DEFINE d == Decimal[n]
    <3>1. d \in Seq(DigitChars)
      BY DecimalFacts
    <3> HIDE DEF d
    <3>2. \A i \in 1 .. Len(d) : d[i] \in DigitChars
      BY <3>1, ElementOfSeq
    <3>3. \A ch \in DigitChars : ch \notin Signs
      BY DigitsAre DEF Signs
    <3>4. Bare(d)
      BY <3>2, <3>3 DEF Bare
    <3> QED BY <3>4 DEF d
  <2> QED BY <2>1, <2>2, <2>3
<1>7. \A i \in 1 .. Len(Words(m)) : Bare(Words(m)[i])
  <2>1. CASE m.px = NoPx
    <3>1. Len(Words(m)) = 3 /\ \A i \in 1 .. 3 : i = 1 \/ i = 2 \/ i = 3
      BY <1>5, <2>1
    <3>2. Words(m)[1] = SetWord /\ Words(m)[2] = m.key /\ Words(m)[3] = m.val
      BY <2>1 DEF Words
    <3> QED BY <1>1, <1>6, <3>1, <3>2
  <2>2. CASE m.px # NoPx
    <3>1. Len(Words(m)) = 5 /\ \A i \in 1 .. 5 : i = 1 \/ i = 2 \/ i = 3 \/ i = 4 \/ i = 5
      BY <1>5, <2>2
    <3>2. Words(m)[1] = SetWord /\ Words(m)[2] = m.key /\ Words(m)[3] = m.val
          /\ Words(m)[4] = PxWord /\ Words(m)[5] = Decimal[m.px]
      BY <2>2 DEF Words
    <3>3. Bare(Decimal[m.px])
      BY <1>2, <1>6, <2>2
    <3> QED BY <1>1, <1>6, <3>1, <3>2, <3>3
  <2> QED BY <2>1, <2>2
<1>8. AreBare(Words(m), S)
  BY <1>5, <1>7 DEF AreBare, Plain
<1>9. Len(Words(m)) = Args(m) /\ Args(m) \in {3, 5}
  BY <1>5 DEF Args
<1> QED BY <1>1, <1>3, <1>4, <1>8, <1>9

(* An array whose header is cut.                                           *)
LEMMA HeadReadAt ==
  ASSUME NEW S, Symbols \subseteq S, NEW width, NEW p, NEW w, IsCutHeader(w, "*", width, p, S), NEW ts
  PROVE  Parse(w) = IF p \in 2 .. width + 1 THEN FirstValues(ts, 0) ELSE Bad
<1>1. /\ w \in Seq(S) /\ w # <<>> /\ w[1] = "*" /\ NoBreak(w)
      /\ (IsInt(Tail(w)) => IntOf(Tail(w)) \in Nat)
      /\ (IsInt(Tail(w)) <=> p \in 2 .. width + 1)
  BY DEF IsCutHeader
<1>2. PICK parse : Parse(w) = ParseBy(w, parse)
  BY <1>1, ParseIsOne
<1>3. ParseBy(w, parse) = ParseArray(w, parse)
  <2>1. "*" # "+" /\ "*" # ":" /\ "*" # "$"
    OBVIOUS
  <2> QED BY <1>1, <2>1 DEF ParseBy
<1>4. Lines(w) = <<w>>
  BY <1>1, OneLine
<1>5. Lines(w)[1] = w /\ Tail(Lines(w)) = <<>>
  BY <1>4
<1>6. CASE ~ IsInt(Tail(w))
  <2>1. ParseArray(w, parse) = Bad
    BY <1>5, <1>6, Zenon DEF ParseArray
  <2> QED BY <1>1, <1>2, <1>3, <1>6, <2>1
<1>7. CASE IsInt(Tail(w))
  <2> DEFINE N == IntOf(Tail(w))
             E == Elements(<<>>, N)
             V == AllOrFirstFailure([i \in DOMAIN E |-> parse[E[i]]])
  <2>1. ParseArray(w, parse) = CASE N = -1 -> Null [] N < -1 -> Bad [] N >= 0 -> V
    BY <1>5, <1>7, Zenon DEF ParseArray
  <2>2. N \in Nat
    BY <1>1, <1>7
  <2>3. E = <<>>
    <3>1. Len(<<>>) = 0
      OBVIOUS
    <3>2. PICK f : AreGathered(f, <<>>, N, Len(<<>>)) /\ E = f[Len(<<>>)].elements
      BY <3>1, ElementsAreGathered
    <3>3. f[0] = NothingGathered(N) /\ E = f[0].elements
      BY <3>1, <3>2 DEF AreGathered
    <3> HIDE DEF N, E
    <3> QED BY <3>3 DEF NothingGathered
  <2>4. V = FirstValues(ts, 0)
    <3>1. AllOrFirstFailure([i \in 1 .. 0 |-> Bulk(ts[i])]) = FirstValues(ts, 0)
      BY NoneFailed DEF FirstValues
    <3>2. [i \in DOMAIN E |-> parse[E[i]]] = [i \in 1 .. 0 |-> Bulk(ts[i])]
      <4>1. DOMAIN <<>> = 1 .. 0 /\ \A i \in 1 .. 0 : FALSE
        OBVIOUS
      <4> HIDE DEF E
      <4>2. DOMAIN E = 1 .. 0
        BY <2>3, <4>1
      <4> QED BY <4>1, <4>2, Zenon
    <3> HIDE DEF E
    <3> QED BY <3>1, <3>2
  <2> HIDE DEF N, V
  <2>5. ParseArray(w, parse) = V
    BY <2>1, <2>2
  <2>6. Parse(w) = FirstValues(ts, 0)
    BY <1>2, <1>3, <2>4, <2>5
  <2> QED BY <1>1, <1>7, <2>6
<1> QED BY <1>6, <1>7

-----------------------------------------------------------------------------
(* A message of bare words: the line that announces its words, and they.   *)
HeadOf(m) == Header("*", Len(Words(m))) \o CrLf
Arguments(m) == FlattenSeq(Bulks(Words(m)))

(* The first line of a message, and its arguments behind it.               *)
LEMMA MessageText ==
  ASSUME NEW S, Letters \subseteq S, NEW m \in BareSet(S)
  PROVE  /\ HeadOf(m) \in Seq(S) /\ Len(HeadOf(m)) = 4
         /\ Arguments(m) \in Seq(S) /\ Len(Arguments(m)) \in Nat
         /\ TextOf(m) = HeadOf(m) \o Arguments(m) /\ TextOf(m) \in Seq(S)
         /\ Len(TextOf(m)) = 4 + Len(Arguments(m))
         /\ HasHeaderChars(HeadOf(m), "*", 1, 2, S)
         /\ Bulks(Words(m)) \in Seq(Seq(S)) /\ Len(Bulks(Words(m))) = Len(Words(m))
         /\ Len(Words(m)) \in 3 .. 5
<1> DEFINE ws == Words(m)
           n == Len(ws)
           h == Header("*", n)
           b == Arguments(m)
<1>s. Symbols \subseteq S
  BY DEF Letters
<1>1. /\ ws \in Seq(Seq(S)) /\ n \in 3 .. 5 /\ n \in Nat /\ TextOf(m) = ArrayText(ws)
  <2>1. AreBare(ws, S) /\ TextOf(m) = ArrayText(ws) /\ n = Args(m) /\ Args(m) \in {3, 5}
    BY WordsAreBare
  <2>2. ws \in Seq(Seq(S))
    BY <2>1 DEF AreBare
  <2>3. n \in 3 .. 5 /\ n \in Nat
    <3> HIDE DEF n
    <3> QED BY <2>1
  <2> QED BY <2>1, <2>2, <2>3
<1>2. Bulks(ws) \in Seq(Seq(S)) /\ Len(Bulks(ws)) = n
  <2> HIDE DEF ws
  <2> QED BY <1>s, <1>1, BulksAreTexts
<1>3. b \in Seq(S) /\ Len(b) \in Nat
  <2> HIDE DEF ws
  <2>1. FlattenSeq(Bulks(ws)) \in Seq(S)
    BY <1>2, Flattened
  <2> QED BY <2>1 DEF ws, Arguments
<1>4. ArrayText(ws) = (h \o CrLf) \o b
  BY DEF ArrayText, Header, Bulks, Arguments
<1> HIDE DEF ws, n, h, b
<1>5. HasHeaderChars(h \o CrLf, "*", 1, 2, S)
  <2>1. Width(n) = 1
    <3>1. n \in 0 .. 9
      BY <1>1
    <3> QED BY <3>1, SmallWidth
  <2>2. "*" \in {"$", "*"}
    OBVIOUS
  <2>3. HasHeaderChars(h \o CrLf, "*", Width(n), Len(h), S)
    BY <1>s, <1>1, <2>2, HeaderChars DEF h
  <2>4. Len(h) = 2
    BY <2>1, <2>3 DEF HasHeaderChars
  <2> QED BY <2>1, <2>3, <2>4
<1>6. HeadOf(m) = h \o CrLf
  BY DEF HeadOf, h, n, ws
<1> DEFINE x == HeadOf(m)
<1>7. x \in Seq(S) /\ Len(x) = 4 /\ HasHeaderChars(x, "*", 1, 2, S)
  BY <1>5, <1>6 DEF HasHeaderChars
<1>8. TextOf(m) = x \o b
  BY <1>1, <1>4, <1>6
<1> HIDE DEF x
<1>9. x \o b \in Seq(S) /\ Len(x \o b) = Len(x) + Len(b)
  <2>1. x \in Seq(S) /\ b \in Seq(S)
    BY <1>3, <1>7
  <2> QED BY ONLY <2>1, Joining
<1> QED BY <1>1, <1>2, <1>3, <1>7, <1>8, <1>9 DEF x, b, n, ws

(* A place in one of its words: behind r characters of word k + 1.         *)
InWord(m, p, k, r) ==
  /\ k \in 0 .. Len(Words(m)) - 1 /\ r \in Nat /\ r < Len(BulkText(Words(m)[k + 1]))
  /\ Offset(Bulks(Words(m)), k) \in Nat
  /\ p = 4 + Offset(Bulks(Words(m)), k) + r
  /\ SubSeq(TextOf(m), 1, p)
       = HeadOf(m) \o (FlattenSeq(Bulks(FirstOnes(Words(m), k)))
                         \o SubSeq(BulkText(Words(m)[k + 1]), 1, r))

(* Behind its first line every character of a message is in one of its     *)
(* words.                                                                  *)
LEMMA WordAt ==
  ASSUME NEW S, Letters \subseteq S, NEW m \in BareSet(S), NEW p \in 4 .. Len(TextOf(m)) - 1
  PROVE  \E k, r : InWord(m, p, k, r)
<1> DEFINE ws == Words(m)
           n == Len(ws)
           h == HeadOf(m)
           b == Arguments(m)
           B == Bulks(ws)
           q == p - 4
<1>1. /\ h \in Seq(S) /\ Len(h) = 4 /\ b \in Seq(S) /\ Len(b) \in Nat
      /\ TextOf(m) = h \o b /\ Len(TextOf(m)) = 4 + Len(b)
      /\ B \in Seq(Seq(S)) /\ Len(B) = n /\ n \in Nat
  BY MessageText
<1>2. ws \in Seq(Seq(S)) /\ b = FlattenSeq(B)
  <2>1. AreBare(ws, S)
    BY WordsAreBare
  <2> QED BY <2>1 DEF AreBare, Arguments
<1>w. B = [i \in DOMAIN ws |-> BulkText(ws[i])] /\ DOMAIN ws = 1 .. n
  BY <1>2 DEF Bulks
<1> HIDE DEF h, b, B, n, ws
<1>3. q \in 0 .. Len(FlattenSeq(B)) - 1 /\ p \in 0 .. Len(h) + Len(b) /\ p >= Len(h)
  BY <1>1, <1>2
<1>4. SubSeq(h \o b, 1, p) = h \o SubSeq(b, 1, q)
  <2>1. h \in Seq(S) /\ b \in Seq(S) /\ p \in 0 .. Len(h) + Len(b)
    BY <1>1, <1>3
  <2>2. p >= Len(h) => SubSeq(h \o b, 1, p) = h \o SubSeq(b, 1, p - Len(h))
    BY ONLY <2>1, CutJoined
  <2> QED BY <1>1, <1>3, <2>2
<1> HIDE DEF q
<1>5. PICK k \in 0 .. Len(B) - 1 :
        /\ Offset(B, k) \in Nat /\ Offset(B, k) <= q /\ q < Offset(B, k + 1)
        /\ q - Offset(B, k) < Len(B[k + 1])
        /\ SubSeq(FlattenSeq(B), 1, q)
             = FlattenSeq([j \in 1 .. k |-> B[j]]) \o SubSeq(B[k + 1], 1, q - Offset(B, k))
  BY ONLY <1>1, <1>3, CutInside
<1> DEFINE r == q - Offset(B, k)
<1>6. k \in Nat /\ k + 1 \in 1 .. n /\ k \in 0 .. n - 1
  BY <1>1
<1>7. B[k + 1] = BulkText(ws[k + 1])
  BY <1>6, <1>w
<1>8. [j \in 1 .. k |-> B[j]] = Bulks(FirstOnes(ws, k))
  <2>1. \A j \in 1 .. k : j \in 1 .. n
    BY <1>6, <1>1
  <2>2. DOMAIN FirstOnes(ws, k) = 1 .. k /\ \A j \in 1 .. k : FirstOnes(ws, k)[j] = ws[j]
    BY DEF FirstOnes
  <2>3. \A j \in 1 .. k : B[j] = BulkText(ws[j])
    BY <2>1, <1>w
  <2> QED BY <2>2, <2>3, Zenon DEF Bulks
<1>9. r \in Nat /\ p = 4 + Offset(B, k) + r /\ r < Len(BulkText(ws[k + 1]))
  BY <1>3, <1>5, <1>7, SMTT(60) DEF q
<1>10. SubSeq(TextOf(m), 1, p) = h \o (FlattenSeq(Bulks(FirstOnes(ws, k))) \o SubSeq(BulkText(ws[k + 1]), 1, r))
  <2> HIDE DEF r
  <2>1. SubSeq(b, 1, q) = FlattenSeq([j \in 1 .. k |-> B[j]]) \o SubSeq(B[k + 1], 1, r)
    BY <1>2, <1>5 DEF r
  <2> QED BY <1>1, <1>4, <1>7, <1>8, <2>1, Zenon
<1> HIDE DEF r
<1>11. InWord(m, p, k, r)
  BY <1>5, <1>6, <1>9, <1>10 DEF InWord, h, B, n, ws
<1> QED BY <1>11

(* The point of that place, and the character behind it.                   *)
LEMMA InWordIs ==
  ASSUME NEW S, Letters \subseteq S, NEW m \in BareSet(S), NEW p, NEW k, NEW r, InWord(m, p, k, r)
  PROVE  /\ PointsOf(m)[p + 1] = <<k + 1, PlaceOf(Len(Words(m)[k + 1]), r)>>
         /\ TextOf(m)[p + 1] = BulkText(Words(m)[k + 1])[r + 1]
         /\ p \in 4 .. Len(TextOf(m)) - 1
         /\ PartOf(TextOf(m), p - r + 1, BulkText(Words(m)[k + 1]))
         /\ p - r + Len(BulkText(Words(m)[k + 1])) <= Len(TextOf(m))
<1> DEFINE ws == Words(m)
           n == Len(ws)
           h == HeadOf(m)
           b == Arguments(m)
           B == Bulks(ws)
           o == Offset(B, k)
           w == BulkText(ws[k + 1])
<1>1. /\ h \in Seq(S) /\ Len(h) = 4 /\ b \in Seq(S) /\ Len(b) \in Nat
      /\ TextOf(m) = h \o b /\ Len(TextOf(m)) = 4 + Len(b) /\ TextOf(m) \in Seq(S)
      /\ B \in Seq(Seq(S)) /\ Len(B) = n /\ n \in Nat
  BY MessageText
<1>2. /\ k \in 0 .. n - 1 /\ r \in Nat /\ r < Len(w) /\ o \in Nat /\ p = 4 + o + r
  BY DEF InWord
<1>3. ws \in Seq(Seq(S)) /\ b = FlattenSeq(B)
  <2>1. AreBare(ws, S)
    BY WordsAreBare
  <2> QED BY <2>1 DEF AreBare, Arguments
<1>w. B = [i \in DOMAIN ws |-> BulkText(ws[i])] /\ DOMAIN ws = 1 .. n
  BY <1>3 DEF Bulks
<1>4. PointsOf(m)[p + 1] = <<k + 1, PlaceOf(Len(ws[k + 1]), r)>>
  <2>1. m \in PlainSet(S)
    BY DEF BareSet
  <2>2. \A i \in 0 .. Len(ws) - 1 : \A j \in Nat :
              j < Len(BulkText(ws[i + 1])) =>
                PointsOf(m)[4 + Offset(B, i) + j + 1]
                  = <<i + 1, PlaceOf(Len(ws[i + 1]), j)>>
    BY <2>1, PointAt
  <2> HIDE DEF ws, B
  <2>3. PointsOf(m)[4 + o + r + 1] = <<k + 1, PlaceOf(Len(ws[k + 1]), r)>>
    BY <1>2, <2>2 DEF n
  <2> QED BY <1>2, <2>3
<1> HIDE DEF h, b, B, n, w, ws
<1>5. k + 1 \in 1 .. n /\ (k + 1) - 1 = k /\ B[k + 1] = w /\ Len(w) \in Nat /\ w \in Seq(S)
  <2>1. k + 1 \in 1 .. n /\ (k + 1) - 1 = k
    BY <1>1, <1>2
  <2>2. B[k + 1] = w
    BY <2>1, <1>w DEF w
  <2>3. B[k + 1] \in Seq(S)
    BY <1>1, <2>1, ElementOfSeq
  <2> QED BY <2>1, <2>2, <2>3
<1>6. /\ Offset(B, k + 1) = o + Len(w) /\ Offset(B, k + 1) <= Len(b)
      /\ PartOf(b, o + 1, w)
  <2>1. k + 1 \in 1 .. Len(B) /\ k + 1 \in 0 .. Len(B)
    BY <1>1, <1>5
  <2>2. /\ \A i \in 0 .. Len(B) : Offset(B, i) \in Nat /\ Offset(B, i) <= Len(FlattenSeq(B))
        /\ \A i \in 1 .. Len(B) :
             /\ Offset(B, i) = Offset(B, i - 1) + Len(B[i])
             /\ PartOf(FlattenSeq(B), Offset(B, i - 1) + 1, B[i])
    BY <1>1, Flattened
  <2> QED BY <1>3, <1>5, <2>1, <2>2
<1> HIDE DEF o
<1>7. PartOf(TextOf(m), 4 + o + 1, w) /\ 4 + o + Len(w) <= Len(TextOf(m))
  <2> DEFINE x == h \o b
  <2>1. h \in Seq(S) /\ b \in Seq(S)
    BY <1>1
  <2>2. \A i \in 1 .. Len(b) : x[Len(h) + i] = b[i]
    BY ONLY <2>1, Joining
  <2> HIDE DEF x
  <2>3. \A j \in 1 .. Len(w) : x[4 + o + 1 + j - 1] = w[j]
    <3> TAKE j \in 1 .. Len(w)
    <3> DEFINE i == o + 1 + j - 1
    <3>1. i \in 1 .. Len(b) /\ 4 + i = 4 + o + 1 + j - 1
      BY <1>1, <1>2, <1>5, <1>6
    <3>2. b[i] = w[j]
      BY <1>6, <3>1 DEF PartOf
    <3> HIDE DEF i
    <3> QED BY <1>1, <2>2, <3>1, <3>2
  <2>4. 4 + o + Len(w) <= Len(TextOf(m))
    BY <1>1, <1>2, <1>5, <1>6
  <2>5. PartOf(x, 4 + o + 1, w)
    BY <2>3 DEF PartOf
  <2> QED BY <1>1, <2>4, <2>5 DEF x
<1>8. p - r + 1 = 4 + o + 1 /\ p - r + Len(w) = 4 + o + Len(w) /\ p \in 4 .. Len(TextOf(m)) - 1
  BY <1>1, <1>2, <1>5, <1>7
<1>9. TextOf(m)[p + 1] = w[r + 1]
  <2>1. r + 1 \in 1 .. Len(w) /\ 4 + o + 1 + (r + 1) - 1 = p + 1 /\ p + 1 <= Len(TextOf(m))
    BY <1>2, <1>5, <1>8, <1>1
  <2> QED BY <1>7, <2>1 DEF PartOf
<1> QED BY <1>4, <1>7, <1>8, <1>9 DEF w, ws

(* What parse makes of a message that is cut at point e.                   *)
CutValue(m, e) ==
  IF Refusing(e) \/ e = Star THEN Bad ELSE IF Panicking(e) THEN Panic
  ELSE FirstValues(Words(m), ArgsSeen(e))

LEMMA CutValueIs ==
  /\ \A m : /\ CutValue(m, <<0, 1>>) = Bad /\ CutValue(m, <<0, 2>>) = FirstValues(Words(m), 0)
            /\ CutValue(m, <<0, 3>>) = Bad
  /\ \A m : \A k \in Nat : \A place \in Places :
       CutValue(m, <<k + 1, place>>) = CutValueAt(Words(m), k, place)
<1>1. ASSUME NEW m
      PROVE  /\ CutValue(m, <<0, 1>>) = Bad /\ CutValue(m, <<0, 2>>) = FirstValues(Words(m), 0)
             /\ CutValue(m, <<0, 3>>) = Bad
  <2>1. <<0, 1>> = Star
    BY DEF Star
  <2>2. Refusing(<<0, 3>>)
    BY DEF Refusing
  <2>3. ~ Refusing(<<0, 2>>) /\ ~ Panicking(<<0, 2>>) /\ <<0, 2>> # Star /\ ArgsSeen(<<0, 2>>) = 0
    BY DEF Refusing, Panicking, Star, ArgsSeen
  <2>4. CutValue(m, <<0, 2>>) = FirstValues(Words(m), 0)
    <3> DEFINE e == <<0, 2>>
    <3>1. ~ Refusing(e) /\ ~ Panicking(e) /\ e # Star /\ ArgsSeen(e) = 0
      BY <2>3
    <3> HIDE DEF e
    <3>2. CutValue(m, e) = FirstValues(Words(m), 0)
      BY <3>1, Zenon DEF CutValue
    <3> QED BY <3>2 DEF e
  <2> QED BY <2>1, <2>2, <2>4, Zenon DEF CutValue
<1>2. ASSUME NEW m, NEW k \in Nat, NEW place \in Places
      PROVE  CutValue(m, <<k + 1, place>>) = CutValueAt(Words(m), k, place)
  <2> DEFINE e == <<k + 1, place>>
  <2>1. /\ e # Star
        /\ Refusing(e) <=> place \in {0, 1, 3}
        /\ Panicking(e) <=> place = 4
        /\ ArgsSeen(e) = (IF place = 5 THEN k + 1 ELSE k)
    <3>1. e[1] = k + 1 /\ e[2] = place /\ k + 1 > 0 /\ k + 1 # 0 /\ k + 1 - 1 = k
      OBVIOUS
    <3>2. e # <<0, 3>> /\ e # <<0, 1>>
      OBVIOUS
    <3> HIDE DEF e
    <3> QED BY <3>1, <3>2 DEF Star, Refusing, Panicking, ArgsSeen
  <2> HIDE DEF e
  <2>2. CutValue(m, e) = CutValueAt(Words(m), k, place)
    BY <2>1, Zenon DEF CutValue, CutValueAt
  <2> QED BY <2>2 DEF e
<1> QED BY <1>1, <1>2

LEMMA PlaceIsPlace ==
  ASSUME NEW length \in Nat, NEW r \in Nat
  PROVE  PlaceOf(length, r) \in Places
<1>1. Width(length) \in Nat
  BY WidthIsNat
<1> QED BY <1>1 DEF PlaceOf, Places

(* Every proper prefix of a message.                                       *)
LEMMA CutMessage ==
  ASSUME NEW S, Letters \subseteq S, NEW m \in BareSet(S), NEW p \in 1 .. Len(TextOf(m)) - 1
  PROVE  Parse(SubSeq(TextOf(m), 1, p)) = CutValue(m, PointsOf(m)[p + 1])
<1> DEFINE ws == Words(m)
           n == Len(ws)
           h == HeadOf(m)
           b == Arguments(m)
<1>s. Symbols \subseteq S
  BY DEF Letters
<1>1. /\ h \in Seq(S) /\ Len(h) = 4 /\ b \in Seq(S) /\ Len(b) \in Nat
      /\ TextOf(m) = h \o b /\ Len(TextOf(m)) = 4 + Len(b)
      /\ n \in 3 .. 5
  BY MessageText
<1>2. CASE p < 4
  <2> HIDE DEF h, b, n
  <2>1. p \in 0 .. Len(h) + Len(b) /\ p <= Len(h) /\ p \in 1 .. 3 /\ p \in 0 .. 3
    BY <1>1, <1>2
  <2>2. SubSeq(h \o b, 1, p) = SubSeq(h, 1, p)
    <3>1. h \in Seq(S) /\ b \in Seq(S) /\ p \in 0 .. Len(h) + Len(b)
      BY <1>1, <2>1
    <3>2. p <= Len(h) => SubSeq(h \o b, 1, p) = SubSeq(h, 1, p)
      BY ONLY <3>1, CutJoined
    <3> QED BY <2>1, <3>2
  <2>3. IsCutHeader(SubSeq(h, 1, p), "*", 1, p, S)
    <3>1. Width(n) = 1
      <4>1. n \in 0 .. 9
        BY <1>1
      <4> QED BY <4>1, SmallWidth
    <3>2. p \in 1 .. Width(n) + 2 /\ n \in Nat
      BY <1>1, <2>1, <3>1
    <3>3. "*" \in {"$", "*"}
      OBVIOUS
    <3>4. IsCutHeader(SubSeq(Header("*", n) \o CrLf, 1, p), "*", Width(n), p, S)
      BY <1>s, <3>2, <3>3, HeaderCutAt
    <3> QED BY <3>1, <3>4 DEF h, HeadOf, n, ws
  <2>4. Parse(SubSeq(h, 1, p)) = IF p \in 2 .. 1 + 1 THEN FirstValues(ws, 0) ELSE Bad
    <3> DEFINE x == SubSeq(h, 1, p)
    <3> HIDE DEF x, ws
    <3>1. IsCutHeader(x, "*", 1, p, S)
      BY <2>3 DEF x
    <3>2. Parse(x) = IF p \in 2 .. 1 + 1 THEN FirstValues(ws, 0) ELSE Bad
      BY <1>s, <3>1, HeadReadAt
    <3> QED BY <3>2 DEF x
  <2>5. PointsOf(m)[p + 1] = <<0, p>>
    <3>1. m \in PlainSet(S)
      BY DEF BareSet
    <3>2. \A i \in 0 .. 3 : PointsOf(m)[i + 1] = <<0, i>>
      BY <3>1, PointAt
    <3> QED BY <2>1, <3>2
  <2>6. CutValue(m, <<0, p>>) = IF p \in 2 .. 1 + 1 THEN FirstValues(ws, 0) ELSE Bad
    <3>1. p = 1 \/ p = 2 \/ p = 3
      BY <2>1
    <3>2. 1 \notin 2 .. 1 + 1 /\ 2 \in 2 .. 1 + 1 /\ 3 \notin 2 .. 1 + 1
      OBVIOUS
    <3> QED BY <3>1, <3>2, CutValueIs, Zenon
  <2> QED BY <1>1, <2>2, <2>4, <2>5, <2>6
<1>3. CASE ~ (p < 4)
  <2>1. PICK k, r : InWord(m, p, k, r)
    <3>1. p \in 4 .. Len(TextOf(m)) - 1
      BY <1>3
    <3> QED BY <3>1, WordAt
  <2> DEFINE w == BulkText(ws[k + 1])
             place == PlaceOf(Len(ws[k + 1]), r)
  <2>2. /\ k \in 0 .. n - 1 /\ r \in Nat /\ r < Len(w)
        /\ SubSeq(TextOf(m), 1, p) = h \o (FlattenSeq(Bulks(FirstOnes(ws, k))) \o SubSeq(w, 1, r))
    BY <2>1 DEF InWord
  <2>3. PointsOf(m)[p + 1] = <<k + 1, place>>
    BY <2>1, InWordIs
  <2>4. AreBare(ws, S)
    BY WordsAreBare
  <2>5. place \in Places /\ k \in Nat
    <3>1. k \in Nat /\ k + 1 \in 1 .. n /\ ws \in Seq(Seq(S))
      BY <1>1, <2>2, <2>4 DEF AreBare
    <3>2. ws[k + 1] \in Seq(S)
      BY <3>1, ElementOfSeq
    <3>3. Len(ws[k + 1]) \in Nat
      BY <3>2
    <3> QED BY <2>2, <3>1, <3>3, PlaceIsPlace
  <2>6. Parse(h \o (FlattenSeq(Bulks(FirstOnes(ws, k))) \o SubSeq(w, 1, r))) = CutValueAt(ws, k, place)
    <3> HIDE DEF ws
    <3>1. Parse((Header("*", Len(ws)) \o CrLf)
                 \o (FlattenSeq(Bulks(FirstOnes(ws, k))) \o SubSeq(BulkText(ws[k + 1]), 1, r)))
           = CutValueAt(ws, k, PlaceOf(Len(ws[k + 1]), r))
      BY <1>s, <2>2, <2>4, CutInWord
    <3>2. h = Header("*", Len(ws)) \o CrLf
      BY DEF HeadOf, ws
    <3> QED BY <3>1, <3>2
  <2>7. CutValue(m, <<k + 1, place>>) = CutValueAt(ws, k, place)
    <3> HIDE DEF place
    <3> QED BY <2>5, CutValueIs
  <2> HIDE DEF h, place, ws, w
  <2> QED BY <2>2, <2>3, <2>6, <2>7
<1> QED BY <1>2, <1>3

-----------------------------------------------------------------------------
(* What is executed of a message of which only some words are seen.        *)
LEMMA OneOptionScanned ==
  ASSUME NEW vs
  PROVE  \E f : AreScanned(f, vs, 4)
<1> DEFINE a == NoOption
           b == ScanOption(a, vs[4])
           f == [i \in 3 .. 4 |-> IF i = 3 THEN a ELSE b]
<1>1. f[3] = a /\ f[4] = b /\ f = [i \in 3 .. 4 |-> f[i]]
  <2> HIDE DEF a, b
  <2> QED OBVIOUS
<1> HIDE DEF f
<1>2. \A i \in 3 .. 4 : f[i] = IF i = 3 THEN a ELSE ScanOption(f[i - 1], vs[i])
  <2> SUFFICES ASSUME NEW i \in 3 .. 4
               PROVE  f[i] = IF i = 3 THEN a ELSE ScanOption(f[i - 1], vs[i])
    OBVIOUS
  <2>1. CASE i = 3
    BY <1>1, <2>1
  <2>2. CASE i = 4
    <3>1. i # 3 /\ i - 1 = 3
      BY <2>2
    <3> QED BY <1>1, <2>2, <3>1, Zenon
  <2> QED BY <2>1, <2>2
<1>3. AreScanned(f, vs, 4)
  BY <1>1, <1>2, Zenon DEF AreScanned, NoOption
<1> QED BY <1>3

FirstBulks(m, a) == [i \in 1 .. a |-> Bulk(Words(m)[i])]

(* Of three words SET, key and value are understood, of four the PX has no *)
(* number yet.                                                             *)
LEMMA SetCutShort ==
  ASSUME NEW m, NEW a \in 0 .. 4, a >= 3 => m.px # NoPx
  PROVE  ParseSet(FirstBulks(m, a)) = IF a = 3 THEN CommandOf(m, FALSE) ELSE NoCommand
<1> DEFINE vs == FirstBulks(m, a)
<1>1. Len(vs) = a /\ \A i \in 1 .. a : vs[i] = Bulk(Words(m)[i])
  <2>1. a \in Nat /\ vs = [i \in 1 .. a |-> Bulk(Words(m)[i])]
    BY DEF FirstBulks
  <2> HIDE DEF vs
  <2> QED BY <2>1
<1>2. Words(m)[1] = SetWord /\ Words(m)[2] = m.key /\ Words(m)[3] = m.val
  BY DEF Words
<1> HIDE DEF vs
<1>3. CASE a < 3
  <2>1. Len(vs) < 3 /\ a # 3
    BY <1>1, <1>3
  <2>2. ParseSet(vs) = NoCommand
    BY <2>1, Zenon DEF ParseSet
  <2> QED BY <2>1, <2>2 DEF vs
<1>4. CASE ~ (a < 3)
  <2>1. vs[1] = Bulk(SetWord) /\ vs[2] = Bulk(m.key) /\ vs[3] = Bulk(m.val)
    <3>1. 1 \in 1 .. a /\ 2 \in 1 .. a /\ 3 \in 1 .. a
      BY <1>4
    <3> QED BY <1>1, <1>2, <3>1
  <2>2. NoOption.wants = FALSE /\ NoOption.px = <<"no px">> /\ <<"no px">> # NoCommand
    BY DEF NoOption, NoCommand
  <2>3. CASE a = 3
    <3>1. AreScanned([i \in 3 .. 3 |-> NoOption], vs, 3)
      BY NoOptionScanned
    <3>2. PICK f : /\ AreScanned(f, vs, 3)
                   /\ ParseSet(vs) = IF f[3].wants \/ f[3].px = NoCommand THEN NoCommand
                                     ELSE <<"set", m.key, m.val, f[3].px>>
      <4>1. 3 \in Nat /\ Len(vs) = 3 /\ 3 >= 3
        BY <1>1, <2>3
      <4> QED BY ONLY <2>1, <3>1, <4>1, SetParsed, ZenonT(60)
    <3>3. f[3] = NoOption
      <4>1. 3 \in 3 .. 3
        OBVIOUS
      <4> QED BY <3>2, <4>1, Zenon DEF AreScanned, NoOption
    <3>4. ParseSet(vs) = <<"set", m.key, m.val, <<"no px">> >>
      BY <2>2, <3>2, <3>3
    <3> QED BY <2>3, <3>4 DEF CommandOf, vs
  <2>4. CASE a # 3
    <3>1. a = 4
      BY <1>4, <2>4
    <3>2. PICK g : AreScanned(g, vs, 4)
      BY OneOptionScanned
    <3>3. PICK f : /\ AreScanned(f, vs, 4)
                   /\ ParseSet(vs) = IF f[4].wants \/ f[4].px = NoCommand THEN NoCommand
                                     ELSE <<"set", m.key, m.val, f[4].px>>
      <4>1. 4 \in Nat /\ Len(vs) = 4 /\ 4 >= 3
        BY <1>1, <3>1
      <4> QED BY ONLY <2>1, <3>2, <4>1, SetParsed, ZenonT(60)
    <3>4. f[3] = NoOption /\ f[4] = ScanOption(f[3], vs[4])
      <4>1. 3 \in 3 .. 4 /\ 4 \in 3 .. 4 /\ 4 # 3 /\ 4 - 1 = 3
        OBVIOUS
      <4>2. f = [i \in 3 .. 4 |-> IF i = 3 THEN NoOption ELSE ScanOption(f[i - 1], vs[i])]
        BY <3>3, Zenon DEF AreScanned, NoOption
      <4>3. f[3] = NoOption
        BY <4>1, <4>2, Zenon
      <4>4. f[4] = ScanOption(f[4 - 1], vs[4])
        BY <4>1, <4>2, Zenon
      <4> QED BY <4>1, <4>3, <4>4
    <3>5. vs[4][1] = "bulk" /\ vs[4][2] = PxWord
      <4>1. m.px # NoPx
        BY <3>1
      <4>2. Words(m)[4] = PxWord
        BY <4>1 DEF Words
      <4>3. 4 \in 1 .. a
        BY <3>1
      <4>4. vs[4] = Bulk(PxWord)
        BY <1>1, <4>2, <4>3
      <4> QED BY <4>4 DEF Bulk
    <3>6. f[4].wants
      <4> DEFINE acc == f[3]
                 v == vs[4]
      <4>1. acc.px # NoCommand /\ v[1] = "bulk" /\ ~ acc.wants /\ v[2] = PxWord
        BY <2>2, <3>4, <3>5
      <4>2. acc = [wants |-> FALSE, px |-> <<"no px">>]
        BY <3>4 DEF NoOption
      <4> HIDE DEF acc, v
      <4>3. ScanOption(acc, v) = [acc EXCEPT !.wants = v[2] = PxWord]
        BY <4>1 DEF ScanOption
      <4>4. ScanOption(acc, v) = [wants |-> TRUE, px |-> <<"no px">>]
        BY <4>1, <4>2, <4>3
      <4> DEFINE y == f[4]
      <4>5. y = [wants |-> TRUE, px |-> <<"no px">>]
        BY <3>4, <4>4 DEF acc, v
      <4> HIDE DEF y
      <4>6. y.wants
        BY <4>5
      <4> QED BY <4>6 DEF y
    <3>7. ParseSet(vs) = NoCommand
      BY <3>3, <3>6, Zenon
    <3> QED BY <2>4, <3>7 DEF vs
  <2> QED BY <2>3, <2>4
<1> QED BY <1>3, <1>4

(* What is executed of a message of which a words are seen.                *)
Executable(m, a) == IF a \in {3, Args(m)} THEN <<CommandOf(m, a = Args(m))>> ELSE <<>>

(* All the words of a SET make it, three of five make one without a        *)
(* deadline, and any other number of them is not executed.                 *)
LEMMA FirstWordsExecuted ==
  ASSUME NEW S, Letters \subseteq S, NEW m \in BareSet(S), NEW a \in 0 .. Args(m)
  PROVE  CommandsIn(FirstValues(Words(m), a)) = Executable(m, a)
<1> DEFINE x == FirstBulks(m, a)
<1>1. m \in PlainSet(S) /\ Len(Words(m)) = Args(m) /\ Args(m) \in {3, 5}
  BY WordsAreBare
<1>2. FirstValues(Words(m), a) = Array(x) /\ Array(x)[1] = "array" /\ Array(x)[2] = x
  BY DEF FirstValues, Array, FirstBulks
<1>3. CASE a = Args(m)
  <2>1. x = Values(m)
    BY <1>1, <1>3, Zenon DEF FirstBulks, Values
  <2>2. CommandsIn(Array(Values(m))) = <<CommandOf(m, TRUE)>>
    BY <1>1, OneCommand
  <2>3. Executable(m, a) = <<CommandOf(m, TRUE)>>
    <3>1. (a = Args(m)) = TRUE
      BY <1>3
    <3> QED BY <1>3, <3>1, Zenon DEF Executable
  <2> QED BY <1>2, <2>1, <2>2, <2>3
<1>4. CASE a # Args(m)
  <2> HIDE DEF x
  <2>1. a \in 0 .. 4 /\ (a >= 3 => m.px # NoPx)
    BY <1>1, <1>4 DEF Args
  <2>2. ParseSet(x) = IF a = 3 THEN CommandOf(m, FALSE) ELSE NoCommand
    BY <2>1, SetCutShort DEF x
  <2>3. CommandOf(m, FALSE) # NoCommand
    <3> DEFINE c == CommandOf(m, FALSE)
    <3>1. c[1] = "set" /\ NoCommand[1] = "none"
      BY DEF CommandOf, NoCommand
    <3> QED BY <3>1
  <2>4. CommandsIn(Array(x)) = IF a = 3 THEN <<CommandOf(m, FALSE)>> ELSE <<>>
    BY <1>2, <2>2, <2>3, Zenon DEF CommandsIn
  <2>5. Executable(m, a) = IF a = 3 THEN <<CommandOf(m, FALSE)>> ELSE <<>>
    <3>1. (a = Args(m)) = FALSE
      BY <1>4
    <3> QED BY <1>4, <3>1, Zenon DEF Executable
  <2> QED BY <1>2, <2>4, <2>5
<1> QED BY <1>3, <1>4

LEMMA BulkExecutesNothing == \A t : CommandsIn(Bulk(t)) = <<>>
<1>1. ASSUME NEW t PROVE CommandsIn(Bulk(t)) = <<>>
  <2> DEFINE v == Bulk(t)
  <2>1. v[1] # "array"
    BY DEF Bulk
  <2> HIDE DEF v
  <2>2. CommandsIn(v) = <<>>
    BY <2>1, Zenon DEF CommandsIn
  <2> QED BY <2>2 DEF v
<1> QED BY <1>1

-----------------------------------------------------------------------------
(* Where the messages of a stream stand in its text.                       *)
Ends(k) == Offset(Messages, k)

Laid(S) ==
  /\ Len(stream) \in Nat /\ DOMAIN stream = 1 .. Len(stream)
  /\ Messages \in Seq(Seq(S)) /\ Len(Messages) = Len(stream)
  /\ Text = FlattenSeq(Messages) /\ Text \in Seq(S) /\ Len(Text) \in Nat
  /\ \A k \in 1 .. Len(stream) :
       /\ stream[k] \in PlainSet(S) /\ Messages[k] = TextOf(stream[k])
       /\ TextOf(stream[k]) \in Seq(S) /\ Len(TextOf(stream[k])) \in Nat \ {0}
       /\ Ends(k) = Ends(k - 1) + Len(TextOf(stream[k]))
       /\ PartOf(Text, Ends(k - 1) + 1, TextOf(stream[k]))
  /\ Ends(0) = 0 /\ Ends(Len(stream)) = Len(Text)
  /\ \A k \in 0 .. Len(stream) : Ends(k) \in Nat /\ Ends(k) <= Len(Text)
  /\ \A i \in 0 .. Len(stream) : \A j \in 0 .. Len(stream) : i < j <=> Ends(i) < Ends(j)

LEMMA StreamIsLaid ==
  ASSUME NEW S, Letters \subseteq S, stream \in Seq(PlainSet(S))
  PROVE  Laid(S)
<1> DEFINE N == Len(stream)
<1>1. /\ Messages \in Seq(Seq(S)) /\ Len(Messages) = N /\ DOMAIN stream = 1 .. N
      /\ Text = FlattenSeq(Messages) /\ Text \in Seq(S) /\ Len(Text) \in Nat
  BY TextIsText DEF Messages
<1>2. N \in Nat /\ \A k \in 1 .. N : stream[k] \in PlainSet(S)
  BY <1>1, ElementOfSeq
<1>3. ASSUME NEW k \in 1 .. N
      PROVE  /\ Messages[k] = TextOf(stream[k])
             /\ TextOf(stream[k]) \in Seq(S) /\ Len(TextOf(stream[k])) \in Nat \ {0}
  <2>1. Messages[k] = TextOf(stream[k])
    BY <1>1 DEF Messages
  <2>2. Len(TextOf(stream[k])) \in Nat \ {0}
    BY <1>2, PointsAre
  <2>3. Messages[k] \in Seq(S)
    BY <1>1, ElementOfSeq
  <2> QED BY <2>1, <2>2, <2>3
<1> HIDE DEF N
<1>4. /\ Ends(0) = 0 /\ Ends(N) = Len(Text)
      /\ \A k \in 0 .. N : Ends(k) \in Nat /\ Ends(k) <= Len(Text)
      /\ \A k \in 1 .. N : /\ Ends(k) = Ends(k - 1) + Len(Messages[k])
                           /\ PartOf(Text, Ends(k - 1) + 1, Messages[k])
  <2>1. /\ Offset(Messages, 0) = 0
        /\ Offset(Messages, Len(Messages)) = Len(FlattenSeq(Messages))
        /\ \A n \in 0 .. Len(Messages) :
             Offset(Messages, n) \in Nat /\ Offset(Messages, n) <= Len(FlattenSeq(Messages))
        /\ \A n \in 1 .. Len(Messages) :
             /\ Offset(Messages, n) = Offset(Messages, n - 1) + Len(Messages[n])
             /\ PartOf(FlattenSeq(Messages), Offset(Messages, n - 1) + 1, Messages[n])
    BY <1>1, Flattened
  <2> QED BY <1>1, <2>1 DEF Ends
<1>5. ASSUME NEW i \in 0 .. N, NEW j \in 0 .. N
      PROVE  i < j <=> Ends(i) < Ends(j)
  <2>1. \A k \in 1 .. Len(Messages) : Len(Messages[k]) \in Nat \ {0}
    BY <1>1, <1>3
  <2>2. i \in 0 .. Len(Messages) /\ j \in 0 .. Len(Messages)
    BY <1>1
  <2>3. /\ i < j => Offset(Messages, i) < Offset(Messages, j)
        /\ Offset(Messages, i) < Offset(Messages, j) => i < j
    BY ONLY <1>1, <2>1, <2>2, OffsetsGrow
  <2> QED BY <2>3 DEF Ends
<1>6. \A k \in 1 .. N :
       /\ stream[k] \in PlainSet(S) /\ Messages[k] = TextOf(stream[k])
       /\ TextOf(stream[k]) \in Seq(S) /\ Len(TextOf(stream[k])) \in Nat \ {0}
       /\ Ends(k) = Ends(k - 1) + Len(TextOf(stream[k]))
       /\ PartOf(Text, Ends(k - 1) + 1, TextOf(stream[k]))
  BY <1>2, <1>3, <1>4
<1> QED BY <1>1, <1>2, <1>4, <1>5, <1>6 DEF Laid, N

(* Place n of the text is behind p characters of message j + 1, or behind  *)
(* them all.                                                               *)
At(n, j, p) ==
  /\ j \in 0 .. Len(stream) /\ p \in Nat /\ n = Ends(j) + p
  /\ IF j = Len(stream) THEN p = 0 ELSE p < Len(TextOf(stream[j + 1]))
PointIn(j, p) == IF p = 0 THEN Start ELSE PointsOf(stream[j + 1])[p + 1]

(* Every place of the text is in one message or at its end.                *)
LEMMA SomewhereInStream ==
  ASSUME NEW S, Laid(S), NEW n \in 0 .. Len(Text)
  PROVE  \E j, p : At(n, j, p)
<1> DEFINE N == Len(stream)
<1>1. /\ N \in Nat /\ Messages \in Seq(Seq(S)) /\ Len(Messages) = N /\ Text = FlattenSeq(Messages)
      /\ Len(Text) \in Nat /\ Ends(N) = Len(Text)
      /\ \A k \in 1 .. N : Messages[k] = TextOf(stream[k])
  BY DEF Laid
<1> HIDE DEF N
<1>2. CASE n = Len(Text)
  <2>1. At(n, N, 0)
    <3>1. N \in 0 .. N /\ n = Ends(N) + 0 /\ 0 \in Nat
      BY <1>1, <1>2
    <3> QED BY <3>1 DEF At, N
  <2> QED BY <2>1
<1>3. CASE n # Len(Text)
  <2>1. n \in 0 .. Len(FlattenSeq(Messages)) - 1
    BY <1>1, <1>3
  <2>2. PICK k \in 0 .. Len(Messages) - 1 :
          Offset(Messages, k) \in Nat /\ Offset(Messages, k) <= n /\ n - Offset(Messages, k) < Len(Messages[k + 1])
    BY <1>1, <2>1, CutInside
  <2>3. k \in 0 .. N /\ k # N /\ k + 1 \in 1 .. N
    BY <1>1
  <2>4. n - Ends(k) \in Nat /\ n = Ends(k) + (n - Ends(k)) /\ n - Ends(k) < Len(TextOf(stream[k + 1]))
    <3>1. Messages[k + 1] = TextOf(stream[k + 1])
      BY <1>1, <2>3
    <3>2. Ends(k) \in Nat /\ Ends(k) <= n /\ n - Ends(k) < Len(Messages[k + 1])
      BY <2>2 DEF Ends
    <3> QED BY <3>1, <3>2
  <2>5. At(n, k, n - Ends(k))
    BY <2>3, <2>4 DEF At, N
  <2> QED BY <2>5
<1> QED BY <1>2, <1>3

(* The position Stream gives a place, in the terms of Wire.                *)
LEMMA PositionIs ==
  ASSUME NEW S, Letters \subseteq S, Laid(S), NEW n, NEW j, NEW p, At(n, j, p)
  PROVE  PositionAt(n) = <<j + 1, PointIn(j, p)>>
<1> DEFINE N == Len(stream)
           part(i) == [l \in DOMAIN PointsOf(stream[i]) |-> <<i, PointsOf(stream[i])[l]>>]
           parts == [i \in DOMAIN stream |-> part(i)]
           P == (1 .. N) \X Points
           X == P \cup {<<N + 1, Start>>}
           f == FlattenSeq(parts)
           end == << <<N + 1, Start>> >>
<1>1. /\ N \in Nat /\ DOMAIN stream = 1 .. N
      /\ Messages \in Seq(Seq(S)) /\ Len(Messages) = N /\ Text = FlattenSeq(Messages) /\ Len(Text) \in Nat
      /\ Ends(N) = Len(Text)
      /\ \A k \in 1 .. N : stream[k] \in PlainSet(S) /\ Messages[k] = TextOf(stream[k])
  BY DEF Laid
<1>2. /\ j \in 0 .. N /\ p \in Nat /\ n = Ends(j) + p
      /\ IF j = N THEN p = 0 ELSE p < Len(TextOf(stream[j + 1]))
  BY DEF At
<1>3. Positions = f \o end
  BY Zenon DEF Positions
<1> HIDE DEF N
<1>4. ASSUME NEW i \in 1 .. N
      PROVE  /\ part(i) \in Seq(P) /\ Len(part(i)) = Len(Messages[i])
             /\ \A l \in 1 .. Len(Messages[i]) : part(i)[l] = <<i, PointsOf(stream[i])[l]>>
             /\ PointsOf(stream[i])[1] = Start
  <2> DEFINE pt == PointsOf(stream[i])
             L == Len(Messages[i])
             q == [l \in 1 .. L |-> <<i, pt[l]>>]
  <2>1. pt \in Seq(Points) /\ Len(pt) = L /\ L \in Nat
    BY <1>1, PointsAre
  <2>2. pt[1] = Start
    <3>1. \A x \in 0 .. 3 : pt[x + 1] = <<0, x>>
      BY <1>1, PointAt
    <3>2. 0 \in 0 .. 3 /\ 0 + 1 = 1
      OBVIOUS
    <3> HIDE DEF pt
    <3> QED BY <3>1, <3>2 DEF Start
  <2> HIDE DEF pt, L
  <2>3. DOMAIN pt = 1 .. L /\ \A l \in 1 .. L : pt[l] \in Points
    BY <2>1, ElementOfSeq
  <2>4. part(i) = q
    BY <2>3, Zenon DEF pt
  <2>5. q \in [1 .. L -> P] /\ \A l \in 1 .. L : q[l] = <<i, pt[l]>>
    BY <2>3
  <2> HIDE DEF q, P
  <2>6. q \in Seq(P) /\ Len(q) = L
    BY <2>1, <2>5, TupleIsSeq
  <2> HIDE DEF part
  <2> QED BY <2>2, <2>4, <2>5, <2>6 DEF L, pt
<1> HIDE DEF P
<1>5. parts \in [1 .. N -> Seq(P)] /\ \A i \in 1 .. N : parts[i] = part(i)
  <2> HIDE DEF part
  <2> QED BY <1>1, <1>4
<1> HIDE DEF part, parts
<1>6. parts \in Seq(Seq(P)) /\ Len(parts) = N
  BY <1>1, <1>5, TupleIsSeq
<1>7. /\ \A k \in 0 .. N : Offset(parts, k) = Ends(k)
      /\ Len(f) = Len(Text)
  <2>1. \A i \in 1 .. N : Len(parts[i]) = Len(Messages[i])
    BY <1>4, <1>5
  <2>2. /\ \A k \in 0 .. Len(parts) : Offset(parts, k) = Offset(Messages, k)
        /\ Len(FlattenSeq(parts)) = Len(FlattenSeq(Messages))
    BY <1>1, <1>6, <2>1, SameOffsets, SMTT(60)
  <2> QED BY <1>1, <1>6, <2>2 DEF Ends
<1>8. /\ f \in Seq(P)
      /\ \A k \in 1 .. N : PartOf(f, Ends(k - 1) + 1, parts[k]) /\ Ends(k) = Ends(k - 1) + Len(parts[k])
                           /\ Ends(k) <= Len(f) /\ Ends(k - 1) \in Nat
  <2>1. /\ FlattenSeq(parts) \in Seq(P)
        /\ \A k \in 0 .. Len(parts) : Offset(parts, k) \in Nat /\ Offset(parts, k) <= Len(FlattenSeq(parts))
        /\ \A k \in 1 .. Len(parts) :
             /\ Offset(parts, k) = Offset(parts, k - 1) + Len(parts[k])
             /\ PartOf(FlattenSeq(parts), Offset(parts, k - 1) + 1, parts[k])
    BY <1>6, Flattened
  <2>2. \A k \in 1 .. N : k \in 0 .. N /\ k - 1 \in 0 .. N
    BY <1>1
  <2> QED BY <1>6, <1>7, <2>1, <2>2
<1> HIDE DEF f
<1>9. /\ Len(f) \in Nat /\ \A w \in 1 .. Len(f) : (f \o end)[w] = f[w]
      /\ (f \o end)[Len(f) + 1] = <<N + 1, Start>>
  <2>1. f \in Seq(X)
    BY <1>8
  <2>2. end \in Seq(X) /\ Len(end) = 1 /\ end[1] = <<N + 1, Start>>
    OBVIOUS
  <2> HIDE DEF X, end
  <2>3. end \in Seq(X)
    BY <2>2
  <2>4. /\ Len(f) \in Nat /\ \A w \in 1 .. Len(f) : (f \o end)[w] = f[w]
        /\ \A w \in 1 .. Len(end) : (f \o end)[Len(f) + w] = end[w]
    BY ONLY <2>1, <2>3, Joining
  <2>5. 1 \in 1 .. Len(end)
    BY <2>2
  <2> QED BY <2>2, <2>4, <2>5
<1> HIDE DEF end
<1>10. CASE j = N
  <2>1. n + 1 = Len(f) + 1 /\ p = 0
    BY <1>1, <1>2, <1>7, <1>10
  <2>2. Positions[n + 1] = <<N + 1, Start>>
    BY <1>3, <1>9, <2>1
  <2> QED BY <1>10, <2>1, <2>2 DEF PositionAt, PointIn
<1>11. CASE j # N
  <2> DEFINE i == j + 1
  <2>1. i \in 1 .. N /\ i - 1 = j
    BY <1>1, <1>2, <1>11
  <2>2. p < Len(TextOf(stream[i])) /\ Len(parts[i]) = Len(TextOf(stream[i]))
    BY <1>1, <1>2, <1>4, <1>5, <1>11, <2>1
  <2>3. parts[i][p + 1] = <<i, PointsOf(stream[i])[p + 1]>>
    <3>1. Len(TextOf(stream[i])) = Len(Messages[i])
      BY <1>1, <2>1
    <3>2. p + 1 \in 1 .. Len(Messages[i])
      <4>1. Len(f) \in Nat /\ Ends(i) = Ends(j) + Len(parts[i]) /\ Ends(i) <= Len(f) /\ Ends(j) \in Nat
        BY <1>8, <1>9, <2>1
      <4>2. parts[i] \in Seq(P)
        BY <1>5, <2>1
      <4>3. Len(parts[i]) \in Nat
        BY <4>2
      <4> HIDE DEF i
      <4> QED BY <1>2, <2>2, <3>1, <4>3
    <3> HIDE DEF i
    <3> QED BY <1>4, <1>5, <2>1, <3>2
  <2> HIDE DEF i
  <2>4. f[n + 1] = parts[i][p + 1] /\ n + 1 \in 1 .. Len(f)
    <3>1. /\ PartOf(f, Ends(j) + 1, parts[i]) /\ Ends(i) = Ends(j) + Len(parts[i])
          /\ Ends(i) <= Len(f) /\ Ends(j) \in Nat /\ parts[i] \in Seq(P)
      BY <1>5, <1>8, <2>1
    <3>2. Len(parts[i]) \in Nat
      BY <3>1
    <3>3. p + 1 \in 1 .. Len(parts[i]) /\ (Ends(j) + 1) + (p + 1) - 1 = n + 1 /\ n + 1 <= Len(f) /\ n + 1 \in 1 .. Len(f)
      <4>1. p \in Nat /\ n = Ends(j) + p /\ Len(f) \in Nat /\ p < Len(parts[i])
        BY <1>2, <1>9, <2>2
      <4> QED BY <3>1, <3>2, <4>1
    <3> QED BY <3>1, <3>3 DEF PartOf
  <2>5. Positions[n + 1] = <<i, PointsOf(stream[i])[p + 1]>>
    BY <1>3, <1>9, <2>3, <2>4
  <2>6. PointsOf(stream[i])[p + 1] = PointIn(j, p)
    <3>1. CASE p = 0
      BY <1>4, <2>1, <3>1 DEF PointIn
    <3>2. CASE p # 0
      BY <3>2 DEF PointIn, i
    <3> QED BY <3>1, <3>2
  <2> QED BY <2>5, <2>6 DEF PositionAt, i
<1> QED BY <1>10, <1>11

-----------------------------------------------------------------------------
(* Where in a message a value could begin.                                 *)
Openings == {"*", "$", "+", ":"}

LEMMA HeaderOpens ==
  ASSUME NEW S, NEW x, NEW symbol, NEW width, NEW length, HasHeaderChars(x, symbol, width, length, S)
  PROVE  x[1] = symbol /\ IsDigit(x[2]) /\ \A i \in 2 .. Len(x) : x[i] \notin Openings
<1>1. /\ width \in Nat \ {0} /\ Len(x) = width + 3
      /\ x[1] = symbol /\ x[width + 2] = "cr" /\ x[width + 3] = "lf"
      /\ \A i \in 2 .. width + 1 : x[i] \in DigitChars
  BY DEF HasHeaderChars
<1>2. \A ch \in DigitChars : ch \notin Openings /\ IsDigit(ch)
  BY DigitsAre DEF Openings, IsDigit, DigitChars
<1>3. "cr" \notin Openings /\ "lf" \notin Openings
  BY DEF Openings
<1>4. ASSUME NEW i \in 2 .. Len(x) PROVE x[i] \notin Openings
  <2>1. i \in 2 .. width + 1 \/ i = width + 2 \/ i = width + 3
    BY <1>1
  <2> QED BY <1>1, <1>2, <1>3, <2>1
<1>5. 2 \in 2 .. width + 1
  BY <1>1
<1> QED BY <1>1, <1>2, <1>4, <1>5

LEMMA BulkOpens ==
  ASSUME NEW S, Symbols \subseteq S, NEW t \in Seq(S), Bare(t)
  PROVE  BulkText(t)[1] = "$" /\ \A i \in 2 .. Len(BulkText(t)) : BulkText(t)[i] \notin Openings
<1> DEFINE x == Header("$", Len(t)) \o CrLf
           y == t \o CrLf
<1>1. /\ x \in Seq(S) /\ Len(x) \in Nat \ {0} /\ x[1] = "$"
      /\ \A i \in 2 .. Len(x) : x[i] \notin Openings
  <2>1. Len(t) \in Nat
    OBVIOUS
  <2>2. "$" \in {"$", "*"}
    OBVIOUS
  <2>3. HasHeaderChars(x, "$", Width(Len(t)), Len(Header("$", Len(t))), S)
    BY ONLY <2>1, <2>2, Symbols \subseteq S, HeaderChars
  <2> HIDE DEF x
  <2>4. x \in Seq(S) /\ Len(x) \in Nat \ {0}
    BY <2>3 DEF HasHeaderChars
  <2> QED BY <2>3, <2>4, HeaderOpens
<1>2. y \in Seq(S) /\ Len(y) = Len(t) + 2 /\ \A i \in 1 .. Len(y) : y[i] \notin Openings
  <2>1. CrLf \in Seq(S) /\ Len(CrLf) = 2 /\ CrLf[1] = "cr" /\ CrLf[2] = "lf"
    BY CrLfIsText
  <2>2. t \in Seq(S) /\ CrLf \in Seq(S)
    BY <2>1
  <2>3. /\ y \in Seq(S) /\ Len(y) = Len(t) + Len(CrLf) /\ Len(t) \in Nat
        /\ \A i \in 1 .. Len(t) : y[i] = t[i]
        /\ \A i \in 1 .. Len(CrLf) : y[Len(t) + i] = CrLf[i]
    BY ONLY <2>2, Joining
  <2> HIDE DEF y
  <2>4. y[Len(t) + 1] = "cr" /\ y[Len(t) + 2] = "lf"
    BY <2>1, <2>3
  <2>5. ASSUME NEW i \in 1 .. Len(y) PROVE y[i] \notin Openings
    <3>1. CASE i \in 1 .. Len(t)
      <4>1. t[i] \notin Signs /\ y[i] = t[i]
        BY <2>3, <3>1 DEF Bare
      <4> QED BY <4>1 DEF Signs, Openings
    <3>2. CASE i \notin 1 .. Len(t)
      <4>1. i = Len(t) + 1 \/ i = Len(t) + 2
        BY <2>1, <2>3, <3>2
      <4> QED BY <2>4, <4>1 DEF Openings
    <3> QED BY <3>1, <3>2
  <2> QED BY <2>1, <2>3, <2>5
<1>3. BulkText(t) = x \o y
  <2>1. BulkText(t) = (x \o t) \o CrLf
    BY DEF BulkText, Header
  <2>2. x \in Seq(S) /\ t \in Seq(S) /\ CrLf \in Seq(S)
    BY <1>1, CrLfIsText
  <2>3. (x \o t) \o CrLf = x \o (t \o CrLf)
    <3> HIDE DEF x
    <3> QED BY ONLY <2>2, Regrouped
  <2> QED BY <2>1, <2>3
<1> HIDE DEF x, y
<1> DEFINE z == x \o y
<1>4. /\ Len(z) = Len(x) + Len(y) /\ Len(x) \in Nat /\ Len(y) \in Nat
      /\ \A i \in 1 .. Len(x) : z[i] = x[i]
      /\ \A i \in 1 .. Len(y) : z[Len(x) + i] = y[i]
  <2>1. x \in Seq(S) /\ y \in Seq(S)
    BY <1>1, <1>2
  <2> QED BY ONLY <2>1, Joining
<1> HIDE DEF z
<1>5. ASSUME NEW i \in 2 .. Len(z) PROVE z[i] \notin Openings
  <2>1. CASE i <= Len(x)
    BY <1>1, <1>4, <2>1
  <2>2. CASE ~ (i <= Len(x))
    <3> DEFINE j == i - Len(x)
    <3>1. j \in 1 .. Len(y) /\ Len(x) + j = i
      BY <1>4, <2>2
    <3> HIDE DEF j
    <3> QED BY <1>2, <1>4, <3>1
  <2> QED BY <2>1, <2>2
<1>6. z[1] = "$"
  <2>1. 1 \in 1 .. Len(x)
    BY <1>1
  <2> QED BY <1>1, <1>4, <2>1
<1> QED BY <1>3, <1>5, <1>6 DEF z

(* A value begins in a message at its start and at the headers of its      *)
(* words, and nowhere else.                                                *)
LEMMA MessageOpens ==
  ASSUME NEW S, Letters \subseteq S, NEW m \in BareSet(S)
  PROVE  /\ TextOf(m)[1] = "*" /\ IsDigit(TextOf(m)[2]) /\ Len(TextOf(m)) \in Nat /\ Len(TextOf(m)) >= 4
         /\ \A i \in 2 .. Len(TextOf(m)) : TextOf(m)[i] # "*"
         /\ \A x \in 1 .. Len(TextOf(m)) - 1 :
              TextOf(m)[x + 1] \in Openings => x >= 4 /\ \E k : InWord(m, x, k, 0)
<1> DEFINE h == HeadOf(m)
           b == Arguments(m)
           s == TextOf(m)
<1>s. Symbols \subseteq S
  BY DEF Letters
<1>1. /\ h \in Seq(S) /\ Len(h) = 4 /\ b \in Seq(S) /\ Len(b) \in Nat
      /\ s = h \o b /\ Len(s) = 4 + Len(b)
      /\ HasHeaderChars(h, "*", 1, 2, S)
  BY MessageText
<1>2. h[1] = "*" /\ IsDigit(h[2]) /\ \A i \in 2 .. 4 : h[i] \notin Openings
  <2> HIDE DEF h
  <2> QED BY <1>1, HeaderOpens
<1>3. \A i \in 1 .. 4 : s[i] = h[i]
  <2> HIDE DEF h, b, s
  <2>1. h \in Seq(S) /\ b \in Seq(S)
    BY <1>1
  <2>2. \A i \in 1 .. Len(h) : (h \o b)[i] = h[i]
    BY ONLY <2>1, Joining
  <2> QED BY <1>1, <2>2
<1>4. ASSUME NEW x \in 4 .. Len(s) - 1
      PROVE  s[x + 1] # "*" /\ (s[x + 1] \in Openings => \E k : InWord(m, x, k, 0))
  <2>1. PICK k, r : InWord(m, x, k, r)
    BY WordAt
  <2> DEFINE t == Words(m)[k + 1]
  <2>2. s[x + 1] = BulkText(t)[r + 1] /\ r \in Nat /\ r < Len(BulkText(t)) /\ k \in 0 .. Len(Words(m)) - 1
    <3>1. s[x + 1] = BulkText(t)[r + 1]
      BY <2>1, InWordIs
    <3>2. r \in Nat /\ r < Len(BulkText(t)) /\ k \in 0 .. Len(Words(m)) - 1
      BY <2>1 DEF InWord
    <3> QED BY <3>1, <3>2
  <2>3. t \in Seq(S) /\ Bare(t)
    <3>1. AreBare(Words(m), S) /\ Len(Words(m)) \in 3 .. 5
      BY WordsAreBare, MessageText
    <3>2. k + 1 \in 1 .. Len(Words(m))
      BY <2>2, <3>1
    <3> QED BY <3>1, <3>2, ElementOfSeq DEF AreBare
  <2> HIDE DEF t, s
  <2>4. BulkText(t)[1] = "$" /\ \A i \in 2 .. Len(BulkText(t)) : BulkText(t)[i] \notin Openings
    BY <1>s, <2>3, BulkOpens
  <2>5. CASE r = 0
    <3>1. s[x + 1] = "$"
      BY <2>2, <2>4, <2>5
    <3> QED BY <2>1, <2>5, <3>1
  <2>6. CASE r # 0
    <3>1. Len(BulkText(t)) \in Nat
      BY <1>s, <2>3, BulkTextFacts
    <3>2. r + 1 \in 2 .. Len(BulkText(t))
      BY <2>2, <2>6, <3>1
    <3>3. s[x + 1] \notin Openings
      BY <2>2, <2>4, <3>2
    <3> QED BY <3>3 DEF Openings
  <2> QED BY <2>5, <2>6
<1> HIDE DEF h, b, s
<1>5. s[1] = "*" /\ IsDigit(s[2]) /\ \A i \in 2 .. 4 : s[i] \notin Openings
  BY <1>2, <1>3
<1>6. ASSUME NEW i \in 2 .. Len(s) PROVE s[i] # "*"
  <2>1. CASE i <= 4
    <3>1. s[i] \notin Openings
      BY <1>5, <2>1
    <3> QED BY <3>1 DEF Openings
  <2>2. CASE ~ (i <= 4)
    <3> DEFINE x == i - 1
    <3>1. x \in 4 .. Len(s) - 1 /\ x + 1 = i
      BY <1>1, <2>2
    <3> HIDE DEF x
    <3> QED BY <1>4, <3>1
  <2> QED BY <2>1, <2>2
<1>7. ASSUME NEW x \in 1 .. Len(s) - 1, s[x + 1] \in Openings
      PROVE  x >= 4 /\ \E k : InWord(m, x, k, 0)
  <2>1. x >= 4
    <3>1. x + 1 \notin 2 .. 4
      BY <1>5, <1>7
    <3> QED BY <3>1
  <2>2. x \in 4 .. Len(s) - 1
    BY <1>1, <2>1
  <2> QED BY <1>4, <1>7, <2>1, <2>2
<1>8. Len(s) \in Nat /\ Len(s) >= 4
  BY <1>1
<1> QED BY <1>5, <1>6, <1>7, <1>8 DEF s

-----------------------------------------------------------------------------
(* A stream of bare words, character by character.                         *)
LaidBare(S) == Laid(S) /\ \A k \in 1 .. Len(stream) : stream[k] \in BareSet(S)

LEMMA CharIs ==
  ASSUME NEW S, Letters \subseteq S, LaidBare(S),
         NEW n \in Nat, n < Len(Text), NEW j, NEW p, At(n, j, p)
  PROVE  /\ j \in 0 .. Len(stream) - 1 /\ j + 1 \in 1 .. Len(stream) /\ p \in Nat
         /\ stream[j + 1] \in BareSet(S) /\ p < Len(TextOf(stream[j + 1]))
         /\ Text[n + 1] = TextOf(stream[j + 1])[p + 1]
<1> DEFINE N == Len(stream)
           w == TextOf(stream[j + 1])
<1>1. /\ N \in Nat /\ Len(Text) \in Nat /\ Ends(N) = Len(Text)
      /\ \A k \in 1 .. N : /\ TextOf(stream[k]) \in Seq(S) /\ stream[k] \in BareSet(S)
                           /\ Ends(k) = Ends(k - 1) + Len(TextOf(stream[k]))
                           /\ PartOf(Text, Ends(k - 1) + 1, TextOf(stream[k]))
      /\ \A k \in 0 .. N : Ends(k) \in Nat /\ Ends(k) <= Len(Text)
  BY DEF LaidBare, Laid
<1>2. j \in 0 .. N /\ p \in Nat /\ n = Ends(j) + p /\ (IF j = N THEN p = 0 ELSE p < Len(w))
  BY DEF At
<1> HIDE DEF N, w
<1>3. j # N
  BY <1>1, <1>2
<1>4. j \in 0 .. N - 1 /\ j + 1 \in 1 .. N /\ p < Len(w) /\ (j + 1) - 1 = j /\ j \in 0 .. N
  BY <1>1, <1>2, <1>3
<1>5. PartOf(Text, Ends(j) + 1, w) /\ w \in Seq(S) /\ stream[j + 1] \in BareSet(S)
  BY <1>1, <1>4 DEF w
<1>6. Text[n + 1] = w[p + 1]
  <2>1. Len(w) \in Nat /\ Ends(j) \in Nat
    BY <1>1, <1>4, <1>5
  <2>2. p + 1 \in 1 .. Len(w) /\ (Ends(j) + 1) + (p + 1) - 1 = n + 1 /\ n + 1 <= Len(Text)
    BY <1>1, <1>2, <1>4, <2>1
  <2> QED BY <1>5, <2>2 DEF PartOf
<1> QED BY <1>2, <1>4, <1>5, <1>6 DEF N, w

(* Its `*'s are the beginnings of its messages, and a digit follows each.  *)
LEMMA StarsAre ==
  ASSUME NEW S, Letters \subseteq S, LaidBare(S)
  PROVE  /\ \A y \in 1 .. Len(Text) : Text[y] = "*" <=> \E k \in 0 .. Len(stream) - 1 : y = Ends(k) + 1
         /\ \A k \in 0 .. Len(stream) - 1 :
              Ends(k) \in Nat /\ Ends(k) + 4 <= Ends(k + 1) /\ IsDigit(Text[Ends(k) + 2])
<1> DEFINE N == Len(stream)
<1>1. /\ Laid(S) /\ N \in Nat /\ Len(Text) \in Nat /\ Ends(N) = Len(Text)
      /\ \A k \in 1 .. N : stream[k] \in BareSet(S) /\ Ends(k) = Ends(k - 1) + Len(TextOf(stream[k]))
      /\ \A k \in 0 .. N : Ends(k) \in Nat /\ Ends(k) <= Len(Text)
  BY DEF LaidBare, Laid
<1>2. ASSUME NEW k \in 0 .. N - 1
      PROVE  /\ Ends(k) \in Nat /\ Ends(k) + 4 <= Ends(k + 1) /\ Ends(k + 1) <= Len(Text) /\ Ends(k + 1) \in Nat
             /\ IsDigit(Text[Ends(k) + 2]) /\ Text[Ends(k) + 1] = "*"
  <2> DEFINE m == stream[k + 1]
  <2>1. k + 1 \in 1 .. N /\ (k + 1) - 1 = k /\ k \in 0 .. N /\ k + 1 \in 0 .. N /\ k # N
    BY <1>1
  <2>2. /\ m \in BareSet(S) /\ Ends(k + 1) = Ends(k) + Len(TextOf(m))
        /\ Ends(k) \in Nat /\ Ends(k + 1) \in Nat /\ Ends(k + 1) <= Len(Text)
    BY <1>1, <2>1
  <2> HIDE DEF m
  <2>3. TextOf(m)[1] = "*" /\ IsDigit(TextOf(m)[2]) /\ Len(TextOf(m)) \in Nat /\ Len(TextOf(m)) >= 4
    BY <2>2, MessageOpens
  <2>4. At(Ends(k), k, 0) /\ At(Ends(k) + 1, k, 1)
    <3>1. 0 < Len(TextOf(m)) /\ 1 < Len(TextOf(m)) /\ Ends(k) = Ends(k) + 0 /\ k \in 0 .. Len(stream) /\ k # Len(stream)
      BY <2>1, <2>2, <2>3 DEF N
    <3> QED BY <3>1 DEF At, m
  <2>5. Ends(k) < Len(Text) /\ Ends(k) + 1 < Len(Text) /\ Ends(k) \in Nat /\ Ends(k) + 1 \in Nat
    BY <1>1, <2>2, <2>3
  <2>c. ASSUME NEW n \in Nat, n < Len(Text), NEW p, At(n, k, p)
        PROVE  Text[n + 1] = TextOf(m)[p + 1]
    BY <2>c, CharIs DEF m
  <2>6. Text[Ends(k) + 1] = TextOf(m)[0 + 1]
    BY ONLY <2>c, <2>4, <2>5
  <2>7. Text[(Ends(k) + 1) + 1] = TextOf(m)[1 + 1]
    BY ONLY <2>c, <2>4, <2>5
  <2>8. 0 + 1 = 1 /\ 1 + 1 = 2 /\ (Ends(k) + 1) + 1 = Ends(k) + 2
    BY <2>2
  <2>9. Text[Ends(k) + 1] = "*" /\ IsDigit(Text[Ends(k) + 2])
    BY <2>3, <2>6, <2>7, <2>8
  <2> QED BY <2>2, <2>3, <2>9
<1>3. ASSUME NEW y \in 1 .. Len(Text), Text[y] = "*"
      PROVE  \E k \in 0 .. N - 1 : y = Ends(k) + 1
  <2> DEFINE n == y - 1
  <2>1. n \in 0 .. Len(Text) /\ n \in Nat /\ n < Len(Text) /\ n + 1 = y
    BY <1>1
  <2> HIDE DEF n
  <2>2. PICK j, p : At(n, j, p)
    BY <1>1, <2>1, SomewhereInStream
  <2> DEFINE m == stream[j + 1]
  <2>3. /\ j \in 0 .. N - 1 /\ p \in Nat /\ m \in BareSet(S) /\ p < Len(TextOf(m))
        /\ Text[n + 1] = TextOf(m)[p + 1]
    BY <2>1, <2>2, CharIs
  <2> HIDE DEF m
  <2>4. p = 0
    <3>1. Len(TextOf(m)) \in Nat /\ \A i \in 2 .. Len(TextOf(m)) : TextOf(m)[i] # "*"
      BY <2>3, MessageOpens
    <3>2. p + 1 \notin 2 .. Len(TextOf(m))
      BY <1>3, <2>1, <2>3, <3>1
    <3> QED BY <2>3, <3>1, <3>2
  <2>5. n = Ends(j) + p
    BY <2>2 DEF At
  <2>6. y = Ends(j) + 1
    <3>1. n = Ends(j) + 0
      BY ONLY <2>4, <2>5
    <3>2. j \in 0 .. N /\ Ends(j) \in Nat
      BY <1>1, <2>3
    <3> QED BY ONLY <2>1, <3>1, <3>2
  <2> QED BY <2>3, <2>6
<1>4. ASSUME NEW y \in 1 .. Len(Text), NEW k \in 0 .. N - 1, y = Ends(k) + 1
      PROVE  Text[y] = "*"
  BY <1>2, <1>4
<1> QED BY <1>2, <1>3, <1>4

(* Of a chunk that begins with no value nothing is read.                   *)
LEMMA EmptyIsBad == Parse(<<>>) = Bad
<1> DEFINE T == Seq(Range(<<>>) \cup Range(CrLf))
<1>1. Len(<<>>) = 0 /\ 0 \in Nat /\ <<>> \in T
  OBVIOUS
<1>2. PICK f : AreNested(f, T, Len(<<>>)) /\ Parse(<<>>) = f[Len(<<>>)][<<>>]
  BY <1>1, ParseIsNested
<1>3. f[0] = [t \in T |-> Bad]
  BY <1>2 DEF AreNested
<1> HIDE DEF T
<1> QED BY <1>1, <1>2, <1>3

(* A chunk that begins with no asterisk and no dollar sign is refused.     *)
LEMMA NotOpened ==
  ASSUME NEW S, NEW s \in Seq(S), s # <<>>, s[1] \notin Openings
  PROVE  ParseMultiArray(s).fate = Bad
<1>1. Len(s) \in Nat \ {0}
  OBVIOUS
<1>2. ASSUME NEW n \in 0 .. Len(s) PROVE Parse(SubSeq(s, 1, n)) = Bad
  <2>1. CASE n = 0
    <3>1. SubSeq(s, 1, n) = <<>>
      BY <2>1
    <3> QED BY <3>1, EmptyIsBad
  <2>2. CASE n # 0
    <3> DEFINE w == SubSeq(s, 1, n)
    <3>1. w \in Seq(S) /\ Len(w) = n /\ \A i \in 1 .. n : w[i] = s[i]
      BY BeginningOf
    <3> HIDE DEF w
    <3>2. w # <<>> /\ w[1] = s[1]
      BY <2>2, <3>1
    <3>3. PICK parse : Parse(w) = ParseBy(w, parse)
      BY <3>1, <3>2, ParseIsOne
    <3>4. w[1] # "+" /\ w[1] # ":" /\ w[1] # "$" /\ w[1] # "*"
      BY <3>2 DEF Openings
    <3>5. ParseBy(w, parse) = Bad
      BY <3>2, <3>4 DEF ParseBy
    <3> QED BY <3>3, <3>5 DEF w
  <2> QED BY <2>1, <2>2
<1> QED BY <1>1, <1>2, NothingRead

LEMMA LoneStar ==
  ASSUME NEW S, Letters \subseteq S, NEW m \in BareSet(S), NEW s, s = SubSeq(TextOf(m), 1, 1)
  PROVE  ParseMultiArray(s).fate = Bad
<1>1. TextOf(m) \in Seq(S) /\ Len(TextOf(m)) \in Nat /\ Len(TextOf(m)) >= 4
  BY MessageText, MessageOpens
<1>2. s \in Seq(S) /\ Len(s) = 1 /\ SubSeq(s, 1, 1) = s
  <2>1. s \in Seq(S) /\ Len(s) = 1
    <3>1. 1 \in 0 .. Len(TextOf(m))
      BY <1>1
    <3> QED BY <1>1, <3>1, BeginningOf
  <2>2. SubSeq(s, 1, Len(s)) = s
    BY ONLY <2>1
  <2> QED BY <2>1, <2>2
<1>3. Parse(s) = Bad
  <2>1. 1 \in 1 .. Len(TextOf(m)) - 1
    BY <1>1
  <2>2. Parse(SubSeq(TextOf(m), 1, 1)) = CutValue(m, PointsOf(m)[1 + 1])
    BY <2>1, CutMessage
  <2>3. PointsOf(m)[1 + 1] = <<0, 1>>
    <3>1. m \in PlainSet(S)
      BY DEF BareSet
    <3>2. \A i \in 0 .. 3 : PointsOf(m)[i + 1] = <<0, i>>
      BY <3>1, PointAt
    <3>3. 1 \in 0 .. 3
      OBVIOUS
    <3> QED BY <3>2, <3>3
  <2>4. CutValue(m, <<0, 1>>) = Bad
    BY CutValueIs
  <2> QED BY <2>2, <2>3, <2>4
<1>4. \A n \in 0 .. Len(s) : Parse(SubSeq(s, 1, n)) = Bad
  <2> SUFFICES ASSUME NEW n \in 0 .. Len(s) PROVE Parse(SubSeq(s, 1, n)) = Bad
    OBVIOUS
  <2>1. n = 0 \/ n = 1
    BY <1>2
  <2>2. SubSeq(s, 1, 0) = <<>>
    BY <1>2
  <2> QED BY <1>2, <1>3, <2>1, <2>2, EmptyIsBad
<1>5. Len(s) \in Nat \ {0}
  BY <1>2
<1> QED BY <1>4, <1>5, NothingRead

-----------------------------------------------------------------------------
(* A chunk that takes in the beginnings of messages h + 1 to h + K: where  *)
(* parse_multi_array divides it.                                           *)
LEMMA PieceOfPiece ==
  ASSUME NEW S, NEW f \in Seq(S), NEW b \in Nat, NEW t \in Nat, b <= t, t <= Len(f),
         NEW x \in Nat, NEW y \in Nat, x <= y, y <= t - b
  PROVE  SubSeq(SubSeq(f, b + 1, t), x + 1, y) = SubSeq(f, b + x + 1, b + y)
<1> DEFINE s == SubSeq(f, b + 1, t)
           u == SubSeq(s, x + 1, y)
           c == b + x
           d == b + y
           w == SubSeq(f, c + 1, d)
<1>1. s \in Seq(S) /\ Len(s) = t - b /\ \A i \in 1 .. t - b : s[i] = f[b + i]
  BY PieceOf
<1> HIDE DEF s
<1>2. u \in Seq(S) /\ Len(u) = y - x /\ \A i \in 1 .. y - x : u[i] = s[x + i]
  <2>1. y <= Len(s)
    BY <1>1
  <2> QED BY <1>1, <2>1, PieceOf
<1>3. c \in Nat /\ d \in Nat /\ c <= d /\ d <= Len(f) /\ d - c = y - x
  OBVIOUS
<1>4. w \in Seq(S) /\ Len(w) = d - c /\ \A i \in 1 .. d - c : w[i] = f[c + i]
  <2> HIDE DEF c, d
  <2> QED BY <1>3, PieceOf
<1> HIDE DEF u, w
<1>5. ASSUME NEW i \in 1 .. Len(u) PROVE u[i] = w[i]
  <2>1. i \in 1 .. y - x /\ i \in 1 .. d - c /\ x + i \in 1 .. t - b /\ b + (x + i) = c + i
    BY <1>2, <1>3
  <2> HIDE DEF c, d
  <2>2. u[i] = s[x + i] /\ s[x + i] = f[b + (x + i)] /\ w[i] = f[c + i]
    BY <1>1, <1>2, <1>4, <2>1
  <2> QED BY <2>1, <2>2
<1>6. Len(u) = Len(w)
  BY <1>2, <1>3, <1>4
<1>7. u = w
  BY <1>2, <1>4, <1>5, <1>6, Extensional
<1> QED BY <1>7 DEF u, w, s, c, d

Border(h, b, t, K, k) == IF k = 0 THEN b ELSE IF k = K THEN t ELSE Ends(h + k)
Chunk(b, t) == SubSeq(Text, b + 1, t)

Divides(b, t, h, j, p, K) ==
  /\ b \in Nat /\ t \in Nat /\ b < t /\ t <= Len(Text) /\ At(t, j, p)
  /\ h \in 0 .. j /\ b <= Ends(h) /\ (h > 0 => Ends(h - 1) < b)
  /\ K = (j - h) + (IF p >= 2 THEN 1 ELSE 0) /\ K \in Nat \ {0}

(* The messages that begin in the chunk.                                   *)
LEMMA MessagesInside ==
  ASSUME NEW S, Letters \subseteq S, LaidBare(S),
         NEW b, NEW t, NEW h, NEW j, NEW p, NEW K, Divides(b, t, h, j, p, K)
  PROVE  /\ \A l \in 0 .. K - 1 : h + l \in 0 .. Len(stream) - 1 /\ Ends(h + l) + 1 < t /\ b <= Ends(h + l)
                                  /\ Ends(h + l) \in Nat
         /\ \A i \in 0 .. K - 1 : \A l \in 0 .. K - 1 : i < l => Ends(h + i) < Ends(h + l)
         /\ \A k \in 0 .. Len(stream) - 1 :
              b <= Ends(k) /\ Ends(k) + 1 < t => k - h \in 0 .. K - 1
<1> DEFINE N == Len(stream)
<1>1. /\ N \in Nat /\ Len(Text) \in Nat
      /\ \A k \in 0 .. N : Ends(k) \in Nat
      /\ \A x \in 0 .. N : \A y \in 0 .. N : x < y <=> Ends(x) < Ends(y)
  BY DEF LaidBare, Laid
<1>2. \A k \in 0 .. N - 1 : Ends(k) + 4 <= Ends(k + 1)
  BY StarsAre
<1>3. /\ b \in Nat /\ t \in Nat /\ b < t
      /\ h \in 0 .. j /\ b <= Ends(h) /\ (h > 0 => Ends(h - 1) < b)
      /\ K = (j - h) + (IF p >= 2 THEN 1 ELSE 0) /\ K \in Nat \ {0}
  BY DEF Divides
<1>4. j \in 0 .. N /\ p \in Nat /\ t = Ends(j) + p /\ (j = N => p = 0)
      /\ (j # N => j + 1 \in 0 .. N /\ t < Ends(j + 1))
  <2>1. j \in 0 .. N /\ p \in Nat /\ t = Ends(j) + p
        /\ (IF j = N THEN p = 0 ELSE p < Len(TextOf(stream[j + 1])))
    BY DEF Divides, At
  <2>2. ASSUME j # N PROVE j + 1 \in 0 .. N /\ t < Ends(j + 1)
    <3>1. j + 1 \in 1 .. N /\ (j + 1) - 1 = j /\ j + 1 \in 0 .. N
      BY <1>1, <2>1, <2>2
    <3>2. Ends(j + 1) = Ends(j) + Len(TextOf(stream[j + 1])) /\ Len(TextOf(stream[j + 1])) \in Nat
      BY <3>1 DEF LaidBare, Laid
    <3>3. p < Len(TextOf(stream[j + 1])) /\ Ends(j) \in Nat
      BY <1>1, <2>1, <2>2
    <3> QED BY <2>1, <3>1, <3>2, <3>3
  <2> QED BY <2>1, <2>2
<1> HIDE DEF N
<1>5. \A x \in 0 .. N : \A y \in 0 .. N : x <= y => Ends(x) <= Ends(y)
  <2> SUFFICES ASSUME NEW x \in 0 .. N, NEW y \in 0 .. N, x <= y PROVE Ends(x) <= Ends(y)
    OBVIOUS
  <2>1. x < y \/ x = y
    BY <1>1
  <2>2. Ends(x) \in Nat /\ Ends(y) \in Nat
    BY <1>1
  <2> QED BY <1>1, <2>1, <2>2
<1>6. ASSUME NEW l \in 0 .. K - 1
      PROVE  h + l \in 0 .. N - 1 /\ Ends(h + l) + 1 < t /\ b <= Ends(h + l) /\ Ends(h + l) \in Nat
  <2> DEFINE x == h + l
  <2>1. x \in 0 .. N - 1 /\ x \in 0 .. N /\ x + 1 \in 0 .. N /\ h <= x /\ h \in 0 .. N
        /\ (x < j \/ (x = j /\ p >= 2))
    BY <1>1, <1>3, <1>4
  <2> HIDE DEF x
  <2>2. Ends(x) \in Nat /\ Ends(x + 1) \in Nat /\ Ends(j) \in Nat
    BY <1>1, <1>4, <2>1
  <2>3. b <= Ends(x)
    BY <1>1, <1>3, <1>5, <2>1
  <2>4. CASE x < j
    <3>1. Ends(x) + 4 <= Ends(x + 1) /\ Ends(x + 1) <= Ends(j)
      <4>1. x + 1 <= j
        BY <1>4, <2>1, <2>4
      <4> QED BY <1>2, <1>4, <1>5, <2>1, <4>1
    <3> QED BY <1>4, <2>1, <2>2, <2>3, <3>1 DEF x
  <2>5. CASE x = j /\ p >= 2
    BY <1>4, <2>1, <2>2, <2>3, <2>5 DEF x
  <2> QED BY <2>1, <2>4, <2>5
<1>7. ASSUME NEW i \in 0 .. K - 1, NEW l \in 0 .. K - 1, i < l PROVE Ends(h + i) < Ends(h + l)
  <2>1. h + i \in 0 .. N /\ h + l \in 0 .. N /\ h + i < h + l
    BY <1>1, <1>3, <1>6, <1>7
  <2> QED BY <1>1, <2>1
<1>8. ASSUME NEW k \in 0 .. N - 1, b <= Ends(k), Ends(k) + 1 < t PROVE k - h \in 0 .. K - 1
  <2>1. k \in 0 .. N /\ k \in Nat /\ h \in Nat /\ j \in Nat /\ Ends(k) \in Nat /\ Ends(j) \in Nat
    BY <1>1, <1>3, <1>4
  <2>2. k >= h
    <3> SUFFICES ASSUME k < h PROVE FALSE
      BY <2>1
    <3>1. h - 1 \in 0 .. N /\ k <= h - 1 /\ h > 0
      <4>1. N \in Nat /\ h \in 0 .. j /\ j \in 0 .. N /\ k \in Nat
        BY <1>1, <1>3, <1>4, <2>1
      <4> QED BY ONLY <4>1, k < h
    <3>2. Ends(k) <= Ends(h - 1) /\ Ends(h - 1) < b /\ Ends(h - 1) \in Nat
      BY <1>1, <1>3, <1>5, <2>1, <3>1
    <3> QED BY <1>3, <1>8, <2>1, <3>2
  <2>3. k < j \/ (k = j /\ p >= 2)
    <3> SUFFICES ASSUME ~ (k < j) PROVE k = j /\ p >= 2
      OBVIOUS
    <3>1. j # N
      BY <1>4, <2>1, <1>1
    <3>2. k <= j
      <4> SUFFICES ASSUME j < k PROVE FALSE
        BY <2>1
      <4>1. j + 1 <= k /\ j + 1 \in 0 .. N
        BY <1>4, <2>1, <3>1
      <4>2. Ends(j + 1) <= Ends(k) /\ t < Ends(j + 1) /\ Ends(j + 1) \in Nat
        BY <1>1, <1>4, <1>5, <2>1, <3>1, <4>1
      <4> QED BY <1>3, <1>8, <2>1, <4>2
    <3>3. k = j
      BY <2>1, <3>2
    <3> QED BY <1>4, <1>8, <2>1, <3>3
  <2> QED BY <1>3, <2>1, <2>2, <2>3
<1> QED BY <1>6, <1>7, <1>8 DEF N

(* A chunk ends with an asterisk only behind the first character of a      *)
(* message.                                                                *)
LEMMA StarAtEnd ==
  ASSUME NEW S, Letters \subseteq S, LaidBare(S),
         NEW t \in 1 .. Len(Text), NEW j, NEW p, At(t, j, p)
  PROVE  Text[t] = "*" <=> p = 1
<1> DEFINE N == Len(stream)
<1>1. /\ N \in Nat /\ Len(Text) \in Nat
      /\ \A k \in 0 .. N : Ends(k) \in Nat
      /\ \A x \in 0 .. N : \A y \in 0 .. N : x < y <=> Ends(x) < Ends(y)
      /\ \A k \in 1 .. N : Ends(k) = Ends(k - 1) + Len(TextOf(stream[k])) /\ Len(TextOf(stream[k])) \in Nat
  BY DEF LaidBare, Laid
<1>2. /\ \A k \in 0 .. N - 1 : Ends(k) + 4 <= Ends(k + 1)
      /\ Text[t] = "*" <=> \E k \in 0 .. N - 1 : t = Ends(k) + 1
  BY StarsAre
<1>3. j \in 0 .. N /\ p \in Nat /\ t = Ends(j) + p
      /\ (IF j = N THEN p = 0 ELSE p < Len(TextOf(stream[j + 1])))
  BY DEF At
<1> HIDE DEF N
<1>4. ASSUME p = 1 PROVE Text[t] = "*"
  <2>1. j \in 0 .. N - 1 /\ t = Ends(j) + 1
    BY <1>1, <1>3, <1>4
  <2> QED BY <1>2, <2>1
<1>5. ASSUME Text[t] = "*" PROVE p = 1
  <2>1. PICK k \in 0 .. N - 1 : t = Ends(k) + 1
    BY <1>2, <1>5
  <2>2. k \in 0 .. N /\ k + 1 \in 0 .. N /\ Ends(k) \in Nat /\ Ends(k + 1) \in Nat /\ Ends(j) \in Nat
    BY <1>1, <1>3
  <2>3. ~ (k < j)
    <3> SUFFICES ASSUME k < j PROVE FALSE
      OBVIOUS
    <3>1. Ends(k) + 4 <= Ends(k + 1)
      BY <1>2
    <3>2. ~ (j < k + 1)
      BY <1>3, <2>2
    <3>3. ~ (Ends(j) < Ends(k + 1))
      BY <1>1, <1>3, <2>2, <3>2
    <3> QED BY <1>3, <2>1, <2>2, <3>1, <3>3
  <2>4. ~ (j < k)
    <3> SUFFICES ASSUME j < k PROVE FALSE
      OBVIOUS
    <3>1. j # N /\ j + 1 \in 1 .. N /\ (j + 1) - 1 = j /\ j + 1 \in 0 .. N /\ ~ (k < j + 1)
      BY <1>1, <1>3, <2>2
    <3>2. p < Len(TextOf(stream[j + 1])) /\ Ends(j + 1) = Ends(j) + Len(TextOf(stream[j + 1]))
          /\ Len(TextOf(stream[j + 1])) \in Nat
      BY <1>1, <1>3, <3>1
    <3>3. ~ (Ends(k) < Ends(j + 1)) /\ Ends(j + 1) \in Nat
      BY <1>1, <2>2, <3>1
    <3> QED BY <1>3, <2>1, <2>2, <3>2, <3>3
  <2>5. k = j
    BY <1>1, <1>3, <2>2, <2>3, <2>4
  <2> QED BY <1>3, <2>1, <2>2, <2>5
<1> QED BY <1>4, <1>5

HasValues(b, t, h, K, v) ==
  \A k \in 1 .. K :
    /\ Parse(SubSeq(Text, Border(h, b, t, K, k - 1) + 1, Border(h, b, t, K, k))) = v[k]
    /\ k < K => ~ Failed(v[k])
BordersIn(h, b, t, K) == [k \in 0 .. K |-> Border(h, b, t, K, k) - b]

(* The places where such a chunk is split, in order.                       *)
LEMMA BordersRise ==
  ASSUME NEW S, Letters \subseteq S, LaidBare(S),
         NEW b, NEW t, NEW h, NEW j, NEW p, NEW K, Divides(b, t, h, j, p, K)
  PROVE  /\ Border(h, b, t, K, 0) = b /\ Border(h, b, t, K, K) = t
         /\ \A k \in 0 .. K : Border(h, b, t, K, k) \in Nat /\ b <= Border(h, b, t, K, k)
                              /\ Border(h, b, t, K, k) <= t
         /\ \A k \in 1 .. K - 1 : Border(h, b, t, K, k) = Ends(h + k)
         /\ \A k \in 0 .. K : \A l \in 0 .. K : k < l => Border(h, b, t, K, k) < Border(h, b, t, K, l)
<1> DEFINE B(k) == Border(h, b, t, K, k)
<1>1. b \in Nat /\ t \in Nat /\ b < t /\ K \in Nat \ {0} /\ b <= Ends(h) /\ h \in Nat
  BY DEF Divides
<1>2. /\ \A l \in 0 .. K - 1 : Ends(h + l) + 1 < t /\ b <= Ends(h + l) /\ Ends(h + l) \in Nat
      /\ \A i \in 0 .. K - 1 : \A l \in 0 .. K - 1 : i < l => Ends(h + i) < Ends(h + l)
  BY MessagesInside
<1>3. B(0) = b /\ B(K) = t /\ \A k \in 1 .. K - 1 : B(k) = Ends(h + k)
  <2>1. B(0) = b
    BY DEF Border
  <2>2. B(K) = t
    <3>1. K # 0
      BY <1>1
    <3> QED BY <3>1 DEF Border
  <2>3. \A k \in 1 .. K - 1 : B(k) = Ends(h + k)
    <3>1. \A k \in 1 .. K - 1 : k # 0 /\ k # K
      BY <1>1
    <3> QED BY <3>1 DEF Border
  <2> QED BY <2>1, <2>2, <2>3
<1>4. \A k \in 1 .. K - 1 : B(k) \in Nat /\ b < B(k) /\ B(k) < t
  <2> SUFFICES ASSUME NEW k \in 1 .. K - 1 PROVE B(k) \in Nat /\ b < B(k) /\ B(k) < t
    OBVIOUS
  <2>1. k \in 0 .. K - 1 /\ 0 \in 0 .. K - 1 /\ 0 < k /\ h + 0 = h
    BY <1>1
  <2>2. Ends(h + k) + 1 < t /\ Ends(h + k) \in Nat /\ Ends(h + 0) < Ends(h + k) /\ Ends(h + 0) \in Nat
    BY <1>2, <2>1
  <2>3. Ends(h) < Ends(h + k) /\ Ends(h) \in Nat
    BY <2>1, <2>2
  <2> HIDE DEF B
  <2> QED BY <1>1, <1>3, <2>2, <2>3
<1>5. \A k \in 1 .. K - 1 : \A l \in 1 .. K - 1 : k < l => B(k) < B(l)
  <2>1. \A k \in 1 .. K - 1 : k \in 0 .. K - 1
    BY <1>1
  <2> HIDE DEF B
  <2> QED BY <1>2, <1>3, <2>1
<1> HIDE DEF B
<1>6. \A k \in 0 .. K : k = 0 \/ k = K \/ k \in 1 .. K - 1
  BY <1>1
<1>7. \A k \in 0 .. K : B(k) \in Nat /\ b <= B(k) /\ B(k) <= t
  BY <1>1, <1>3, <1>4, <1>6
<1>8. \A k \in 0 .. K : \A l \in 0 .. K : k < l => B(k) < B(l)
  <2> SUFFICES ASSUME NEW k \in 0 .. K, NEW l \in 0 .. K, k < l PROVE B(k) < B(l)
    OBVIOUS
  <2>1. k # K /\ l # 0
    BY <1>1
  <2>2. k = 0 \/ k \in 1 .. K - 1
    BY <1>6, <2>1
  <2>3. l = K \/ l \in 1 .. K - 1
    BY <1>6, <2>1
  <2> QED BY <1>1, <1>3, <1>4, <1>5, <2>2, <2>3
<1> QED BY <1>3, <1>7, <1>8 DEF B

(* Such a chunk is one of segments.                                        *)
LEMMA DividedSo ==
  ASSUME NEW S, Letters \subseteq S, LaidBare(S),
         NEW b, NEW t, NEW h, NEW j, NEW p, NEW K, Divides(b, t, h, j, p, K),
         NEW v, HasValues(b, t, h, K, v)
  PROVE  AreSegments(Chunk(b, t), BordersIn(h, b, t, K), v, K, Ends(h) - b + 1)
<1> DEFINE B(k) == Border(h, b, t, K, k)
           s == Chunk(b, t)
           o == BordersIn(h, b, t, K)
           q == Ends(h) - b + 1
           N == Len(stream)
<1>1. b \in Nat /\ t \in Nat /\ b < t /\ t <= Len(Text) /\ b <= t /\ K \in Nat \ {0} /\ b <= Ends(h) /\ h \in Nat
  BY DEF Divides
<1>2. /\ B(0) = b /\ B(K) = t
      /\ \A k \in 0 .. K : B(k) \in Nat /\ b <= B(k) /\ B(k) <= t
      /\ \A k \in 1 .. K - 1 : B(k) = Ends(h + k)
      /\ \A k \in 0 .. K : \A l \in 0 .. K : k < l => B(k) < B(l)
  BY BordersRise
<1>3. /\ \A l \in 0 .. K - 1 : h + l \in 0 .. N - 1 /\ Ends(h + l) + 1 < t /\ b <= Ends(h + l) /\ Ends(h + l) \in Nat
      /\ \A k \in 0 .. N - 1 : b <= Ends(k) /\ Ends(k) + 1 < t => k - h \in 0 .. K - 1
  BY MessagesInside
<1>4. Text \in Seq(S) /\ Len(Text) \in Nat /\ N \in Nat
  BY DEF LaidBare, Laid
<1>5. s \in Seq(S) /\ Len(s) = t - b /\ \A i \in 1 .. t - b : s[i] = Text[b + i]
  BY <1>1, <1>4, PieceOf DEF Chunk
<1>6. /\ \A y \in 1 .. Len(Text) : Text[y] = "*" <=> \E k \in 0 .. N - 1 : y = Ends(k) + 1
      /\ \A k \in 0 .. N - 1 : Ends(k) \in Nat /\ IsDigit(Text[Ends(k) + 2])
  BY StarsAre
<1>7. \A k \in 0 .. K : o[k] = B(k) - b
  BY DEF BordersIn
<1> HIDE DEF B, s, o, N
<1>8. Ends(h) \in Nat /\ Ends(h) + 1 < t /\ h \in 0 .. N - 1
  <2>1. 0 \in 0 .. K - 1 /\ h + 0 = h
    BY <1>1
  <2>2. h + 0 \in 0 .. N - 1 /\ Ends(h + 0) + 1 < t /\ Ends(h + 0) \in Nat
    BY <1>3, <2>1
  <2> QED BY <2>1, <2>2
<1>9. Len(s) \in Nat /\ o[0] = 0 /\ o[K] = Len(s) /\ \A k \in 0 .. K : o[k] \in Nat
  <2>1. 0 \in 0 .. K /\ K \in 0 .. K
    BY <1>1
  <2> QED BY <1>1, <1>2, <1>5, <1>7, <2>1
<1>10. ASSUME NEW k \in 0 .. K, NEW l \in 0 .. K, k < l PROVE o[k] < o[l]
  <2>1. B(k) < B(l) /\ B(k) \in Nat /\ B(l) \in Nat /\ o[k] = B(k) - b /\ o[l] = B(l) - b
    BY <1>2, <1>7, <1>10
  <2> QED BY <1>1, <2>1
<1>11. q \in Nat \ {0} /\ q \in 0 .. o[1]
  <2>1. q \in Nat \ {0}
    BY <1>1, <1>8
  <2>2. Ends(h) + 1 <= B(1) /\ B(1) \in Nat
    <3>1. CASE K = 1
      BY <1>1, <1>2, <1>8, <3>1
    <3>2. CASE K # 1
      <4>1. 1 \in 1 .. K - 1 /\ 1 \in 0 .. K - 1 /\ 0 \in 0 .. K - 1 /\ 0 < 1 /\ h + 0 = h
        BY <1>1, <3>2
      <4>2. \A i \in 0 .. K - 1 : \A l \in 0 .. K - 1 : i < l => Ends(h + i) < Ends(h + l)
        BY MessagesInside
      <4>3. Ends(h + 0) < Ends(h + 1) /\ Ends(h + 1) \in Nat /\ B(1) = Ends(h + 1)
        BY <1>2, <1>3, <4>1, <4>2
      <4>4. Ends(h) < Ends(h + 1)
        BY <4>1, <4>3
      <4> QED BY <1>8, <4>3, <4>4
    <3> QED BY <3>1, <3>2
  <2>3. o[1] = B(1) - b
    <3>1. 1 \in 0 .. K
      BY <1>1
    <3> QED BY <1>7, <3>1
  <2> QED BY <1>1, <1>8, <2>1, <2>2, <2>3
<1>12. ASSUME NEW l \in 0 .. K - 1, NEW i, i = Ends(h + l) - b + 1
       PROVE  MessageAt(s, i) /\ i \in 1 .. Len(s)
  <2> DEFINE k == h + l
  <2>1. k \in 0 .. N - 1 /\ Ends(k) + 1 < t /\ b <= Ends(k) /\ Ends(k) \in Nat
    BY <1>3
  <2>2. i = Ends(k) - b + 1
    BY <1>12
  <2> HIDE DEF k
  <2>3. /\ i \in 1 .. t - b /\ i + 1 \in 1 .. t - b /\ b + i = Ends(k) + 1 /\ b + (i + 1) = Ends(k) + 2
        /\ Ends(k) + 1 \in 1 .. Len(Text) /\ i < t - b
    <3> DEFINE e == Ends(k)
               L == Len(Text)
    <3>1. /\ e \in Nat /\ e + 1 < t /\ b <= e /\ i = e - b + 1 /\ b \in Nat /\ t \in Nat
          /\ L \in Nat /\ t <= L
      BY <1>1, <1>4, <2>1, <2>2
    <3> HIDE DEF e, L
    <3>2. /\ i \in 1 .. t - b /\ i + 1 \in 1 .. t - b /\ b + i = e + 1 /\ b + (i + 1) = e + 2
          /\ e + 1 \in 1 .. L /\ i < t - b
      BY ONLY <3>1
    <3> QED BY <3>2 DEF e, L
  <2>4. Text[Ends(k) + 1] = "*" /\ IsDigit(Text[Ends(k) + 2])
    BY <1>6, <2>1, <2>3
  <2>5. s[i] = Text[b + i] /\ s[i + 1] = Text[b + (i + 1)]
    BY <1>5, <2>3
  <2>6. s[i] = "*" /\ IsDigit(s[i + 1])
    BY <2>3, <2>4, <2>5
  <2> QED BY <1>5, <2>3, <2>6 DEF MessageAt
<1>13. ASSUME NEW i \in 1 .. Len(s), MessageAt(s, i)
       PROVE  \E l \in 0 .. K - 1 : i = Ends(h + l) - b + 1
  <2>1. s[i] = "*" /\ i < Len(s)
    BY <1>13 DEF MessageAt
  <2>2. b + i \in 1 .. Len(Text) /\ i \in 1 .. t - b /\ b + i < t
    BY <1>1, <1>4, <1>5, <2>1
  <2>3. PICK k \in 0 .. N - 1 : b + i = Ends(k) + 1
    BY <1>5, <1>6, <2>1, <2>2
  <2>4. k - h \in 0 .. K - 1 /\ Ends(k) \in Nat /\ k \in Nat
    <3>1. Ends(k) \in Nat /\ k \in Nat
      BY <1>6, <1>4
    <3>2. b <= Ends(k) /\ Ends(k) + 1 < t
      BY <1>1, <2>2, <2>3, <3>1
    <3> QED BY <1>3, <3>1, <3>2
  <2>5. h + (k - h) = k /\ i = Ends(k) - b + 1
    BY <1>1, <2>2, <2>3, <2>4
  <2>6. i = Ends(h + (k - h)) - b + 1
    BY <2>5
  <2> QED BY <2>4, <2>6
<1>14. ASSUME NEW i \in 1 .. Len(s)
       PROVE  MessageAt(s, i) <=> i = q \/ \E k \in 1 .. K - 1 : i = o[k] + 1
  <2>1. \A k \in 1 .. K - 1 : k \in 0 .. K - 1 /\ o[k] + 1 = Ends(h + k) - b + 1
    <3> SUFFICES ASSUME NEW k \in 1 .. K - 1 PROVE k \in 0 .. K - 1 /\ o[k] + 1 = Ends(h + k) - b + 1
      OBVIOUS
    <3>1. k \in 0 .. K /\ k \in 0 .. K - 1
      BY <1>1
    <3> QED BY <1>2, <1>7, <3>1
  <2>2. 0 \in 0 .. K - 1 /\ Ends(h + 0) - b + 1 = q
    <3>1. h + 0 = h /\ 0 \in 0 .. K - 1
      BY <1>1
    <3> QED BY <3>1
  <2>3. ASSUME MessageAt(s, i) PROVE i = q \/ \E k \in 1 .. K - 1 : i = o[k] + 1
    <3>1. PICK l \in 0 .. K - 1 : i = Ends(h + l) - b + 1
      BY <1>13, <2>3
    <3>2. l = 0 \/ l \in 1 .. K - 1
      BY <1>1
    <3> HIDE DEF q
    <3> QED BY <2>1, <2>2, <3>1, <3>2
  <2>4. ASSUME i = q \/ \E k \in 1 .. K - 1 : i = o[k] + 1 PROVE MessageAt(s, i)
    <3>1. CASE i = q
      <4> HIDE DEF q
      <4> QED BY <1>12, <2>2, <3>1
    <3>2. CASE \E k \in 1 .. K - 1 : i = o[k] + 1
      <4>1. PICK k \in 1 .. K - 1 : i = o[k] + 1
        BY <3>2
      <4>2. k \in 0 .. K - 1 /\ i = Ends(h + k) - b + 1
        BY <2>1, <4>1
      <4> QED BY <1>12, <4>2
    <3> QED BY <2>4, <3>1, <3>2
  <2> QED BY <2>3, <2>4
<1>15. ASSUME NEW k \in 1 .. K
       PROVE  Parse(SubSeq(s, o[k - 1] + 1, o[k])) = v[k] /\ (k < K => ~ Failed(v[k]))
  <2> DEFINE x == o[k - 1]
             y == o[k]
  <2>1. k - 1 \in 0 .. K /\ k \in 0 .. K /\ k - 1 < k
    BY <1>1
  <2>2. x \in Nat /\ y \in Nat /\ x < y /\ x = B(k - 1) - b /\ y = B(k) - b /\ B(k) <= t
        /\ B(k) \in Nat /\ B(k - 1) \in Nat
    BY <1>2, <1>7, <1>9, <1>10, <2>1
  <2> HIDE DEF x, y
  <2>3. x <= y /\ y <= t - b /\ b + x = B(k - 1) /\ b + y = B(k)
    BY <1>1, <2>2
  <2>4. SubSeq(SubSeq(Text, b + 1, t), x + 1, y) = SubSeq(Text, b + x + 1, b + y)
    <3>1. /\ Text \in Seq(S) /\ b \in Nat /\ t \in Nat /\ b <= t /\ t <= Len(Text)
          /\ x \in Nat /\ y \in Nat /\ x <= y /\ y <= t - b
      BY <1>1, <1>4, <2>2, <2>3
    <3>2. ASSUME NEW f \in Seq(S), t <= Len(f)
          PROVE  SubSeq(SubSeq(f, b + 1, t), x + 1, y) = SubSeq(f, b + x + 1, b + y)
      BY ONLY <3>1, <3>2, PieceOfPiece
    <3> QED BY ONLY <3>1, <3>2
  <2>5. SubSeq(s, x + 1, y) = SubSeq(Text, B(k - 1) + 1, B(k))
    BY <2>3, <2>4 DEF s, Chunk
  <2>6. Parse(SubSeq(Text, B(k - 1) + 1, B(k))) = v[k] /\ (k < K => ~ Failed(v[k]))
    BY DEF HasValues, B
  <2> QED BY <2>5, <2>6 DEF x, y
<1> HIDE DEF q
<1>16. \A k \in 1 .. K - 1 : ~ Failed(v[k])
  <2>1. \A k \in 1 .. K - 1 : k \in 1 .. K /\ k < K
    BY <1>1
  <2> QED BY <1>15, <2>1
<1> QED BY <1>1, <1>9, <1>10, <1>11, <1>14, <1>15, <1>16 DEF AreSegments, s, o, q

-----------------------------------------------------------------------------
(* What parse makes of a message with what follows it, and of one cut off. *)
LEMMA WholeSegment ==
  ASSUME NEW S, Letters \subseteq S, LaidBare(S),
         NEW l \in 1 .. Len(stream), NEW e \in Nat, Ends(l) <= e, e <= Len(Text)
  PROVE  Parse(SubSeq(Text, Ends(l - 1) + 1, e)) = Array(Values(stream[l]))
<1> DEFINE w == TextOf(stream[l])
           b == Ends(l - 1)
<1>1. /\ Text \in Seq(S) /\ Len(Text) \in Nat /\ stream[l] \in PlainSet(S)
      /\ w \in Seq(S) /\ PartOf(Text, b + 1, w) /\ Ends(l) = b + Len(w)
  BY DEF LaidBare, Laid
<1>2. b \in Nat /\ Len(w) \in Nat
  <2>1. l - 1 \in 0 .. Len(stream)
    BY DEF LaidBare, Laid
  <2>2. b \in Nat
    BY <2>1 DEF LaidBare, Laid
  <2> HIDE DEF w
  <2>3. Len(w) \in Nat
    BY <1>1
  <2> QED BY <2>2, <2>3
<1> HIDE DEF w, b
<1>3. /\ SubSeq(Text, b + Len(w) + 1, e) \in Seq(S)
      /\ SubSeq(Text, b + 1, e) = w \o SubSeq(Text, b + Len(w) + 1, e)
  <2>1. /\ Text \in Seq(S) /\ b \in Nat /\ w \in Seq(S) /\ PartOf(Text, b + 1, w)
        /\ e \in Nat /\ b + Len(w) <= e /\ e <= Len(Text)
    BY <1>1, <1>2
  <2>2. ASSUME NEW f \in Seq(S), PartOf(f, b + 1, w), e <= Len(f)
        PROVE  /\ SubSeq(f, b + Len(w) + 1, e) \in Seq(S)
               /\ SubSeq(f, b + 1, e) = w \o SubSeq(f, b + Len(w) + 1, e)
    BY ONLY <2>1, <2>2, CutBehind
  <2> QED BY ONLY <2>1, <2>2
<1> DEFINE rest == SubSeq(Text, b + Len(w) + 1, e)
<1> HIDE DEF rest
<1>4. rest \in Seq(S) /\ SubSeq(Text, b + 1, e) = w \o rest
  BY <1>3 DEF rest
<1>5. Parse(w \o rest) = Array(Values(stream[l]))
  <2>1. ASSUME NEW m \in PlainSet(S) PROVE Parse(TextOf(m) \o rest) = Array(Values(m))
    BY <1>4, <2>1, SetRead
  <2> QED BY <1>1, <2>1 DEF w
<1> QED BY <1>4, <1>5 DEF b

(* The message a chunk ends in.                                            *)
LEMMA CutSegment ==
  ASSUME NEW S, Letters \subseteq S, LaidBare(S),
         NEW t \in Nat, t <= Len(Text), NEW j, NEW p, At(t, j, p), p >= 1
  PROVE  /\ j + 1 \in 1 .. Len(stream) /\ stream[j + 1] \in BareSet(S)
         /\ p \in 1 .. Len(TextOf(stream[j + 1])) - 1
         /\ SubSeq(Text, Ends(j) + 1, t) = SubSeq(TextOf(stream[j + 1]), 1, p)
         /\ Parse(SubSeq(Text, Ends(j) + 1, t)) = CutValue(stream[j + 1], PointIn(j, p))
<1> DEFINE N == Len(stream)
           m == stream[j + 1]
           w == TextOf(m)
           b == Ends(j)
<1>1. /\ j \in 0 .. N /\ p \in Nat /\ t = b + p /\ N \in Nat
      /\ (IF j = N THEN p = 0 ELSE p < Len(w))
  BY DEF At, LaidBare, Laid
<1>2. j + 1 \in 1 .. N /\ (j + 1) - 1 = j /\ p < Len(w)
  BY <1>1
<1>3. /\ Text \in Seq(S) /\ Len(Text) \in Nat /\ m \in BareSet(S)
      /\ w \in Seq(S) /\ PartOf(Text, b + 1, w) /\ b \in Nat
  BY <1>1, <1>2 DEF LaidBare, Laid
<1>4. Parse(SubSeq(w, 1, p)) = CutValue(m, PointIn(j, p)) /\ p \in 1 .. Len(w) - 1
  <2>1. Len(w) \in Nat
    <3> HIDE DEF w
    <3> QED BY <1>3
  <2>2. p \in 1 .. Len(w) - 1
    BY <1>1, <1>2, <2>1
  <2>3. Parse(SubSeq(w, 1, p)) = CutValue(m, PointsOf(m)[p + 1])
    BY <1>3, <2>2, CutMessage
  <2>4. PointIn(j, p) = PointsOf(m)[p + 1]
    <3>1. p # 0
      BY <2>2
    <3> QED BY <3>1 DEF PointIn
  <2> QED BY <2>2, <2>3, <2>4
<1> HIDE DEF m, w, b
<1>5. SubSeq(Text, b + 1, t) = SubSeq(w, 1, p)
  <2> DEFINE x == SubSeq(Text, b + 1, t)
             y == SubSeq(w, 1, p)
  <2>1. b <= t /\ t \in Nat /\ t - b = p /\ p \in 0 .. Len(w) /\ Len(w) \in Nat
    BY <1>1, <1>2, <1>3
  <2>2. x \in Seq(S) /\ Len(x) = t - b /\ \A i \in 1 .. t - b : x[i] = Text[b + i]
    BY <1>3, <2>1, PieceOf
  <2>3. y \in Seq(S) /\ Len(y) = p /\ \A i \in 1 .. p : y[i] = w[i]
    BY <1>3, <2>1, BeginningOf
  <2> HIDE DEF x, y
  <2>4. ASSUME NEW i \in 1 .. Len(x) PROVE x[i] = y[i]
    <3>1. i \in 1 .. p /\ i \in 1 .. t - b /\ i \in 1 .. Len(w) /\ (b + 1) + i - 1 = b + i /\ b + i <= Len(Text)
      BY <1>1, <1>3, <2>1, <2>2
    <3>2. Text[b + i] = w[i]
      BY <1>3, <3>1 DEF PartOf
    <3> QED BY <2>2, <2>3, <3>1, <3>2
  <2>5. Len(x) = Len(y)
    BY <2>1, <2>2, <2>3
  <2>6. x = y
    BY <2>2, <2>3, <2>4, <2>5, Extensional
  <2> QED BY <2>6 DEF x, y
<1> QED BY <1>2, <1>3, <1>4, <1>5 DEF N, m, w, b

(* The values of a divided chunk: of the first c parts, which begin inside *)
(* a message, one bulk string, and of the others a message each.           *)
SegmentValue(h, j, p, K, c, x, k) ==
  IF k <= c THEN Bulk(x)
  ELSE IF p >= 2 /\ k = K THEN CutValue(stream[j + 1], PointIn(j, p))
  ELSE Array(Values(stream[h + k]))

Leads(b, t, h, K, c, x) ==
  /\ c \in {0, 1}
  /\ IF c = 0 THEN b = Ends(h) ELSE Parse(SubSeq(Text, b + 1, Border(h, b, t, K, 1))) = Bulk(x)

(* The values of all the segments of a chunk.                              *)
LEMMA DividedValues ==
  ASSUME NEW S, Letters \subseteq S, LaidBare(S),
         NEW b, NEW t, NEW h, NEW j, NEW p, NEW K, Divides(b, t, h, j, p, K),
         NEW c, NEW x, Leads(b, t, h, K, c, x)
  PROVE  HasValues(b, t, h, K, [k \in 1 .. K |-> SegmentValue(h, j, p, K, c, x, k)])
<1> DEFINE B(k) == Border(h, b, t, K, k)
           V(k) == SegmentValue(h, j, p, K, c, x, k)
           N == Len(stream)
<1>1. /\ b \in Nat /\ t \in Nat /\ b < t /\ t <= Len(Text) /\ h \in 0 .. j
      /\ K = (j - h) + (IF p >= 2 THEN 1 ELSE 0) /\ K \in Nat \ {0} /\ At(t, j, p)
  BY DEF Divides
<1>2. /\ B(0) = b /\ B(K) = t /\ \A k \in 1 .. K - 1 : B(k) = Ends(h + k)
  BY BordersRise
<1>3. j \in 0 .. N /\ p \in Nat /\ t = Ends(j) + p /\ N \in Nat /\ Ends(j) \in Nat
      /\ (\A k \in 0 .. N : Ends(k) \in Nat /\ Ends(k) <= Len(Text)) /\ Len(Text) \in Nat
  <2>1. j \in 0 .. N /\ p \in Nat /\ t = Ends(j) + p
    BY <1>1 DEF At
  <2> QED BY <2>1 DEF LaidBare, Laid
<1>4. \A l \in 0 .. K - 1 : h + l \in 0 .. N - 1
  BY MessagesInside
<1>5. c \in {0, 1} /\ (c = 0 => b = Ends(h)) /\ (c = 1 => Parse(SubSeq(Text, b + 1, B(1))) = Bulk(x))
  BY DEF Leads
<1>6. \A m : ~ Failed(Array(m)) /\ ~ Failed(Bulk(m))
  BY ValueFails
<1> HIDE DEF B, N
<1>7. ASSUME NEW k \in 1 .. K
      PROVE  Parse(SubSeq(Text, B(k - 1) + 1, B(k))) = V(k) /\ (k < K => ~ Failed(V(k)))
  <2>1. CASE k <= c
    <3>1. k = 1 /\ c = 1 /\ k - 1 = 0
      BY <1>5, <2>1
    <3>2. V(k) = Bulk(x)
      BY <2>1 DEF SegmentValue
    <3> QED BY <1>2, <1>5, <1>6, <3>1, <3>2
  <2>2. CASE ~ (k <= c)
    <3> DEFINE l == h + k
    <3>1. l \in Nat \ {0} /\ l - 1 = h + (k - 1) /\ h \in Nat /\ k - 1 \in 0 .. K - 1
      BY <1>1, <1>3
    <3>2. B(k - 1) = Ends(l - 1)
      <4>1. CASE k = 1
        <5>1. c = 0 /\ k - 1 = 0 /\ l - 1 = h
          BY <1>5, <2>2, <3>1, <4>1
        <5> HIDE DEF l
        <5> QED BY <1>2, <1>5, <5>1
      <4>2. CASE k # 1
        <5>1. k - 1 \in 1 .. K - 1
          <6>1. K \in Nat /\ k \in 1 .. K /\ k # 1
            BY <1>1, <4>2
          <6> HIDE DEF l, V
          <6> QED BY <6>1
        <5>2. B(k - 1) = Ends(h + (k - 1))
          BY <1>2, <5>1
        <5> HIDE DEF l
        <5> QED BY <3>1, <5>2
      <4> QED BY <4>1, <4>2
    <3>3. CASE p >= 2 /\ k = K
      <4>1. l - 1 = j
        BY <1>1, <1>3, <3>3
      <4>2. V(k) = CutValue(stream[j + 1], PointIn(j, p))
        BY <2>2, <3>3 DEF SegmentValue
      <4>3. Parse(SubSeq(Text, Ends(j) + 1, t)) = CutValue(stream[j + 1], PointIn(j, p))
        <5>1. p >= 1
          BY <1>3, <3>3
        <5> QED BY <1>1, <5>1, CutSegment
      <4> HIDE DEF l, V
      <4> QED BY <1>2, <3>2, <3>3, <4>1, <4>2, <4>3
    <3>4. CASE ~ (p >= 2 /\ k = K)
      <4>1. V(k) = Array(Values(stream[l]))
        BY <2>2, <3>4 DEF SegmentValue
      <4>2. l \in 1 .. N /\ B(k) \in Nat /\ Ends(l) <= B(k) /\ B(k) <= Len(Text)
        <5>1. CASE k = K
          <6>1. l = j /\ l \in 1 .. N
            BY <1>1, <1>3, <3>1, <3>4, <5>1
          <6> HIDE DEF l
          <6> QED BY <1>1, <1>2, <1>3, <5>1, <6>1
        <5>2. CASE k # K
          <6>1. k \in 1 .. K - 1 /\ k \in 0 .. K - 1
            BY <1>1, <5>2
          <6>2. l \in 0 .. N - 1 /\ B(k) = Ends(l)
            BY <1>2, <1>4, <6>1
          <6> HIDE DEF l
          <6>3. l \in 1 .. N /\ l \in 0 .. N
            BY <1>3, <3>1, <6>2
          <6>4. Ends(l) \in Nat /\ Ends(l) <= Len(Text)
            BY <1>3, <6>3
          <6> QED BY <6>2, <6>3, <6>4
        <5> QED BY <5>1, <5>2
      <4> HIDE DEF l, V
      <4>3. Parse(SubSeq(Text, Ends(l - 1) + 1, B(k))) = Array(Values(stream[l]))
        BY <4>2, WholeSegment DEF N
      <4> QED BY <1>6, <3>2, <4>1, <4>3
    <3> QED BY <3>3, <3>4
  <2> QED BY <2>1, <2>2
<1> DEFINE v == [k \in 1 .. K |-> V(k)]
<1>8. \A k \in 1 .. K : v[k] = V(k)
  BY Zenon
<1> HIDE DEF v, V
<1>9. HasValues(b, t, h, K, v)
  BY <1>7, <1>8 DEF HasValues, B
<1> QED BY <1>9 DEF v, V

(* Parts of which the first c hold nothing, the next n one command each,   *)
(* and the last, if there is one more, whatever it holds.                  *)
PartsAre(parts, K, c, n, cmds, rest, C) ==
  /\ K \in Nat /\ c \in {0, 1} /\ n \in Nat /\ K \in {c + n, c + n + 1} /\ rest \in Seq(C)
  /\ parts = [k \in 1 .. K |-> parts[k]]
  /\ c = 1 => parts[1] = <<>>
  /\ \A x \in 1 .. n : cmds[x] \in C /\ parts[c + x] = <<cmds[x]>>
  /\ IF K = c + n THEN rest = <<>> ELSE parts[K] = rest

LEMMA JoinedParts ==
  ASSUME NEW parts, NEW K, NEW c, NEW n, NEW cmds, NEW rest, NEW C,
         PartsAre(parts, K, c, n, cmds, rest, C)
  PROVE  FlattenSeq(parts) = FirstOnes(cmds, n) \o rest /\ FirstOnes(cmds, n) \in Seq(C)
<1> DEFINE F(k) == FlattenSeq([i \in 1 .. k |-> parts[i]])
           W(x) == FirstOnes(cmds, x)
<1>1. /\ K \in Nat /\ c \in {0, 1} /\ n \in Nat /\ K \in {c + n, c + n + 1} /\ rest \in Seq(C)
      /\ parts = [k \in 1 .. K |-> parts[k]] /\ (c = 1 => parts[1] = <<>>)
      /\ \A x \in 1 .. n : cmds[x] \in C /\ parts[c + x] = <<cmds[x]>>
  BY DEF PartsAre
<1>2. (K = c + n => rest = <<>>) /\ (K # c + n => parts[K] = rest)
  BY DEF PartsAre
<1>3. parts \in Seq(Seq(C)) /\ Len(parts) = K
  <2>1. ASSUME NEW k \in 1 .. K PROVE parts[k] \in Seq(C)
    <3>1. CASE k = 1 /\ c = 1
      <4>1. parts[k] = <<>>
        BY <1>1, <3>1
      <4>2. <<>> \in Seq(C)
        OBVIOUS
      <4> QED BY <4>1, <4>2
    <3>2. CASE k - c \in 1 .. n
      <4> DEFINE x == k - c
      <4>1. x \in 1 .. n /\ c + x = k
        BY <1>1, <3>2
      <4> HIDE DEF x
      <4>2. cmds[x] \in C /\ parts[k] = <<cmds[x]>>
        BY <1>1, <4>1
      <4> QED BY <4>2
    <3>3. CASE k = K /\ K # c + n
      BY <1>1, <1>2, <3>3
    <3>4. (k = 1 /\ c = 1) \/ k - c \in 1 .. n \/ (k = K /\ K # c + n)
      <4>1. K \in Nat /\ c \in {0, 1} /\ n \in Nat /\ (K = c + n \/ K = c + n + 1)
        BY <1>1
      <4> QED BY <4>1
    <3> QED BY <3>1, <3>2, <3>3, <3>4
  <2>2. parts \in [1 .. K -> Seq(C)]
    BY <1>1, <2>1
  <2> QED BY <1>1, <2>2, TupleIsSeq
<1> HIDE DEF F, W
<1>4. F(0) = <<>>
  <2>1. FlattenSeq([i \in 1 .. 0 |-> parts[i]]) = Joins(parts)[0]
    <3>1. 0 \in 0 .. Len(parts)
      BY <1>1, <1>3
    <3> QED BY <1>3, <3>1, FlattenPrefix
  <2>2. AreJoins(Joins(parts), parts, Len(parts))
    BY <1>1, <1>3, JoinsExist
  <2>3. Joins(parts)[0] = <<>>
    BY <2>2 DEF AreJoins
  <2> QED BY <2>1, <2>3 DEF F
<1>5. ASSUME NEW k \in 0 .. K - 1 PROVE F(k + 1) = F(k) \o parts[k + 1]
  BY <1>3, FlattenOneMore DEF F
<1>6. F(c) = <<>> /\ c <= K
  <2>1. c \in {0, 1} /\ c <= K
    BY <1>1
  <2>2. CASE c = 0
    BY <1>4, <2>1, <2>2
  <2>3. CASE c = 1
    <3>1. 0 \in 0 .. K - 1 /\ 0 + 1 = 1 /\ parts[1] = <<>>
      BY <1>1, <2>1, <2>3
    <3>2. F(1) = <<>> \o <<>>
      BY <1>4, <1>5, <3>1
    <3>3. <<>> \o <<>> = <<>>
      OBVIOUS
    <3> QED BY <2>1, <2>3, <3>2, <3>3
  <2> QED BY <2>1, <2>2, <2>3
<1>7. W(0) = <<>> /\ \A x \in Nat : Append(W(x), cmds[x + 1]) = W(x + 1)
  BY OneMoreOf DEF W
<1>8. \A x \in 0 .. n : F(c + x) = W(x) /\ W(x) \in Seq(C)
  <2> DEFINE G == {x \in 0 .. n : F(c + x) = W(x) /\ W(x) \in Seq(C)}
  <2>1. 0 \in G
    <3>1. c + 0 = c /\ 0 \in 0 .. n
      BY <1>1
    <3>2. F(c + 0) = W(0)
      BY <1>6, <1>7, <3>1
    <3>3. W(0) \in Seq(C)
      <4>1. <<>> \in Seq(C)
        OBVIOUS
      <4> QED BY <1>7, <4>1
    <3> QED BY <3>1, <3>2, <3>3
  <2>2. ASSUME NEW x \in 0 .. n - 1, x \in G PROVE x + 1 \in G
    <3> DEFINE y == x + 1
               k == c + x
    <3>1. y \in 1 .. n /\ y \in 0 .. n /\ x \in Nat /\ k \in 0 .. K - 1 /\ k + 1 = c + y
      BY <1>1
    <3>2. F(k) = W(x) /\ W(x) \in Seq(C)
      BY <2>2
    <3>3. Append(W(x), cmds[y]) = W(y)
      BY <1>7, <3>1
    <3> HIDE DEF y, k
    <3>4. cmds[y] \in C /\ parts[c + y] = <<cmds[y]>>
      BY <1>1, <3>1
    <3>5. F(c + y) = W(x) \o <<cmds[y]>>
      BY <1>5, <3>1, <3>2, <3>4
    <3>6. ASSUME NEW s \in Seq(C), NEW z \in C PROVE s \o <<z>> = Append(s, z) /\ Append(s, z) \in Seq(C)
      OBVIOUS
    <3>7. F(c + y) = W(y) /\ W(y) \in Seq(C)
      BY <3>2, <3>3, <3>4, <3>5, <3>6
    <3> QED BY <3>1, <3>7 DEF y
  <2>3. n \in Nat
    BY <1>1
  <2>4. \A x \in 0 .. n : x \in G
    <3> HIDE DEF G
    <3> QED BY <2>1, <2>2, <2>3, StepByStep
  <2> QED BY <2>4
<1>9. F(K) = FlattenSeq(parts)
  BY <1>1 DEF F
<1>10. n \in 0 .. n /\ F(c + n) = W(n) /\ W(n) \in Seq(C)
  <2>1. n \in 0 .. n
    BY <1>1
  <2> QED BY <1>8, <2>1
<1>11. CASE K = c + n
  <2>1. \A s \in Seq(C) : s \o <<>> = s
    OBVIOUS
  <2> QED BY <1>2, <1>9, <1>10, <1>11, <2>1 DEF W
<1>12. CASE K # c + n
  <2> DEFINE k == c + n
  <2>1. k \in 0 .. K - 1 /\ k + 1 = K
    BY <1>1, <1>12
  <2>2. F(k) = W(n)
    BY <1>10
  <2> HIDE DEF k
  <2>3. F(K) = W(n) \o rest
    BY <1>2, <1>5, <1>12, <2>1, <2>2
  <2> QED BY <1>9, <1>10, <2>3 DEF W
<1> QED BY <1>11, <1>12

(* Where a message is cut behind its first two characters.                 *)
LEMMA CutPoint ==
  ASSUME NEW S, Letters \subseteq S, NEW m \in BareSet(S),
         NEW p \in 2 .. Len(TextOf(m)) - 1, NEW e, e = PointsOf(m)[p + 1]
  PROVE  /\ e # Start /\ e # Star /\ e \in (0 .. 5) \X Places
         /\ ArgsSeen(e) \in 0 .. Args(m)
<1>1. m \in PlainSet(S) /\ Len(Words(m)) = Args(m) /\ Args(m) \in {3, 5}
  BY WordsAreBare
<1>2. Len(TextOf(m)) \in Nat
  BY MessageText
<1>3. CASE p < 4
  <2>1. p \in {2, 3} /\ p \in 0 .. 3
    BY <1>2, <1>3
  <2>2. PointsOf(m)[p + 1] = <<0, p>>
    BY <1>1, <2>1, PointAt
  <2>3. e = <<0, p>> /\ e[1] = 0 /\ e[2] = p
    BY <2>2
  <2>4. e # Start /\ e # Star /\ e \in (0 .. 5) \X Places
    BY <2>1, <2>3 DEF Start, Star, Places
  <2>5. ArgsSeen(e) = 0
    BY <2>1, <2>3 DEF ArgsSeen
  <2> QED BY <1>1, <2>4, <2>5
<1>4. CASE ~ (p < 4)
  <2>1. p \in 4 .. Len(TextOf(m)) - 1
    BY <1>2, <1>4
  <2>2. PICK k, r : InWord(m, p, k, r)
    BY <2>1, WordAt
  <2> DEFINE place == PlaceOf(Len(Words(m)[k + 1]), r)
  <2>3. e = <<k + 1, place>>
    BY <2>2, InWordIs
  <2>4. k \in 0 .. Len(Words(m)) - 1 /\ r \in Nat
    BY <2>2 DEF InWord
  <2>5. Len(Words(m)[k + 1]) \in Nat
    <3>1. Words(m) \in Seq(Seq(S))
      BY <1>1, WordsAreBare DEF AreBare
    <3>2. k + 1 \in 1 .. Len(Words(m))
      BY <1>1, <2>4
    <3>3. Words(m)[k + 1] \in Seq(S)
      BY <3>1, <3>2
    <3> QED BY <3>3
  <2>6. place \in Places
    BY <2>4, <2>5, PlaceIsPlace
  <2> HIDE DEF place
  <2> DEFINE a == k + 1
  <2>7. a \in 1 .. Args(m) /\ a \in 1 .. 5 /\ a - 1 \in 0 .. Args(m) /\ a \in 0 .. Args(m) /\ a # 0
    BY <1>1, <2>4
  <2>8. e = <<a, place>>
    BY <2>3
  <2> HIDE DEF a
  <2>9. e[1] = a /\ e[2] = place /\ e \in (0 .. 5) \X Places
    BY <2>6, <2>7, <2>8
  <2>10. e # Start /\ e # Star
    BY <2>7, <2>9 DEF Start, Star
  <2>11. ArgsSeen(e) \in 0 .. Args(m)
    BY <2>7, <2>9 DEF ArgsSeen
  <2> QED BY <2>9, <2>10, <2>11
<1> QED BY <1>3, <1>4

(* The point of a place in the stream.                                     *)
LEMMA PointInIs ==
  ASSUME NEW S, Letters \subseteq S, LaidBare(S),
         NEW t \in Nat, t <= Len(Text), NEW j, NEW p, At(t, j, p)
  PROVE  /\ p \in Nat /\ j \in 0 .. Len(stream)
         /\ p = 0 => PointIn(j, p) = Start
         /\ p = 1 => PointIn(j, p) = Star
         /\ p >= 2 => /\ PointIn(j, p) # Start /\ PointIn(j, p) # Star
                      /\ PointIn(j, p) \in (0 .. 5) \X Places
                      /\ ArgsSeen(PointIn(j, p)) \in 0 .. Args(stream[j + 1])
                      /\ stream[j + 1] \in BareSet(S)
<1>1. p \in Nat /\ j \in 0 .. Len(stream)
  BY DEF At
<1>2. p = 0 => PointIn(j, p) = Start
  BY DEF PointIn
<1>3. CASE p = 0
  BY <1>1, <1>2, <1>3
<1>4. CASE p >= 1
  <2> DEFINE m == stream[j + 1]
             e == PointsOf(m)[p + 1]
  <2>1. m \in BareSet(S) /\ p \in 1 .. Len(TextOf(m)) - 1
    BY <1>4, CutSegment
  <2>2. PointIn(j, p) = e
    BY <1>1, <1>4 DEF PointIn
  <2>3. m \in PlainSet(S) /\ Len(TextOf(m)) \in Nat
    BY <2>1, MessageText DEF BareSet
  <2>4. CASE p = 1
    <3>1. 1 \in 0 .. 3
      OBVIOUS
    <3>2. \A x \in 0 .. 3 : PointsOf(m)[x + 1] = <<0, x>>
      BY <2>3, PointAt
    <3>3. e = <<0, 1>>
      BY <2>4, <3>1, <3>2
    <3> HIDE DEF e, m
    <3> QED BY <1>1, <2>2, <2>4, <3>3 DEF Star
  <2>5. CASE p >= 2
    <3>1. p \in 2 .. Len(TextOf(m)) - 1
      BY <2>1, <2>3, <2>5
    <3>2. e # Start /\ e # Star /\ e \in (0 .. 5) \X Places /\ ArgsSeen(e) \in 0 .. Args(m)
      BY <2>1, <3>1, CutPoint
    <3>3. p # 0 /\ p # 1
      BY <2>5
    <3> HIDE DEF e
    <3> QED BY <1>1, <2>1, <2>2, <2>5, <3>2, <3>3
  <2> QED BY <1>1, <1>4, <2>4, <2>5
<1> QED BY <1>1, <1>3, <1>4

(* The whole messages of a divided chunk, behind its c parts, and what is  *)
(* executed of the one it ends in.                                         *)
WholesIn(h, j, c) == IF j >= h + c THEN j - (h + c) ELSE 0
WholeOnes(g, n) == [x \in 1 .. n |-> CommandOf(stream[g + x], TRUE)]
CutOnes(h, j, p, c) ==
  IF p >= 2 /\ j >= h + c THEN Executable(stream[j + 1], ArgsSeen(PointIn(j, p))) ELSE <<>>
AllCommands(S) == {CommandOf(m, whole) : m \in BareSet(S), whole \in BOOLEAN}

LEMMA CommandTyped ==
  ASSUME NEW S, NEW m \in BareSet(S), NEW whole \in BOOLEAN
  PROVE  CommandOf(m, whole) \in AllCommands(S)
<1> DEFINE f(n, y) == CommandOf(n, y)
<1> HIDE DEF f
<1>1. f(m, whole) \in {f(n, y) : n \in BareSet(S), y \in BOOLEAN}
  OBVIOUS
<1> QED BY <1>1 DEF f, AllCommands

LEMMA ExecutableTyped ==
  ASSUME NEW S, NEW m \in BareSet(S), NEW a
  PROVE  Executable(m, a) \in Seq(AllCommands(S))
<1> DEFINE whole == (a = Args(m))
<1>1. whole \in BOOLEAN
  OBVIOUS
<1> HIDE DEF whole
<1>2. CommandOf(m, whole) \in AllCommands(S)
  BY <1>1, CommandTyped
<1> USE DEF whole
<1>3. \A z \in AllCommands(S) : <<z>> \in Seq(AllCommands(S))
  OBVIOUS
<1>4. <<>> \in Seq(AllCommands(S))
  OBVIOUS
<1> QED BY <1>2, <1>3, <1>4, Zenon DEF Executable

(* What is executed of the message a chunk ends in.                        *)
LEMMA CutExecuted ==
  ASSUME NEW S, Letters \subseteq S, NEW m \in BareSet(S), NEW e, ArgsSeen(e) \in 0 .. Args(m),
         ~ Failed(CutValue(m, e))
  PROVE  CommandsIn(CutValue(m, e)) = Executable(m, ArgsSeen(e))
<1>1. Failed(Bad) /\ Failed(Panic)
  BY ValueFails
<1>2. CutValue(m, e) = FirstValues(Words(m), ArgsSeen(e))
  BY <1>1, Zenon DEF CutValue
<1> DEFINE a == ArgsSeen(e)
<1> HIDE DEF a
<1>3. a \in 0 .. Args(m)
  BY DEF a
<1>4. CommandsIn(FirstValues(Words(m), a)) = Executable(m, a)
  BY <1>3, FirstWordsExecuted
<1> QED BY <1>2, <1>4 DEF a

SegmentValues(h, j, p, K, c, x) == [k \in 1 .. K |-> SegmentValue(h, j, p, K, c, x, k)]

LastIsRead(h, j, p, K, c, x) == ~ Failed(SegmentValue(h, j, p, K, c, x, K))

(* The commands of a chunk: those of its whole messages, and what is left  *)
(* of the last.                                                            *)
LEMMA DividedCommands ==
  ASSUME NEW S, Letters \subseteq S, LaidBare(S),
         NEW b, NEW t, NEW h, NEW j, NEW p, NEW K, Divides(b, t, h, j, p, K),
         NEW c, NEW x, Leads(b, t, h, K, c, x), LastIsRead(h, j, p, K, c, x)
  PROVE  Commands(SegmentValues(h, j, p, K, c, x))
           = WholeOnes(h + c, WholesIn(h, j, c)) \o CutOnes(h, j, p, c)
<1> DEFINE V(k) == SegmentValue(h, j, p, K, c, x, k)
           v == [k \in 1 .. K |-> V(k)]
           parts == [k \in 1 .. K |-> CommandsIn(V(k))]
           n == WholesIn(h, j, c)
           g == h + c
           w == [y \in 1 .. n |-> CommandOf(stream[g + y], TRUE)]
           rest == CutOnes(h, j, p, c)
           U == AllCommands(S)
           N == Len(stream)
<1>1. /\ h \in 0 .. j /\ j \in 0 .. N /\ p \in Nat /\ t \in Nat /\ t <= Len(Text) /\ At(t, j, p)
      /\ K = (j - h) + (IF p >= 2 THEN 1 ELSE 0) /\ K \in Nat \ {0} /\ N \in Nat
  BY DEF Divides, At, LaidBare, Laid
<1>2. h \in Nat /\ j \in Nat /\ g \in Nat /\ g = h + c /\ c \in {0, 1}
  <2>1. c \in {0, 1}
    BY DEF Leads
  <2> QED BY <1>1, <2>1
<1> HIDE DEF g, N, U, V
<1>3. /\ n \in Nat /\ (j >= g => n = j - g) /\ (~ (j >= g) => n = 0 /\ c = 1 /\ K = 1)
      /\ K \in {c + n, c + n + 1} /\ (K # c + n => p >= 2 /\ j >= g)
      /\ (p >= 2 /\ j >= g => K # c + n)
  <2>1. n = IF j >= g THEN j - g ELSE 0
    BY DEF WholesIn, g
  <2> HIDE DEF n
  <2>2. CASE j >= g
    BY <1>1, <1>2, <2>1, <2>2
  <2>3. CASE ~ (j >= g)
    BY <1>1, <1>2, <2>1, <2>3
  <2> QED BY <2>2, <2>3
<1> HIDE DEF n
<1>4. c = 1 => CommandsIn(V(1)) = <<>>
  <2>1. ASSUME c = 1 PROVE V(1) = Bulk(x)
    BY <2>1 DEF V, SegmentValue
  <2> QED BY <2>1, BulkExecutesNothing
<1>5. ASSUME NEW y \in 1 .. n
      PROVE  CommandOf(stream[g + y], TRUE) \in U /\ CommandsIn(V(c + y)) = <<CommandOf(stream[g + y], TRUE)>>
             /\ c + y \in 1 .. K
  <2> DEFINE k == c + y
             l == g + y
  <2>1. k \in 1 .. K /\ ~ (k <= c) /\ ~ (p >= 2 /\ k = K) /\ h + k = l /\ l \in 1 .. N
    BY <1>1, <1>2, <1>3
  <2>2. V(k) = Array(Values(stream[h + k]))
    BY <2>1, Zenon DEF V, SegmentValue
  <2> HIDE DEF k, l
  <2>3. stream[l] \in BareSet(S) /\ stream[l] \in PlainSet(S)
    BY <2>1 DEF LaidBare, Laid, N
  <2>4. CommandsIn(V(k)) = <<CommandOf(stream[l], TRUE)>>
    BY <2>1, <2>2, <2>3, OneCommand
  <2>5. TRUE \in BOOLEAN
    OBVIOUS
  <2>6. CommandOf(stream[l], TRUE) \in U
    BY <2>3, <2>5, CommandTyped DEF U
  <2> QED BY <2>1, <2>4, <2>6 DEF k, l
<1>6. rest \in Seq(U) /\ (K = c + n => rest = <<>>) /\ (K # c + n => CommandsIn(V(K)) = rest)
  <2>1. CASE K = c + n
    <3>1. ~ (p >= 2 /\ j >= h + c)
      BY <1>2, <1>3, <2>1
    <3>2. rest = <<>>
      BY <3>1, Zenon DEF CutOnes
    <3>3. <<>> \in Seq(U)
      OBVIOUS
    <3> QED BY <2>1, <3>2, <3>3
  <2>2. CASE K # c + n
    <3> DEFINE m == stream[j + 1]
               e == PointIn(j, p)
               a == ArgsSeen(e)
    <3>1. p >= 2 /\ j >= h + c /\ ~ (K <= c)
      BY <1>1, <1>2, <1>3, <2>2
    <3>2. rest = Executable(m, a)
      BY <3>1, Zenon DEF CutOnes
    <3>3. V(K) = CutValue(m, e)
      BY <3>1, Zenon DEF V, SegmentValue
    <3>4. a \in 0 .. Args(m) /\ m \in BareSet(S)
      BY <1>1, <3>1, PointInIs
    <3> HIDE DEF m, e, a
    <3>5. CommandsIn(V(K)) = rest
      <4>1. ~ Failed(CutValue(m, e)) /\ ArgsSeen(e) \in 0 .. Args(m)
        BY <3>3, <3>4 DEF V, a, LastIsRead
      <4> QED BY <3>2, <3>3, <3>4, <4>1, CutExecuted DEF a
    <3>6. rest \in Seq(U)
      BY <3>2, <3>4, ExecutableTyped DEF U
    <3> QED BY <2>2, <3>5, <3>6
  <2> QED BY <2>1, <2>2
<1> HIDE DEF rest
<1>7. /\ \A k \in 1 .. K : parts[k] = CommandsIn(V(k))
      /\ \A y \in 1 .. n : w[y] = CommandOf(stream[g + y], TRUE)
      /\ parts = [k \in 1 .. K |-> parts[k]] /\ w = [y \in 1 .. n |-> w[y]]
      /\ DOMAIN v = 1 .. K /\ \A k \in 1 .. K : v[k] = V(k)
  OBVIOUS
<1>8. [k \in DOMAIN v |-> CommandsIn(v[k])] = parts
  BY <1>7, Zenon
<1> HIDE DEF parts, w, v
<1>9. PartsAre(parts, K, c, n, w, rest, U)
  <2>1. c = 1 => parts[1] = <<>>
    <3>1. 1 \in 1 .. K
      BY <1>1
    <3> QED BY <1>4, <1>7, <3>1
  <2>2. \A y \in 1 .. n : w[y] \in U /\ parts[c + y] = <<w[y]>>
    BY <1>5, <1>7
  <2>3. K # c + n => parts[K] = rest
    <3>1. K \in 1 .. K
      BY <1>1
    <3> QED BY <1>6, <1>7, <3>1
  <2>4. K \in Nat /\ n \in Nat /\ K \in {c + n, c + n + 1} /\ rest \in Seq(U)
    BY <1>1, <1>3, <1>6
  <2> QED BY <1>2, <1>6, <1>7, <2>1, <2>2, <2>3, <2>4 DEF PartsAre
<1>10. FlattenSeq(parts) = FirstOnes(w, n) \o rest
  BY <1>9, JoinedParts
<1>11. FirstOnes(w, n) = w
  BY <1>7 DEF FirstOnes
<1>12. Commands(v) = w \o rest
  BY <1>8, <1>10, <1>11 DEF Commands
<1>13. w = WholeOnes(h + c, WholesIn(h, j, c))
  BY DEF w, WholeOnes, n, g
<1> QED BY <1>12, <1>13 DEF v, V, rest, SegmentValues

(* What a digest tells of a chunk, and the chunk as it was read.           *)
FateTold(fate) ==
  CASE fate = Fine -> "read" [] fate = Bad -> "refused" [] fate = Panic -> "panicked"
CommandsTold(cmds) == [x \in DOMAIN cmds |-> CommandOf(stream[cmds[x].msg], cmds[x].whole)]
Tells(r, digest) ==
  /\ digest.fate = FateTold(r.fate)
  /\ (IF r.fate = Fine THEN Commands(r.out) ELSE <<>>) = CommandsTold(digest.cmds)

MappedEach(f, s) == [x \in DOMAIN s |-> f[s[x]]]
MapsJoin(f, s, t) == MappedEach(f, s \o t) = MappedEach(f, s) \o MappedEach(f, t)

LEMMA Mapped ==
  ASSUME NEW A, NEW B, NEW s \in Seq(A), NEW t \in Seq(A), NEW f \in [A -> B]
  PROVE  MapsJoin(f, s, t)
<1> DEFINE u == s \o t
           fs == [x \in 1 .. Len(s) |-> f[s[x]]]
           ft == [x \in 1 .. Len(t) |-> f[t[x]]]
           fu == [x \in 1 .. Len(u) |-> f[u[x]]]
<1>1. /\ u \in Seq(A) /\ Len(s) \in Nat /\ Len(t) \in Nat /\ Len(u) = Len(s) + Len(t) /\ Len(u) \in Nat
      /\ \A i \in 1 .. Len(s) : u[i] = s[i]
      /\ \A i \in 1 .. Len(t) : u[Len(s) + i] = t[i]
  BY Joining
<1>2. DOMAIN s = 1 .. Len(s) /\ DOMAIN t = 1 .. Len(t) /\ DOMAIN u = 1 .. Len(u)
  BY <1>1
<1>3. /\ \A i \in 1 .. Len(s) : fs[i] = f[s[i]] /\ f[s[i]] \in B
      /\ \A i \in 1 .. Len(t) : ft[i] = f[t[i]] /\ f[t[i]] \in B
  OBVIOUS
<1> HIDE DEF u
<1>4. \A i \in 1 .. Len(u) : fu[i] = f[u[i]] /\ f[u[i]] \in B
  BY <1>1
<1>5. fs \in [1 .. Len(s) -> B] /\ ft \in [1 .. Len(t) -> B] /\ fu \in [1 .. Len(u) -> B]
  BY <1>3, <1>4
<1> HIDE DEF fs, ft, fu
<1>6. /\ fs \in Seq(B) /\ Len(fs) = Len(s) /\ ft \in Seq(B) /\ Len(ft) = Len(t)
      /\ fu \in Seq(B) /\ Len(fu) = Len(u)
  BY <1>1, <1>5, TupleIsSeq
<1>7. /\ fs \o ft \in Seq(B) /\ Len(fs \o ft) = Len(s) + Len(t)
      /\ \A i \in 1 .. Len(s) : (fs \o ft)[i] = fs[i]
      /\ \A i \in 1 .. Len(t) : (fs \o ft)[Len(s) + i] = ft[i]
  <2>1. fs \in Seq(B) /\ ft \in Seq(B)
    BY <1>6
  <2>2. ASSUME NEW p \in Seq(B), NEW q \in Seq(B)
        PROVE  /\ p \o q \in Seq(B) /\ Len(p \o q) = Len(p) + Len(q)
               /\ \A i \in 1 .. Len(p) : (p \o q)[i] = p[i]
               /\ \A i \in 1 .. Len(q) : (p \o q)[Len(p) + i] = q[i]
    BY Joining
  <2>3. /\ fs \o ft \in Seq(B) /\ Len(fs \o ft) = Len(fs) + Len(ft)
        /\ \A i \in 1 .. Len(fs) : (fs \o ft)[i] = fs[i]
        /\ \A i \in 1 .. Len(ft) : (fs \o ft)[Len(fs) + i] = ft[i]
    BY ONLY <2>1, <2>2
  <2> QED BY <1>6, <2>3
<1>8. ASSUME NEW i \in 1 .. Len(fu) PROVE fu[i] = (fs \o ft)[i]
  <2>1. CASE i \in 1 .. Len(s)
    BY <1>1, <1>3, <1>4, <1>6, <1>7, <2>1
  <2>2. CASE i \notin 1 .. Len(s)
    <3> DEFINE l == i - Len(s)
    <3>1. l \in 1 .. Len(t) /\ i = Len(s) + l /\ i \in 1 .. Len(u)
      BY <1>1, <1>6, <2>2
    <3> HIDE DEF l
    <3>2. u[i] = t[l] /\ (fs \o ft)[i] = ft[l]
      BY <1>1, <1>7, <3>1
    <3> QED BY <1>3, <1>4, <3>1, <3>2
  <2> QED BY <2>1, <2>2
<1>9. fu = fs \o ft
  BY <1>1, <1>6, <1>7, <1>8, Extensional
<1> QED BY <1>2, <1>9, Zenon DEF fu, fs, ft, u, MappedEach, MapsJoin

(* The commands of a digest, the same way.                                 *)
LEMMA ToldOf ==
  ASSUME NEW g \in Nat, NEW j \in Nat, j >= g, NEW e
  PROVE  CommandsTold(Whole(g + 1, j) \o Remnant(stream, j + 1, e))
           = WholeOnes(g, j - g) \o (IF e = Start THEN <<>> ELSE Executable(stream[j + 1], ArgsSeen(e)))
<1> DEFINE A == [msg : Nat, whole : BOOLEAN]
           F(a) == CommandOf(stream[a.msg], a.whole)
           f == [a \in A |-> F(a)]
           B == {F(a) : a \in A}
           s == Whole(g + 1, j)
           n == j - g
           t == Remnant(stream, j + 1, e)
           m == stream[j + 1]
           z(y) == [msg |-> y, whole |-> TRUE]
<1>1. n \in Nat /\ (IF g + 1 <= j THEN j - (g + 1) + 1 ELSE 0) = n
  OBVIOUS
<1>2. s = [x \in 1 .. n |-> z(g + 1 + x - 1)]
  BY <1>1, Zenon DEF Whole
<1>3. ASSUME NEW y \in Nat PROVE z(y) \in A /\ z(y).msg = y /\ z(y).whole = TRUE
  OBVIOUS
<1>4. ASSUME NEW x \in 1 .. n PROVE g + x \in Nat /\ g + 1 + x - 1 = g + x
  BY <1>1
<1> HIDE DEF n, s, z
<1>5. /\ DOMAIN s = 1 .. n /\ s \in [1 .. n -> A]
      /\ \A x \in 1 .. n : s[x] = z(g + x) /\ s[x] \in A
  <2>1. \A x \in 1 .. n : s[x] = z(g + x) /\ z(g + x) \in A
    BY <1>2, <1>3, <1>4
  <2>2. s = [x \in 1 .. n |-> s[x]]
    BY <1>2
  <2> QED BY <2>1, <2>2
<1>6. s \in Seq(A) /\ Len(s) = n
  BY <1>1, <1>5, TupleIsSeq
<1> DEFINE whole == (ArgsSeen(e) = Args(m))
           y == [msg |-> j + 1, whole |-> whole]
<1>7. y \in A /\ y.msg = j + 1 /\ y.whole = whole /\ whole \in BOOLEAN
  OBVIOUS
<1>8. t = IF e # Start /\ ArgsSeen(e) \in {3, Args(m)} THEN <<y>> ELSE <<>>
  BY Zenon DEF Remnant
<1> HIDE DEF y, A, t
<1>9. f \in [A -> B]
  <2> HIDE DEF F
  <2> QED OBVIOUS
<1>10. \A a \in A : f[a] = F(a)
  OBVIOUS
<1> HIDE DEF f, B
<1>11. t \in Seq(A)
  <2>1. <<y>> \in Seq(A) /\ <<>> \in Seq(A)
    BY <1>7
  <2> QED BY <1>8, <2>1, Zenon
<1>12. MappedEach(f, s \o t) = MappedEach(f, s) \o MappedEach(f, t)
  <2>1. \A C, D : \A p \in Seq(C), q \in Seq(C), r \in [C -> D] : MapsJoin(r, p, q)
    BY Mapped
  <2>2. s \in Seq(A) /\ t \in Seq(A) /\ f \in [A -> B]
    BY <1>6, <1>9, <1>11
  <2>3. MapsJoin(f, s, t)
    BY ONLY <2>1, <2>2
  <2> QED BY <2>3 DEF MapsJoin
<1>13. CommandsTold(s \o t) = MappedEach(f, s \o t)
  <2> DEFINE u == s \o t
  <2>1. u \in Seq(A)
    BY <1>6, <1>11
  <2> HIDE DEF u
  <2>2. \A x \in DOMAIN u : u[x] \in A
    BY <2>1
  <2>3. \A x \in DOMAIN u : f[u[x]] = CommandOf(stream[u[x].msg], u[x].whole)
    BY <1>10, <2>2
  <2>4. CommandsTold(u) = MappedEach(f, u)
    BY <2>3, Zenon DEF CommandsTold, MappedEach
  <2> QED BY <2>4 DEF u
<1>14. MappedEach(f, s) = WholeOnes(g, n)
  <2>1. \A x \in 1 .. n : f[s[x]] = CommandOf(stream[g + x], TRUE)
    <3> TAKE x \in 1 .. n
    <3>1. f[s[x]] = CommandOf(stream[s[x].msg], s[x].whole)
      BY <1>5, <1>10
    <3>2. s[x].msg = g + x /\ s[x].whole = TRUE
      BY <1>3, <1>4, <1>5
    <3> QED BY <3>1, <3>2
  <2> QED BY <1>5, <2>1, Zenon DEF WholeOnes, MappedEach
<1>15. MappedEach(f, t) = IF e = Start THEN <<>> ELSE Executable(m, ArgsSeen(e))
  <2>1. CASE e # Start /\ ArgsSeen(e) \in {3, Args(m)}
    <3>1. t = <<y>>
      BY <1>8, <2>1, Zenon
    <3>2. f[y] = CommandOf(m, whole)
      <4>1. f[y] = CommandOf(stream[y.msg], y.whole)
        BY <1>7, <1>10
      <4> QED BY <1>7, <4>1
    <3> DEFINE cmd == CommandOf(m, whole)
    <3> HIDE DEF cmd
    <3>3. MappedEach(f, <<y>>) = <<cmd>>
      <4>1. DOMAIN <<y>> = 1 .. 1 /\ <<y>>[1] = y
        OBVIOUS
      <4>2. f[y] = cmd
        BY <3>2 DEF cmd
      <4> QED BY <4>1, <4>2 DEF MappedEach
    <3>4. Executable(m, ArgsSeen(e)) = <<cmd>>
      BY <2>1, Zenon DEF Executable, cmd
    <3> QED BY <2>1, <3>1, <3>3, <3>4
  <2>2. CASE ~ (e # Start /\ ArgsSeen(e) \in {3, Args(m)})
    <3>1. t = <<>>
      BY <1>8, <2>2, Zenon
    <3>2. MappedEach(f, <<>>) = <<>>
      BY DEF MappedEach
    <3>3. e = Start \/ Executable(m, ArgsSeen(e)) = <<>>
      BY <2>2, Zenon DEF Executable
    <3> QED BY <3>1, <3>2, <3>3
  <2> QED BY <2>1, <2>2
<1> QED BY <1>12, <1>13, <1>14, <1>15 DEF s, t, n, m

(* What a digest has to say of each outcome.                               *)
LEMMA TellsOf ==
  ASSUME NEW r
  PROVE  /\ r.fate = Bad => Tells(r, Refused)
         /\ r.fate = Panic => Tells(r, Panicked)
         /\ \A cmds : r.fate = Fine /\ Commands(r.out) = CommandsTold(cmds) => Tells(r, Read(cmds))
<1>1. Fine # Bad /\ Fine # Panic /\ Bad # Panic
  BY DEF Fine, Bad, Panic
<1>2. FateTold(Fine) = "read" /\ FateTold(Bad) = "refused" /\ FateTold(Panic) = "panicked"
  BY <1>1 DEF FateTold
<1>3. CommandsTold(<<>>) = <<>>
  BY DEF CommandsTold
<1>4. Refused.fate = "refused" /\ Refused.cmds = <<>> /\ Panicked.fate = "panicked" /\ Panicked.cmds = <<>>
  BY DEF Refused, Panicked
<1>5. \A cmds : Read(cmds).fate = "read" /\ Read(cmds).cmds = cmds
  BY DEF Read
<1>6. r.fate = Bad => Tells(r, Refused)
  BY <1>1, <1>2, <1>3, <1>4 DEF Tells
<1>7. r.fate = Panic => Tells(r, Panicked)
  BY <1>1, <1>2, <1>3, <1>4 DEF Tells
<1>8. ASSUME NEW cmds, r.fate = Fine, Commands(r.out) = CommandsTold(cmds) PROVE Tells(r, Read(cmds))
  BY <1>2, <1>5, <1>8 DEF Tells
<1> QED BY <1>6, <1>7, <1>8

(* What a chunk of K values reads as, cut at place p.                      *)
ChunkReads(r, v, K, p) ==
  IF Failed(v[K]) THEN r.fate = v[K]
  ELSE IF p = 1 THEN r.fate = Panic ELSE r.fate = Fine /\ r.out = FirstOnes(v, K)

LEMMA SegmentsReadAs ==
  ASSUME NEW S, Letters \subseteq S, LaidBare(S),
         NEW b \in Nat, NEW t \in Nat, b < t, t <= Len(Text), NEW j, NEW p, At(t, j, p),
         NEW o, NEW v, NEW K, NEW q, AreSegments(Chunk(b, t), o, v, K, q)
  PROVE  ChunkReads(ParseMultiArray(Chunk(b, t)), v, K, p)
<1> DEFINE s == Chunk(b, t)
           r == ParseMultiArray(s)
<1>1. Text \in Seq(S) /\ Len(Text) \in Nat
  BY DEF LaidBare, Laid
<1>2. Len(s) = t - b /\ \A i \in 1 .. t - b : s[i] = Text[b + i]
  BY <1>1, PieceOf DEF Chunk
<1>3. s[Len(s)] = Text[t]
  <2>1. t - b \in 1 .. t - b /\ b + (t - b) = t
    OBVIOUS
  <2> QED BY <1>2, <2>1
<1>4. Text[t] = "*" <=> p = 1
  <2>1. t \in 1 .. Len(Text)
    BY <1>1
  <2> QED BY <2>1, StarAtEnd
<1> HIDE DEF s
<1>5. IF Failed(v[K]) THEN r.fate = v[K]
      ELSE IF s[Len(s)] = "*" THEN r.fate = Panic
      ELSE r.fate = Fine /\ r.out = FirstOnes(v, K)
  BY SegmentsRead DEF s
<1> HIDE DEF r
<1>6. ChunkReads(r, v, K, p)
  BY <1>3, <1>4, <1>5, Zenon DEF ChunkReads
<1> QED BY <1>6 DEF r, s

LEMMA UpToIs ==
  ASSUME NEW i, NEW k, NEW e
  PROVE  /\ e = Start => UpTo(stream, i, k, e) = Read(Whole(i, k - 1) \o Remnant(stream, k, e))
         /\ e = Star => UpTo(stream, i, k, e) = Panicked
         /\ Refusing(e) => UpTo(stream, i, k, e) = Refused
         /\ ~ Refusing(e) /\ Panicking(e) => UpTo(stream, i, k, e) = Panicked
         /\ ~ Refusing(e) /\ ~ Panicking(e) =>
              UpTo(stream, i, k, e) = Read(Whole(i, k - 1) \o Remnant(stream, k, e))
<1>1. ~ Refusing(Start) /\ ~ Panicking(Start)
  BY DEF Refusing, Panicking, Start, Star
<1>2. ~ Refusing(Star) /\ Panicking(Star)
  BY DEF Refusing, Panicking, Star
<1> QED BY <1>1, <1>2, Zenon DEF UpTo

(* A chunk with the beginning of a message in it, by where it ends.        *)
LEMMA DividedTells ==
  ASSUME NEW S, Letters \subseteq S, LaidBare(S),
         NEW b, NEW t, NEW h, NEW j, NEW p, NEW K, Divides(b, t, h, j, p, K),
         NEW c, NEW x, Leads(b, t, h, K, c, x)
  PROVE  Tells(ParseMultiArray(Chunk(b, t)),
               IF j >= h + c THEN UpTo(stream, h + c + 1, j + 1, PointIn(j, p)) ELSE Read(<<>>))
<1>0. LastIsRead(h, j, p, K, c, x) =>
        Commands(SegmentValues(h, j, p, K, c, x))
          = WholeOnes(h + c, WholesIn(h, j, c)) \o CutOnes(h, j, p, c)
  BY DividedCommands
<1> DEFINE V(k) == SegmentValue(h, j, p, K, c, x, k)
           v == [k \in 1 .. K |-> V(k)]
           r == ParseMultiArray(Chunk(b, t))
           g == h + c
           e == PointIn(j, p)
           m == stream[j + 1]
           N == Len(stream)
           w == WholeOnes(g, WholesIn(h, j, c))
           rest == CutOnes(h, j, p, c)
           cmds == Whole(g + 1, j) \o Remnant(stream, j + 1, e)
<1>1. /\ b \in Nat /\ t \in Nat /\ b < t /\ t <= Len(Text) /\ At(t, j, p)
      /\ h \in 0 .. j /\ j \in 0 .. N /\ p \in Nat
      /\ K = (j - h) + (IF p >= 2 THEN 1 ELSE 0) /\ K \in Nat \ {0} /\ N \in Nat
  BY DEF Divides, At, LaidBare, Laid
<1>2. c \in {0, 1} /\ h \in Nat /\ j \in Nat /\ g \in Nat /\ g = h + c
  <2>1. c \in {0, 1}
    BY DEF Leads
  <2> QED BY <1>1, <2>1
<1>3. ChunkReads(r, v, K, p)
  <2>1. HasValues(b, t, h, K, v)
    BY DividedValues
  <2> HIDE DEF v
  <2>2. AreSegments(Chunk(b, t), BordersIn(h, b, t, K), v, K, Ends(h) - b + 1)
    BY <2>1, DividedSo
  <2> QED BY <1>1, <2>2, SegmentsReadAs
<1>4. v[K] = V(K) /\ FirstOnes(v, K) = v
  <2>1. K \in 1 .. K
    BY <1>1
  <2> QED BY <2>1, Zenon DEF FirstOnes
<1>5. ~ Failed(V(K)) => Commands(v) = w \o rest
  <2>2. ~ Failed(SegmentValue(h, j, p, K, c, x, K)) =>
          Commands(SegmentValues(h, j, p, K, c, x))
            = WholeOnes(h + c, WholesIn(h, j, c)) \o CutOnes(h, j, p, c)
    BY <1>0 DEF LastIsRead
  <2>3. v = SegmentValues(h, j, p, K, c, x)
    BY DEF SegmentValues
  <2> QED BY <2>2, <2>3, Zenon
<1>6. /\ p = 0 => e = Start
      /\ p = 1 => e = Star
      /\ p >= 2 => e # Start /\ e # Star
  BY <1>1, PointInIs
<1>7. Failed(Bad) /\ Failed(Panic) /\ (\A y : ~ Failed(Bulk(y)) /\ ~ Failed(Array(y)))
  BY ValueFails
<1>8. V(K) = IF K <= c THEN Bulk(x) ELSE IF p >= 2 THEN CutValue(m, e) ELSE Array(Values(stream[h + K]))
  BY Zenon DEF SegmentValue
<1> HIDE DEF V, v, r, e, m, N
<1>10. /\ Refusing(e) => UpTo(stream, g + 1, j + 1, e) = Refused
       /\ ~ Refusing(e) /\ Panicking(e) => UpTo(stream, g + 1, j + 1, e) = Panicked
       /\ e = Star => UpTo(stream, g + 1, j + 1, e) = Panicked
       /\ (~ Refusing(e) /\ ~ Panicking(e)) \/ e = Start => UpTo(stream, g + 1, j + 1, e) = Read(cmds)
  <2>1. (j + 1) - 1 = j
    BY <1>2
  <2> HIDE DEF g
  <2> QED BY <2>1, UpToIs
<1> HIDE DEF w, rest, cmds
<1>11. CASE j >= g
  <2>1. CommandsTold(cmds) = w \o (IF e = Start THEN <<>> ELSE Executable(m, ArgsSeen(e)))
    <3>1. WholesIn(h, j, c) = j - g
      BY <1>11, Zenon DEF WholesIn
    <3> HIDE DEF g
    <3>2. g \in Nat /\ j \in Nat /\ j >= g
      BY <1>2, <1>11
    <3>3. ASSUME NEW y
          PROVE CommandsTold(Whole(g + 1, j) \o Remnant(stream, j + 1, y))
                  = WholeOnes(g, j - g) \o (IF y = Start THEN <<>> ELSE Executable(stream[j + 1], ArgsSeen(y)))
      BY <3>2, ToldOf
    <3>4. CommandsTold(Whole(g + 1, j) \o Remnant(stream, j + 1, e))
            = WholeOnes(g, j - g) \o (IF e = Start THEN <<>> ELSE Executable(stream[j + 1], ArgsSeen(e)))
      BY <3>3
    <3> QED BY <3>1, <3>4 DEF w, cmds, m
  <2>2. CASE p < 2
    <3>1. ~ Failed(V(K)) /\ rest = <<>>
      <4>1. ~ (p >= 2)
        BY <1>1, <2>2
      <4> QED BY <1>7, <1>8, <4>1, Zenon DEF rest, CutOnes
    <3>2. p = 0 \/ p = 1
      BY <1>1, <2>2
    <3>3. CASE p = 0
      <4>1. p # 1 /\ e = Start
        BY <1>6, <3>3
      <4>2. r.fate = Fine /\ r.out = v
        BY <1>3, <1>4, <3>1, <4>1, Zenon DEF ChunkReads
      <4>3. Commands(r.out) = CommandsTold(cmds)
        BY <1>5, <2>1, <3>1, <4>1, <4>2, Zenon
      <4>4. Tells(r, Read(cmds))
        BY <4>2, <4>3, TellsOf
      <4> QED BY <1>10, <1>11, <4>1, <4>4 DEF r, e
    <3>4. CASE p = 1
      <4>1. e = Star
        BY <1>6, <3>4
      <4>2. r.fate = Panic
        BY <1>3, <1>4, <3>1, <3>4, Zenon DEF ChunkReads
      <4>3. Tells(r, Panicked)
        BY <4>2, TellsOf
      <4> QED BY <1>10, <1>11, <4>1, <4>3 DEF r, e
    <3> QED BY <3>2, <3>3, <3>4
  <2>3. CASE p >= 2
    <3>1. ~ (K <= c) /\ p # 1 /\ e # Start /\ e # Star
      BY <1>1, <1>2, <1>6, <1>11, <2>3
    <3>2. V(K) = CutValue(m, e)
      BY <1>8, <2>3, <3>1
    <3>3. rest = Executable(m, ArgsSeen(e))
      BY <1>11, <2>3, Zenon DEF rest, CutOnes, e, m
    <3>4. CASE Refusing(e)
      <4>1. V(K) = Bad
        BY <3>2, <3>4, Zenon DEF CutValue
      <4>2. r.fate = Bad
        BY <1>3, <1>4, <1>7, <4>1, Zenon DEF ChunkReads
      <4>3. Tells(r, Refused)
        BY <4>2, TellsOf
      <4> QED BY <1>10, <1>11, <3>4, <4>3 DEF r, e
    <3>5. CASE ~ Refusing(e) /\ Panicking(e)
      <4>1. V(K) = Panic
        BY <3>1, <3>2, <3>5, Zenon DEF CutValue
      <4>2. r.fate = Panic
        BY <1>3, <1>4, <1>7, <4>1, Zenon DEF ChunkReads
      <4>3. Tells(r, Panicked)
        BY <4>2, TellsOf
      <4> QED BY <1>10, <1>11, <3>5, <4>3 DEF r, e
    <3>6. CASE ~ Refusing(e) /\ ~ Panicking(e)
      <4>1. ~ Failed(V(K))
        BY <1>7, <3>1, <3>2, <3>6, Zenon DEF CutValue, FirstValues
      <4>2. r.fate = Fine /\ r.out = v
        BY <1>3, <1>4, <3>1, <4>1, Zenon DEF ChunkReads
      <4>3. Commands(r.out) = CommandsTold(cmds)
        BY <1>5, <2>1, <3>1, <3>3, <4>1, <4>2, Zenon
      <4>4. Tells(r, Read(cmds))
        BY <4>2, <4>3, TellsOf
      <4> QED BY <1>10, <1>11, <3>6, <4>4 DEF r, e
    <3> QED BY <3>4, <3>5, <3>6
  <2> QED BY <1>1, <2>2, <2>3
<1>12. CASE ~ (j >= g)
  <2>1. K <= c /\ p # 1
    BY <1>1, <1>2, <1>12
  <2>2. ~ Failed(V(K))
    BY <1>7, <1>8, <2>1
  <2>3. r.fate = Fine /\ r.out = v
    BY <1>3, <1>4, <2>1, <2>2, Zenon DEF ChunkReads
  <2>4. w = <<>> /\ rest = <<>>
    <3>1. WholesIn(h, j, c) = 0 /\ rest = <<>>
      BY <1>12, Zenon DEF WholesIn, rest, CutOnes
    <3>2. \A y : WholeOnes(y, 0) = <<>>
      BY DEF WholeOnes
    <3> QED BY <3>1, <3>2 DEF w
  <2>5. CommandsTold(<<>>) = <<>> /\ <<>> \o <<>> = <<>>
    BY DEF CommandsTold
  <2>6. Commands(r.out) = CommandsTold(<<>>)
    BY <1>5, <2>2, <2>3, <2>4, <2>5
  <2>7. Tells(r, Read(<<>>))
    BY <2>3, <2>6, TellsOf
  <2> QED BY <1>12, <2>7 DEF r
<1> QED BY <1>11, <1>12

(* Two places of the stream, in order.                                     *)
LEMMA InOrderAre ==
  ASSUME NEW S, Letters \subseteq S, LaidBare(S),
         NEW b, NEW i, NEW x, At(b, i, x), NEW t, NEW j, NEW p, At(t, j, p), b < t
  PROVE  i <= j /\ (i = j => x < p) /\ i \in 0 .. Len(stream) - 1
<1> DEFINE N == Len(stream)
<1>1. /\ i \in 0 .. N /\ x \in Nat /\ b = Ends(i) + x
      /\ j \in 0 .. N /\ p \in Nat /\ t = Ends(j) + p /\ N \in Nat
      /\ (IF j = N THEN p = 0 ELSE p < Len(TextOf(stream[j + 1])))
  BY DEF At, LaidBare, Laid
<1>2. /\ \A k \in 0 .. N : Ends(k) \in Nat /\ Ends(k) <= Len(Text)
      /\ \A k \in 1 .. N : Ends(k) = Ends(k - 1) + Len(TextOf(stream[k]))
      /\ \A k \in 0 .. N : \A l \in 0 .. N : k < l <=> Ends(k) < Ends(l)
      /\ \A k \in 1 .. N : Len(TextOf(stream[k])) \in Nat
      /\ Ends(N) = Len(Text)
  BY DEF LaidBare, Laid
<1> DEFINE A == Ends(i)
           B == Ends(j)
           C == Ends(j + 1)
<1> HIDE DEF N
<1>3. A \in Nat /\ B \in Nat
  BY <1>1, <1>2
<1>4. i = j => x < p
  BY <1>1, <1>3
<1>5. i <= j
  <2>1. SUFFICES ASSUME j < i PROVE FALSE
    BY <1>1
  <2>2. j + 1 \in 1 .. N /\ j # N /\ (j + 1) - 1 = j /\ ~ (i < j + 1)
    BY <1>1, <2>1
  <2>3. C = B + Len(TextOf(stream[j + 1])) /\ Len(TextOf(stream[j + 1])) \in Nat
    BY <1>2, <2>2
  <2>4. ~ (A < C)
    BY <1>1, <1>2, <2>2
  <2> HIDE DEF A, B, C
  <2>5. t < C /\ b >= A /\ C \in Nat
    <3>1. p < Len(TextOf(stream[j + 1]))
      BY <1>1, <2>2
    <3> QED BY <1>1, <1>3, <2>3, <3>1 DEF A, B
  <2> QED BY <1>1, <1>3, <2>4, <2>5 DEF A, B
<1>6. i # N
  <2>1. SUFFICES ASSUME i = N PROVE FALSE
    OBVIOUS
  <2>2. j = N /\ i = j /\ p = 0
    BY <1>1, <1>5, <2>1
  <2> QED BY <1>1, <1>4, <2>2
<1> QED BY <1>1, <1>4, <1>5, <1>6 DEF N

(* A chunk that begins in front of a message.                              *)
LEMMA FromStartTells ==
  ASSUME NEW S, Letters \subseteq S, LaidBare(S),
         NEW b, NEW i, At(b, i, 0), NEW t \in Nat, t <= Len(Text), NEW j, NEW p, At(t, j, p), b < t
  PROVE  Tells(ParseMultiArray(Chunk(b, t)), Digest(stream, <<i + 1, Start>>, <<j + 1, PointIn(j, p)>>))
<1> DEFINE e == PointIn(j, p)
           r == ParseMultiArray(Chunk(b, t))
           N == Len(stream)
<1>1. i <= j /\ (i = j => 0 < p) /\ i \in 0 .. N - 1
  BY InOrderAre
<1>2. /\ b = Ends(i) /\ b \in Nat /\ j \in 0 .. N /\ p \in Nat /\ t = Ends(j) + p /\ N \in Nat
      /\ Ends(j) \in Nat
  <2>1. b = Ends(i) + 0 /\ j \in 0 .. N /\ p \in Nat /\ t = Ends(j) + p
    BY DEF At
  <2>2. N \in Nat /\ (\A k \in 0 .. N : Ends(k) \in Nat)
    BY DEF LaidBare, Laid
  <2>3. i \in 0 .. N
    BY <1>1, <2>2
  <2>4. Ends(i) \in Nat /\ Ends(j) \in Nat
    BY <2>1, <2>2, <2>3
  <2> QED BY <2>1, <2>2, <2>4
<1>3. Digest(stream, <<i + 1, Start>>, <<j + 1, e>>)
        = IF j = i /\ e = Star THEN Refused ELSE UpTo(stream, i + 1, j + 1, e)
  <2> HIDE DEF e
  <2>1. (j + 1 = i + 1) <=> j = i
    BY <1>1, <1>2
  <2> QED BY <2>1 DEF Digest, FromStart
<1>4. CASE j = i /\ p = 1
  <2>1. e = Star
    BY <1>4, PointInIs
  <2>2. stream[j + 1] \in BareSet(S) /\ SubSeq(Text, Ends(j) + 1, t) = SubSeq(TextOf(stream[j + 1]), 1, p)
    <3>1. p >= 1
      BY <1>4
    <3> QED BY <3>1, CutSegment
  <2>3. r.fate = Bad
    BY <1>2, <1>4, <2>2, LoneStar DEF Chunk
  <2>4. Tells(r, Refused)
    <3> HIDE DEF r
    <3> QED BY <2>3, TellsOf
  <2> QED BY <1>3, <1>4, <2>1, <2>4
<1>5. CASE ~ (j = i /\ p = 1)
  <2> DEFINE K == (j - i) + (IF p >= 2 THEN 1 ELSE 0)
  <2>1. K \in Nat \ {0} /\ i \in 0 .. j
    BY <1>1, <1>2, <1>5
  <2>2. i > 0 => Ends(i - 1) < b
    <3>1. SUFFICES ASSUME i > 0 PROVE Ends(i - 1) < Ends(i)
      BY <1>2
    <3>2. i - 1 \in 0 .. N /\ i \in 0 .. N /\ i - 1 < i
      BY <1>1, <1>2, <3>1
    <3> QED BY <3>2 DEF LaidBare, Laid
  <2>3. Divides(b, t, i, j, p, K)
    <3> HIDE DEF K
    <3>1. K = (j - i) + (IF p >= 2 THEN 1 ELSE 0)
      BY DEF K
    <3> QED BY <1>2, <2>1, <2>2, <3>1 DEF Divides
  <2> HIDE DEF K
  <2>4. Leads(b, t, i, K, 0, 0)
    BY <1>2 DEF Leads
  <2>5. Tells(r, IF j >= i + 0 THEN UpTo(stream, i + 0 + 1, j + 1, e) ELSE Read(<<>>))
    BY <2>3, <2>4, DividedTells
  <2>6. i + 0 = i /\ j >= i + 0
    BY <1>1, <1>2
  <2>7. Tells(r, UpTo(stream, i + 1, j + 1, e))
    BY <2>5, <2>6
  <2>8. ~ (j = i /\ e = Star)
    <3>1. SUFFICES ASSUME j = i PROVE e # Star
      OBVIOUS
    <3>2. p >= 2
      BY <1>1, <1>2, <1>5, <3>1
    <3> QED BY <3>2, PointInIs
  <2> QED BY <1>3, <2>7, <2>8
<1> QED BY <1>4, <1>5

LEMMA PlaceZero ==
  ASSUME NEW length \in Nat, NEW r \in Nat
  PROVE  PlaceOf(length, r) = 0 <=> r = 0
<1>1. r = 0 \/ r = 1 \/ ~ (r <= 1)
  OBVIOUS
<1> QED BY <1>1 DEF PlaceOf

(* A chunk that begins inside a line.                                      *)
LEMMA ElsewhereTells ==
  ASSUME NEW S, Letters \subseteq S, LaidBare(S),
         NEW b \in Nat, NEW i, NEW x, At(b, i, x), x # 0,
         NEW t \in Nat, t <= Len(Text), b < t, NEW j, NEW e,
         ~ \E k : InWord(stream[i + 1], x, k, 0)
  PROVE  Tells(ParseMultiArray(Chunk(b, t)), Digest(stream, <<i + 1, PointIn(i, x)>>, <<j, e>>))
<1> DEFINE m == stream[i + 1]
           d == PointIn(i, x)
           s == TextOf(m)
<1>1. Text \in Seq(S) /\ Len(Text) \in Nat /\ b < Len(Text)
  BY DEF LaidBare, Laid
<1>2. m \in BareSet(S) /\ x \in Nat /\ x < Len(s) /\ Text[b + 1] = s[x + 1]
  BY <1>1, CharIs
<1>3. Len(s) \in Nat /\ x \in 1 .. Len(s) - 1
  BY <1>2, MessageOpens
<1>4. s[x + 1] \notin Openings
  BY <1>2, <1>3, MessageOpens
<1>5. d # Start /\ ~ (d[1] > 0 /\ d[2] = 0)
  <2>1. d = PointsOf(m)[x + 1]
    BY DEF PointIn
  <2> HIDE DEF s
  <2>2. CASE x < 4
    <3>1. x \in 0 .. 3 /\ m \in PlainSet(S)
      BY <1>2, <2>2 DEF BareSet
    <3>2. d = <<0, x>>
      BY <2>1, <3>1, PointAt
    <3> HIDE DEF d, m
    <3> QED BY <3>2 DEF Start
  <2>3. CASE ~ (x < 4)
    <3>1. x \in 4 .. Len(TextOf(m)) - 1
      BY <1>3, <2>3 DEF s
    <3>2. PICK k, r : InWord(m, x, k, r)
      BY <1>2, <3>1, WordAt
    <3> DEFINE n == Len(Words(m)[k + 1])
    <3>3. d = <<k + 1, PlaceOf(n, r)>>
      BY <1>2, <2>1, <3>2, InWordIs
    <3>4. r \in Nat /\ r # 0 /\ k \in 0 .. Len(Words(m)) - 1
      <4>1. r # 0
        BY <3>2
      <4> QED BY <3>2, <4>1 DEF InWord
    <3>5. n \in Nat /\ k \in Nat
      <4>1. Words(m) \in Seq(Seq(S)) /\ Len(Words(m)) \in 3 .. 5
        BY <1>2, WordsAreBare, MessageText DEF AreBare
      <4>2. k + 1 \in 1 .. Len(Words(m)) /\ k \in Nat
        BY <3>4, <4>1
      <4>3. Words(m)[k + 1] \in Seq(S)
        BY <4>1, <4>2, ElementOfSeq
      <4> QED BY <4>2, <4>3
    <3> DEFINE place == PlaceOf(n, r)
    <3>6. place # 0
      BY <3>4, <3>5, PlaceZero
    <3> HIDE DEF place, n
    <3>7. d[1] = k + 1 /\ d[2] = place
      BY <3>3 DEF place
    <3> HIDE DEF d
    <3>8. d # Start
      <4>1. k + 1 # 0
        BY <3>5
      <4> QED BY <3>7, <4>1 DEF Start
    <3> QED BY <3>6, <3>7, <3>8
  <2> QED BY <2>2, <2>3
<1>6. Digest(stream, <<i + 1, d>>, <<j, e>>) = Refused
  <2> HIDE DEF d
  <2> QED BY <1>5 DEF Digest
<1> DEFINE w == Chunk(b, t)
<1>7. w \in Seq(S) /\ w # <<>> /\ w[1] = Text[b + 1]
  <2>1. w \in Seq(S) /\ Len(w) = t - b /\ \A y \in 1 .. t - b : w[y] = Text[b + y]
    BY <1>1, PieceOf DEF Chunk
  <2>2. 1 \in 1 .. t - b
    OBVIOUS
  <2> HIDE DEF w
  <2>3. w # <<>>
    BY <2>1, <2>2
  <2> QED BY <2>1, <2>2, <2>3
<1> HIDE DEF w, m, d, s
<1>8. ParseMultiArray(w).fate = Bad
  BY <1>2, <1>4, <1>7, NotOpened
<1>9. Tells(ParseMultiArray(w), Refused)
  BY <1>8, TellsOf
<1> QED BY <1>6, <1>9 DEF w, d

(* The header of a word, somewhere in the stream.                          *)
HeaderAt(b, i, x, k) == At(b, i, x) /\ i \in 0 .. Len(stream) - 1 /\ InWord(stream[i + 1], x, k, 0)
WordOf(i, k) == Words(stream[i + 1])[k + 1]

(* That word in the text, whole and cut.                                   *)
LEMMA WordInText ==
  ASSUME NEW S, Letters \subseteq S, LaidBare(S),
         NEW b, NEW i, NEW x, NEW k, HeaderAt(b, i, x, k)
  PROVE  /\ b \in Nat /\ Ends(i) + 4 <= b /\ i + 1 \in 1 .. Len(stream) /\ k \in Nat
         /\ stream[i + 1] \in BareSet(S) /\ WordOf(i, k) \in Seq(S)
         /\ NoBreak(WordOf(i, k)) /\ Bare(WordOf(i, k))
         /\ PartOf(Text, b + 1, BulkText(WordOf(i, k)))
         /\ BulkText(WordOf(i, k)) \in Seq(S) /\ Len(BulkText(WordOf(i, k))) \in Nat
         /\ b + Len(BulkText(WordOf(i, k))) <= Ends(i + 1)
         /\ Ends(i) \in Nat /\ Ends(i + 1) \in Nat /\ Ends(i + 1) <= Len(Text) /\ Len(Text) \in Nat
<1> DEFINE m == stream[i + 1]
           u == WordOf(i, k)
           w == BulkText(u)
           l == i + 1
           N == Len(stream)
<1>s. Symbols \subseteq S
  BY DEF Letters
<1>1. /\ b = Ends(i) + x /\ x \in Nat /\ i \in 0 .. N - 1 /\ InWord(m, x, k, 0) /\ N \in Nat
  BY DEF HeaderAt, At, LaidBare, Laid
<1>2. l \in 1 .. N /\ l - 1 = i /\ i \in 0 .. N /\ l \in 0 .. N /\ m = stream[l]
  BY <1>1
<1>3. /\ m \in BareSet(S) /\ Ends(i) \in Nat /\ Ends(l) \in Nat /\ Ends(l) <= Len(Text)
      /\ Len(Text) \in Nat /\ Text \in Seq(S)
      /\ TextOf(m) \in Seq(S) /\ Ends(l) = Ends(i) + Len(TextOf(m)) /\ PartOf(Text, Ends(i) + 1, TextOf(m))
      /\ Len(TextOf(m)) \in Nat
  <2> HIDE DEF l, m
  <2>1. /\ m \in BareSet(S) /\ Ends(i) \in Nat /\ Ends(l) \in Nat /\ Ends(l) <= Len(Text)
        /\ Len(Text) \in Nat /\ Text \in Seq(S)
    BY <1>2 DEF LaidBare, Laid
  <2>2. /\ TextOf(m) \in Seq(S) /\ Ends(l) = Ends(l - 1) + Len(TextOf(m))
        /\ PartOf(Text, Ends(l - 1) + 1, TextOf(m)) /\ Len(TextOf(m)) \in Nat
    BY <1>2 DEF LaidBare, Laid
  <2> QED BY <1>2, <2>1, <2>2
<1>4. /\ x \in 4 .. Len(TextOf(m)) - 1
      /\ PartOf(TextOf(m), x - 0 + 1, w) /\ x - 0 + Len(w) <= Len(TextOf(m))
  BY <1>1, <1>3, InWordIs DEF WordOf
<1>5. k \in Nat /\ u \in Seq(S) /\ NoBreak(u) /\ Bare(u)
  <2>1. AreBare(Words(m), S) /\ Len(Words(m)) \in 3 .. 5
    BY <1>3, WordsAreBare, MessageText
  <2>2. k \in 0 .. Len(Words(m)) - 1
    BY <1>1 DEF InWord
  <2>3. k + 1 \in 1 .. Len(Words(m)) /\ k \in Nat
    BY <2>1, <2>2
  <2> QED BY <2>1, <2>3, ElementOfSeq DEF AreBare, WordOf
<1> HIDE DEF u, m, l
<1>6. w \in Seq(S) /\ Len(w) \in Nat
  BY <1>s, <1>5, BulkTextFacts
<1> HIDE DEF w
<1>7. PartOf(Text, b + 1, w)
  <2> DEFINE p == Ends(i) + 1
             q == x + 1
             s == TextOf(m)
  <2>1. p \in Nat \ {0} /\ q \in Nat \ {0} /\ p + q - 1 = b + 1
    BY <1>1, <1>3
  <2>2. PartOf(Text, p, s) /\ PartOf(s, q, w) /\ q + Len(w) - 1 <= Len(s) /\ Text \in Seq(S) /\ s \in Seq(S)
    <3>1. x - 0 + 1 = x + 1 /\ x - 0 + Len(w) = q + Len(w) - 1
      BY <1>1, <1>6
    <3> QED BY <1>3, <1>4, <3>1
  <2> HIDE DEF p, q, s
  <2>3. ASSUME NEW f \in Seq(S), PartOf(f, p, s) PROVE PartOf(f, p + q - 1, w)
    <3>1. w \in Seq(S) /\ s \in Seq(S) /\ p \in Nat \ {0} /\ q \in Nat \ {0}
          /\ PartOf(s, q, w) /\ q + Len(w) - 1 <= Len(s)
      BY <1>6, <2>1, <2>2
    <3> QED BY ONLY <2>3, <3>1, PartOfPart
  <2>4. PartOf(Text, p + q - 1, w)
    BY <2>2, <2>3
  <2> QED BY <2>1, <2>4
<1>8. Ends(i) + 4 <= b /\ b \in Nat /\ b + Len(w) <= Ends(l)
  BY <1>1, <1>3, <1>4, <1>6, SMTT(60)
<1> QED BY <1>1, <1>2, <1>3, <1>5, <1>6, <1>7, <1>8 DEF u, m, w, l, N

(* From such a header, up to e: the word, if it is all there, and as much  *)
(* as a cut word is otherwise.                                             *)
LEMMA WordIsRead ==
  ASSUME NEW S, Letters \subseteq S, LaidBare(S),
         NEW b, NEW i, NEW x, NEW k, HeaderAt(b, i, x, k), NEW e \in Nat, e <= Len(Text),
         b + Len(BulkText(WordOf(i, k))) <= e
  PROVE  Parse(SubSeq(Text, b + 1, e)) = Bulk(WordOf(i, k))
<1> DEFINE u == WordOf(i, k)
           w == BulkText(u)
           rest == SubSeq(Text, b + Len(w) + 1, e)
<1>s. Symbols \subseteq S
  BY DEF Letters
<1>1. /\ b \in Nat /\ u \in Seq(S) /\ NoBreak(u) /\ PartOf(Text, b + 1, w) /\ w \in Seq(S) /\ Len(w) \in Nat
  BY WordInText
<1>2. Text \in Seq(S)
  BY DEF LaidBare, Laid
<1> HIDE DEF u, w
<1>3. rest \in Seq(S) /\ SubSeq(Text, b + 1, e) = w \o rest
  <2>1. /\ b \in Nat /\ w \in Seq(S) /\ e \in Nat /\ b + Len(w) <= e
    BY <1>1 DEF w, u
  <2>2. ASSUME NEW f \in Seq(S), PartOf(f, b + 1, w), e <= Len(f)
        PROVE  /\ SubSeq(f, b + Len(w) + 1, e) \in Seq(S)
               /\ SubSeq(f, b + 1, e) = w \o SubSeq(f, b + Len(w) + 1, e)
    BY ONLY <2>1, <2>2, CutBehind
  <2> QED BY <1>1, <1>2, <2>2
<1> HIDE DEF rest
<1>4. w \o rest \in Seq(S) /\ Exactly(w \o rest, Bulk(u))
  BY <1>s, <1>1, <1>3, BulkAndRest DEF w
<1>5. w \o rest # <<>>
  <2>1. SUFFICES ASSUME w \o rest = <<>> PROVE FALSE
    OBVIOUS
  <2>2. Exactly(<<>>, Bulk(u))
    BY <1>4, <2>1
  <2>3. ParseBy(<<>>, 0) = Bad
    BY DEF ParseBy
  <2>4. Bad = Bulk(u)
    BY <2>2, <2>3 DEF Exactly
  <2> QED BY <2>4, ValueFails
<1>6. \E deeper : Parse(w \o rest) = ParseBy(w \o rest, deeper)
  <2> DEFINE z == w \o rest
  <2> HIDE DEF z
  <2>1. z \in Seq(S) /\ z # <<>>
    BY <1>4, <1>5 DEF z
  <2> QED BY <2>1, ParseIsOne DEF z
<1>7. Parse(w \o rest) = Bulk(u)
  BY <1>4, <1>6 DEF Exactly
<1> QED BY <1>3, <1>7 DEF u

LEMMA CutWordIsRead ==
  ASSUME NEW S, Letters \subseteq S, LaidBare(S),
         NEW b, NEW i, NEW x, NEW k, HeaderAt(b, i, x, k), NEW e \in Nat, b < e, e <= Len(Text),
         e - b < Len(BulkText(WordOf(i, k)))
  PROVE  Parse(SubSeq(Text, b + 1, e)) = PlaceValue(WordOf(i, k), PlaceOf(Len(WordOf(i, k)), e - b))
<1> DEFINE u == WordOf(i, k)
           w == BulkText(u)
           n == e - b
           y == SubSeq(Text, b + 1, e)
           z == SubSeq(w, 1, n)
           place == PlaceOf(Len(u), n)
<1>s. Symbols \subseteq S
  BY DEF Letters
<1>1. /\ b \in Nat /\ u \in Seq(S) /\ NoBreak(u) /\ Bare(u)
      /\ PartOf(Text, b + 1, w) /\ w \in Seq(S) /\ Len(w) \in Nat
  BY WordInText
<1>2. Text \in Seq(S) /\ Len(Text) \in Nat
  BY DEF LaidBare, Laid
<1>3. n \in Nat \ {0} /\ n \in 0 .. Len(w) /\ n < Len(w)
  BY <1>1
<1> HIDE DEF u, w
<1>4. y \in Seq(S) /\ Len(y) = n /\ \A j \in 1 .. n : y[j] = Text[b + j]
  BY <1>1, <1>2, PieceOf
<1>5. z \in Seq(S) /\ Len(z) = n /\ \A j \in 1 .. n : z[j] = w[j]
  BY <1>1, <1>3, BeginningOf
<1>6. ASSUME NEW j \in 1 .. Len(y) PROVE y[j] = z[j]
  <2>1. j \in 1 .. n /\ j \in 1 .. Len(w) /\ (b + 1) + j - 1 = b + j /\ (b + 1) + j - 1 <= Len(Text)
    BY <1>1, <1>2, <1>3, <1>4
  <2>2. Text[b + j] = w[j]
    <3>1. Text[(b + 1) + j - 1] = w[j]
      BY <1>1, <2>1 DEF PartOf
    <3> QED BY <2>1, <3>1
  <2> QED BY <1>4, <1>5, <2>1, <2>2
<1> HIDE DEF y, z, n
<1>7. y = z
  BY <1>4, <1>5, <1>6, Extensional
<1>8. BulkPiece(SubSeq(BulkText(u), 1, n), u, PlaceOf(Len(u), n), S)
  BY <1>s, <1>1, <1>3, PieceOfBulk DEF w
<1> HIDE DEF place
<1>9. z # <<>> => Exactly(z, PlaceValue(u, place))
  BY <1>8 DEF BulkPiece, z, place, w
<1>10. z # <<>>
  BY <1>3, <1>5
<1>11. \E deeper : Parse(z) = ParseBy(z, deeper)
  BY <1>5, <1>10, ParseIsOne
<1>12. Parse(z) = PlaceValue(u, place)
  BY <1>9, <1>10, <1>11 DEF Exactly
<1> QED BY <1>7, <1>12 DEF y, u, place, n

(* A chunk with no message in it is read as one value.                     *)
OnlyOne(v) == [k \in 1 .. 1 |-> v]

LEMMA OneSegmentRead ==
  ASSUME NEW S, Letters \subseteq S, LaidBare(S),
         NEW b \in Nat, NEW t \in Nat, b < t, t <= Len(Text),
         NEW i \in 0 .. Len(stream) - 1, Ends(i) < b, t <= Ends(i + 1) + 1,
         NEW j, NEW p, At(t, j, p), NEW v, Parse(Chunk(b, t)) = v
  PROVE  ChunkReads(ParseMultiArray(Chunk(b, t)), OnlyOne(v), 1, p)
<1> DEFINE s == Chunk(b, t)
           n == t - b
           o == [k \in 0 .. 1 |-> IF k = 0 THEN 0 ELSE n]
           N == Len(stream)
           vs == OnlyOne(v)
<1>1. Text \in Seq(S) /\ Len(Text) \in Nat /\ N \in Nat /\ n \in Nat \ {0}
  BY DEF LaidBare, Laid
<1>2. s \in Seq(S) /\ Len(s) = n /\ \A y \in 1 .. n : s[y] = Text[b + y]
  BY <1>1, PieceOf, SMTT(60) DEF Chunk
<1>3. SubSeq(s, 1, n) = s
  <2> HIDE DEF s, n
  <2>1. SubSeq(s, 1, Len(s)) = s
    BY ONLY <1>2
  <2> QED BY <1>2, <2>1
<1>4. o[0] = 0 /\ o[1] = n /\ vs[1] = v
  <2>1. 0 \in 0 .. 1 /\ 1 \in 0 .. 1 /\ 1 \in 1 .. 1 /\ 1 # 0
    OBVIOUS
  <2> QED BY <2>1, Zenon DEF OnlyOne
<1>5. ASSUME NEW y \in 1 .. n PROVE ~ MessageAt(s, y)
  <2>1. SUFFICES ASSUME s[y] = "*", y < n PROVE FALSE
    <3> HIDE DEF s
    <3> QED BY <1>2 DEF MessageAt
  <2>2. b + y \in 1 .. Len(Text) /\ Text[b + y] = "*"
    BY <1>1, <1>2, <2>1
  <2>3. PICK k \in 0 .. N - 1 : b + y = Ends(k) + 1
    BY <2>2, StarsAre
  <2>4. k \in 0 .. N /\ i \in 0 .. N /\ i + 1 \in 0 .. N /\ Ends(k) \in Nat /\ Ends(i) \in Nat /\ Ends(i + 1) \in Nat
    <3>1. k \in 0 .. N /\ i \in 0 .. N /\ i + 1 \in 0 .. N
      BY <1>1
    <3> QED BY <3>1 DEF LaidBare, Laid
  <2>5. Ends(i) < Ends(k) /\ Ends(k) < Ends(i + 1)
    <3> DEFINE A == Ends(i)
               B == Ends(k)
               C == Ends(i + 1)
    <3>1. A \in Nat /\ B \in Nat /\ C \in Nat /\ A < b /\ t <= C + 1 /\ b + y = B + 1 /\ y < n
      BY <2>1, <2>3, <2>4
    <3> HIDE DEF A, B, C
    <3>2. A < B /\ B < C
      BY <3>1
    <3> QED BY <3>2 DEF A, B, C
  <2>6. i < k /\ k < i + 1
    BY <2>4, <2>5 DEF LaidBare, Laid
  <2> QED BY <2>6
<1> HIDE DEF s, n, o, vs
<1>6. AreSegments(s, o, vs, 1, 0)
  <2>1. Len(s) \in Nat /\ 1 \in Nat \ {0} /\ o[1] = Len(s)
    BY <1>1, <1>2, <1>4
  <2>2. \A k \in 0 .. 1 : o[k] \in Nat
    BY <1>1, <1>4
  <2>3. \A k \in 0 .. 1 : \A l \in 0 .. 1 : k < l => o[k] < o[l]
    <3> SUFFICES ASSUME NEW k \in 0 .. 1, NEW l \in 0 .. 1, k < l PROVE o[k] < o[l]
      OBVIOUS
    <3>1. k = 0 /\ l = 1
      OBVIOUS
    <3> QED BY <1>1, <1>4, <3>1
  <2>4. 0 \in 0 .. o[1]
    BY <1>1, <1>4
  <2>5. \A y \in 1 .. Len(s) : MessageAt(s, y) <=> y = 0 \/ \E k \in 1 .. 1 - 1 : y = o[k] + 1
    <3> SUFFICES ASSUME NEW y \in 1 .. Len(s)
                 PROVE  ~ MessageAt(s, y) /\ y # 0 /\ ~ \E k \in 1 .. 1 - 1 : y = o[k] + 1
      OBVIOUS
    <3>1. y \in 1 .. n /\ y # 0
      BY <1>2
    <3> QED BY <1>5, <3>1
  <2>6. \A k \in 1 .. 1 : Parse(SubSeq(s, o[k - 1] + 1, o[k])) = vs[k]
    <3> SUFFICES Parse(SubSeq(s, o[0] + 1, o[1])) = vs[1]
      <4>1. \A k \in 1 .. 1 : k = 1 /\ k - 1 = 0
        OBVIOUS
      <4> QED BY <4>1
    <3>1. Parse(s) = v /\ 0 + 1 = 1
      BY DEF s
    <3> QED BY <1>3, <1>4, <3>1
  <2>7. \A k \in 1 .. 1 - 1 : ~ Failed(vs[k])
    OBVIOUS
  <2> QED BY <1>4, <2>1, <2>2, <2>3, <2>4, <2>5, <2>6, <2>7 DEF AreSegments
<1>7. AreSegments(Chunk(b, t), o, vs, 1, 0)
  BY <1>6 DEF s
<1>8. ChunkReads(ParseMultiArray(Chunk(b, t)), vs, 1, p)
  BY <1>7, SegmentsReadAs
<1> QED BY <1>8 DEF vs

LEMMA OneBulkHoldsNothing ==
  ASSUME NEW u
  PROVE  Commands(FirstOnes(OnlyOne(Bulk(u)), 1)) = <<>>
<1> DEFINE v == Bulk(u)
           vs == [k \in 1 .. 1 |-> v]
           parts == [k \in 1 .. 1 |-> <<>>]
<1>1. CommandsIn(v) = <<>>
  BY BulkExecutesNothing
<1> HIDE DEF v
<1>2. FirstOnes(OnlyOne(v), 1) = vs /\ DOMAIN vs = 1 .. 1 /\ \A k \in 1 .. 1 : vs[k] = v
  BY Zenon DEF FirstOnes, OnlyOne
<1> HIDE DEF vs
<1>3. [k \in DOMAIN vs |-> CommandsIn(vs[k])] = parts
  BY <1>1, <1>2, Zenon
<1>4. PartsAre(parts, 1, 1, 0, <<>>, <<>>, {})
  <2>1. parts[1] = <<>> /\ parts = [k \in 1 .. 1 |-> parts[k]] /\ <<>> \in Seq({})
    OBVIOUS
  <2> HIDE DEF parts
  <2>2. 1 \in Nat /\ 1 \in {0, 1} /\ 0 \in Nat /\ 1 \in {1 + 0, 1 + 0 + 1} /\ 1 = 1 + 0
    OBVIOUS
  <2>3. \A y \in 1 .. 0 : FALSE
    OBVIOUS
  <2> QED BY <2>1, <2>2, <2>3 DEF PartsAre
<1> HIDE DEF parts
<1>5. FlattenSeq(parts) = FirstOnes(<<>>, 0) \o <<>>
  BY <1>4, JoinedParts
<1>6. FirstOnes(<<>>, 0) = <<>>
  <2>1. 0 \in Nat
    OBVIOUS
  <2> QED BY <2>1, OneMoreOf
<1>7. FlattenSeq(parts) = <<>>
  BY <1>5, <1>6
<1> QED BY <1>2, <1>3, <1>7 DEF Commands, v

(* What the digest says of a chunk that is one value.                      *)
LEMMA OneTells ==
  ASSUME NEW r, NEW v, NEW p, ChunkReads(r, OnlyOne(v), 1, p)
  PROVE  /\ v = Bad => Tells(r, Refused)
         /\ v = Panic => Tells(r, Panicked)
         /\ (\E u : v = Bulk(u)) => Tells(r, IF p = 1 THEN Panicked ELSE Read(<<>>))
<1>1. OnlyOne(v)[1] = v
  BY DEF OnlyOne
<1>2. Failed(Bad) /\ Failed(Panic) /\ \A u : ~ Failed(Bulk(u))
  BY ValueFails
<1>3. IF Failed(v) THEN r.fate = v
      ELSE IF p = 1 THEN r.fate = Panic ELSE r.fate = Fine /\ r.out = FirstOnes(OnlyOne(v), 1)
  BY <1>1, Zenon DEF ChunkReads
<1>4. CASE v = Bad \/ v = Panic
  <2>1. r.fate = v
    BY <1>2, <1>3, <1>4
  <2>2. \A u : v # Bulk(u)
    BY <1>2, <1>4
  <2> QED BY <2>1, <2>2, TellsOf
<1>5. ASSUME NEW u, v = Bulk(u) PROVE Tells(r, IF p = 1 THEN Panicked ELSE Read(<<>>))
  <2>1. IF p = 1 THEN r.fate = Panic ELSE r.fate = Fine /\ r.out = FirstOnes(OnlyOne(v), 1)
    BY <1>2, <1>3, <1>5
  <2>2. CASE p = 1
    BY <2>1, <2>2, TellsOf
  <2>3. CASE p # 1
    <3>1. Commands(r.out) = <<>> /\ r.fate = Fine
      BY <1>5, <2>1, <2>3, OneBulkHoldsNothing
    <3>2. CommandsTold(<<>>) = <<>>
      BY DEF CommandsTold
    <3>3. Tells(r, Read(<<>>))
      BY <3>1, <3>2, TellsOf
    <3> QED BY <2>3, <3>3
  <2> QED BY <2>2, <2>3
<1> QED BY <1>4, <1>5, <1>2

(* A chunk that begins at the header of a word.                            *)
LEMMA FromHeaderIs ==
  ASSUME NEW i \in Nat, NEW j \in Nat, i <= j, NEW a, NEW e
  PROVE  /\ j > i + 1 => FromHeader(stream, i + 1, a, j + 1, e) = UpTo(stream, i + 3, j + 1, e)
         /\ j = i /\ e[1] = a /\ e[2] < 4 => FromHeader(stream, i + 1, a, j + 1, e) = Refused
         /\ j = i /\ e = <<a, 4>> => FromHeader(stream, i + 1, a, j + 1, e) = Panicked
         /\ j = i /\ (e[1] # a \/ e = <<a, 5>>) => FromHeader(stream, i + 1, a, j + 1, e) = Read(<<>>)
         /\ j = i + 1 => FromHeader(stream, i + 1, a, j + 1, e) = IF e = Star THEN Panicked ELSE Read(<<>>)
<1> DEFINE x == FromHeader(stream, i + 1, a, j + 1, e)
<1>1. x = IF j > i + 1 THEN UpTo(stream, i + 3, j + 1, e)
          ELSE IF j = i /\ e[1] = a /\ e[2] < 4 THEN Refused
          ELSE IF (j = i /\ e = <<a, 4>>) \/ (j = i + 1 /\ e = Star) THEN Panicked
          ELSE Read(<<>>)
  <2>1. (j + 1 > (i + 1) + 1) <=> (j > i + 1)
    OBVIOUS
  <2>2. (j + 1 = i + 1) <=> (j = i)
    OBVIOUS
  <2>3. (j + 1 = (i + 1) + 1) <=> (j = i + 1)
    OBVIOUS
  <2>4. (i + 1) + 2 = i + 3
    OBVIOUS
  <2> QED BY <2>1, <2>2, <2>3, <2>4, Zenon DEF FromHeader
<1> HIDE DEF x
<1>2. j > i + 1 => x = UpTo(stream, i + 3, j + 1, e)
  BY <1>1
<1>3. j = i => ~ (j > i + 1) /\ ~ (j = i + 1)
  OBVIOUS
<1>4. j = i + 1 => ~ (j > i + 1) /\ ~ (j = i)
  OBVIOUS
<1>5. j = i /\ e[1] = a /\ e[2] < 4 => x = Refused
  BY <1>1, <1>3
<1>6. e = <<a, 4>> => e[2] = 4 /\ ~ (e[2] < 4)
  OBVIOUS
<1>7. j = i /\ e = <<a, 4>> => x = Panicked
  BY <1>1, <1>3, <1>6
<1>8. e = <<a, 5>> => e[2] = 5 /\ ~ (e[2] < 4) /\ e # <<a, 4>>
  OBVIOUS
<1>9. e[1] # a => e # <<a, 4>>
  OBVIOUS
<1>10. j = i /\ (e[1] # a \/ e = <<a, 5>>) => x = Read(<<>>)
  BY <1>1, <1>3, <1>8, <1>9
<1>11. j = i + 1 => x = IF e = Star THEN Panicked ELSE Read(<<>>)
  BY <1>1, <1>4
<1> QED BY <1>2, <1>5, <1>7, <1>10, <1>11 DEF x

LEMMA HeaderDigest ==
  ASSUME NEW S, Letters \subseteq S, LaidBare(S),
         NEW b, NEW i, NEW x, NEW k, HeaderAt(b, i, x, k), NEW j, NEW e
  PROVE  Digest(stream, <<i + 1, PointIn(i, x)>>, <<j + 1, e>>) = FromHeader(stream, i + 1, k + 1, j + 1, e)
<1> DEFINE m == stream[i + 1]
           d == PointIn(i, x)
           n == Len(Words(m)[k + 1])
<1>1. k \in Nat /\ m \in BareSet(S) /\ WordOf(i, k) \in Seq(S)
  BY WordInText
<1>2. PointsOf(m)[x + 1] = <<k + 1, PlaceOf(n, 0)>> /\ x \in 4 .. Len(TextOf(m)) - 1
  BY <1>1, InWordIs, SMTT(60) DEF HeaderAt
<1>3. n \in Nat
  <2>1. Len(WordOf(i, k)) \in Nat
    BY <1>1
  <2> QED BY <2>1 DEF WordOf
<1>4. PlaceOf(n, 0) = 0
  BY <1>3, PlaceZero
<1>5. d = <<k + 1, 0>>
  <2>1. x # 0
    BY <1>2
  <2>2. d = PointsOf(m)[x + 1]
    BY <2>1, Zenon DEF PointIn
  <2> QED BY <1>2, <1>4, <2>2
<1> HIDE DEF d, m, n
<1> DEFINE a == k + 1
<1>6. a # 0 /\ a > 0
  BY <1>1
<1>7. d = <<a, 0>> /\ d[1] = a /\ d[2] = 0
  BY <1>5
<1> HIDE DEF a
<1>8. d # Start
  BY <1>6, <1>7 DEF Start
<1>9. Digest(stream, <<i + 1, d>>, <<j + 1, e>>) = FromHeader(stream, i + 1, a, j + 1, e)
  BY <1>6, <1>7, <1>8 DEF Digest
<1> QED BY <1>9 DEF a, d

(* It ends in the same word.                                               *)
LEMMA HeaderToWord ==
  ASSUME NEW S, Letters \subseteq S, LaidBare(S),
         NEW b, NEW i, NEW x, NEW k, HeaderAt(b, i, x, k),
         NEW t \in Nat, b < t, t <= Len(Text), NEW p, At(t, i, p),
         t - b < Len(BulkText(WordOf(i, k)))
  PROVE  Tells(ParseMultiArray(Chunk(b, t)), FromHeader(stream, i + 1, k + 1, i + 1, PointIn(i, p)))
<1> DEFINE u == WordOf(i, k)
           n == Len(u)
           m == stream[i + 1]
           q == t - b
           place == PlaceOf(n, q)
           r == ParseMultiArray(Chunk(b, t))
           e == PointIn(i, p)
           v == PlaceValue(u, place)
           a == k + 1
<1>1. /\ b \in Nat /\ Ends(i) + 4 <= b /\ k \in Nat /\ m \in BareSet(S) /\ u \in Seq(S)
      /\ b + Len(BulkText(u)) <= Ends(i + 1) /\ Len(BulkText(u)) \in Nat
      /\ Ends(i) \in Nat /\ Ends(i + 1) \in Nat /\ i + 1 \in 1 .. Len(stream)
  BY WordInText
<1>2. Parse(Chunk(b, t)) = v
  BY CutWordIsRead DEF Chunk
<1>3. i \in 0 .. Len(stream) - 1 /\ b = Ends(i) + x /\ x \in Nat /\ InWord(m, x, k, 0) /\ t = Ends(i) + p /\ p \in Nat
      /\ i \in Nat
  BY DEF HeaderAt, At
<1>4. q \in Nat \ {0} /\ p = x + q /\ p >= 2 /\ p # 1 /\ p # 0 /\ n \in Nat
  <2> DEFINE A == Ends(i)
  <2>1. A \in Nat /\ A + 4 <= b /\ b \in Nat /\ b = A + x /\ x \in Nat /\ t = A + p /\ p \in Nat
    BY <1>1, <1>3
  <2>2. n \in Nat
    BY <1>1
  <2> HIDE DEF A, n
  <2> QED BY <2>1, <2>2
<1>5. e = <<a, place>>
  <2>1. m \in PlainSet(S)
    BY <1>1 DEF BareSet
  <2> DEFINE o == Offset(Bulks(Words(m)), k)
  <2>2. k \in 0 .. Len(Words(m)) - 1 /\ o \in Nat /\ x = 4 + o + 0
    BY <1>3 DEF InWord
  <2>3. \A l \in 0 .. Len(Words(m)) - 1 : \A y \in Nat :
              y < Len(BulkText(Words(m)[l + 1])) =>
                PointsOf(m)[4 + Offset(Bulks(Words(m)), l) + y + 1]
                  = <<l + 1, PlaceOf(Len(Words(m)[l + 1]), y)>>
    BY <2>1, PointAt
  <2>4. q < Len(BulkText(Words(m)[k + 1]))
    BY DEF WordOf
  <2> HIDE DEF q
  <2>5. PointsOf(m)[4 + o + q + 1] = <<k + 1, PlaceOf(Len(Words(m)[k + 1]), q)>>
    BY <1>4, <2>2, <2>3, <2>4
  <2> HIDE DEF o
  <2>6. 4 + o + q + 1 = p + 1
    BY <1>3, <1>4, <2>2
  <2>7. e = PointsOf(m)[p + 1]
    BY <1>4, Zenon DEF PointIn
  <2> QED BY <2>5, <2>6, <2>7 DEF WordOf
<1>6. place \in Places /\ place # 0
  BY <1>4, PlaceIsPlace, PlaceZero
<1>7. ChunkReads(r, OnlyOne(v), 1, p)
  <2>1. Ends(i) < b /\ t <= Ends(i + 1) + 1
    <3> DEFINE A == Ends(i)
               C == Ends(i + 1)
    <3> HIDE DEF A, C
    <3>1. A < b /\ t <= C + 1
      <4>1. A \in Nat /\ C \in Nat /\ A + 4 <= b /\ b \in Nat /\ t - b < Len(BulkText(u)) /\ b + Len(BulkText(u)) <= C
            /\ Len(BulkText(u)) \in Nat
        BY <1>1 DEF A, C
      <4> HIDE DEF u
      <4> QED BY <4>1
    <3> QED BY <3>1 DEF A, C
  <2> HIDE DEF v
  <2> QED BY <1>1, <1>2, <1>3, <2>1, OneSegmentRead
<1> HIDE DEF place, u, n, q, m, r, e, a, v
<1>8. /\ e[1] = a /\ e[2] < 4 => FromHeader(stream, i + 1, a, i + 1, e) = Refused
      /\ e = <<a, 4>> => FromHeader(stream, i + 1, a, i + 1, e) = Panicked
      /\ e = <<a, 5>> => FromHeader(stream, i + 1, a, i + 1, e) = Read(<<>>)
  <2>1. i <= i
    BY <1>3
  <2> QED BY <1>3, <2>1, FromHeaderIs
<1>9. place = 4 \/ place = 5 \/ place < 4
  BY <1>6 DEF Places
<1>10. v = IF place = 4 THEN Panic ELSE IF place = 5 THEN Bulk(u) ELSE Bad
  BY DEF v, PlaceValue
<1>11. CASE place = 4
  <2>1. Tells(r, Panicked)
    BY <1>7, <1>10, <1>11, OneTells
  <2> QED BY <1>5, <1>8, <1>11, <2>1 DEF r, a, e
<1>12. CASE place = 5
  <2>1. v = Bulk(u)
    BY <1>10, <1>12
  <2>2. Tells(r, Read(<<>>))
    BY <1>4, <1>7, <2>1, OneTells
  <2> QED BY <1>5, <1>8, <1>12, <2>2 DEF r, a, e
<1>13. CASE place < 4
  <2>1. v = Bad
    BY <1>10, <1>13
  <2>2. Tells(r, Refused)
    BY <1>7, <2>1, OneTells
  <2>3. e[1] = a /\ e[2] < 4
    BY <1>5, <1>13
  <2> QED BY <1>8, <2>2, <2>3 DEF r, a, e
<1> QED BY <1>9, <1>11, <1>12, <1>13

(* It ends further on: of the message it begins in nothing is read.        *)
LEMMA HeaderToSame ==
  ASSUME NEW S, Letters \subseteq S, LaidBare(S),
         NEW b, NEW i, NEW x, NEW k, HeaderAt(b, i, x, k),
         NEW t \in Nat, b < t, t <= Len(Text), NEW p, At(t, i, p),
         ~ (t - b < Len(BulkText(WordOf(i, k))))
  PROVE  Tells(ParseMultiArray(Chunk(b, t)), FromHeader(stream, i + 1, k + 1, i + 1, PointIn(i, p)))
<1> DEFINE u == WordOf(i, k)
           w == BulkText(u)
           m == stream[i + 1]
           B == Bulks(Words(m))
           n == Len(Words(m))
           r == ParseMultiArray(Chunk(b, t))
           e == PointIn(i, p)
           a == k + 1
           E0 == Ends(i)
           E1 == Ends(i + 1)
<1>1. /\ b \in Nat /\ E0 + 4 <= b /\ k \in Nat /\ m \in BareSet(S) /\ u \in Seq(S)
      /\ b + Len(w) <= E1 /\ Len(w) \in Nat
      /\ E0 \in Nat /\ E1 \in Nat /\ i + 1 \in 1 .. Len(stream)
  BY WordInText
<1>2. /\ i \in 0 .. Len(stream) - 1 /\ b = E0 + x /\ x \in Nat /\ InWord(m, x, k, 0)
      /\ t = E0 + p /\ p \in Nat /\ i \in Nat
  BY DEF HeaderAt, At
<1>3. t <= E1
  <2> DEFINE l == i + 1
  <2>1. l \in 1 .. Len(stream) /\ l - 1 = i
    BY <1>1, <1>2
  <2>2. Ends(l) = Ends(l - 1) + Len(TextOf(stream[l])) /\ Len(TextOf(stream[l])) \in Nat
    BY <2>1 DEF LaidBare, Laid
  <2>3. p < Len(TextOf(stream[l]))
    <3>1. i # Len(stream)
      BY <1>2
    <3> QED BY <3>1 DEF At
  <2>4. E1 = E0 + Len(TextOf(stream[l]))
    <3> HIDE DEF E0
    <3>1. Ends(l - 1) = E0
      BY <2>1 DEF E0
    <3> QED BY <2>2, <3>1
  <2> HIDE DEF E0, E1, l
  <2> QED BY <1>1, <1>2, <2>2, <2>3, <2>4
<1>4. /\ x \in Nat /\ p >= x + Len(w) /\ p >= 4 /\ p # 1 /\ p # 0 /\ b + Len(w) <= t
  <2> HIDE DEF E0, E1
  <2>1. ~ (t - b < Len(w))
    OBVIOUS
  <2> HIDE DEF w
  <2> QED BY <1>1, <1>2, <2>1
<1>5. Parse(Chunk(b, t)) = Bulk(u)
  BY <1>4, WordIsRead DEF Chunk
<1>6. ChunkReads(r, OnlyOne(Bulk(u)), 1, p)
  <2>1. Ends(i) < b /\ t <= Ends(i + 1) + 1
    <3> HIDE DEF E0, E1
    <3>1. E0 < b /\ t <= E1 + 1
      BY <1>1, <1>3
    <3> QED BY <3>1 DEF E0, E1
  <2> QED BY <1>1, <1>2, <1>5, <2>1, OneSegmentRead
<1>7. Tells(r, Read(<<>>))
  <2> HIDE DEF r, u
  <2>1. Tells(r, IF p = 1 THEN Panicked ELSE Read(<<>>))
    BY <1>6, OneTells
  <2> QED BY <1>4, <2>1
<1>8. e[1] # a
  <2>1. p \in 4 .. Len(TextOf(m)) - 1
    <3>1. p \in 1 .. Len(TextOf(m)) - 1
      <4>1. p >= 1
        <5> HIDE DEF E0, w
        <5> QED BY <1>2, <1>4
      <4> QED BY <4>1, CutSegment
    <3> QED BY <1>4, <3>1
  <2>2. PICK l, y : InWord(m, p, l, y)
    BY <1>1, <2>1, WordAt
  <2>3. PointsOf(m)[p + 1] = <<l + 1, PlaceOf(Len(Words(m)[l + 1]), y)>>
    BY <1>1, <2>2, InWordIs, SMTT(60)
  <2>4. e = PointsOf(m)[p + 1]
    BY <1>4, Zenon DEF PointIn
  <2>5. B \in Seq(Seq(S)) /\ Len(B) = n /\ n \in 3 .. 5
    BY <1>1, MessageText
  <2>6. /\ k \in 0 .. n - 1 /\ x = 4 + Offset(B, k) + 0 /\ Offset(B, k) \in Nat
        /\ l \in 0 .. n - 1 /\ y \in Nat /\ y < Len(BulkText(Words(m)[l + 1]))
        /\ p = 4 + Offset(B, l) + y /\ Offset(B, l) \in Nat
    BY <1>2, <2>2 DEF InWord
  <2>7. /\ \A z \in 0 .. n - 1 : /\ B[z + 1] = BulkText(Words(m)[z + 1])
                                 /\ Offset(B, z + 1) = Offset(B, z) + Len(B[z + 1])
                                 /\ Offset(B, z + 1) \in Nat /\ Len(B[z + 1]) \in Nat
    <3> SUFFICES ASSUME NEW z \in 0 .. n - 1
                 PROVE  /\ B[z + 1] = BulkText(Words(m)[z + 1])
                        /\ Offset(B, z + 1) = Offset(B, z) + Len(B[z + 1])
                        /\ Offset(B, z + 1) \in Nat /\ Len(B[z + 1]) \in Nat
      OBVIOUS
    <3>1. Words(m) \in Seq(Seq(S))
      BY <1>1, WordsAreBare DEF AreBare
    <3>2. B = [j \in DOMAIN Words(m) |-> BulkText(Words(m)[j])] /\ DOMAIN Words(m) = 1 .. n
      BY <3>1 DEF Bulks
    <3>3. z + 1 \in 1 .. n
      BY <2>5
    <3>4. B[z + 1] = BulkText(Words(m)[z + 1])
      BY <3>2, <3>3
    <3> HIDE DEF B, n
    <3>5. z \in 0 .. Len(B) - 1
      BY <2>5
    <3>6. /\ Offset(B, z) \in Nat /\ Len(B[z + 1]) \in Nat
          /\ Offset(B, z + 1) = Offset(B, z) + Len(B[z + 1])
      BY <2>5, <3>5, OneMore
    <3>7. Offset(B, z + 1) \in Nat
      BY <3>6
    <3> QED BY <3>4, <3>6, <3>7
  <2>8. ~ (l <= k)
    <3>1. SUFFICES ASSUME l <= k PROVE FALSE
      OBVIOUS
    <3> HIDE DEF B, n
    <3>2. l + 1 \in 0 .. n /\ k + 1 \in (l + 1) .. n
      BY <2>5, <2>6, <3>1
    <3>3. Offset(B, l + 1) <= Offset(B, k + 1)
      BY <2>5, <3>2, JoinsBegin
    <3>4. /\ Offset(B, k + 1) = Offset(B, k) + Len(w) /\ Offset(B, k + 1) \in Nat
          /\ Offset(B, l + 1) = Offset(B, l) + Len(BulkText(Words(m)[l + 1])) /\ Offset(B, l + 1) \in Nat
          /\ Len(BulkText(Words(m)[l + 1])) \in Nat
      BY <2>6, <2>7 DEF WordOf
    <3> DEFINE A == Offset(B, k)
               C == Offset(B, l)
               D == Offset(B, k + 1)
               F == Offset(B, l + 1)
               z == Len(BulkText(Words(m)[l + 1]))
    <3>5. /\ A \in Nat /\ C \in Nat /\ D \in Nat /\ F \in Nat /\ z \in Nat /\ F <= D
          /\ D = A + Len(w) /\ F = C + z /\ y < z /\ y \in Nat /\ x = 4 + A /\ p = 4 + C + y
      BY <2>6, <3>3, <3>4
    <3> HIDE DEF A, C, D, F, z, w
    <3> QED BY <1>1, <1>4, <3>5
  <2>9. e[1] = l + 1
    BY <2>3, <2>4
  <2> HIDE DEF e
  <2> QED BY <1>1, <2>6, <2>8, <2>9
<1>9. FromHeader(stream, i + 1, a, i + 1, e) = Read(<<>>)
  <2> HIDE DEF e, a
  <2>1. i <= i
    BY <1>2
  <2> QED BY <1>2, <1>8, <2>1, FromHeaderIs
<1> QED BY <1>7, <1>9

(* A chunk from the header of a word into a later message.                 *)
LEMMA HeaderToLater ==
  ASSUME NEW S, Letters \subseteq S, LaidBare(S),
         NEW b, NEW i, NEW x, NEW k, HeaderAt(b, i, x, k),
         NEW t \in Nat, b < t, t <= Len(Text), NEW j, NEW p, At(t, j, p), i < j
  PROVE  Tells(ParseMultiArray(Chunk(b, t)), FromHeader(stream, i + 1, k + 1, j + 1, PointIn(j, p)))
<1> DEFINE u == WordOf(i, k)
           w == BulkText(u)
           r == ParseMultiArray(Chunk(b, t))
           e == PointIn(j, p)
           a == k + 1
           h == i + 1
           N == Len(stream)
           E0 == Ends(i)
           E1 == Ends(h)
           E2 == Ends(j)
<1>1. /\ b \in Nat /\ E0 + 4 <= b /\ b + Len(w) <= E1 /\ Len(w) \in Nat
      /\ E0 \in Nat /\ E1 \in Nat /\ h \in 1 .. N
  BY WordInText
<1>2. /\ i \in 0 .. N - 1 /\ j \in 0 .. N /\ t = E2 + p /\ p \in Nat /\ i \in Nat /\ N \in Nat
  <2>1. j \in 0 .. N /\ t = E2 + p /\ p \in Nat
    BY DEF At
  <2>2. i \in 0 .. N - 1
    BY DEF HeaderAt
  <2>3. N \in Nat
    BY DEF LaidBare, Laid
  <2> HIDE DEF E2, N
  <2> QED BY <2>1, <2>2, <2>3
<1>3. /\ \A l \in 0 .. N : Ends(l) \in Nat /\ Ends(l) <= Len(Text)
      /\ \A l \in 0 .. N : \A y \in 0 .. N : l < y <=> Ends(l) < Ends(y)
      /\ Len(Text) \in Nat
  BY DEF LaidBare, Laid
<1>4. E2 \in Nat /\ E1 <= E2 /\ h \in 0 .. j /\ j \in Nat /\ h = i + 1
  <2>1. h \in 0 .. N /\ h \in 0 .. j /\ j \in Nat /\ ~ (j < h)
    BY <1>1, <1>2
  <2> HIDE DEF h
  <2>2. E1 \in Nat /\ E2 \in Nat /\ ~ (E2 < E1)
    BY <1>2, <1>3, <2>1
  <2> HIDE DEF E1, E2
  <2> QED BY <2>1, <2>2 DEF h
<1>5. b + Len(w) <= t /\ b <= E1 /\ E0 < b
  <2> HIDE DEF E0, E1, E2, w
  <2> QED BY <1>1, <1>2, <1>4
<1>6. (p = 1 => e = Star) /\ (p # 1 => e # Star)
  <2>1. Start # Star
    BY DEF Start, Star
  <2>2. p = 0 \/ p = 1 \/ p >= 2
    <3> HIDE DEF E2
    <3> QED BY <1>2
  <2> QED BY <2>1, <2>2, PointInIs
<1> HIDE DEF r, e, a
<1>7. CASE j = h /\ p < 2
  <2>1. Parse(Chunk(b, t)) = Bulk(u)
    BY <1>5, WordIsRead DEF Chunk
  <2>2. t <= Ends(i + 1) + 1
    <3>1. E1 = E2
      BY <1>7
    <3> HIDE DEF E1, E2
    <3>2. t <= E1 + 1
      BY <1>1, <1>2, <1>7, <3>1
    <3> QED BY <3>2 DEF E1
  <2>3. ChunkReads(r, OnlyOne(Bulk(u)), 1, p)
    BY <1>1, <1>2, <1>5, <2>1, <2>2, OneSegmentRead DEF r
  <2> HIDE DEF u
  <2>4. Tells(r, IF p = 1 THEN Panicked ELSE Read(<<>>))
    BY <2>3, OneTells
  <2>5. FromHeader(stream, i + 1, a, j + 1, e) = IF p = 1 THEN Panicked ELSE Read(<<>>)
    <3>1. FromHeader(stream, i + 1, a, j + 1, e) = IF e = Star THEN Panicked ELSE Read(<<>>)
      <4>1. j = i + 1 /\ i <= j
        BY <1>2, <1>7
      <4> QED BY <1>2, <1>4, <4>1, FromHeaderIs
    <3> QED BY <1>6, <3>1
  <2> QED BY <2>4, <2>5 DEF r, e, a
<1>8. CASE ~ (j = h /\ p < 2)
  <2> DEFINE K == (j - h) + (IF p >= 2 THEN 1 ELSE 0)
  <2>1. K \in Nat \ {0}
    <3> HIDE DEF h, E2
    <3> QED BY <1>2, <1>4, <1>8
  <2>2. h > 0 => Ends(h - 1) < b
    <3>1. h - 1 = i
      BY <1>2
    <3> HIDE DEF h
    <3> QED BY <1>5, <3>1
  <2>3. Divides(b, t, h, j, p, K)
    <3> HIDE DEF K
    <3>1. K = (j - h) + (IF p >= 2 THEN 1 ELSE 0)
      BY DEF K
    <3>2. b <= Ends(h)
      BY <1>5
    <3> HIDE DEF h
    <3> QED BY <1>1, <1>4, <2>1, <2>2, <3>1, <3>2 DEF Divides
  <2>4. Leads(b, t, h, K, 1, u)
    <3> DEFINE y == Border(h, b, t, K, 1)
    <3>1. y = IF 1 = K THEN t ELSE Ends(h + 1)
      BY DEF Border
    <3>2. y \in Nat /\ y <= Len(Text) /\ b + Len(w) <= y
      <4>1. CASE 1 = K
        <5> HIDE DEF w, y, K
        <5> QED BY <1>5, <3>1, <4>1
      <4>2. CASE 1 # K
        <5> DEFINE E3 == Ends(h + 1)
        <5>1. h + 1 \in 0 .. N /\ h \in 0 .. N /\ h < h + 1
          <6>1. K > 1
            <7> HIDE DEF K
            <7> QED BY <2>1, <4>2
          <6>2. (j - h) + (IF p >= 2 THEN 1 ELSE 0) > 1
            BY <6>1
          <6>3. h < j \/ (h = j /\ FALSE)
            <7> HIDE DEF h
            <7> QED BY <1>4, <6>2
          <6> QED BY <1>2, <1>4, <6>3
        <5> HIDE DEF h
        <5>2. E3 \in Nat /\ E3 <= Len(Text) /\ E1 < E3
          BY <1>3, <5>1
        <5> HIDE DEF K
        <5>3. y = E3
          BY <3>1, <4>2
        <5> HIDE DEF E1, E3, y, w
        <5> QED BY <1>1, <5>2, <5>3
      <4> QED BY <4>1, <4>2
    <3> HIDE DEF y, K, h, w
    <3>3. Parse(SubSeq(Text, b + 1, y)) = Bulk(u)
      BY <3>2, WordIsRead DEF w
    <3>4. 1 \in {0, 1} /\ 1 # 0
      OBVIOUS
    <3> QED BY <3>3, <3>4 DEF Leads, y
  <2> HIDE DEF K, u
  <2>5. Tells(r, IF j >= h + 1 THEN UpTo(stream, h + 1 + 1, j + 1, e) ELSE Read(<<>>))
    BY <2>3, <2>4, DividedTells DEF r, e
  <2>6. FromHeader(stream, i + 1, a, j + 1, e)
          = IF j >= h + 1 THEN UpTo(stream, h + 1 + 1, j + 1, e) ELSE Read(<<>>)
    <3>1. i <= j /\ i \in Nat /\ j \in Nat
      BY <1>2, <1>4
    <3>2. CASE j > i + 1
      <4>1. j >= h + 1 /\ h + 1 + 1 = i + 3
        BY <1>2, <3>1, <3>2
      <4> HIDE DEF h
      <4>2. FromHeader(stream, i + 1, a, j + 1, e) = UpTo(stream, i + 3, j + 1, e)
        BY <3>1, <3>2, FromHeaderIs
      <4> QED BY <4>1, <4>2
    <3>3. CASE ~ (j > i + 1)
      <4>1. j = i + 1 /\ ~ (j >= h + 1) /\ j = h
        BY <1>2, <1>4, <3>3
      <4>2. p # 1
        BY <1>8, <4>1
      <4> HIDE DEF h
      <4>3. FromHeader(stream, i + 1, a, j + 1, e) = Read(<<>>)
        BY <1>6, <3>1, <4>1, <4>2, FromHeaderIs
      <4> QED BY <4>1, <4>3
    <3> QED BY <3>2, <3>3
  <2> QED BY <2>5, <2>6 DEF r, e, a
<1> QED BY <1>7, <1>8

(* Whatever the two cuts are.                                              *)
LEMMA ChunkTells ==
  ASSUME NEW S, Letters \subseteq S, LaidBare(S),
         NEW b \in Nat, NEW t \in Nat, b < t, t <= Len(Text)
  PROVE  Tells(ParseMultiArray(Chunk(b, t)), Digest(stream, PositionAt(b), PositionAt(t)))
<1>1. Len(Text) \in Nat /\ Laid(S)
  BY DEF LaidBare, Laid
<1>2. b \in 0 .. Len(Text) /\ t \in 0 .. Len(Text)
  BY <1>1
<1>3. PICK i, x : At(b, i, x)
  BY <1>1, <1>2, SomewhereInStream
<1>4. PICK j, p : At(t, j, p)
  BY <1>1, <1>2, SomewhereInStream
<1>5. PositionAt(b) = <<i + 1, PointIn(i, x)>>
  BY <1>1, <1>3, PositionIs
<1>6. PositionAt(t) = <<j + 1, PointIn(j, p)>>
  BY <1>1, <1>4, PositionIs
<1>7. i <= j /\ i \in 0 .. Len(stream) - 1 /\ j \in Nat
  <2>1. j \in 0 .. Len(stream) /\ Len(stream) \in Nat
    BY <1>4 DEF At, LaidBare, Laid
  <2> QED BY <1>3, <1>4, <2>1, InOrderAre
<1> DEFINE r == ParseMultiArray(Chunk(b, t))
           e == PointIn(j, p)
<1>8. CASE x = 0
  <2>1. PointIn(i, x) = Start
    BY <1>8 DEF PointIn
  <2>2. Tells(r, Digest(stream, <<i + 1, Start>>, <<j + 1, e>>))
    BY <1>3, <1>4, <1>8, FromStartTells
  <2> HIDE DEF r, e
  <2> QED BY <1>5, <1>6, <2>1, <2>2 DEF r, e
<1>9. CASE x # 0 /\ ~ \E k : InWord(stream[i + 1], x, k, 0)
  <2>1. Tells(r, Digest(stream, <<i + 1, PointIn(i, x)>>, <<j + 1, e>>))
    <3> HIDE DEF e
    <3> QED BY <1>3, <1>9, ElsewhereTells
  <2> QED BY <1>5, <1>6, <2>1
<1>10. ASSUME NEW k, InWord(stream[i + 1], x, k, 0)
       PROVE  Tells(r, Digest(stream, PositionAt(b), PositionAt(t)))
  <2>1. HeaderAt(b, i, x, k)
    BY <1>3, <1>7, <1>10 DEF HeaderAt
  <2>2. Tells(r, FromHeader(stream, i + 1, k + 1, j + 1, e))
    <3>1. CASE i < j
      BY <1>4, <2>1, <3>1, HeaderToLater
    <3>2. CASE ~ (i < j)
      <4>1. i = j
        BY <1>7, <3>2
      <4>2. At(t, i, p)
        BY <1>4, <4>1
      <4>3. CASE t - b < Len(BulkText(WordOf(i, k)))
        BY <2>1, <4>1, <4>2, <4>3, HeaderToWord
      <4>4. CASE ~ (t - b < Len(BulkText(WordOf(i, k))))
        BY <2>1, <4>1, <4>2, <4>4, HeaderToSame
      <4> QED BY <4>3, <4>4
    <3> QED BY <3>1, <3>2
  <2>3. Digest(stream, <<i + 1, PointIn(i, x)>>, <<j + 1, e>>) = FromHeader(stream, i + 1, k + 1, j + 1, e)
    <3> HIDE DEF e
    <3> QED BY <2>1, HeaderDigest
  <2> HIDE DEF r
  <2> QED BY <1>5, <1>6, <2>2, <2>3
<1> QED BY <1>8, <1>9, <1>10

(* Before anything is read: the empty chunk in front of the first message. *)
LEMMA NothingIsTold ==
  ASSUME NEW S, Letters \subseteq S, LaidBare(S)
  PROVE  Tells([fate |-> Fine, out |-> <<>>], Digest(stream, PositionAt(0), PositionAt(0)))
<1>1. Laid(S) /\ Ends(0) = 0 /\ Len(stream) \in Nat /\ Len(Text) \in Nat
  BY DEF LaidBare, Laid
<1>2. At(0, 0, 0)
  <2>1. 0 \in 0 .. Len(stream) /\ 0 \in Nat /\ 0 = Ends(0) + 0
    BY <1>1
  <2>2. 0 # Len(stream) => 0 < Len(TextOf(stream[0 + 1]))
    <3>1. SUFFICES ASSUME 0 # Len(stream) PROVE 0 < Len(TextOf(stream[1]))
      OBVIOUS
    <3>2. 1 \in 1 .. Len(stream)
      BY <1>1, <3>1
    <3>3. Len(TextOf(stream[1])) \in Nat \ {0}
      BY <1>1, <3>2 DEF Laid
    <3> QED BY <3>3
  <2> QED BY <2>1, <2>2 DEF At
<1>3. PositionAt(0) = <<1, Start>>
  <2>1. PositionAt(0) = <<0 + 1, PointIn(0, 0)>>
    BY <1>1, <1>2, PositionIs
  <2>2. PointIn(0, 0) = Start
    BY DEF PointIn
  <2> QED BY <2>1, <2>2
<1>4. Digest(stream, <<1, Start>>, <<1, Start>>) = UpTo(stream, 1, 1, Start)
  <2>1. Start # Star
    BY DEF Start, Star
  <2> QED BY <2>1 DEF Digest, FromStart
<1>5. UpTo(stream, 1, 1, Start) = Read(Whole(1, 0) \o Remnant(stream, 1, Start))
  <2>1. UpTo(stream, 1, 1, Start) = Read(Whole(1, 1 - 1) \o Remnant(stream, 1, Start))
    BY UpToIs
  <2>2. 1 - 1 = 0
    OBVIOUS
  <2> QED BY <2>1, <2>2
<1>6. Whole(1, 0) = <<>> /\ Remnant(stream, 1, Start) = <<>>
  <2>1. ~ (1 <= 0)
    OBVIOUS
  <2>2. Whole(1, 0) = [j \in 1 .. 0 |-> [msg |-> 1 + j - 1, whole |-> TRUE]]
    BY <2>1, Zenon DEF Whole
  <2>3. Whole(1, 0) = <<>>
    BY <2>2
  <2>4. Remnant(stream, 1, Start) = <<>>
    BY Zenon DEF Remnant
  <2> QED BY <2>3, <2>4
<1>7. Digest(stream, PositionAt(0), PositionAt(0)) = Read(<<>>)
  <2>1. <<>> \o <<>> = <<>>
    OBVIOUS
  <2> QED BY <1>3, <1>4, <1>5, <1>6, <2>1
<1> DEFINE r == [fate |-> Fine, out |-> <<>>]
<1>8. r.fate = Fine /\ r.out = <<>>
  OBVIOUS
<1>9. Commands(<<>>) = <<>> /\ CommandsTold(<<>>) = <<>>
  <2>1. CommandsTold(<<>>) = <<>>
    BY DEF CommandsTold
  <2>2. Commands(<<>>) = FlattenSeq(<<>>)
    <3>1. [i \in DOMAIN <<>> |-> CommandsIn(<<>>[i])] = <<>>
      OBVIOUS
    <3> QED BY <3>1 DEF Commands
  <2>3. FlattenSeq(<<>>) = <<>>
    <3>1. PartsAre(<<>>, 0, 0, 0, <<>>, <<>>, {})
      <4>1. <<>> = [k \in 1 .. 0 |-> <<>>[k]] /\ <<>> \in Seq({})
        OBVIOUS
      <4>2. 0 \in Nat /\ 0 \in {0, 1} /\ 0 \in {0 + 0, 0 + 0 + 1} /\ 0 # 1 /\ 0 = 0 + 0
        OBVIOUS
      <4>3. \A x \in 1 .. 0 : FALSE
        OBVIOUS
      <4> QED BY <4>1, <4>2, <4>3 DEF PartsAre
    <3>2. FlattenSeq(<<>>) = FirstOnes(<<>>, 0) \o <<>>
      BY <3>1, JoinedParts
    <3>3. FirstOnes(<<>>, 0) = <<>>
      <4>1. 0 \in Nat
        OBVIOUS
      <4> QED BY <4>1, OneMoreOf
    <3> QED BY <3>2, <3>3
  <2> QED BY <2>1, <2>2, <2>3
<1> HIDE DEF r
<1>10. Tells(r, Read(<<>>))
  BY <1>8, <1>9, TellsOf
<1> QED BY <1>7, <1>10 DEF r

(* The digest of every chunk, for streams of bare words.                   *)
BareStreams(S) == \A s \in Streams : s \in Seq(BareSet(S))

LEMMA BareIsPlain ==
  ASSUME NEW S, BareStreams(S)
  PROVE  PlainStreams(S)
<1>1. BareSet(S) \subseteq PlainSet(S)
  BY DEF BareSet
<1> HIDE DEF BareSet
<1>2. Seq(BareSet(S)) \subseteq Seq(PlainSet(S))
  <2> SUFFICES ASSUME NEW s \in Seq(BareSet(S)) PROVE s \in Seq(PlainSet(S))
    OBVIOUS
  <2> QED BY <1>1
<1> QED BY <1>2 DEF BareStreams, PlainStreams

LEMMA StreamIsLaidBare ==
  ASSUME NEW S, Letters \subseteq S, BareStreams(S), Reading
  PROVE  LaidBare(S)
<1>1. stream \in Seq(BareSet(S))
  BY DEF Reading, BareStreams
<1>2. stream \in Seq(PlainSet(S))
  BY BareIsPlain DEF Reading, PlainStreams
<1>3. Laid(S)
  BY <1>2, StreamIsLaid
<1>4. \A k \in 1 .. Len(stream) : stream[k] \in BareSet(S)
  <2> HIDE DEF BareSet
  <2> QED BY <1>1, ElementOfSeq
<1> QED BY <1>3, <1>4 DEF LaidBare

(* In a stream of bare words no star is where the parser looks for one, so *)
(* that Wire's outlines of the messages tell it all that the messages do.  *)
LEMMA BareOutlines ==
  ASSUME NEW S, Letters \subseteq S, LaidBare(S), NEW k \in 1 .. Len(stream)
  PROVE  Outlines[k].stars = {} /\ Outlines[k].px = stream[k].px
<1>1. stream[k] \in BareSet(S) /\ k \in DOMAIN stream
  BY DEF LaidBare, Laid
<1> DEFINE m == stream[k]
<1>2. Bare(m.key) /\ Bare(m.val)
  BY <1>1 DEF BareSet
<1>3. m.key \in Seq(S) /\ m.val \in Seq(S)
  BY <1>1 DEF BareSet, PlainSet, PlainWords
<1> HIDE DEF m
<1>4. ASSUME NEW w \in Seq(S), Bare(w) PROVE ~ HasStar(w)
  <2> SUFFICES ASSUME NEW n \in 1 .. Len(w) - 1, w[n] = "*" PROVE FALSE
    BY DEF HasStar
  <2>1. n \in 1 .. Len(w)
    OBVIOUS
  <2>2. w[n] \notin Signs
    BY <1>4, <2>1 DEF Bare
  <2> QED BY <2>2 DEF Signs
<1>5. ~ HasStar(m.key) /\ ~ HasStar(m.val)
  BY <1>2, <1>3, <1>4
<1>6. StarsOf(m) = {}
  BY <1>5 DEF StarsOf
<1>7. Outlines[k] = [px |-> stream[k].px, stars |-> StarsOf(stream[k])]
  BY <1>1 DEF Outlines
<1> QED BY <1>6, <1>7 DEF m

LEMMA OutlinesDigest ==
  ASSUME NEW S, Letters \subseteq S, LaidBare(S), NEW b \in Nat, NEW t \in Nat, b <= t, t <= Len(Text)
  PROVE  Digests(Outlines, PositionAt(b), PositionAt(t)) = {Digest(stream, PositionAt(b), PositionAt(t))}
<1>1. Len(Text) \in Nat /\ Len(stream) \in Nat /\ Laid(S)
  BY DEF LaidBare, Laid
<1>2. b \in 0 .. Len(Text) /\ t \in 0 .. Len(Text)
  BY <1>1
<1>3. PICK i, x : At(b, i, x)
  BY <1>1, <1>2, SomewhereInStream
<1>4. PICK j, p : At(t, j, p)
  BY <1>1, <1>2, SomewhereInStream
<1> DEFINE e == PointIn(j, p)
           from == PositionAt(b)
<1>5. from = <<i + 1, PointIn(i, x)>>
  BY <1>1, <1>3, PositionIs
<1>6. PositionAt(t) = <<j + 1, e>>
  BY <1>1, <1>4, PositionIs
<1>7. i \in 0 .. Len(stream) /\ j \in 0 .. Len(stream) /\ (j = Len(stream) => e = Start)
  BY <1>3, <1>4 DEF At, PointIn
<1> DEFINE k == j + 1
<1>8. from[1] = i + 1 /\ k \in Nat
  BY <1>5, <1>7
<1> HIDE DEF e, from
<1>9. ~ Starred(Outlines, from, <<k, e>>)
  <2> SUFFICES ASSUME NEW n \in i + 1 .. k, <<k, e>> # <<n, Start>>, NEW a \in Outlines[n].stars
               PROVE  FALSE
    BY <1>8 DEF Starred
  <2>1. n # Len(stream) + 1
    BY <1>1, <1>7
  <2>2. n \in 1 .. Len(stream)
    BY <1>1, <1>7, <2>1
  <2> QED BY <2>2, BareOutlines
<1>10. Remnant(Outlines, k, e) = Remnant(stream, k, e)
  <2>1. CASE e = Start
    BY <2>1 DEF Remnant
  <2>2. CASE e # Start
    <3>1. k \in 1 .. Len(stream)
      BY <1>1, <1>7, <2>2
    <3>2. Outlines[k].px = stream[k].px
      BY <3>1, BareOutlines
    <3>3. Args(Outlines[k]) = Args(stream[k])
      BY <3>2 DEF Args
    <3> QED BY <3>3 DEF Remnant
  <2> QED BY <2>1, <2>2
<1> HIDE DEF k
<1>11. \A n : UpTo(Outlines, n, k, e) = UpTo(stream, n, k, e)
  BY <1>10 DEF UpTo
<1>12. Digest(Outlines, from, <<k, e>>) = Digest(stream, from, <<k, e>>)
  <2>1. <<k, e>>[1] = k /\ <<k, e>>[2] = e
    OBVIOUS
  <2>2. \A n : FromStart(Outlines, n, k, e) = FromStart(stream, n, k, e)
    BY <1>11, Zenon DEF FromStart
  <2>3. \A n, a : FromHeader(Outlines, n, a, k, e) = FromHeader(stream, n, a, k, e)
    BY <1>11, Zenon DEF FromHeader
  <2> QED BY <2>1, <2>2, <2>3 DEF Digest
<1>13. Digests(Outlines, from, <<k, e>>) = {Digest(stream, from, <<k, e>>)}
  BY <1>9, <1>12 DEF Digests
<1> QED BY <1>6, <1>13 DEF from, k

(* What the loop has made of its last chunk is what the digest says.       *)
LEMMA ChunkIsTold ==
  ASSUME NEW S, Letters \subseteq S, BareStreams(S), Reading, Parsed
  PROVE  ChunkDigest
<1> DEFINE digest == Digest(stream, PositionAt(begun), PositionAt(taken))
<1>1. LaidBare(S)
  BY StreamIsLaidBare
<1>2. CASE made = Unread
  BY <1>2 DEF ChunkDigest
<1>3. ASSUME made # Unread PROVE Tells(made, digest)
  <2>1. CASE begun = 0 /\ taken = 0 /\ made = [fate |-> Fine, out |-> <<>>]
    <3>1. Tells([fate |-> Fine, out |-> <<>>], Digest(stream, PositionAt(0), PositionAt(0)))
      BY <1>1, NothingIsTold
    <3> QED BY <2>1, <3>1, Zenon
  <2>2. CASE begun < taken /\ made = ParseMultiArray(SubSeq(Text, begun + 1, taken))
    <3>1. begun \in Nat /\ taken \in Nat /\ begun < taken /\ taken <= Len(Text)
      BY <2>2 DEF Reading
    <3>2. Tells(ParseMultiArray(Chunk(begun, taken)), Digest(stream, PositionAt(begun), PositionAt(taken)))
      BY <1>1, <3>1, ChunkTells
    <3> QED BY <2>2, <3>2, Zenon DEF Chunk
  <2> QED BY <1>3, <2>1, <2>2 DEF Parsed
<1>4. CASE made # Unread
  <2>1. digest.fate = FateTold(made.fate) /\ Executed = CommandsTold(digest.cmds)
    BY <1>3, <1>4, Zenon DEF Tells, Executed
  <2>2. Agrees(digest)
    BY <2>1, Zenon DEF Agrees, FateTold, CommandsTold
  <2>3. begun \in Nat /\ taken \in Nat /\ begun <= taken /\ taken <= Len(Text)
    BY DEF Reading
  <2>4. Digests(Outlines, PositionAt(begun), PositionAt(taken)) = {digest}
    BY <1>1, <2>3, OutlinesDigest
  <2> HIDE DEF digest
  <2> QED BY <2>2, <2>4, Zenon DEF ChunkDigest
<1> QED BY <1>2, <1>4

(* src/parser.rs:23-48, parse_set and src/main.rs:278-297: whatever SETs   *)
(* of bare words a stream is made of and wherever TCP cuts it, what the    *)
(* replica executes of every chunk, and whether the chunk is read, refused *)
(* or ends the task, is what Wire says of its two cuts.                    *)
THEOREM ChunksAreDigested ==
  ASSUME NEW S, Letters \subseteq S, BareStreams(S)
  PROVE  Spec => []ChunkDigest
<1>1. PlainStreams(S)
  BY BareIsPlain
<1>2. Reading /\ Parsed => ChunkDigest
  BY ChunkIsTold
<1>3. Spec => []Reading
  BY <1>1, ReadingIsKept
<1>4. Spec => []Parsed
  BY <1>1, ParsedIsKept
<1> QED BY <1>2, <1>3, <1>4, PTL
=============================================================================
