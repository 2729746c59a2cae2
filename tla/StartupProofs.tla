---------------------------- MODULE StartupProofs ----------------------------
(***************************************************************************)
(* Proofs about a connection on the text, and about the start-up of a      *)
(* process at its other end (Session, Startup): however TCP cuts the text, *)
(* a server executes what it was sent and nothing else, requests that      *)
(* arrive one by one are each understood, the handshake and the master     *)
(* stay in step, and the feed behind the snapshot is not touched.          *)
(*                                                                         *)
(* They are about requests that are arrays of plain words (PlainRequest).  *)
(***************************************************************************)
EXTENDS Startup, RespProofs

(* What a server makes of the first k words of a request.                  *)
Understood(cmd) == IF Has(cmd) THEN cmd ELSE NoCommand
Meaning(ts, k) == Understood(ParseCommand([i \in 1 .. k |-> Bulk(ts[i])]))

(* The text of a request is an array of words in which nothing looks like  *)
(* a header, it means what the server makes of all its words, and is short *)
(* what the server makes of the first of them.                             *)
PlainRequest(r, S) ==
  \E ts :
    /\ IsRequest(ts, S)
    /\ r.text = ArrayText(ts)
    /\ r.means = Meaning(ts, Len(ts))
    /\ \A k \in 0 .. Len(ts) : Meaning(ts, k) \in {NoCommand, r.means} \cup r.short

PlainScript(s, S) ==
  /\ Len(s) \in Nat
  /\ \A i \in 1 .. Len(s) : PlainRequest(s[i], S)

PlainPort(port, S) == port \in Seq(S) /\ Plain(port) /\ Starless(port)

TextsOf(s) == [i \in 1 .. Len(s) |-> s[i].text]

LEMMA TextsAreTexts ==
  ASSUME NEW S, Symbols \subseteq S, NEW s, PlainScript(s, S)
  PROVE  /\ TextsOf(s) \in Seq(Seq(S)) /\ Len(TextsOf(s)) = Len(s) /\ Len(s) \in Nat
         /\ \A i \in 1 .. Len(s) : TextsOf(s)[i] = s[i].text /\ Len(s[i].text) \in Nat \ {0}
<1>1. Len(s) \in Nat /\ \A i \in 1 .. Len(s) : PlainRequest(s[i], S)
  BY DEF PlainScript
<1>2. ASSUME NEW i \in 1 .. Len(s)
      PROVE  s[i].text \in Seq(S) /\ Len(s[i].text) \in Nat \ {0}
  <2>1. PICK ts : IsRequest(ts, S) /\ s[i].text = ArrayText(ts)
    BY <1>1 DEF PlainRequest
  <2>2. ts \in Seq(Seq(S)) /\ \A j \in 1 .. Len(ts) : Starless(ts[j])
    BY <2>1 DEF IsRequest
  <2>3. ArrayText(ts) \in Seq(S) /\ Len(ArrayText(ts)) \in Nat \ {0}
    BY <2>2, NoArrayInside
  <2> QED BY <2>1, <2>3
<1>3. TextsOf(s) \in [1 .. Len(s) -> Seq(S)]
  BY <1>2 DEF TextsOf
<1>4. TextsOf(s) \in Seq(Seq(S)) /\ Len(TextsOf(s)) = Len(s)
  BY <1>1, <1>3, TupleIsSeq
<1> QED BY <1>1, <1>2, <1>4 DEF TextsOf

-----------------------------------------------------------------------------
(* What a server makes of the value of a chunk.                            *)
LEMMA FirstWordsUnderstood ==
  ASSUME NEW r, NEW ts, Len(ts) \in Nat,
         \A k \in 0 .. Len(ts) : Meaning(ts, k) \in {NoCommand, r.means} \cup r.short,
         NEW v, FirstWords(v, ts), ~ Failed(v), Has(CommandIn(v))
  PROVE  CommandIn(v) \in {r.means} \cup r.short
<1>1. PICK k \in 0 .. Len(ts) : v = Array([i \in 1 .. k |-> Bulk(ts[i])])
  BY Zenon DEF FirstWords, Failed
<1> DEFINE vs == [i \in 1 .. k |-> Bulk(ts[i])]
<1> HIDE DEF vs
<1>2. v = <<"array", vs>>
  BY <1>1 DEF Array, vs
<1>3. v[1] = "array" /\ v[2] = vs
  BY <1>2
<1>4. CommandIn(v) = ParseCommand(vs)
  BY <1>3, Zenon DEF CommandIn
<1>5. Meaning(ts, k) = CommandIn(v)
  BY <1>4, Zenon DEF Meaning, Understood, vs
<1>6. CommandIn(v) # NoCommand
  BY DEF Has
<1> QED BY <1>5, <1>6

(* Of any chunk of the requests, a command is what a request at whose      *)
(* beginning the chunk begins means, or its short form.                    *)
LEMMA ChunkUnderstood ==
  ASSUME NEW S, Symbols \subseteq S, NEW s, PlainScript(s, S),
         NEW a \in Nat, NEW b \in Nat, a < b, b <= Len(FlattenSeq(TextsOf(s))),
         NEW v, v = Parse(SubSeq(FlattenSeq(TextsOf(s)), a + 1, b)),
         ~ Failed(v), Has(CommandIn(v))
  PROVE  \E k \in 1 .. Len(s) :
           a = Offset(TextsOf(s), k - 1) /\ CommandIn(v) \in {s[k].means} \cup s[k].short
<1> DEFINE texts == TextsOf(s)
           P(i, ts) == /\ IsRequest(ts, S)
                       /\ s[i].text = ArrayText(ts)
                       /\ \A k \in 0 .. Len(ts) : Meaning(ts, k) \in {NoCommand, s[i].means} \cup s[i].short
           words == [i \in 1 .. Len(s) |-> CHOOSE ts : P(i, ts)]
<1>1. /\ texts \in Seq(Seq(S)) /\ Len(texts) = Len(s) /\ Len(s) \in Nat
      /\ \A i \in 1 .. Len(s) : texts[i] = s[i].text
  BY TextsAreTexts
<1>2. \A i \in 1 .. Len(s) : P(i, words[i])
  <2> SUFFICES ASSUME NEW i \in 1 .. Len(s) PROVE P(i, words[i])
    OBVIOUS
  <2>1. \E ts : P(i, ts)
    BY Zenon DEF PlainScript, PlainRequest
  <2>2. words[i] = CHOOSE ts : P(i, ts)
    OBVIOUS
  <2> HIDE DEF P, words
  <2> QED BY <2>1, <2>2
<1> HIDE DEF texts, words
<1>3. \A i \in 1 .. Len(texts) : texts[i] = ArrayText(words[i]) /\ IsRequest(words[i], S)
  BY <1>1, <1>2
<1>4. \/ v[1] # "array"
      \/ \E k \in 1 .. Len(texts) : a = Offset(texts, k - 1) /\ FirstWords(v, words[k])
  <2>1. \/ Parse(SubSeq(FlattenSeq(texts), a + 1, b))[1] # "array"
        \/ \E k \in 1 .. Len(texts) :
              /\ a = Offset(texts, k - 1)
              /\ FirstWords(Parse(SubSeq(FlattenSeq(texts), a + 1, b)), words[k])
    <3>1. b <= Len(FlattenSeq(texts))
      BY DEF texts
    <3> QED BY <1>1, <1>3, <3>1, ChunkRead
  <2>2. v = Parse(SubSeq(FlattenSeq(texts), a + 1, b))
    BY DEF texts
  <2> QED BY <2>1, <2>2, Zenon
<1>5. v[1] = "array"
  <2> SUFFICES ASSUME v[1] # "array" PROVE FALSE
    OBVIOUS
  <2>1. CommandIn(v) = NoCommand
    BY Zenon DEF CommandIn
  <2> QED BY <2>1 DEF Has
<1>6. PICK k \in 1 .. Len(s) : a = Offset(texts, k - 1) /\ FirstWords(v, words[k])
  BY <1>1, <1>4, <1>5
<1> DEFINE ts == words[k]
<1>7. \A j \in 0 .. Len(ts) : Meaning(ts, j) \in {NoCommand, s[k].means} \cup s[k].short
  BY <1>2
<1>8. Len(ts) \in Nat
  <2>1. IsRequest(ts, S)
    BY <1>2
  <2> HIDE DEF ts
  <2> QED BY <2>1 DEF IsRequest
<1>9. FirstWords(v, ts)
  BY <1>6
<1> HIDE DEF ts
<1>10. CommandIn(v) \in {s[k].means} \cup s[k].short
  BY <1>7, <1>8, <1>9, FirstWordsUnderstood
<1> QED BY <1>6, <1>10 DEF texts

(* A request that is read whole is understood as what it means.            *)
LEMMA WholeUnderstood ==
  ASSUME NEW S, Symbols \subseteq S, NEW r, PlainRequest(r, S), NEW v, v = Parse(r.text)
  PROVE  ~ Failed(v) /\ Understood(CommandIn(v)) = r.means
<1>1. PICK ts : /\ IsRequest(ts, S) /\ r.text = ArrayText(ts)
                /\ r.means = Meaning(ts, Len(ts))
  BY Zenon DEF PlainRequest
<1> DEFINE vs == [i \in 1 .. Len(ts) |-> Bulk(ts[i])]
<1>2. v = Array(vs)
  <2>1. ts \in Seq(Seq(S)) /\ \A i \in 1 .. Len(ts) : Plain(ts[i])
    BY <1>1 DEF IsRequest
  <2>2. Parse(ArrayText(ts)) = Array([i \in 1 .. Len(ts) |-> Bulk(ts[i])])
    BY <2>1, WholeRead
  <2> QED BY <1>1, <2>2, Zenon
<1> HIDE DEF vs
<1>3. v[1] = "array" /\ v[2] = vs /\ ~ Failed(v)
  BY <1>2 DEF Array, Failed, Bad, Panic
<1>4. CommandIn(v) = ParseCommand(vs)
  BY <1>3, Zenon DEF CommandIn
<1> QED BY <1>1, <1>3, <1>4, Zenon DEF Meaning, vs

-----------------------------------------------------------------------------
(* A connection: its text is that of the requests that were written, from  *)
(* a place on.                                                             *)
Texts == TextsOf(script)
Taken == Offset(Texts, sent) - Len(toServer)
Connected(S) ==
  /\ PlainScript(script, S)
  /\ sent \in 0 .. Len(script)
  /\ server \in {"reading", "piped", "closed"}
  /\ Taken \in Nat /\ Taken <= Offset(Texts, sent)
  /\ toServer = SubSeq(FlattenSeq(Texts), Taken + 1, Offset(Texts, sent))

(* What was executed, request by request.                                  *)
Means(i) == {script[i].means} \cup script[i].short
AllMeanings == UNION {Means(i) : i \in 1 .. Len(script)}
InOrder(place) ==
  /\ \A i, j \in 1 .. Len(executed) : i < j => place[i] < place[j]
  /\ \A i \in 1 .. Len(executed) :
       place[i] >= i /\ executed[i] \in Means(place[i]) /\ Offset(Texts, place[i] - 1) < Taken
InPlace ==
  /\ executed \in Seq(AllMeanings)
  /\ \E place \in [1 .. Len(executed) -> 1 .. sent] : InOrder(place)

OneByOne ==
  /\ apart \in BOOLEAN /\ served \in 0 .. sent
  /\ apart => /\ Taken = Offset(Texts, served)
              /\ executed = FlattenSeq([i \in 1 .. served |-> Effect(script[i])])

(* The offsets of the requests.                                            *)
LEMMA RequestOffsets ==
  ASSUME NEW S, Symbols \subseteq S, PlainScript(script, S)
  PROVE  /\ Texts \in Seq(Seq(S)) /\ Len(Texts) = Len(script) /\ Len(script) \in Nat
         /\ FlattenSeq(Texts) \in Seq(S) /\ Offset(Texts, 0) = 0
         /\ \A i \in 0 .. Len(script) :
              Offset(Texts, i) \in Nat /\ Offset(Texts, i) <= Len(FlattenSeq(Texts))
         /\ \A i, j \in 0 .. Len(script) : i < j <=> Offset(Texts, i) < Offset(Texts, j)
         /\ \A i \in 1 .. Len(script) :
              /\ script[i].text \in Seq(S)
              /\ Offset(Texts, i) = Offset(Texts, i - 1) + Len(script[i].text)
              /\ PartOf(FlattenSeq(Texts), Offset(Texts, i - 1) + 1, script[i].text)
<1>1. /\ Texts \in Seq(Seq(S)) /\ Len(Texts) = Len(script) /\ Len(script) \in Nat
      /\ \A i \in 1 .. Len(script) : Texts[i] = script[i].text /\ Len(script[i].text) \in Nat \ {0}
  BY TextsAreTexts DEF Texts
<1> HIDE DEF Texts
<1>2. /\ FlattenSeq(Texts) \in Seq(S) /\ Offset(Texts, 0) = 0
      /\ \A i \in 0 .. Len(Texts) :
           Offset(Texts, i) \in Nat /\ Offset(Texts, i) <= Len(FlattenSeq(Texts))
      /\ \A i \in 1 .. Len(Texts) :
           /\ Offset(Texts, i) = Offset(Texts, i - 1) + Len(Texts[i])
           /\ PartOf(FlattenSeq(Texts), Offset(Texts, i - 1) + 1, Texts[i])
  BY <1>1, Flattened
<1>3. \A i \in 1 .. Len(Texts) : Len(Texts[i]) \in Nat \ {0}
  BY <1>1
<1>4. ASSUME NEW i \in 0 .. Len(Texts), NEW j \in 0 .. Len(Texts)
      PROVE  i < j <=> Offset(Texts, i) < Offset(Texts, j)
  BY <1>1, <1>3, OffsetsGrow
<1>5. \A i \in 1 .. Len(script) : Texts[i] \in Seq(S)
  BY <1>1, ElementOfSeq
<1> QED BY <1>1, <1>2, <1>4, <1>5

(* A chunk is taken.                                                       *)
LEMMA ChunkTaken ==
  ASSUME NEW S, Symbols \subseteq S, Connected(S), NEW n \in 1 .. Len(toServer), TakeChunk(n),
         UNCHANGED <<script, sent>>, server' \in {"reading", "piped", "closed"}
  PROVE  /\ Connected(S)' /\ Taken' = Taken + n /\ n \in Nat \ {0}
         /\ Taken + n <= Offset(Texts, sent)
         /\ SubSeq(toServer, 1, n) = SubSeq(FlattenSeq(Texts), Taken + 1, Taken + n)
         /\ Len(SubSeq(toServer, 1, n)) = n
<1> DEFINE T == FlattenSeq(Texts)
           a == Taken
           b == Offset(Texts, sent)
           x == toServer
<1>1. /\ PlainScript(script, S) /\ sent \in 0 .. Len(script)
      /\ a \in Nat /\ a <= b /\ x = SubSeq(T, a + 1, b)
  BY DEF Connected
<1>2. T \in Seq(S) /\ b \in Nat /\ b <= Len(T)
  BY <1>1, RequestOffsets
<1>3. Texts' = Texts /\ Offset(Texts, sent)' = b /\ FlattenSeq(Texts)' = T
  BY DEF Texts
<1>4. x' = SubSeq(x, n + 1, Len(x))
  BY DEF TakeChunk
<1>a. Taken' = b - Len(x')
  BY <1>3 DEF Taken
<1>b. n \in 1 .. Len(x)
  OBVIOUS
<1> HIDE DEF T, a, b, x
<1>5. /\ Len(x) = b - a /\ a + n \in Nat /\ a + n <= b
      /\ SubSeq(x, 1, n) = SubSeq(T, a + 1, a + n)
      /\ Len(SubSeq(x, 1, n)) = n
      /\ SubSeq(x, n + 1, Len(x)) = SubSeq(T, a + n + 1, b)
      /\ Len(SubSeq(x, n + 1, Len(x))) = b - (a + n)
  BY <1>1, <1>2, <1>b, PieceTaken
<1>6. n \in Nat \ {0}
  BY <1>1, <1>2, <1>5, <1>b
<1>7. Taken' = a + n
  BY <1>1, <1>2, <1>4, <1>5, <1>6, <1>a
<1>8. x' = SubSeq(T, a + n + 1, b)
  BY <1>4, <1>5
<1>9. Connected(S)'
  <2>1. Taken' \in Nat /\ Taken' <= Offset(Texts, sent)'
    BY <1>3, <1>5, <1>7
  <2>2. toServer' = SubSeq(FlattenSeq(Texts)', Taken' + 1, Offset(Texts, sent)')
    BY <1>3, <1>7, <1>8 DEF x
  <2>3. PlainScript(script, S)' /\ sent' \in 0 .. Len(script')
    BY <1>1
  <2> QED BY <2>1, <2>2, <2>3 DEF Connected
<1> QED BY <1>5, <1>6, <1>7, <1>9 DEF T, a, b, x

(* A request is written.                                                   *)
LEMMA RequestWritten ==
  ASSUME NEW S, Symbols \subseteq S, Connected(S), sent < Len(script), sent' = sent + 1,
         toServer' = toServer \o script[sent + 1].text, UNCHANGED <<script, server>>
  PROVE  Connected(S)' /\ Taken' = Taken
<1> DEFINE T == FlattenSeq(Texts)
           a == Taken
           b == Offset(Texts, sent)
           x == toServer
           k == sent + 1
           y == script[k].text
<1>1. /\ PlainScript(script, S) /\ sent \in 0 .. Len(script)
      /\ a \in Nat /\ a <= b /\ x = SubSeq(T, a + 1, b)
  BY DEF Connected
<1>2. /\ Len(script) \in Nat /\ T \in Seq(S)
      /\ \A i \in 0 .. Len(script) : Offset(Texts, i) \in Nat /\ Offset(Texts, i) <= Len(T)
      /\ \A i \in 1 .. Len(script) :
              /\ script[i].text \in Seq(S)
              /\ Offset(Texts, i) = Offset(Texts, i - 1) + Len(script[i].text)
              /\ PartOf(T, Offset(Texts, i - 1) + 1, script[i].text)
  BY <1>1, RequestOffsets
<1>3. Texts' = Texts /\ Offset(Texts, sent)' = Offset(Texts, k) /\ FlattenSeq(Texts)' = T
  BY DEF Texts
<1>4. k \in 1 .. Len(script) /\ k - 1 = sent /\ k \in 0 .. Len(script)
  BY <1>1, <1>2
<1>5. y \in Seq(S) /\ Offset(Texts, k) = b + Len(y) /\ PartOf(T, b + 1, y) /\ b \in Nat
  <2>1. /\ script[k].text \in Seq(S)
        /\ Offset(Texts, k) = Offset(Texts, k - 1) + Len(script[k].text)
        /\ PartOf(T, Offset(Texts, k - 1) + 1, script[k].text)
    BY <1>2, <1>4
  <2> HIDE DEF k, T
  <2> QED BY <1>1, <1>2, <1>4, <2>1
<1>6. b + Len(y) <= Len(T)
  BY <1>2, <1>4, <1>5
<1>7. x' = x \o y
  OBVIOUS
<1>8. Taken' = Offset(Texts, k) - Len(x')
  BY <1>3 DEF Taken
<1> HIDE DEF T, a, b, x, y, k
<1>9. /\ x \o y = SubSeq(T, a + 1, b + Len(y)) /\ Len(x \o y) = b + Len(y) - a
      /\ Len(x) = b - a
  <2>1. LongerPiece(T, a, b, y)
    BY <1>1, <1>2, <1>5, <1>6, PieceLonger
  <2> QED BY <1>1, <2>1 DEF LongerPiece
<1>10. Len(y) \in Nat
  BY <1>5
<1>11. Taken' = a
  BY <1>1, <1>5, <1>7, <1>8, <1>9, <1>10
<1>12. Connected(S)'
  <2>1. Taken' \in Nat /\ Taken' <= Offset(Texts, sent)'
    BY <1>1, <1>3, <1>5, <1>10, <1>11
  <2>2. toServer' = SubSeq(FlattenSeq(Texts)', Taken' + 1, Offset(Texts, sent)')
    BY <1>3, <1>5, <1>7, <1>9, <1>11 DEF x
  <2>3. PlainScript(script, S)' /\ sent' \in 0 .. Len(script')
    BY <1>1, <1>4 DEF k
  <2> QED BY <2>1, <2>2, <2>3 DEF Connected
<1> QED BY <1>11, <1>12 DEF a

-----------------------------------------------------------------------------
(* What a connection keeps to, whoever sends.                              *)
SessionInv(S) == Connected(S) /\ InPlace /\ OneByOne

(* A chunk is read: the server takes it, and executes a command if it is   *)
(* one.                                                                    *)
Reads(n) ==
  LET v == FirstValue(n) IN
  /\ n \in 1 .. Len(toServer)
  /\ TakeChunk(n)
  /\ executed' = IF ~ Failed(v) /\ Has(CommandIn(v)) THEN Append(executed, CommandIn(v)) ELSE executed
  /\ server' \in {"reading", "piped", "closed"}
  /\ UNCHANGED <<script, sent>>

LEMMA ServeReads ==
  ASSUME Serve
  PROVE  \E n \in 1 .. Len(toServer) : Reads(n)
<1>1. PICK n \in 1 .. Len(toServer) :
         \E value \in {FirstValue(n)} :
           Disconnect(n, value) \/ Ignore(n, value) \/ Execute(n, value) \/ Sync(n, value)
  BY Zenon DEF Serve
<1> DEFINE v == FirstValue(n)
<1>2. Disconnect(n, v) \/ Ignore(n, v) \/ Execute(n, v) \/ Sync(n, v)
  BY <1>1, Zenon
<1>3. server = "reading" /\ UNCHANGED <<script, sent>>
  BY Zenon DEF Serve
<1> HIDE DEF v
<1>4. /\ TakeChunk(n)
      /\ executed' = IF ~ Failed(v) /\ Has(CommandIn(v)) THEN Append(executed, CommandIn(v)) ELSE executed
      /\ server' \in {"reading", "piped", "closed"}
  <2>1. CASE Disconnect(n, v)
    BY <2>1 DEF Disconnect
  <2>2. CASE Ignore(n, v)
    BY <1>3, <2>2 DEF Ignore
  <2>3. CASE Execute(n, v)
    BY <1>3, <2>3 DEF Execute
  <2>4. CASE Sync(n, v)
    BY <2>4 DEF Sync
  <2> QED BY <1>2, <2>1, <2>2, <2>3, <2>4
<1> QED BY <1>3, <1>4 DEF Reads, v

(* A command that is executed comes behind all those before it.            *)
LEMMA OneMoreInPlace ==
  ASSUME NEW S, Symbols \subseteq S, Connected(S), InPlace, NEW n, Reads(n)
  PROVE  InPlace'
<1> DEFINE v == FirstValue(n)
           cmd == CommandIn(v)
           m == Len(executed)
<1>1. /\ n \in 1 .. Len(toServer) /\ TakeChunk(n) /\ UNCHANGED <<script, sent>>
      /\ server' \in {"reading", "piped", "closed"}
      /\ executed' = IF ~ Failed(v) /\ Has(cmd) THEN Append(executed, cmd) ELSE executed
  BY DEF Reads
<1>2. /\ Connected(S)' /\ Taken' = Taken + n /\ n \in Nat \ {0}
      /\ Taken + n <= Offset(Texts, sent)
      /\ SubSeq(toServer, 1, n) = SubSeq(FlattenSeq(Texts), Taken + 1, Taken + n)
  BY <1>1, ChunkTaken
<1>3. /\ PlainScript(script, S) /\ sent \in 0 .. Len(script) /\ Taken \in Nat
  BY DEF Connected
<1>4. /\ Len(script) \in Nat /\ Offset(Texts, 0) = 0 /\ Texts' = Texts
      /\ \A i \in 0 .. Len(script) :
           Offset(Texts, i) \in Nat /\ Offset(Texts, i) <= Len(FlattenSeq(Texts))
      /\ \A i, j \in 0 .. Len(script) : i < j <=> Offset(Texts, i) < Offset(Texts, j)
  <2>1. Texts' = Texts
    BY <1>1 DEF Texts
  <2> QED BY <1>3, <2>1, RequestOffsets
<1>5. PICK place \in [1 .. m -> 1 .. sent] : InOrder(place)
  BY DEF InPlace
<1>6. /\ executed \in Seq(AllMeanings) /\ m \in Nat
      /\ AllMeanings' = AllMeanings /\ \A k : Means(k)' = Means(k)
  BY <1>1 DEF InPlace, AllMeanings, Means
<1>7. /\ \A i, j \in 1 .. m : i < j => place[i] < place[j]
      /\ \A i \in 1 .. m : place[i] >= i /\ executed[i] \in Means(place[i])
                           /\ Offset(Texts, place[i] - 1) < Taken
  BY <1>5 DEF InOrder
<1>8. CASE ~ (~ Failed(v) /\ Has(cmd))
  <2>1. executed' = executed
    BY <1>1, <1>8
  <2>2. \A i \in 1 .. m : Offset(Texts, place[i] - 1) < Taken'
    <3> SUFFICES ASSUME NEW i \in 1 .. m PROVE Offset(Texts, place[i] - 1) < Taken'
      OBVIOUS
    <3>1. place[i] - 1 \in 0 .. Len(script)
      BY <1>3, <1>4, <1>5
    <3> QED BY <1>2, <1>3, <1>4, <1>7, <3>1
  <2>3. InOrder(place)'
    BY <1>4, <1>6, <1>7, <2>1, <2>2 DEF InOrder
  <2> QED BY <1>1, <1>5, <1>6, <2>1, <2>3 DEF InPlace
<1>9. CASE ~ Failed(v) /\ Has(cmd)
  <2>1. PICK k \in 1 .. Len(script) :
           Taken = Offset(Texts, k - 1) /\ cmd \in {script[k].means} \cup script[k].short
    <3>1. v = Parse(SubSeq(FlattenSeq(TextsOf(script)), Taken + 1, Taken + n))
      BY <1>2 DEF FirstValue, Texts
    <3>2. /\ Taken + n \in Nat /\ Taken < Taken + n
          /\ Taken + n <= Len(FlattenSeq(TextsOf(script)))
      <4>1. Offset(Texts, sent) \in Nat /\ Offset(Texts, sent) <= Len(FlattenSeq(Texts))
        BY <1>3, <1>4
      <4>2. Len(FlattenSeq(Texts)) \in Nat
        BY <1>3, RequestOffsets
      <4> QED BY <1>2, <1>3, <4>1, <4>2 DEF Texts
    <3> HIDE DEF v
    <3> DEFINE b == Taken + n
               a == Taken
    <3>3. v = Parse(SubSeq(FlattenSeq(TextsOf(script)), a + 1, b)) /\ b \in Nat /\ a < b /\ a \in Nat
          /\ b <= Len(FlattenSeq(TextsOf(script)))
      BY <1>3, <3>1, <3>2
    <3> HIDE DEF a, b
    <3>4. \E k \in 1 .. Len(script) :
             a = Offset(TextsOf(script), k - 1) /\ CommandIn(v) \in {script[k].means} \cup script[k].short
      BY <1>3, <1>9, <3>3, ChunkUnderstood
    <3> QED BY <3>4 DEF a, Texts
  <2>2. k <= sent
    <3>1. k - 1 \in 0 .. Len(script) /\ Offset(Texts, k - 1) < Offset(Texts, sent)
      <4>1. k - 1 \in 0 .. Len(script) /\ Offset(Texts, sent) \in Nat
        BY <1>3, <1>4, <2>1
      <4>2. Taken + n <= Offset(Texts, sent) /\ n \in Nat \ {0} /\ Taken \in Nat
        BY <1>2, <1>3
      <4> QED BY <2>1, <4>1, <4>2
    <3> QED BY <1>3, <1>4, <3>1
  <2>3. \A i \in 1 .. m : place[i] < k
    <3> SUFFICES ASSUME NEW i \in 1 .. m PROVE place[i] < k
      OBVIOUS
    <3>1. place[i] \in 1 .. sent
      BY <1>5
    <3>2. place[i] - 1 \in 0 .. Len(script) /\ k - 1 \in 0 .. Len(script)
      BY <1>3, <1>4, <2>1, <3>1
    <3>3. Offset(Texts, place[i] - 1) < Offset(Texts, k - 1)
      BY <1>7, <2>1
    <3> QED BY <1>4, <3>1, <3>2, <3>3
  <2> HIDE DEF cmd, v
  <2>4. executed' = Append(executed, cmd) /\ cmd \in Means(k) /\ cmd \in AllMeanings
    BY <1>1, <1>9, <2>1 DEF Means, AllMeanings
  <2>5. /\ executed' \in Seq(AllMeanings) /\ Len(executed') = m + 1
        /\ (\A i \in 1 .. m : executed'[i] = executed[i]) /\ executed'[m + 1] = cmd
    BY <1>6, <2>4
  <2>a. PICK new : new = [i \in 1 .. m + 1 |-> IF i <= m THEN place[i] ELSE k]
    OBVIOUS
  <2>6. /\ \A i \in 1 .. m : new[i] = place[i]
        /\ new[m + 1] = k
        /\ \A i \in 1 .. m + 1 : i \in 1 .. m \/ i = m + 1
    BY <1>6, <2>a
  <2>7. new \in [1 .. m + 1 -> 1 .. sent]
    <3>1. k \in 1 .. sent /\ \A i \in 1 .. m : place[i] \in 1 .. sent
      BY <1>3, <1>4, <1>5, <2>1, <2>2
    <3> QED BY <1>6, <2>a, <3>1
  <2>8. k >= m + 1
    <3>1. CASE m = 0
      BY <2>1, <3>1
    <3>2. CASE m # 0
      <4>1. m \in 1 .. m
        BY <1>6, <3>2
      <4>2. place[m] \in 1 .. sent /\ place[m] >= m /\ place[m] < k
        BY <1>5, <1>7, <2>3, <4>1
      <4> QED BY <1>3, <1>6, <2>1, <4>2
    <3> QED BY <3>1, <3>2
  <2>9. \A i, j \in 1 .. m + 1 : i < j => new[i] < new[j]
    <3> SUFFICES ASSUME NEW i \in 1 .. m + 1, NEW j \in 1 .. m + 1, i < j PROVE new[i] < new[j]
      OBVIOUS
    <3>1. i \in 1 .. m /\ (j \in 1 .. m \/ j = m + 1)
      BY <1>6
    <3> QED BY <1>7, <2>3, <2>6, <3>1
  <2>10. \A i \in 1 .. m + 1 : new[i] >= i /\ executed'[i] \in Means(new[i])
                               /\ Offset(Texts, new[i] - 1) < Taken'
    <3> SUFFICES ASSUME NEW i \in 1 .. m + 1
                 PROVE  new[i] >= i /\ executed'[i] \in Means(new[i])
                        /\ Offset(Texts, new[i] - 1) < Taken'
      OBVIOUS
    <3>1. CASE i \in 1 .. m
      <4>1. new[i] = place[i] /\ place[i] - 1 \in 0 .. Len(script)
        BY <1>3, <1>4, <1>5, <2>6, <3>1, SMTT(60)
      <4>2. place[i] >= i /\ executed[i] \in Means(place[i]) /\ Offset(Texts, place[i] - 1) < Taken
        BY <1>7, <3>1
      <4>3. Offset(Texts, place[i] - 1) < Taken'
        BY <1>2, <1>3, <1>4, <4>1, <4>2
      <4> QED BY <2>5, <3>1, <4>1, <4>2, <4>3
    <3>2. CASE i = m + 1
      <4>1. new[i] = k /\ executed'[i] = cmd
        BY <2>5, <2>6, <3>2
      <4> QED BY <1>2, <1>3, <2>1, <2>4, <2>8, <3>2, <4>1
    <3> QED BY <2>6, <3>1, <3>2
  <2>11. InOrder(new)'
    BY <1>4, <1>6, <2>5, <2>9, <2>10 DEF InOrder
  <2> QED BY <1>1, <1>6, <2>5, <2>7, <2>11 DEF InPlace
<1> QED BY <1>8, <1>9

(* The effects of the requests, one behind the other.                      *)
Effects == [i \in 1 .. Len(script) |-> Effect(script[i])]

LEMMA NextEffect ==
  ASSUME Len(script) \in Nat, NEW k \in 0 .. Len(script) - 1
  PROVE  FlattenSeq([i \in 1 .. k + 1 |-> Effect(script[i])])
           = FlattenSeq([i \in 1 .. k |-> Effect(script[i])]) \o Effect(script[k + 1])
<1> DEFINE M == {script[i].means : i \in 1 .. Len(script)}
           E == Effects
           m == k + 1
<1>1. E \in [1 .. Len(script) -> Seq(M)]
  <2> SUFFICES ASSUME NEW i \in 1 .. Len(script) PROVE Effect(script[i]) \in Seq(M)
    BY DEF Effects
  <2>1. script[i].means \in M
    OBVIOUS
  <2> HIDE DEF M
  <2> QED BY <2>1 DEF Effect
<1>2. E \in Seq(Seq(M)) /\ Len(E) = Len(script)
  <2> HIDE DEF E, M
  <2> QED BY <1>1, TupleIsSeq
<1>3. \A i \in 1 .. Len(script) : E[i] = Effect(script[i])
  BY DEF Effects
<1> HIDE DEF E, M, m
<1>4. m \in 1 .. Len(script) /\ m = k + 1
  BY DEF m
<1>5. FlattenSeq([j \in 1 .. k + 1 |-> E[j]]) = FlattenSeq([j \in 1 .. k |-> E[j]]) \o E[k + 1]
  <2>1. k \in 0 .. Len(E) - 1
    BY <1>2
  <2> QED BY <1>2, <2>1, FlattenOneMore
<1>6. [j \in 1 .. k + 1 |-> E[j]] = [i \in 1 .. k + 1 |-> Effect(script[i])]
  BY <1>3
<1>7. [j \in 1 .. k |-> E[j]] = [i \in 1 .. k |-> Effect(script[i])]
  BY <1>3
<1>8. E[k + 1] = Effect(script[k + 1])
  BY <1>3, <1>4
<1> QED BY <1>5, <1>6, <1>7, <1>8

(* Requests that come one by one leave their effects.                      *)
LEMMA OneMoreByOne ==
  ASSUME NEW S, Symbols \subseteq S, Connected(S), InPlace, OneByOne, NEW n, Reads(n)
  PROVE  OneByOne'
<1> DEFINE v == FirstValue(n)
           cmd == CommandIn(v)
           chunk == SubSeq(toServer, 1, n)
           alone == served < Len(script) /\ chunk = script[served + 1].text
<1>1. /\ n \in 1 .. Len(toServer) /\ TakeChunk(n) /\ UNCHANGED <<script, sent>>
      /\ server' \in {"reading", "piped", "closed"}
      /\ executed' = IF ~ Failed(v) /\ Has(cmd) THEN Append(executed, cmd) ELSE executed
  BY DEF Reads
<1>2. /\ Taken' = Taken + n /\ n \in Nat \ {0}
      /\ Taken + n <= Offset(Texts, sent)
      /\ Len(chunk) = n
  BY <1>1, ChunkTaken
<1>3. /\ apart' = (apart /\ alone)
      /\ served' = IF apart /\ alone THEN served + 1 ELSE served
  BY <1>1 DEF TakeChunk
<1>4. /\ apart \in BOOLEAN /\ served \in 0 .. sent
      /\ apart => /\ Taken = Offset(Texts, served)
                  /\ executed = FlattenSeq([i \in 1 .. served |-> Effect(script[i])])
  BY DEF OneByOne
<1>5. /\ PlainScript(script, S) /\ sent \in 0 .. Len(script) /\ Taken \in Nat
  BY DEF Connected
<1>6. /\ Len(script) \in Nat /\ Texts' = Texts
      /\ \A i \in 0 .. Len(script) : Offset(Texts, i) \in Nat
      /\ \A i, j \in 0 .. Len(script) : i < j <=> Offset(Texts, i) < Offset(Texts, j)
      /\ \A i \in 1 .. Len(script) : Offset(Texts, i) = Offset(Texts, i - 1) + Len(script[i].text)
  <2>1. Texts' = Texts
    BY <1>1 DEF Texts
  <2> QED BY <1>5, <2>1, RequestOffsets
<1>7. CASE ~ (apart /\ alone)
  <2>1. apart' = FALSE /\ served' = served
    BY <1>3, <1>7
  <2> QED BY <1>1, <1>4, <2>1 DEF OneByOne
<1>8. CASE apart /\ alone
  <2> DEFINE k == served + 1
             r == script[k]
  <2>1. /\ k \in 1 .. Len(script) /\ k - 1 = served /\ k \in 0 .. Len(script)
        /\ served \in 0 .. Len(script) - 1
    BY <1>4, <1>5, <1>6, <1>8
  <2>2. chunk = r.text
    BY <1>8
  <2>3. apart' = TRUE /\ served' = k
    BY <1>3, <1>8
  <2>4. PlainRequest(r, S)
    BY <1>5, <2>1 DEF PlainScript
  <2> HIDE DEF k, r, chunk
  <2>5. Taken' = Offset(Texts, k)
    <3>1. Offset(Texts, k) = Offset(Texts, k - 1) + Len(script[k].text)
      BY <1>6, <2>1
    <3> QED BY <1>2, <1>4, <1>8, <2>1, <2>2, <3>1 DEF r
  <2>6. k \in 0 .. sent
    <3>1. ~ (sent < k)
      BY <1>2, <1>5, <1>6, <2>1, <2>5
    <3> QED BY <1>5, <2>1, <3>1
  <2>7. ~ Failed(v) /\ Understood(cmd) = r.means
    <3>1. v = Parse(r.text)
      BY <2>2 DEF FirstValue, chunk
    <3> HIDE DEF v
    <3> QED BY <2>4, <3>1, WholeUnderstood
  <2>8. executed' = executed \o Effect(r)
    <3> HIDE DEF cmd, v
    <3>a. executed \in Seq(AllMeanings)
      BY DEF InPlace
    <3>1. CASE Has(cmd)
      <4>1. cmd = r.means /\ cmd # NoCommand
        BY <2>7, <3>1 DEF Understood, Has
      <4>2. executed' = Append(executed, cmd) /\ Effect(r) = <<cmd>>
        BY <1>1, <2>7, <3>1, <4>1 DEF Effect
      <4>3. cmd \in AllMeanings
        BY <2>1, <4>1 DEF AllMeanings, Means, r
      <4>4. Append(executed, cmd) = executed \o <<cmd>>
        BY <3>a, <4>3
      <4> QED BY <4>2, <4>4
    <3>2. CASE ~ Has(cmd)
      <4>1. r.means = NoCommand
        BY <2>7, <3>2 DEF Understood
      <4>2. executed' = executed /\ Effect(r) = <<>>
        BY <1>1, <3>2, <4>1 DEF Effect
      <4>3. executed \o <<>> = executed
        BY <3>a, ConcatEmptySeq
      <4> QED BY <4>2, <4>3
    <3> QED BY <3>1, <3>2
  <2>9. executed' = FlattenSeq([i \in 1 .. k |-> Effect(script[i])])
    <3>1. FlattenSeq([i \in 1 .. served + 1 |-> Effect(script[i])])
            = FlattenSeq([i \in 1 .. served |-> Effect(script[i])]) \o Effect(script[served + 1])
      BY <1>6, <2>1, NextEffect
    <3>2. executed = FlattenSeq([i \in 1 .. served |-> Effect(script[i])])
      BY <1>4, <1>8
    <3> QED BY <2>8, <3>1, <3>2 DEF k, r
  <2>10. FlattenSeq([i \in 1 .. served |-> Effect(script[i])])'
           = FlattenSeq([i \in 1 .. k |-> Effect(script[i])])
    BY <1>1, <2>3
  <2> QED BY <1>1, <1>6, <2>3, <2>5, <2>6, <2>9, <2>10 DEF OneByOne
<1> QED BY <1>7, <1>8

-----------------------------------------------------------------------------
(* The handshake is a script like any other.                               *)
Words(ts, k) == [i \in 1 .. k |-> Bulk(ts[i])]

LEMMA WordsAre ==
  ASSUME NEW ts, NEW k \in Nat
  PROVE  /\ Len(Words(ts, k)) = k
         /\ \A i \in 1 .. k : IsBulk(Words(ts, k)[i]) /\ Words(ts, k)[i][2] = ts[i]
         /\ k = 0 => ~ StartsBulk(Words(ts, k))
         /\ k > 0 => /\ StartsBulk(Words(ts, k))
                     /\ Len(Tail(Words(ts, k))) = k - 1
                     /\ \A i \in 1 .. k - 1 : /\ IsBulk(Tail(Words(ts, k))[i])
                                              /\ Tail(Words(ts, k))[i][2] = ts[i + 1]
                     /\ StartsBulk(Tail(Words(ts, k))) <=> k > 1
         /\ k > 1 => /\ Len(Tail(Tail(Words(ts, k)))) = k - 2
                     /\ DOMAIN Tail(Tail(Words(ts, k))) = 1 .. k - 2
                     /\ \A i \in 1 .. k - 2 : /\ IsBulk(Tail(Tail(Words(ts, k)))[i])
                                              /\ Tail(Tail(Words(ts, k)))[i][2] = ts[i + 2]
                     /\ StartsBulk(Tail(Tail(Words(ts, k)))) <=> k > 2
<1> DEFINE vs == Words(ts, k)
           V == {Bulk(ts[i]) : i \in 1 .. k}
<1>1. vs \in Seq(V) /\ Len(vs) = k
  <2>1. vs \in [1 .. k -> V]
    BY DEF Words
  <2> HIDE DEF vs, V
  <2> QED BY <2>1, TupleIsSeq
<1>2. \A i \in 1 .. k : vs[i] = Bulk(ts[i])
  BY DEF Words
<1> HIDE DEF vs, V
<1>3. \A i \in 1 .. k : IsBulk(vs[i]) /\ vs[i][2] = ts[i]
  BY <1>2 DEF IsBulk, Bulk
<1>4. vs = <<>> <=> k = 0
  BY <1>1
<1>5. k > 0 => /\ Tail(vs) \in Seq(V) /\ Len(Tail(vs)) = k - 1
               /\ \A i \in 1 .. k - 1 : Tail(vs)[i] = vs[i + 1]
  BY <1>1, <1>4
<1> DEFINE us == Tail(vs)
<1> HIDE DEF us
<1>6. k > 0 => /\ us \in Seq(V) /\ Len(us) = k - 1 /\ (us = <<>> <=> k = 1)
               /\ \A i \in 1 .. k - 1 : us[i] = vs[i + 1]
  BY <1>5 DEF us
<1>7. k > 1 => /\ Tail(us) \in Seq(V) /\ Len(Tail(us)) = k - 2
               /\ \A i \in 1 .. k - 2 : Tail(us)[i] = us[i + 1]
  BY <1>6
<1> DEFINE rs == Tail(us)
<1> HIDE DEF rs
<1>8. k > 1 => /\ rs \in Seq(V) /\ Len(rs) = k - 2 /\ (rs = <<>> <=> k = 2)
               /\ \A i \in 1 .. k - 2 : rs[i] = us[i + 1]
  BY <1>7, SMTT(60) DEF rs
<1>b. k > 1 => DOMAIN rs = 1 .. k - 2
  <2> SUFFICES ASSUME k > 1 PROVE DOMAIN rs = 1 .. k - 2
    OBVIOUS
  <2> QED BY <1>8
<1>9. \A i \in 1 .. k - 1 : IsBulk(us[i]) /\ us[i][2] = ts[i + 1]
  <2> SUFFICES ASSUME NEW i \in 1 .. k - 1 PROVE IsBulk(us[i]) /\ us[i][2] = ts[i + 1]
    OBVIOUS
  <2>1. us[i] = vs[i + 1] /\ i + 1 \in 1 .. k
    BY <1>6
  <2> QED BY <1>3, <2>1
<1>10. \A i \in 1 .. k - 2 : IsBulk(rs[i]) /\ rs[i][2] = ts[i + 2]
  <2> SUFFICES ASSUME NEW i \in 1 .. k - 2 PROVE IsBulk(rs[i]) /\ rs[i][2] = ts[i + 2]
    OBVIOUS
  <2>1. rs[i] = us[i + 1] /\ i + 1 \in 1 .. k - 1 /\ (i + 1) + 1 = i + 2
    BY <1>8
  <2> QED BY <1>9, <2>1
<1>11. StartsBulk(vs) <=> k > 0
  BY <1>3, <1>4 DEF StartsBulk
<1>12. k > 0 => (StartsBulk(us) <=> k > 1)
  BY <1>6, <1>9 DEF StartsBulk
<1>13. k > 1 => (StartsBulk(rs) <=> k > 2)
  BY <1>8, <1>10 DEF StartsBulk
<1>14. /\ Len(vs) = k
       /\ \A i \in 1 .. k : IsBulk(vs[i]) /\ vs[i][2] = ts[i]
       /\ k = 0 => ~ StartsBulk(vs)
       /\ k > 0 => /\ StartsBulk(vs) /\ Len(us) = k - 1
                   /\ \A i \in 1 .. k - 1 : IsBulk(us[i]) /\ us[i][2] = ts[i + 1]
                   /\ StartsBulk(us) <=> k > 1
       /\ k > 1 => /\ Len(rs) = k - 2 /\ DOMAIN rs = 1 .. k - 2
                   /\ \A i \in 1 .. k - 2 : IsBulk(rs[i]) /\ rs[i][2] = ts[i + 2]
                   /\ StartsBulk(rs) <=> k > 2
  BY <1>1, <1>3, <1>6, <1>8, <1>9, <1>10, <1>11, <1>12, <1>13, <1>b
<1> QED BY <1>14 DEF us, rs, vs

(* The first word tells the command.                                       *)
LEMMA FirstWordTells ==
  ASSUME NEW vs, StartsBulk(vs)
  PROVE  /\ vs[1][2] = PingWord => ParseCommand(vs) = <<"ping">>
         /\ vs[1][2] = ReplconfWord => ParseCommand(vs) = ParseReplconf(Tail(vs))
         /\ vs[1][2] = PsyncWord => ParseCommand(vs) = ParsePsync(Tail(vs))
<1> DEFINE w == vs[1][2]
<1>1. w = PingWord => w \notin {SetWord, GetWord, EchoWord, ConfigWord, KeysWord, IncrWord}
  BY DEF PingWord, SetWord, GetWord, EchoWord, ConfigWord, KeysWord, IncrWord
<1>2. w = PingWord => w \notin {MultiWord, ExecWord, DiscardWord, InfoWord, ReplconfWord, PsyncWord}
  BY DEF PingWord, MultiWord, ExecWord, DiscardWord, InfoWord, ReplconfWord, PsyncWord
<1>3. w = ReplconfWord => w \notin {SetWord, GetWord, PingWord, EchoWord, ConfigWord, KeysWord}
  BY DEF ReplconfWord, SetWord, GetWord, PingWord, EchoWord, ConfigWord, KeysWord
<1>4. w = ReplconfWord => w \notin {IncrWord, MultiWord, ExecWord, DiscardWord, InfoWord, PsyncWord}
  BY DEF ReplconfWord, IncrWord, MultiWord, ExecWord, DiscardWord, InfoWord, PsyncWord
<1>5. w = PsyncWord => w \notin {SetWord, GetWord, PingWord, EchoWord, ConfigWord, KeysWord}
  BY DEF PsyncWord, SetWord, GetWord, PingWord, EchoWord, ConfigWord, KeysWord
<1>6. w = PsyncWord => w \notin {IncrWord, MultiWord, ExecWord, DiscardWord, InfoWord, ReplconfWord}
  BY DEF PsyncWord, IncrWord, MultiWord, ExecWord, DiscardWord, InfoWord, ReplconfWord
<1>7. w = PingWord => ParseCommand(vs) = <<"ping">>
  BY <1>1, <1>2 DEF ParseCommand
<1>8. w = ReplconfWord => ParseCommand(vs) = ParseReplconf(Tail(vs))
  BY <1>3, <1>4 DEF ParseCommand
<1>9. w = PsyncWord => ParseCommand(vs) = ParsePsync(Tail(vs))
  BY <1>5, <1>6 DEF ParseCommand
<1> QED BY <1>7, <1>8, <1>9

LEMMA OneUnderstood ==
  ASSUME NEW cmd
  PROVE  /\ cmd = NoCommand => Understood(cmd) = NoCommand
         /\ cmd # NoCommand /\ cmd[1] # "psync" => Understood(cmd) = cmd
         /\ cmd # NoCommand /\ cmd[2] = <<"no id">> => Understood(cmd) = cmd
BY DEF Understood, Has, WantsSnapshot

LEMMA MeaningIs ==
  ASSUME NEW ts, NEW k \in Nat
  PROVE  /\ Meaning(ts, k) = Understood(ParseCommand(Words(ts, k)))
         /\ k = 0 => Meaning(ts, k) = NoCommand
<1>1. Meaning(ts, k) = Understood(ParseCommand(Words(ts, k)))
  BY DEF Meaning, Words
<1>2. ASSUME k = 0 PROVE Meaning(ts, k) = NoCommand
  <2>1. ~ StartsBulk(Words(ts, k))
    BY <1>2, WordsAre
  <2>2. ParseCommand(Words(ts, k)) = NoCommand
    BY <2>1 DEF ParseCommand
  <2> QED BY <1>1, <2>2, OneUnderstood
<1> QED BY <1>1, <1>2

(* PING.                                                                   *)
LEMMA PingMeans ==
  ASSUME NEW ts, Len(ts) = 1, ts[1] = PingWord
  PROVE  /\ Meaning(ts, 1) = <<"ping">>
         /\ \A k \in 0 .. 1 : Meaning(ts, k) \in {NoCommand, <<"ping">>}
<1>1. StartsBulk(Words(ts, 1)) /\ Words(ts, 1)[1][2] = PingWord
  BY WordsAre
<1>2. ParseCommand(Words(ts, 1)) = <<"ping">>
  BY <1>1, FirstWordTells
<1>3. Meaning(ts, 1) = <<"ping">>
  <2>1. <<"ping">> # NoCommand /\ <<"ping">>[1] # "psync"
    BY DEF NoCommand
  <2>2. Meaning(ts, 1) = Understood(<<"ping">>)
    BY <1>2, MeaningIs
  <2> QED BY <2>1, <2>2, OneUnderstood
<1>4. Meaning(ts, 0) = NoCommand
  BY MeaningIs
<1>5. \A k \in 0 .. 1 : k = 0 \/ k = 1
  OBVIOUS
<1> QED BY <1>3, <1>4, <1>5

(* The beginnings of REPLCONF.                                             *)
LEMMA ReplconfMeans ==
  ASSUME NEW ts, ts[1] = ReplconfWord, NEW k \in 1 .. 3
  PROVE  /\ ParseCommand(Words(ts, k)) = ParseReplconf(Tail(Words(ts, k)))
         /\ k = 1 => Meaning(ts, k) = NoCommand
         /\ k > 1 => /\ ts[2] = ListeningPortWord =>
                          ParseCommand(Words(ts, k)) = ParseListeningPort(Tail(Tail(Words(ts, k))))
                     /\ ts[2] = CapaWord =>
                          ParseCommand(Words(ts, k)) = ParseCapa(Tail(Tail(Words(ts, k))))
<1> DEFINE vs == Words(ts, k)
           us == Tail(vs)
<1>1. /\ StartsBulk(vs) /\ vs[1][2] = ReplconfWord
      /\ StartsBulk(us) <=> k > 1
      /\ k > 1 => us[1][2] = ts[2]
  BY WordsAre
<1>a. Meaning(ts, k) = Understood(ParseCommand(vs))
  BY MeaningIs
<1> HIDE DEF vs
<1>2. ParseCommand(vs) = ParseReplconf(us)
  BY <1>1, FirstWordTells
<1> HIDE DEF us
<1>3. k = 1 => Meaning(ts, k) = NoCommand
  <2> SUFFICES ASSUME k = 1 PROVE Meaning(ts, k) = NoCommand
    OBVIOUS
  <2>1. ParseReplconf(us) = NoCommand
    BY <1>1 DEF ParseReplconf
  <2> QED BY <1>2, <1>a, <2>1, OneUnderstood
<1>4. ListeningPortWord \notin {CapaWord, GetackWord, AckWord}
  BY DEF ListeningPortWord, CapaWord, GetackWord, AckWord
<1>5. CapaWord \notin {ListeningPortWord, GetackWord, AckWord}
  BY DEF ListeningPortWord, CapaWord, GetackWord, AckWord
<1>6. k > 1 /\ ts[2] = ListeningPortWord => ParseReplconf(us) = ParseListeningPort(Tail(us))
  BY <1>1, <1>4 DEF ParseReplconf
<1>7. k > 1 /\ ts[2] = CapaWord => ParseReplconf(us) = ParseCapa(Tail(us))
  BY <1>1, <1>5 DEF ParseReplconf
<1> QED BY <1>2, <1>3, <1>6, <1>7 DEF us, vs

LEMMA PortMeans ==
  ASSUME NEW ts, NEW port, ts[1] = ReplconfWord, ts[2] = ListeningPortWord, ts[3] = port,
         NEW means,
         means = IF FitsPort(port) THEN <<"listening-port", IntOf(port)>> ELSE NoCommand
  PROVE  /\ Meaning(ts, 3) = means
         /\ \A k \in 0 .. 3 : Meaning(ts, k) \in {NoCommand, means}
<1>1. Meaning(ts, 0) = NoCommand
  BY MeaningIs
<1>2. Meaning(ts, 1) = NoCommand
  BY ReplconfMeans
<1>3. Meaning(ts, 2) = NoCommand
  <2>1. ParseCommand(Words(ts, 2)) = ParseListeningPort(Tail(Tail(Words(ts, 2))))
    BY ReplconfMeans
  <2>2. ~ StartsBulk(Tail(Tail(Words(ts, 2))))
    BY WordsAre
  <2>3. ParseCommand(Words(ts, 2)) = NoCommand
    BY <2>1, <2>2 DEF ParseListeningPort
  <2> QED BY <2>3, MeaningIs, OneUnderstood
<1>4. Meaning(ts, 3) = means
  <2>1. ParseCommand(Words(ts, 3)) = ParseListeningPort(Tail(Tail(Words(ts, 3))))
    BY ReplconfMeans
  <2> DEFINE rs == Tail(Tail(Words(ts, 3)))
  <2>2. StartsBulk(rs) /\ rs[1][2] = port
    <3>1. StartsBulk(rs) /\ rs[1][2] = ts[1 + 2]
      BY WordsAre
    <3>2. 1 + 2 = 3
      OBVIOUS
    <3> HIDE DEF rs
    <3> QED BY <3>1, <3>2
  <2>a. ParseCommand(Words(ts, 3)) = ParseListeningPort(rs)
    BY <2>1
  <2> HIDE DEF rs
  <2>3. ParseCommand(Words(ts, 3)) = means
    BY <2>a, <2>2 DEF ParseListeningPort
  <2>4. Meaning(ts, 3) = Understood(means)
    BY <2>3, MeaningIs
  <2>5. means # NoCommand => means[1] = "listening-port"
    OBVIOUS
  <2> QED BY <2>4, <2>5, OneUnderstood
<1>5. \A k \in 0 .. 3 : k = 0 \/ k = 1 \/ k = 2 \/ k = 3
  OBVIOUS
<1> QED BY <1>1, <1>2, <1>3, <1>4, <1>5

LEMMA FlattenNothing == FlattenSeq(<<>>) = <<>>
<1> DEFINE none == <<>>
<1>1. none \in Seq(Seq({})) /\ Len(none) = 0
  OBVIOUS
<1> HIDE DEF none
<1>2. FlattenSeq(none) = Joins(none)[0]
  BY <1>1, FlattenIsJoins
<1>3. AreJoins(Joins(none), none, 0)
  BY <1>1, JoinsExist
<1>4. Joins(none)[0] = <<>>
  BY <1>3 DEF AreJoins
<1> QED BY <1>2, <1>4 DEF none

LEMMA FlattenOne ==
  ASSUME NEW S, NEW w \in Seq(S)
  PROVE  FlattenSeq(<<w>>) = w
<1> DEFINE f == <<w>>
<1>1. f \in Seq(Seq(S)) /\ 0 \in 0 .. Len(f) - 1 /\ f[0 + 1] = w
  OBVIOUS
<1>2. [j \in 1 .. 0 + 1 |-> f[j]] = f
  OBVIOUS
<1>3. [j \in 1 .. 0 |-> f[j]] = <<>>
  OBVIOUS
<1> HIDE DEF f
<1>4. FlattenSeq([j \in 1 .. 0 + 1 |-> f[j]]) = FlattenSeq([j \in 1 .. 0 |-> f[j]]) \o f[0 + 1]
  BY <1>1, FlattenOneMore
<1>5. FlattenSeq(f) = <<>> \o w
  BY <1>1, <1>2, <1>3, <1>4, FlattenNothing
<1>6. <<>> \o w = w
  BY EmptySeq, ConcatEmptySeq
<1> QED BY <1>5, <1>6 DEF f

LEMMA CapaMeans ==
  ASSUME NEW ts, ts[1] = ReplconfWord, ts[2] = CapaWord, ts[3] = Psync2Word
  PROVE  /\ Meaning(ts, 3) = <<"capa", <<Psync2Word>> >>
         /\ \A k \in 0 .. 3 : Meaning(ts, k) \in {NoCommand, <<"capa", <<Psync2Word>> >>}
<1>1. Meaning(ts, 0) = NoCommand
  BY MeaningIs
<1>2. Meaning(ts, 1) = NoCommand
  BY ReplconfMeans
<1> DEFINE P == <<Psync2Word>>
           words == {EofWord, Psync2Word}
<1>3. ASSUME NEW k \in 2 .. 3
      PROVE  LET rs == Tail(Tail(Words(ts, k))) IN
             /\ ParseCommand(Words(ts, k)) = ParseCapa(rs)
             /\ AllBulk(rs) /\ DOMAIN rs = 1 .. k - 2
             /\ \A i \in 1 .. k - 2 : rs[i][2] = ts[i + 2]
  <2> DEFINE rs == Tail(Tail(Words(ts, k)))
  <2>1. k \in Nat /\ k > 1 /\ k \in 1 .. 3
    OBVIOUS
  <2>2. ParseCommand(Words(ts, k)) = ParseCapa(rs)
    BY <2>1, ReplconfMeans
  <2>3. DOMAIN rs = 1 .. k - 2 /\ \A i \in 1 .. k - 2 : IsBulk(rs[i]) /\ rs[i][2] = ts[i + 2]
    BY <2>1, WordsAre
  <2> HIDE DEF rs
  <2>4. AllBulk(rs)
    BY <2>3 DEF AllBulk
  <2>5. /\ ParseCommand(Words(ts, k)) = ParseCapa(rs)
        /\ AllBulk(rs) /\ DOMAIN rs = 1 .. k - 2
        /\ \A i \in 1 .. k - 2 : rs[i][2] = ts[i + 2]
    BY <2>2, <2>3, <2>4
  <2> QED BY <2>5 DEF rs
<1>4. Meaning(ts, 2) = NoCommand
  <2> DEFINE rs == Tail(Tail(Words(ts, 2)))
  <2>1. ParseCommand(Words(ts, 2)) = ParseCapa(rs) /\ DOMAIN rs = 1 .. 0
    BY <1>3
  <2> HIDE DEF rs
  <2>2. Known(rs, words) = <<>>
    <3>1. [i \in DOMAIN rs |-> IF rs[i][2] \in words THEN <<rs[i][2]>> ELSE <<>>] = <<>>
      BY <2>1
    <3> QED BY <3>1, FlattenNothing DEF Known
  <2>3. ParseCapa(rs) = NoCommand
    BY <2>2 DEF ParseCapa
  <2>4. Meaning(ts, 2) = Understood(NoCommand)
    BY <2>1, <2>3, MeaningIs
  <2> QED BY <2>4, OneUnderstood
<1>5. Meaning(ts, 3) = <<"capa", P>>
  <2> DEFINE rs == Tail(Tail(Words(ts, 3)))
  <2>1. ParseCommand(Words(ts, 3)) = ParseCapa(rs) /\ AllBulk(rs) /\ DOMAIN rs = 1 .. 1
        /\ \A i \in 1 .. 1 : rs[i][2] = ts[i + 2]
    BY <1>3
  <2>2. rs[1][2] = Psync2Word
    <3>1. 1 \in 1 .. 1 /\ 1 + 2 = 3
      OBVIOUS
    <3> HIDE DEF rs
    <3> QED BY <2>1, <3>1
  <2> HIDE DEF rs
  <2>3. Known(rs, words) = P
    <3>1. [i \in DOMAIN rs |-> IF rs[i][2] \in words THEN <<rs[i][2]>> ELSE <<>>] = <<P>>
      BY <2>1, <2>2
    <3>2. P \in Seq({Psync2Word})
      OBVIOUS
    <3> HIDE DEF P, words
    <3>3. FlattenSeq(<<P>>) = P
      BY <3>2, FlattenOne
    <3>4. Known(rs, words) = FlattenSeq(<<P>>)
      BY <3>1 DEF Known
    <3> QED BY <3>3, <3>4
  <2>4. ParseCapa(rs) = <<"capa", P>>
    <3>1. P # <<>>
      OBVIOUS
    <3> HIDE DEF P
    <3> QED BY <2>1, <2>3, <3>1, Zenon DEF ParseCapa
  <2> DEFINE cmd == <<"capa", P>>
  <2>5. Meaning(ts, 3) = Understood(cmd)
    BY <2>1, <2>4, MeaningIs
  <2>6. cmd # NoCommand /\ cmd[1] # "psync"
    BY DEF NoCommand
  <2> QED BY <2>5, <2>6, OneUnderstood
<1>6. \A k \in 0 .. 3 : k = 0 \/ k = 1 \/ k = 2 \/ k = 3
  OBVIOUS
<1> QED BY <1>1, <1>2, <1>4, <1>5, <1>6

LEMMA PsyncMeans ==
  ASSUME NEW ts, ts[1] = PsyncWord, ts[2] = <<"?">>, ts[3] = <<"-", "1">>
  PROVE  /\ Meaning(ts, 3) = <<"psync", <<"no id">>, <<"no offset">> >>
         /\ \A k \in 0 .. 3 : Meaning(ts, k) \in {NoCommand, <<"psync", <<"no id">>, <<"no offset">> >>}
<1>1. Meaning(ts, 0) = NoCommand
  BY MeaningIs
<1>2. ASSUME NEW k \in 1 .. 3
      PROVE  ParseCommand(Words(ts, k)) = ParsePsync(Tail(Words(ts, k)))
             /\ Len(Tail(Words(ts, k))) = k - 1
  <2>1. StartsBulk(Words(ts, k)) /\ Words(ts, k)[1][2] = PsyncWord /\ Len(Tail(Words(ts, k))) = k - 1
    BY WordsAre
  <2> QED BY <2>1, FirstWordTells
<1>3. ASSUME NEW k \in 1 .. 2 PROVE Meaning(ts, k) = NoCommand
  <2> DEFINE us == Tail(Words(ts, k))
  <2>a. k \in 1 .. 3 /\ k \in Nat /\ k - 1 < 2
    OBVIOUS
  <2>1. ParseCommand(Words(ts, k)) = ParsePsync(us) /\ Len(us) < 2 /\ k \in Nat
    <3>1. ParseCommand(Words(ts, k)) = ParsePsync(us) /\ Len(us) = k - 1
      BY <1>2, <2>a
    <3> QED BY <2>a, <3>1
  <2> HIDE DEF us
  <2>2. ParseCommand(Words(ts, k)) = NoCommand
    BY <2>1, Zenon DEF ParsePsync
  <2>3. Meaning(ts, k) = Understood(ParseCommand(Words(ts, k)))
    BY <2>1, MeaningIs
  <2> QED BY <2>2, <2>3, OneUnderstood
<1>4. Meaning(ts, 3) = <<"psync", <<"no id">>, <<"no offset">> >>
  <2> DEFINE us == Tail(Words(ts, 3))
  <2>1. /\ Len(us) = 2 /\ ParseCommand(Words(ts, 3)) = ParsePsync(us)
        /\ \A i \in 1 .. 2 : IsBulk(us[i]) /\ us[i][2] = ts[i + 1]
    BY <1>2, WordsAre
  <2>2. us[1][2] = <<"?">> /\ us[2][2] = <<"-", "1">> /\ IsBulk(us[1]) /\ IsBulk(us[2])
    BY <2>1
  <2> HIDE DEF us
  <2>3. AllBulk(SubSeq(us, 1, 2))
    <3>1. DOMAIN SubSeq(us, 1, 2) = 1 .. 2 /\ \A i \in 1 .. 2 : SubSeq(us, 1, 2)[i] = us[i]
      OBVIOUS
    <3> QED BY <2>1, <3>1 DEF AllBulk
  <2>4. Len(us[1][2]) # IdLength
    BY <2>2, IdLengthAssumption
  <2>5. ~ FitsU64(us[2][2])
    BY <2>2 DEF FitsU64
  <2>6. ParsePsync(us) = <<"psync", <<"no id">>, <<"no offset">> >>
    <3>1. ~ (Len(us) < 2)
      BY <2>1
    <3> QED BY <2>3, <2>4, <2>5, <3>1, Zenon DEF ParsePsync
  <2> DEFINE cmd == <<"psync", <<"no id">>, <<"no offset">> >>
  <2>7. Meaning(ts, 3) = Understood(cmd)
    BY <2>1, <2>6, MeaningIs, ZenonT(60)
  <2>8. cmd # NoCommand /\ cmd[2] = <<"no id">>
    BY DEF NoCommand
  <2> QED BY <2>7, <2>8, OneUnderstood
<1>5. \A k \in 0 .. 3 : k = 0 \/ k \in 1 .. 2 \/ k = 3
  OBVIOUS
<1> QED BY <1>1, <1>3, <1>4, <1>5

(* A word of one piece or of two.                                          *)
LEMMA PlainPair ==
  ASSUME NEW S, NEW a \in S, NEW b \in S, a \notin {"$", "*", "cr"}
  PROVE  /\ <<a, b>> \in Seq(S) /\ Plain(<<a, b>>) /\ Starless(<<a, b>>)
         /\ <<a>> \in Seq(S) /\ Plain(<<a>>) /\ Starless(<<a>>)
<1> DEFINE w == <<a, b>>
           v == <<a>>
<1>1. w \in Seq(S) /\ Len(w) = 2 /\ w[1] = a /\ v \in Seq(S) /\ Len(v) = 1
  OBVIOUS
<1> HIDE DEF w, v
<1>2. CountQoda(w) = 0 /\ CountQoda(v) = 0
  BY <1>1 DEF CountQoda
<1>3. NoBreak(w) /\ NoBreak(v)
  <2>1. \A i \in 1 .. 1 : i = 1
    OBVIOUS
  <2> QED BY <1>1, <2>1 DEF NoBreak
<1>4. Starless(w) /\ Starless(v)
  <2>1. \A i \in 1 .. 1 : i = 1
    OBVIOUS
  <2> QED BY <1>1, <2>1 DEF Starless
<1> QED BY <1>1, <1>2, <1>3, <1>4 DEF Plain, w, v

(* The characters and pieces the requests of the handshake, its answers    *)
(* and the feed are made of; S is any set that holds them.                 *)
Letters ==
  Symbols \cup {"pi", "ng", "repl", "conf", "listening-", "port", "ca", "pa", "psync", "ps", "ync", "?", "-"}
          \cup {"+", "PONG", "OK", "FULLRESYNC", "id", "0", "RED", "IS", "set"}

LEMMA HandshakeWords ==
  ASSUME NEW S, Letters \subseteq S
  PROVE  \A w \in {PingWord, ReplconfWord, ListeningPortWord, CapaWord, Psync2Word, PsyncWord,
                   <<"?">>, <<"-", "1">>} : w \in Seq(S) /\ Plain(w) /\ Starless(w)
<1>1. "1" \in S /\ "2" \in S
  BY DigitsAre DEF Letters, Symbols, DigitChars
<1>2. /\ "pi" \in S /\ "ng" \in S /\ "repl" \in S /\ "conf" \in S /\ "listening-" \in S /\ "port" \in S
      /\ "ca" \in S /\ "pa" \in S /\ "psync" \in S /\ "ps" \in S /\ "ync" \in S /\ "?" \in S /\ "-" \in S
  BY DEF Letters
<1>3. PingWord \in Seq(S) /\ Plain(PingWord) /\ Starless(PingWord)
  BY <1>2, PlainPair DEF PingWord
<1>4. ReplconfWord \in Seq(S) /\ Plain(ReplconfWord) /\ Starless(ReplconfWord)
  BY <1>2, PlainPair DEF ReplconfWord
<1>5. ListeningPortWord \in Seq(S) /\ Plain(ListeningPortWord) /\ Starless(ListeningPortWord)
  BY <1>2, PlainPair DEF ListeningPortWord
<1>6. CapaWord \in Seq(S) /\ Plain(CapaWord) /\ Starless(CapaWord)
  BY <1>2, PlainPair DEF CapaWord
<1>7. Psync2Word \in Seq(S) /\ Plain(Psync2Word) /\ Starless(Psync2Word)
  BY <1>1, <1>2, PlainPair DEF Psync2Word
<1>8. PsyncWord \in Seq(S) /\ Plain(PsyncWord) /\ Starless(PsyncWord)
  BY <1>2, PlainPair DEF PsyncWord
<1>9. <<"?">> \in Seq(S) /\ Plain(<<"?">>) /\ Starless(<<"?">>)
  BY <1>2, PlainPair
<1>10. <<"-", "1">> \in Seq(S) /\ Plain(<<"-", "1">>) /\ Starless(<<"-", "1">>)
  BY <1>1, <1>2, PlainPair
<1> QED BY <1>3, <1>4, <1>5, <1>6, <1>7, <1>8, <1>9, <1>10, Zenon

(* What is written of words that are plain is a request.                   *)
LEMMA ToSendIsPlain ==
  ASSUME NEW S, NEW ts, NEW m \in Nat, Len(ts) = m, ts \in [1 .. m -> Seq(S)],
         \A i \in 1 .. m : Plain(ts[i]) /\ Starless(ts[i]),
         NEW means, Meaning(ts, m) = means, \A k \in 0 .. m : Meaning(ts, k) \in {NoCommand, means}
  PROVE  PlainRequest(ToSend(ts, means), S)
<1> DEFINE r == ToSend(ts, means)
<1>1. r.text = ArrayText(ts) /\ r.means = means /\ r.short = {}
  BY DEF ToSend
<1> HIDE DEF r
<1>2. ts \in Seq(Seq(S))
  BY TupleIsSeq
<1>3. IsRequest(ts, S)
  BY <1>2 DEF IsRequest
<1>4. \A k \in 0 .. Len(ts) : Meaning(ts, k) \in {NoCommand, r.means} \cup r.short
  BY <1>1
<1>5. r.means = Meaning(ts, Len(ts))
  BY <1>1
<1>6. PlainRequest(r, S)
  BY <1>1, <1>3, <1>4, <1>5 DEF PlainRequest
<1> QED BY <1>6 DEF r

LEMMA HandshakeIs ==
  ASSUME NEW port
  PROVE  /\ Len(Handshake(port)) = 4 /\ DOMAIN Handshake(port) = 1 .. 4
         /\ Handshake(port)[1] = ToSend(<<PingWord>>, <<"ping">>)
         /\ Handshake(port)[2] = ToSend(<<ReplconfWord, ListeningPortWord, port>>,
              IF FitsPort(port) THEN <<"listening-port", IntOf(port)>> ELSE NoCommand)
         /\ Handshake(port)[3] = ToSend(<<ReplconfWord, CapaWord, Psync2Word>>, <<"capa", <<Psync2Word>> >>)
         /\ Handshake(port)[4] = ToSend(<<PsyncWord, <<"?">>, <<"-", "1">> >>,
                                        <<"psync", <<"no id">>, <<"no offset">> >>)
BY DEF Handshake

LEMMA HandshakeIsPlain ==
  ASSUME NEW S, Letters \subseteq S, NEW port, PlainPort(port, S)
  PROVE  PlainScript(Handshake(port), S)
<1>1. port \in Seq(S) /\ Plain(port) /\ Starless(port)
  BY DEF PlainPort
<1>2. \A w \in {PingWord, ReplconfWord, ListeningPortWord, CapaWord, Psync2Word, PsyncWord,
                <<"?">>, <<"-", "1">>} : w \in Seq(S) /\ Plain(w) /\ Starless(w)
  BY HandshakeWords
<1>3. PlainRequest(ToSend(<<PingWord>>, <<"ping">>), S)
  <2> DEFINE ts == <<PingWord>>
  <2>1. Len(ts) = 1 /\ ts[1] = PingWord /\ ts \in [1 .. 1 -> Seq(S)]
    <3>1. PingWord \in Seq(S)
      BY <1>2
    <3> QED BY <3>1
  <2> HIDE DEF ts
  <2>2. \A i \in 1 .. 1 : Plain(ts[i]) /\ Starless(ts[i])
    BY <1>2, <2>1
  <2>3. Meaning(ts, 1) = <<"ping">> /\ \A k \in 0 .. 1 : Meaning(ts, k) \in {NoCommand, <<"ping">>}
    BY <2>1, PingMeans
  <2>4. PlainRequest(ToSend(ts, <<"ping">>), S)
    BY <2>1, <2>2, <2>3, ToSendIsPlain
  <2> QED BY <2>4 DEF ts
<1>4. ASSUME NEW ts, NEW a \in Seq(S), NEW b \in Seq(S), NEW c \in Seq(S), ts = <<a, b, c>>,
             Plain(a), Starless(a), Plain(b), Starless(b), Plain(c), Starless(c),
             NEW means, Meaning(ts, 3) = means, \A k \in 0 .. 3 : Meaning(ts, k) \in {NoCommand, means}
      PROVE  PlainRequest(ToSend(ts, means), S)
  <2>1. Len(ts) = 3 /\ ts \in [1 .. 3 -> Seq(S)] /\ ts[1] = a /\ ts[2] = b /\ ts[3] = c
    BY <1>4
  <2>2. \A i \in 1 .. 3 : i = 1 \/ i = 2 \/ i = 3
    OBVIOUS
  <2>3. \A i \in 1 .. 3 : Plain(ts[i]) /\ Starless(ts[i])
    BY <1>4, <2>1, <2>2
  <2> QED BY <1>4, <2>1, <2>3, ToSendIsPlain
<1>5. PlainRequest(ToSend(<<ReplconfWord, ListeningPortWord, port>>,
            IF FitsPort(port) THEN <<"listening-port", IntOf(port)>> ELSE NoCommand), S)
  <2> DEFINE ts == <<ReplconfWord, ListeningPortWord, port>>
             means == IF FitsPort(port) THEN <<"listening-port", IntOf(port)>> ELSE NoCommand
  <2>1. ts[1] = ReplconfWord /\ ts[2] = ListeningPortWord /\ ts[3] = port
    OBVIOUS
  <2>a. means = IF FitsPort(port) THEN <<"listening-port", IntOf(port)>> ELSE NoCommand
    OBVIOUS
  <2>b. ts = <<ReplconfWord, ListeningPortWord, port>>
    OBVIOUS
  <2> HIDE DEF ts, means
  <2>2. Meaning(ts, 3) = means /\ \A k \in 0 .. 3 : Meaning(ts, k) \in {NoCommand, means}
    BY <2>1, <2>a, PortMeans
  <2>3. PlainRequest(ToSend(ts, means), S)
    BY <1>1, <1>2, <1>4, <2>b, <2>2
  <2> QED BY <2>3 DEF ts, means
<1>6. PlainRequest(ToSend(<<ReplconfWord, CapaWord, Psync2Word>>, <<"capa", <<Psync2Word>> >>), S)
  <2> DEFINE ts == <<ReplconfWord, CapaWord, Psync2Word>>
             means == <<"capa", <<Psync2Word>> >>
  <2>1. ts[1] = ReplconfWord /\ ts[2] = CapaWord /\ ts[3] = Psync2Word
    OBVIOUS
  <2>b. ts = <<ReplconfWord, CapaWord, Psync2Word>>
    OBVIOUS
  <2> HIDE DEF ts
  <2>2. Meaning(ts, 3) = means /\ \A k \in 0 .. 3 : Meaning(ts, k) \in {NoCommand, means}
    BY <2>1, CapaMeans
  <2> HIDE DEF means
  <2>3. PlainRequest(ToSend(ts, means), S)
    BY <1>2, <1>4, <2>b, <2>2
  <2> QED BY <2>3 DEF ts, means
<1>7. PlainRequest(ToSend(<<PsyncWord, <<"?">>, <<"-", "1">> >>,
                          <<"psync", <<"no id">>, <<"no offset">> >>), S)
  <2> DEFINE q == <<"?">>
             o == <<"-", "1">>
             ts == <<PsyncWord, q, o>>
             means == <<"psync", <<"no id">>, <<"no offset">> >>
  <2>1. ts[1] = PsyncWord /\ ts[2] = <<"?">> /\ ts[3] = <<"-", "1">>
    OBVIOUS
  <2>b. ts = <<PsyncWord, q, o>>
    OBVIOUS
  <2> HIDE DEF ts
  <2>2. Meaning(ts, 3) = means /\ \A k \in 0 .. 3 : Meaning(ts, k) \in {NoCommand, means}
    BY <2>1, PsyncMeans
  <2>c. /\ q \in Seq(S) /\ Plain(q) /\ Starless(q)
        /\ o \in Seq(S) /\ Plain(o) /\ Starless(o)
        /\ PsyncWord \in Seq(S) /\ Plain(PsyncWord) /\ Starless(PsyncWord)
    BY <1>2
  <2> HIDE DEF means, q, o
  <2>3. PlainRequest(ToSend(ts, means), S)
    BY <1>4, <2>b, <2>c, <2>2
  <2> QED BY <2>3 DEF ts, means, q, o
<1>8. \A i \in 1 .. 4 : i = 1 \/ i = 2 \/ i = 3 \/ i = 4
  OBVIOUS
<1>9. \A i \in 1 .. 4 : PlainRequest(Handshake(port)[i], S)
  <2> SUFFICES ASSUME NEW i \in 1 .. 4 PROVE PlainRequest(Handshake(port)[i], S)
    OBVIOUS
  <2>1. CASE i = 1
    BY <1>3, <2>1, HandshakeIs
  <2>2. CASE i = 2
    BY <1>5, <2>2, HandshakeIs
  <2>3. CASE i = 3
    BY <1>6, <2>3, HandshakeIs
  <2>4. CASE i = 4
    BY <1>7, <2>4, HandshakeIs
  <2> QED BY <1>8, <2>1, <2>2, <2>3, <2>4
<1>10. Len(Handshake(port)) = 4
  BY HandshakeIs
<1> QED BY <1>9, <1>10 DEF PlainScript

-----------------------------------------------------------------------------
(* The steps of a connection.                                              *)
LEMMA SessionUndisturbed ==
  ASSUME NEW S, SessionInv(S), UNCHANGED <<script, sent, toServer, executed, apart, served>>,
         server' \in {"reading", "piped", "closed"}
  PROVE  SessionInv(S)' /\ Taken' = Taken
<1>1. Texts' = Texts /\ Taken' = Taken
  BY DEF Texts, Taken
<1>2. Connected(S)'
  BY <1>1 DEF SessionInv, Connected
<1>3. InPlace'
  <2>1. AllMeanings' = AllMeanings /\ \A k : Means(k)' = Means(k)
    BY DEF AllMeanings, Means
  <2>2. executed \in Seq(AllMeanings)
    BY DEF SessionInv, InPlace
  <2>3. PICK place \in [1 .. Len(executed) -> 1 .. sent] : InOrder(place)
    BY DEF SessionInv, InPlace
  <2>4. InOrder(place)'
    BY <1>1, <2>1, <2>3 DEF InOrder
  <2> QED BY <2>1, <2>2, <2>3, <2>4 DEF InPlace
<1>4. OneByOne'
  BY <1>1 DEF SessionInv, OneByOne
<1> QED BY <1>1, <1>2, <1>3, <1>4 DEF SessionInv

LEMMA SessionWritten ==
  ASSUME NEW S, Symbols \subseteq S, SessionInv(S), sent < Len(script), sent' = sent + 1,
         toServer' = toServer \o script[sent + 1].text,
         UNCHANGED <<script, server, executed, apart, served>>
  PROVE  SessionInv(S)' /\ Taken' = Taken
<1>1. Connected(S)' /\ Taken' = Taken
  BY RequestWritten DEF SessionInv
<1>2. Texts' = Texts /\ sent \in 0 .. Len(script) /\ Len(script) \in Nat
  BY DEF SessionInv, Connected, PlainScript, Texts
<1>3. InPlace'
  <2>1. AllMeanings' = AllMeanings /\ \A k : Means(k)' = Means(k)
    BY DEF AllMeanings, Means
  <2>2. executed \in Seq(AllMeanings)
    BY DEF SessionInv, InPlace
  <2>3. PICK place \in [1 .. Len(executed) -> 1 .. sent] : InOrder(place)
    BY DEF SessionInv, InPlace
  <2>4. InOrder(place)'
    BY <1>1, <1>2, <2>1, <2>3 DEF InOrder
  <2>5. place \in [1 .. Len(executed) -> 1 .. sent + 1]
    BY <1>2, <2>3
  <2> QED BY <2>1, <2>2, <2>4, <2>5 DEF InPlace
<1>4. OneByOne'
  <2>1. /\ apart \in BOOLEAN /\ served \in 0 .. sent
        /\ apart => /\ Taken = Offset(Texts, served)
                    /\ executed = FlattenSeq([i \in 1 .. served |-> Effect(script[i])])
    BY DEF SessionInv, OneByOne
  <2>2. served \in 0 .. sent + 1
    BY <1>2, <2>1
  <2> QED BY <1>1, <1>2, <2>1, <2>2 DEF OneByOne
<1> QED BY <1>1, <1>3, <1>4 DEF SessionInv

LEMMA SessionReads ==
  ASSUME NEW S, Symbols \subseteq S, SessionInv(S), NEW n, Reads(n)
  PROVE  SessionInv(S)' /\ Taken' = Taken + n /\ n \in Nat \ {0}
<1>1. Connected(S) /\ InPlace /\ OneByOne
  BY DEF SessionInv
<1>2. InPlace'
  BY <1>1, OneMoreInPlace
<1>3. OneByOne'
  BY <1>1, OneMoreByOne
<1>4. Connected(S)' /\ Taken' = Taken + n /\ n \in Nat \ {0}
  BY <1>1, ChunkTaken DEF Reads
<1> QED BY <1>2, <1>3, <1>4 DEF SessionInv

(* What is asked of the program's surroundings: plain clients send plain   *)
(* requests, and a port, if one is given, is a plain word.                 *)
PlainInputs(S) ==
  /\ \A s \in Scripts : PlainScript(s, S)
  /\ \A line \in CommandLines : line.port = NotGiven \/ PlainPort(line.port, S)

LEMMA PlainPorts ==
  ASSUME NEW S, Letters \subseteq S, PlainInputs(S), NEW line \in CommandLines
  PROVE  PlainPort(Port(line), S)
<1> DEFINE p == <<"6", "3", "7", "9">>
<1>1. PlainPort(p, S)
  <2>1. "6" \in S /\ "3" \in S /\ "7" \in S /\ "9" \in S
    BY DigitsAre DEF Letters, Symbols, DigitChars
  <2>2. p \in Seq(S) /\ Len(p) = 4 /\ p[1] = "6" /\ p[2] = "3" /\ p[3] = "7" /\ p[4] = "9"
    BY <2>1
  <2> HIDE DEF p
  <2>3. \A i \in 1 .. 3 : i = 1 \/ i = 2 \/ i = 3
    OBVIOUS
  <2>4. \A i \in 1 .. 3 : p[i] # "cr" /\ p[i] # "*"
    BY <2>2, <2>3
  <2>5. Plain(p)
    BY <2>2, <2>4 DEF Plain, NoBreak, CountQoda
  <2>6. Starless(p)
    BY <2>2, <2>4 DEF Starless
  <2> QED BY <2>2, <2>5, <2>6 DEF PlainPort
<1> QED BY <1>1 DEF PlainInputs, Port

LEMMA SessionStart ==
  ASSUME NEW S, Letters \subseteq S, PlainInputs(S), Init
  PROVE  SessionInv(S) /\ Taken = 0
<1>1. PlainScript(script, S)
  <2>1. CASE options \in CommandLines /\ script = Handshake(Port(options))
    BY <2>1, PlainPorts, HandshakeIsPlain
  <2>2. CASE script \in Scripts
    BY <2>2 DEF PlainInputs
  <2> QED BY <2>1, <2>2 DEF Init
<1>2. /\ sent = 0 /\ toServer = <<>> /\ server = "reading" /\ executed = <<>>
      /\ apart = TRUE /\ served = 0
  BY DEF Init, SessionInit
<1>3. /\ Offset(Texts, 0) = 0 /\ Len(script) \in Nat /\ FlattenSeq(Texts) \in Seq(S)
  BY <1>1, RequestOffsets DEF Letters
<1>4. Taken = 0
  BY <1>2, <1>3 DEF Taken
<1>5. Connected(S)
  <2>1. SubSeq(FlattenSeq(Texts), 1, 0) = <<>>
    BY <1>3
  <2> QED BY <1>1, <1>2, <1>3, <1>4, <2>1 DEF Connected
<1>6. InPlace
  <2>1. Len(executed) = 0 /\ executed \in Seq(AllMeanings)
    BY <1>2
  <2>2. PICK place : place = [i \in 1 .. 0 |-> 1]
    OBVIOUS
  <2>3. place \in [1 .. Len(executed) -> 1 .. sent]
    BY <2>1, <2>2
  <2>4. InOrder(place)
    BY <2>1 DEF InOrder
  <2> QED BY <2>1, <2>3, <2>4 DEF InPlace
<1>7. OneByOne
  <2>1. [i \in 1 .. 0 |-> Effect(script[i])] = <<>>
    OBVIOUS
  <2> QED BY <1>2, <1>3, <1>4, <2>1, FlattenNothing DEF OneByOne
<1> QED BY <1>4, <1>5, <1>6, <1>7 DEF SessionInv

(* Where main is, and how far it is with its requests.                     *)
Control ==
  /\ main \in Places
  /\ role \in {"Master", "Slave"}
  /\ link \in {"none", "started", "gone"}
  /\ link = "started" => main \in {"load", "bind", "listening"}
  /\ main # "client" => script = Handshake(Port(options))
  /\ main = "start" => sent = 0 /\ role = "Master"
  /\ main = "write" => sent \in 0 .. 3
  /\ main = "read" => sent \in 1 .. 3
  /\ main \in {"line", "length", "payload", "spawn"} => sent = 4
  /\ main \in {"write", "read", "line", "length", "payload", "spawn"} => role = "Slave"
  /\ main \in {"load", "bind", "listening"} => sent = IF role = "Slave" THEN 4 ELSE 0

LEMMA ScriptLength ==
  ASSUME Control, main # "client"
  PROVE  Len(script) = 4
BY HandshakeIs DEF Control

(* The steps of main, but for the one that writes, move it on.             *)
LEMMA ControlMoves ==
  ASSUME Control, Main, ~ WriteRequest
  PROVE  Control' /\ UNCHANGED <<script, sent, toServer, server, executed, feed, apart, served, options>>
<1>1. /\ main \in Places /\ role \in {"Master", "Slave"} /\ link \in {"none", "started", "gone"}
      /\ link = "started" => main \in {"load", "bind", "listening"}
      /\ main # "client" => script = Handshake(Port(options))
      /\ main = "start" => sent = 0 /\ role = "Master"
      /\ main = "write" => sent \in 0 .. 3
      /\ main = "read" => sent \in 1 .. 3
      /\ main \in {"line", "length", "payload", "spawn"} => sent = 4
      /\ main \in {"write", "read", "line", "length", "payload", "spawn"} => role = "Slave"
      /\ main \in {"load", "bind", "listening"} => sent = IF role = "Slave" THEN 4 ELSE 0
  BY DEF Control
<1>2. CASE BeMaster
  BY <1>1, <1>2 DEF BeMaster, Moves, Control, Places, Ended, channel, task
<1>3. CASE Connect \/ NoAddress
  <2>1. /\ main = "start" /\ main' \in {"returned", "write"} /\ role' = "Slave"
        /\ UNCHANGED <<script, sent, channel, task, options, need, link>>
    BY <1>3 DEF Connect, NoAddress, Moves
  <2> QED BY <1>1, <2>1 DEF Control, Places, Ended, channel, task
<1>4. CASE WriteFails
  BY <1>1, <1>4 DEF WriteFails, Moves, Control, Places, Ended, channel, task
<1>5. CASE ReadAnswer
  <2>1. /\ main = "read" /\ main' \in {"failed", "write"}
        /\ UNCHANGED <<script, sent, toServer, task, options, role, need, link>>
    BY <1>5 DEF ReadAnswer
  <2> QED BY <1>1, <2>1 DEF Control, Places, Ended, task
<1>6. CASE ReadResync
  <2>1. /\ main = "line" /\ main' \in {"failed", "length"}
        /\ UNCHANGED <<script, sent, toServer, task, options, role, need, link>>
    BY <1>6 DEF ReadResync
  <2> QED BY <1>1, <2>1 DEF Control, Places, Ended, task
<1>7. CASE ReadLength
  <2>1. /\ main = "length" /\ main' \in {"failed", "payload"}
        /\ UNCHANGED <<script, sent, toServer, task, options, role, link>>
    BY <1>7 DEF ReadLength
  <2> QED BY <1>1, <2>1 DEF Control, Places, Ended, task
<1>8. CASE ReadPayload \/ PayloadCut
  BY <1>1, <1>8 DEF ReadPayload, PayloadCut, Moves, Control, Places, Ended, channel, task
<1>9. CASE Spawn
  <2>1. /\ main = "spawn" /\ main' = "load" /\ link' = "started"
        /\ UNCHANGED <<script, sent, channel, task, options, role, need>>
    BY <1>9 DEF Spawn, Moves
  <2> QED BY <1>1, <2>1 DEF Control, Places, Ended, channel, task
<1>10. CASE Load \/ LoadFails
  BY <1>1, <1>10 DEF Load, LoadFails, GoneWith, Moves, Control, Places, Ended, channel, task
<1>11. CASE Bind \/ BindFails
  BY <1>1, <1>11 DEF Bind, BindFails, GoneWith, Moves, Control, Places, Ended, channel, task
<1> QED BY <1>2, <1>3, <1>4, <1>5, <1>6, <1>7, <1>8, <1>9, <1>10, <1>11 DEF Main, BeReplica

(* It writes a request.                                                    *)
LEMMA ControlWrites ==
  ASSUME Control, WriteRequest
  PROVE  /\ Control' /\ main = "write" /\ sent < Len(script) /\ Len(script) = 4
         /\ sent' = sent + 1 /\ toServer' = toServer \o script[sent + 1].text
         /\ main' \in {"read", "line"}
         /\ UNCHANGED <<script, toClient, server, executed, feed, apart, served, options, role, need, link>>
<1>1. /\ main = "write" /\ sent' = sent + 1 /\ toServer' = toServer \o script[sent + 1].text
      /\ main' = IF sent + 1 = Len(script) THEN "line" ELSE "read"
      /\ UNCHANGED <<script, toClient, server, executed, feed, apart, served, options, role, need, link>>
  BY DEF WriteRequest, task
<1>2. sent \in 0 .. 3 /\ Len(script) = 4
  BY <1>1, ScriptLength DEF Control
<1>3. Control'
  BY <1>1, <1>2 DEF Control, Places, Ended
<1> QED BY <1>1, <1>2, <1>3

(* The other end never moves main.                                         *)
LEMMA ControlStands ==
  ASSUME Control, UNCHANGED process, script' = script, main # "client" => sent' = sent
  PROVE  Control'
BY DEF Control, process

(* Every step is a chunk that is read, a request that is written, or does  *)
(* not touch what the server executes.                                     *)
LEMMA MainSteps ==
  ASSUME NEW S, Letters \subseteq S, SessionInv(S), Control, Main
  PROVE  SessionInv(S)' /\ Control' /\ Taken' = Taken
<1>1. Symbols \subseteq S
  BY DEF Letters
<1>2. CASE WriteRequest
  <2>1. /\ Control' /\ sent < Len(script)
        /\ sent' = sent + 1 /\ toServer' = toServer \o script[sent + 1].text
        /\ UNCHANGED <<script, server, executed, apart, served>>
    BY <1>2, ControlWrites
  <2> QED BY <1>1, <2>1, SessionWritten
<1>3. CASE ~ WriteRequest
  <2>1. Control' /\ UNCHANGED <<script, sent, toServer, executed, apart, served>> /\ server' = server
    BY <1>3, ControlMoves
  <2>2. server \in {"reading", "piped", "closed"}
    BY DEF SessionInv, Connected
  <2> QED BY <2>1, <2>2, SessionUndisturbed
<1> QED BY <1>2, <1>3

LEMMA ClientSteps ==
  ASSUME NEW S, Letters \subseteq S, SessionInv(S), Control, Client
  PROVE  SessionInv(S)' /\ Control'
<1>1. /\ main = "client" /\ sent < Len(script) /\ sent' = sent + 1
      /\ toServer' = toServer \o script[sent + 1].text
      /\ UNCHANGED <<script, server, executed, apart, served>>
      /\ UNCHANGED process
  BY DEF Client, Request, task
<1>2. Symbols \subseteq S
  BY DEF Letters
<1> QED BY <1>1, <1>2, SessionWritten, ControlStands

(* What the master does but read.                                          *)
LEMMA MasterElse ==
  ASSUME Master, ~ Serve
  PROVE  /\ server' \in {"reading", "piped", "closed"}
         /\ UNCHANGED <<script, sent, toServer, executed, apart, served>> /\ UNCHANGED process
<1>1. CASE Forward
  BY <1>1 DEF Forward, Master
<1>2. CASE ServerEnds
  BY <1>2 DEF ServerEnds, Master
<1>3. CASE Closes
  BY <1>3 DEF Closes, EndOfStream, Master, channel
<1> QED BY <1>1, <1>2, <1>3 DEF Master

LEMMA MasterSteps ==
  ASSUME NEW S, Letters \subseteq S, SessionInv(S), Control, Master
  PROVE  SessionInv(S)' /\ Control'
<1>1. CASE Serve
  <2>1. PICK n \in 1 .. Len(toServer) : Reads(n)
    BY <1>1, ServeReads
  <2>2. SessionInv(S)'
    BY <2>1, SessionReads DEF Letters
  <2>3. UNCHANGED <<script, sent>> /\ UNCHANGED process
    BY <1>1 DEF Serve, Master
  <2> QED BY <2>2, <2>3, ControlStands
<1>2. CASE ~ Serve
  <2>1. /\ server' \in {"reading", "piped", "closed"}
        /\ UNCHANGED <<script, sent, toServer, executed, apart, served>> /\ UNCHANGED process
    BY <1>2, MasterElse
  <2> QED BY <2>1, SessionUndisturbed, ControlStands
<1> QED BY <1>1, <1>2

LEMMA Stuttering ==
  ASSUME NEW S, SessionInv(S), Control, UNCHANGED vars
  PROVE  SessionInv(S)' /\ Control'
<1>1. /\ UNCHANGED <<script, sent, toServer, executed, apart, served>> /\ server' = server
      /\ UNCHANGED process
  BY DEF vars, channel, task
<1>2. server \in {"reading", "piped", "closed"}
  BY DEF SessionInv, Connected
<1> QED BY <1>1, <1>2, SessionUndisturbed, ControlStands

LEMMA ControlStart ==
  ASSUME Init
  PROVE  Control
BY DEF Init, SessionInit, Control, Places, Ended

(* However TCP cuts what a process or a client sends, the invariant of the *)
(* connection holds.                                                       *)
LEMMA ConnectionKept ==
  ASSUME NEW S, Letters \subseteq S, PlainInputs(S)
  PROVE  FairSpec => [](SessionInv(S) /\ Control)
<1>1. Init => SessionInv(S) /\ Control
  BY SessionStart, ControlStart
<1>2. (SessionInv(S) /\ Control) /\ [Next]_vars => (SessionInv(S) /\ Control)'
  <2> SUFFICES ASSUME SessionInv(S), Control, [Next]_vars
               PROVE  SessionInv(S)' /\ Control'
    OBVIOUS
  <2>1. CASE Main
    BY <2>1, MainSteps
  <2>2. CASE Client
    BY <2>2, ClientSteps
  <2>3. CASE Master
    BY <2>3, MasterSteps
  <2>4. CASE UNCHANGED vars
    BY <2>4, Stuttering
  <2> QED BY <2>1, <2>2, <2>3, <2>4 DEF Next
<1> QED BY <1>1, <1>2, PTL DEF FairSpec

(* src/main.rs:314-330, src/parser.rs, src/command_parser.rs:60: however   *)
(* TCP cuts and joins what a client sends, whatever plain requests it      *)
(* sends and as many as it likes, every command the server executes is one *)
(* the client sent, in their order and at most once, but for what may be   *)
(* missing at its end.                                                     *)
THEOREM NothingIsMadeUp ==
  ASSUME NEW S, Letters \subseteq S, PlainInputs(S)
  PROVE  FairSpec => []NothingMadeUp
<1>1. SessionInv(S) => NothingMadeUp
  <2> SUFFICES ASSUME SessionInv(S) PROVE NothingMadeUp
    OBVIOUS
  <2>1. executed \in Seq(AllMeanings)
    BY DEF SessionInv, InPlace
  <2>2. PICK place \in [1 .. Len(executed) -> 1 .. sent] : InOrder(place)
    BY DEF SessionInv, InPlace
  <2>3. DOMAIN executed = 1 .. Len(executed)
    BY <2>1
  <2> QED BY <2>2, <2>3 DEF NothingMadeUp, InOrder, Means
<1> QED BY <1>1, ConnectionKept, PTL

(* src/command_parser.rs:60-443: of requests that arrive one by one, each  *)
(* is executed as what it means, for all plain requests.                   *)
THEOREM OneByOneUnderstood ==
  ASSUME NEW S, Letters \subseteq S, PlainInputs(S)
  PROVE  FairSpec => []UnderstoodAsMeant
<1>1. SessionInv(S) => UnderstoodAsMeant
  BY DEF SessionInv, OneByOne, UnderstoodAsMeant
<1> QED BY <1>1, ConnectionKept, PTL

-----------------------------------------------------------------------------
(* The handshake.  What the master has said, and main has not read yet, is *)
(* a text, or what is left of it when the connection ends.                 *)
Beginning(x, text, S) ==
  x \in Seq(S) /\ text \in Seq(S) /\ Len(x) <= Len(text) /\ \A i \in 1 .. Len(x) : x[i] = text[i]

Said(x, end, text, S) ==
  /\ Beginning(x, text, S)
  /\ end # "closed" => x = text

Reply(i) == IF i = 1 THEN Pong ELSE Ok

Dialogue(S) ==
  /\ main \in {"start", "write"} => Len(executed) = sent /\ Said(toClient, server, <<>>, S)
  /\ main = "read" => Said(toClient, server, IF Len(executed) = sent THEN Reply(sent) ELSE <<>>, S)
  /\ main = "line" =>
       Said(toClient, server,
            IF Len(executed) = sent THEN FullResync \o (SnapshotText \o feed) ELSE <<>>, S)
  /\ main = "length" => Len(executed) = sent /\ Said(toClient, server, SnapshotText \o feed, S)
  /\ main = "payload" => Len(executed) = sent /\ Said(toClient, server, Snapshot \o feed, S) /\ need = 3
  /\ main = "spawn" => Len(executed) = sent /\ Said(toClient, server, feed, S)
  /\ main \in {"load", "bind", "listening"} =>
       Len(executed) = sent /\ (role = "Slave" => Said(toClient, server, feed, S))

Handshaking(S) ==
  /\ feed \in Seq(S)
  /\ Len(executed) >= sent - 1
  /\ \A i \in 1 .. Len(executed) : executed[i] = script[i].means
  /\ server = "piped" => Len(executed) = 4
  /\ server = "reading" => feed = <<>>
  /\ Dialogue(S)

HandshakeInv(S) == need \in Nat /\ (main # "client" => Handshaking(S))

(* Beginnings of a text.                                                   *)
LEMMA BeginningIs ==
  ASSUME NEW S, NEW t \in Seq(S)
  PROVE  Beginning(t, t, S) /\ Beginning(<<>>, t, S)
BY DEF Beginning

LEMMA BeginningCut ==
  ASSUME NEW S, NEW x, NEW t, Beginning(x, t, S), NEW k \in 0 .. Len(x)
  PROVE  Beginning(SubSeq(x, 1, k), t, S)
<1>1. x \in Seq(S) /\ t \in Seq(S) /\ Len(x) <= Len(t) /\ \A i \in 1 .. Len(x) : x[i] = t[i]
  BY DEF Beginning
<1> DEFINE y == SubSeq(x, 1, k)
<1>2. y \in Seq(S) /\ Len(y) = k /\ \A i \in 1 .. k : y[i] = x[i]
  BY <1>1, BeginningOf
<1> HIDE DEF y
<1>3. Len(x) \in Nat /\ Len(t) \in Nat /\ k \in Nat /\ k <= Len(x) /\ k <= Len(t)
  BY <1>1
<1> QED BY <1>1, <1>2, <1>3 DEF Beginning, y

LEMMA BeginningOfNothing ==
  ASSUME NEW S, NEW x, Beginning(x, <<>>, S)
  PROVE  x = <<>>
<1>1. x \in Seq(S) /\ Len(x) <= 0
  BY DEF Beginning
<1> QED BY <1>1, EmptySeq

LEMMA BeginningRest ==
  ASSUME NEW S, NEW a \in Seq(S), NEW b \in Seq(S), NEW x, Beginning(x, a \o b, S), Len(a) <= Len(x),
         NEW n, n = Len(a)
  PROVE  /\ Beginning(SubSeq(x, n + 1, Len(x)), b, S)
         /\ x = a \o b => SubSeq(x, n + 1, Len(x)) = b
<1> DEFINE t == a \o b
           y == SubSeq(x, n + 1, Len(x))
<1>1. /\ t \in Seq(S) /\ Len(t) = n + Len(b) /\ n \in Nat /\ Len(b) \in Nat
      /\ \A i \in 1 .. Len(b) : t[n + i] = b[i]
  BY Joining
<1>2. x \in Seq(S) /\ Len(x) <= Len(t) /\ \A i \in 1 .. Len(x) : x[i] = t[i]
  BY DEF Beginning
<1> HIDE DEF t
<1>3. Len(x) \in Nat /\ n <= Len(x)
  BY <1>2
<1>4. y \in Seq(S) /\ Len(y) = Len(x) - n /\ \A i \in 1 .. Len(x) - n : y[i] = x[n + i]
  <2> DEFINE m == Len(x)
  <2>1. m \in Nat /\ n \in Nat /\ n <= m /\ m <= Len(x) /\ x \in Seq(S)
    BY <1>1, <1>2, <1>3
  <2>2. y = SubSeq(x, n + 1, m)
    OBVIOUS
  <2> HIDE DEF m, y
  <2>3. y \in Seq(S) /\ Len(y) = m - n /\ \A i \in 1 .. m - n : y[i] = x[n + i]
    BY <2>1, <2>2, PieceOf
  <2> QED BY <2>3 DEF m
<1> HIDE DEF y
<1>5. Len(y) <= Len(b)
  BY <1>1, <1>2, <1>3, <1>4
<1>6. \A i \in 1 .. Len(y) : y[i] = b[i]
  <2> SUFFICES ASSUME NEW i \in 1 .. Len(y) PROVE y[i] = b[i]
    OBVIOUS
  <2>1. i \in 1 .. Len(x) - n /\ n + i \in 1 .. Len(x) /\ i \in 1 .. Len(b)
    BY <1>1, <1>3, <1>4, <1>5
  <2> QED BY <1>1, <1>2, <1>4, <2>1
<1>7. Beginning(y, b, S)
  BY <1>4, <1>5, <1>6 DEF Beginning
<1>8. ASSUME x = t PROVE y = b
  <2>1. Len(y) = Len(b)
    BY <1>1, <1>4, <1>8
  <2> QED BY <1>4, <1>6, <2>1, Extensional
<1> QED BY <1>7, <1>8 DEF y, t

(* What the master says.                                                   *)
LEMMA LineIs ==
  ASSUME NEW S, Symbols \subseteq S, NEW w \in Seq(S), NEW n, n = Len(w)
  PROVE  /\ Line(w) \in Seq(S) /\ Len(Line(w)) = n + 2 /\ n \in Nat
         /\ \A i \in 1 .. n : Line(w)[i] = w[i]
         /\ Line(w)[n + 1] = "cr" /\ Line(w)[n + 2] = "lf"
<1>1. CrLf \in Seq(S) /\ Len(CrLf) = 2 /\ CrLf[1] = "cr" /\ CrLf[2] = "lf"
  <2>1. "cr" \in S /\ "lf" \in S
    BY DEF Symbols
  <2> QED BY <2>1 DEF CrLf
<1> HIDE DEF CrLf
<1>2. /\ w \o CrLf \in Seq(S) /\ Len(w \o CrLf) = Len(w) + Len(CrLf)
      /\ \A i \in 1 .. Len(w) : (w \o CrLf)[i] = w[i]
      /\ \A i \in 1 .. Len(CrLf) : (w \o CrLf)[Len(w) + i] = CrLf[i]
  <2>1. w \in Seq(S) /\ CrLf \in Seq(S)
    BY <1>1
  <2> QED BY ONLY <2>1, Joining
<1>3. 1 \in 1 .. Len(CrLf) /\ 2 \in 1 .. Len(CrLf)
  BY <1>1
<1>4. (w \o CrLf)[n + 1] = "cr" /\ (w \o CrLf)[n + 2] = "lf"
  BY <1>1, <1>2, <1>3
<1>5. n \in Nat
  OBVIOUS
<1> QED BY <1>1, <1>2, <1>4, <1>5 DEF Line

LEMMA SaidTexts ==
  ASSUME NEW S, Letters \subseteq S
  PROVE  /\ Pong \in Seq(S) /\ Len(Pong) = 4 /\ Pong[1] = "+" /\ \A i \in 1 .. 3 : Pong[i] # "lf"
         /\ Ok \in Seq(S) /\ Len(Ok) = 4 /\ Ok[1] = "+" /\ \A i \in 1 .. 3 : Ok[i] # "lf"
         /\ FullResync \in Seq(S) /\ Len(FullResync) = 6 /\ FullResync[1] = "+"
         /\ FullResync[6] = "lf" /\ \A i \in 1 .. 5 : FullResync[i] # "lf"
<1>1. /\ "+" \in S /\ "PONG" \in S /\ "OK" \in S /\ "FULLRESYNC" \in S /\ "id" \in S /\ "0" \in S
  BY DEF Letters
<1>2. Symbols \subseteq S
  BY DEF Letters
<1>3. \A i \in 1 .. 3 : i \in 1 .. 2 \/ i = 2 + 1
  OBVIOUS
<1>4. \A i \in 1 .. 5 : i \in 1 .. 4 \/ i = 4 + 1
  OBVIOUS
<1>5. ASSUME NEW a \in S, NEW b \in S, a # "lf", b # "lf"
      PROVE  /\ Line(<<a, b>>) \in Seq(S) /\ Len(Line(<<a, b>>)) = 4 /\ Line(<<a, b>>)[1] = a
             /\ \A i \in 1 .. 3 : Line(<<a, b>>)[i] # "lf"
  <2> DEFINE w == <<a, b>>
             n == 2
  <2>1. w \in Seq(S) /\ n = Len(w) /\ w[1] = a /\ \A i \in 1 .. 2 : w[i] # "lf"
    BY <1>5
  <2> HIDE DEF w, n
  <2>2. /\ Line(w) \in Seq(S) /\ Len(Line(w)) = n + 2
        /\ \A i \in 1 .. n : Line(w)[i] = w[i]
        /\ Line(w)[n + 1] = "cr" /\ Line(w)[n + 2] = "lf"
    <3>1. Symbols \subseteq S /\ w \in Seq(S) /\ n = Len(w)
      BY <1>2, <2>1
    <3> QED BY ONLY <3>1, LineIs
  <2> USE DEF n
  <2>3. Len(Line(w)) = 4 /\ Line(w)[1] = a /\ \A i \in 1 .. 3 : Line(w)[i] # "lf"
    BY <1>3, <2>1, <2>2
  <2> QED BY <2>2, <2>3 DEF w
<1>6. Pong \in Seq(S) /\ Len(Pong) = 4 /\ Pong[1] = "+" /\ \A i \in 1 .. 3 : Pong[i] # "lf"
  <2>1. "+" # "lf" /\ "PONG" # "lf"
    OBVIOUS
  <2> QED BY <1>1, <1>5, <2>1 DEF Pong
<1>7. Ok \in Seq(S) /\ Len(Ok) = 4 /\ Ok[1] = "+" /\ \A i \in 1 .. 3 : Ok[i] # "lf"
  <2>1. "+" # "lf" /\ "OK" # "lf"
    OBVIOUS
  <2> QED BY <1>1, <1>5, <2>1 DEF Ok
<1>8. /\ FullResync \in Seq(S) /\ Len(FullResync) = 6 /\ FullResync[1] = "+"
      /\ FullResync[6] = "lf" /\ \A i \in 1 .. 5 : FullResync[i] # "lf"
  <2> DEFINE w == <<"+", "FULLRESYNC", "id", "0">>
             n == 4
  <2>a. \A i \in 1 .. 4 : i = 1 \/ i = 2 \/ i = 3 \/ i = 4
    OBVIOUS
  <2>1. w \in Seq(S) /\ n = Len(w) /\ w[1] = "+" /\ \A i \in 1 .. 4 : w[i] # "lf"
    BY <1>1, <2>a
  <2> HIDE DEF w, n
  <2>2. /\ Line(w) \in Seq(S) /\ Len(Line(w)) = n + 2
        /\ \A i \in 1 .. n : Line(w)[i] = w[i]
        /\ Line(w)[n + 1] = "cr" /\ Line(w)[n + 2] = "lf"
    BY <1>2, <2>1, LineIs
  <2> USE DEF n
  <2>3. Len(Line(w)) = 6 /\ Line(w)[1] = "+" /\ Line(w)[6] = "lf" /\ \A i \in 1 .. 5 : Line(w)[i] # "lf"
    BY <1>4, <2>1, <2>2
  <2> QED BY <2>2, <2>3 DEF w, FullResync
<1> QED BY <1>6, <1>7, <1>8

(* The snapshot's length is a digit.                                       *)
LEMMA OneDigit == Decimal[3] = <<"3">> /\ IntOf(<<"3">>) = 3 /\ IsInt(<<"3">>)
<1>1. Decimal[3] = DecimalStep(Decimal, 3)
  BY DecimalIs
<1>2. Digits[3 + 1] = "3"
  BY DEF Digits
<1>3. Decimal[3] = <<"3">>
  BY <1>1, <1>2 DEF DecimalStep
<1>4. Magnitude(<<"3">>) = 3 /\ <<"3">> \in Seq(DigitChars)
  <2>1. Magnitude(Decimal[3]) = 3 /\ Decimal[3] \in Seq(DigitChars)
    BY DecimalFacts
  <2> QED BY <1>3, <2>1
<1> DEFINE t == <<"3">>
<1>5. t # <<>> /\ t[1] = "3"
  OBVIOUS
<1>6. t \in Seq(DigitChars) /\ Magnitude(t) = 3
  BY <1>4
<1> HIDE DEF t
<1>7. Unsigned(t) = t
  BY <1>5 DEF Unsigned
<1>8. IntOf(t) = 3
  BY <1>5, <1>6, <1>7 DEF IntOf
<1>9. IsInt(t)
  BY <1>5, <1>6, DigitsAreInt
<1> QED BY <1>3, <1>8, <1>9 DEF t

LengthLine == Line(<<"$">> \o Decimal[3])

LEMMA SnapshotTexts ==
  ASSUME NEW S, Letters \subseteq S
  PROVE  /\ Snapshot \in Seq(S) /\ Len(Snapshot) = 3
         /\ LengthLine \in Seq(S) /\ Len(LengthLine) = 4
         /\ LengthLine[1] = "$" /\ LengthLine[2] = "3" /\ LengthLine[3] = "cr" /\ LengthLine[4] = "lf"
         /\ SnapshotText \in Seq(S) /\ SnapshotText = LengthLine \o Snapshot
<1>1. /\ "$" \in S /\ "3" \in S /\ "RED" \in S /\ "IS" \in S /\ "lf" \in S
  BY DigitsAre DEF Letters, Symbols, DigitChars
<1>2. Snapshot \in Seq(S) /\ Len(Snapshot) = 3
  BY <1>1 DEF Snapshot
<1>3. Decimal[3] = <<"3">>
  BY OneDigit
<1> DEFINE w == <<"$">> \o <<"3">>
           n == 2
<1>4. w \in Seq(S) /\ n = Len(w) /\ w[1] = "$" /\ w[2] = "3"
  BY <1>1
<1>5. LengthLine = Line(w)
  BY <1>3 DEF LengthLine
<1> HIDE DEF w, n
<1>6. /\ Line(w) \in Seq(S) /\ Len(Line(w)) = n + 2
      /\ \A i \in 1 .. n : Line(w)[i] = w[i]
      /\ Line(w)[n + 1] = "cr" /\ Line(w)[n + 2] = "lf"
  BY <1>4, LineIs, SMTT(60) DEF Letters
<1>7. Len(Line(w)) = 4 /\ Line(w)[1] = "$" /\ Line(w)[2] = "3" /\ Line(w)[3] = "cr" /\ Line(w)[4] = "lf"
  BY <1>4, <1>6 DEF n
<1>8. SnapshotText = LengthLine \o Snapshot
  BY <1>2 DEF SnapshotText, LengthLine, Line
<1>9. LengthLine \o Snapshot \in Seq(S)
  BY <1>2, <1>5, <1>6
<1> QED BY <1>2, <1>5, <1>6, <1>7, <1>8, <1>9

(* A simple string without its line break is none.                         *)
LEMMA NoAnswerYet ==
  ASSUME NEW S, NEW y \in Seq(S), y # <<>> => y[1] = "+", \A i \in 1 .. Len(y) : y[i] # "lf"
  PROVE  Parse(y) = Bad
<1>1. CASE y = <<>>
  <2>1. Len(y) = 0
    BY <1>1
  <2>2. y \in Seq(Range(y) \cup Range(CrLf))
    BY <1>1
  <2>3. PICK f : AreNested(f, Seq(Range(y) \cup Range(CrLf)), Len(y)) /\ Parse(y) = f[Len(y)][y]
    BY <2>1, ParseIsNested
  <2>4. f[0] = [t \in Seq(Range(y) \cup Range(CrLf)) |-> Bad]
    BY <2>3 DEF AreNested
  <2> QED BY <2>1, <2>2, <2>3, <2>4
<1>2. CASE y # <<>>
  <2>1. PICK parse : Parse(y) = ParseBy(y, parse)
    BY <1>2, ParseIsOne
  <2>2. y[1] = "+"
    BY <1>2
  <2>3. NoBreak(y)
    <3>1. \A i \in 1 .. Len(y) - 1 : i + 1 \in 1 .. Len(y)
      OBVIOUS
    <3> QED BY <3>1 DEF NoBreak
  <2>4. Len(Lines(y)) = 1
    BY <2>3, OneLine
  <2>5. ParseSimpleString(y) = Bad
    BY <2>4 DEF ParseSimpleString
  <2>6. ParseBy(y, parse) = ParseSimpleString(y)
    BY <1>2, <2>2 DEF ParseBy
  <2> QED BY <2>1, <2>5, <2>6
<1> QED BY <1>1, <1>2

(* What the requests mean, and what they are answered.                     *)
LEMMA HandshakeMeans ==
  ASSUME NEW port
  PROVE  /\ Handshake(port)[1].means = <<"ping">>
         /\ Handshake(port)[2].means
              = IF FitsPort(port) THEN <<"listening-port", IntOf(port)>> ELSE NoCommand
         /\ Handshake(port)[3].means = <<"capa", <<Psync2Word>> >>
         /\ Handshake(port)[4].means = <<"psync", <<"no id">>, <<"no offset">> >>
         /\ \A i \in 1 .. 4 : Handshake(port)[i].short = {}
<1>1. ASSUME NEW words, NEW means
      PROVE  ToSend(words, means).means = means /\ ToSend(words, means).short = {}
  BY DEF ToSend
<1>2. \A i \in 1 .. 4 : i = 1 \/ i = 2 \/ i = 3 \/ i = 4
  OBVIOUS
<1>3. Handshake(port)[1].means = <<"ping">> /\ Handshake(port)[1].short = {}
  <2> DEFINE w == <<PingWord>>
             m == <<"ping">>
  <2>1. Handshake(port)[1] = ToSend(w, m)
    BY HandshakeIs
  <2>2. ToSend(w, m).means = m /\ ToSend(w, m).short = {}
    <3> HIDE DEF w, m
    <3> QED BY <1>1
  <2>3. Handshake(port)[1].means = m /\ Handshake(port)[1].short = {}
    <3> HIDE DEF w, m
    <3> QED BY <2>1, <2>2
  <2> QED BY <2>3
<1>4. /\ Handshake(port)[2].means
           = IF FitsPort(port) THEN <<"listening-port", IntOf(port)>> ELSE NoCommand
      /\ Handshake(port)[2].short = {}
  <2> DEFINE w == <<ReplconfWord, ListeningPortWord, port>>
             m == IF FitsPort(port) THEN <<"listening-port", IntOf(port)>> ELSE NoCommand
  <2>1. Handshake(port)[2] = ToSend(w, m)
    BY HandshakeIs
  <2>2. ToSend(w, m).means = m /\ ToSend(w, m).short = {}
    <3> HIDE DEF w, m
    <3> QED BY <1>1
  <2>3. Handshake(port)[2].means = m /\ Handshake(port)[2].short = {}
    <3> HIDE DEF w, m
    <3> QED BY <2>1, <2>2
  <2> QED BY <2>3
<1>5. Handshake(port)[3].means = <<"capa", <<Psync2Word>> >> /\ Handshake(port)[3].short = {}
  <2> DEFINE w == <<ReplconfWord, CapaWord, Psync2Word>>
             m == <<"capa", <<Psync2Word>> >>
  <2>1. Handshake(port)[3] = ToSend(w, m)
    BY HandshakeIs
  <2>2. ToSend(w, m).means = m /\ ToSend(w, m).short = {}
    <3> HIDE DEF w, m
    <3> QED BY <1>1
  <2>3. Handshake(port)[3].means = m /\ Handshake(port)[3].short = {}
    <3> HIDE DEF w, m
    <3> QED BY <2>1, <2>2
  <2> QED BY <2>3
<1>6. /\ Handshake(port)[4].means = <<"psync", <<"no id">>, <<"no offset">> >>
      /\ Handshake(port)[4].short = {}
  <2> DEFINE w == <<PsyncWord, <<"?">>, <<"-", "1">> >>
             m == <<"psync", <<"no id">>, <<"no offset">> >>
  <2>1. Handshake(port)[4] = ToSend(w, m)
    BY HandshakeIs
  <2>2. ToSend(w, m).means = m /\ ToSend(w, m).short = {}
    <3> HIDE DEF w, m
    <3> QED BY <1>1
  <2>3. Handshake(port)[4].means = m /\ Handshake(port)[4].short = {}
    <3> HIDE DEF w, m
    <3> QED BY <2>1, <2>2
  <2> QED BY <2>3
<1>7. \A i \in 1 .. 4 : Handshake(port)[i].short = {}
  BY <1>2, <1>3, <1>4, <1>5, <1>6
<1> QED BY <1>3, <1>4, <1>5, <1>6, <1>7

LEMMA Requests ==
  ASSUME Control, main # "client", NEW i \in 1 .. 4, NEW cmd, cmd = script[i].means, Has(cmd)
  PROVE  /\ WantsSnapshot(cmd) <=> i = 4
         /\ i < 4 => Answer(cmd) = Reply(i)
<1> DEFINE port == Port(options)
<1>1. script = Handshake(port)
  BY DEF Control
<1> HIDE DEF port
<1>2. i = 1 \/ i = 2 \/ i = 3 \/ i = 4
  OBVIOUS
<1>3. CASE i = 1
  <2>1. cmd = <<"ping">>
    BY <1>1, <1>3, HandshakeMeans
  <2>2. cmd[1] = "ping"
    BY <2>1
  <2>3. ~ WantsSnapshot(cmd) /\ Answer(cmd) = Pong
    BY <2>2 DEF WantsSnapshot, Answer
  <2> QED BY <1>3, <2>3 DEF Reply
<1>4. CASE i = 2
  <2>1. cmd = IF FitsPort(port) THEN <<"listening-port", IntOf(port)>> ELSE NoCommand
    BY <1>1, <1>4, HandshakeMeans
  <2>2. cmd # NoCommand
    BY DEF Has
  <2>3. cmd[1] = "listening-port"
    BY <2>1, <2>2
  <2>4. ~ WantsSnapshot(cmd) /\ Answer(cmd) = Ok
    BY <2>3 DEF WantsSnapshot, Answer
  <2> QED BY <1>4, <2>4 DEF Reply
<1>5. CASE i = 3
  <2>1. cmd = <<"capa", <<Psync2Word>> >>
    BY <1>1, <1>5, HandshakeMeans
  <2>2. cmd[1] = "capa"
    BY <2>1
  <2>3. ~ WantsSnapshot(cmd) /\ Answer(cmd) = Ok
    BY <2>2 DEF WantsSnapshot, Answer
  <2> QED BY <1>5, <2>3 DEF Reply
<1>6. CASE i = 4
  <2> DEFINE c == <<"psync", <<"no id">>, <<"no offset">> >>
  <2>1. cmd = c
    BY <1>1, <1>6, HandshakeMeans
  <2>2. c[1] = "psync" /\ c[2] = <<"no id">>
    OBVIOUS
  <2> HIDE DEF c
  <2>3. cmd[1] = "psync" /\ cmd[2] = <<"no id">>
    BY <2>1, <2>2
  <2>4. WantsSnapshot(cmd)
    BY <2>3 DEF WantsSnapshot
  <2> QED BY <1>6, <2>4
<1> QED BY <1>2, <1>3, <1>4, <1>5, <1>6

LEMMA NothingShort ==
  ASSUME Control, main # "client", NEW i \in 1 .. 4
  PROVE  Means(i) = {script[i].means}
<1>1. script = Handshake(Port(options))
  BY DEF Control
<1>3. script[i].short = {}
  BY <1>1, HandshakeMeans
<1> QED BY <1>3 DEF Means

(* How many commands the master has executed.                              *)
LEMMA PlacesEnough ==
  ASSUME NEW m \in Nat, NEW s \in Nat, NEW place \in [1 .. m -> 1 .. s], \A i \in 1 .. m : place[i] >= i
  PROVE  m <= s /\ (m = s /\ s > 0 => s \in 1 .. m /\ place[s] = s)
<1>1. m <= s
  <2>1. CASE m = 0
    BY <2>1
  <2>2. CASE m # 0
    <3>1. m \in 1 .. m
      BY <2>2
    <3>2. place[m] \in 1 .. s /\ place[m] >= m
      BY <3>1
    <3> QED BY <3>2
  <2> QED BY <2>1, <2>2
<1>2. ASSUME m = s, s > 0 PROVE s \in 1 .. m /\ place[s] = s
  <2>1. s \in 1 .. m
    BY <1>2
  <2>2. place[s] \in 1 .. s /\ place[s] >= s
    BY <2>1
  <2> QED BY <2>1, <2>2
<1> QED BY <1>1, <1>2

LEMMA ExecutedSent ==
  ASSUME NEW S, SessionInv(S)
  PROVE  /\ Len(executed) \in Nat /\ sent \in Nat /\ Len(executed) <= sent /\ sent <= Len(script)
         /\ executed \in Seq(AllMeanings)
<1>1. executed \in Seq(AllMeanings) /\ sent \in 0 .. Len(script) /\ Len(script) \in Nat
  BY DEF SessionInv, InPlace, Connected, PlainScript
<1>2. PICK place \in [1 .. Len(executed) -> 1 .. sent] : InOrder(place)
  BY DEF SessionInv, InPlace
<1>3. Len(executed) \in Nat /\ sent \in Nat /\ sent <= Len(script)
  BY <1>1
<1>4. \A i \in 1 .. Len(executed) : place[i] >= i
  BY <1>2 DEF InOrder
<1>5. Len(executed) <= sent
  BY <1>2, <1>3, <1>4, PlacesEnough
<1> QED BY <1>1, <1>3, <1>5

(* A chunk of the handshake is read: nothing is executed, or the request   *)
(* that was written last.                                                  *)
LEMMA RequestExecuted ==
  ASSUME NEW S, Symbols \subseteq S, SessionInv(S), Control, main # "client",
         Len(executed) >= sent - 1,
         NEW n, Reads(n), NEW v, v = FirstValue(n)
  PROVE  IF ~ Failed(v) /\ Has(CommandIn(v))
           THEN /\ sent \in 1 .. 4 /\ Len(executed) = sent - 1 /\ Len(executed') = sent
                /\ CommandIn(v) = script[sent].means
                /\ \A i \in 1 .. sent - 1 : executed'[i] = executed[i]
                /\ executed'[sent] = script[sent].means
           ELSE executed' = executed
<1> DEFINE cmd == CommandIn(v)
<1>1. /\ executed' = IF ~ Failed(v) /\ Has(cmd) THEN Append(executed, cmd) ELSE executed
      /\ UNCHANGED <<script, sent>>
  BY DEF Reads
<1>2. SessionInv(S)'
  BY SessionReads
<1>3. /\ Len(executed) \in Nat /\ sent \in Nat /\ Len(executed) <= sent /\ executed \in Seq(AllMeanings)
  BY ExecutedSent
<1>4. /\ Len(executed') <= sent
      /\ Len(executed') = sent /\ sent > 0 => executed'[sent] \in Means(sent)
  <2>1. PICK place \in [1 .. Len(executed') -> 1 .. sent'] : InOrder(place)'
    BY <1>2 DEF SessionInv, InPlace
  <2>2. /\ \A i \in 1 .. Len(executed') : place[i] >= i /\ executed'[i] \in Means(place[i])
    BY <1>1, <2>1 DEF InOrder, Means
  <2>3. executed' \in Seq(AllMeanings)'
    BY <1>2 DEF SessionInv, InPlace
  <2>4. Len(executed') \in Nat /\ sent' = sent
    BY <1>1, <2>3
  <2> DEFINE m == Len(executed')
  <2>5. m <= sent /\ (m = sent /\ sent > 0 => sent \in 1 .. m /\ place[sent] = sent)
    <3>1. m \in Nat /\ place \in [1 .. m -> 1 .. sent] /\ \A i \in 1 .. m : place[i] >= i
      BY <2>1, <2>2, <2>4
    <3> HIDE DEF m
    <3> QED BY <1>3, <3>1, PlacesEnough
  <2> QED BY <2>2, <2>5
<1>5. CASE ~ (~ Failed(v) /\ Has(cmd))
  BY <1>1, <1>5
<1>6. CASE ~ Failed(v) /\ Has(cmd)
  <2>1. executed' = Append(executed, cmd)
    BY <1>1, <1>6
  <2> DEFINE m == Len(executed)
  <2> HIDE DEF cmd
  <2>2. Len(executed') = m + 1
    BY <1>3, <2>1
  <2>3. \A i \in 1 .. m : executed'[i] = executed[i]
    BY <1>3, <2>1
  <2>4. executed'[m + 1] = cmd
    BY <1>3, <2>1
  <2>5. m = sent - 1 /\ Len(executed') = sent /\ m + 1 = sent /\ sent > 0
    BY <1>1, <1>3, <1>4, <2>2
  <2>6. cmd \in Means(sent)
    BY <1>4, <2>4, <2>5
  <2>8. sent \in 1 .. 4
    <3>1. sent <= Len(script) /\ Len(script) = 4
      BY ScriptLength DEF SessionInv, Connected
    <3> QED BY <1>3, <2>5, <3>1
  <2>9. cmd = script[sent].means
    BY <2>6, <2>8, NothingShort
  <2>10. /\ sent \in 1 .. 4 /\ Len(executed) = sent - 1 /\ Len(executed') = sent
         /\ \A i \in 1 .. sent - 1 : executed'[i] = executed[i]
         /\ executed'[sent] = script[sent].means
    BY <2>3, <2>4, <2>5, <2>8, <2>9
  <2> QED BY <1>6, <2>9, <2>10 DEF cmd
<1> QED BY <1>5, <1>6

(* What was said stays, grows, is cut when the connection ends, and is     *)
(* read from its beginning.                                                *)
LEMMA SaidStays ==
  ASSUME NEW S, NEW x, NEW t, NEW old, NEW new, Said(x, old, t, S), new \in {old, "closed"}
  PROVE  Said(x, new, t, S)
BY DEF Said

LEMMA SaidWhole ==
  ASSUME NEW S, NEW t \in Seq(S), NEW end
  PROVE  Said(t, end, t, S)
BY BeginningIs DEF Said

LEMMA SaidCut ==
  ASSUME NEW S, NEW x, NEW t, NEW end, Said(x, end, t, S), NEW k \in 0 .. Len(x)
  PROVE  Said(SubSeq(x, 1, k), "closed", t, S)
BY BeginningCut DEF Said

LEMMA SaidMore ==
  ASSUME NEW S, NEW x, NEW t \in Seq(S), NEW m \in Seq(S), NEW end, end # "closed", Said(x, end, t, S)
  PROVE  Said(x \o m, end, t \o m, S)
<1>1. x = t
  BY DEF Said
<1>2. t \o m \in Seq(S)
  BY Joining
<1> HIDE DEF Said
<1>3. Said(t \o m, end, t \o m, S)
  BY <1>2, SaidWhole
<1> QED BY <1>1, <1>3

LEMMA SaidRest ==
  ASSUME NEW S, NEW a \in Seq(S), NEW b \in Seq(S), NEW x, NEW end, Said(x, end, a \o b, S),
         Len(a) <= Len(x), NEW n, n = Len(a)
  PROVE  Said(SubSeq(x, n + 1, Len(x)), end, b, S)
<1>1. Beginning(x, a \o b, S) /\ (end # "closed" => x = a \o b)
  BY DEF Said
<1>2. /\ Beginning(SubSeq(x, n + 1, Len(x)), b, S)
      /\ x = a \o b => SubSeq(x, n + 1, Len(x)) = b
  BY ONLY <1>1, a \in Seq(S), b \in Seq(S), Len(a) <= Len(x), n = Len(a), BeginningRest
<1> QED BY <1>1, <1>2 DEF Said

LEMMA SaidNothing ==
  ASSUME NEW S, NEW x, NEW end, Said(x, end, <<>>, S)
  PROVE  x = <<>>
BY BeginningOfNothing DEF Said

(* The first line feed.                                                    *)
LEMMA LineFeedIs ==
  ASSUME NEW S, toClient \in Seq(S), NEW k \in Nat \ {0},
         \A i \in 1 .. Len(toClient) : i <= k => (toClient[i] = "lf" <=> i = k)
  PROVE  IF k <= Len(toClient) THEN LineFeed = k /\ LineEnd = k
         ELSE LineFeed = 0 /\ LineEnd = Len(toClient) /\ NextLine = toClient
<1> DEFINE I == {i \in 1 .. Len(toClient) : toClient[i] = "lf"}
<1>1. LineFeed = IF I # {} THEN Min(I) ELSE 0
  BY DEF LineFeed, SelectInSeq
<1>2. Len(toClient) \in Nat
  OBVIOUS
<1>3. CASE k <= Len(toClient)
  <2>1. k \in I /\ \A i \in I : k <= i
    BY <1>2, <1>3
  <2>2. \A j \in I : (\A i \in I : j <= i) => j = k
    BY <2>1
  <2>3. Min(I) = k
    BY <2>1, <2>2 DEF Min
  <2>4. LineFeed = k
    BY <1>1, <2>1, <2>3
  <2> QED BY <1>3, <2>4 DEF LineEnd
<1>4. CASE ~ (k <= Len(toClient))
  <2>1. I = {}
    BY <1>2, <1>4
  <2>2. LineFeed = 0
    BY <1>1, <2>1
  <2>3. LineEnd = Len(toClient)
    BY <2>2 DEF LineEnd
  <2>4. SubSeq(toClient, 1, Len(toClient)) = toClient
    OBVIOUS
  <2> QED BY <1>4, <2>2, <2>3, <2>4 DEF NextLine
<1> QED BY <1>3, <1>4

(* Nothing new is said or read.                                            *)
LEMMA DialogueKept ==
  ASSUME NEW S, Dialogue(S), UNCHANGED <<main, role, need, sent, executed, feed>>,
         \A t : Said(toClient, server, t, S) => Said(toClient', server', t, S)
  PROVE  Dialogue(S)'
BY DEF Dialogue

LEMMA HandshakeKept ==
  ASSUME NEW S, HandshakeInv(S), UNCHANGED <<script, main, role, need, sent, executed, feed>>,
         \A t : Said(toClient, server, t, S) => Said(toClient', server', t, S),
         server' \in {server, "closed"}
  PROVE  HandshakeInv(S)'
<1>1. CASE main = "client"
  BY <1>1 DEF HandshakeInv
<1>2. CASE main # "client"
  <2>1. Handshaking(S)
    BY <1>2 DEF HandshakeInv
  <2>2. Dialogue(S)'
    BY <2>1, DialogueKept DEF Handshaking
  <2>3. Handshaking(S)'
    BY <2>1, <2>2 DEF Handshaking
  <2> QED BY <2>3 DEF HandshakeInv
<1> QED BY <1>1, <1>2

(* What is lost is behind what is left.                                    *)
LEMMA LostBehind ==
  ASSUME NEW S, Lose, server' = "closed"
  PROVE  \A t : Said(toClient, server, t, S) => Said(toClient', server', t, S)
<1>1. PICK k \in 0 .. Len(toClient) : toClient' = SubSeq(toClient, 1, k)
  BY DEF Lose
<1> QED BY <1>1, SaidCut

LEMMA LetStand ==
  ASSUME NEW S, toClient' = toClient, server' \in {server, "closed"}
  PROVE  \A t : Said(toClient, server, t, S) => Said(toClient', server', t, S)
BY SaidStays

(* Where main is when a request is there to be executed.                   *)
LEMMA OneIsOpen ==
  ASSUME NEW S, SessionInv(S), Control, main # "client", Handshaking(S), Len(executed) = sent - 1
  PROVE  /\ main \in {"read", "line"} \cup Ended
         /\ main \in {"read", "line"} /\ server = "reading" => toClient = <<>>
<1>1. Dialogue(S) /\ main \in Places
  BY DEF Handshaking, Control
<1>2. Len(executed) \in Nat /\ sent \in Nat
  BY ExecutedSent
<1>3. Len(executed) # sent
  BY <1>2
<1>4. main \in {"read", "line"} \cup Ended
  BY <1>1, <1>3 DEF Dialogue, Places
<1>5. main \in {"read", "line"} => Said(toClient, server, <<>>, S)
  BY <1>1, <1>3 DEF Dialogue
<1> QED BY <1>4, <1>5, SaidNothing

(* The master reads a chunk of the handshake.                              *)
LEMMA HandshakeServed ==
  ASSUME NEW S, Letters \subseteq S, SessionInv(S), Control, HandshakeInv(S), Serve, UNCHANGED process
  PROVE  HandshakeInv(S)'
<1>1. CASE main = "client"
  BY <1>1 DEF HandshakeInv, process
<1>2. CASE main # "client"
  <2>1. Handshaking(S) /\ need \in Nat
    BY <1>2 DEF HandshakeInv
  <2>2. UNCHANGED <<script, sent, main, role, need>> /\ server = "reading"
    BY DEF Serve, process
  <2>3. PICK n \in 1 .. Len(toServer) :
          \/ Disconnect(n, FirstValue(n)) \/ Ignore(n, FirstValue(n))
          \/ Execute(n, FirstValue(n)) \/ Sync(n, FirstValue(n))
    BY DEF Serve
  <2> DEFINE v == FirstValue(n)
             cmd == CommandIn(v)
  <2>4. CASE Disconnect(n, v)
    <3>1. UNCHANGED <<executed, feed>> /\ Lose /\ server' = "closed"
      BY <2>4 DEF Disconnect
    <3> QED BY <2>2, <3>1, LostBehind, HandshakeKept
  <2>5. CASE Ignore(n, v)
    <3>1. UNCHANGED <<toClient, server, executed, feed>>
      BY <2>5 DEF Ignore
    <3> QED BY <2>2, <3>1, LetStand, HandshakeKept
  <2>6. ASSUME Execute(n, v) \/ Sync(n, v)
        PROVE  /\ sent \in 1 .. 4 /\ Len(executed) = sent - 1 /\ Len(executed') = sent
               /\ WantsSnapshot(cmd) <=> sent = 4
               /\ sent < 4 => Answer(cmd) = Reply(sent)
               /\ \A i \in 1 .. Len(executed') : executed'[i] = script'[i].means
    <3>1. ~ Failed(v) /\ Has(cmd)
      BY <2>6 DEF Execute, Sync
    <3>2. Reads(n)
      BY <2>2, <2>6, <3>1 DEF Reads, Execute, Sync
    <3>3. Symbols \subseteq S /\ Len(executed) >= sent - 1
      BY <2>1 DEF Letters, Handshaking
    <3>4. /\ sent \in 1 .. 4 /\ Len(executed) = sent - 1 /\ Len(executed') = sent
          /\ cmd = script[sent].means
          /\ \A i \in 1 .. sent - 1 : executed'[i] = executed[i]
          /\ executed'[sent] = script[sent].means
      BY <1>2, <3>1, <3>2, <3>3, RequestExecuted
    <3>5. /\ WantsSnapshot(cmd) <=> sent = 4
          /\ sent < 4 => Answer(cmd) = Reply(sent)
      BY <1>2, <3>1, <3>4, Requests
    <3>6. \A i \in 1 .. Len(executed) : executed[i] = script[i].means
      BY <2>1 DEF Handshaking
    <3>7. \A i \in 1 .. Len(executed') : executed'[i] = script'[i].means
      <4> SUFFICES ASSUME NEW i \in 1 .. Len(executed') PROVE executed'[i] = script[i].means
        BY <2>2
      <4>1. i = sent \/ i \in 1 .. sent - 1
        BY <3>4
      <4> QED BY <3>4, <3>6, <4>1
    <3> QED BY <3>4, <3>5, <3>7
  <2> HIDE DEF v, cmd
  <2>7. ASSUME Execute(n, v) \/ Sync(n, v)
        PROVE  /\ main \in {"read", "line"} \cup Ended
               /\ main \in {"read", "line"} => toClient = <<>>
    BY <1>2, <2>1, <2>2, <2>6, <2>7, OneIsOpen
  <2>8. ASSUME Execute(n, v) \/ Sync(n, v), Dialogue(S)', feed' = feed,
               server' = "piped" => sent = 4
        PROVE  HandshakeInv(S)'
    <3>1. /\ Len(executed') = sent /\ sent \in 1 .. 4
          /\ \A i \in 1 .. Len(executed') : executed'[i] = script'[i].means
      BY <2>6, <2>8
    <3>2. feed \in Seq(S) /\ feed = <<>>
      BY <2>1, <2>2 DEF Handshaking
    <3>3. Len(executed') >= sent' - 1
      BY <2>2, <3>1
    <3>4. Handshaking(S)'
      BY <2>2, <2>8, <3>1, <3>2, <3>3 DEF Handshaking
    <3> QED BY <2>1, <2>2, <3>4 DEF HandshakeInv
  <2>9. CASE Execute(n, v)
    <3>1. ~ WantsSnapshot(cmd) /\ toClient' = toClient \o Answer(cmd) /\ UNCHANGED <<server, feed>>
      BY <2>9 DEF Execute, cmd
    <3>2. sent \in 1 .. 3 /\ Answer(cmd) = Reply(sent) /\ Len(executed') = sent
      BY <2>6, <2>9, <3>1
    <3>3. main \in {"read"} \cup Ended /\ (main = "read" => toClient = <<>>)
      <4>1. main # "line"
        BY <3>2 DEF Control
      <4> QED BY <2>7, <2>9, <4>1
    <3>4. Reply(sent) \in Seq(S)
      BY SaidTexts DEF Reply
    <3>5. main = "read" => toClient' = Reply(sent)
      BY <3>1, <3>2, <3>3, <3>4
    <3>6. main = "read" => Said(toClient', server', Reply(sent), S)
      BY <3>4, <3>5, SaidWhole
    <3>7. Dialogue(S)'
      BY <2>2, <3>2, <3>3, <3>6 DEF Dialogue, Ended
    <3> QED BY <2>2, <2>8, <2>9, <3>1, <3>7
  <2>10. CASE Sync(n, v)
    <3>1. /\ WantsSnapshot(cmd) /\ toClient' = toClient \o FullResync \o SnapshotText
          /\ server' = "piped" /\ feed' = feed
      BY <2>10 DEF Sync, cmd
    <3>2. sent = 4 /\ Len(executed') = sent
      BY <2>6, <2>10, <3>1
    <3>3. main \in {"line"} \cup Ended /\ (main = "line" => toClient = <<>>)
      <4>1. main # "read"
        BY <3>2 DEF Control
      <4> QED BY <2>7, <2>10, <4>1
    <3>4. FullResync \in Seq(S) /\ SnapshotText \in Seq(S)
      BY SaidTexts, SnapshotTexts
    <3>5. feed' = <<>>
      BY <2>1, <2>2, <3>1 DEF Handshaking
    <3> DEFINE t == FullResync \o SnapshotText
    <3>6. t \in Seq(S) /\ t = FullResync \o (SnapshotText \o feed')
      BY <3>4, <3>5
    <3>7. main = "line" => toClient' = t
      BY <3>1, <3>3, <3>4
    <3> HIDE DEF t
    <3>8. main = "line" => Said(toClient', server', t, S)
      BY <3>6, <3>7, SaidWhole
    <3>9. Dialogue(S)'
      BY <2>2, <3>2, <3>3, <3>6, <3>8 DEF Dialogue, Ended
    <3> QED BY <2>8, <2>10, <3>1, <3>2, <3>9
  <2> QED BY <2>3, <2>4, <2>5, <2>9, <2>10 DEF v
<1> QED BY <1>1, <1>2

(* The feed, behind whatever the process has still to read.                *)
LEMMA FeedGrows ==
  ASSUME NEW S, NEW x, NEW end, NEW a \in Seq(S), NEW f \in Seq(S), NEW m \in Seq(S),
         Said(x, end, a \o f, S), end # "closed"
  PROVE  Said(x \o m, end, a \o (f \o m), S)
<1>1. a \o f \in Seq(S)
  BY Joining
<1>2. Said(x \o m, end, (a \o f) \o m, S)
  BY <1>1, SaidMore
<1>3. (a \o f) \o m = a \o (f \o m)
  BY Regrouped
<1> QED BY <1>2, <1>3

LEMMA SetIsText ==
  ASSUME NEW S, Letters \subseteq S, NEW k \in Nat
  PROVE  <<"set">> \o Decimal[k] \in Seq(S)
<1>1. Decimal[k] \in Seq(DigitChars)
  BY DecimalFacts
<1>2. DigitChars \subseteq S /\ "set" \in S
  BY DEF Letters, Symbols, DigitChars
<1>3. Decimal[k] \in Seq(S)
  BY <1>1, <1>2
<1>4. <<"set">> \in Seq(S)
  BY <1>2
<1> QED BY <1>3, <1>4, Joining

LEMMA HandshakeForwarded ==
  ASSUME NEW S, Letters \subseteq S, SessionInv(S), Control, HandshakeInv(S), Forward, UNCHANGED process
  PROVE  HandshakeInv(S)'
<1>1. CASE main = "client"
  BY <1>1 DEF HandshakeInv, process
<1>2. CASE main # "client"
  <2>1. Handshaking(S) /\ need \in Nat
    BY <1>2 DEF HandshakeInv
  <2> DEFINE k == Len(feed) \div 2 + 1
             m == <<"set">> \o Decimal[k]
  <2>2. /\ UNCHANGED <<script, sent, main, role, need, executed>> /\ server = "piped" /\ server' = server
        /\ feed' = feed \o m /\ toClient' = toClient \o m
    BY DEF Forward, process
  <2>3. feed \in Seq(S) /\ Len(feed) \in Nat /\ k \in Nat
    BY <2>1 DEF Handshaking
  <2>4. m \in Seq(S)
    <3> HIDE DEF k
    <3> QED BY <2>3, SetIsText
  <2> HIDE DEF m
  <2>5. feed' \in Seq(S)
    BY <2>2, <2>3, <2>4, Joining
  <2>6. FullResync \in Seq(S) /\ SnapshotText \in Seq(S) /\ Snapshot \in Seq(S)
    BY SaidTexts, SnapshotTexts
  <2>7. Len(executed) = 4 /\ sent = 4
    <3>1. Len(executed) = 4
      BY <2>1, <2>2 DEF Handshaking
    <3>2. Len(executed) <= sent /\ sent <= Len(script) /\ sent \in Nat
      BY ExecutedSent
    <3>3. Len(script) = 4
      BY <1>2, ScriptLength
    <3> QED BY <3>1, <3>2, <3>3
  <2>8. Dialogue(S)
    BY <2>1 DEF Handshaking
  <2>9. main \notin {"start", "write", "read"}
    BY <2>7 DEF Control
  <2>10. main = "line" => Said(toClient', server', FullResync \o (SnapshotText \o feed'), S)
    <3> SUFFICES ASSUME main = "line" PROVE Said(toClient', server', FullResync \o (SnapshotText \o feed'), S)
      OBVIOUS
    <3> DEFINE a == FullResync \o SnapshotText
    <3>1. Said(toClient, server, FullResync \o (SnapshotText \o feed), S)
      BY <2>7, <2>8 DEF Dialogue
    <3>2. /\ a \in Seq(S)
          /\ FullResync \o (SnapshotText \o feed) = a \o feed
          /\ FullResync \o (SnapshotText \o feed') = a \o feed'
      <4>1. a \in Seq(S)
        BY <2>6, Joining
      <4>2. ASSUME NEW f \in Seq(S) PROVE FullResync \o (SnapshotText \o f) = a \o f
        BY <2>6, Regrouped, SMTT(60)
      <4> HIDE DEF a
      <4> QED BY <2>3, <2>5, <4>1, <4>2
    <3> HIDE DEF a
    <3>3. Said(toClient, server, a \o feed, S)
      BY <3>1, <3>2
    <3>4. Said(toClient \o m, server, a \o (feed \o m), S)
      BY <2>2, <2>3, <2>4, <3>2, <3>3, FeedGrows
    <3> QED BY <2>2, <3>2, <3>4
  <2>11. main = "length" => Said(toClient', server', SnapshotText \o feed', S)
    BY <2>2, <2>3, <2>4, <2>6, <2>8, FeedGrows DEF Dialogue
  <2>12. main = "payload" => Said(toClient', server', Snapshot \o feed', S) /\ need = 3
    BY <2>2, <2>3, <2>4, <2>6, <2>8, FeedGrows DEF Dialogue
  <2>13. main = "spawn" \/ (main \in {"load", "bind", "listening"} /\ role = "Slave")
           => Said(toClient', server', feed', S)
    BY <2>2, <2>3, <2>4, <2>8, SaidMore DEF Dialogue
  <2>14. Dialogue(S)'
    BY <2>2, <2>7, <2>9, <2>10, <2>11, <2>12, <2>13 DEF Dialogue
  <2>15. Handshaking(S)'
    BY <2>1, <2>2, <2>5, <2>14 DEF Handshaking
  <2> QED BY <2>1, <2>2, <2>15 DEF HandshakeInv
<1> QED BY <1>1, <1>2

LEMMA MasterShakes ==
  ASSUME NEW S, Letters \subseteq S, SessionInv(S), Control, HandshakeInv(S), Master
  PROVE  HandshakeInv(S)'
<1>1. UNCHANGED process /\ (Serve \/ Forward \/ ServerEnds \/ Closes)
  BY DEF Master
<1>2. UNCHANGED <<main, role, need>>
  BY <1>1 DEF process
<1>3. CASE ServerEnds
  <2>1. Lose /\ server' = "closed" /\ UNCHANGED <<script, sent, executed, feed>>
    BY <1>3 DEF ServerEnds
  <2> QED BY <1>2, <2>1, LostBehind, HandshakeKept
<1>4. CASE Closes
  <2>1. server' = "closed" /\ UNCHANGED <<script, sent, toClient, executed, feed>>
    BY <1>4 DEF Closes, EndOfStream, channel
  <2> QED BY <1>2, <2>1, LetStand, HandshakeKept
<1> QED BY <1>1, <1>3, <1>4, HandshakeServed, HandshakeForwarded

LEMMA ClientShakes ==
  ASSUME NEW S, HandshakeInv(S), Client \/ UNCHANGED vars
  PROVE  HandshakeInv(S)'
<1>1. CASE Client
  BY <1>1 DEF Client, HandshakeInv, process
<1>2. CASE UNCHANGED vars
  <2>1. UNCHANGED <<script, main, role, need, sent, executed, feed, toClient, server>>
    BY <1>2 DEF vars, process, channel, task
  <2> QED BY <2>1, LetStand, HandshakeKept
<1> QED BY <1>1, <1>2

LEMMA HandshakeStart ==
  ASSUME NEW S, Init
  PROVE  HandshakeInv(S)
<1>1. /\ sent = 0 /\ toClient = <<>> /\ server = "reading" /\ executed = <<>> /\ feed = <<>> /\ need = 0
      /\ main \in {"start", "client"}
  BY DEF Init, SessionInit
<1>2. Said(<<>>, server, <<>>, S)
  <2>1. <<>> \in Seq(S)
    OBVIOUS
  <2> QED BY <2>1, SaidWhole
<1>3. Dialogue(S)
  BY <1>1, <1>2 DEF Dialogue
<1> QED BY <1>1, <1>3 DEF HandshakeInv, Handshaking

(* What main makes of what it reads.                                       *)
LEMMA ReplyIs ==
  ASSUME NEW S, Letters \subseteq S, NEW i
  PROVE  /\ Reply(i) \in Seq(S) /\ Len(Reply(i)) = 4 /\ Reply(i)[1] = "+"
         /\ \A j \in 1 .. 3 : Reply(i)[j] # "lf"
BY SaidTexts DEF Reply

LEMMA AnswerRead ==
  ASSUME NEW S, Letters \subseteq S, NEW x, NEW end, NEW t, t \in {<<>>, Reply(sent)},
         Said(x, end, t, S), NEW n \in 0 .. Len(x), ~ Refused(Parse(SubSeq(x, 1, n)))
  PROVE  t = Reply(sent) /\ SubSeq(x, n + 1, Len(x)) = <<>>
<1> DEFINE y == SubSeq(x, 1, n)
<1>1. x \in Seq(S) /\ t \in Seq(S) /\ Len(x) <= Len(t) /\ \A i \in 1 .. Len(x) : x[i] = t[i]
  BY DEF Said, Beginning
<1>2. /\ Len(Reply(sent)) = 4 /\ Reply(sent)[1] = "+"
      /\ \A j \in 1 .. 3 : Reply(sent)[j] # "lf"
  BY ReplyIs
<1>3. ~ Failed(Parse(y))
  BY DEF Refused
<1>4. Len(x) \in Nat /\ n \in Nat /\ n <= Len(x)
  BY <1>1
<1>5. y \in Seq(S) /\ Len(y) = n /\ \A i \in 1 .. n : y[i] = x[i]
  BY <1>1, <1>4
<1> HIDE DEF y
<1>6. t = Reply(sent) /\ n = 4
  <2> SUFFICES ASSUME ~ (t = Reply(sent) /\ n = 4) PROVE FALSE
    OBVIOUS
  <2>1. n <= 3 /\ (n > 0 => t = Reply(sent))
    <3>1. CASE t = <<>>
      BY <1>1, <1>4, <3>1
    <3>2. CASE t = Reply(sent)
      <4>1. n <= 4 /\ n # 4
        BY <1>1, <1>2, <1>4, <3>2
      <4> QED BY <1>4, <3>2, <4>1
    <3> QED BY <3>1, <3>2
  <2>2. y # <<>> => y[1] = "+"
    <3> SUFFICES ASSUME y # <<>> PROVE y[1] = "+"
      OBVIOUS
    <3>1. n > 0
      BY <1>4, <1>5
    <3>2. 1 \in 1 .. n /\ 1 \in 1 .. Len(x)
      BY <1>4, <3>1
    <3> QED BY <1>1, <1>2, <1>5, <2>1, <3>1, <3>2
  <2>3. \A i \in 1 .. Len(y) : y[i] # "lf"
    <3> SUFFICES ASSUME NEW i \in 1 .. n PROVE y[i] # "lf"
      BY <1>5
    <3>1. i \in 1 .. 3 /\ n > 0 /\ i \in 1 .. Len(x)
      BY <1>4, <2>1
    <3> QED BY <1>1, <1>2, <1>5, <2>1, <3>1
  <2>4. Parse(y) = Bad
    BY <1>5, <2>2, <2>3, NoAnswerYet
  <2> QED BY <1>3, <2>4 DEF Failed, Bad
<1>7. Len(x) = 4
  BY <1>1, <1>2, <1>4, <1>6
<1>8. SubSeq(x, n + 1, Len(x)) = <<>>
  BY <1>1, <1>6, <1>7
<1> QED BY <1>6, <1>8

(* A whole line is read, or what there is of it.                           *)
LEMMA LineTaken ==
  ASSUME NEW S, NEW a \in Seq(S), NEW b \in Seq(S), NEW k \in Nat \ {0}, Len(a) = k,
         a[k] = "lf", \A i \in 1 .. k - 1 : a[i] # "lf", Said(toClient, server, a \o b, S), TakeLine
  PROVE  \/ /\ LineEnd = k /\ k <= Len(toClient)
            /\ NextLine \in Seq(S) /\ Len(NextLine) = k /\ \A i \in 1 .. k : NextLine[i] = a[i]
            /\ Said(toClient', server, b, S)
         \/ /\ NextLine \in Seq(S) /\ Len(NextLine) < k
            /\ \A i \in 1 .. Len(NextLine) : NextLine[i] = a[i] /\ NextLine[i] # "lf"
<1>1. /\ toClient \in Seq(S) /\ Len(toClient) <= Len(a \o b)
      /\ \A i \in 1 .. Len(toClient) : toClient[i] = (a \o b)[i]
  BY DEF Said, Beginning
<1>2. \A i \in 1 .. k : (a \o b)[i] = a[i]
  BY Joining
<1>3. Len(toClient) \in Nat
  BY <1>1
<1>4. \A i \in 1 .. Len(toClient) : i <= k => toClient[i] = a[i]
  BY <1>1, <1>2, <1>3
<1>5. \A i \in 1 .. Len(toClient) : i <= k => (toClient[i] = "lf" <=> i = k)
  <2> SUFFICES ASSUME NEW i \in 1 .. Len(toClient), i <= k PROVE toClient[i] = "lf" <=> i = k
    OBVIOUS
  <2>1. i = k \/ i \in 1 .. k - 1
    BY <1>3
  <2> QED BY <1>4, <2>1
<1>6. CASE k <= Len(toClient)
  <2>1. LineEnd = k
    BY <1>1, <1>5, <1>6, LineFeedIs
  <2>2. NextLine = SubSeq(toClient, 1, k) /\ toClient' = SubSeq(toClient, k + 1, Len(toClient))
    BY <2>1 DEF NextLine, TakeLine
  <2>3. NextLine \in Seq(S) /\ Len(NextLine) = k /\ \A i \in 1 .. k : NextLine[i] = toClient[i]
    BY <1>1, <1>3, <1>6, <2>2
  <2>4. \A i \in 1 .. k : NextLine[i] = a[i]
    BY <1>3, <1>4, <1>6, <2>3
  <2>5. Said(toClient', server, b, S)
    BY <1>6, <2>2, SaidRest
  <2> QED BY <1>6, <2>1, <2>3, <2>4, <2>5
<1>7. CASE ~ (k <= Len(toClient))
  <2>1. NextLine = toClient
    BY <1>1, <1>5, <1>7, LineFeedIs
  <2>2. Len(NextLine) < k
    BY <1>3, <1>7, <2>1
  <2>3. \A i \in 1 .. Len(toClient) : i <= k /\ i # k
    BY <1>3, <1>7
  <2> QED BY <1>1, <1>4, <1>5, <2>1, <2>2, <2>3
<1> QED BY <1>6, <1>7

LEMMA ResyncRead ==
  ASSUME NEW S, Letters \subseteq S, NEW f \in Seq(S), NEW t,
         t \in {<<>>, FullResync \o (SnapshotText \o f)}, Said(toClient, server, t, S),
         TakeLine, ~ Failed(Parse(NextLine))
  PROVE  t # <<>> /\ Said(toClient', server, SnapshotText \o f, S)
<1> DEFINE b == SnapshotText \o f
<1>1. /\ FullResync \in Seq(S) /\ Len(FullResync) = 6 /\ FullResync[1] = "+"
      /\ FullResync[6] = "lf" /\ \A i \in 1 .. 5 : FullResync[i] # "lf"
  BY SaidTexts
<1>2. b \in Seq(S)
  BY SnapshotTexts, Joining
<1> HIDE DEF b
<1>3. ASSUME NextLine \in Seq(S), NextLine # <<>> => NextLine[1] = "+",
             \A i \in 1 .. Len(NextLine) : NextLine[i] # "lf"
      PROVE  FALSE
  <2>1. Parse(NextLine) = Bad
    BY <1>3, NoAnswerYet
  <2> QED BY <2>1 DEF Failed, Bad
<1>4. CASE t = <<>>
  <2>1. toClient = <<>>
    BY <1>4, SaidNothing
  <2>2. NextLine = <<>>
    <3>1. toClient \in Seq(S) /\ Len(toClient) = 0
      BY <2>1
    <3>2. \A i \in 1 .. Len(toClient) : i <= 1 => (toClient[i] = "lf" <=> i = 1)
      BY <3>1
    <3>3. NextLine = toClient
      BY <3>1, <3>2, LineFeedIs
    <3> QED BY <2>1, <3>3
  <2>3. NextLine \in Seq(S) /\ Len(NextLine) = 0
    BY <2>2
  <2> QED BY <1>3, <2>2, <2>3
<1>5. CASE t = FullResync \o b
  <2>1. \/ Said(toClient', server, b, S)
        \/ /\ NextLine \in Seq(S) /\ Len(NextLine) < 6
           /\ \A i \in 1 .. Len(NextLine) : NextLine[i] = FullResync[i] /\ NextLine[i] # "lf"
    <3> DEFINE a == FullResync
               k == 6
    <3>1. /\ a \in Seq(S) /\ k \in Nat \ {0} /\ Len(a) = k /\ a[k] = "lf"
          /\ \A i \in 1 .. k - 1 : a[i] # "lf"
      BY <1>1
    <3>2. Said(toClient, server, a \o b, S)
      BY <1>5
    <3> HIDE DEF a, k
    <3>3. \/ /\ LineEnd = k /\ k <= Len(toClient)
             /\ NextLine \in Seq(S) /\ Len(NextLine) = k /\ \A i \in 1 .. k : NextLine[i] = a[i]
             /\ Said(toClient', server, b, S)
          \/ /\ NextLine \in Seq(S) /\ Len(NextLine) < k
             /\ \A i \in 1 .. Len(NextLine) : NextLine[i] = a[i] /\ NextLine[i] # "lf"
      BY <1>2, <3>1, <3>2, LineTaken
    <3> QED BY <3>3 DEF a, k
  <2>2. CASE /\ NextLine \in Seq(S) /\ Len(NextLine) < 6
             /\ \A i \in 1 .. Len(NextLine) : NextLine[i] = FullResync[i] /\ NextLine[i] # "lf"
    <3>1. NextLine # <<>> => 1 \in 1 .. Len(NextLine)
      BY <2>2
    <3> QED BY <1>1, <1>3, <2>2, <3>1
  <2>3. t # <<>>
    <3> DEFINE a == FullResync
    <3>1. a \in Seq(S) /\ Len(a) = 6 /\ t = a \o b
      BY <1>1, <1>5
    <3> HIDE DEF a
    <3>2. Len(a \o b) = Len(a) + Len(b) /\ Len(b) \in Nat
      BY ONLY <1>2, <3>1, Joining
    <3>3. Len(a \o b) # 0
      BY <3>1, <3>2
    <3>4. Len(<<>>) = 0
      OBVIOUS
    <3> QED BY <3>1, <3>3, <3>4
  <2> QED BY <2>1, <2>2, <2>3 DEF b
<1> QED BY <1>4, <1>5 DEF b


LEMMA LengthRead ==
  ASSUME NEW S, Letters \subseteq S, NEW f \in Seq(S), Said(toClient, server, SnapshotText \o f, S),
         TakeLine, AnnouncesLength
  PROVE  IntOf(LengthText) = 3 /\ Said(toClient', server, Snapshot \o f, S)
<1> DEFINE a == LengthLine
           b == Snapshot \o f
           k == 4
<1>1. /\ a \in Seq(S) /\ Len(a) = k /\ k \in Nat \ {0}
      /\ a[1] = "$" /\ a[2] = "3" /\ a[3] = "cr" /\ a[4] = "lf" /\ a[k] = "lf"
      /\ \A i \in 1 .. k - 1 : a[i] # "lf"
  <2>1. /\ Len(a) = 4 /\ a[1] = "$" /\ a[2] = "3" /\ a[3] = "cr" /\ a[4] = "lf" /\ a \in Seq(S)
    BY SnapshotTexts
  <2>2. \A i \in 1 .. k - 1 : i = 1 \/ i = 2 \/ i = 3
    OBVIOUS
  <2> QED BY <2>1, <2>2
<1>2. Snapshot \in Seq(S) /\ SnapshotText = a \o Snapshot
  BY SnapshotTexts
<1>3. b \in Seq(S)
  BY <1>2, Joining
<1>4. Said(toClient, server, a \o b, S)
  <2>1. \A x, y, z \in Seq(S) : (x \o y) \o z = x \o (y \o z)
    BY Regrouped
  <2>2. (a \o Snapshot) \o f = a \o (Snapshot \o f)
    <3> HIDE DEF a
    <3> QED BY <1>1, <1>2, <2>1, SMTT(60)
  <2>3. a \o b = SnapshotText \o f
    <3> HIDE DEF a
    <3> QED BY <1>2, <2>2
  <2> QED BY <2>3
<1>5. Len(NextLine) >= 4
  BY DEF AnnouncesLength
<1> HIDE DEF a, b, k
<1>6. \/ /\ LineEnd = k /\ k <= Len(toClient)
         /\ NextLine \in Seq(S) /\ Len(NextLine) = k /\ \A i \in 1 .. k : NextLine[i] = a[i]
         /\ Said(toClient', server, b, S)
      \/ /\ NextLine \in Seq(S) /\ Len(NextLine) < k
         /\ \A i \in 1 .. Len(NextLine) : NextLine[i] = a[i] /\ NextLine[i] # "lf"
  BY <1>1, <1>3, <1>4, LineTaken
<1>7. /\ NextLine \in Seq(S) /\ Len(NextLine) = 4 /\ \A i \in 1 .. 4 : NextLine[i] = a[i]
      /\ Said(toClient', server, b, S)
  <2>1. ~ (NextLine \in Seq(S) /\ Len(NextLine) < k)
    BY <1>5 DEF k
  <2> QED BY <1>6, <2>1 DEF k
<1> DEFINE z == NextLine
           I == {i \in 1 .. Len(z) : z[i] = "cr"}
<1>8. z \in Seq(S) /\ Len(z) = 4 /\ z[1] = "$" /\ z[2] = "3" /\ z[3] = "cr" /\ z[4] = "lf"
  BY <1>1, <1>7
<1>9. SelectInSeq(NextLine, LAMBDA ch : ch = "cr") = IF I # {} THEN Min(I) ELSE 0
  BY DEF SelectInSeq
<1> HIDE DEF z
<1>10. I = {3}
  <2>1. \A i \in 1 .. 4 : i = 1 \/ i = 2 \/ i = 3 \/ i = 4
    OBVIOUS
  <2> QED BY <1>8, <2>1
<1>11. Min({3}) = 3
  BY DEF Min
<1>12. LengthText = SubSeq(z, 2, 2)
  <2>1. SelectInSeq(NextLine, LAMBDA ch : ch = "cr") = 3
    <3>1. I # {} /\ Min(I) = 3
      BY <1>10, <1>11
    <3> QED BY <1>9, <3>1
  <2>2. LengthText = SubSeq(NextLine, 2, SelectInSeq(NextLine, LAMBDA ch : ch = "cr") - 1)
    BY DEF LengthText
  <2>3. LengthText = SubSeq(NextLine, 2, 3 - 1)
    BY <2>1, <2>2
  <2>4. 3 - 1 = 2
    OBVIOUS
  <2> QED BY <2>3, <2>4 DEF z
<1>13. SubSeq(z, 2, 2) = <<"3">>
  <2> DEFINE y == SubSeq(z, 2, 2)
  <2>1. y \in Seq(S) /\ Len(y) = 1 /\ y[1] = z[2]
    <3> DEFINE m == 1
               n == 2
    <3>1. m \in Nat /\ n \in Nat /\ m <= n /\ n <= Len(z) /\ m + 1 = 2 /\ n - m = 1
      BY <1>8
    <3> HIDE DEF m, n
    <3>2. /\ SubSeq(z, m + 1, n) \in Seq(S) /\ Len(SubSeq(z, m + 1, n)) = n - m
          /\ \A i \in 1 .. n - m : SubSeq(z, m + 1, n)[i] = z[m + i]
      BY ONLY <1>8, <3>1, PieceOf
    <3>3. SubSeq(z, m + 1, n) = y
      BY <3>1 DEF n
    <3>4. 1 \in 1 .. n - m
      BY <3>1
    <3> QED BY <3>1, <3>2, <3>3, <3>4
  <2>2. y = <<"3">>
    <3> HIDE DEF y
    <3> QED BY <1>8, <2>1
  <2> QED BY <2>2
<1>14. IntOf(LengthText) = 3
  BY <1>12, <1>13, OneDigit
<1> QED BY <1>7, <1>14 DEF b

(* A step of main.                                                         *)
LEMMA HandshakeWritten ==
  ASSUME NEW S, Control, HandshakeInv(S), WriteRequest
  PROVE  HandshakeInv(S)'
<1>1. /\ main = "write" /\ sent < Len(script) /\ Len(script) = 4 /\ sent' = sent + 1
      /\ main' \in {"read", "line"}
      /\ UNCHANGED <<script, toClient, server, executed, feed, role, need>>
  BY ControlWrites
<1>2. Handshaking(S) /\ need \in Nat
  BY <1>1 DEF HandshakeInv
<1>3. Len(executed) = sent /\ Said(toClient, server, <<>>, S)
  BY <1>1, <1>2 DEF Handshaking, Dialogue
<1>4. sent \in 0 .. 3
  BY <1>1 DEF Control
<1>5. Len(executed') # sent' /\ Len(executed') >= sent' - 1
  BY <1>1, <1>3, <1>4
<1>6. Dialogue(S)'
  BY <1>1, <1>3, <1>5 DEF Dialogue
<1>7. Handshaking(S)'
  BY <1>1, <1>2, <1>5, <1>6 DEF Handshaking
<1> QED BY <1>1, <1>2, <1>7 DEF HandshakeInv

(* The steps that read: what is said behind what they take is what is      *)
(* expected next.                                                          *)
LEMMA AnswerTaken ==
  ASSUME NEW S, Letters \subseteq S, SessionInv(S), Handshaking(S), ReadAnswer
  PROVE  Dialogue(S)' /\ need' = need
<1>1. /\ main = "read" /\ main' \in {"failed", "write"}
      /\ UNCHANGED <<script, sent, toServer, task, options, role, need, link>>
  BY DEF ReadAnswer
<1>2. UNCHANGED <<server, executed, feed>>
  BY <1>1 DEF task
<1>3. CASE main' = "failed"
  BY <1>1, <1>3 DEF Dialogue
<1>4. CASE main' = "write"
  <2> DEFINE t == IF Len(executed) = sent THEN Reply(sent) ELSE <<>>
  <2>1. Said(toClient, server, t, S)
    BY <1>1 DEF Handshaking, Dialogue
  <2>2. PICK n \in (IF toClient = <<>> THEN {0} ELSE 1 .. Len(toClient)) :
          /\ main' = IF Refused(Parse(SubSeq(toClient, 1, n))) THEN "failed" ELSE "write"
          /\ toClient' = SubSeq(toClient, n + 1, Len(toClient))
    BY DEF ReadAnswer
  <2>3. n \in 0 .. Len(toClient)
    <3>1. Len(toClient) \in Nat
      BY <2>1 DEF Said, Beginning
    <3> QED BY <2>2, <3>1
  <2>4. ~ Refused(Parse(SubSeq(toClient, 1, n)))
    BY <1>4, <2>2
  <2>5. t \in {<<>>, Reply(sent)} /\ (Len(executed) # sent => t = <<>>)
    OBVIOUS
  <2> HIDE DEF t
  <2>6. t = Reply(sent) /\ SubSeq(toClient, n + 1, Len(toClient)) = <<>>
    BY <2>1, <2>3, <2>4, <2>5, AnswerRead
  <2>7. toClient' = <<>>
    BY <2>2, <2>6
  <2>8. Len(executed) = sent
    <3>1. Reply(sent) \in Seq(S) /\ Len(Reply(sent)) = 4
      BY ReplyIs
    <3>2. t # <<>>
      BY <2>6, <3>1
    <3> QED BY <2>5, <3>2
  <2>9. Said(toClient', server', <<>>, S)
    <3>1. <<>> \in Seq(S)
      OBVIOUS
    <3> QED BY <2>7, <3>1, SaidWhole
  <2> QED BY <1>1, <1>2, <1>4, <2>8, <2>9 DEF Dialogue
<1> QED BY <1>1, <1>3, <1>4

LEMMA ResyncTaken ==
  ASSUME NEW S, Letters \subseteq S, SessionInv(S), Handshaking(S), ReadResync
  PROVE  Dialogue(S)' /\ need' = need
<1>1. /\ main = "line" /\ main' \in {"failed", "length"} /\ TakeLine
      /\ main' = IF Failed(Parse(NextLine)) THEN "failed" ELSE "length"
      /\ UNCHANGED <<script, sent, toServer, task, options, role, need, link>>
  BY DEF ReadResync
<1>2. UNCHANGED <<server, executed, feed>>
  BY <1>1 DEF task
<1>3. CASE main' = "failed"
  BY <1>1, <1>3 DEF Dialogue
<1>4. CASE main' = "length"
  <2> DEFINE t == IF Len(executed) = sent THEN FullResync \o (SnapshotText \o feed) ELSE <<>>
  <2>1. Said(toClient, server, t, S) /\ feed \in Seq(S)
    BY <1>1 DEF Handshaking, Dialogue
  <2>2. ~ Failed(Parse(NextLine))
    BY <1>1, <1>4
  <2>3. /\ t \in {<<>>, FullResync \o (SnapshotText \o feed)}
        /\ Len(executed) # sent => t = <<>>
    OBVIOUS
  <2> HIDE DEF t
  <2>4. t # <<>> /\ Said(toClient', server, SnapshotText \o feed, S)
    BY <1>1, <2>1, <2>2, <2>3, ResyncRead
  <2>5. Len(executed) = sent
    BY <2>3, <2>4
  <2> QED BY <1>1, <1>2, <1>4, <2>4, <2>5 DEF Dialogue
<1> QED BY <1>1, <1>3, <1>4

LEMMA LengthTaken ==
  ASSUME NEW S, Letters \subseteq S, SessionInv(S), Handshaking(S), need \in Nat, ReadLength
  PROVE  Dialogue(S)' /\ need' \in Nat
<1>1. /\ main = "length" /\ TakeLine
      /\ main' = IF AnnouncesLength THEN "payload" ELSE "failed"
      /\ need' = IF AnnouncesLength THEN IntOf(LengthText) ELSE need
      /\ UNCHANGED <<script, sent, toServer, task, options, role, link>>
  BY DEF ReadLength
<1>2. UNCHANGED <<server, executed, feed>>
  BY <1>1 DEF task
<1>3. CASE ~ AnnouncesLength
  BY <1>1, <1>3 DEF Dialogue
<1>4. CASE AnnouncesLength
  <2>1. Len(executed) = sent /\ Said(toClient, server, SnapshotText \o feed, S) /\ feed \in Seq(S)
    BY <1>1 DEF Handshaking, Dialogue
  <2>2. IntOf(LengthText) = 3 /\ Said(toClient', server, Snapshot \o feed, S)
    BY <1>1, <1>4, <2>1, LengthRead
  <2> QED BY <1>1, <1>2, <1>4, <2>1, <2>2 DEF Dialogue
<1> QED BY <1>3, <1>4

LEMMA PayloadTaken ==
  ASSUME NEW S, Letters \subseteq S, SessionInv(S), Handshaking(S), ReadPayload
  PROVE  Dialogue(S)' /\ need' = need
<1>1. /\ main = "payload" /\ main' = "spawn" /\ Len(toClient) >= need
      /\ toClient' = SubSeq(toClient, need + 1, Len(toClient))
      /\ UNCHANGED <<sent, server, executed, feed, role, need>>
  BY DEF ReadPayload, Moves, task
<1>2. /\ Len(executed) = sent /\ Said(toClient, server, Snapshot \o feed, S)
      /\ feed \in Seq(S) /\ need = 3
  BY <1>1 DEF Handshaking, Dialogue
<1>3. Snapshot \in Seq(S) /\ Len(Snapshot) = 3
  BY SnapshotTexts
<1>4. Len(Snapshot) <= Len(toClient) /\ need = Len(Snapshot)
  BY <1>1, <1>2, <1>3
<1>5. Said(SubSeq(toClient, need + 1, Len(toClient)), server, feed, S)
  BY <1>2, <1>3, <1>4, SaidRest
<1> QED BY <1>1, <1>2, <1>5 DEF Dialogue

(* The steps that neither read nor write.                                  *)
LEMMA StepTaken ==
  ASSUME NEW S, SessionInv(S), Control, Handshaking(S), Main,
         ~ WriteRequest, ~ ReadAnswer, ~ ReadResync, ~ ReadLength, ~ ReadPayload
  PROVE  Dialogue(S)' /\ need' = need
<1>1. Dialogue(S)
  BY DEF Handshaking
<1>2. CASE BeMaster
  <2>1. /\ main = "start" /\ main' = "load" /\ UNCHANGED <<sent, executed, role, need>>
    BY <1>2 DEF BeMaster, Moves, task
  <2>2. role = "Master" /\ Len(executed) = sent
    BY <1>1, <2>1 DEF Control, Dialogue
  <2> QED BY <2>1, <2>2 DEF Dialogue
<1>3. CASE NoAddress \/ WriteFails \/ PayloadCut \/ LoadFails \/ BindFails
  <2>1. main' \in Ended /\ need' = need
    BY <1>3 DEF NoAddress, WriteFails, PayloadCut, LoadFails, BindFails, Moves, Ended
  <2> QED BY <2>1 DEF Dialogue, Ended
<1>4. CASE Connect
  <2>1. /\ main = "start" /\ main' \in {"returned", "write"} /\ need' = need
        /\ UNCHANGED <<sent, toClient, server, executed, feed>>
    BY <1>4 DEF Connect, Moves, task, channel
  <2> QED BY <1>1, <2>1 DEF Dialogue
<1>5. CASE Spawn
  <2>1. /\ main = "spawn" /\ main' = "load"
        /\ UNCHANGED <<sent, toClient, server, executed, feed, role, need>>
    BY <1>5 DEF Spawn, Moves, task, channel
  <2> QED BY <1>1, <2>1 DEF Dialogue
<1>6. CASE Load \/ Bind
  <2>1. /\ main \in {"load", "bind"} /\ main' \in {"bind", "listening"}
        /\ UNCHANGED <<sent, toClient, server, executed, feed, role, need>>
    BY <1>6 DEF Load, Bind, Moves, task, channel
  <2> QED BY <1>1, <2>1 DEF Dialogue
<1> QED BY <1>2, <1>3, <1>4, <1>5, <1>6 DEF Main, BeReplica

LEMMA MainShakes ==
  ASSUME NEW S, Letters \subseteq S, SessionInv(S), Control, HandshakeInv(S), Main
  PROVE  HandshakeInv(S)'
<1>1. CASE WriteRequest
  BY <1>1, HandshakeWritten
<1>2. CASE ~ WriteRequest
  <2>1. UNCHANGED <<script, sent, server, executed, feed>>
    BY <1>2, ControlMoves
  <2>2. main # "client"
    <3>1. main \in {"start", "write", "read", "line", "length", "payload", "spawn", "load", "bind"}
      BY DEF Main, BeReplica, BeMaster, Connect, NoAddress, WriteRequest, WriteFails, ReadAnswer,
             ReadResync, ReadLength, ReadPayload, PayloadCut, Spawn, Load, LoadFails, Bind,
             BindFails, Moves
    <3> QED BY <3>1
  <2>3. Handshaking(S) /\ need \in Nat
    BY <2>2 DEF HandshakeInv
  <2>4. Dialogue(S)' /\ need' \in Nat
    BY <1>2, <2>3, AnswerTaken, ResyncTaken, LengthTaken, PayloadTaken, StepTaken
  <2>5. Handshaking(S)'
    BY <2>1, <2>3, <2>4 DEF Handshaking
  <2> QED BY <2>4, <2>5 DEF HandshakeInv
<1> QED BY <1>1, <1>2

LEMMA HandshakeGoesOn ==
  ASSUME NEW S, Letters \subseteq S, PlainInputs(S)
  PROVE  FairSpec => [](SessionInv(S) /\ Control /\ HandshakeInv(S))
<1>1. Init => HandshakeInv(S)
  BY HandshakeStart
<1>2. SessionInv(S) /\ Control /\ HandshakeInv(S) /\ [Next]_vars => HandshakeInv(S)'
  <2> SUFFICES ASSUME SessionInv(S), Control, HandshakeInv(S), [Next]_vars
               PROVE  HandshakeInv(S)'
    OBVIOUS
  <2>1. CASE Main
    BY <2>1, MainShakes
  <2>2. CASE Client \/ UNCHANGED vars
    BY <2>2, ClientShakes
  <2>3. CASE Master
    BY <2>3, MasterShakes
  <2> QED BY <2>1, <2>2, <2>3 DEF Next
<1>3. FairSpec => [](SessionInv(S) /\ Control)
  BY ConnectionKept
<1> QED BY <1>1, <1>2, <1>3, PTL DEF FairSpec

(* src/main.rs:46-372: the types of a process, its connection and its      *)
(* link; the link lives in a process that runs.                            *)
THEOREM StartupTypeCorrect ==
  ASSUME NEW S, Letters \subseteq S, PlainInputs(S)
  PROVE  FairSpec => []TypeOK
<1>1. SessionInv(S) /\ Control /\ HandshakeInv(S) => TypeOK
  <2> SUFFICES ASSUME SessionInv(S), Control, HandshakeInv(S) PROVE TypeOK
    OBVIOUS
  <2>1. Len(executed) <= sent
    BY ExecutedSent
  <2>2. /\ sent \in 0 .. Len(script) /\ server \in {"reading", "piped", "closed"}
        /\ apart \in BOOLEAN /\ served \in 0 .. sent
    BY DEF SessionInv, Connected, OneByOne
  <2>3. SessionTypeOK
    BY <2>1, <2>2 DEF SessionTypeOK
  <2> QED BY <2>3 DEF Control, HandshakeInv, TypeOK
<1> QED BY <1>1, HandshakeGoesOn, PTL

(* src/main.rs:162-246 against 314-372: the two ends stay in step, for     *)
(* every port that is a plain word, however the handshake is cut into      *)
(* chunks and wherever the connection ends.                                *)
THEOREM HandshakeStaysInStep ==
  ASSUME NEW S, Letters \subseteq S, PlainInputs(S)
  PROVE  FairSpec => []InStep
<1>1. SessionInv(S) /\ Control /\ HandshakeInv(S) => InStep
  <2> SUFFICES ASSUME SessionInv(S), Control, HandshakeInv(S), main # "client"
               PROVE  /\ executed = SubSeq([i \in 1 .. Len(script) |-> script[i].means], 1, Len(executed))
                      /\ main \notin Ended => Len(executed) \in Answered .. sent
                      /\ server = "piped" => Len(executed) = Len(script)
                      /\ role = "Slave" /\ main \in {"spawn", "load", "bind", "listening"} =>
                           Len(executed) = Len(script)
    BY DEF InStep
  <2>1. /\ Len(executed) >= sent - 1
        /\ \A i \in 1 .. Len(executed) : executed[i] = script[i].means
        /\ server = "piped" => Len(executed) = 4
        /\ Dialogue(S)
    BY DEF HandshakeInv, Handshaking
  <2>2. Len(script) = 4
    BY ScriptLength
  <2>3. /\ Len(executed) \in Nat /\ sent \in Nat /\ Len(executed) <= sent /\ sent <= Len(script)
        /\ executed \in Seq(AllMeanings)
    BY ExecutedSent
  <2> DEFINE all == [i \in 1 .. Len(script) |-> script[i].means]
             T == {script[i].means : i \in 1 .. Len(script)} \cup AllMeanings
             n == Len(executed)
             p == SubSeq(all, 1, n)
  <2>4. executed = p
    <3>1. all \in [1 .. 4 -> T] /\ \A i \in 1 .. 4 : all[i] = script[i].means
      BY <2>2
    <3>2. executed \in Seq(T) /\ n \in Nat /\ n <= 4
      BY <2>2, <2>3
    <3>3. n = Len(executed) /\ \A i \in 1 .. n : executed[i] = script[i].means
      BY <2>1
    <3> HIDE DEF all, T, n
    <3>4. all \in Seq(T) /\ Len(all) = 4
      <4> DEFINE k == 4
      <4>1. k \in Nat /\ all \in [1 .. k -> T]
        BY <3>1
      <4> HIDE DEF k
      <4>2. all \in Seq(T) /\ Len(all) = k
        BY <4>1, TupleIsSeq
      <4> QED BY <4>2 DEF k
    <3>5. p \in Seq(T) /\ Len(p) = n /\ \A i \in 1 .. n : p[i] = all[i]
      BY <3>2, <3>4
    <3> HIDE DEF p
    <3>6. \A i \in 1 .. n : executed[i] = p[i]
      BY <3>1, <3>2, <3>3, <3>5
    <3> QED BY <3>2, <3>3, <3>5, <3>6, Extensional
  <2>5. main \notin Ended => Len(executed) \in Answered .. sent
    <3>1. main \notin Ended \cup {"read", "line"} => Len(executed) = sent
      BY <2>1 DEF Dialogue, Control, Places
    <3>2. Answered \in {sent - 1, sent} /\ (main \notin {"read", "line"} => Answered = sent)
          /\ (main \in {"read", "line"} => Answered = sent - 1)
      BY DEF Answered
    <3> QED BY <2>1, <2>3, <3>1, <3>2
  <2>6. role = "Slave" /\ main \in {"spawn", "load", "bind", "listening"} => Len(executed) = Len(script)
    <3>1. main \in {"spawn", "load", "bind", "listening"} => Len(executed) = sent
      BY <2>1 DEF Dialogue
    <3>2. role = "Slave" /\ main \in {"spawn", "load", "bind", "listening"} => sent = 4
      BY DEF Control
    <3> QED BY <2>2, <3>1, <3>2
  <2> QED BY <2>1, <2>2, <2>4, <2>5, <2>6
<1> QED BY <1>1, HandshakeGoesOn, PTL

(* src/main.rs:228-248 against 343-370: the handshake takes the FULLRESYNC *)
(* line and the snapshot off the stream and not a character of the feed,   *)
(* however long the feed behind them is.                                   *)
THEOREM SnapshotIsReadExactly ==
  ASSUME NEW S, Letters \subseteq S, PlainInputs(S)
  PROVE  FairSpec => []SnapshotExact
<1>1. SessionInv(S) /\ Control /\ HandshakeInv(S) => SnapshotExact
  <2> SUFFICES ASSUME Control, HandshakeInv(S),
                      main \in {"spawn", "load", "bind", "listening"}, role = "Slave"
               PROVE  IsPrefix(toClient, feed) /\ (server = "piped" => toClient = feed)
    BY DEF SnapshotExact
  <2>1. Said(toClient, server, feed, S)
    BY DEF HandshakeInv, Handshaking, Dialogue
  <2>2. /\ toClient \in Seq(S) /\ feed \in Seq(S) /\ Len(toClient) <= Len(feed)
        /\ \A i \in 1 .. Len(toClient) : toClient[i] = feed[i]
        /\ server = "piped" => toClient = feed
    BY <2>1 DEF Said, Beginning
  <2>3. SubSeq(toClient, 1, Len(toClient)) = SubSeq(feed, 1, Len(toClient))
    <3> DEFINE n == Len(toClient)
               p == SubSeq(toClient, 1, n)
               q == SubSeq(feed, 1, n)
    <3>1. n \in Nat /\ n <= Len(toClient) /\ n <= Len(feed) /\ \A i \in 1 .. n : toClient[i] = feed[i]
      BY <2>2
    <3> HIDE DEF n
    <3>2. p \in Seq(S) /\ Len(p) = n /\ \A i \in 1 .. n : p[i] = toClient[i]
      BY <2>2, <3>1
    <3>3. q \in Seq(S) /\ Len(q) = n /\ \A i \in 1 .. n : q[i] = feed[i]
      BY <2>2, <3>1
    <3> HIDE DEF p, q
    <3>4. p = q
      BY <3>1, <3>2, <3>3, Extensional
    <3> QED BY <3>4 DEF n, p, q
  <2> QED BY <2>2, <2>3 DEF IsPrefix
<1> QED BY <1>1, HandshakeGoesOn, PTL
=============================================================================
