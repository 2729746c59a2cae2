------------------------------- MODULE Stream -------------------------------
(***************************************************************************)
(* The loop in which a replica reads its master's stream (src/main.rs,     *)
(* connect_master), on the text itself: every turn parses and executes     *)
(* what one fill_buf returned, and forgets it.  TCP may cut the stream     *)
(* anywhere; a SET message is the text of generate_resp.                   *)
(***************************************************************************)
EXTENDS Resp, Wire

CONSTANT Streams       \* sequences of SETs, [key, val, px]

VARIABLES
  stream,        \* the SETs the master replicates
  begun, taken,  \* the characters of the last chunk: begun + 1 .. taken
  made           \* what parse_multi_array made of them, Unread before

vars == <<stream, begun, taken, made>>

PxOf(m) == IF m.px = NoPx THEN <<"no px">> ELSE <<"px", m.px>>
TextOf(m) == GenerateResp(m.key, m.val, PxOf(m))
Text == FlattenSeq([i \in DOMAIN stream |-> TextOf(stream[i])])

Unread == [fate |-> <<"unread">>]

Init ==
  /\ stream \in Streams
  /\ begun = 0 /\ taken = 0
  /\ made = [fate |-> Fine, out |-> <<>>]

(* fill_buf returns some of the text.                                      *)
ReadChunk ==
  /\ made.fate \in {Fine, Bad}
  /\ taken' \in taken + 1 .. Len(Text)
  /\ begun' = taken
  /\ made' = Unread
  /\ UNCHANGED stream

(* It is parsed.  What does not parse is dropped; a panic ends the task.   *)
ParseChunk ==
  /\ made = Unread
  /\ made' = ParseMultiArray(SubSeq(Text, begun + 1, taken))
  /\ UNCHANGED <<stream, begun, taken>>

(* The commands of the last chunk that are executed, and what they add to  *)
(* the replica's offset.                                                   *)
Executed == IF made.fate = Fine THEN Commands(made.out) ELSE <<>>
Counted ==
  LET sum[i \in 0 .. Len(Executed)] ==
        IF i = 0 THEN 0
        ELSE sum[i - 1] + OffsetIncrement(Executed[i][2], Executed[i][3], Executed[i][4])
  IN  sum[Len(Executed)]

Next == ReadChunk \/ ParseChunk
Spec == Init /\ [][Next]_vars

-----------------------------------------------------------------------------
CommandOf(m, whole) ==
  <<"set", m.key, m.val, IF whole THEN PxOf(m) ELSE <<"no px">> >>

(* The point of every offset inside a message: all places inside a payload *)
(* or a number are one point, and so are the two behind a payload.         *)
ArgumentPoints(a, length) ==
  LET header == Width(length) + 3 IN
  [w \in 1 .. header + length + 2 |->
     <<a, IF w <= 2 THEN w - 1 ELSE IF w < header THEN 2 ELSE IF w = header THEN 3
          ELSE IF w <= header + length THEN 4 ELSE 5>>]

PointsOf(m) ==
  LET lengths == IF m.px = NoPx THEN <<3, Len(m.key), Len(m.val)>>
                 ELSE <<3, Len(m.key), Len(m.val), 2, Width(m.px)>>
  IN  << <<0, 0>>, <<0, 1>>, <<0, 2>>, <<0, 3>> >>
        \o FlattenSeq([a \in DOMAIN lengths |-> ArgumentPoints(a, lengths[a])])

(* The positions of the text, in order, and the one at its end.            *)
Positions ==
  FlattenSeq([i \in DOMAIN stream |->
                LET points == PointsOf(stream[i])
                IN  [j \in DOMAIN points |-> <<i, points[j]>>]])
    \o << <<Len(stream) + 1, Start>> >>
PositionAt(n) == Positions[n + 1]

(* The messages as Wire knows them.                                        *)
HasStar(word) == \E n \in 1 .. Len(word) - 1 : word[n] = "*" /\ IsDigit(word[n + 1])
StarsOf(m) == {a \in {2, 3} : HasStar(IF a = 2 THEN m.key ELSE m.val)}
Outlines == [i \in DOMAIN stream |-> [px |-> stream[i].px, stars |-> StarsOf(stream[i])]]

(* src/parser.rs, parse_multi_array and src/command_parser.rs, parse_set:  *)
(* whatever a chunk does to the commands in it is what Wire says of its    *)
(* two cuts: which SETs survive, which lose their deadline, which chunks   *)
(* are refused as a whole and which end the replica's task.                *)
Agrees(digest) ==
  /\ digest.fate = (CASE made.fate = Fine  -> "read"
                      [] made.fate = Bad   -> "refused"
                      [] made.fate = Panic -> "panicked")
  /\ Executed = [j \in DOMAIN digest.cmds |->
                   CommandOf(stream[digest.cmds[j].msg], digest.cmds[j].whole)]

ChunkDigest ==
  made # Unread =>
    \E digest \in Digests(Outlines, PositionAt(begun), PositionAt(taken)) : Agrees(digest)

(* src/main.rs:280-297: of a chunk of whole messages that is understood    *)
(* the replica counts nine characters too few per message (it leaves out   *)
(* the word SET and its header), and the same nine whatever the lengths of *)
(* key, value and PX.                                                      *)
OffsetFallsShort ==
  /\ made.fate = Fine
  /\ PositionAt(begun)[2] = Start /\ PositionAt(taken)[2] = Start
  => Counted = (taken - begun) - 9 * Len(Executed)

(* The text in front of message i.                                         *)
Before(i) == FlattenSeq([j \in 1 .. i - 1 |-> TextOf(stream[j])])

(* src/parser.rs, parse, as src/main.rs:322 uses it on what a client sent: *)
(* of a chunk that starts with a whole request, parse makes that request,  *)
(* whatever follows it, and reports nothing of what follows.               *)
FirstRequestOnly ==
  \A i \in DOMAIN stream :
    LET request == TextOf(stream[i])
    IN  begun = Len(Before(i)) /\ taken - begun >= Len(request) =>
          Parse(SubSeq(Text, begun + 1, taken)) = Parse(request)

(* README.md:9: any key and value can be stored with SET.  What            *)
(* generate_resp writes, whole and alone, is parsed and understood as the  *)
(* SET it was made of.                                                     *)
SetIsUnderstood ==
  \A i \in DOMAIN stream :
    LET request == Parse(TextOf(stream[i]))
    IN  request[1] = "array" /\ ParseSet(request[2]) = CommandOf(stream[i], TRUE)
=============================================================================
