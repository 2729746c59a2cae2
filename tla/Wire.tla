-------------------------------- MODULE Wire --------------------------------
(***************************************************************************)
(* What a replica makes of a chunk of the replication stream: the result   *)
(* of parse_multi_array (src/parser.rs) and parse_command                  *)
(* (src/command_parser.rs) on a piece of text that starts and ends         *)
(* anywhere in a sequence of SET messages, as a function of the two cuts.  *)
(*                                                                         *)
(* A chunk is what one fill_buf returned (src/main.rs, connect_master), so *)
(* TCP and the size of the buffer decide where it is cut.  Module Resp     *)
(* holds the parser itself, character by character, and its runs compare   *)
(* the two on every chunk of a stream.                                     *)
(*                                                                         *)
(* The text of a message is that of generate_resp (src/utils.rs):          *)
(*     *5 crlf  $3 crlf set crlf  $n crlf key crlf  $n crlf value crlf     *)
(*              $2 crlf px crlf  $n crlf milliseconds crlf                 *)
(* or *3 and the first three arguments.  No argument has a line break in   *)
(* it or begins with a character that starts a message; it may be empty,   *)
(* and key and value may hold a `*' before a digit, where the parser takes *)
(* a new message to begin.  Two things are left out: a cut inside an       *)
(* argument next to another such character, and a star behind which the    *)
(* rest of the message reads as a command of its own.                      *)
(***************************************************************************)
EXTENDS Integers, Sequences

CONSTANT NoPx       \* a SET without PX

(* A message is [px, stars]: its deadline, and which arguments hold a star  *)
(* before a digit, of the key, 2, and the value, 3.                         *)
Args(m) == IF m.px = NoPx THEN 3 ELSE 5

(* Where a message can be cut: a point <<a, w>> lies in argument a, or,    *)
(* for a = 0, in the line that announces how many there are.               *)
(*   <<0, 0>>  before the message       <<a, 0>>  before the `$'           *)
(*   <<0, 1>>  behind the `*'           <<a, 1>>  behind the `$'           *)
(*   <<0, 2>>  behind the number        <<a, 2>>  behind the length        *)
(*   <<0, 3>>  between cr and lf        <<a, 3>>  between cr and lf        *)
(*                                      <<a, 4>>  before the last character*)
(*                                      <<a, 5>>  behind the argument      *)
Point == ({0} \X (0 .. 3)) \cup ((1 .. 5) \X (0 .. 5))
Start == <<0, 0>>
Star == <<0, 1>>

(* A position is a message and a point in it; positions are read in order. *)
Position == (Nat \ {0}) \X Point

Later(p, q) ==
  \/ p[1] > q[1]
  \/ p[1] = q[1] /\ p[2][1] > q[2][1]
  \/ p[1] = q[1] /\ p[2][1] = q[2][1] /\ p[2][2] > q[2][2]

-----------------------------------------------------------------------------
(* The end of a chunk.  parse_array pushes a line it finds empty as an     *)
(* element of its own, which parse refuses, but drops a length without its *)
(* argument; parse_bulk_string slices beyond the end of a short argument   *)
(* and parse_multi_array looks one character beyond a `*': both panic.     *)
Refusing(e) == \/ e = <<0, 3>>
               \/ e[1] > 0 /\ e[2] \in {0, 1, 3}
Panicking(e) == \/ e = Star
                \/ e[1] > 0 /\ e[2] = 4

(* How many arguments the parser sees of a message cut at e.               *)
ArgsSeen(e) == IF e[2] = 5 THEN e[1] ELSE IF e[1] = 0 THEN 0 ELSE e[1] - 1

(* parse_set_command is content with three arguments, although the message *)
(* announced five: the deadline is gone.  Any other part of a message it   *)
(* refuses, and nobody is told.                                            *)
Remnant(text, k, e) ==
  IF e # Start /\ ArgsSeen(e) \in {3, Args(text[k])}
    THEN <<[msg |-> k, whole |-> ArgsSeen(e) = Args(text[k])]>>
    ELSE <<>>

Whole(first, last) ==
  [j \in 1 .. (IF first <= last THEN last - first + 1 ELSE 0) |->
     [msg |-> first + j - 1, whole |-> TRUE]]

Read(cmds) == [fate |-> "read", cmds |-> cmds]
Refused == [fate |-> "refused", cmds |-> <<>>]
Panicked == [fate |-> "panicked", cmds |-> <<>>]

(* The messages from the i-th to the cut e of the k-th.                    *)
UpTo(text, i, k, e) ==
  IF Refusing(e) THEN Refused
  ELSE IF Panicking(e) THEN Panicked
  ELSE Read(Whole(i, k - 1) \o Remnant(text, k, e))

(* The beginning of a chunk.  In front of a message all is well, unless    *)
(* the chunk is nothing but a `*'.                                         *)
FromStart(text, i, k, e) ==
  IF k = i /\ e = Star THEN Refused ELSE UpTo(text, i, k, e)

(* In front of a `$' the parser takes the text up to the second `*' for    *)
(* one bulk string: the rest of the message and all of the next are gone.  *)
FromHeader(text, i, a, k, e) ==
  IF k > i + 1 THEN UpTo(text, i + 2, k, e)
  ELSE IF k = i /\ e[1] = a /\ e[2] < 4 THEN Refused
  ELSE IF (k = i /\ e = <<a, 4>>) \/ (k = i + 1 /\ e = Star) THEN Panicked
  ELSE Read(<<>>)

(* Anywhere else the first character is no symbol, and with the first      *)
(* message parse_multi_array gives up on the whole chunk.  This is what    *)
(* becomes of a chunk with no star in an argument.                         *)
Digest(text, from, to) ==
  IF from[2] = Start
    THEN FromStart(text, from[1], to[1], to[2])
  ELSE IF from[2][1] > 0 /\ from[2][2] = 0
    THEN FromHeader(text, from[1], from[2][1], to[1], to[2])
  ELSE Refused

-----------------------------------------------------------------------------
(* Stars in arguments.                                                     *)

(* Between two positions of the text there is one.                         *)
Starred(text, from, to) ==
  \E j \in from[1] .. to[1] :
    /\ to # <<j, Start>>
    /\ \E a \in text[j].stars :
         /\ j > from[1] \/ a >= from[2][1]
         /\ j < to[1] \/ a < to[2][1] \/ (a = to[2][1] /\ to[2][2] > 3)

(* parse_multi_array cuts the text at such a star, and parse_bulk_string   *)
(* slices the argument in front of it beyond its end.                      *)
InStep(text, i, k, e) ==
  IF Starred(text, <<i, Start>>, <<k, e>>) THEN Panicked ELSE UpTo(text, i, k, e)

(* A chunk that begins inside a message: it depends on how many stars      *)
(* there are, and on the number behind each, whether the parser gets back  *)
(* in step with the messages, and at which of them.                        *)
OutOfStep(text, i, k, e) ==
  {Refused, Panicked, Read(<<>>)} \cup {InStep(text, j, k, e) : j \in i + 1 .. k}

(* All that can become of a chunk; DigestsAtLineStart is that of a parser  *)
(* which looks whether the star begins a line, and no action uses it.      *)
DigestsAtLineStart(text, from, to) == {Digest(text, from, to)}

Digests(text, from, to) ==
  IF ~ Starred(text, from, to) THEN {Digest(text, from, to)}
  ELSE IF from[2] = Start THEN {Panicked}
  ELSE OutOfStep(text, from[1], to[1], to[2])
=============================================================================
