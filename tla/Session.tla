------------------------------- MODULE Session -------------------------------
(***************************************************************************)
(* One connection of a server, on the text itself (src/main.rs,            *)
(* handle_commands): what a client writes arrives in chunks, TCP cuts and  *)
(* joins as it likes, of every chunk the first value is parsed and, if it  *)
(* is a command, executed and answered.  The connection that sends PSYNC   *)
(* gets a snapshot and then the feed.                                      *)
(*                                                                         *)
(* Transactions, and what a command does to the map, are Server's: no      *)
(* client here sends MULTI, EXEC or DISCARD, and the answer to a command   *)
(* that reads the map or the options is one token.                         *)
(*                                                                         *)
(* SnapshotTextOfDigits, IgnorePolitely and SyncWithoutSnapshot are slips  *)
(* of the operator each of them precedes, which no action uses.            *)
(***************************************************************************)
EXTENDS Commands

CONSTANT MaxFeed        \* bound: SETs of other clients the pipe forwards

VARIABLES
  script,        \* the requests of the client: [text, means, short], see NothingMadeUp
  sent,          \* how many of these requests it has written
  toServer,      \* text written by the client and not yet read
  toClient,      \* text written by the server and not yet read
  server,        \* the connection's task: reading, piped, closed
  executed,      \* the commands it has executed, oldest first
  feed,          \* history: the text of the feed forwarded so far
  apart,         \* history: every chunk so far was one whole request ...
  served         \* history: ... and there were so many

channel == <<toServer, toClient>>
task == <<server, executed, feed, apart, served>>

Line(words) == words \o CrLf
Ok == Line(<<"+", "OK">>)
Pong == Line(<<"+", "PONG">>)
FullResync == Line(<<"+", "FULLRESYNC", "id", "0">>)

(* The snapshot's bytes are a constant of the source; one of them is a     *)
(* line feed.  It is sent without a line break behind it.                  *)
Snapshot == <<"RED", "lf", "IS">>
SnapshotTextOfDigits == <<"$">> \o Decimal[2 * Len(Snapshot)] \o CrLf \o Snapshot
SnapshotText == <<"$">> \o Decimal[Len(Snapshot)] \o CrLf \o Snapshot

Answer(cmd) ==
  CASE cmd[1] = "ping"                              -> Pong
    [] cmd[1] = "echo"                              -> Line(<<"+">> \o cmd[2])
    [] cmd[1] \in {"set", "listening-port", "capa"} -> Ok
    [] cmd[1] = "getack"                            -> ArrayText(<<ReplconfWord, AckWord, <<"0">> >>)
    [] cmd[1] = "ack"                               -> <<>>
    [] OTHER                                        -> Line(<<"an answer">>)

SessionTypeOK ==
  /\ sent \in 0 .. Len(script)
  /\ server \in {"reading", "piped", "closed"}
  /\ Len(executed) <= sent
  /\ apart \in BOOLEAN
  /\ served \in 0 .. sent

SessionInit ==
  /\ sent = 0
  /\ toServer = <<>> /\ toClient = <<>>
  /\ server = "reading"
  /\ executed = <<>>
  /\ feed = <<>>
  /\ apart = TRUE /\ served = 0

-----------------------------------------------------------------------------
(* The server's side.                                                      *)

(* A chunk's first value, and the command it is, if any.                   *)
FirstValue(n) == Parse(SubSeq(toServer, 1, n))
CommandIn(value) == IF value[1] = "array" THEN ParseCommand(value[2]) ELSE NoCommand
WantsSnapshot(cmd) == cmd[1] = "psync" /\ cmd[2] = <<"no id">>
Has(cmd) == cmd # NoCommand /\ (cmd[1] = "psync" => WantsSnapshot(cmd))

(* fill_buf returns some of the text, and it is taken.                     *)
TakeChunk(n) ==
  LET chunk == SubSeq(toServer, 1, n)
      alone == served < Len(script) /\ chunk = script[served + 1].text
  IN  /\ toServer' = SubSeq(toServer, n + 1, Len(toServer))
      /\ apart' = (apart /\ alone)
      /\ served' = IF apart /\ alone THEN served + 1 ELSE served

(* Not the protocol: the task ends, by its `?' or by a panic, and the      *)
(* socket is dropped.  A reset may overtake what was written before.       *)
Lose == \E k \in 0 .. Len(toClient) : toClient' = SubSeq(toClient, 1, k)

Disconnect(n, value) ==
  /\ Failed(value)
  /\ TakeChunk(n)
  /\ server' = "closed"
  /\ Lose
  /\ UNCHANGED <<executed, feed>>

(* No array, no command, or a PSYNC with an id: nothing happens, and       *)
(* nothing is said.                                                        *)
IgnorePolitely(n, value) ==
  /\ ~ Failed(value)
  /\ ~ Has(CommandIn(value))
  /\ TakeChunk(n)
  /\ toClient' = toClient \o Ok
  /\ UNCHANGED <<server, executed, feed>>

Ignore(n, value) ==
  /\ ~ Failed(value)
  /\ ~ Has(CommandIn(value))
  /\ TakeChunk(n)
  /\ UNCHANGED <<toClient, server, executed, feed>>

Execute(n, value) ==
  LET cmd == CommandIn(value) IN
  /\ ~ Failed(value)
  /\ Has(cmd) /\ ~ WantsSnapshot(cmd)
  /\ TakeChunk(n)
  /\ executed' = Append(executed, cmd)
  /\ toClient' = toClient \o Answer(cmd)
  /\ UNCHANGED <<server, feed>>

(* PSYNC: the FULLRESYNC line, the snapshot, and from then on the pipe.    *)
SyncWithoutSnapshot(n, value) ==
  LET cmd == CommandIn(value) IN
  /\ ~ Failed(value)
  /\ Has(cmd) /\ WantsSnapshot(cmd)
  /\ TakeChunk(n)
  /\ executed' = Append(executed, cmd)
  /\ toClient' = toClient \o FullResync
  /\ server' = "piped"
  /\ UNCHANGED feed

Sync(n, value) ==
  LET cmd == CommandIn(value) IN
  /\ ~ Failed(value)
  /\ Has(cmd) /\ WantsSnapshot(cmd)
  /\ TakeChunk(n)
  /\ executed' = Append(executed, cmd)
  /\ toClient' = toClient \o FullResync \o SnapshotText
  /\ server' = "piped"
  /\ UNCHANGED feed

Serve ==
  /\ server = "reading"
  /\ \E n \in 1 .. Len(toServer) :
       \E value \in {FirstValue(n)} :
         Disconnect(n, value) \/ Ignore(n, value) \/ Execute(n, value) \/ Sync(n, value)
  /\ UNCHANGED <<script, sent>>

(* A SET of another client goes into the pipe.                             *)
Forward ==
  LET message == <<"set">> \o Decimal[Len(feed) \div 2 + 1] IN
  /\ server = "piped"
  /\ Len(feed) < 2 * MaxFeed
  /\ feed' = feed \o message
  /\ toClient' = toClient \o message
  /\ UNCHANGED <<script, sent, toServer, server, executed, apart, served>>

(* The server's process ends.                                              *)
ServerEnds ==
  /\ server # "closed"
  /\ server' = "closed"
  /\ Lose
  /\ UNCHANGED <<script, sent, toServer, executed, feed, apart, served>>

(* The client has closed its end: break.  A pipe does not read.            *)
EndOfStream ==
  /\ server = "reading" /\ toServer = <<>>
  /\ server' = "closed"
  /\ UNCHANGED <<script, sent, channel, executed, feed, apart, served>>

(* A client writes its next request without waiting for any answer.        *)
Request ==
  /\ server # "closed"
  /\ sent < Len(script)
  /\ sent' = sent + 1
  /\ toServer' = toServer \o script[sent + 1].text
  /\ UNCHANGED <<script, toClient, task>>

-----------------------------------------------------------------------------
(* src/main.rs:314-330, src/parser.rs, src/command_parser.rs:60: however   *)
(* TCP cuts and joins what a client sends, every command the server        *)
(* executes is one the client sent, in the order it sent them and at most  *)
(* once; all that can be missing of it are arguments at its end that the   *)
(* command can do without (`short').                                       *)
NothingMadeUp ==
  \E place \in [1 .. Len(executed) -> 1 .. sent] :
    /\ \A i, j \in DOMAIN executed : i < j => place[i] < place[j]
    /\ \A i \in DOMAIN executed : executed[i] \in {script[place[i]].means} \cup script[place[i]].short

(* What a request that is read whole makes the server execute.             *)
Effect(request) == IF request.means = NoCommand THEN <<>> ELSE <<request.means>>

(* src/command_parser.rs:60-443: of requests that arrive one by one, each  *)
(* is executed as what it means, and those that mean nothing leave no      *)
(* trace.                                                                  *)
UnderstoodAsMeant ==
  apart => executed = FlattenSeq([i \in 1 .. served |-> Effect(script[i])])
=============================================================================
