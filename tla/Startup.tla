------------------------------- MODULE Startup -------------------------------
(***************************************************************************)
(* A Rusdis process from its command line to its listener (src/main.rs,    *)
(* main and connect_master, src/cli_parser.rs), as the other end of a      *)
(* Session with its master: the handshake, request by request, on the      *)
(* text.  The other end may also be a plain client, which sends its        *)
(* requests without waiting; then main is "client" and does nothing.       *)
(*                                                                         *)
(* What becomes of the stream behind the handshake is Replication's, what  *)
(* the file holds Preload's.  GoneWithout is a slip no action uses.        *)
(***************************************************************************)
EXTENDS Session

CONSTANTS
  Scripts,       \* what plain clients send
  CommandLines,  \* [replicaof, port, file] a process may be started with
  NotGiven       \* an option that is left out

VARIABLES
  options,       \* ARGS
  main,          \* where main is
  role,          \* REPLICATION_INFO's role
  need,          \* the announced length of the snapshot
  link           \* the task connect_master spawns: none, started, gone

process == <<options, main, role, need, link>>
vars == <<script, sent, channel, task, process>>

(* Where main is:                                                          *)
(*   start            before the role                                      *)
(*   write, read      about to write a request, awaiting the answer to it  *)
(*   line, length     awaiting the answer to PSYNC, the snapshot's length  *)
(*   payload, spawn   awaiting the snapshot, about to spawn the link       *)
(*   load, bind       before the file, before the listener                 *)
(*   listening        accepting connections                                *)
(*   returned, failed, panicked   the process has ended: Ok, Err, panic    *)
Ended == {"returned", "failed", "panicked"}
Places == {"start", "write", "read", "line", "length", "payload", "spawn", "load", "bind",
           "listening", "client"} \cup Ended

TypeOK ==
  /\ SessionTypeOK
  /\ main \in Places
  /\ role \in {"Master", "Slave"}
  /\ need \in Nat
  /\ link \in {"none", "started", "gone"}
  /\ link = "started" => main \in {"load", "bind", "listening"}

(* The default is 6379.                                                    *)
Port(line) == IF line.port = NotGiven THEN <<"6", "3", "7", "9">> ELSE line.port

ToSend(words, means) == [text |-> ArrayText(words), means |-> means, short |-> {}]

(* What connect_master writes; the requests are understood by a master     *)
(* that reads them whole, if the port is one.                              *)
Handshake(port) ==
  << ToSend(<<PingWord>>, <<"ping">>),
     ToSend(<<ReplconfWord, ListeningPortWord, port>>,
            IF FitsPort(port) THEN <<"listening-port", IntOf(port)>> ELSE NoCommand),
     ToSend(<<ReplconfWord, CapaWord, Psync2Word>>, <<"capa", <<Psync2Word>> >>),
     ToSend(<<PsyncWord, <<"?">>, <<"-", "1">> >>, <<"psync", <<"no id">>, <<"no offset">> >>) >>

Expected(k) == IF k = 1 THEN "PONG" ELSE "OK"

Init ==
  /\ SessionInit
  /\ role = "Master"
  /\ need = 0
  /\ link = "none"
  /\ \/ /\ main = "start"
        /\ options \in CommandLines
        /\ script = Handshake(Port(options))
     \/ /\ main = "client"
        /\ options = [replicaof |-> NotGiven, port |-> NotGiven, file |-> FALSE]
        /\ script \in Scripts

-----------------------------------------------------------------------------
Moves(from, to) == main = from /\ main' = to

(* Without --replicaof a process goes on as a master.                      *)
BeMaster ==
  /\ Moves("start", "load")
  /\ options.replicaof = NotGiven
  /\ UNCHANGED <<script, sent, channel, task, options, role, need, link>>

(* An address without a blank between host and port ends it.               *)
NoAddress ==
  /\ Moves("start", "returned")
  /\ options.replicaof = "port only"
  /\ role' = "Slave"
  /\ UNCHANGED <<script, sent, channel, task, options, need, link>>

Connect ==
  /\ Moves("start", IF server = "closed" THEN "returned" ELSE "write")
  /\ options.replicaof = "host and port"
  /\ role' = "Slave"
  /\ UNCHANGED <<script, sent, channel, task, options, need, link>>

(* write_all.  Into a connection the master has closed it may fail.        *)
WriteRequest ==
  /\ main = "write"
  /\ sent' = sent + 1
  /\ toServer' = toServer \o script[sent + 1].text
  /\ main' = IF sent + 1 = Len(script) THEN "line" ELSE "read"
  /\ UNCHANGED <<script, toClient, task, options, role, need, link>>

WriteFails ==
  /\ server = "closed"
  /\ Moves("write", "failed")
  /\ UNCHANGED <<script, sent, channel, task, options, role, need, link>>

(* One fill_buf, at the end of the stream an empty one, has to hold the    *)
(* whole answer.                                                           *)
Refused(value) ==
  Failed(value) \/ (value[1] = "simple" /\ value[2] # <<Expected(sent)>>)

ReadAnswer ==
  /\ main = "read"
  /\ toClient # <<>> \/ server = "closed"
  /\ \E n \in (IF toClient = <<>> THEN {0} ELSE 1 .. Len(toClient)) :
       LET value == Parse(SubSeq(toClient, 1, n)) IN
       /\ main' = IF Refused(value) THEN "failed" ELSE "write"
       /\ toClient' = SubSeq(toClient, n + 1, Len(toClient))
  /\ UNCHANGED <<script, sent, toServer, task, options, role, need, link>>

(* read_until takes up to and with a line feed, or what there is before    *)
(* the end of the stream.                                                  *)
LineFeed == SelectInSeq(toClient, LAMBDA ch : ch = "lf")
LineEnd == IF LineFeed = 0 THEN Len(toClient) ELSE LineFeed
CanReadLine == LineFeed # 0 \/ server = "closed"
NextLine == SubSeq(toClient, 1, LineEnd)
TakeLine == toClient' = SubSeq(toClient, LineEnd + 1, Len(toClient))

(* Any answer to PSYNC that parses will do.                                *)
ReadResync ==
  /\ main = "line" /\ CanReadLine
  /\ main' = IF Failed(Parse(NextLine)) THEN "failed" ELSE "length"
  /\ TakeLine
  /\ UNCHANGED <<script, sent, toServer, task, options, role, need, link>>

(* `$', a number, and a line break.                                        *)
LengthText == SubSeq(NextLine, 2, SelectInSeq(NextLine, LAMBDA ch : ch = "cr") - 1)
AnnouncesLength ==
  /\ Len(NextLine) >= 4
  /\ NextLine[1] = "$"
  /\ "cr" \in Range(NextLine)
  /\ IsInt(LengthText) /\ LengthText[1] # "-"

ReadLength ==
  /\ main = "length" /\ CanReadLine
  /\ main' = IF AnnouncesLength THEN "payload" ELSE "failed"
  /\ need' = IF AnnouncesLength THEN IntOf(LengthText) ELSE need
  /\ TakeLine
  /\ UNCHANGED <<script, sent, toServer, task, options, role, link>>

(* read_exact; what read_rdb says of the snapshot is not looked at.        *)
ReadPayload ==
  /\ Len(toClient) >= need
  /\ Moves("payload", "spawn")
  /\ toClient' = SubSeq(toClient, need + 1, Len(toClient))
  /\ UNCHANGED <<script, sent, toServer, task, options, role, need, link>>

PayloadCut ==
  /\ Len(toClient) < need /\ server = "closed"
  /\ Moves("payload", "failed")
  /\ UNCHANGED <<script, sent, channel, task, options, role, need, link>>

Spawn ==
  /\ Moves("spawn", "load")
  /\ link' = "started"
  /\ UNCHANGED <<script, sent, channel, task, options, role, need>>

(* The link ends with the process.                                         *)
GoneWithout == link' = link
GoneWith == link' = IF link = "started" THEN "gone" ELSE link

(* A file that is not there, or is no snapshot, does not matter; one that  *)
(* cannot be read to its end ends the process.                             *)
Load ==
  /\ Moves("load", "bind")
  /\ UNCHANGED <<script, sent, channel, task, options, role, need, link>>

LoadFails ==
  /\ Moves("load", "failed")
  /\ options.file
  /\ GoneWith
  /\ UNCHANGED <<script, sent, channel, task, options, role, need>>

Bind ==
  /\ FitsPort(Port(options))
  /\ Moves("bind", "listening")
  /\ UNCHANGED <<script, sent, channel, task, options, role, need, link>>

(* The port is none, or it is taken: unwrap.                               *)
BindFails ==
  /\ Moves("bind", "panicked")
  /\ GoneWith
  /\ UNCHANGED <<script, sent, channel, task, options, role, need>>

BeReplica ==
  \/ Connect \/ NoAddress
  \/ WriteRequest \/ WriteFails \/ ReadAnswer
  \/ ReadResync \/ ReadLength \/ ReadPayload \/ PayloadCut \/ Spawn

Main ==
  \/ BeMaster
  \/ BeReplica
  \/ Load \/ LoadFails
  \/ Bind \/ BindFails

Client == main = "client" /\ Request /\ UNCHANGED process
Closes == main \in Ended \cup {"client"} /\ EndOfStream
Master == (Serve \/ Forward \/ ServerEnds \/ Closes) /\ UNCHANGED process

Next == Main \/ Client \/ Master

(* main and the master's task go on when they can; nobody has to end, to   *)
(* send, or to write to the feed.                                          *)
FairSpec ==
  /\ Init /\ [][Next]_vars
  /\ WF_vars(Main)
  /\ WF_vars(Serve /\ UNCHANGED process)

-----------------------------------------------------------------------------
(* src/main.rs:162-246 against 314-372: the two ends stay in step.  The    *)
(* master has executed the requests the process wrote, in their order and  *)
(* as they were meant, all but at most the last; never is an answer taken  *)
(* for one the master gave to something else or did not give; and a        *)
(* process that has its snapshot, or listens as a replica, was taken by    *)
(* the master.                                                             *)
Answered == IF main \in {"read", "line"} THEN sent - 1 ELSE sent
InStep ==
  main # "client" =>
    /\ executed = SubSeq([i \in 1 .. Len(script) |-> script[i].means], 1, Len(executed))
    /\ main \notin Ended => Len(executed) \in Answered .. sent
    /\ server = "piped" => Len(executed) = Len(script)
    /\ role = "Slave" /\ main \in {"spawn", "load", "bind", "listening"} =>
         Len(executed) = Len(script)

(* src/main.rs:228-248 against 343-370: the handshake takes the FULLRESYNC *)
(* line and the snapshot off the stream and not a character of the feed,   *)
(* whatever is sent behind them meanwhile.                                 *)
SnapshotExact ==
  main \in {"spawn", "load", "bind", "listening"} /\ role = "Slave" =>
    /\ IsPrefix(toClient, feed)
    /\ server = "piped" => toClient = feed

(* src/main.rs:46-160: a process that is started comes to listen, or ends. *)
(* The two ways it may wait for ever are the two ways a master may say     *)
(* nothing (src/main.rs:327): its port is none (src/command_parser.rs:227),*)
(* or the master read one of its requests in pieces.                       *)
StartupEnds ==
  main = "start" ~> \/ main \in {"listening"} \cup Ended
                    \/ ~ FitsPort(Port(options))
                    \/ ~ apart

(* README.md:62-65: --replicaof takes the port of the master to listen to. *)
(* A process started as in that example does not end before it has tried   *)
(* to connect.                                                             *)
ReplicaofPort ==
  options.replicaof = "port only" => main # "returned"
=============================================================================
