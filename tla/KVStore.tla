------------------------------ MODULE KVStore -------------------------------
(***************************************************************************)
(* What a Rusdis server promises the clients of its key space and the      *)
(* readers of its replication feed, with no lock in sight: a batch of      *)
(* commands (one command, or the queue of an EXEC) is performed in order,  *)
(* each command exactly once and at a single instant, and at that instant  *)
(* its effect on the store, its answer and, for a SET of a master somebody *)
(* listens to, its entry in the feed all come about.  Commands of other    *)
(* connections may fall between two commands of a batch.                   *)
(***************************************************************************)
EXTENDS Keyspace

CONSTANTS
  Conns,      \* client connections
  IsMaster,   \* the role of the server
  Loaded      \* the maps the server may start from

VARIABLES
  store,      \* the key space
  feed,       \* the SETs published to replicas, oldest first
  listeners,  \* how many replicas are attached
  now,        \* the wall clock
  batch,      \* per connection, the commands in service; <<>> when idle
  done,       \* how many of them have been performed
  res,        \* their answers so far
  asked       \* when the batch was received

vars == <<store, feed, listeners, now, batch, done, res, asked>>

Init ==
  /\ store \in Loaded
  /\ feed = <<>>
  /\ listeners = 0
  /\ now = 0
  /\ batch = [c \in Conns |-> <<>>]
  /\ done = [c \in Conns |-> 0]
  /\ res = [c \in Conns |-> <<>>]
  /\ asked = [c \in Conns |-> 0]

(* A connection hands over a batch.                                        *)
Submit(c) ==
  /\ batch[c] = <<>>
  /\ batch'[c] \in Seq(Command)
  /\ batch' = [batch EXCEPT ![c] = batch'[c]]
  /\ asked' = [asked EXCEPT ![c] = now]
  /\ UNCHANGED <<store, feed, listeners, now, done, res>>

Current(c) == batch[c][done[c] + 1]

(* The next command of a batch is through; r is its answer, if it has one. *)
Advance(c, r) ==
  /\ done[c] < Len(batch[c])
  /\ done' = [done EXCEPT ![c] = @ + 1]
  /\ res' = [res EXCEPT ![c] = @ \o r]
  /\ UNCHANGED <<listeners, now, batch, asked>>

(* A SET stores its value with a deadline counted from some instant while  *)
(* the batch was in service, and a master with listeners publishes it.     *)
PerformSet(c) ==
  LET cmd == Current(c) IN
  /\ Advance(c, <<Ok>>)
  /\ cmd.op = "SET"
  /\ \E t \in asked[c] .. now :
       /\ ~ CannotExpire(cmd.px, t)
       /\ store' = AfterSet(store, cmd, Deadline(cmd.px, t))
  /\ feed' = IF IsMaster /\ listeners # 0 THEN Append(feed, AsMessage(cmd)) ELSE feed

(* A SET whose deadline no SystemTime can hold is refused.                 *)
RefuseSet(c) ==
  LET cmd == Current(c) IN
  /\ Advance(c, <<Torn>>)
  /\ cmd.op = "SET"
  /\ \E t \in asked[c] .. now : CannotExpire(cmd.px, t)
  /\ UNCHANGED <<store, feed>>

PerformGet(c) ==
  LET k == Current(c).key IN
  /\ Current(c).op = "GET"
  /\ Advance(c, <<GetReply(store, k, now)>>)
  /\ store' = AfterGet(store, k, now)
  /\ UNCHANGED feed

PerformIncr(c) ==
  LET k == Current(c).key IN
  /\ Current(c).op = "INCR"
  /\ Advance(c, <<IncrReply(store, k)>>)
  /\ store' = AfterIncr(store, k)
  /\ UNCHANGED feed

PerformKeys(c) ==
  /\ Current(c).op = "KEYS"
  /\ Advance(c, <<KeysReply(store, Current(c).match)>>)
  /\ UNCHANGED <<store, feed>>

PerformPlain(c) ==
  /\ \/ Current(c).op = "PING" /\ Advance(c, <<Ok>>)
     \/ Current(c).op = "INFO" /\ Advance(c, <<Garbled>>)
     \/ Current(c).op = "ACK" /\ Advance(c, <<>>)
     \/ Current(c).op = "BADKEYS" /\ Advance(c, <<Torn>>)
  /\ UNCHANGED <<store, feed>>

Perform(c) ==
  /\ done[c] < Len(batch[c])
  /\ \/ PerformSet(c) \/ RefuseSet(c) \/ PerformGet(c)
     \/ PerformIncr(c) \/ PerformKeys(c) \/ PerformPlain(c)

(* The answers of a batch go out, or get lost, and the connection is idle. *)
Finish(c) ==
  /\ batch' = [batch EXCEPT ![c] = <<>>]
  /\ done' = [done EXCEPT ![c] = 0]
  /\ res' = [res EXCEPT ![c] = <<>>]
  /\ asked' = [asked EXCEPT ![c] = 0]
  /\ UNCHANGED <<store, feed, listeners, now>>

Answer(c) == done[c] = Len(batch[c]) /\ Finish(c)

(* An INFO without a section may abandon its batch half way.               *)
Abandon(c) ==
  /\ done[c] < Len(batch[c])
  /\ Current(c).op = "INFO"
  /\ Finish(c)

Listen ==
  /\ listeners' = listeners + 1
  /\ UNCHANGED <<store, feed, now, batch, done, res, asked>>

Tick ==
  /\ now' = now + 1
  /\ UNCHANGED <<store, feed, listeners, batch, done, res, asked>>

Next ==
  \/ \E c \in Conns : Submit(c) \/ Perform(c) \/ Answer(c) \/ Abandon(c)
  \/ Listen
  \/ Tick

Spec == Init /\ [][Next]_vars
=============================================================================
