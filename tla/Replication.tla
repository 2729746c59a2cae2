----------------------------- MODULE Replication -----------------------------
(***************************************************************************)
(* From the master's feed to the stores of its replicas: the pipe task of  *)
(* build_replica_pipe and the replica's connect_master (src/main.rs), with *)
(* the broadcast ring and a TCP stream between them.                       *)
(*                                                                         *)
(* The pipe task's places have the names they have in Server.  A position  *)
(* in a stream and what a chunk between two positions amounts to are       *)
(* Wire's.                                                                 *)
(***************************************************************************)
EXTENDS Wire

CONSTANTS
  Replicas,
  Messages,     \* SETs, as far as replication tells them apart: [px, stars]
  RingSize,     \* how many messages the broadcast channel retains
  MaxFeed,      \* bound: messages sent
  Cuts          \* bound: where TCP cuts a message

ASSUME RingAssumption == RingSize \in Nat \ {0}
ASSUME CutsAssumption == Start \in Cuts /\ Cuts \subseteq Point
ASSUME MessagesAssumption ==
  \A m \in Messages : m = [px |-> m.px, stars |-> m.stars] /\ m.stars \subseteq {2, 3}

VARIABLES
  feed,         \* all that was sent on BROADCAST_CHANNEL, oldest first
  up,           \* the master runs
  pipe,         \* none, sync, piped, pipe: as in Server
  cursor,       \* rx: the next message of the feed the pipe receives
  wire,         \* the messages written to the replica's socket
  link,         \* off, syncing, reading, counting, stopped
  at,           \* how much of the wire the replica has read
  pending,      \* the commands of the last chunk not executed yet
  store,        \* the SETs that made the replica's map
  offset,       \* SETs counted in the replica's master_repl_offset
  loaded,       \* main has read, or has no, snapshot file
  joinedAt,     \* history: the length of the feed when the pipe subscribed
  frontier,     \* history: the last message of the feed executed
  calm          \* history: nothing has been lost so far

master == <<feed, up>>
pipes == <<pipe, cursor, wire, joinedAt>>
replica == <<link, at, pending, store, offset, loaded, frontier, calm>>
vars == <<master, pipes, replica>>

Begin == <<1, Start>>

TypeOK ==
  /\ feed \in Seq(Messages)
  /\ up \in BOOLEAN
  /\ pipe \in [Replicas -> {"none", "sync", "piped", "pipe"}]
  /\ cursor \in [Replicas -> Nat \ {0}]
  /\ wire \in [Replicas -> Seq(Nat \ {0})]
  /\ link \in [Replicas -> {"off", "syncing", "reading", "counting", "stopped"}]
  /\ at \in [Replicas -> Position]
  /\ pending \in [Replicas -> Seq([msg : Nat \ {0}, whole : BOOLEAN])]
  /\ store \in [Replicas -> Seq([msg : Nat \ {0}, whole : BOOLEAN])]
  /\ offset \in [Replicas -> Nat]
  /\ loaded \in [Replicas -> BOOLEAN]
  /\ joinedAt \in [Replicas -> Nat]
  /\ frontier \in [Replicas -> Nat]
  /\ calm \in [Replicas -> BOOLEAN]

Init ==
  /\ feed = <<>>
  /\ up = TRUE
  /\ pipe = [r \in Replicas |-> "none"]
  /\ cursor = [r \in Replicas |-> 1]
  /\ wire = [r \in Replicas |-> <<>>]
  /\ link = [r \in Replicas |-> "off"]
  /\ at = [r \in Replicas |-> Begin]
  /\ pending = [r \in Replicas |-> <<>>]
  /\ store = [r \in Replicas |-> <<>>]
  /\ offset = [r \in Replicas |-> 0]
  /\ loaded \in [Replicas -> BOOLEAN]
  /\ joinedAt = [r \in Replicas |-> 0]
  /\ frontier = [r \in Replicas |-> 0]
  /\ calm = [r \in Replicas |-> TRUE]

-----------------------------------------------------------------------------
(* The master.                                                             *)

(* A SET settles; Server says when and in what order.                      *)
Publish ==
  /\ up
  /\ Len(feed) < MaxFeed
  /\ \E r \in Replicas : pipe[r] = "pipe"
  /\ \E m \in Messages : feed' = Append(feed, m)
  /\ UNCHANGED <<up, pipes, replica>>

(* A replica's PSYNC is answered: FULLRESYNC and the empty snapshot.       *)
Psync(r) ==
  /\ up
  /\ pipe[r] = "none" /\ link[r] = "off"
  /\ pipe' = [pipe EXCEPT ![r] = "sync"]
  /\ link' = [link EXCEPT ![r] = "syncing"]
  /\ UNCHANGED <<master, cursor, wire, joinedAt, at, pending, store, offset, loaded,
                 frontier, calm>>

SubscribeTo(r, next) ==
  /\ up
  /\ pipe[r] = "sync"
  /\ pipe' = [pipe EXCEPT ![r] = "piped"]
  /\ cursor' = [cursor EXCEPT ![r] = next]
  /\ joinedAt' = [joinedAt EXCEPT ![r] = Len(feed)]
  /\ UNCHANGED <<master, wire, replica>>

SubscribeToLast(r) == SubscribeTo(r, Len(feed))
SubscribeBeyondNext(r) == SubscribeTo(r, Len(feed) + 2)
Subscribe(r) == SubscribeTo(r, Len(feed) + 1)

CountIn(r) ==
  /\ up
  /\ pipe[r] = "piped"
  /\ pipe' = [pipe EXCEPT ![r] = "pipe"]
  /\ UNCHANGED <<master, cursor, wire, joinedAt, replica>>

(* The oldest message the ring retains.                                    *)
Oldest == IF Len(feed) > RingSize THEN Len(feed) - RingSize + 1 ELSE 1

(* recv returns a message, and it is written.  A write to a replica that   *)
(* is gone fails, and the message with it.                                 *)
ForwardToNewest(r) ==
  /\ up
  /\ pipe[r] = "pipe"
  /\ cursor[r] \in Oldest .. Len(feed)
  /\ cursor' = [cursor EXCEPT ![r] = Len(feed) + 1]
  /\ wire' = [wire EXCEPT ![r] = IF link[r] = "stopped" THEN @ ELSE Append(@, cursor[r])]
  /\ UNCHANGED <<master, pipe, joinedAt, replica>>

Forward(r) ==
  /\ up
  /\ pipe[r] = "pipe"
  /\ cursor[r] \in Oldest .. Len(feed)
  /\ cursor' = [cursor EXCEPT ![r] = @ + 1]
  /\ wire' = [wire EXCEPT ![r] = IF link[r] = "stopped" THEN @ ELSE Append(@, cursor[r])]
  /\ UNCHANGED <<master, pipe, joinedAt, replica>>

(* recv returns Lagged, which the pipe does not look at: it goes on with   *)
(* the oldest message there is.                                            *)
Lag(r) ==
  /\ up
  /\ pipe[r] = "pipe"
  /\ cursor[r] < Oldest
  /\ cursor' = [cursor EXCEPT ![r] = Oldest]
  /\ calm' = [calm EXCEPT ![r] = FALSE]
  /\ UNCHANGED <<master, pipe, wire, joinedAt, link, at, pending, store, offset, loaded,
                 frontier>>

(* The master ends; its feed and its pipes go with it.                     *)
MasterEnds ==
  /\ up
  /\ up' = FALSE
  /\ UNCHANGED <<feed, pipes, replica>>

-----------------------------------------------------------------------------
(* The replica.                                                            *)

(* What is on the wire, and the positions in it that lie ahead.            *)
OnWire(r) == [i \in 1 .. Len(wire[r]) |-> feed[wire[r][i]]]
End(r) == <<Len(wire[r]) + 1, Start>>
Ahead(r) ==
  {p \in (1 .. Len(wire[r]) + 1) \X Cuts :
     /\ Later(p, at[r])
     /\ p = End(r) \/ p[1] <= Len(wire[r])
     /\ p # End(r) => p[2][1] <= Args(feed[wire[r][p[1]]])}

(* The end of the handshake.  Its BufReader is dropped with whatever it    *)
(* had read behind the snapshot.                                           *)
StartReading(r) ==
  /\ link[r] = "syncing"
  /\ link' = [link EXCEPT ![r] = "reading"]
  /\ \E p \in Ahead(r) \cup {at[r]} :
       /\ at' = [at EXCEPT ![r] = p]
       /\ calm' = [calm EXCEPT ![r] = @ /\ p = Begin]
  /\ UNCHANGED <<master, pipes, pending, store, offset, loaded, frontier>>

(* fill_buf returns, and what it returned is parsed.  A panic ends the     *)
(* task, an error is ignored.                                              *)
ReadChunk(r) ==
  /\ link[r] = "reading" /\ pending[r] = <<>>
  /\ \E p \in Ahead(r) : \E digest \in Digests(OnWire(r), at[r], p) :
       /\ at' = [at EXCEPT ![r] = p]
       /\ pending' = [pending EXCEPT ![r] = digest.cmds]
       /\ link' = [link EXCEPT ![r] = IF digest.fate = "panicked" THEN "stopped" ELSE @]
       /\ calm' = [calm EXCEPT ![r] = @ /\ p[2] = Start /\ ~ Starred(OnWire(r), at[r], p)]
  /\ UNCHANGED <<master, pipes, store, offset, loaded, frontier>>

(* The next command of the chunk is executed ...                           *)
Execute(r) ==
  /\ link[r] = "reading" /\ pending[r] # <<>>
  /\ link' = [link EXCEPT ![r] = "counting"]
  /\ LET cmd == Head(pending[r])
         set == [msg |-> wire[r][cmd.msg], whole |-> cmd.whole]
     IN  /\ store' = [store EXCEPT ![r] = Append(@, set)]
         /\ frontier' = [frontier EXCEPT ![r] = set.msg]
  /\ UNCHANGED <<master, pipes, at, pending, offset, loaded, calm>>

(* ... and counted.                                                        *)
IncrementOffsetOnly(r) ==
  /\ link[r] = "counting"
  /\ link' = [link EXCEPT ![r] = "reading"]
  /\ offset' = [offset EXCEPT ![r] = @ + 1]
  /\ UNCHANGED <<master, pipes, at, pending, store, loaded, frontier, calm>>

IncrementOffset(r) ==
  /\ link[r] = "counting"
  /\ link' = [link EXCEPT ![r] = "reading"]
  /\ pending' = [pending EXCEPT ![r] = Tail(@)]
  /\ offset' = [offset EXCEPT ![r] = @ + 1]
  /\ UNCHANGED <<master, pipes, at, store, loaded, frontier, calm>>

(* main goes on while the link's task reads: it replaces the whole map by  *)
(* that of its snapshot file.                                              *)
LoadSnapshot(r) ==
  /\ link[r] \notin {"off", "syncing"}
  /\ ~ loaded[r]
  /\ loaded' = [loaded EXCEPT ![r] = TRUE]
  /\ store' = [store EXCEPT ![r] = <<>>]
  /\ calm' = [calm EXCEPT ![r] = @ /\ store[r] = <<>>]
  /\ UNCHANGED <<master, pipes, link, at, pending, offset, frontier>>

(* End of stream, possibly before all that was sent has been read.  Nobody *)
(* connects again.                                                         *)
EndOfStream(r) ==
  /\ ~ up
  /\ link[r] = "reading" /\ pending[r] = <<>>
  /\ link' = [link EXCEPT ![r] = "stopped"]
  /\ UNCHANGED <<master, pipes, at, pending, store, offset, loaded, frontier, calm>>

-----------------------------------------------------------------------------
PipeStep(r) == Subscribe(r) \/ CountIn(r) \/ Forward(r) \/ Lag(r)
LinkStep(r) ==
  StartReading(r) \/ ReadChunk(r) \/ Execute(r) \/ IncrementOffset(r) \/ EndOfStream(r)

Next ==
  \/ Publish \/ MasterEnds
  \/ \E r \in Replicas : Psync(r) \/ PipeStep(r) \/ LinkStep(r) \/ LoadSnapshot(r)

Spec == Init /\ [][Next]_vars

(* Tasks are scheduled as long as they can run: the pipe's task, the       *)
(* link's task and main.  Nobody must send, connect or end.                *)
FairSpec ==
  /\ Spec
  /\ \A r \in Replicas :
       WF_vars(PipeStep(r)) /\ WF_vars(LinkStep(r)) /\ WF_vars(LoadSnapshot(r))

-----------------------------------------------------------------------------
(* src/main.rs:429-447 and 249-304: however the stream is cut, and however *)
(* far a pipe falls behind, a replica executes a part of the feed, in the  *)
(* order of the feed and no SET twice; a SET it executes is the master's,  *)
(* up to a deadline that is lost.                                          *)
Relay == INSTANCE Relay WITH copy <- store
RelaySpec == Relay!Spec

(* What of the wire is still to be executed: the rest of the last chunk,   *)
(* then all that has not been read.                                        *)
Remaining(r) == IF link[r] = "counting" THEN Tail(pending[r]) ELSE pending[r]
Unexecuted(r) ==
  [j \in 1 .. Len(Remaining(r)) |-> wire[r][Remaining(r)[j].msg]]
    \o SubSeq(wire[r], at[r][1], Len(wire[r]))
Executed(r) == [j \in 1 .. Len(store[r]) |-> store[r][j].msg]

(* src/main.rs:429-447 and 253-297: as long as every chunk ends between    *)
(* two messages, no argument in it holds a star before a digit, the        *)
(* handshake read nothing of them, the pipe kept up with the ring and no   *)
(* snapshot was loaded late, each message since the pipe subscribed is     *)
(* executed or under way, once, in order, with its deadline, and those     *)
(* executed are the ones that are counted.                                 *)
Gapless ==
  \A r \in Replicas : calm[r] =>
    /\ pipe[r] \in {"piped", "pipe"} =>
         Executed(r) \o Unexecuted(r) =
           [j \in 1 .. cursor[r] - 1 - joinedAt[r] |-> joinedAt[r] + j]
    /\ \A j \in 1 .. Len(store[r]) : store[r][j].whole
    /\ offset[r] = Len(store[r]) - (IF link[r] = "counting" THEN 1 ELSE 0)

(* src/main.rs:438-446 and 253-304: unless one of these goes wrong or the  *)
(* master ends, a SET sent after the pipe subscribed is executed by the    *)
(* replica.                                                                *)
Arrives ==
  \A r \in Replicas, i \in 1 .. MaxFeed :
    (pipe[r] = "pipe" /\ i \in joinedAt[r] + 1 .. Len(feed))
      ~> (~ up \/ ~ calm[r] \/ \E j \in DOMAIN store[r] : store[r][j] = [msg |-> i, whole |-> TRUE])

(* src/parser.rs:35-41 and 117: a SET with a star before a digit in its key *)
(* or value is a value of the master like any other, but no replica ever   *)
(* stores it, wherever TCP cuts the stream.                                *)
StarredNeverStored ==
  \A r \in Replicas : \A j \in DOMAIN store[r] : feed[store[r][j].msg].stars = {}

-----------------------------------------------------------------------------
(* The inductive invariant behind RelaySpec.                               *)

Done(p) == IF p[2] = Start THEN p[1] - 1 ELSE p[1]
FirstLeft(r) == IF link[r] = "counting" THEN 2 ELSE 1

(* The wire is a part of the feed, in order, up to the cursor.             *)
WireInOrder ==
  \A r \in Replicas :
    /\ cursor[r] <= Len(feed) + 1
    /\ pipe[r] \in {"none", "sync"} => wire[r] = <<>>
    /\ \A i \in 1 .. Len(wire[r]) : wire[r][i] < cursor[r]
    /\ \A i, j \in 1 .. Len(wire[r]) : i < j => wire[r][i] < wire[r][j]

(* The replica reads on the wire; the commands of its last chunk are in    *)
(* order and come from what it has read.                                   *)
Chunk(r) ==
  /\ at[r][1] <= Len(wire[r]) + 1
  /\ at[r][1] = Len(wire[r]) + 1 => at[r][2] = Start
  /\ link[r] = "counting" => pending[r] # <<>>
  /\ \A j \in 1 .. Len(pending[r]) :
       /\ pending[r][j].msg <= Done(at[r])
       /\ pending[r][j].whole \/ feed[wire[r][pending[r][j].msg]].px # NoPx
  /\ \A i, j \in 1 .. Len(pending[r]) : i < j => pending[r][i].msg < pending[r][j].msg
ChunkInOrder == \A r \in Replicas : Chunk(r)

(* What is still to be executed is ahead of the frontier.                  *)
Frontier(r) ==
  /\ frontier[r] < cursor[r]
  /\ \A j \in FirstLeft(r) .. Len(pending[r]) : frontier[r] < wire[r][pending[r][j].msg]
  /\ \A i \in Done(at[r]) + 1 .. Len(wire[r]) : frontier[r] < wire[r][i]
FrontierBehind == \A r \in Replicas : Frontier(r)

(* src/main.rs:437-447 and 252-297: from the ring to the execution nothing *)
(* overtakes anything else and nothing is kept that has been executed.     *)
InOrder == TypeOK /\ WireInOrder /\ ChunkInOrder /\ FrontierBehind
=============================================================================
