-------------------------------- MODULE Locks --------------------------------
(***************************************************************************)
(* Who waits for whom in a Rusdis server (src/main.rs): the map's mutex,   *)
(* REPLICATION_INFO and SLAVES_COUNT, with the tasks that take them in the *)
(* order they do.  A replica's link counts every SET in REPLICATION_INFO;  *)
(* a task that answers PSYNC reads REPLICATION_INFO and keeps the guard    *)
(* while it writes to its client, for as long as the client likes.         *)
(*                                                                         *)
(* Tokio's locks queue: a mutex is taken, and a lock is shared or taken,   *)
(* in the order of asking, so a writer that waits keeps later readers out. *)
(* What SLAVES_COUNT counts, and what is sent, is Server's; GET, INCR and  *)
(* KEYS hold the map without waiting for anything, and are left out.       *)
(*                                                                         *)
(* AsksBeforeWriters, ReadRoleKeeping, IncrementOffsetAgain and            *)
(* AskPsyncAlone are slips of the operator each of them precedes: no       *)
(* action uses them.                                                       *)
(***************************************************************************)
EXTENDS Integers, Sequences, FiniteSets

CONSTANTS
  Clients,      \* the tasks of handle_commands
  Link,         \* the task of connect_master
  MaxSets       \* bound: SETs the link executes

ASSUME LocksAssumption ==
  /\ Link \notin Clients
  /\ MaxSets \in Nat

VARIABLES
  role,         \* fixed at start-up; only a replica has a link
  pc,           \* per task, what it waits for or does
  held,         \* per lock, the guards that live: [task, mode]
  queue,        \* per lock, who waits for it, first come first
  inserted,     \* history: SETs the link has executed
  offset        \* how many of them are in master_repl_offset

vars == <<role, pc, held, queue, inserted, offset>>

Tasks == Clients \cup {Link}
Locks == {"map", "info", "count"}
Ticket == [task : Tasks, mode : {"read", "write"}]
Reading(t) == [task |-> t, mode |-> "read"]
Writing(t) == [task |-> t, mode |-> "write"]

(* Where a task is:                                                        *)
(*   idle           awaiting a request, or the next command of the stream  *)
(*   map            SET: awaiting the map's mutex                          *)
(*   role           SET: inserted, holding the map, awaiting the role      *)
(*   count          SET on a master: awaiting the number of replicas       *)
(*   info           INFO, or the link's GETACK: awaiting what it reports   *)
(*   psync, reply   PSYNC: awaiting id and offset, writing them            *)
(*   countIn, pipe  PSYNC: awaiting SLAVES_COUNT, counted                  *)
(*   increment      the link, behind a SET: awaiting the offset            *)
Waits == [map |-> "map", role |-> "info", count |-> "count", info |-> "info",
          psync |-> "info", countIn |-> "count", increment |-> "info"]
Places == DOMAIN Waits \cup {"idle", "reply", "pipe"}
Waiting(t) == pc[t] \in DOMAIN Waits

(* A writer is alone, and no guard outlives the request it was taken for.  *)
Holds(t, l) == \E ticket \in held[l] : ticket.task = t
TypeOK ==
  /\ role \in {"Master", "Slave"}
  /\ pc \in [Tasks -> Places]
  /\ held \in [Locks -> SUBSET Ticket]
  /\ queue \in [Locks -> Seq(Ticket)]
  /\ inserted \in Nat /\ offset \in Nat
  /\ \A l \in Locks : \A ticket \in held[l] :
       /\ ticket.mode = "write" => held[l] = {ticket}
       /\ pc[ticket.task] \notin {"idle", "pipe"}

Init ==
  /\ role \in {"Master", "Slave"}
  /\ pc = [t \in Tasks |-> "idle"]
  /\ held = [l \in Locks |-> {}]
  /\ queue = [l \in Locks |-> <<>>]
  /\ inserted = 0 /\ offset = 0

-----------------------------------------------------------------------------
(* The lock at the front of whose queue a ticket stands lets it in.        *)
Admits(l) ==
  /\ queue[l] # <<>>
  /\ held[l] = {} \/ (Head(queue[l]).mode = "read"
                      /\ \A ticket \in held[l] : ticket.mode = "read")

Grant(l) ==
  /\ Admits(l)
  /\ held' = [held EXCEPT ![l] = @ \cup {Head(queue[l])}]
  /\ queue' = [queue EXCEPT ![l] = Tail(@)]
  /\ UNCHANGED <<role, pc, inserted, offset>>

Goes(t, from, to) == pc[t] = from /\ pc' = [pc EXCEPT ![t] = to]
AsksBeforeWriters(l, ticket) ==
  queue' = [queue EXCEPT ![l] = IF ticket.mode = "read" THEN <<ticket>> \o @
                                ELSE Append(@, ticket)]
Asks(l, ticket) == queue' = [queue EXCEPT ![l] = Append(@, ticket)]
Without(guards, t) == {ticket \in guards : ticket.task # t}
Drops(t, l) == held' = [held EXCEPT ![l] = Without(@, t)]
DropsBoth(t, l, m) ==
  held' = [held EXCEPT ![l] = Without(@, t), ![m] = Without(@, t)]

-----------------------------------------------------------------------------
(* SET, by a client or by the link.                                        *)
AskSet(t) ==
  /\ Goes(t, "idle", "map")
  /\ t = Link => role = "Slave" /\ inserted < MaxSets
  /\ Asks("map", Writing(t))
  /\ UNCHANGED <<role, held, inserted, offset>>

Insert(t) ==
  /\ Goes(t, "map", "role")
  /\ Holds(t, "map")
  /\ inserted' = IF t = Link THEN inserted + 1 ELSE inserted
  /\ Asks("info", Reading(t))
  /\ UNCHANGED <<role, held, offset>>

(* The guard of the role is a temporary of the left operand of &&; the     *)
(* right one is evaluated on a master only.                                *)
AskCount(t) ==
  /\ Goes(t, "role", "count")
  /\ Holds(t, "info")
  /\ role = "Master"
  /\ Drops(t, "info")
  /\ Asks("count", Reading(t))
  /\ UNCHANGED <<role, inserted, offset>>

(* A client's SET is done; the link goes on to count its own.              *)
ReadRoleKeeping(t) ==
  /\ Goes(t, "role", IF t = Link THEN "increment" ELSE "idle")
  /\ Holds(t, "info")
  /\ role = "Slave"
  /\ Drops(t, "map")
  /\ IF t = Link THEN Asks("info", Writing(t)) ELSE UNCHANGED queue
  /\ UNCHANGED <<role, inserted, offset>>

ReadRole(t) ==
  /\ Goes(t, "role", IF t = Link THEN "increment" ELSE "idle")
  /\ Holds(t, "info")
  /\ role = "Slave"
  /\ DropsBoth(t, "info", "map")
  /\ IF t = Link THEN Asks("info", Writing(t)) ELSE UNCHANGED queue
  /\ UNCHANGED <<role, inserted, offset>>

Publish(t) ==
  /\ Goes(t, "count", "idle")
  /\ Holds(t, "count")
  /\ DropsBoth(t, "count", "map")
  /\ UNCHANGED <<role, queue, inserted, offset>>

IncrementOffsetAgain ==
  /\ Goes(Link, "increment", "idle")
  /\ Holds(Link, "info")
  /\ offset' = offset + 2
  /\ Drops(Link, "info")
  /\ UNCHANGED <<role, queue, inserted>>

IncrementOffset ==
  /\ Goes(Link, "increment", "idle")
  /\ Holds(Link, "info")
  /\ offset' = offset + 1
  /\ Drops(Link, "info")
  /\ UNCHANGED <<role, queue, inserted>>

-----------------------------------------------------------------------------
(* INFO of a client, GETACK of the master on the link.                     *)
AskInfo(t) ==
  /\ Goes(t, "idle", "info")
  /\ t = Link => role = "Slave"
  /\ Asks("info", Reading(t))
  /\ UNCHANGED <<role, held, inserted, offset>>

Report(t) ==
  /\ Goes(t, "info", "idle")
  /\ Holds(t, "info")
  /\ Drops(t, "info")
  /\ UNCHANGED <<role, queue, inserted, offset>>

-----------------------------------------------------------------------------
(* PSYNC, up to the pipe that is counted.                                  *)
AskPsyncAlone(c) ==
  /\ Goes(c, "idle", "psync")
  /\ Asks("info", Writing(c))
  /\ UNCHANGED <<role, held, inserted, offset>>

AskPsync(c) ==
  /\ Goes(c, "idle", "psync")
  /\ Asks("info", Reading(c))
  /\ UNCHANGED <<role, held, inserted, offset>>

StartReply(c) ==
  /\ Goes(c, "psync", "reply")
  /\ Holds(c, "info")
  /\ UNCHANGED <<role, held, queue, inserted, offset>>

(* The client has made room for the line, or is gone.  The snapshot that   *)
(* follows is written without a lock.                                      *)
EndReply(c) ==
  /\ Goes(c, "reply", "countIn")
  /\ Drops(c, "info")
  /\ Asks("count", Writing(c))
  /\ UNCHANGED <<role, inserted, offset>>

CountIn(c) ==
  /\ Goes(c, "countIn", "pipe")
  /\ Holds(c, "count")
  /\ Drops(c, "count")
  /\ UNCHANGED <<role, queue, inserted, offset>>

(* The listener accepts another client.                                    *)
Accept(c) ==
  /\ Goes(c, "pipe", "idle")
  /\ UNCHANGED <<role, held, queue, inserted, offset>>

-----------------------------------------------------------------------------
Proceed(t) ==
  \/ Insert(t) \/ AskCount(t) \/ ReadRole(t) \/ Publish(t)
  \/ t = Link /\ IncrementOffset
  \/ Report(t)
  \/ t \in Clients /\ (StartReply(t) \/ CountIn(t))

Ask(t) == AskSet(t) \/ AskInfo(t) \/ (t \in Clients /\ AskPsync(t))

Next ==
  \/ \E l \in Locks : Grant(l)
  \/ \E t \in Tasks : Ask(t) \/ Proceed(t)
  \/ \E c \in Clients : EndReply(c) \/ Accept(c)

(* A task that was let in is polled.  Nobody has to send a request, and no *)
(* client has to read its answer.                                          *)
Spec == Init /\ [][Next]_vars
FairSpec ==
  /\ Spec
  /\ \A l \in Locks : WF_vars(Grant(l))
  /\ \A t \in Tasks : WF_vars(Proceed(t))

-----------------------------------------------------------------------------
(* src/main.rs:518-528, 337-350, 434: on a master every task that waits    *)
(* for a lock gets it and comes to its end, though clients that sent PSYNC *)
(* never read: they share REPLICATION_INFO with all who wait for it.       *)
ServedOnMaster ==
  role = "Master" => \A t \in Tasks : Waiting(t) ~> ~ Waiting(t)

(* src/main.rs:272-294 beside 337-350: on a replica too, if no client      *)
(* keeps a PSYNC answer for ever: there is no circle of tasks that wait    *)
(* for one another, and the queues pass nobody over.  (One client that     *)
(* does not read stops the link, behind it every reader of                 *)
(* REPLICATION_INFO, and behind a SET everybody who wants the map.)        *)
ServedOnceAnswersAreRead ==
  (\A c \in Clients : []<>(pc[c] # "reply")) =>
    \A t \in Tasks : Waiting(t) ~> ~ Waiting(t)

(* src/main.rs:279-295, 653-666: the replica's offset is never ahead of    *)
(* what the link has executed, and what the link reports to the master     *)
(* covers every SET before it, however long other tasks kept the link from *)
(* counting one.                                                           *)
AckCountsAll ==
  /\ offset <= inserted
  /\ pc[Link] \in {"idle", "info"} => offset = inserted

(* src/main.rs:337-350, 434, 518-528 beside 272-294: no circle of tasks    *)
(* that wait for one another ever closes.  Whenever somebody waits, some   *)
(* lock lets the next one in, or a task has what it waits for and goes on; *)
(* the one exception is a link that waits to count a SET behind a client   *)
(* that does not read its PSYNC answer.                                    *)
NobodyStuck ==
  (\E t \in Tasks : Waiting(t)) =>
    \/ \E l \in Locks : Admits(l)
    \/ \E t \in Tasks : Waiting(t) /\ Holds(t, Waits[pc[t]])
    \/ pc[Link] = "increment" /\ \E c \in Clients : pc[c] = "reply"
=============================================================================
