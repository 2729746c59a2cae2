------------------------------- MODULE Server -------------------------------
(***************************************************************************)
(* One Rusdis server process after start-up: the connection tasks of       *)
(* handle_commands, execute_multi_commands with the locks it takes, and    *)
(* the tasks of build_replica_pipe up to the moment they listen            *)
(* (src/main.rs).                                                          *)
(*                                                                         *)
(* A step is what a task does between two suspension points that matter:   *)
(* waiting for the next request, the clock reading of a SET, the wait for  *)
(* the map's mutex, and, with that mutex held, the wait for the            *)
(* replication locks.  GET, INCR and KEYS take and release the mutex       *)
(* without suspending in between, so each is one step.  ADMIN's mutex is   *)
(* never held across a suspension point once the server listens and is     *)
(* left out.                                                               *)
(*                                                                         *)
(* MapUnguarded, UnlockIfPublished, PublishesToSecond, DiscardKeepingQueue,*)
(* SetRefusedSilently, ForgetKeepingDone and SubscribeInVain are slips of  *)
(* the operator each of them precedes: no action uses them, they show that *)
(* the properties notice.                                                  *)
(***************************************************************************)
EXTENDS Keyspace, FiniteSets

CONSTANTS
  Conns,        \* the connections the listener may accept
  Peers,        \* those whose other end is a replica and sends PSYNC
  Requests,     \* the commands clients send
  IsMaster,     \* the role, fixed by the command line
  Loaded,       \* the maps the RDB file may have left
  NoOne,        \* the map's mutex is free
  MaxTime,      \* bound on the clock
  MaxRequests   \* bound on the requests received

ASSUME ServerAssumption ==
  /\ IsFiniteSet(Conns)
  /\ Peers \subseteq Conns
  /\ Requests \subseteq Command
  /\ IsMaster \in BOOLEAN
  /\ Loaded \subseteq Data
  /\ NoOne \notin Conns
  /\ MaxTime \in Nat
  /\ MaxRequests \in Nat

VARIABLES
  data,         \* the map behind ADMIN's current database
  now,          \* SystemTime::now()
  holder,       \* the task that holds the map's mutex
  slavesCount,  \* SLAVES_COUNT
  feed,         \* all that was sent on BROADCAST_CHANNEL, oldest first
  joinedAt,     \* per connection, the length of feed when its rx subscribed
  pc,           \* per connection, where its task is suspended
  isMulti,      \* handle_commands' is_multi
  queue,        \* handle_commands' queue
  batch,        \* the commands execute_multi_commands was called with
  done,         \* how many of them it is through with
  res,          \* the replies it has gathered
  expiry,       \* a SET's expiration
  replaced,     \* what the insert of the SET in progress returned
  issued,       \* requests received so far, for MaxRequests
  applied,      \* history: the SETs inserted, oldest first
  countedAt,    \* history: the length of applied when a pipe was counted
  asked         \* history: when the batch in service was received

session == <<isMulti, queue>>
replication == <<slavesCount, feed, joinedAt, countedAt>>
execution == <<batch, done, res, expiry, asked>>
mapState == <<data, holder, replaced, applied>>
vars == <<now, pc, issued, session, replication, execution, mapState>>

(* Where a task can be:                                                    *)
(*   closed   no such connection                                           *)
(*   read     awaiting the next request                                    *)
(*   exec     inside execute_multi_commands, between two commands          *)
(*   insert   SET: expiration known, awaiting the map's mutex              *)
(*   publish  SET: inserted, holding the mutex, awaiting the role and count*)
(*   sync     PSYNC: FULLRESYNC written, the RDB payload on its way        *)
(*   piped    PSYNC: subscribed, the pipe task spawned but not yet counted *)
(*   pipe     the pipe task is counted and forwards the feed               *)
Where == {"closed", "read", "exec", "insert", "publish", "sync", "piped", "pipe"}

Current(c) == batch[c][done[c] + 1]

TaskType ==
  /\ now \in 0 .. MaxTime
  /\ pc \in [Conns -> Where]
  /\ issued \in 0 .. MaxRequests

SessionType ==
  /\ isMulti \in [Conns -> BOOLEAN]
  /\ queue \in [Conns -> Seq(Command)]

ReplicationType ==
  /\ slavesCount \in Nat
  /\ feed \in Seq(Message)
  /\ joinedAt \in [Conns -> Nat]
  /\ countedAt \in [Conns -> Nat]

ExecutionType ==
  /\ batch \in [Conns -> Seq(Command)]
  /\ done \in [Conns -> Nat]
  /\ res \in [Conns -> Seq(Reply)]
  /\ expiry \in [Conns -> Instants]
  /\ asked \in [Conns -> Nat]

MapType ==
  /\ data \in Data
  /\ holder \in Conns \cup {NoOne}
  /\ replaced \in Entry \cup {NoEntry}
  /\ applied \in Seq(Message)

TypeOK == TaskType /\ SessionType /\ ReplicationType /\ ExecutionType /\ MapType

Init ==
  /\ data \in Loaded
  /\ now = 0
  /\ holder = NoOne
  /\ slavesCount = 0
  /\ feed = <<>>
  /\ joinedAt = [c \in Conns |-> 0]
  /\ pc = [c \in Conns |-> "closed"]
  /\ isMulti = [c \in Conns |-> FALSE]
  /\ queue = [c \in Conns |-> <<>>]
  /\ batch = [c \in Conns |-> <<>>]
  /\ done = [c \in Conns |-> 0]
  /\ res = [c \in Conns |-> <<>>]
  /\ expiry = [c \in Conns |-> Never]
  /\ replaced = NoEntry
  /\ issued = 0
  /\ applied = <<>>
  /\ countedAt = [c \in Conns |-> 0]
  /\ asked = [c \in Conns |-> 0]

(* `string_data_arc.lock().await` can return.                              *)
MapUnguarded == TRUE
MapIsFree == holder = NoOne

(* The guard is dropped.                                                   *)
UnlockIfPublished == holder' = IF IsMaster /\ slavesCount # 0 THEN NoOne ELSE holder
Unlock == holder' = NoOne

(* `get_role() == Master && SLAVES_COUNT != 0`.                            *)
PublishesToSecond == IsMaster /\ slavesCount > 1
Publishes == IsMaster /\ slavesCount # 0

At(c, here) == pc[c] = here
Goto(c, there) == pc' = [pc EXCEPT ![c] = there]

-----------------------------------------------------------------------------
(* The connection task: accept, read one request, dispatch.                *)

Accept(c) ==
  /\ At(c, "closed")
  /\ Goto(c, "read")
  /\ isMulti' = [isMulti EXCEPT ![c] = FALSE]
  /\ queue' = [queue EXCEPT ![c] = <<>>]
  /\ UNCHANGED <<now, issued, replication, execution, mapState>>

(* End of stream, or bytes that parse() refuses or panics on: the task     *)
(* returns and an open transaction goes with it.                           *)
HangUp(c) ==
  /\ At(c, "read")
  /\ Goto(c, "closed")
  /\ UNCHANGED <<now, issued, session, replication, execution, mapState>>

(* A request of connection c is taken off its socket.                      *)
Receive(c) ==
  /\ At(c, "read")
  /\ issued < MaxRequests
  /\ issued' = issued + 1

(* A value that is no array, an array parse_command refuses (DEL among     *)
(* them) and a PSYNC that names a replication id have no effect and get no *)
(* answer, inside a transaction too.                                       *)
DelRequest == [op : {"DEL"}, key : Keys]
Ignored == DelRequest \cup [op : {"PSYNC id", "no array", "unknown"}]

Ignore(c, req) ==
  /\ req \in Ignored
  /\ Receive(c)
  /\ UNCHANGED <<now, pc, session, replication, execution, mapState>>

Multi(c) ==
  /\ Receive(c)
  /\ isMulti' = [isMulti EXCEPT ![c] = TRUE]
  /\ UNCHANGED <<now, pc, queue, replication, execution, mapState>>

DiscardKeepingQueue(c) ==
  /\ Receive(c)
  /\ isMulti[c]
  /\ isMulti' = [isMulti EXCEPT ![c] = FALSE]
  /\ UNCHANGED <<now, pc, queue, replication, execution, mapState>>

Discard(c) ==
  /\ Receive(c)
  /\ isMulti[c]
  /\ queue' = [queue EXCEPT ![c] = <<>>]
  /\ isMulti' = [isMulti EXCEPT ![c] = FALSE]
  /\ UNCHANGED <<now, pc, replication, execution, mapState>>

(* EXEC or DISCARD outside a transaction: an error reply, nothing else.    *)
WithoutMulti(c) ==
  /\ Receive(c)
  /\ ~ isMulti[c]
  /\ UNCHANGED <<now, pc, session, replication, execution, mapState>>

Enqueue(c, cmd) ==
  /\ Receive(c)
  /\ isMulti[c]
  /\ queue' = [queue EXCEPT ![c] = Append(@, cmd)]
  /\ UNCHANGED <<now, pc, isMulti, replication, execution, mapState>>

(* execute_multi_commands is entered with the commands cmds.               *)
Call(c, cmds) ==
  /\ Goto(c, "exec")
  /\ batch' = [batch EXCEPT ![c] = cmds]
  /\ asked' = [asked EXCEPT ![c] = now]
  /\ UNCHANGED <<now, done, res, expiry, session, replication, mapState>>

Run(c, cmd) == Receive(c) /\ ~ isMulti[c] /\ Call(c, <<cmd>>)

Exec(c) == Receive(c) /\ isMulti[c] /\ Call(c, queue[c])

-----------------------------------------------------------------------------
(* execute_multi_commands: one command after the other.                    *)

Facing(c, op) ==
  /\ At(c, "exec")
  /\ done[c] < Len(batch[c])
  /\ Current(c).op = op

(* The arm of the current command is left; r is what it added to the reply.*)
Leave(c, r) ==
  /\ Goto(c, "exec")
  /\ done' = [done EXCEPT ![c] = @ + 1]
  /\ res' = [res EXCEPT ![c] = @ \o r]
  /\ UNCHANGED <<batch, asked>>

(* Arms that touch no shared state; a KEYS pattern that is no regular      *)
(* expression is refused before any lock, with an error that has no crlf.  *)
Plain(c) ==
  /\ \/ Facing(c, "PING") /\ Leave(c, <<Ok>>)
     \/ Facing(c, "INFO") /\ Leave(c, <<Garbled>>)
     \/ Facing(c, "ACK") /\ Leave(c, <<>>)
     \/ Facing(c, "BADKEYS") /\ Leave(c, <<Torn>>)
  /\ UNCHANGED <<now, issued, expiry, session, replication, mapState>>

Get(c) ==
  /\ Facing(c, "GET")
  /\ MapIsFree
  /\ data' = AfterGet(data, Current(c).key, now)
  /\ Leave(c, <<GetReply(data, Current(c).key, now)>>)
  /\ UNCHANGED <<now, issued, expiry, session, replication, holder, replaced, applied>>

Incr(c) ==
  /\ Facing(c, "INCR")
  /\ MapIsFree
  /\ data' = AfterIncr(data, Current(c).key)
  /\ Leave(c, <<IncrReply(data, Current(c).key)>>)
  /\ UNCHANGED <<now, issued, expiry, session, replication, holder, replaced, applied>>

List(c) ==
  /\ Facing(c, "KEYS")
  /\ MapIsFree
  /\ Leave(c, <<KeysReply(data, Current(c).match)>>)
  /\ UNCHANGED <<now, issued, expiry, session, replication, mapState>>

(* SET reads the clock before it waits for any lock; its refusal has no    *)
(* crlf either.                                                            *)
SetRefusedSilently(c) ==
  /\ Facing(c, "SET")
  /\ CannotExpire(Current(c).px, now)
  /\ Leave(c, <<>>)
  /\ UNCHANGED <<now, issued, expiry, session, replication, mapState>>

SetRefused(c) ==
  /\ Facing(c, "SET")
  /\ CannotExpire(Current(c).px, now)
  /\ Leave(c, <<Torn>>)
  /\ UNCHANGED <<now, issued, expiry, session, replication, mapState>>

SetDeadline(c) ==
  /\ Facing(c, "SET")
  /\ ~ CannotExpire(Current(c).px, now)
  /\ expiry' = [expiry EXCEPT ![c] = Deadline(Current(c).px, now)]
  /\ Goto(c, "insert")
  /\ UNCHANGED <<now, issued, batch, done, res, asked, session, replication, mapState>>

SetInsert(c) ==
  LET cmd == Current(c) IN
  /\ At(c, "insert")
  /\ MapIsFree
  /\ holder' = c
  /\ data' = AfterSet(data, cmd, expiry[c])
  /\ replaced' = data[cmd.key]
  /\ applied' = Append(applied, AsMessage(cmd))
  /\ res' = [res EXCEPT ![c] = Append(@, Ok)]
  /\ Goto(c, "publish")
  /\ UNCHANGED <<now, issued, batch, done, expiry, asked, session, replication>>

(* With the map still locked: the role and SLAVES_COUNT are read, the SET  *)
(* is sent, and the guard is dropped at the end of the arm.  The count     *)
(* never falls, so reading it and sending on it are one step.              *)
SetPublish(c) ==
  /\ At(c, "publish")
  /\ feed' = IF Publishes THEN Append(feed, AsMessage(Current(c))) ELSE feed
  /\ Unlock
  /\ replaced' = NoEntry
  /\ expiry' = [expiry EXCEPT ![c] = Never]
  /\ Leave(c, <<>>)
  /\ UNCHANGED <<now, issued, session, slavesCount, joinedAt, countedAt, data, applied>>

(* What execute_multi_commands kept is gone.                               *)
ForgetKeepingDone(c) ==
  /\ batch' = [batch EXCEPT ![c] = <<>>]
  /\ res' = [res EXCEPT ![c] = <<>>]
  /\ asked' = [asked EXCEPT ![c] = 0]
  /\ UNCHANGED done

Forget(c) ==
  /\ batch' = [batch EXCEPT ![c] = <<>>]
  /\ done' = [done EXCEPT ![c] = 0]
  /\ res' = [res EXCEPT ![c] = <<>>]
  /\ asked' = [asked EXCEPT ![c] = 0]

(* An INFO without a section subtracts 1 from 0: a build that checks for   *)
(* overflow panics, and the task, holding no lock, ends with its connection*)
(* and the replies it had gathered; any other build goes on (in Plain).    *)
Panic(c) ==
  /\ Facing(c, "INFO")
  /\ Goto(c, "closed")
  /\ Forget(c)
  /\ UNCHANGED <<now, issued, expiry, session, replication, mapState>>

(* The batch is through: an EXEC also ends the transaction, then the reply *)
(* is written.                                                             *)
Return(c) ==
  /\ At(c, "exec")
  /\ done[c] = Len(batch[c])
  /\ Goto(c, "read")
  /\ IF isMulti[c]
       THEN /\ queue' = [queue EXCEPT ![c] = <<>>]
            /\ isMulti' = [isMulti EXCEPT ![c] = FALSE]
       ELSE UNCHANGED session
  /\ Forget(c)
  /\ UNCHANGED <<now, issued, expiry, replication, mapState>>

-----------------------------------------------------------------------------
(* PSYNC turns the connection into a replica pipe.                         *)

Psync(c) ==
  /\ c \in Peers
  /\ Receive(c)
  /\ Goto(c, "sync")
  /\ UNCHANGED <<now, session, replication, execution, mapState>>

(* build_replica_pipe subscribes before it spawns the pipe's task ...      *)
SubscribeInVain(c) ==
  /\ At(c, "sync")
  /\ Goto(c, "read")
  /\ joinedAt' = [joinedAt EXCEPT ![c] = Len(feed)]
  /\ UNCHANGED <<now, issued, session, slavesCount, feed, countedAt, execution, mapState>>

Subscribe(c) ==
  /\ At(c, "sync")
  /\ Goto(c, "piped")
  /\ joinedAt' = [joinedAt EXCEPT ![c] = Len(feed)]
  /\ UNCHANGED <<now, issued, session, slavesCount, feed, countedAt, execution, mapState>>

(* ... and only that task counts the replica.  Its loop never ends, so     *)
(* nothing ever counts it out.                                             *)
CountIn(c) ==
  /\ At(c, "piped")
  /\ Goto(c, "pipe")
  /\ slavesCount' = slavesCount + 1
  /\ countedAt' = [countedAt EXCEPT ![c] = Len(applied)]
  /\ UNCHANGED <<now, issued, session, feed, joinedAt, execution, mapState>>

Tick ==
  /\ now < MaxTime
  /\ now' = now + 1
  /\ UNCHANGED <<pc, issued, session, replication, execution, mapState>>

-----------------------------------------------------------------------------
Dispatch(c) ==
  \/ \E req \in Ignored : Ignore(c, req)
  \/ Multi(c) \/ Discard(c) \/ WithoutMulti(c) \/ Exec(c) \/ Psync(c)
  \/ \E cmd \in Requests : Enqueue(c, cmd) \/ Run(c, cmd)

Execute(c) ==
  \/ Plain(c) \/ Panic(c) \/ Get(c) \/ Incr(c) \/ List(c)
  \/ SetRefused(c) \/ SetDeadline(c) \/ SetInsert(c) \/ SetPublish(c)

Act(c) ==
  \/ Accept(c) \/ HangUp(c) \/ Dispatch(c) \/ Execute(c) \/ Return(c)
  \/ Subscribe(c) \/ CountIn(c)

Next == (\E c \in Conns : Act(c)) \/ Tick

Spec == Init /\ [][Next]_vars

(* The runtime polls every runnable task, and tokio's mutex hands itself   *)
(* over first in, first out, so a task that wants the map gets it although *)
(* others take it in between.  Nothing makes a client send, hang up or     *)
(* read its reply: Receive, HangUp and Return are not fair.                *)
LockMap(c) == Get(c) \/ Incr(c) \/ List(c) \/ SetInsert(c)

Fairness == \A c \in Conns : /\ WF_vars(Execute(c))
                             /\ SF_vars(LockMap(c))
                             /\ WF_vars(Subscribe(c) \/ CountIn(c))

FairSpec == Spec /\ Fairness

-----------------------------------------------------------------------------
Executing(c) == pc[c] \in {"exec", "insert", "publish"}

(* A transaction's commands are neither lost nor inherited: outside MULTI  *)
(* the queue of a live connection is empty, so what was queued before a    *)
(* DISCARD or an EXEC can never run again, an EXEC in service runs exactly *)
(* the queue of its own transaction, and a command outside MULTI runs      *)
(* alone (handle_commands' is_multi and queue).                            *)
OwnsQueue(c) ==
  /\ pc[c] # "closed" /\ ~ isMulti[c] => queue[c] = <<>>
  /\ Executing(c) => IF isMulti[c] THEN batch[c] = queue[c] ELSE Len(batch[c]) = 1

TransactionOwnsQueue == \A c \in Conns : OwnsQueue(c)

(* Whether a reply can be the answer to a command that was performed at    *)
(* some instant between two others.                                        *)
Fits(cmd, r, since, until) ==
  \/ cmd.op = "SET" /\ r = Ok /\ ~ CannotExpire(cmd.px, since)
  \/ cmd.op = "SET" /\ r = Torn /\ CannotExpire(cmd.px, until)
  \/ cmd.op = "GET" /\ (r = Nil \/ r[1] = "bulk")
  \/ cmd.op = "INCR" /\ (r = Err \/ r[1] = "int")
  \/ cmd.op = "KEYS" /\ r[1] = "keys"
  \/ cmd.op = "PING" /\ r = Ok
  \/ cmd.op = "INFO" /\ r = Garbled
  \/ cmd.op = "BADKEYS" /\ r = Torn

(* Where a client that reads the text of the replies finds one of them to  *)
(* begin: not behind a torn error, which it takes to go on up to the next  *)
(* crlf, and nowhere behind a bulk string without an end.                  *)
Heard(replies) ==
  {i \in 1 .. Len(replies) : /\ i > 1 => replies[i - 1] # Torn
                             /\ \A j \in 1 .. i - 1 : replies[j] # Garbled}

(* It counts them, and takes the i-th for the answer to the i-th command.  *)
Understood(replies, i) ==
  i \in Heard(replies) /\ Cardinality({j \in Heard(replies) : j <= i}) = i

(* The commands whose answer has no end, when performed at an instant.     *)
Spoils(cmd, instant) ==
  \/ cmd.op \in {"BADKEYS", "INFO"}
  \/ cmd.op = "SET" /\ CannotExpire(cmd.px, instant)

(* How many commands of a batch have left their reply.                     *)
Answered(c) == IF At(c, "publish") THEN done[c] + 1 ELSE done[c]

(* As long as no REPLCONF ACK is in a batch, there is one reply for each   *)
(* command behind us, and it is an answer to that command, whatever failed *)
(* (the arms of execute_multi_commands that `continue` after an error).    *)
(* The client can tell which reply answers which command up to the first   *)
(* KEYS or SET that was refused, whose error has no crlf (src/main.rs:508, *)
(* 553), or INFO without a section (:639), and from there on no longer; an *)
(* INCR that fails, whose error has one, does no harm.                     *)
AnswersLineUp ==
  \A c \in Conns : Executing(c) /\ (\A i \in 1 .. Len(batch[c]) : batch[c][i].op # "ACK") =>
    /\ Len(res[c]) = Answered(c)
    /\ \A i \in 1 .. Answered(c) :
         /\ Fits(batch[c][i], res[c][i], asked[c], now)
         /\ (\A j \in 1 .. i - 1 : ~ Spoils(batch[c][j], now)) => Understood(res[c], i)
         /\ (\E j \in 1 .. i - 1 : Spoils(batch[c][j], asked[c])) => ~ Understood(res[c], i)

(* How many SETs have left their critical section.                         *)
InFlight == IF holder = NoOne THEN 0 ELSE 1
Settled == Len(applied) - InFlight

(* Replicas see the SETs in the order the map did: the feed is, without a  *)
(* gap, the end of the sequence of all SETs that left their critical       *)
(* section (the map's mutex is held from insert to BROADCAST_CHANNEL.send).*)
FeedFollowsStore ==
  /\ Len(feed) <= Settled
  /\ \A i \in 1 .. Len(feed) : feed[i] = applied[Settled - Len(feed) + i]

(* No SET escapes a replica once its pipe is counted: all that settled     *)
(* since then lies in the part of the feed its receiver subscribed to      *)
(* (subscribe, then spawn, then count in build_replica_pipe).              *)
CoveredOnceCounted ==
  IsMaster => \A c \in Conns : pc[c] = "pipe" =>
    /\ joinedAt[c] <= Len(feed)
    /\ Settled - countedAt[c] <= Len(feed) - joinedAt[c]

(* A value whose deadline has passed never comes back: only a SET of that  *)
(* key puts something readable in its place (INCR keeps the deadline).     *)
NoRevival ==
  [][\A k \in Keys :
       data[k] # NoEntry /\ IsExpired(data[k], now) /\ Live(data', k, now')
         => Len(applied') > Len(applied) /\ applied'[Len(applied')].key = k]_vars

(* Every batch that entered execute_multi_commands is worked through,      *)
(* whatever other connections do, and even if their clients never read a   *)
(* reply (no lock is held while one is written), unless it panics.         *)
BatchesFinish ==
  \A c \in Conns :
    Executing(c) ~> \/ At(c, "exec") /\ done[c] = Len(batch[c])
                    \/ At(c, "closed")

(* A replica that asked for PSYNC is eventually counted, so that SETs are  *)
(* sent to it.                                                             *)
PipesForm == \A c \in Conns : At(c, "sync") ~> At(c, "pipe")

-----------------------------------------------------------------------------
(* The inductive strengthening of TransactionOwnsQueue, FeedFollowsStore   *)
(* and CoveredOnceCounted.                                                 *)

(* The map's mutex is held by exactly the task that is about to publish.   *)
LockDiscipline == \A c \in Conns : holder = c <=> At(c, "publish")

(* A task outside execute_multi_commands left nothing of it behind; one    *)
(* inside has a current command wherever it needs one.                     *)
WorkOf(c) ==
  /\ ~ Executing(c) => batch[c] = <<>> /\ done[c] = 0 /\ res[c] = <<>>
  /\ done[c] <= Len(batch[c])
  /\ pc[c] \in {"insert", "publish"} => done[c] < Len(batch[c]) /\ Current(c).op = "SET"

Workload == \A c \in Conns : WorkOf(c)

(* The SET in its critical section is the last one applied.                *)
InFlightIsLast ==
  holder # NoOne => /\ applied # <<>>
                    /\ applied[Len(applied)] = AsMessage(Current(holder))

(* What was published was published to somebody, and there still is one:   *)
(* only a master that counts a replica publishes, and none is counted out. *)
OnlyHeardIsFed == feed # <<>> => Publishes

(* A pipe subscribed to a feed that has only grown since, and once counted *)
(* it stays counted.                                                       *)
PipesAttached ==
  \A c \in Conns : /\ pc[c] \in {"piped", "pipe"} => joinedAt[c] <= Len(feed)
                   /\ At(c, "pipe") => slavesCount > 0

Inductive ==
  /\ TypeOK
  /\ LockDiscipline
  /\ Workload
  /\ InFlightIsLast
  /\ OnlyHeardIsFed
  /\ PipesAttached
  /\ TransactionOwnsQueue
  /\ FeedFollowsStore
  /\ CoveredOnceCounted

-----------------------------------------------------------------------------
(* The SET in flight is invisible: the map as it was before its insert.    *)
Visible ==
  IF holder = NoOne THEN data ELSE [data EXCEPT ![Current(holder).key] = replaced]

AnswersOf(c) == IF At(c, "publish") THEN SubSeq(res[c], 1, Len(res[c]) - 1) ELSE res[c]

(* The server is an atomic store: a SET takes effect, for clients and      *)
(* replicas alike, when it is published.                                   *)
Atomic == INSTANCE KVStore WITH
            store <- Visible, listeners <- slavesCount,
            res <- [c \in Conns |-> AnswersOf(c)]

AtomicStore == Atomic!Spec

-----------------------------------------------------------------------------
(* README.md:10, "`DEL` for deleting keys": after DEL k, k is absent.      *)
DelDeletes ==
  [][\A c \in Conns, req \in DelRequest : Ignore(c, req) => data'[req.key] = NoEntry]_vars

(* README.md:70, "a hash map for fast key-value access, with optional      *)
(* expiration times": INCR of a key that has expired counts from zero.     *)
IncrStartsAfresh ==
  [][\A c \in Conns : Incr(c) /\ ~ Live(data, Current(c).key, now)
       => res'[c] = Append(res[c], Number(1))]_vars
=============================================================================
