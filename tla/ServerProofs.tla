---------------------------- MODULE ServerProofs ----------------------------
(***************************************************************************)
(* The safety of module Server for all values of its constants.            *)
(*                                                                         *)
(* First come facts about the operators of Keyspace, then the type         *)
(* invariant, one step per action.  For the other conjuncts of Inductive   *)
(* three facts about actions spare most of the case analysis: a task only  *)
(* changes its own local variables (ActsAlone), only the two halves of a   *)
(* SET's critical section touch the locked map, its history and the feed   *)
(* (MostActsAreQuiet), and only Subscribe and CountIn touch the pipes      *)
(* (MostActsLeavePipes).  The second part is about the abstract store.     *)
(***************************************************************************)
EXTENDS Server, FiniteSetTheorems, TLAPS

-----------------------------------------------------------------------------
(* What commands are made of, and what they make of a map.                 *)

LEMMA CommandFields ==
  ASSUME NEW cmd \in Command
  PROVE  /\ cmd.op = "SET" => /\ cmd.key \in Keys
                              /\ cmd.val \in Values
                              /\ cmd.px \in Nat \cup {NoPx}
                              /\ AsMessage(cmd) \in Message
         /\ cmd.op \in {"GET", "INCR"} => cmd.key \in Keys
         /\ cmd.op = "KEYS" => cmd.match \in SUBSET Keys
BY DEF Command, SetCommand, KeyCommand, KeysCommand, PlainCommand, AsMessage, Message

LEMMA SetFacts ==
  ASSUME NEW d \in Data, NEW cmd \in SetCommand, NEW exp \in Instants
  PROVE  AfterSet(d, cmd, exp) \in Data
BY DEF AfterSet, Data, Entry, SetCommand

LEMMA DeadlineFacts ==
  ASSUME NEW px \in Nat \cup {NoPx}, NEW t \in Nat
  PROVE  Deadline(px, t) \in Instants
BY KeyspaceAssumption DEF Deadline, Instants

LEMMA GetFacts ==
  ASSUME NEW d \in Data, NEW k \in Keys, NEW t \in Nat
  PROVE  /\ AfterGet(d, k, t) \in Data
         /\ GetReply(d, k, t) \in Reply
<1>1. AfterGet(d, k, t) \in Data
  BY DEF AfterGet, Data
<1>2. d[k] # NoEntry => d[k].val \in Values
  BY DEF Data, Entry
<1>3. QED
  BY <1>1, <1>2 DEF GetReply, Live, Reply

LEMMA IncrFacts ==
  ASSUME NEW d \in Data, NEW k \in Keys
  PROVE  /\ AfterIncr(d, k) \in Data
         /\ IncrReply(d, k) \in Reply
<1>1. OrZero(d[k]).val \in Values /\ OrZero(d[k]).exp \in Instants
  BY KeyspaceAssumption DEF OrZero, Data, Entry, Values, Instants
<1>2. \A n \in 0 .. IntMax : Bump(n) \in 0 .. IntMax
  BY KeyspaceAssumption DEF Bump
<1>3. AfterIncr(d, k) \in Data
  BY <1>1, <1>2 DEF AfterIncr, Data, Entry, Values
<1>4. IncrReply(d, k) \in Reply
  BY <1>1, <1>2 DEF IncrReply, Reply, Values
<1>5. QED
  BY <1>3, <1>4

LEMMA ListFacts ==
  ASSUME NEW d \in Data, NEW S \in SUBSET Keys
  PROVE  KeysReply(d, S) \in Reply
BY DEF KeysReply, Reply

(* A group of variables that does not change keeps its type.               *)
LEMMA Unchanged ==
  ASSUME TypeOK
  PROVE  /\ UNCHANGED <<now, pc, issued>> => TaskType'
         /\ UNCHANGED session => SessionType'
         /\ UNCHANGED replication => ReplicationType'
         /\ UNCHANGED execution => ExecutionType'
         /\ UNCHANGED mapState => MapType'
<1> USE DEF TypeOK
<1>1. UNCHANGED <<now, pc, issued>> => TaskType'
  BY DEF TaskType
<1>2. UNCHANGED session => SessionType'
  BY DEF session, SessionType
<1>3. UNCHANGED replication => ReplicationType'
  BY DEF replication, ReplicationType
<1>4. UNCHANGED execution => ExecutionType'
  BY DEF execution, ExecutionType
<1>5. UNCHANGED mapState => MapType'
  BY DEF mapState, MapType
<1>6. QED
  BY <1>1, <1>2, <1>3, <1>4, <1>5

LEMMA Moves ==
  ASSUME TypeOK, NEW c \in Conns, NEW there \in Where, Goto(c, there), UNCHANGED now,
         issued' \in 0 .. MaxRequests
  PROVE  TaskType'
BY DEF TypeOK, TaskType, Goto

LEMMA Receives ==
  ASSUME TypeOK, NEW c \in Conns, Receive(c)
  PROVE  issued' \in 0 .. MaxRequests
BY ServerAssumption DEF TypeOK, TaskType, Receive

LEMMA CurrentType ==
  ASSUME TypeOK, NEW c \in Conns, done[c] < Len(batch[c])
  PROVE  Current(c) \in Command
BY DEF TypeOK, ExecutionType, Current

(* Leaving an arm with well-typed replies.                                 *)
LEMMA Leaves ==
  ASSUME TypeOK, NEW c \in Conns, NEW r \in Seq(Reply), Leave(c, r),
         expiry' \in [Conns -> Instants]
  PROVE  ExecutionType'
<1>1. done' \in [Conns -> Nat] /\ res' \in [Conns -> Seq(Reply)]
  BY DEF TypeOK, ExecutionType, Leave
<1>2. QED
  BY <1>1 DEF TypeOK, ExecutionType, Leave

LEMMA LeavesOne ==
  ASSUME TypeOK, NEW c \in Conns, NEW r \in Reply, Leave(c, <<r>>), expiry' = expiry
  PROVE  ExecutionType'
<1>1. <<r>> \in Seq(Reply)
  OBVIOUS
<1>2. expiry' \in [Conns -> Instants]
  BY DEF TypeOK, ExecutionType
<1>3. QED
  BY <1>1, <1>2, Leaves

LEMMA LeavesNone ==
  ASSUME TypeOK, NEW c \in Conns, Leave(c, <<>>), expiry' \in [Conns -> Instants]
  PROVE  ExecutionType'
<1>1. <<>> \in Seq(Reply)
  OBVIOUS
<1>2. QED
  BY <1>1, Leaves

-----------------------------------------------------------------------------
LEMMA TypeStep == Inductive /\ [Next]_vars => TypeOK'
<1> SUFFICES ASSUME Inductive, [Next]_vars PROVE TypeOK'
  OBVIOUS
<1>0. TypeOK /\ Workload
  BY DEF Inductive
<1> USE <1>0
<1>1. ASSUME NEW c \in Conns, Accept(c) PROVE TypeOK'
  <2>1. SessionType'
    BY <1>1 DEF Accept, SessionType, TypeOK
  <2>2. TaskType'
    BY <1>1, Moves DEF Accept, Where, TypeOK, TaskType
  <2>3. QED
    BY <1>1, <2>1, <2>2, Unchanged DEF Accept, TypeOK
<1>2. ASSUME NEW c \in Conns, HangUp(c) PROVE TypeOK'
  <2>1. TaskType'
    BY <1>2, Moves DEF HangUp, Where, TypeOK, TaskType
  <2>2. QED
    BY <1>2, <2>1, Unchanged DEF HangUp, TypeOK
<1>3. ASSUME NEW c \in Conns, Multi(c) PROVE TypeOK'
  <2>1. SessionType'
    BY <1>3 DEF Multi, SessionType, TypeOK
  <2>2. TaskType'
    BY <1>3, Receives DEF Multi, TypeOK, TaskType
  <2>3. QED
    BY <1>3, <2>1, <2>2, Unchanged DEF Multi, TypeOK
<1>4. ASSUME NEW c \in Conns, Discard(c) PROVE TypeOK'
  <2>1. SessionType'
    BY <1>4 DEF Discard, SessionType, TypeOK
  <2>2. TaskType'
    BY <1>4, Receives DEF Discard, TypeOK, TaskType
  <2>3. QED
    BY <1>4, <2>1, <2>2, Unchanged DEF Discard, TypeOK
<1>5. ASSUME NEW c \in Conns, WithoutMulti(c) PROVE TypeOK'
  <2>1. TaskType'
    BY <1>5, Receives DEF WithoutMulti, TypeOK, TaskType
  <2>2. QED
    BY <1>5, <2>1, Unchanged DEF WithoutMulti, TypeOK
<1>6. ASSUME NEW c \in Conns, Psync(c) PROVE TypeOK'
  <2>1. TaskType'
    BY <1>6, Receives, Moves DEF Psync, Where
  <2>2. QED
    BY <1>6, <2>1, Unchanged DEF Psync, TypeOK
<1>7. ASSUME NEW c \in Conns, Exec(c) PROVE TypeOK'
  <2>1. TaskType'
    BY <1>7, Receives, Moves DEF Exec, Call, Where
  <2>2. ExecutionType'
    BY <1>7 DEF Exec, Call, TypeOK, SessionType, ExecutionType, TaskType
  <2>3. QED
    BY <1>7, <2>1, <2>2, Unchanged DEF Exec, Call, TypeOK
<1>8. ASSUME NEW c \in Conns, Plain(c) PROVE TypeOK'
  <2>1. ExecutionType'
    <3>1. Ok \in Reply /\ Torn \in Reply /\ Garbled \in Reply /\ expiry' = expiry
      BY <1>8 DEF Plain, Reply
    <3>2. expiry' \in [Conns -> Instants]
      BY <3>1 DEF TypeOK, ExecutionType
    <3>3. Leave(c, <<Ok>>) \/ Leave(c, <<Garbled>>) \/ Leave(c, <<>>) \/ Leave(c, <<Torn>>)
      BY <1>8 DEF Plain
    <3>4. QED
      BY <3>1, <3>2, <3>3, LeavesOne, LeavesNone
  <2>2. TaskType'
    BY <1>8, Moves DEF Plain, Leave, Where, TypeOK, TaskType
  <2>3. QED
    BY <1>8, <2>1, <2>2, Unchanged DEF Plain, TypeOK
<1>9. ASSUME NEW c \in Conns, Get(c) PROVE TypeOK'
  <2>1. Current(c).key \in Keys
    BY <1>9, CurrentType, CommandFields DEF Get, Facing
  <2>2. MapType'
    BY <1>9, <2>1, GetFacts DEF Get, TypeOK, MapType, TaskType
  <2>3. ExecutionType'
    <3>1. GetReply(data, Current(c).key, now) \in Reply
      BY <2>1, GetFacts DEF TypeOK, MapType, TaskType
    <3>2. QED
      BY <1>9, <3>1, LeavesOne DEF Get
  <2>4. TaskType'
    BY <1>9, Moves DEF Get, Leave, Where, TypeOK, TaskType
  <2>5. QED
    BY <1>9, <2>1, <2>2, <2>3, <2>4, Unchanged DEF Get, TypeOK
<1>10. ASSUME NEW c \in Conns, Incr(c) PROVE TypeOK'
  <2>1. Current(c).key \in Keys
    BY <1>10, CurrentType, CommandFields DEF Incr, Facing
  <2>2. MapType'
    BY <1>10, <2>1, IncrFacts DEF Incr, TypeOK, MapType, TaskType
  <2>3. ExecutionType'
    <3>1. IncrReply(data, Current(c).key) \in Reply
      BY <2>1, IncrFacts DEF TypeOK, MapType
    <3>2. QED
      BY <1>10, <3>1, LeavesOne DEF Incr
  <2>4. TaskType'
    BY <1>10, Moves DEF Incr, Leave, Where, TypeOK, TaskType
  <2>5. QED
    BY <1>10, <2>1, <2>2, <2>3, <2>4, Unchanged DEF Incr, TypeOK
<1>11. ASSUME NEW c \in Conns, List(c) PROVE TypeOK'
  <2>1. Current(c).match \in SUBSET Keys
    BY <1>11, CurrentType, CommandFields DEF List, Facing
  <2>2. ExecutionType'
    <3>1. KeysReply(data, Current(c).match) \in Reply
      BY <2>1, ListFacts DEF TypeOK, MapType
    <3>2. QED
      BY <1>11, <3>1, LeavesOne DEF List
  <2>3. TaskType'
    BY <1>11, Moves DEF List, Leave, Where, TypeOK, TaskType
  <2>4. QED
    BY <1>11, <2>1, <2>2, <2>3, Unchanged DEF List, TypeOK
<1>12. ASSUME NEW c \in Conns, SetRefused(c) PROVE TypeOK'
  <2>1. ExecutionType'
    <3>1. Torn \in Reply
      BY DEF Reply
    <3>2. QED
      BY <1>12, <3>1, LeavesOne DEF SetRefused
  <2>2. TaskType'
    BY <1>12, Moves DEF SetRefused, Leave, Where, TypeOK, TaskType
  <2>3. QED
    BY <1>12, <2>1, <2>2, Unchanged DEF SetRefused, TypeOK
<1>13. ASSUME NEW c \in Conns, SetDeadline(c) PROVE TypeOK'
  <2>1. Current(c).px \in Nat \cup {NoPx}
    BY <1>13, CurrentType, CommandFields DEF SetDeadline, Facing
  <2>2. ExecutionType'
    <3>1. now \in Nat
      BY ServerAssumption DEF TypeOK, TaskType
    <3>2. Deadline(Current(c).px, now) \in Instants
      BY <2>1, <3>1, DeadlineFacts
    <3>3. QED
      BY <1>13, <3>2 DEF SetDeadline, TypeOK, ExecutionType
  <2>3. TaskType'
    BY <1>13, Moves DEF SetDeadline, Where, TypeOK, TaskType
  <2>4. QED
    BY <1>13, <2>1, <2>2, <2>3, Unchanged DEF SetDeadline, TypeOK
<1>14. ASSUME NEW c \in Conns, SetInsert(c) PROVE TypeOK'
  <2>1. Current(c) \in SetCommand /\ AsMessage(Current(c)) \in Message
    BY <1>14, CurrentType, CommandFields DEF SetInsert, Workload, WorkOf, At, Command, SetCommand, KeyCommand, KeysCommand, PlainCommand
  <2>2. MapType'
    <3>1. data' \in Data
      BY <1>14, <2>1, SetFacts DEF SetInsert, TypeOK, MapType, ExecutionType
    <3>2. replaced' \in Entry \cup {NoEntry}
      BY <1>14, <2>1 DEF SetInsert, TypeOK, MapType, Data, SetCommand
    <3>3. applied' \in Seq(Message)
      BY <1>14, <2>1 DEF SetInsert, TypeOK, MapType
    <3>4. QED
      BY <1>14, <3>1, <3>2, <3>3 DEF SetInsert, MapType
  <2>3. ExecutionType'
    <3>1. Ok \in Reply
      BY DEF Reply
    <3>2. res' \in [Conns -> Seq(Reply)]
      BY <1>14, <3>1 DEF SetInsert, TypeOK, ExecutionType
    <3>3. QED
      BY <1>14, <3>2 DEF SetInsert, TypeOK, ExecutionType
  <2>4. TaskType'
    BY <1>14, Moves DEF SetInsert, Where, TypeOK, TaskType
  <2>5. QED
    BY <1>14, <2>1, <2>2, <2>3, <2>4, Unchanged DEF SetInsert, TypeOK
<1>15. ASSUME NEW c \in Conns, SetPublish(c) PROVE TypeOK'
  <2>1. AsMessage(Current(c)) \in Message
    BY <1>15, CurrentType, CommandFields DEF SetPublish, Workload, WorkOf, At
  <2>2. ReplicationType'
    BY <1>15, <2>1 DEF SetPublish, TypeOK, ReplicationType
  <2>3. MapType'
    BY <1>15 DEF SetPublish, Unlock, TypeOK, MapType
  <2>4. ExecutionType'
    <3>1. expiry' \in [Conns -> Instants]
      BY <1>15 DEF SetPublish, TypeOK, ExecutionType, Instants
    <3>2. QED
      BY <1>15, <3>1, LeavesNone DEF SetPublish
  <2>5. TaskType'
    BY <1>15, Moves DEF SetPublish, Leave, Where, TypeOK, TaskType
  <2>6. QED
    BY <1>15, <2>1, <2>2, <2>3, <2>4, <2>5, Unchanged DEF SetPublish, TypeOK
<1>16. ASSUME NEW c \in Conns, Return(c) PROVE TypeOK'
  <2>1. SessionType'
    <3>1. CASE isMulti[c]
      <4>1. /\ queue' = [queue EXCEPT ![c] = <<>>]
            /\ isMulti' = [isMulti EXCEPT ![c] = FALSE]
        BY <1>16, <3>1 DEF Return
      <4>2. QED
        BY <4>1 DEF TypeOK, SessionType
    <3>2. CASE ~ isMulti[c]
      BY <1>16, <3>2, Unchanged DEF Return
    <3>3. QED
      BY <3>1, <3>2
  <2>2. ExecutionType'
    BY <1>16 DEF Return, Forget, TypeOK, ExecutionType
  <2>3. TaskType'
    BY <1>16, Moves DEF Return, Where, TypeOK, TaskType
  <2>4. QED
    BY <1>16, <2>1, <2>2, <2>3, Unchanged DEF Return, TypeOK
<1>17. ASSUME NEW c \in Conns, Subscribe(c) PROVE TypeOK'
  <2>1. ReplicationType'
    BY <1>17 DEF Subscribe, TypeOK, ReplicationType
  <2>2. TaskType'
    BY <1>17, Moves DEF Subscribe, Where, TypeOK, TaskType
  <2>3. QED
    BY <1>17, <2>1, <2>2, Unchanged DEF Subscribe, TypeOK
<1>18. ASSUME NEW c \in Conns, CountIn(c) PROVE TypeOK'
  <2>1. ReplicationType'
    BY <1>18 DEF CountIn, TypeOK, ReplicationType, MapType
  <2>2. TaskType'
    BY <1>18, Moves DEF CountIn, Where, TypeOK, TaskType
  <2>3. QED
    BY <1>18, <2>1, <2>2, Unchanged DEF CountIn, TypeOK
<1>19. ASSUME NEW c \in Conns, NEW req \in Ignored, Ignore(c, req) PROVE TypeOK'
  <2>1. TaskType'
    BY <1>19, Receives DEF Ignore, TypeOK, TaskType
  <2>2. QED
    BY <1>19, <2>1, Unchanged DEF Ignore, TypeOK
<1>20. ASSUME NEW c \in Conns, NEW cmd \in Requests, Enqueue(c, cmd) PROVE TypeOK'
  <2>1. SessionType'
    BY <1>20, ServerAssumption DEF Enqueue, SessionType, TypeOK
  <2>2. TaskType'
    BY <1>20, Receives DEF Enqueue, TypeOK, TaskType
  <2>3. QED
    BY <1>20, <2>1, <2>2, Unchanged DEF Enqueue, TypeOK
<1>21. ASSUME NEW c \in Conns, NEW cmd \in Requests, Run(c, cmd) PROVE TypeOK'
  <2>1. TaskType'
    BY <1>21, Receives, Moves DEF Run, Call, Where
  <2>2. ExecutionType'
    <3>1. <<cmd>> \in Seq(Command)
      BY ServerAssumption
    <3>2. QED
      BY <1>21, <3>1 DEF Run, Call, TypeOK, ExecutionType, TaskType
  <2>3. QED
    BY <1>21, <2>1, <2>2, Unchanged DEF Run, Call, TypeOK
<1>22. CASE Tick
  <2>1. TaskType'
    BY <1>22, ServerAssumption DEF Tick, TypeOK, TaskType
  <2>2. QED
    BY <1>22, <2>1, Unchanged DEF Tick, TypeOK
<1>23. CASE UNCHANGED vars
  BY <1>23, Unchanged DEF vars, TypeOK
<1>24. ASSUME NEW c \in Conns, Panic(c) PROVE TypeOK'
  <2>1. TaskType'
    BY <1>24, Moves DEF Panic, Where, TypeOK, TaskType
  <2>2. ExecutionType'
    BY <1>24 DEF Panic, Forget, TypeOK, ExecutionType
  <2>3. QED
    BY <1>24, <2>1, <2>2, Unchanged DEF Panic, TypeOK
<1>25. QED
  BY <1>1, <1>2, <1>3, <1>4, <1>5, <1>6, <1>7, <1>8, <1>9, <1>10, <1>11, <1>12, <1>13,
     <1>14, <1>15, <1>16, <1>17, <1>18, <1>19, <1>20, <1>21, <1>22, <1>23, <1>24
  DEF Next, Act, Dispatch, Execute
-----------------------------------------------------------------------------
(* Whoever acts, the local variables of every other task stay as they are. *)
LEMMA ActsAlone ==
  ASSUME TypeOK, NEW c \in Conns, Act(c), NEW d \in Conns, d # c
  PROVE  /\ pc'[d] = pc[d] /\ isMulti'[d] = isMulti[d] /\ queue'[d] = queue[d]
         /\ batch'[d] = batch[d] /\ done'[d] = done[d] /\ res'[d] = res[d]
         /\ expiry'[d] = expiry[d] /\ asked'[d] = asked[d]
<1> USE DEF TypeOK, TaskType, SessionType, ExecutionType
<1> DEFINE Same == /\ pc'[d] = pc[d] /\ isMulti'[d] = isMulti[d] /\ queue'[d] = queue[d]
                  /\ batch'[d] = batch[d] /\ done'[d] = done[d] /\ res'[d] = res[d]
                  /\ expiry'[d] = expiry[d] /\ asked'[d] = asked[d]
<1>1. CASE Accept(c)
  BY <1>1 DEF Accept, Goto, session, execution
<1>2. CASE HangUp(c)
  BY <1>2 DEF HangUp, Goto, session, execution
<1>3. CASE Multi(c)
  BY <1>3 DEF Multi, Goto, session, execution
<1>4. CASE Discard(c)
  BY <1>4 DEF Discard, Goto, session, execution
<1>5. CASE WithoutMulti(c)
  BY <1>5 DEF WithoutMulti, Goto, session, execution
<1>6. CASE Psync(c)
  BY <1>6 DEF Psync, Goto, session, execution
<1>7. CASE Exec(c)
  BY <1>7 DEF Exec, Call, Goto, session, execution
<1>8. CASE Plain(c)
  BY <1>8 DEF Plain, Leave, Goto, session, execution
<1>9. CASE Get(c)
  BY <1>9 DEF Get, Leave, Goto, session, execution
<1>10. CASE Incr(c)
  BY <1>10 DEF Incr, Leave, Goto, session, execution
<1>11. CASE List(c)
  BY <1>11 DEF List, Leave, Goto, session, execution
<1>12. CASE SetRefused(c)
  BY <1>12 DEF SetRefused, Leave, Goto, session, execution
<1>13. CASE SetDeadline(c)
  BY <1>13 DEF SetDeadline, Goto, session, execution
<1>14. CASE SetInsert(c)
  BY <1>14 DEF SetInsert, Goto, session, execution
<1>15. CASE SetPublish(c)
  BY <1>15 DEF SetPublish, Leave, Goto, session, execution
<1>16. CASE Return(c)
  BY <1>16 DEF Return, Forget, Goto, session, execution
<1>17. CASE Subscribe(c)
  BY <1>17 DEF Subscribe, Goto, session, execution
<1>18. CASE CountIn(c)
  BY <1>18 DEF CountIn, Goto, session, execution
<1>19. ASSUME NEW req \in Ignored, Ignore(c, req) PROVE Same
  BY <1>19 DEF Ignore, Goto, session, execution
<1>20. ASSUME NEW cmd \in Requests, Enqueue(c, cmd) PROVE Same
  BY <1>20 DEF Enqueue, Goto, session, execution
<1>21. ASSUME NEW cmd \in Requests, Run(c, cmd) PROVE Same
  BY <1>21 DEF Run, Call, Goto, session, execution
<1>22. CASE Panic(c)
  BY <1>22 DEF Panic, Facing, Forget, Goto, session, execution
<1>23. QED
  BY <1>1, <1>2, <1>3, <1>4, <1>5, <1>6, <1>7, <1>8, <1>9, <1>10, <1>11, <1>12, <1>13, <1>14, <1>15, <1>16, <1>17, <1>18, <1>19, <1>20, <1>21, <1>22 DEF Act, Dispatch, Execute

(* All but the two halves of a SET's critical section leave the locked SET, *)
(* the feed and the history of the map alone.                               *)
Quiet ==
  /\ UNCHANGED <<holder, applied, feed>>
  /\ \A d \in Conns : /\ At(d, "publish")' <=> At(d, "publish")
                      /\ At(d, "publish") => batch'[d] = batch[d] /\ done'[d] = done[d]

LEMMA MostActsAreQuiet ==
  ASSUME TypeOK, NEW c \in Conns, Act(c), ~ SetInsert(c), ~ SetPublish(c)
  PROVE  Quiet
<1> USE DEF TypeOK, TaskType, ExecutionType, Quiet, At
<1>1. CASE Accept(c)
  BY <1>1 DEF Accept, Goto, execution, replication, mapState
<1>2. CASE HangUp(c)
  BY <1>2 DEF HangUp, Goto, execution, replication, mapState
<1>3. CASE Multi(c)
  BY <1>3 DEF Multi, Receive, Goto, execution, replication, mapState
<1>4. CASE Discard(c)
  BY <1>4 DEF Discard, Receive, Goto, execution, replication, mapState
<1>5. CASE WithoutMulti(c)
  BY <1>5 DEF WithoutMulti, Receive, Goto, execution, replication, mapState
<1>6. CASE Psync(c)
  BY <1>6 DEF Psync, Receive, Goto, execution, replication, mapState
<1>7. CASE Exec(c)
  BY <1>7 DEF Exec, Call, Receive, Goto, execution, replication, mapState
<1>8. CASE Plain(c)
  BY <1>8 DEF Plain, Leave, Facing, Goto, execution, replication, mapState
<1>9. CASE Get(c)
  BY <1>9 DEF Get, Leave, Facing, Goto, execution, replication, mapState
<1>10. CASE Incr(c)
  BY <1>10 DEF Incr, Leave, Facing, Goto, execution, replication, mapState
<1>11. CASE List(c)
  BY <1>11 DEF List, Leave, Facing, Goto, execution, replication, mapState
<1>12. CASE SetRefused(c)
  BY <1>12 DEF SetRefused, Leave, Facing, Goto, execution, replication, mapState
<1>13. CASE SetDeadline(c)
  BY <1>13 DEF SetDeadline, Facing, Goto, execution, replication, mapState
<1>14. CASE Return(c)
  BY <1>14 DEF Return, Forget, Goto, execution, replication, mapState
<1>15. CASE Subscribe(c)
  BY <1>15 DEF Subscribe, Goto, execution, replication, mapState
<1>16. CASE CountIn(c)
  BY <1>16 DEF CountIn, Goto, execution, replication, mapState
<1>17. ASSUME NEW req \in Ignored, Ignore(c, req) PROVE Quiet
  BY <1>17 DEF Ignore, Receive, Goto, execution, replication, mapState
<1>18. ASSUME NEW cmd \in Requests, Enqueue(c, cmd) PROVE Quiet
  BY <1>18 DEF Enqueue, Receive, Goto, execution, replication, mapState
<1>19. ASSUME NEW cmd \in Requests, Run(c, cmd) PROVE Quiet
  BY <1>19 DEF Run, Call, Receive, Goto, execution, replication, mapState
<1>20. CASE Panic(c)
  BY <1>20 DEF Panic, Facing, Forget, Goto, execution, replication, mapState
<1>21. QED
  BY <1>1, <1>2, <1>3, <1>4, <1>5, <1>6, <1>7, <1>8, <1>9, <1>10, <1>11, <1>12, <1>13, <1>14, <1>15, <1>16, <1>17, <1>18, <1>19, <1>20 DEF Act, Dispatch, Execute

(* All but Subscribe and CountIn leave the replicas' pipes alone.           *)
PipesStay ==
  /\ UNCHANGED <<slavesCount, joinedAt, countedAt>>
  /\ \A d \in Conns : pc'[d] \in {"piped", "pipe"} => pc'[d] = pc[d]

LEMMA MostActsLeavePipes ==
  ASSUME TypeOK, NEW c \in Conns, Act(c), ~ Subscribe(c), ~ CountIn(c)
  PROVE  PipesStay
<1> USE DEF TypeOK, TaskType, PipesStay, At
<1>1. CASE Accept(c)
  BY <1>1 DEF Accept, Goto, replication
<1>2. CASE HangUp(c)
  BY <1>2 DEF HangUp, Goto, replication
<1>3. CASE Multi(c)
  BY <1>3 DEF Multi, Receive, Goto, replication
<1>4. CASE Discard(c)
  BY <1>4 DEF Discard, Receive, Goto, replication
<1>5. CASE WithoutMulti(c)
  BY <1>5 DEF WithoutMulti, Receive, Goto, replication
<1>6. CASE Psync(c)
  BY <1>6 DEF Psync, Receive, Goto, replication
<1>7. CASE Exec(c)
  BY <1>7 DEF Exec, Call, Receive, Goto, replication
<1>8. CASE Plain(c)
  BY <1>8 DEF Plain, Leave, Facing, Goto, replication
<1>9. CASE Get(c)
  BY <1>9 DEF Get, Leave, Facing, Goto, replication
<1>10. CASE Incr(c)
  BY <1>10 DEF Incr, Leave, Facing, Goto, replication
<1>11. CASE List(c)
  BY <1>11 DEF List, Leave, Facing, Goto, replication
<1>12. CASE SetRefused(c)
  BY <1>12 DEF SetRefused, Leave, Facing, Goto, replication
<1>13. CASE SetDeadline(c)
  BY <1>13 DEF SetDeadline, Facing, Goto, replication
<1>14. CASE SetInsert(c)
  BY <1>14 DEF SetInsert, Goto, replication
<1>15. CASE SetPublish(c)
  BY <1>15 DEF SetPublish, Leave, Goto, replication
<1>16. CASE Return(c)
  BY <1>16 DEF Return, Forget, Goto, replication
<1>17. ASSUME NEW req \in Ignored, Ignore(c, req) PROVE PipesStay
  BY <1>17 DEF Ignore, Receive, Goto, replication
<1>18. ASSUME NEW cmd \in Requests, Enqueue(c, cmd) PROVE PipesStay
  BY <1>18 DEF Enqueue, Receive, Goto, replication
<1>19. ASSUME NEW cmd \in Requests, Run(c, cmd) PROVE PipesStay
  BY <1>19 DEF Run, Call, Receive, Goto, replication
<1>20. CASE Panic(c)
  BY <1>20 DEF Panic, Facing, Forget, Goto, replication
<1>21. QED
  BY <1>1, <1>2, <1>3, <1>4, <1>5, <1>6, <1>7, <1>8, <1>9, <1>10, <1>11, <1>12, <1>13, <1>14, <1>15, <1>16, <1>17, <1>18, <1>19, <1>20 DEF Act, Dispatch, Execute

LEMMA OthersAreQuiet ==
  ASSUME TypeOK, Tick \/ UNCHANGED vars
  PROVE  Quiet /\ PipesStay
BY DEF TypeOK, TaskType, Tick, vars, Quiet, PipesStay, At, execution, replication, mapState

-----------------------------------------------------------------------------
LEMMA LockDisciplineStep == Inductive /\ [Next]_vars => LockDiscipline'
<1> SUFFICES ASSUME Inductive, [Next]_vars PROVE LockDiscipline'
  OBVIOUS
<1> USE ServerAssumption DEF Inductive, LockDiscipline
<1>1. CASE Quiet
  BY <1>1 DEF Quiet, At
<1>2. ASSUME NEW c \in Conns, SetInsert(c) PROVE LockDiscipline'
  BY <1>2 DEF SetInsert, MapIsFree, At, Goto, TypeOK, TaskType
<1>3. ASSUME NEW c \in Conns, SetPublish(c) PROVE LockDiscipline'
  BY <1>3 DEF SetPublish, Unlock, Leave, At, Goto, TypeOK, TaskType
<1>4. QED
  BY <1>1, <1>2, <1>3, MostActsAreQuiet, OthersAreQuiet DEF Next

LEMMA InFlightIsLastStep == Inductive /\ [Next]_vars => InFlightIsLast'
<1> SUFFICES ASSUME Inductive, [Next]_vars PROVE InFlightIsLast'
  OBVIOUS
<1> USE ServerAssumption DEF Inductive, InFlightIsLast
<1>1. CASE Quiet
  <2>1. SUFFICES ASSUME holder # NoOne
                 PROVE  Current(holder)' = Current(holder)
    BY <1>1 DEF Quiet
  <2>2. holder \in Conns /\ At(holder, "publish")
    BY <2>1 DEF LockDiscipline, TypeOK, MapType
  <2>3. QED
    BY <1>1, <2>2 DEF Quiet, Current
<1>2. ASSUME NEW c \in Conns, SetInsert(c) PROVE InFlightIsLast'
  <2>1. /\ holder' = c
        /\ applied' = Append(applied, AsMessage(Current(c)))
        /\ Current(c)' = Current(c)
    BY <1>2 DEF SetInsert, Current
  <2>2. applied \in Seq(Message)
    BY DEF TypeOK, MapType
  <2>3. applied'[Len(applied')] = AsMessage(Current(c)) /\ applied' # <<>>
    BY <2>1, <2>2
  <2>4. QED
    BY <2>1, <2>3
<1>3. ASSUME NEW c \in Conns, SetPublish(c) PROVE InFlightIsLast'
  BY <1>3 DEF SetPublish, Unlock
<1>4. QED
  BY <1>1, <1>2, <1>3, MostActsAreQuiet, OthersAreQuiet DEF Next

LEMMA FeedFollowsStoreStep == Inductive /\ [Next]_vars => FeedFollowsStore'
<1> SUFFICES ASSUME Inductive, [Next]_vars PROVE FeedFollowsStore'
  OBVIOUS
<1> USE ServerAssumption DEF Inductive, FeedFollowsStore, Settled, InFlight
<1>1. applied \in Seq(Message) /\ feed \in Seq(Message)
  BY DEF TypeOK, MapType, ReplicationType
<1>2. CASE Quiet
  BY <1>2 DEF Quiet
<1>3. ASSUME NEW c \in Conns, SetInsert(c) PROVE FeedFollowsStore'
  <2>1. /\ holder = NoOne /\ holder' = c /\ feed' = feed
        /\ applied' = Append(applied, AsMessage(Current(c)))
    BY <1>3 DEF SetInsert, MapIsFree, replication
  <2>2. /\ Len(applied') = Len(applied) + 1
        /\ \A i \in 1 .. Len(applied) : applied'[i] = applied[i]
    BY <1>1, <2>1
  <2>3. QED
    BY <1>1, <2>1, <2>2
<1>4. ASSUME NEW c \in Conns, SetPublish(c) PROVE FeedFollowsStore'
  <2>1. /\ holder = c /\ holder' = NoOne /\ applied' = applied
        /\ \/ feed' = feed /\ ~ Publishes
           \/ feed' = Append(feed, AsMessage(Current(c)))
    BY <1>4 DEF SetPublish, Unlock, LockDiscipline
  <2>2. Len(applied) > 0 /\ applied[Len(applied)] = AsMessage(Current(c))
    BY <1>1, <2>1 DEF InFlightIsLast
  <2>3. CASE feed' = Append(feed, AsMessage(Current(c)))
    <3>1. /\ Len(feed') = Len(feed) + 1
          /\ feed'[Len(feed) + 1] = applied[Len(applied)]
          /\ \A i \in 1 .. Len(feed) : feed'[i] = feed[i]
      BY <1>1, <2>2, <2>3
    <3>2. /\ Settled' = Settled + 1
          /\ Settled' = Len(applied)
          /\ Settled \in Nat
      BY <1>1, <2>1, <2>2
    <3>3. Len(feed') <= Settled'
      BY <1>1, <3>1, <3>2
    <3>4. ASSUME NEW i \in 1 .. Len(feed')
          PROVE  feed'[i] = applied'[Settled' - Len(feed') + i]
      <4>1. CASE i = Len(feed) + 1
        <5>1. Settled' - Len(feed') + i = Len(applied)
          BY <1>1, <3>1, <3>2, <4>1
        <5>2. feed'[i] = applied[Len(applied)]
          BY <3>1, <4>1
        <5>3. QED
          BY <2>1, <5>1, <5>2
      <4>2. CASE i # Len(feed) + 1
        <5>1. i \in 1 .. Len(feed) /\ Settled' - Len(feed') + i = Settled - Len(feed) + i
          <6> HIDE DEF Inductive, FeedFollowsStore, Settled, InFlight
          <6>1. Len(feed) \in Nat /\ Settled' = Settled + 1 /\ Settled \in Nat
            BY <1>1, <3>2
          <6>2. QED
            BY <3>1, <4>2, <6>1
        <5>2. QED
          BY <2>1, <3>1, <5>1
      <4>3. QED
        BY <4>1, <4>2
    <3>5. QED
      BY <3>3, <3>4
  <2>4. CASE feed' = feed /\ ~ Publishes
    BY <1>1, <2>1, <2>2, <2>4 DEF OnlyHeardIsFed
  <2>5. QED
    BY <2>1, <2>3, <2>4
<1>5. QED
  BY <1>2, <1>3, <1>4, MostActsAreQuiet, OthersAreQuiet DEF Next

LEMMA OnlyHeardIsFedStep == Inductive /\ [Next]_vars => OnlyHeardIsFed'
<1> SUFFICES ASSUME Inductive, [Next]_vars PROVE OnlyHeardIsFed'
  OBVIOUS
<1> USE DEF Inductive, OnlyHeardIsFed, Publishes
<1>1. slavesCount \in Nat
  BY DEF TypeOK, ReplicationType
<1>2. CASE UNCHANGED <<slavesCount, feed>>
  BY <1>2
<1>3. ASSUME NEW c \in Conns, SetPublish(c) PROVE OnlyHeardIsFed'
  BY <1>3 DEF SetPublish
<1>4. ASSUME NEW c \in Conns, CountIn(c) PROVE OnlyHeardIsFed'
  BY <1>1, <1>4 DEF CountIn
<1>5. ASSUME NEW c \in Conns, Subscribe(c) PROVE UNCHANGED <<slavesCount, feed>>
  BY <1>5 DEF Subscribe
<1>6. ASSUME NEW c \in Conns, SetInsert(c) PROVE UNCHANGED <<slavesCount, feed>>
  BY <1>6 DEF SetInsert, replication
<1>7. Quiet /\ PipesStay => UNCHANGED <<slavesCount, feed>>
  BY DEF Quiet, PipesStay
<1>8. QED
  BY <1>2, <1>3, <1>4, <1>5, <1>6, <1>7, MostActsAreQuiet, MostActsLeavePipes, OthersAreQuiet
  DEF Next

LEMMA PipesAttachedStep == Inductive /\ [Next]_vars => PipesAttached'
<1> SUFFICES ASSUME Inductive, [Next]_vars PROVE PipesAttached'
  OBVIOUS
<1> USE DEF Inductive, PipesAttached
<1>1. /\ slavesCount \in Nat /\ feed \in Seq(Message)
      /\ joinedAt \in [Conns -> Nat] /\ pc \in [Conns -> Where]
  BY DEF TypeOK, ReplicationType, TaskType
<1>2. CASE PipesStay /\ feed' = feed
  BY <1>2 DEF PipesStay, At
<1>3. ASSUME NEW c \in Conns, SetPublish(c) PROVE PipesAttached'
  <2>1. Len(feed') >= Len(feed)
    BY <1>1, <1>3 DEF SetPublish
  <2>2. PipesStay
    BY <1>1, <1>3 DEF SetPublish, Leave, Goto, PipesStay
  <2>3. Len(feed) \in Nat /\ Len(feed') \in Nat
    BY <1>1, <1>3 DEF SetPublish
  <2>4. QED
    BY <1>1, <2>1, <2>2, <2>3 DEF PipesStay, At
<1>4. ASSUME NEW c \in Conns, CountIn(c) PROVE PipesAttached'
  BY <1>1, <1>4 DEF CountIn, At, Goto
<1>5. ASSUME NEW c \in Conns, Subscribe(c) PROVE PipesAttached'
  BY <1>1, <1>5 DEF Subscribe, At, Goto
<1>6. ASSUME NEW c \in Conns, SetInsert(c) PROVE PipesStay /\ feed' = feed
  BY <1>1, <1>6 DEF SetInsert, Goto, PipesStay, replication
<1>7. Quiet => feed' = feed
  BY DEF Quiet
<1>8. QED
  BY <1>2, <1>3, <1>4, <1>5, <1>6, <1>7, MostActsAreQuiet, MostActsLeavePipes, OthersAreQuiet
  DEF Next

LEMMA CoveredOnceCountedStep == Inductive /\ [Next]_vars => CoveredOnceCounted'
<1> SUFFICES ASSUME Inductive, [Next]_vars, IsMaster, NEW d \in Conns, (pc[d] = "pipe")'
             PROVE  (/\ joinedAt[d] <= Len(feed)
                     /\ Settled - countedAt[d] <= Len(feed) - joinedAt[d])'
  BY DEF CoveredOnceCounted
<1> DEFINE Covered == /\ joinedAt[d] <= Len(feed)
                     /\ Settled - countedAt[d] <= Len(feed) - joinedAt[d]
<1>1. /\ slavesCount \in Nat /\ feed \in Seq(Message) /\ applied \in Seq(Message)
      /\ joinedAt \in [Conns -> Nat] /\ countedAt \in [Conns -> Nat]
      /\ pc \in [Conns -> Where]
  BY DEF Inductive, TypeOK, ReplicationType, TaskType, MapType
<1>2. Len(feed) \in Nat /\ Len(applied) \in Nat /\ Settled \in Int
  BY <1>1 DEF Settled, InFlight
<1>3. pc[d] = "pipe" => Covered /\ slavesCount > 0
  BY DEF Inductive, CoveredOnceCounted, PipesAttached, At
<1>4. PipesStay => /\ joinedAt'[d] = joinedAt[d] /\ countedAt'[d] = countedAt[d]
                   /\ pc[d] = "pipe"
  BY DEF PipesStay
<1>5. CASE Quiet /\ PipesStay
  BY <1>3, <1>4, <1>5 DEF Quiet, Settled, InFlight
<1>6. ASSUME NEW c \in Conns, SetInsert(c) PROVE Covered'
  <2>1. PipesStay
    BY <1>1, <1>6 DEF SetInsert, Goto, PipesStay, replication
  <2>2. Len(applied') = Len(applied) + 1 /\ holder = NoOne /\ holder' # NoOne /\ feed' = feed
    BY <1>1, <1>6, ServerAssumption DEF SetInsert, MapIsFree, replication
  <2>3. Settled' = Settled
    BY <1>2, <2>2 DEF Settled, InFlight
  <2>4. QED
    BY <1>3, <1>4, <2>1, <2>2, <2>3
<1>7. ASSUME NEW c \in Conns, SetPublish(c) PROVE Covered'
  <2>1. PipesStay
    BY <1>1, <1>7 DEF SetPublish, Leave, Goto, PipesStay
  <2>2. Len(feed') = Len(feed) + 1
    BY <1>1, <1>3, <1>4, <1>7, <2>1 DEF SetPublish, Publishes
  <2>3. holder = c /\ holder' = NoOne /\ applied' = applied
    BY <1>7 DEF SetPublish, Unlock, Inductive, LockDiscipline
  <2>4. Settled' = Settled + 1
    BY <1>2, <2>3, ServerAssumption DEF Settled, InFlight
  <2>5. QED
    <3>1. joinedAt[d] \in Nat /\ countedAt[d] \in Nat
      BY <1>1
    <3> HIDE DEF Covered
    <3>2. Covered' <=> /\ joinedAt[d] <= Len(feed')
                       /\ Settled' - countedAt[d] <= Len(feed') - joinedAt[d]
      BY <1>4, <2>1 DEF Covered
    <3>3. joinedAt[d] <= Len(feed) /\ Settled - countedAt[d] <= Len(feed) - joinedAt[d]
      BY <1>3, <1>4, <2>1 DEF Covered
    <3>4. QED
      BY <1>2, <2>2, <2>4, <3>1, <3>2, <3>3
<1>8. ASSUME NEW c \in Conns, Subscribe(c) PROVE Covered'
  <2>1. d # c /\ pc[d] = "pipe" /\ joinedAt'[d] = joinedAt[d]
    BY <1>1, <1>8 DEF Subscribe, Goto
  <2>2. UNCHANGED <<feed, applied, holder, countedAt>>
    BY <1>8 DEF Subscribe, mapState
  <2>3. QED
    BY <1>3, <2>1, <2>2 DEF Settled, InFlight
<1>9. ASSUME NEW c \in Conns, CountIn(c) PROVE Covered'
  <2>1. UNCHANGED <<feed, applied, holder, joinedAt>>
    BY <1>9 DEF CountIn, mapState
  <2>2. CASE d = c
    <3>1. countedAt'[d] = Len(applied) /\ joinedAt[d] <= Len(feed) /\ joinedAt[d] \in Nat
      BY <1>1, <1>9, <2>2 DEF CountIn, At, Inductive, PipesAttached
    <3>2. Settled' <= Len(applied)
      BY <1>2, <2>1 DEF Settled, InFlight
    <3>3. Settled' \in Int
      BY <1>2, <2>1 DEF Settled, InFlight
    <3>4. QED
      BY <1>2, <2>1, <3>1, <3>2, <3>3
  <2>3. CASE d # c
    <3>1. pc[d] = "pipe" /\ countedAt'[d] = countedAt[d]
      BY <1>1, <1>9, <2>3 DEF CountIn, Goto
    <3>2. QED
      BY <1>3, <2>1, <3>1 DEF Settled, InFlight
  <2>4. QED
    BY <2>2, <2>3
<1>10. QED
  <2>1. TypeOK
    BY DEF Inductive
  <2>2. CASE Tick \/ UNCHANGED vars
    BY <1>5, <2>1, <2>2, OthersAreQuiet
  <2>3. ASSUME NEW c \in Conns, Act(c) PROVE Covered'
    BY <1>5, <1>6, <1>7, <1>8, <1>9, <2>1, <2>3, MostActsAreQuiet, MostActsLeavePipes
  <2>4. QED
    BY <2>2, <2>3 DEF Next

-----------------------------------------------------------------------------
LEMMA WorkloadStep == Inductive /\ [Next]_vars => Workload'
<1> SUFFICES ASSUME Inductive, [Next]_vars PROVE Workload'
  OBVIOUS
<1> USE DEF WorkOf, Executing
<1>1. TypeOK /\ \A d \in Conns : WorkOf(d)
  BY DEF Inductive, Workload
<1>2. CASE Tick \/ UNCHANGED vars
  BY <1>1, <1>2 DEF Tick, vars, execution, Workload, Current
<1>3. ASSUME NEW c \in Conns, Act(c), NEW d \in Conns, d # c PROVE WorkOf(d)'
  BY <1>1, <1>3, ActsAlone DEF Current
<1>4. ASSUME NEW c \in Conns, Act(c) PROVE WorkOf(c)'
  <2> USE <1>1 DEF TypeOK, TaskType, SessionType, ExecutionType
  <2>1. CASE Accept(c)
    BY <2>1 DEF Accept, Goto, At, execution, Current
  <2>2. CASE HangUp(c)
    BY <2>2 DEF HangUp, Goto, At, execution, Current
  <2>3. CASE Multi(c)
    BY <2>3 DEF Multi, Receive, Goto, At, execution, Current
  <2>4. CASE Discard(c)
    BY <2>4 DEF Discard, Receive, Goto, At, execution, Current
  <2>5. CASE WithoutMulti(c)
    BY <2>5 DEF WithoutMulti, Receive, Goto, At, execution, Current
  <2>6. CASE Psync(c)
    BY <2>6 DEF Psync, Receive, Goto, At, execution, Current
  <2>7. CASE Exec(c)
    <3>1. /\ pc[c] = "read" /\ pc'[c] = "exec"
          /\ batch'[c] = queue[c] /\ done'[c] = done[c]
      BY <2>7 DEF Exec, Call, Receive, Goto, At
    <3>2. done[c] = 0
      BY <3>1
    <3>3. queue[c] \in Seq(Command)
      OBVIOUS
    <3>4. Len(queue[c]) \in Nat
      BY <3>3
    <3>5. QED
      BY <3>1, <3>2, <3>4
  <2>8. CASE Plain(c)
    BY <2>8 DEF Plain, Leave, Facing, Goto, At, execution, Current
  <2>9. CASE Get(c)
    BY <2>9 DEF Get, Leave, Facing, Goto, At, execution, Current
  <2>10. CASE Incr(c)
    BY <2>10 DEF Incr, Leave, Facing, Goto, At, execution, Current
  <2>11. CASE List(c)
    BY <2>11 DEF List, Leave, Facing, Goto, At, execution, Current
  <2>12. CASE SetRefused(c)
    BY <2>12 DEF SetRefused, Leave, Facing, Goto, At, execution, Current
  <2>13. CASE SetDeadline(c)
    BY <2>13 DEF SetDeadline, Facing, Goto, At, execution, Current
  <2>14. CASE SetInsert(c)
    BY <2>14 DEF SetInsert, Goto, At, execution, Current
  <2>15. CASE SetPublish(c)
    BY <2>15 DEF SetPublish, Leave, Goto, At, execution, Current
  <2>16. CASE Return(c)
    BY <2>16 DEF Return, Forget, Goto, At, execution, Current
  <2>17. CASE Subscribe(c)
    BY <2>17 DEF Subscribe, Goto, At, execution, Current
  <2>18. CASE CountIn(c)
    BY <2>18 DEF CountIn, Goto, At, execution, Current
  <2>19. ASSUME NEW req \in Ignored, Ignore(c, req) PROVE WorkOf(c)'
    BY <2>19 DEF Ignore, Receive, Goto, At, execution, Current
  <2>20. ASSUME NEW cmd \in Requests, Enqueue(c, cmd) PROVE WorkOf(c)'
    BY <2>20 DEF Enqueue, Receive, Goto, At, execution, Current
  <2>21. ASSUME NEW cmd \in Requests, Run(c, cmd) PROVE WorkOf(c)'
    <3>1. /\ pc[c] = "read" /\ pc'[c] = "exec"
          /\ batch'[c] = <<cmd>> /\ done'[c] = done[c]
      BY <2>21 DEF Run, Call, Receive, Goto, At
    <3>2. done[c] = 0 /\ Len(<<cmd>>) = 1
      BY <3>1
    <3>3. QED
      BY <3>1, <3>2
  <2>22. CASE Panic(c)
    BY <2>22 DEF Panic, Facing, Forget, Goto, At, execution, Current
  <2>23. QED
    BY <2>1, <2>2, <2>3, <2>4, <2>5, <2>6, <2>7, <2>8, <2>9, <2>10, <2>11, <2>12, <2>13, <2>14, <2>15, <2>16, <2>17, <2>18, <2>19, <2>20, <2>21, <2>22, <1>4 DEF Act, Dispatch, Execute
<1>5. QED
  BY <1>2, <1>3, <1>4 DEF Next, Workload

LEMMA TransactionOwnsQueueStep == Inductive /\ [Next]_vars => TransactionOwnsQueue'
<1> SUFFICES ASSUME Inductive, [Next]_vars PROVE TransactionOwnsQueue'
  OBVIOUS
<1> USE DEF OwnsQueue, Executing
<1>1. TypeOK /\ \A d \in Conns : OwnsQueue(d)
  BY DEF Inductive, TransactionOwnsQueue
<1>2. CASE Tick \/ UNCHANGED vars
  BY <1>1, <1>2 DEF Tick, vars, session, execution, TransactionOwnsQueue
<1>3. ASSUME NEW c \in Conns, Act(c), NEW d \in Conns, d # c PROVE OwnsQueue(d)'
  BY <1>1, <1>3, ActsAlone
<1>4. ASSUME NEW c \in Conns, Act(c) PROVE OwnsQueue(c)'
  <2> USE <1>1 DEF TypeOK, TaskType, SessionType, ExecutionType
  <2>1. CASE Accept(c)
    BY <2>1 DEF Accept, Goto, At, session, execution
  <2>2. CASE HangUp(c)
    BY <2>2 DEF HangUp, Goto, At, session, execution
  <2>3. CASE Multi(c)
    BY <2>3 DEF Multi, Receive, Goto, At, session, execution
  <2>4. CASE Discard(c)
    BY <2>4 DEF Discard, Receive, Goto, At, session, execution
  <2>5. CASE WithoutMulti(c)
    BY <2>5 DEF WithoutMulti, Receive, Goto, At, session, execution
  <2>6. CASE Psync(c)
    BY <2>6 DEF Psync, Receive, Goto, At, session, execution
  <2>7. CASE Exec(c)
    BY <2>7 DEF Exec, Call, Receive, Goto, At, session, execution
  <2>8. CASE Plain(c)
    BY <2>8 DEF Plain, Leave, Facing, Goto, At, session, execution
  <2>9. CASE Get(c)
    BY <2>9 DEF Get, Leave, Facing, Goto, At, session, execution
  <2>10. CASE Incr(c)
    BY <2>10 DEF Incr, Leave, Facing, Goto, At, session, execution
  <2>11. CASE List(c)
    BY <2>11 DEF List, Leave, Facing, Goto, At, session, execution
  <2>12. CASE SetRefused(c)
    BY <2>12 DEF SetRefused, Leave, Facing, Goto, At, session, execution
  <2>13. CASE SetDeadline(c)
    BY <2>13 DEF SetDeadline, Facing, Goto, At, session, execution
  <2>14. CASE SetInsert(c)
    BY <2>14 DEF SetInsert, Goto, At, session, execution
  <2>15. CASE SetPublish(c)
    BY <2>15 DEF SetPublish, Leave, Goto, At, session, execution
  <2>16. CASE Return(c)
    BY <2>16 DEF Return, Forget, Goto, At, session, execution
  <2>17. CASE Subscribe(c)
    BY <2>17 DEF Subscribe, Goto, At, session, execution
  <2>18. CASE CountIn(c)
    BY <2>18 DEF CountIn, Goto, At, session, execution
  <2>19. ASSUME NEW req \in Ignored, Ignore(c, req) PROVE OwnsQueue(c)'
    BY <2>19 DEF Ignore, Receive, Goto, At, session, execution
  <2>20. ASSUME NEW cmd \in Requests, Enqueue(c, cmd) PROVE OwnsQueue(c)'
    BY <2>20 DEF Enqueue, Receive, Goto, At, session, execution
  <2>21. ASSUME NEW cmd \in Requests, Run(c, cmd) PROVE OwnsQueue(c)'
    BY <2>21 DEF Run, Call, Receive, Goto, At, session, execution
  <2>22. CASE Panic(c)
    BY <2>22 DEF Panic, Facing, Forget, Goto, At, session, execution
  <2>23. QED
    BY <2>1, <2>2, <2>3, <2>4, <2>5, <2>6, <2>7, <2>8, <2>9, <2>10, <2>11, <2>12, <2>13, <2>14, <2>15, <2>16, <2>17, <2>18, <2>19, <2>20, <2>21, <2>22, <1>4 DEF Act, Dispatch, Execute
<1>5. QED
  BY <1>2, <1>3, <1>4 DEF Next, TransactionOwnsQueue

-----------------------------------------------------------------------------
LEMMA InductiveInit == Init => Inductive
<1> SUFFICES ASSUME Init PROVE Inductive
  OBVIOUS
<1> USE ServerAssumption DEF Init
<1>1. TypeOK
  BY DEF TypeOK, TaskType, SessionType, ReplicationType, ExecutionType, MapType, Where, Instants
<1>2. LockDiscipline /\ Workload /\ TransactionOwnsQueue
  BY DEF LockDiscipline, Workload, WorkOf, TransactionOwnsQueue, OwnsQueue, Executing, At
<1>3. InFlightIsLast /\ OnlyHeardIsFed /\ PipesAttached
  BY DEF InFlightIsLast, OnlyHeardIsFed, PipesAttached, At
<1>4. FeedFollowsStore /\ CoveredOnceCounted
  BY DEF FeedFollowsStore, CoveredOnceCounted, Settled, InFlight
<1>5. QED
  BY <1>1, <1>2, <1>3, <1>4 DEF Inductive

LEMMA InductiveStep == Inductive /\ [Next]_vars => Inductive'
BY TypeStep, LockDisciplineStep, WorkloadStep, InFlightIsLastStep, OnlyHeardIsFedStep,
   PipesAttachedStep, TransactionOwnsQueueStep, FeedFollowsStoreStep, CoveredOnceCountedStep
DEF Inductive

(* Every reachable state of the server satisfies the inductive invariant:  *)
(* who holds the map's mutex, what each task left behind, how the feed,    *)
(* the history of the map and the replicas' subscriptions hang together.   *)
THEOREM Invariance == Spec => []Inductive
BY InductiveInit, InductiveStep, PTL DEF Spec

(* Types hold for every number of connections, keys and requests; with     *)
(* them no counter of INCR leaves i64 (it saturates).                      *)
THEOREM TypeCorrect == Spec => []TypeOK
<1>1. Inductive => TypeOK
  BY DEF Inductive
<1>2. QED
  BY <1>1, Invariance, PTL

(* MULTI, EXEC and DISCARD: no command leaks out of, or into, a transaction.*)
THEOREM TransactionsIsolated == Spec => []TransactionOwnsQueue
<1>1. Inductive => TransactionOwnsQueue
  BY DEF Inductive
<1>2. QED
  BY <1>1, Invariance, PTL

(* The feed is the tail of the sequence of SETs the map took in, in order. *)
THEOREM FeedInStoreOrder == Spec => []FeedFollowsStore
<1>1. Inductive => FeedFollowsStore
  BY DEF Inductive
<1>2. QED
  BY <1>1, Invariance, PTL

(* A counted replica's subscription holds every SET settled since.         *)
THEOREM CountedReplicasCovered == Spec => []CoveredOnceCounted
<1>1. Inductive => CoveredOnceCounted
  BY DEF Inductive
<1>2. QED
  BY <1>1, Invariance, PTL

-----------------------------------------------------------------------------
(***************************************************************************)
(* The server is the store it promises to be: Server implements KVStore,   *)
(* each answer of a batch stands at its command's place, and no value      *)
(* comes back from the dead, for all values of the constants.              *)
(*                                                                         *)
(* Beyond Inductive the proofs need to know what a SET carries from one of *)
(* its steps to the next (InService): a deadline that was counted while    *)
(* its batch was in service, and, with the map locked, the entry it put    *)
(* there and the answer it gave.                                           *)
(***************************************************************************)

InService(c) ==
  /\ Executing(c) => asked[c] <= now
  /\ pc[c] \in {"insert", "publish"} =>
       \E t \in asked[c] .. now : /\ ~ CannotExpire(Current(c).px, t)
                                  /\ expiry[c] = Deadline(Current(c).px, t)
  /\ At(c, "publish") =>
       /\ Len(res[c]) > 0 /\ res[c][Len(res[c])] = Ok
       /\ data[Current(c).key] = [val |-> Current(c).val, exp |-> expiry[c]]

NoAck(c) == \A i \in 1 .. Len(batch[c]) : batch[c][i].op # "ACK"
LineUp(c) ==
  Executing(c) /\ NoAck(c) =>
    /\ Len(res[c]) = Answered(c)
    /\ \A i \in 1 .. Len(res[c]) : Fits(batch[c][i], res[c][i], asked[c], now)

StoreInv ==
  /\ Inductive
  /\ \A c \in Conns : InService(c) /\ LineUp(c)

-----------------------------------------------------------------------------
(* Only a task that finds the map free changes it, and none moves the      *)
(* clock.                                                                  *)
LEMMA ActsOnMap ==
  ASSUME NEW c \in Conns, Act(c)
  PROVE  /\ now' = now
         /\ data' = data \/ (MapIsFree /\ (Get(c) \/ Incr(c) \/ SetInsert(c)))
<1> DEFINE Keeps == /\ now' = now
                    /\ data' = data \/ (MapIsFree /\ (Get(c) \/ Incr(c) \/ SetInsert(c)))
<1>1. CASE Accept(c) \/ HangUp(c)
  BY <1>1 DEF Accept, HangUp, mapState
<1>2. ASSUME NEW req \in Ignored, Ignore(c, req) PROVE Keeps
  BY <1>2 DEF Ignore, mapState
<1>3. CASE Multi(c) \/ Discard(c) \/ WithoutMulti(c) \/ Psync(c)
  BY <1>3 DEF Multi, Discard, WithoutMulti, Psync, mapState
<1>4. CASE Exec(c)
  BY <1>4 DEF Exec, Call, mapState
<1>5. ASSUME NEW cmd \in Requests, Enqueue(c, cmd) \/ Run(c, cmd) PROVE Keeps
  BY <1>5 DEF Enqueue, Run, Call, mapState
<1>6. CASE Plain(c) \/ Panic(c) \/ List(c) \/ SetRefused(c) \/ SetDeadline(c)
  BY <1>6 DEF Plain, Panic, List, SetRefused, SetDeadline, mapState
<1>7. CASE Get(c) \/ Incr(c) \/ SetInsert(c)
  BY <1>7 DEF Get, Incr, SetInsert
<1>8. CASE SetPublish(c)
  BY <1>8 DEF SetPublish
<1>9. CASE Return(c) \/ Subscribe(c) \/ CountIn(c)
  BY <1>9 DEF Return, Subscribe, CountIn, mapState
<1> QED
  BY <1>1, <1>2, <1>3, <1>4, <1>5, <1>6, <1>7, <1>8, <1>9 DEF Act, Dispatch, Execute

(* What is said of a task survives the steps of the others.                *)
LEMMA OthersLeaveIt ==
  ASSUME Inductive, NEW c \in Conns, Act(c), NEW d \in Conns, d # c,
         InService(d), LineUp(d)
  PROVE  InService(d)' /\ LineUp(d)'
<1>1. /\ pc'[d] = pc[d] /\ batch'[d] = batch[d] /\ done'[d] = done[d] /\ res'[d] = res[d]
      /\ expiry'[d] = expiry[d] /\ asked'[d] = asked[d] /\ now' = now
  BY ActsAlone, ActsOnMap DEF Inductive
<1>2. At(d, "publish") => data' = data
  <2>1. At(d, "publish") => holder # NoOne
    BY ServerAssumption DEF Inductive, LockDiscipline
  <2> QED BY <2>1, ActsOnMap DEF MapIsFree
<1>3. Current(d)' = Current(d)
  BY <1>1 DEF Current
<1>4. InService(d)'
  BY <1>1, <1>2, <1>3 DEF InService, Executing, At
<1>5. LineUp(d)'
  BY <1>1 DEF LineUp, Executing, NoAck, Answered, At
<1> QED BY <1>4, <1>5

(* A task outside execute_multi_commands has nothing to answer for.        *)
LEMMA IdleHolds ==
  ASSUME NEW c \in Conns, pc'[c] \notin {"exec", "insert", "publish"}
  PROVE  InService(c)' /\ LineUp(c)'
<1>1. ~ Executing(c)' /\ ~ At(c, "publish")'
  BY DEF Executing, At
<1>2. LineUp(c)'
  BY <1>1 DEF LineUp
<1>3. InService(c)'
  BY <1>1 DEF InService
<1> QED BY <1>2, <1>3

(* A task that entered it has answered nothing yet.                        *)
LEMMA EntersWithNone ==
  ASSUME TypeOK, Workload, NEW c \in Conns, NEW cmds, Receive(c), Call(c, cmds)
  PROVE  InService(c)' /\ LineUp(c)'
<1>1. /\ pc'[c] = "exec" /\ asked'[c] = now' /\ now \in Nat
      /\ done'[c] = 0 /\ res'[c] = <<>>
  <2>1. pc[c] = "read" /\ pc'[c] = "exec" /\ asked'[c] = now /\ now' = now /\ now \in Nat
    BY ServerAssumption DEF Call, Receive, Goto, At, TypeOK, TaskType, ExecutionType
  <2>2. done[c] = 0 /\ res[c] = <<>>
    BY <2>1 DEF Workload, WorkOf, Executing
  <2>3. done' = done /\ res' = res
    BY DEF Call
  <2> QED BY <2>1, <2>2, <2>3
<1>2. now' = now
  BY DEF Call
<1> QED BY <1>1, <1>2 DEF InService, LineUp, Executing, At, Answered

(* An answer that fits still does when time has gone by.                   *)
LEMMA FitsLater ==
  ASSUME NEW cmd \in Command, NEW r, NEW s, NEW t \in Nat, NEW u \in Nat, t <= u,
         Fits(cmd, r, s, t)
  PROVE  Fits(cmd, r, s, u)
<1>1. CASE cmd.op = "SET"
  <2>1. cmd.px \in Nat \cup {NoPx}
    BY <1>1, CommandFields
  <2>2. CannotExpire(cmd.px, t) => CannotExpire(cmd.px, u)
    BY <2>1, KeyspaceAssumption DEF CannotExpire
  <2> QED BY <1>1, <2>2 DEF Fits
<1>2. CASE cmd.op # "SET"
  BY <1>2 DEF Fits
<1> QED BY <1>1, <1>2

(* What has been answered is in the batch.                                 *)
LEMMA AnsweredInBatch ==
  ASSUME TypeOK, Workload, NEW c \in Conns, NEW i \in 1 .. Answered(c)
  PROVE  i \in 1 .. Len(batch[c]) /\ batch[c][i] \in Command
<1>1. /\ batch[c] \in Seq(Command) /\ done[c] \in Nat /\ done[c] <= Len(batch[c])
      /\ At(c, "publish") => done[c] < Len(batch[c])
  BY DEF TypeOK, ExecutionType, Workload, WorkOf, At
<1>2. Len(batch[c]) \in Nat
  BY <1>1
<1>3. i \in 1 .. Len(batch[c])
  BY <1>1, <1>2 DEF Answered
<1> QED BY <1>1, <1>3

(* One more answer, to the current command, keeps the answers in line.     *)
LEMMA AnswersOne ==
  ASSUME TypeOK, NEW c \in Conns, LineUp(c), pc[c] \in {"exec", "insert"},
         done[c] < Len(batch[c]), batch'[c] = batch[c], asked'[c] = asked[c], now' = now,
         NEW r, Fits(Current(c), r, asked[c], now), res'[c] = res[c] \o <<r>>, NoAck(c)
  PROVE  /\ Len(res'[c]) = done[c] + 1
         /\ \A i \in 1 .. Len(res'[c]) : Fits(batch'[c][i], res'[c][i], asked'[c], now')
<1>1. /\ res[c] \in Seq(Reply) /\ Len(res[c]) = done[c] /\ done[c] \in Nat
      /\ \A i \in 1 .. Len(res[c]) : Fits(batch[c][i], res[c][i], asked[c], now)
  <2>1. Executing(c) /\ ~ At(c, "publish")
    BY DEF Executing, At
  <2>2. /\ Len(res[c]) = done[c]
        /\ \A i \in 1 .. Len(res[c]) : Fits(batch[c][i], res[c][i], asked[c], now)
    BY <2>1 DEF LineUp, Answered
  <2>3. res[c] \in Seq(Reply) /\ done[c] \in Nat
    BY DEF TypeOK, ExecutionType
  <2> QED BY <2>2, <2>3
<1>2. /\ Len(res'[c]) = Len(res[c]) + 1
      /\ \A i \in 1 .. Len(res[c]) : res'[c][i] = res[c][i]
      /\ res'[c][Len(res[c]) + 1] = r
  <2>1. ASSUME NEW s \in Seq(Reply)
        PROVE  /\ Len(s \o <<r>>) = Len(s) + 1
               /\ \A i \in 1 .. Len(s) : (s \o <<r>>)[i] = s[i]
               /\ (s \o <<r>>)[Len(s) + 1] = r
    BY ONLY <2>1
  <2> QED BY <1>1, <2>1
<1>3. Fits(batch'[c][done[c] + 1], res'[c][done[c] + 1], asked'[c], now')
  BY <1>1, <1>2 DEF Current
<1>4. ASSUME NEW i \in 1 .. Len(res'[c])
      PROVE  Fits(batch'[c][i], res'[c][i], asked'[c], now')
  <2>1. CASE i = done[c] + 1
    BY <2>1, <1>3
  <2>2. CASE i # done[c] + 1
    <3>1. i \in 1 .. Len(res[c])
      BY <2>2, <1>1, <1>2
    <3>2. res'[c][i] = res[c][i] /\ batch'[c][i] = batch[c][i]
      BY <3>1, <1>2
    <3> QED BY <3>1, <3>2, <1>1
  <2> QED BY <2>1, <2>2
<1> QED BY <1>1, <1>2, <1>4

(* One that leaves an arm with one answer, or with none to an ACK, is      *)
(* still in time and in line.                                              *)
LEMMA LeavesInService ==
  ASSUME TypeOK, NEW c \in Conns, InService(c), Executing(c), now' = now, NEW r, Leave(c, r)
  PROVE  InService(c)'
<1>1. pc'[c] = "exec" /\ asked' = asked
  BY DEF Leave, Goto, TypeOK, TaskType
<1> QED BY <1>1 DEF InService, Executing, At

LEMMA LeavesInLine ==
  ASSUME TypeOK, NEW c \in Conns, LineUp(c), At(c, "exec"), done[c] < Len(batch[c]),
         now' = now, NEW r, Leave(c, <<r>>), Fits(Current(c), r, asked[c], now)
  PROVE  LineUp(c)'
<1>1. /\ pc'[c] = "exec" /\ batch' = batch /\ asked' = asked /\ done'[c] = done[c] + 1
      /\ res'[c] = res[c] \o <<r>>
  BY DEF Leave, Goto, TypeOK, TaskType, ExecutionType
<1>2. NoAck(c)' => NoAck(c)
  BY <1>1 DEF NoAck
<1>3. done[c] \in Nat
  BY DEF TypeOK, ExecutionType
<1>4. pc[c] = "exec" /\ batch'[c] = batch[c] /\ asked'[c] = asked[c] /\ ~ At(c, "publish")'
  BY <1>1 DEF At
<1>5. NoAck(c) => /\ Len(res'[c]) = done[c] + 1
                  /\ \A i \in 1 .. Len(res'[c]) : Fits(batch'[c][i], res'[c][i], asked'[c], now')
  BY <1>1, <1>4, AnswersOne
<1> QED BY <1>1, <1>2, <1>3, <1>4, <1>5 DEF LineUp, Answered

LEMMA OwnPlain ==
  ASSUME Inductive, NEW c \in Conns, InService(c), LineUp(c), Plain(c)
  PROVE  InService(c)' /\ LineUp(c)'
<1>1. TypeOK /\ At(c, "exec") /\ done[c] < Len(batch[c]) /\ now' = now
  BY DEF Inductive, Plain, Facing
<1>2. ASSUME NEW op, NEW r, Facing(c, op), Leave(c, <<r>>), <<op, r>> \in
               {<<"PING", Ok>>, <<"INFO", Garbled>>, <<"BADKEYS", Torn>>}
      PROVE  InService(c)' /\ LineUp(c)'
  <2>1. Fits(Current(c), r, asked[c], now)
    BY <1>2 DEF Fits, Facing
  <2> QED BY <1>1, <1>2, <2>1, LeavesInLine, LeavesInService DEF Executing, At
<1>3. ASSUME Facing(c, "ACK"), Leave(c, <<>>)
      PROVE  InService(c)' /\ LineUp(c)'
  <2>1. InService(c)'
    BY <1>1, <1>3, LeavesInService DEF Executing, At
  <2>2. done[c] + 1 \in 1 .. Len(batch[c]) /\ batch[c][done[c] + 1].op = "ACK"
    BY <1>1, <1>3 DEF Facing, Current, TypeOK, ExecutionType
  <2>3. batch' = batch
    BY <1>3 DEF Leave
  <2>4. ~ NoAck(c)'
    BY <2>2, <2>3 DEF NoAck
  <2> QED BY <2>1, <2>4 DEF LineUp
<1> QED BY <1>2, <1>3 DEF Plain

LEMMA OwnMapCommand ==
  ASSUME Inductive, NEW c \in Conns, InService(c), LineUp(c),
         Get(c) \/ Incr(c) \/ List(c) \/ SetRefused(c)
  PROVE  InService(c)' /\ LineUp(c)'
<1>1. TypeOK /\ At(c, "exec") /\ done[c] < Len(batch[c]) /\ now' = now
  BY DEF Inductive, Get, Incr, List, SetRefused, Facing
<1>2. ASSUME NEW r, Leave(c, <<r>>), Fits(Current(c), r, asked[c], now)
      PROVE  InService(c)' /\ LineUp(c)'
  BY <1>1, <1>2, LeavesInLine, LeavesInService DEF Executing, At
<1>3. CASE Get(c)
  <2>1. Fits(Current(c), GetReply(data, Current(c).key, now), asked[c], now)
    BY <1>3 DEF Get, Facing, Fits, GetReply, Nil, Bulk
  <2> QED BY <1>3, <2>1, <1>2 DEF Get
<1>4. CASE Incr(c)
  <2>1. Fits(Current(c), IncrReply(data, Current(c).key), asked[c], now)
    BY <1>4 DEF Incr, Facing, Fits, IncrReply, Err, Number
  <2> QED BY <1>4, <2>1, <1>2 DEF Incr
<1>5. CASE List(c)
  <2>1. Fits(Current(c), KeysReply(data, Current(c).match), asked[c], now)
    BY <1>5 DEF List, Facing, Fits, KeysReply, KeyList
  <2> QED BY <1>5, <2>1, <1>2 DEF List
<1>6. CASE SetRefused(c)
  <2>1. Fits(Current(c), Torn, asked[c], now)
    BY <1>6 DEF SetRefused, Facing, Fits
  <2> QED BY <1>6, <2>1, <1>2 DEF SetRefused
<1> QED BY <1>3, <1>4, <1>5, <1>6

-----------------------------------------------------------------------------
(* The steps of a SET.                                                     *)
LEMMA OwnSetDeadline ==
  ASSUME Inductive, NEW c \in Conns, InService(c), LineUp(c), SetDeadline(c)
  PROVE  InService(c)' /\ LineUp(c)'
<1>1. TypeOK /\ At(c, "exec") /\ now \in Nat /\ asked[c] \in Nat
  BY ServerAssumption DEF Inductive, SetDeadline, Facing, TypeOK, TaskType, ExecutionType
<1>2. /\ pc'[c] = "insert" /\ now' = now /\ Current(c)' = Current(c)
      /\ expiry'[c] = Deadline(Current(c).px, now) /\ ~ CannotExpire(Current(c).px, now)
      /\ UNCHANGED <<batch, done, res, asked>>
  BY <1>1 DEF SetDeadline, Goto, Current, TypeOK, TaskType, ExecutionType
<1>3. asked[c] <= now
  BY <1>1 DEF InService, Executing, At
<1>4. InService(c)'
  <2>1. now \in asked'[c] .. now'
    BY <1>1, <1>2, <1>3
  <2>2. (\E t \in asked[c] .. now : /\ ~ CannotExpire(Current(c).px, t)
                                    /\ expiry[c] = Deadline(Current(c).px, t))'
    BY <1>2, <2>1
  <2> QED BY <1>2, <1>3, <2>2 DEF InService, At
<1>5. LineUp(c)'
  BY <1>1, <1>2 DEF LineUp, Executing, At, NoAck, Answered
<1> QED BY <1>4, <1>5

LEMMA OwnSetInsert ==
  ASSUME Inductive, NEW c \in Conns, InService(c), LineUp(c), SetInsert(c)
  PROVE  InService(c)' /\ LineUp(c)'
<1>1. /\ TypeOK /\ pc[c] = "insert" /\ done[c] < Len(batch[c]) /\ Current(c).op = "SET"
      /\ res[c] \in Seq(Reply) /\ done[c] \in Nat
  BY DEF Inductive, SetInsert, At, Workload, WorkOf, TypeOK, ExecutionType
<1>2. Current(c).key \in Keys
  BY <1>1, CurrentType, CommandFields
<1>3. /\ pc'[c] = "publish" /\ now' = now /\ Current(c)' = Current(c)
      /\ res'[c] = Append(res[c], Ok)
      /\ UNCHANGED <<batch, done, expiry, asked>>
  BY <1>1 DEF SetInsert, Goto, Current, TypeOK, TaskType, ExecutionType
<1>4. data'[Current(c).key] = [val |-> Current(c).val, exp |-> expiry[c]]
  BY <1>1, <1>2 DEF SetInsert, AfterSet, TypeOK, MapType, Data
<1>5. Len(res'[c]) > 0 /\ res'[c][Len(res'[c])] = Ok /\ res'[c] = res[c] \o <<Ok>>
  BY <1>1, <1>3
<1>6. InService(c)'
  BY <1>1, <1>3, <1>4, <1>5 DEF InService, Executing, At
<1>7. LineUp(c)'
  <2>1. Fits(Current(c), Ok, asked[c], now)
    <3>1. Current(c).px \in Nat \cup {NoPx}
      BY <1>1, CurrentType, CommandFields
    <3>2. \E t \in asked[c] .. now : ~ CannotExpire(Current(c).px, t)
      BY <1>1 DEF InService
    <3>3. ~ CannotExpire(Current(c).px, asked[c])
      BY <1>1, <3>1, <3>2, KeyspaceAssumption, ServerAssumption
         DEF CannotExpire, TypeOK, TaskType, ExecutionType
    <3> QED BY <1>1, <3>3 DEF Fits
  <2>2. NoAck(c)' => NoAck(c)
    BY <1>3 DEF NoAck
  <2> QED BY <1>1, <1>3, <1>5, <2>1, <2>2, AnswersOne DEF LineUp, Answered, At
<1> QED BY <1>6, <1>7

LEMMA OwnSetPublish ==
  ASSUME Inductive, NEW c \in Conns, InService(c), LineUp(c), SetPublish(c)
  PROVE  InService(c)' /\ LineUp(c)'
<1>1. /\ TypeOK /\ pc[c] = "publish" /\ res[c] \in Seq(Reply) /\ done[c] \in Nat
      /\ Leave(c, <<>>) /\ now' = now
  BY DEF Inductive, SetPublish, At, TypeOK, ExecutionType
<1>2. InService(c)'
  BY <1>1, LeavesInService DEF Executing
<1>3. /\ pc'[c] = "exec" /\ batch' = batch /\ asked' = asked /\ done'[c] = done[c] + 1
      /\ res'[c] = res[c]
  BY <1>1 DEF Leave, Goto, TypeOK, TaskType, ExecutionType
<1>4. LineUp(c)'
  BY <1>1, <1>3 DEF LineUp, Executing, NoAck, Answered, At
<1> QED BY <1>2, <1>4

LEMMA OwnStep ==
  ASSUME Inductive, NEW c \in Conns, InService(c), LineUp(c), Act(c)
  PROVE  InService(c)' /\ LineUp(c)'
<1> DEFINE Holds == InService(c)' /\ LineUp(c)'
<1> USE DEF Inductive
<1>1. ASSUME pc'[c] \notin {"exec", "insert", "publish"} PROVE Holds
  BY <1>1, IdleHolds
<1>2. CASE Accept(c) \/ HangUp(c) \/ Psync(c) \/ Panic(c) \/ Return(c)
           \/ Subscribe(c) \/ CountIn(c)
  <2>1. pc'[c] \notin {"exec", "insert", "publish"}
    BY <1>2 DEF Accept, HangUp, Psync, Panic, Return, Subscribe, CountIn, Goto, TypeOK, TaskType
  <2> QED BY <2>1, <1>1
<1>3. CASE Multi(c) \/ Discard(c) \/ WithoutMulti(c)
  <2>1. pc'[c] \notin {"exec", "insert", "publish"}
    BY <1>3 DEF Multi, Discard, WithoutMulti, Receive, At
  <2> QED BY <2>1, <1>1
<1>4. ASSUME NEW req \in Ignored, Ignore(c, req) PROVE Holds
  <2>1. pc'[c] \notin {"exec", "insert", "publish"}
    BY <1>4 DEF Ignore, Receive, At
  <2> QED BY <2>1, <1>1
<1>5. ASSUME NEW cmd \in Requests, Enqueue(c, cmd) PROVE Holds
  <2>1. pc'[c] \notin {"exec", "insert", "publish"}
    BY <1>5 DEF Enqueue, Receive, At
  <2> QED BY <2>1, <1>1
<1>6. ASSUME NEW cmd \in Requests, Run(c, cmd) PROVE Holds
  BY <1>6, EntersWithNone DEF Run
<1>7. CASE Exec(c)
  BY <1>7, EntersWithNone DEF Exec
<1>8. CASE Plain(c) \/ Get(c) \/ Incr(c) \/ List(c) \/ SetRefused(c) \/ SetDeadline(c)
           \/ SetInsert(c) \/ SetPublish(c)
  BY <1>8, OwnPlain, OwnMapCommand, OwnSetDeadline, OwnSetInsert, OwnSetPublish
<1> QED
  BY <1>2, <1>3, <1>4, <1>5, <1>6, <1>7, <1>8 DEF Act, Dispatch, Execute

LEMMA StoreInvInit == Init => StoreInv
<1> SUFFICES ASSUME Init PROVE StoreInv
  OBVIOUS
<1>1. Inductive
  BY InductiveInit
<1>2. \A c \in Conns : ~ Executing(c) /\ pc[c] = "closed"
  BY DEF Init, Executing
<1> QED BY <1>1, <1>2 DEF StoreInv, InService, LineUp, At

LEMMA StoreInvStep == StoreInv /\ [Next]_vars => StoreInv'
<1> SUFFICES ASSUME StoreInv, [Next]_vars PROVE StoreInv'
  OBVIOUS
<1>1. Inductive'
  BY InductiveStep DEF StoreInv
<1>2. ASSUME NEW c \in Conns, Act(c), NEW d \in Conns
      PROVE  InService(d)' /\ LineUp(d)'
  BY <1>2, OwnStep, OthersLeaveIt DEF StoreInv
<1>3. CASE Tick
  <2>1. /\ now \in Nat /\ now' = now + 1 /\ data' = data /\ pc' = pc
        /\ UNCHANGED <<batch, done, res, expiry, asked>>
    BY <1>3, ServerAssumption DEF Tick, execution, mapState, StoreInv, Inductive, TypeOK, TaskType
  <2>2. ASSUME NEW d \in Conns PROVE InService(d)' /\ LineUp(d)'
    <3>1. asked[d] \in Nat /\ Current(d)' = Current(d)
      BY <2>1 DEF StoreInv, Inductive, TypeOK, ExecutionType, Current
    <3>2. asked[d] .. now \subseteq asked'[d] .. now'
      BY <2>1, <3>1
    <3>3. InService(d)'
      BY <2>1, <3>1, <3>2 DEF StoreInv, InService, Executing, At
    <3>4. LineUp(d)'
      <4>1. /\ Executing(d)' = Executing(d) /\ NoAck(d)' = NoAck(d) /\ Answered(d)' = Answered(d)
            /\ now' \in Nat /\ now <= now'
        BY <2>1 DEF Executing, NoAck, Answered, At
      <4>2. SUFFICES ASSUME Executing(d), NoAck(d), NEW i \in 1 .. Len(res[d])
                     PROVE  Fits(batch[d][i], res[d][i], asked[d], now')
        BY <2>1, <4>1 DEF StoreInv, LineUp
      <4>3. Len(res[d]) = Answered(d) /\ Fits(batch[d][i], res[d][i], asked[d], now)
        BY <4>2 DEF StoreInv, LineUp
      <4>4. batch[d][i] \in Command
        BY <4>3, AnsweredInBatch DEF StoreInv, Inductive
      <4> QED BY <2>1, <4>1, <4>3, <4>4, FitsLater
    <3> QED BY <3>3, <3>4
  <2> QED BY <1>1, <2>2 DEF StoreInv
<1>4. CASE UNCHANGED vars
  <2>1. UNCHANGED <<now, pc, data, batch, done, res, expiry, asked>>
    BY <1>4 DEF vars, execution, mapState
  <2> QED BY <1>1, <2>1 DEF StoreInv, InService, LineUp, Executing, At, NoAck, Current, Answered
<1> QED BY <1>1, <1>2, <1>3, <1>4 DEF Next, StoreInv

LEMMA StoreInvariance == Spec => []StoreInv
BY StoreInvInit, StoreInvStep, PTL DEF Spec

(* A client that counts replies is right about one of them exactly when    *)
(* every reply in front of it has an end.                                  *)
LEMMA UnderstoodBehindWhole ==
  ASSUME NEW S, NEW replies \in Seq(S), NEW i \in 1 .. Len(replies)
  PROVE  Understood(replies, i) <=> \A j \in 1 .. i - 1 : replies[j] \notin {Torn, Garbled}
<1> DEFINE upTo == {j \in Heard(replies) : j <= i}
           ends == \A j \in 1 .. i - 1 : replies[j] \notin {Torn, Garbled}
<1>1. i \in Nat /\ Len(replies) \in Nat /\ 1 <= i /\ i <= Len(replies)
  OBVIOUS
<1>2. upTo \subseteq 1 .. i
  BY <1>1 DEF Heard
<1>3. IsFiniteSet(1 .. i) /\ Cardinality(1 .. i) = i
  BY <1>1, FS_Interval
<1>4. ASSUME ends PROVE Understood(replies, i)
  <2>1. ASSUME NEW j \in 1 .. i PROVE j \in Heard(replies)
    <3>1. j \in 1 .. Len(replies) /\ (j > 1 => j - 1 \in 1 .. i - 1)
      BY <1>1
    <3>2. 1 .. j - 1 \subseteq 1 .. i - 1
      BY <1>1
    <3> QED BY <1>4, <3>1, <3>2 DEF Heard
  <2>2. upTo = 1 .. i
    BY <1>1, <1>2, <2>1
  <2>3. i \in Heard(replies)
    BY <1>1, <2>1
  <2>4. Cardinality(upTo) = i
    <3> HIDE DEF upTo
    <3> QED BY <1>3, <2>2
  <2> QED BY <2>3, <2>4 DEF Understood
<1>5. ASSUME NEW j \in 1 .. i - 1, replies[j] \in {Torn, Garbled} PROVE ~ Understood(replies, i)
  <2>1. j + 1 \in 1 .. i /\ j \in 1 .. (j + 1) - 1 /\ (j + 1) - 1 = j /\ j + 1 > 1
    BY <1>1
  <2>2. j + 1 \notin Heard(replies)
    BY <1>5, <2>1 DEF Heard
  <2>3. upTo # 1 .. i
    BY <2>1, <2>2
  <2>4. Cardinality(upTo) # i
    BY <1>2, <1>3, <2>3, FS_Subset
  <2> QED BY <2>4 DEF Understood
<1> QED BY <1>4, <1>5

(* A reply has no end exactly when it answers a command that spoils.       *)
LEMMA SpoilsAsFits ==
  ASSUME NEW cmd \in Command, NEW r, NEW s, NEW t, Fits(cmd, r, s, t), cmd.op # "ACK"
  PROVE  /\ ~ Spoils(cmd, t) => r \notin {Torn, Garbled}
         /\ Spoils(cmd, s) => r \in {Torn, Garbled}
<1>1. cmd.op \in {"SET", "GET", "INCR", "KEYS", "PING", "INFO", "BADKEYS"}
  BY DEF Command, SetCommand, KeyCommand, KeysCommand, PlainCommand
<1>2. /\ Ok \notin {Torn, Garbled} /\ Nil \notin {Torn, Garbled} /\ Err \notin {Torn, Garbled}
      /\ r[1] \in {"bulk", "int", "keys"} => r \notin {Torn, Garbled}
  BY DEF Ok, Nil, Err, Torn, Garbled
<1> QED BY <1>1, <1>2 DEF Fits, Spoils

(* For every batch without an ACK, whatever fails in it and whatever other *)
(* connections do: the i-th reply answers the i-th command, and the client *)
(* that reads them takes it for that unless a command before it was one    *)
(* of those whose answer has no end, and then never (src/main.rs:454-677). *)
THEOREM AnswersStayInLine == Spec => []AnswersLineUp
<1>1. ASSUME StoreInv PROVE AnswersLineUp
  <2>1. SUFFICES ASSUME NEW c \in Conns, Executing(c), NoAck(c), Len(res[c]) = Answered(c),
                        NEW i \in 1 .. Answered(c)
                 PROVE  /\ Fits(batch[c][i], res[c][i], asked[c], now)
                        /\ (\A j \in 1 .. i - 1 : ~ Spoils(batch[c][j], now))
                             => Understood(res[c], i)
                        /\ (\E j \in 1 .. i - 1 : Spoils(batch[c][j], asked[c]))
                             => ~ Understood(res[c], i)
    BY <1>1 DEF StoreInv, LineUp, NoAck, AnswersLineUp
  <2>2. res[c] \in Seq(Reply) /\ Answered(c) \in Nat /\ 1 .. i - 1 \subseteq 1 .. Answered(c)
    BY <1>1, <2>1 DEF StoreInv, Inductive, TypeOK, ExecutionType, Answered
  <2>3. \A j \in 1 .. Answered(c) :
          /\ Fits(batch[c][j], res[c][j], asked[c], now)
          /\ batch[c][j] \in Command /\ batch[c][j].op # "ACK"
    BY <1>1, <2>1, AnsweredInBatch DEF StoreInv, Inductive, LineUp, NoAck
  <2>4. \A j \in 1 .. i - 1 :
          /\ ~ Spoils(batch[c][j], now) => res[c][j] \notin {Torn, Garbled}
          /\ Spoils(batch[c][j], asked[c]) => res[c][j] \in {Torn, Garbled}
    BY <2>2, <2>3, SpoilsAsFits
  <2>5. Understood(res[c], i) <=> \A j \in 1 .. i - 1 : res[c][j] \notin {Torn, Garbled}
    BY <2>1, <2>2, UnderstoodBehindWhole
  <2> QED BY <2>1, <2>3, <2>4, <2>5
<1> QED BY <1>1, StoreInvariance, PTL

-----------------------------------------------------------------------------
(* A dead value stays dead: what a GET or an INCR makes of it, and time.   *)
LEMMA DeadStaysDead ==
  ASSUME NEW d \in Data, NEW k \in Keys, NEW j \in Keys, NEW t \in Nat,
         d[k] # NoEntry, IsExpired(d[k], t)
  PROVE  ~ Live(AfterGet(d, j, t), k, t) /\ ~ Live(AfterIncr(d, j), k, t)
<1>1. ~ Live(AfterGet(d, j, t), k, t)
  BY DEF AfterGet, Live, Data
<1>2. ~ Live(AfterIncr(d, j), k, t)
  <2>1. CASE j # k \/ OrZero(d[j]).val = Text
    <3>1. AfterIncr(d, j)[k] = d[k]
      BY <2>1 DEF AfterIncr, Data
    <3> QED BY <3>1 DEF Live
  <2>2. CASE j = k /\ OrZero(d[j]).val # Text
    <3>1. AfterIncr(d, j)[k].exp = d[k].exp
      BY <2>2 DEF AfterIncr, OrZero, Data
    <3> QED BY <3>1 DEF Live, IsExpired
  <2> QED BY <2>1, <2>2
<1> QED BY <1>1, <1>2

(* Only a SET of its key replaces a value that has expired, in every       *)
(* interleaving (src/data.rs:21-29, src/main.rs:518, 582-601).             *)
THEOREM DeadNeverReturns == Spec => NoRevival
<1> DEFINE Reviving(k) == data[k] # NoEntry /\ IsExpired(data[k], now) /\ Live(data', k, now')
           BySet(k) == Len(applied') > Len(applied) /\ applied'[Len(applied')].key = k
<1>1. ASSUME Inductive, Next, NEW k \in Keys, Reviving(k)
      PROVE  BySet(k)
  <2>1. TypeOK /\ data \in Data /\ now \in Nat
    BY <1>1, ServerAssumption DEF Inductive, TypeOK, MapType, TaskType
  <2>2. ~ Tick
    <3>1. ASSUME Tick PROVE data' = data /\ now' = now + 1
      BY <3>1 DEF Tick, mapState
    <3>2. data[k] # NoEntry => data[k].exp \in Instants
      BY <2>1 DEF Data, Entry
    <3> QED BY <1>1, <2>1, <3>1, <3>2, KeyspaceAssumption DEF Live, IsExpired, Instants
  <2>3. PICK c \in Conns : Act(c)
    BY <1>1, <2>2 DEF Next
  <2>4. now' = now /\ data' # data /\ (Get(c) \/ Incr(c) \/ SetInsert(c))
    BY <1>1, <2>3, ActsOnMap DEF Live
  <2>5. ~ Get(c)
    <3>1. ASSUME Get(c) PROVE Current(c).key \in Keys
      BY <3>1, <2>1, CurrentType, CommandFields DEF Get, Facing
    <3> QED BY <1>1, <2>1, <2>4, <3>1, DeadStaysDead DEF Get
  <2>6. ~ Incr(c)
    <3>1. ASSUME Incr(c) PROVE Current(c).key \in Keys
      BY <3>1, <2>1, CurrentType, CommandFields DEF Incr, Facing
    <3> QED BY <1>1, <2>1, <2>4, <3>1, DeadStaysDead DEF Incr
  <2>7. /\ data' = AfterSet(data, Current(c), expiry[c])
        /\ applied' = Append(applied, AsMessage(Current(c)))
    BY <2>4, <2>5, <2>6 DEF SetInsert
  <2>8. Current(c).key = k
    BY <1>1, <2>1, <2>4, <2>7 DEF AfterSet, Live, Data
  <2>9. AsMessage(Current(c)).key = k
    BY <2>8 DEF AsMessage
  <2> QED BY <2>1, <2>7, <2>9 DEF TypeOK, MapType
<1>2. Inductive /\ [Next]_vars => [\A k \in Keys : Reviving(k) => BySet(k)]_vars
  BY <1>1
<1> QED BY <1>2, Invariance, PTL DEF Spec, NoRevival

-----------------------------------------------------------------------------
(* The refinement.  What KVStore calls res: the answers without that of a  *)
(* SET in flight.                                                          *)
Seen == [c \in Conns |-> AnswersOf(c)]

(* KVStore and Server speak of the same key space.                         *)
LEMMA SameKeyspace ==
  /\ Atomic!Ok = Ok /\ Atomic!Err = Err /\ Atomic!Torn = Torn /\ Atomic!Garbled = Garbled
  /\ \A d, k, t : /\ Atomic!GetReply(d, k, t) = GetReply(d, k, t)
                  /\ Atomic!AfterGet(d, k, t) = AfterGet(d, k, t)
  /\ \A d, k : /\ Atomic!IncrReply(d, k) = IncrReply(d, k)
               /\ Atomic!AfterIncr(d, k) = AfterIncr(d, k)
  /\ \A d, S : Atomic!KeysReply(d, S) = KeysReply(d, S)
  /\ \A px, t : /\ Atomic!CannotExpire(px, t) = CannotExpire(px, t)
                /\ Atomic!Deadline(px, t) = Deadline(px, t)
  /\ \A d, cmd, exp : Atomic!AfterSet(d, cmd, exp) = AfterSet(d, cmd, exp)
  /\ \A cmd : Atomic!AsMessage(cmd) = AsMessage(cmd)
  /\ Atomic!Command = Command
<1>1. Atomic!Ok = Ok /\ Atomic!Err = Err /\ Atomic!Torn = Torn /\ Atomic!Garbled = Garbled
  BY DEF Atomic!Ok, Ok, Atomic!Err, Err, Atomic!Torn, Torn, Atomic!Garbled, Garbled
<1>2. ASSUME NEW d, NEW k, NEW t
      PROVE  /\ Atomic!GetReply(d, k, t) = GetReply(d, k, t)
             /\ Atomic!AfterGet(d, k, t) = AfterGet(d, k, t)
  BY DEF Atomic!GetReply, GetReply, Atomic!AfterGet, AfterGet, Atomic!Live, Live,
         Atomic!IsExpired, IsExpired, Atomic!Bulk, Bulk, Atomic!Nil, Nil
<1>3. ASSUME NEW d, NEW k
      PROVE  /\ Atomic!IncrReply(d, k) = IncrReply(d, k)
             /\ Atomic!AfterIncr(d, k) = AfterIncr(d, k)
  BY <1>1 DEF Atomic!IncrReply, IncrReply, Atomic!AfterIncr, AfterIncr, Atomic!OrZero, OrZero,
         Atomic!Bump, Bump, Atomic!Number, Number
<1>4. ASSUME NEW d, NEW S PROVE Atomic!KeysReply(d, S) = KeysReply(d, S)
  BY DEF Atomic!KeysReply, KeysReply, Atomic!KeyList, KeyList
<1>5. ASSUME NEW px, NEW t
      PROVE  /\ Atomic!CannotExpire(px, t) = CannotExpire(px, t)
             /\ Atomic!Deadline(px, t) = Deadline(px, t)
  BY DEF Atomic!CannotExpire, CannotExpire, Atomic!Deadline, Deadline
<1>6. ASSUME NEW d, NEW cmd, NEW exp
      PROVE  Atomic!AfterSet(d, cmd, exp) = AfterSet(d, cmd, exp)
  BY DEF Atomic!AfterSet, AfterSet
<1>7. ASSUME NEW cmd PROVE Atomic!AsMessage(cmd) = AsMessage(cmd)
  BY DEF Atomic!AsMessage, AsMessage
<1>8. Atomic!Command = Command
  BY DEF Atomic!Command, Command, Atomic!SetCommand, SetCommand, Atomic!KeyCommand, KeyCommand,
         Atomic!KeysCommand, KeysCommand, Atomic!PlainCommand, PlainCommand, Atomic!Values, Values
<1> QED BY <1>1, <1>2, <1>3, <1>4, <1>5, <1>6, <1>7, <1>8

(* Quiet steps that leave the map and the answers alone are not seen.      *)
LEMMA VisibleStays ==
  ASSUME Inductive, Quiet, UNCHANGED <<data, replaced>>
  PROVE  Visible' = Visible
<1>1. holder' = holder
  BY DEF Quiet
<1>2. CASE holder = NoOne
  BY <1>1, <1>2 DEF Visible
<1>3. CASE holder # NoOne
  <2>1. holder \in Conns /\ At(holder, "publish")
    BY <1>3 DEF Inductive, LockDiscipline, TypeOK, MapType
  <2>2. Current(holder)' = Current(holder)
    BY <2>1, <1>1 DEF Quiet, Current
  <2> QED BY <1>1, <2>2 DEF Visible
<1> QED BY <1>2, <1>3

LEMMA SeenStays ==
  ASSUME Quiet, res' = res
  PROVE  Seen' = Seen
<1>1. \A d \in Conns : AnswersOf(d)' = AnswersOf(d)
  BY DEF Quiet, AnswersOf
<1> QED BY <1>1 DEF Seen

LEMMA SeenBecomes ==
  ASSUME TypeOK, NEW c \in Conns, Act(c), NEW answers, AnswersOf(c)' = answers
  PROVE  Seen' = [Seen EXCEPT ![c] = answers]
<1>1. \A d \in Conns : d # c => AnswersOf(d)' = AnswersOf(d)
  BY ActsAlone DEF AnswersOf, At
<1> QED BY <1>1 DEF Seen

(* Arms that answer at once, r being the answer, if any.                   *)
LEMMA ArmAdvances ==
  ASSUME Inductive, NEW c \in Conns, Act(c), At(c, "exec"), done[c] < Len(batch[c]),
         NEW r, Leave(c, r), UNCHANGED <<slavesCount, now>>
  PROVE  Atomic!Advance(c, r)
<1>1. TypeOK
  BY DEF Inductive
<1>2. /\ done' = [done EXCEPT ![c] = done[c] + 1]
      /\ res' = [res EXCEPT ![c] = res[c] \o r]
      /\ UNCHANGED <<batch, asked>>
  BY DEF Leave
<1>3. AnswersOf(c) = res[c] /\ AnswersOf(c)' = res[c] \o r
  BY <1>1, <1>2 DEF AnswersOf, At, Leave, Goto, TypeOK, TaskType, ExecutionType
<1>4. Seen' = [Seen EXCEPT ![c] = res[c] \o r]
  BY <1>1, <1>3, SeenBecomes
<1>5. Seen' = [Seen EXCEPT ![c] = @ \o r]
  BY <1>3, <1>4 DEF Seen
<1> QED BY <1>2, <1>5 DEF Atomic!Advance, Seen

LEMMA PlainPerforms ==
  ASSUME StoreInv, NEW c \in Conns, Act(c), Plain(c)
  PROVE  Atomic!Perform(c)
<1>1. Inductive /\ TypeOK
  BY DEF StoreInv, Inductive
<1>2. /\ At(c, "exec") /\ done[c] < Len(batch[c])
      /\ UNCHANGED <<slavesCount, now, feed, data, replaced>>
  BY DEF Plain, Facing, replication, mapState
<1>3. ~ SetInsert(c) /\ ~ SetPublish(c)
  BY <1>2 DEF SetInsert, SetPublish, At
<1>4. Visible' = Visible
  BY <1>1, <1>2, <1>3, MostActsAreQuiet, VisibleStays
<1>5. Current(c) = Atomic!Current(c)
  BY DEF Current, Atomic!Current
<1>6. \/ Current(c).op = "PING" /\ Atomic!Advance(c, <<Ok>>)
      \/ Current(c).op = "INFO" /\ Atomic!Advance(c, <<Garbled>>)
      \/ Current(c).op = "ACK" /\ Atomic!Advance(c, <<>>)
      \/ Current(c).op = "BADKEYS" /\ Atomic!Advance(c, <<Torn>>)
  BY <1>1, <1>2, ArmAdvances DEF Plain, Facing
<1>7. Atomic!PerformPlain(c)
  BY SameKeyspace, <1>2, <1>4, <1>5, <1>6 DEF Atomic!PerformPlain
<1> QED BY <1>2, <1>7 DEF Atomic!Perform

LEMMA MapCommandPerforms ==
  ASSUME StoreInv, NEW c \in Conns, Act(c), Get(c) \/ Incr(c) \/ List(c)
  PROVE  Atomic!Perform(c)
<1>1. Inductive /\ TypeOK
  BY DEF StoreInv, Inductive
<1>2. /\ At(c, "exec") /\ done[c] < Len(batch[c]) /\ holder = NoOne /\ holder' = NoOne
      /\ UNCHANGED <<slavesCount, now, feed>>
  BY DEF Get, Incr, List, Facing, MapIsFree, replication, mapState
<1>3. Visible = data /\ Visible' = data'
  BY <1>2 DEF Visible
<1>4. Current(c) = Atomic!Current(c)
  BY DEF Current, Atomic!Current
<1>5. \A r : Leave(c, r) => Atomic!Advance(c, r)
  BY <1>1, <1>2, ArmAdvances
<1>6. CASE Get(c)
  <2>1. Atomic!PerformGet(c)
    BY SameKeyspace, <1>2, <1>3, <1>4, <1>5, <1>6 DEF Get, Facing, Atomic!PerformGet
  <2> QED BY <1>2, <2>1 DEF Atomic!Perform
<1>7. CASE Incr(c)
  <2>1. Atomic!PerformIncr(c)
    BY SameKeyspace, <1>2, <1>3, <1>4, <1>5, <1>7 DEF Incr, Facing, Atomic!PerformIncr
  <2> QED BY <1>2, <2>1 DEF Atomic!Perform
<1>8. CASE List(c)
  <2>1. Atomic!PerformKeys(c)
    BY SameKeyspace, <1>2, <1>3, <1>4, <1>5, <1>8 DEF List, Facing, mapState, Atomic!PerformKeys
  <2> QED BY <1>2, <2>1 DEF Atomic!Perform
<1> QED BY <1>6, <1>7, <1>8

LEMMA RefusedSetPerforms ==
  ASSUME StoreInv, NEW c \in Conns, Act(c), SetRefused(c)
  PROVE  Atomic!Perform(c)
<1>1. Inductive /\ TypeOK
  BY DEF StoreInv, Inductive
<1>2. /\ At(c, "exec") /\ done[c] < Len(batch[c])
      /\ UNCHANGED <<slavesCount, now, feed, data, replaced>>
  BY DEF SetRefused, Facing, replication, mapState
<1>3. ~ SetInsert(c) /\ ~ SetPublish(c)
  BY <1>2 DEF SetInsert, SetPublish, At
<1>4. Visible' = Visible
  BY <1>1, <1>2, <1>3, MostActsAreQuiet, VisibleStays
<1>5. Current(c) = Atomic!Current(c)
  BY DEF Current, Atomic!Current
<1>6. now \in asked[c] .. now
  <2>1. asked[c] <= now
    BY <1>2 DEF StoreInv, InService, Executing, At
  <2> QED BY <1>1, <2>1, ServerAssumption DEF TypeOK, TaskType, ExecutionType
<1>7. Atomic!Advance(c, <<Torn>>)
  BY <1>1, <1>2, ArmAdvances DEF SetRefused
<1>8. Atomic!RefuseSet(c)
  BY SameKeyspace, <1>2, <1>4, <1>5, <1>6, <1>7 DEF SetRefused, Facing, Atomic!RefuseSet
<1> QED BY <1>2, <1>8 DEF Atomic!Perform

(* The end of a SET is where it takes effect, for everybody at once.       *)
LEMMA PublishPerforms ==
  ASSUME StoreInv, NEW c \in Conns, Act(c), SetPublish(c)
  PROVE  Atomic!Perform(c)
<1> DEFINE cmd == Current(c)
<1>1. Inductive /\ TypeOK
  BY DEF StoreInv, Inductive
<1>2. /\ At(c, "publish") /\ holder = c /\ holder # NoOne /\ holder' = NoOne
      /\ data' = data /\ data \in Data
  BY <1>1, ServerAssumption
     DEF SetPublish, Unlock, Inductive, LockDiscipline, TypeOK, MapType
<1>3. done[c] < Len(batch[c]) /\ cmd.op = "SET" /\ cmd.key \in Keys
  BY <1>1, <1>2, CurrentType, CommandFields DEF Inductive, Workload, WorkOf, At
<1>4. Visible = [data EXCEPT ![cmd.key] = replaced] /\ Visible' = data
  BY <1>2 DEF Visible
<1>5. data[cmd.key] = [val |-> cmd.val, exp |-> expiry[c]]
  BY <1>2 DEF StoreInv, InService
<1>6. AfterSet(Visible, cmd, expiry[c]) = Visible'
  BY <1>2, <1>3, <1>4, <1>5 DEF AfterSet, Data
<1>7. PICK t \in asked[c] .. now :
        ~ CannotExpire(cmd.px, t) /\ expiry[c] = Deadline(cmd.px, t)
  BY <1>2 DEF StoreInv, InService, At
<1>8. Atomic!Current(c) = cmd
  BY DEF Current, Atomic!Current
<1>9. Atomic!Advance(c, <<Ok>>)
  <2>1. /\ done' = [done EXCEPT ![c] = done[c] + 1]
        /\ res' = [res EXCEPT ![c] = res[c] \o <<>>]
        /\ pc' = [pc EXCEPT ![c] = "exec"]
        /\ UNCHANGED <<slavesCount, now, batch, asked>>
    BY DEF SetPublish, Leave, Goto
  <2>2. /\ res[c] \in Seq(Reply) /\ Len(res[c]) > 0 /\ res[c][Len(res[c])] = Ok
    BY <1>1, <1>2 DEF TypeOK, ExecutionType, StoreInv, InService
  <2>3. AnswersOf(c) = SubSeq(res[c], 1, Len(res[c]) - 1)
    BY <1>2 DEF AnswersOf
  <2>4. AnswersOf(c)' = res[c]
    BY <1>1, <2>1, <2>2 DEF AnswersOf, At, TypeOK, TaskType, ExecutionType
  <2>5. res[c] = AnswersOf(c) \o <<Ok>>
    BY <2>2, <2>3
  <2>6. Seen' = [Seen EXCEPT ![c] = AnswersOf(c) \o <<Ok>>]
    BY <1>1, <2>4, <2>5, SeenBecomes
  <2>7. Seen' = [Seen EXCEPT ![c] = @ \o <<Ok>>]
    BY <2>6 DEF Seen
  <2> QED BY <2>1, <2>7, <1>3 DEF Atomic!Advance, Seen
<1>10. feed' = IF IsMaster /\ slavesCount # 0 THEN Append(feed, AsMessage(cmd)) ELSE feed
  BY DEF SetPublish, Publishes
<1>11. Atomic!PerformSet(c)
  BY SameKeyspace, <1>3, <1>6, <1>7, <1>8, <1>9, <1>10 DEF Atomic!PerformSet
<1> QED BY <1>3, <1>11 DEF Atomic!Perform

LEMMA RefinesInit == Init => Atomic!Init
<1> SUFFICES ASSUME Init PROVE Atomic!Init
  OBVIOUS
<1>1. Visible = data /\ data \in Loaded
  BY DEF Init, Visible
<1>2. \A c \in Conns : AnswersOf(c) = <<>>
  BY DEF Init, AnswersOf, At
<1> QED BY <1>1, <1>2 DEF Init, Atomic!Init

(* Steps KVStore does not see.                                             *)
LEMMA Stutters ==
  ASSUME Inductive, Quiet, UNCHANGED <<data, replaced, slavesCount, now, batch, done, res, asked>>
  PROVE  UNCHANGED Atomic!vars
<1>1. Visible' = Visible /\ Seen' = Seen
  BY VisibleStays, SeenStays
<1>2. feed' = feed
  BY DEF Quiet
<1> QED BY <1>1, <1>2 DEF Atomic!vars, Seen

LEMMA BookkeepingStutters ==
  ASSUME StoreInv, NEW c \in Conns, Act(c),
         \/ Accept(c) \/ HangUp(c) \/ Multi(c) \/ Discard(c) \/ WithoutMulti(c)
         \/ Psync(c) \/ SetDeadline(c) \/ Subscribe(c)
         \/ \E req \in Ignored : Ignore(c, req)
         \/ \E cmd \in Requests : Enqueue(c, cmd)
  PROVE  UNCHANGED Atomic!vars
<1>1. Inductive /\ TypeOK
  BY DEF StoreInv, Inductive
<1>2. /\ pc[c] \in {"closed", "read", "sync", "exec"}
      /\ pc'[c] \in {"read", "closed", "sync", "insert", "piped"}
      /\ UNCHANGED <<data, replaced, slavesCount, now, batch, done, res, asked>>
  BY <1>1
     DEF Accept, HangUp, Multi, Discard, WithoutMulti, Psync, SetDeadline, Subscribe, Ignore,
         Enqueue, Receive, Facing, At, Goto, replication, execution, mapState, TypeOK, TaskType
<1>3. ~ SetInsert(c) /\ ~ SetPublish(c)
  BY <1>2 DEF SetInsert, SetPublish, At
<1> QED BY <1>1, <1>2, <1>3, MostActsAreQuiet, Stutters

(* The insert of a SET is not seen either: its key still shows what it     *)
(* replaced, its answer is held back.                                      *)
LEMMA InsertStutters ==
  ASSUME StoreInv, NEW c \in Conns, Act(c), SetInsert(c)
  PROVE  UNCHANGED Atomic!vars
<1> DEFINE k == Current(c).key
<1>1. TypeOK /\ At(c, "insert") /\ done[c] < Len(batch[c]) /\ Current(c).op = "SET"
  BY DEF StoreInv, Inductive, SetInsert, At, Workload, WorkOf
<1>2. k \in Keys /\ c # NoOne
  BY <1>1, CurrentType, CommandFields, ServerAssumption
<1>3. /\ holder = NoOne /\ holder' = c /\ replaced' = data[k] /\ Current(c)' = Current(c)
      /\ data' = AfterSet(data, Current(c), expiry[c])
      /\ UNCHANGED <<feed, slavesCount, now, batch, done, asked>>
      /\ res'[c] = Append(res[c], Ok) /\ At(c, "publish")'
  BY <1>1 DEF SetInsert, MapIsFree, Goto, At, Current, replication, TypeOK, TaskType, ExecutionType
<1>4. Visible' = Visible
  <2>1. Visible = data
    BY <1>3 DEF Visible
  <2>2. Visible' = [data' EXCEPT ![k] = data[k]]
    BY <1>2, <1>3 DEF Visible
  <2>3. [data' EXCEPT ![k] = data[k]] = data
    BY <1>1, <1>2, <1>3 DEF AfterSet, Data, TypeOK, MapType
  <2> QED BY <2>1, <2>2, <2>3
<1>5. Seen' = Seen
  <2>1. res[c] \in Seq(Reply)
    BY <1>1 DEF TypeOK, ExecutionType
  <2>2. AnswersOf(c) = res[c]
    BY <1>1 DEF AnswersOf, At
  <2>3. AnswersOf(c)' = SubSeq(Append(res[c], Ok), 1, Len(Append(res[c], Ok)) - 1)
    BY <1>3 DEF AnswersOf
  <2>4. AnswersOf(c)' = AnswersOf(c)
    BY <2>1, <2>2, <2>3
  <2>5. Seen' = [Seen EXCEPT ![c] = AnswersOf(c)]
    BY <1>1, <2>4, SeenBecomes
  <2> QED BY <2>5 DEF Seen
<1> QED BY <1>3, <1>4, <1>5 DEF Atomic!vars, Seen

(* A batch is handed over, answered or given up, and a pipe is counted.    *)
LEMMA CallSubmits ==
  ASSUME StoreInv, NEW c \in Conns, Act(c),
         Exec(c) \/ \E cmd \in Requests : Run(c, cmd)
  PROVE  Atomic!Submit(c)
<1>1. Inductive /\ TypeOK /\ At(c, "read") /\ batch[c] = <<>>
  BY DEF StoreInv, Inductive, Exec, Run, Receive, At, Workload, WorkOf, Executing
<1>2. PICK cmds \in Seq(Command) : Call(c, cmds)
  <2>1. CASE Exec(c)
    <3>1. queue[c] \in Seq(Command)
      BY <1>1 DEF TypeOK, SessionType
    <3> QED BY <2>1, <3>1 DEF Exec
  <2>2. ASSUME NEW cmd \in Requests, Run(c, cmd)
        PROVE  \E cmds \in Seq(Command) : Call(c, cmds)
    <3>1. <<cmd>> \in Seq(Command)
      BY ServerAssumption
    <3> QED BY <2>2, <3>1 DEF Run
  <2> QED BY <2>1, <2>2
<1>3. /\ batch' = [batch EXCEPT ![c] = cmds] /\ asked' = [asked EXCEPT ![c] = now]
      /\ UNCHANGED <<data, replaced, feed, slavesCount, now, done, res>>
  BY <1>2 DEF Call, replication, mapState
<1>4. batch'[c] = cmds
  BY <1>1, <1>3 DEF TypeOK, ExecutionType
<1>5. ~ SetInsert(c) /\ ~ SetPublish(c)
  BY <1>1 DEF SetInsert, SetPublish, At
<1>6. Visible' = Visible /\ Seen' = Seen
  BY <1>1, <1>3, <1>5, MostActsAreQuiet, VisibleStays, SeenStays
<1> QED BY <1>1, <1>2, <1>3, <1>4, <1>6, SameKeyspace DEF Atomic!Submit, Seen

LEMMA EndsFinish ==
  ASSUME StoreInv, NEW c \in Conns, Act(c), Panic(c) \/ Return(c)
  PROVE  Atomic!Answer(c) \/ Atomic!Abandon(c)
<1>1. Inductive /\ TypeOK /\ At(c, "exec")
  BY DEF StoreInv, Inductive, Panic, Return, Facing
<1>2. /\ Forget(c) /\ pc'[c] \in {"closed", "read"}
      /\ UNCHANGED <<data, replaced, feed, slavesCount, now>>
  BY <1>1 DEF Panic, Return, Goto, replication, mapState, TypeOK, TaskType
<1>3. ~ SetInsert(c) /\ ~ SetPublish(c)
  BY <1>1 DEF SetInsert, SetPublish, At
<1>4. Visible' = Visible
  BY <1>1, <1>2, <1>3, MostActsAreQuiet, VisibleStays
<1>5. Seen' = [Seen EXCEPT ![c] = <<>>]
  <2>1. AnswersOf(c)' = <<>>
    BY <1>1, <1>2 DEF Forget, AnswersOf, At, TypeOK, ExecutionType
  <2> QED BY <1>1, <2>1, SeenBecomes
<1>6. Atomic!Finish(c)
  BY <1>2, <1>4, <1>5 DEF Forget, Atomic!Finish, Seen
<1>7. CASE Panic(c)
  BY <1>6, <1>7 DEF Panic, Facing, Current, Atomic!Current, Atomic!Abandon
<1>8. CASE Return(c)
  BY <1>6, <1>8 DEF Return, Atomic!Answer
<1> QED BY <1>7, <1>8

LEMMA CountInListens ==
  ASSUME StoreInv, NEW c \in Conns, Act(c), CountIn(c)
  PROVE  Atomic!Listen
<1>1. Inductive /\ TypeOK /\ At(c, "piped")
  BY DEF StoreInv, Inductive, CountIn
<1>2. /\ slavesCount' = slavesCount + 1
      /\ UNCHANGED <<data, replaced, feed, now, batch, done, res, asked>>
  BY DEF CountIn, execution, mapState
<1>3. ~ SetInsert(c) /\ ~ SetPublish(c)
  BY <1>1 DEF SetInsert, SetPublish, At
<1>4. Visible' = Visible /\ Seen' = Seen
  BY <1>1, <1>2, <1>3, MostActsAreQuiet, VisibleStays, SeenStays
<1> QED BY <1>2, <1>4 DEF Atomic!Listen, Seen

LEMMA ActRefines ==
  ASSUME StoreInv, NEW c \in Conns, Act(c)
  PROVE  Atomic!Next \/ UNCHANGED Atomic!vars
<1>1. CASE \/ Accept(c) \/ HangUp(c) \/ Multi(c) \/ Discard(c) \/ WithoutMulti(c)
           \/ Psync(c) \/ SetDeadline(c) \/ Subscribe(c)
           \/ \E req \in Ignored : Ignore(c, req)
           \/ \E cmd \in Requests : Enqueue(c, cmd)
  BY <1>1, BookkeepingStutters
<1>2. CASE SetInsert(c)
  BY <1>2, InsertStutters
<1>3. CASE Exec(c) \/ \E cmd \in Requests : Run(c, cmd)
  BY <1>3, CallSubmits DEF Atomic!Next
<1>4. CASE Plain(c) \/ Get(c) \/ Incr(c) \/ List(c) \/ SetRefused(c) \/ SetPublish(c)
  BY <1>4, PlainPerforms, MapCommandPerforms, RefusedSetPerforms, PublishPerforms
     DEF Atomic!Next
<1>5. CASE Panic(c) \/ Return(c)
  BY <1>5, EndsFinish DEF Atomic!Next
<1>6. CASE CountIn(c)
  BY <1>6, CountInListens DEF Atomic!Next
<1> QED BY <1>1, <1>2, <1>3, <1>4, <1>5, <1>6 DEF Act, Dispatch, Execute

LEMMA StepRefines == StoreInv /\ [Next]_vars => [Atomic!Next]_(Atomic!vars)
<1> SUFFICES ASSUME StoreInv, [Next]_vars PROVE Atomic!Next \/ UNCHANGED Atomic!vars
  OBVIOUS
<1>1. Inductive /\ TypeOK
  BY DEF StoreInv, Inductive
<1>2. CASE Tick
  <2>1. /\ now' = now + 1
        /\ UNCHANGED <<data, replaced, feed, slavesCount, batch, done, res, asked>>
    BY <1>2 DEF Tick, replication, execution, mapState
  <2>2. Visible' = Visible /\ Seen' = Seen
    BY <1>1, <1>2, <2>1, OthersAreQuiet, VisibleStays, SeenStays
  <2>3. Atomic!Tick
    BY <2>1, <2>2 DEF Atomic!Tick, Seen
  <2> QED BY <2>3 DEF Atomic!Next
<1>3. CASE UNCHANGED vars
  <2>1. UNCHANGED <<data, replaced, slavesCount, now, batch, done, res, asked>>
    BY <1>3 DEF vars, replication, execution, mapState
  <2> QED BY <1>1, <1>3, <2>1, OthersAreQuiet, Stutters
<1>4. ASSUME NEW c \in Conns, Act(c) PROVE Atomic!Next \/ UNCHANGED Atomic!vars
  BY <1>4, ActRefines
<1> QED BY <1>2, <1>3, <1>4 DEF Next

(* Every command of every batch takes effect exactly once and at a single  *)
(* instant, in the order of its batch, and what replicas are fed and       *)
(* clients are answered fits that order: the mutex held from a SET's       *)
(* insert to its publication, and per command elsewhere, is enough         *)
(* (src/main.rs:454-677).                                                  *)
THEOREM ServesAtomically == Spec => AtomicStore
BY RefinesInit, StepRefines, StoreInvariance, PTL DEF Spec, AtomicStore, Atomic!Spec
=============================================================================
