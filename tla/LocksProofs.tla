---------------------------- MODULE LocksProofs -----------------------------
(***************************************************************************)
(* Proofs about Locks, for any number of clients.                          *)
(*                                                                         *)
(* TypeOK says that no guard outlives its request, which is not inductive: *)
(* a task that goes idle must be known to hold no lock but those it gives  *)
(* up.  Guards says which locks a task may hold at each place, and Queued  *)
(* that a task waits in one queue, once, for a lock it does not hold, so   *)
(* that a lock that is granted is one its task is still waiting for.       *)
(* Counted relates the link's place to the SETs it has not counted yet.    *)
(***************************************************************************)
EXTENDS Locks, TLAPS

MayHold == [map   |-> {"map", "role", "count"},
            info  |-> {"role", "info", "psync", "reply", "increment"},
            count |-> {"count", "countIn"}]

Queued ==
  \A l \in Locks : \A i \in 1 .. Len(queue[l]) :
    LET t == queue[l][i].task IN
    /\ Waiting(t) /\ Waits[pc[t]] = l
    /\ ~ Holds(t, l)
    /\ \A j \in 1 .. Len(queue[l]) : queue[l][j].task = t => i = j

Guards == \A l \in Locks : \A ticket \in held[l] : pc[ticket.task] \in MayHold[l]

Counted ==
  /\ role = "Master" => pc[Link] = "idle"
  /\ pc[Link] \in {"idle", "map", "info", "role", "increment"}
  /\ pc[Link] \in {"idle", "map", "info"} => offset = inserted
  /\ pc[Link] \in {"role", "increment"} => inserted = offset + 1

IInv == TypeOK /\ Queued /\ Guards /\ Counted

(* Where a task is when it waits, and for what.                            *)
LEMMA WaitsFacts ==
  /\ DOMAIN Waits = {"map", "role", "count", "info", "psync", "countIn", "increment"}
  /\ Waits["map"] = "map" /\ Waits["role"] = "info" /\ Waits["count"] = "count"
  /\ Waits["info"] = "info" /\ Waits["psync"] = "info" /\ Waits["countIn"] = "count"
  /\ Waits["increment"] = "info"
  /\ \A p \in DOMAIN Waits : Waits[p] \in Locks
BY DEF Waits, Locks

LEMMA MayHoldFacts ==
  /\ MayHold["map"] = {"map", "role", "count"}
  /\ MayHold["info"] = {"role", "info", "psync", "reply", "increment"}
  /\ MayHold["count"] = {"count", "countIn"}
BY DEF MayHold

(* A task that does not wait, or was given what it waits for, stands in no *)
(* queue.                                                                  *)
LEMMA InNoQueue ==
  ASSUME Queued, NEW t \in Tasks,
         \/ ~ Waiting(t)
         \/ Waiting(t) /\ Holds(t, Waits[pc[t]])
  PROVE  \A l \in Locks : \A i \in 1 .. Len(queue[l]) : queue[l][i].task # t
BY DEF Queued

-----------------------------------------------------------------------------
(* A step of one task, which may give up guards and ask for one lock,      *)
(* keeps queues and guards as they should be.                              *)
LEMMA TaskStep ==
  ASSUME IInv, NEW t \in Tasks, NEW q \in Places,
         pc' = [pc EXCEPT ![t] = q],
         \A l \in Locks : \A i \in 1 .. Len(queue[l]) : queue[l][i].task # t,
         held' \in [Locks -> SUBSET Ticket],
         \A l \in Locks : held'[l] \subseteq held[l],
         \A l \in Locks : \A ticket \in held'[l] : ticket.task = t => q \in MayHold[l],
         \/ queue' = queue
         \/ \E l \in Locks, ticket \in Ticket :
              /\ Asks(l, ticket)
              /\ ticket.task = t /\ q \in DOMAIN Waits /\ Waits[q] = l
              /\ \A guard \in held'[l] : guard.task # t
  PROVE  /\ pc' \in [Tasks -> Places] /\ queue' \in [Locks -> Seq(Ticket)]
         /\ \A l \in Locks : \A ticket \in held'[l] :
              /\ ticket.mode = "write" => held'[l] = {ticket}
              /\ pc'[ticket.task] \notin {"idle", "pipe"}
         /\ Queued' /\ Guards'
<1>1. pc' \in [Tasks -> Places] /\ queue' \in [Locks -> Seq(Ticket)]
  <2>1. pc' \in [Tasks -> Places]
    BY DEF IInv, TypeOK
  <2>2. ASSUME NEW l \in Locks, NEW ticket \in Ticket, Asks(l, ticket)
        PROVE  queue' \in [Locks -> Seq(Ticket)]
    <3>1. Append(queue[l], ticket) \in Seq(Ticket)
      BY DEF IInv, TypeOK
    <3> QED BY <3>1, <2>2 DEF IInv, TypeOK, Asks
  <2> QED BY <2>1, <2>2 DEF IInv, TypeOK
<1>2. \A s \in Tasks : s # t => pc'[s] = pc[s]
  BY DEF IInv, TypeOK
<1>3. pc'[t] = q
  BY DEF IInv, TypeOK
<1>4. \A l \in Locks : \A ticket \in held'[l] : ticket \in Ticket /\ ticket.task \in Tasks
  BY DEF Ticket
<1>5. Guards'
  <2> SUFFICES ASSUME NEW l \in Locks, NEW ticket \in held'[l]
               PROVE  pc'[ticket.task] \in MayHold[l]
    BY DEF Guards, MayHold
  <2>1. CASE ticket.task = t
    BY <2>1, <1>3
  <2>2. CASE ticket.task # t
    BY <2>2, <1>2, <1>4 DEF IInv, Guards
  <2> QED BY <2>1, <2>2
<1>6. \A l \in Locks : \A ticket \in held'[l] :
         /\ ticket.mode = "write" => held'[l] = {ticket}
         /\ pc'[ticket.task] \notin {"idle", "pipe"}
  <2> SUFFICES ASSUME NEW l \in Locks, NEW ticket \in held'[l]
               PROVE  /\ ticket.mode = "write" => held'[l] = {ticket}
                      /\ pc'[ticket.task] \notin {"idle", "pipe"}
    OBVIOUS
  <2>1. ticket.mode = "write" => held'[l] = {ticket}
    BY DEF IInv, TypeOK
  <2>2. pc'[ticket.task] \in MayHold[l]
    BY <1>5 DEF Guards, MayHold
  <2> QED BY <2>1, <2>2, MayHoldFacts DEF Locks
<1>7. Queued'
  <2>1. \A l \in Locks : \A i \in 1 .. Len(queue[l]) :
           LET s == queue[l][i].task IN
           /\ s \in Tasks /\ s # t
           /\ pc'[s] \in DOMAIN Waits /\ Waits[pc'[s]] = l
           /\ \A guard \in held'[l] : guard.task # s
    <3> SUFFICES ASSUME NEW l \in Locks, NEW i \in 1 .. Len(queue[l])
                 PROVE  /\ queue[l][i].task \in Tasks /\ queue[l][i].task # t
                        /\ pc'[queue[l][i].task] \in DOMAIN Waits
                        /\ Waits[pc'[queue[l][i].task]] = l
                        /\ \A guard \in held'[l] : guard.task # queue[l][i].task
      OBVIOUS
    <3>1. queue[l][i] \in Ticket
      BY DEF IInv, TypeOK
    <3>2. queue[l][i].task \in Tasks /\ queue[l][i].task # t
      BY <3>1 DEF Ticket
    <3>3. Waiting(queue[l][i].task) /\ Waits[pc[queue[l][i].task]] = l
          /\ ~ Holds(queue[l][i].task, l)
      BY DEF IInv, Queued
    <3> QED BY <3>2, <3>3, <1>2 DEF Waiting, Holds
  <2>2. CASE queue' = queue
    BY <2>1, <2>2 DEF IInv, Queued, Waiting, Holds
  <2>3. ASSUME NEW m \in Locks, NEW new \in Ticket, Asks(m, new),
               new.task = t, q \in DOMAIN Waits, Waits[q] = m,
               \A guard \in held'[m] : guard.task # t
        PROVE  Queued'
    <3>1. \A l \in Locks : l # m => queue'[l] = queue[l]
      BY <2>3 DEF Asks, IInv, TypeOK
    <3>2. /\ queue[m] \in Seq(Ticket) /\ Len(queue[m]) \in Nat
          /\ queue'[m] = Append(queue[m], new)
          /\ Len(queue'[m]) = Len(queue[m]) + 1
          /\ \A i \in 1 .. Len(queue[m]) : queue'[m][i] = queue[m][i]
          /\ queue'[m][Len(queue[m]) + 1] = new
      BY <2>3 DEF Asks, IInv, TypeOK
    <3>3. ASSUME NEW l \in Locks, NEW i \in 1 .. Len(queue'[l])
          PROVE  LET s == queue'[l][i].task IN
                 /\ pc'[s] \in DOMAIN Waits /\ Waits[pc'[s]] = l
                 /\ \A guard \in held'[l] : guard.task # s
                 /\ \A j \in 1 .. Len(queue'[l]) : queue'[l][j].task = s => i = j
      <4>1. CASE l # m
        BY <4>1, <3>1, <3>3, <2>1 DEF IInv, Queued
      <4>2. CASE l = m /\ i = Len(queue[m]) + 1
        <5>1. queue'[m][i] = new
          BY <4>2, <3>2
        <5>2. \A j \in 1 .. Len(queue'[m]) : queue'[m][j].task = t => i = j
          BY <4>2, <3>2
        <5> QED BY <5>1, <5>2, <4>2, <2>3, <1>3
      <4>3. CASE l = m /\ i # Len(queue[m]) + 1
        <5>1. i \in 1 .. Len(queue[m]) /\ queue'[m][i] = queue[m][i]
          BY <4>3, <3>2, <3>3
        <5>2. queue[m][i].task # t
          BY <5>1
        <5>3. \A j \in 1 .. Len(queue'[m]) : queue'[m][j].task = queue'[m][i].task => i = j
          BY <5>1, <5>2, <3>2, <2>3 DEF IInv, Queued
        <5> QED BY <5>1, <5>3, <4>3, <2>1
      <4> QED BY <4>1, <4>2, <4>3
    <3> QED BY <3>3 DEF Queued, Waiting, Holds
  <2> QED BY <2>2, <2>3
<1> QED BY <1>1, <1>5, <1>6, <1>7

(* The link's count, when the link does not move.                          *)
LEMMA OthersStep ==
  ASSUME IInv, NEW t \in Clients, NEW q \in Places,
         pc' = [pc EXCEPT ![t] = q], UNCHANGED <<role, inserted, offset>>
  PROVE  Counted' /\ role' \in {"Master", "Slave"} /\ inserted' \in Nat /\ offset' \in Nat
<1>1. t # Link /\ t \in Tasks /\ Link \in Tasks
  BY LocksAssumption DEF Tasks
<1>2. pc'[Link] = pc[Link]
  BY <1>1 DEF IInv, TypeOK
<1> QED BY <1>2 DEF IInv, TypeOK, Counted

LEMMA InitInductive == Init => IInv
<1> SUFFICES ASSUME Init PROVE IInv
  OBVIOUS
<1>1. TypeOK
  BY DEF Init, TypeOK, Places
<1>2. Queued /\ Guards
  BY DEF Init, Queued, Guards
<1>3. Counted
  BY DEF Init, Counted, Tasks
<1> QED BY <1>1, <1>2, <1>3 DEF IInv

(* A lock is granted to a task that waits for it.                          *)
LEMMA GrantInductive ==
  ASSUME IInv, NEW l \in Locks, Grant(l)
  PROVE  IInv'
<1> DEFINE new == Head(queue[l])
<1>1. /\ queue[l] \in Seq(Ticket) /\ Len(queue[l]) \in Nat /\ Len(queue[l]) >= 1
      /\ new = queue[l][1] /\ new \in Ticket
      /\ queue' = [queue EXCEPT ![l] = Tail(queue[l])]
      /\ Tail(queue[l]) \in Seq(Ticket)
      /\ Len(Tail(queue[l])) = Len(queue[l]) - 1
      /\ \A i \in 1 .. Len(queue[l]) - 1 : Tail(queue[l])[i] = queue[l][i + 1]
  BY DEF Grant, Admits, IInv, TypeOK
<1>2. /\ held' = [held EXCEPT ![l] = held[l] \cup {new}]
      /\ held[l] = {} \/ (new.mode = "read" /\ \A ticket \in held[l] : ticket.mode = "read")
      /\ UNCHANGED <<role, pc, inserted, offset>>
  BY DEF Grant, Admits
<1>3. new.task \in Tasks /\ pc[new.task] \in DOMAIN Waits /\ Waits[pc[new.task]] = l
      /\ \A j \in 1 .. Len(queue[l]) : queue[l][j].task = new.task => j = 1
  BY <1>1 DEF IInv, Queued, Waiting, Ticket
<1>4. TypeOK'
  <2>1. held' \in [Locks -> SUBSET Ticket] /\ queue' \in [Locks -> Seq(Ticket)]
    BY <1>1, <1>2 DEF IInv, TypeOK
  <2>2. ASSUME NEW m \in Locks, NEW ticket \in held'[m]
        PROVE  /\ ticket.mode = "write" => held'[m] = {ticket}
               /\ pc'[ticket.task] \notin {"idle", "pipe"}
    <3>1. CASE m # l
      BY <3>1, <2>2, <1>2 DEF IInv, TypeOK
    <3>2. CASE m = l
      <4>1. held'[l] = held[l] \cup {new}
        BY <1>2 DEF IInv, TypeOK
      <4>2. pc'[ticket.task] \notin {"idle", "pipe"}
        BY <4>1, <3>2, <2>2, <1>2, <1>3, WaitsFacts DEF IInv, TypeOK
      <4>3. ticket.mode = "write" => held'[m] = {ticket}
        BY <4>1, <3>2, <2>2, <1>2 DEF IInv, TypeOK
      <4> QED BY <4>2, <4>3
    <3> QED BY <3>1, <3>2
  <2> QED BY <2>1, <2>2, <1>2 DEF IInv, TypeOK
<1>5. Guards'
  <2> SUFFICES ASSUME NEW m \in Locks, NEW ticket \in held'[m]
               PROVE  pc'[ticket.task] \in MayHold[m]
    BY DEF Guards, MayHold
  <2>1. CASE ticket \in held[m]
    BY <2>1, <1>2 DEF IInv, Guards
  <2>2. CASE m = l /\ ticket = new
    BY <2>2, <1>2, <1>3, WaitsFacts, MayHoldFacts DEF Locks
  <2> QED BY <2>1, <2>2, <1>2 DEF IInv, TypeOK
<1>6. Queued'
  <2> SUFFICES ASSUME NEW m \in Locks, NEW i \in 1 .. Len(queue'[m])
               PROVE  LET t == queue'[m][i].task IN
                      /\ pc'[t] \in DOMAIN Waits /\ Waits[pc'[t]] = m
                      /\ \A guard \in held'[m] : guard.task # t
                      /\ \A j \in 1 .. Len(queue'[m]) : queue'[m][j].task = t => i = j
    BY DEF Queued, Waiting, Holds
  <2>1. CASE m # l
    <3>1. queue'[m] = queue[m] /\ held'[m] = held[m] /\ pc' = pc
      BY <2>1, <1>1, <1>2 DEF IInv, TypeOK
    <3> QED BY <3>1 DEF IInv, Queued, Waiting, Holds
  <2>2. CASE m = l
    <3>1. /\ Len(queue'[l]) = Len(queue[l]) - 1
          /\ \A j \in 1 .. Len(queue'[l]) : queue'[l][j] = queue[l][j + 1] /\ j + 1 \in 1 .. Len(queue[l])
          /\ held'[l] = held[l] \cup {new} /\ pc' = pc
      BY <1>1, <1>2 DEF IInv, TypeOK
    <3>2. i + 1 \in 1 .. Len(queue[l]) /\ queue'[l][i] = queue[l][i + 1]
      BY <3>1, <2>2
    <3>3. queue[l][i + 1].task # new.task
      BY <3>2, <1>3
    <3>4. /\ pc[queue[l][i + 1].task] \in DOMAIN Waits /\ Waits[pc[queue[l][i + 1].task]] = l
          /\ \A guard \in held[l] : guard.task # queue[l][i + 1].task
          /\ \A j \in 1 .. Len(queue[l]) : queue[l][j].task = queue[l][i + 1].task => i + 1 = j
      BY <3>2 DEF IInv, Queued, Waiting, Holds
    <3>5. \A j \in 1 .. Len(queue'[l]) : queue'[l][j].task = queue'[l][i].task => i = j
      <4> SUFFICES ASSUME NEW j \in 1 .. Len(queue'[l]), queue'[l][j].task = queue'[l][i].task
                   PROVE  i = j
        OBVIOUS
      <4>1. j + 1 \in 1 .. Len(queue[l]) /\ queue'[l][j] = queue[l][j + 1] /\ j \in Nat
        BY <3>1
      <4>2. i + 1 = j + 1
        BY <4>1, <3>2, <3>4
      <4> QED BY <4>1, <4>2, <2>2
    <3> QED BY <3>1, <3>2, <3>3, <3>4, <3>5, <2>2
  <2> QED BY <2>1, <2>2
<1>7. Counted'
  BY <1>2 DEF IInv, Counted
<1> QED BY <1>4, <1>5, <1>6, <1>7 DEF IInv

-----------------------------------------------------------------------------
(* What a step of task t, which leaves a place where it waits for nothing  *)
(* and drops the guards of the locks S, owes to the invariant.             *)
LEMMA StepInductive ==
  ASSUME IInv, NEW t \in Tasks, NEW from \in Places, NEW q \in Places,
         Goes(t, from, q),
         ~ Waiting(t) \/ Holds(t, Waits[from]),
         NEW S \in SUBSET Locks,
         held' = [l \in Locks |-> IF l \in S THEN Without(held[l], t) ELSE held[l]],
         \A l \in Locks \ S : from \in MayHold[l] => q \in MayHold[l],
         \/ queue' = queue
         \/ \E l \in Locks, ticket \in Ticket :
              /\ Asks(l, ticket)
              /\ ticket.task = t /\ q \in DOMAIN Waits /\ Waits[q] = l
              /\ l \in S \/ from \notin MayHold[l],
         role' \in {"Master", "Slave"}, inserted' \in Nat, offset' \in Nat, Counted'
  PROVE  IInv'
<1>1. pc[t] = from /\ pc' = [pc EXCEPT ![t] = q]
  BY DEF Goes
<1>2. \A l \in Locks : \A i \in 1 .. Len(queue[l]) : queue[l][i].task # t
  BY <1>1, InNoQueue DEF IInv
<1>3. \A l \in Locks : held[l] \in SUBSET Ticket
  BY DEF IInv, TypeOK
<1>4. /\ held' \in [Locks -> SUBSET Ticket]
      /\ \A l \in Locks : held'[l] \subseteq held[l]
  BY <1>3 DEF Without
<1>5. ASSUME NEW l \in Locks, NEW ticket \in held'[l], ticket.task = t
      PROVE  l \notin S /\ from \in MayHold[l]
  <2>1. ticket \in held[l] /\ l \notin S
    BY <1>4, <1>5 DEF Without
  <2> QED BY <2>1, <1>1, <1>5 DEF IInv, Guards
<1>6. \A l \in Locks : \A ticket \in held'[l] : ticket.task = t => q \in MayHold[l]
  BY <1>5
<1>7. \/ queue' = queue
      \/ \E l \in Locks, ticket \in Ticket :
           /\ Asks(l, ticket)
           /\ ticket.task = t /\ q \in DOMAIN Waits /\ Waits[q] = l
           /\ \A guard \in held'[l] : guard.task # t
  BY <1>5
<1>8. /\ pc' \in [Tasks -> Places] /\ queue' \in [Locks -> Seq(Ticket)]
      /\ \A l \in Locks : \A ticket \in held'[l] :
           /\ ticket.mode = "write" => held'[l] = {ticket}
           /\ pc'[ticket.task] \notin {"idle", "pipe"}
      /\ Queued' /\ Guards'
  BY <1>1, <1>2, <1>4, <1>6, <1>7, TaskStep, ZenonT(60)
<1>9. TypeOK'
  BY <1>4, <1>8 DEF TypeOK
<1> QED BY <1>8, <1>9 DEF IInv

LEMMA AskSetInductive ==
  ASSUME IInv, NEW t \in Tasks, AskSet(t)
  PROVE  IInv'
<1>1. t \in Tasks /\ "idle" \in Places /\ "map" \in Places /\ {} \in SUBSET Locks
  BY WaitsFacts DEF Tasks, Places, Locks
<1>2. Goes(t, "idle", "map")
  BY DEF AskSet
<1>3. ~ Waiting(t) \/ Holds(t, Waits["idle"])
  BY <1>2, WaitsFacts DEF Waiting, Goes
<1>4. held' = [l \in Locks |-> IF l \in {} THEN Without(held[l], t) ELSE held[l]]
  BY DEF AskSet, Drops, DropsBoth, IInv, TypeOK, Locks
<1>5. \A l \in Locks \ {} : "idle" \in MayHold[l] => "map" \in MayHold[l]
  BY MayHoldFacts DEF Locks
<1>6. \E l \in Locks, ticket \in Ticket :
         /\ Asks(l, ticket)
         /\ ticket.task = t /\ "map" \in DOMAIN Waits /\ Waits["map"] = l
         /\ l \in {} \/ "idle" \notin MayHold[l]
  BY <1>1, WaitsFacts, MayHoldFacts DEF AskSet, Ticket, Writing, Locks
<1>7. Counted' /\ role' \in {"Master", "Slave"} /\ inserted' \in Nat /\ offset' \in Nat
  <2>1. CASE t = Link
    BY <2>1, <1>1 DEF AskSet, Goes, IInv, TypeOK, Counted
  <2>2. CASE t \in Clients
    BY <2>2, <1>1, <1>2, LocksAssumption, OthersStep DEF AskSet, Goes
  <2> QED BY <2>1, <2>2 DEF Tasks
<1> QED BY <1>1, <1>2, <1>3, <1>4, <1>5, <1>6, <1>7, StepInductive

LEMMA InsertInductive ==
  ASSUME IInv, NEW t \in Tasks, Insert(t)
  PROVE  IInv'
<1>1. t \in Tasks /\ "map" \in Places /\ "role" \in Places /\ {} \in SUBSET Locks
  BY WaitsFacts DEF Tasks, Places, Locks
<1>2. Goes(t, "map", "role")
  BY DEF Insert
<1>3. ~ Waiting(t) \/ Holds(t, Waits["map"])
  BY WaitsFacts DEF Insert
<1>4. held' = [l \in Locks |-> IF l \in {} THEN Without(held[l], t) ELSE held[l]]
  BY DEF Insert, Drops, DropsBoth, IInv, TypeOK, Locks
<1>5. \A l \in Locks \ {} : "map" \in MayHold[l] => "role" \in MayHold[l]
  BY MayHoldFacts DEF Locks
<1>6. \E l \in Locks, ticket \in Ticket :
         /\ Asks(l, ticket)
         /\ ticket.task = t /\ "role" \in DOMAIN Waits /\ Waits["role"] = l
         /\ l \in {} \/ "map" \notin MayHold[l]
  BY <1>1, WaitsFacts, MayHoldFacts DEF Insert, Ticket, Reading, Locks
<1>7. Counted' /\ role' \in {"Master", "Slave"} /\ inserted' \in Nat /\ offset' \in Nat
  <2>1. CASE t = Link
    BY <2>1, <1>1 DEF Insert, Goes, IInv, TypeOK, Counted
  <2>2. CASE t \in Clients
    BY <2>2, <1>1, <1>2, LocksAssumption, OthersStep DEF Insert, Goes
  <2> QED BY <2>1, <2>2 DEF Tasks
<1> QED BY <1>1, <1>2, <1>3, <1>4, <1>5, <1>6, <1>7, StepInductive

LEMMA AskCountInductive ==
  ASSUME IInv, NEW t \in Tasks, AskCount(t)
  PROVE  IInv'
<1>1. t \in Tasks /\ "role" \in Places /\ "count" \in Places /\ {"info"} \in SUBSET Locks
  BY WaitsFacts DEF Tasks, Places, Locks
<1>2. Goes(t, "role", "count")
  BY DEF AskCount
<1>3. ~ Waiting(t) \/ Holds(t, Waits["role"])
  BY WaitsFacts DEF AskCount
<1>4. held' = [l \in Locks |-> IF l \in {"info"} THEN Without(held[l], t) ELSE held[l]]
  BY DEF AskCount, Drops, DropsBoth, IInv, TypeOK, Locks
<1>5. \A l \in Locks \ {"info"} : "role" \in MayHold[l] => "count" \in MayHold[l]
  BY MayHoldFacts DEF Locks
<1>6. \E l \in Locks, ticket \in Ticket :
         /\ Asks(l, ticket)
         /\ ticket.task = t /\ "count" \in DOMAIN Waits /\ Waits["count"] = l
         /\ l \in {"info"} \/ "role" \notin MayHold[l]
  BY <1>1, WaitsFacts, MayHoldFacts DEF AskCount, Ticket, Reading, Locks
<1>7. Counted' /\ role' \in {"Master", "Slave"} /\ inserted' \in Nat /\ offset' \in Nat
  <2>1. CASE t = Link
    BY <2>1, <1>1 DEF AskCount, Goes, IInv, TypeOK, Counted
  <2>2. CASE t \in Clients
    BY <2>2, <1>1, <1>2, LocksAssumption, OthersStep DEF AskCount, Goes
  <2> QED BY <2>1, <2>2 DEF Tasks
<1> QED BY <1>1, <1>2, <1>3, <1>4, <1>5, <1>6, <1>7, StepInductive

LEMMA ReadRoleInductive ==
  ASSUME IInv, NEW t \in Tasks, ReadRole(t)
  PROVE  IInv'
<1>1. t \in Tasks /\ "role" \in Places /\ (IF t = Link THEN "increment" ELSE "idle") \in Places /\ {"info", "map"} \in SUBSET Locks
  BY WaitsFacts DEF Tasks, Places, Locks
<1>2. Goes(t, "role", (IF t = Link THEN "increment" ELSE "idle"))
  BY DEF ReadRole
<1>3. ~ Waiting(t) \/ Holds(t, Waits["role"])
  BY WaitsFacts DEF ReadRole
<1>4. held' = [l \in Locks |-> IF l \in {"info", "map"} THEN Without(held[l], t) ELSE held[l]]
  BY DEF ReadRole, Drops, DropsBoth, IInv, TypeOK, Locks
<1>5. \A l \in Locks \ {"info", "map"} : "role" \in MayHold[l] => (IF t = Link THEN "increment" ELSE "idle") \in MayHold[l]
  BY MayHoldFacts DEF Locks
<1>6. \/ queue' = queue
      \/ \E l \in Locks, ticket \in Ticket :
           /\ Asks(l, ticket)
           /\ ticket.task = t /\ (IF t = Link THEN "increment" ELSE "idle") \in DOMAIN Waits
           /\ Waits[(IF t = Link THEN "increment" ELSE "idle")] = l
           /\ l \in {"info", "map"} \/ "role" \notin MayHold[l]
  <2>1. CASE t = Link
    BY <2>1, <1>1, WaitsFacts DEF ReadRole, Ticket, Writing, Locks
  <2>2. CASE t # Link
    BY <2>2 DEF ReadRole
  <2> QED BY <2>1, <2>2
<1>7. Counted' /\ role' \in {"Master", "Slave"} /\ inserted' \in Nat /\ offset' \in Nat
  <2>1. CASE t = Link
    BY <2>1, <1>1 DEF ReadRole, Goes, IInv, TypeOK, Counted
  <2>2. CASE t \in Clients
    BY <2>2, <1>1, <1>2, LocksAssumption, OthersStep DEF ReadRole, Goes
  <2> QED BY <2>1, <2>2 DEF Tasks
<1> QED BY <1>1, <1>2, <1>3, <1>4, <1>5, <1>6, <1>7, StepInductive

LEMMA PublishInductive ==
  ASSUME IInv, NEW t \in Tasks, Publish(t)
  PROVE  IInv'
<1>1. t \in Tasks /\ "count" \in Places /\ "idle" \in Places /\ {"count", "map"} \in SUBSET Locks
  BY WaitsFacts DEF Tasks, Places, Locks
<1>2. Goes(t, "count", "idle")
  BY DEF Publish
<1>3. ~ Waiting(t) \/ Holds(t, Waits["count"])
  BY WaitsFacts DEF Publish
<1>4. held' = [l \in Locks |-> IF l \in {"count", "map"} THEN Without(held[l], t) ELSE held[l]]
  BY DEF Publish, Drops, DropsBoth, IInv, TypeOK, Locks
<1>5. \A l \in Locks \ {"count", "map"} : "count" \in MayHold[l] => "idle" \in MayHold[l]
  BY MayHoldFacts DEF Locks
<1>6. queue' = queue
  BY DEF Publish
<1>7. Counted' /\ role' \in {"Master", "Slave"} /\ inserted' \in Nat /\ offset' \in Nat
  <2>1. CASE t = Link
    BY <2>1, <1>1 DEF Publish, Goes, IInv, TypeOK, Counted
  <2>2. CASE t \in Clients
    BY <2>2, <1>1, <1>2, LocksAssumption, OthersStep DEF Publish, Goes
  <2> QED BY <2>1, <2>2 DEF Tasks
<1> QED BY <1>1, <1>2, <1>3, <1>4, <1>5, <1>6, <1>7, StepInductive

LEMMA AskInfoInductive ==
  ASSUME IInv, NEW t \in Tasks, AskInfo(t)
  PROVE  IInv'
<1>1. t \in Tasks /\ "idle" \in Places /\ "info" \in Places /\ {} \in SUBSET Locks
  BY WaitsFacts DEF Tasks, Places, Locks
<1>2. Goes(t, "idle", "info")
  BY DEF AskInfo
<1>3. ~ Waiting(t) \/ Holds(t, Waits["idle"])
  BY <1>2, WaitsFacts DEF Waiting, Goes
<1>4. held' = [l \in Locks |-> IF l \in {} THEN Without(held[l], t) ELSE held[l]]
  BY DEF AskInfo, Drops, DropsBoth, IInv, TypeOK, Locks
<1>5. \A l \in Locks \ {} : "idle" \in MayHold[l] => "info" \in MayHold[l]
  BY MayHoldFacts DEF Locks
<1>6. \E l \in Locks, ticket \in Ticket :
         /\ Asks(l, ticket)
         /\ ticket.task = t /\ "info" \in DOMAIN Waits /\ Waits["info"] = l
         /\ l \in {} \/ "idle" \notin MayHold[l]
  BY <1>1, WaitsFacts, MayHoldFacts DEF AskInfo, Ticket, Reading, Locks
<1>7. Counted' /\ role' \in {"Master", "Slave"} /\ inserted' \in Nat /\ offset' \in Nat
  <2>1. CASE t = Link
    BY <2>1, <1>1 DEF AskInfo, Goes, IInv, TypeOK, Counted
  <2>2. CASE t \in Clients
    BY <2>2, <1>1, <1>2, LocksAssumption, OthersStep DEF AskInfo, Goes
  <2> QED BY <2>1, <2>2 DEF Tasks
<1> QED BY <1>1, <1>2, <1>3, <1>4, <1>5, <1>6, <1>7, StepInductive

LEMMA ReportInductive ==
  ASSUME IInv, NEW t \in Tasks, Report(t)
  PROVE  IInv'
<1>1. t \in Tasks /\ "info" \in Places /\ "idle" \in Places /\ {"info"} \in SUBSET Locks
  BY WaitsFacts DEF Tasks, Places, Locks
<1>2. Goes(t, "info", "idle")
  BY DEF Report
<1>3. ~ Waiting(t) \/ Holds(t, Waits["info"])
  BY WaitsFacts DEF Report
<1>4. held' = [l \in Locks |-> IF l \in {"info"} THEN Without(held[l], t) ELSE held[l]]
  BY DEF Report, Drops, DropsBoth, IInv, TypeOK, Locks
<1>5. \A l \in Locks \ {"info"} : "info" \in MayHold[l] => "idle" \in MayHold[l]
  BY MayHoldFacts DEF Locks
<1>6. queue' = queue
  BY DEF Report
<1>7. Counted' /\ role' \in {"Master", "Slave"} /\ inserted' \in Nat /\ offset' \in Nat
  <2>1. CASE t = Link
    BY <2>1, <1>1 DEF Report, Goes, IInv, TypeOK, Counted
  <2>2. CASE t \in Clients
    BY <2>2, <1>1, <1>2, LocksAssumption, OthersStep DEF Report, Goes
  <2> QED BY <2>1, <2>2 DEF Tasks
<1> QED BY <1>1, <1>2, <1>3, <1>4, <1>5, <1>6, <1>7, StepInductive

LEMMA IncrementOffsetInductive ==
  ASSUME IInv, IncrementOffset
  PROVE  IInv'
<1>1. Link \in Tasks /\ "increment" \in Places /\ "idle" \in Places /\ {"info"} \in SUBSET Locks
  BY WaitsFacts DEF Tasks, Places, Locks
<1>2. Goes(Link, "increment", "idle")
  BY DEF IncrementOffset
<1>3. ~ Waiting(Link) \/ Holds(Link, Waits["increment"])
  BY WaitsFacts DEF IncrementOffset
<1>4. held' = [l \in Locks |-> IF l \in {"info"} THEN Without(held[l], Link) ELSE held[l]]
  BY DEF IncrementOffset, Drops, DropsBoth, IInv, TypeOK, Locks
<1>5. \A l \in Locks \ {"info"} : "increment" \in MayHold[l] => "idle" \in MayHold[l]
  BY MayHoldFacts DEF Locks
<1>6. queue' = queue
  BY DEF IncrementOffset
<1>7. Counted' /\ role' \in {"Master", "Slave"} /\ inserted' \in Nat /\ offset' \in Nat
  BY <1>1 DEF IncrementOffset, Goes, IInv, TypeOK, Counted
<1> QED BY <1>1, <1>2, <1>3, <1>4, <1>5, <1>6, <1>7, StepInductive

LEMMA AskPsyncInductive ==
  ASSUME IInv, NEW c \in Clients, AskPsync(c)
  PROVE  IInv'
<1>1. c \in Tasks /\ "idle" \in Places /\ "psync" \in Places /\ {} \in SUBSET Locks
  BY WaitsFacts DEF Tasks, Places, Locks
<1>2. Goes(c, "idle", "psync")
  BY DEF AskPsync
<1>3. ~ Waiting(c) \/ Holds(c, Waits["idle"])
  BY <1>2, WaitsFacts DEF Waiting, Goes
<1>4. held' = [l \in Locks |-> IF l \in {} THEN Without(held[l], c) ELSE held[l]]
  BY DEF AskPsync, Drops, DropsBoth, IInv, TypeOK, Locks
<1>5. \A l \in Locks \ {} : "idle" \in MayHold[l] => "psync" \in MayHold[l]
  BY MayHoldFacts DEF Locks
<1>6. \E l \in Locks, ticket \in Ticket :
         /\ Asks(l, ticket)
         /\ ticket.task = c /\ "psync" \in DOMAIN Waits /\ Waits["psync"] = l
         /\ l \in {} \/ "idle" \notin MayHold[l]
  BY <1>1, WaitsFacts, MayHoldFacts DEF AskPsync, Ticket, Reading, Locks
<1>7. Counted' /\ role' \in {"Master", "Slave"} /\ inserted' \in Nat /\ offset' \in Nat
  BY <1>1, <1>2, OthersStep DEF AskPsync, Goes
<1> QED BY <1>1, <1>2, <1>3, <1>4, <1>5, <1>6, <1>7, StepInductive

LEMMA StartReplyInductive ==
  ASSUME IInv, NEW c \in Clients, StartReply(c)
  PROVE  IInv'
<1>1. c \in Tasks /\ "psync" \in Places /\ "reply" \in Places /\ {} \in SUBSET Locks
  BY WaitsFacts DEF Tasks, Places, Locks
<1>2. Goes(c, "psync", "reply")
  BY DEF StartReply
<1>3. ~ Waiting(c) \/ Holds(c, Waits["psync"])
  BY WaitsFacts DEF StartReply
<1>4. held' = [l \in Locks |-> IF l \in {} THEN Without(held[l], c) ELSE held[l]]
  BY DEF StartReply, Drops, DropsBoth, IInv, TypeOK, Locks
<1>5. \A l \in Locks \ {} : "psync" \in MayHold[l] => "reply" \in MayHold[l]
  BY MayHoldFacts DEF Locks
<1>6. queue' = queue
  BY DEF StartReply
<1>7. Counted' /\ role' \in {"Master", "Slave"} /\ inserted' \in Nat /\ offset' \in Nat
  BY <1>1, <1>2, OthersStep DEF StartReply, Goes
<1> QED BY <1>1, <1>2, <1>3, <1>4, <1>5, <1>6, <1>7, StepInductive

LEMMA EndReplyInductive ==
  ASSUME IInv, NEW c \in Clients, EndReply(c)
  PROVE  IInv'
<1>1. c \in Tasks /\ "reply" \in Places /\ "countIn" \in Places /\ {"info"} \in SUBSET Locks
  BY WaitsFacts DEF Tasks, Places, Locks
<1>2. Goes(c, "reply", "countIn")
  BY DEF EndReply
<1>3. ~ Waiting(c) \/ Holds(c, Waits["reply"])
  BY <1>2, WaitsFacts DEF Waiting, Goes
<1>4. held' = [l \in Locks |-> IF l \in {"info"} THEN Without(held[l], c) ELSE held[l]]
  BY DEF EndReply, Drops, DropsBoth, IInv, TypeOK, Locks
<1>5. \A l \in Locks \ {"info"} : "reply" \in MayHold[l] => "countIn" \in MayHold[l]
  BY MayHoldFacts DEF Locks
<1>6. \E l \in Locks, ticket \in Ticket :
         /\ Asks(l, ticket)
         /\ ticket.task = c /\ "countIn" \in DOMAIN Waits /\ Waits["countIn"] = l
         /\ l \in {"info"} \/ "reply" \notin MayHold[l]
  BY <1>1, WaitsFacts, MayHoldFacts DEF EndReply, Ticket, Writing, Locks
<1>7. Counted' /\ role' \in {"Master", "Slave"} /\ inserted' \in Nat /\ offset' \in Nat
  BY <1>1, <1>2, OthersStep DEF EndReply, Goes
<1> QED BY <1>1, <1>2, <1>3, <1>4, <1>5, <1>6, <1>7, StepInductive

LEMMA CountInInductive ==
  ASSUME IInv, NEW c \in Clients, CountIn(c)
  PROVE  IInv'
<1>1. c \in Tasks /\ "countIn" \in Places /\ "pipe" \in Places /\ {"count"} \in SUBSET Locks
  BY WaitsFacts DEF Tasks, Places, Locks
<1>2. Goes(c, "countIn", "pipe")
  BY DEF CountIn
<1>3. ~ Waiting(c) \/ Holds(c, Waits["countIn"])
  BY WaitsFacts DEF CountIn
<1>4. held' = [l \in Locks |-> IF l \in {"count"} THEN Without(held[l], c) ELSE held[l]]
  BY DEF CountIn, Drops, DropsBoth, IInv, TypeOK, Locks
<1>5. \A l \in Locks \ {"count"} : "countIn" \in MayHold[l] => "pipe" \in MayHold[l]
  BY MayHoldFacts DEF Locks
<1>6. queue' = queue
  BY DEF CountIn
<1>7. Counted' /\ role' \in {"Master", "Slave"} /\ inserted' \in Nat /\ offset' \in Nat
  BY <1>1, <1>2, OthersStep DEF CountIn, Goes
<1> QED BY <1>1, <1>2, <1>3, <1>4, <1>5, <1>6, <1>7, StepInductive

LEMMA AcceptInductive ==
  ASSUME IInv, NEW c \in Clients, Accept(c)
  PROVE  IInv'
<1>1. c \in Tasks /\ "pipe" \in Places /\ "idle" \in Places /\ {} \in SUBSET Locks
  BY WaitsFacts DEF Tasks, Places, Locks
<1>2. Goes(c, "pipe", "idle")
  BY DEF Accept
<1>3. ~ Waiting(c) \/ Holds(c, Waits["pipe"])
  BY <1>2, WaitsFacts DEF Waiting, Goes
<1>4. held' = [l \in Locks |-> IF l \in {} THEN Without(held[l], c) ELSE held[l]]
  BY DEF Accept, Drops, DropsBoth, IInv, TypeOK, Locks
<1>5. \A l \in Locks \ {} : "pipe" \in MayHold[l] => "idle" \in MayHold[l]
  BY MayHoldFacts DEF Locks
<1>6. queue' = queue
  BY DEF Accept
<1>7. Counted' /\ role' \in {"Master", "Slave"} /\ inserted' \in Nat /\ offset' \in Nat
  BY <1>1, <1>2, OthersStep DEF Accept, Goes
<1> QED BY <1>1, <1>2, <1>3, <1>4, <1>5, <1>6, <1>7, StepInductive

-----------------------------------------------------------------------------
LEMMA NextInductive == IInv /\ [Next]_vars => IInv'
<1> SUFFICES ASSUME IInv, [Next]_vars PROVE IInv'
  OBVIOUS
<1>1. ASSUME NEW l \in Locks, Grant(l) PROVE IInv'
  BY <1>1, GrantInductive
<1>2. ASSUME NEW t \in Tasks, Ask(t) PROVE IInv'
  BY <1>2, AskSetInductive, AskInfoInductive, AskPsyncInductive DEF Ask
<1>3. ASSUME NEW t \in Tasks, Proceed(t) PROVE IInv'
  BY <1>3, InsertInductive, AskCountInductive, ReadRoleInductive, PublishInductive,
     IncrementOffsetInductive, ReportInductive, StartReplyInductive, CountInInductive
     DEF Proceed
<1>4. ASSUME NEW c \in Clients, EndReply(c) \/ Accept(c) PROVE IInv'
  BY <1>4, EndReplyInductive, AcceptInductive
<1>5. ASSUME UNCHANGED vars PROVE IInv'
  BY <1>5 DEF vars, IInv, TypeOK, Queued, Guards, Counted, Waiting, Holds
<1> QED BY <1>1, <1>2, <1>3, <1>4, <1>5 DEF Next

(* For any number of clients: no guard outlives the request it was taken   *)
(* for, and a lock taken for writing is held alone, whatever the order in  *)
(* which handle_commands and connect_master ask (src/main.rs).             *)
THEOREM LocksTypeCorrect == Spec => []TypeOK
<1>1. IInv => TypeOK
  BY DEF IInv
<1> QED BY <1>1, InitInductive, NextInductive, PTL DEF Spec

(* For any number of clients and SETs: what a replica reports to its       *)
(* master covers every SET the link has executed before it, and is never   *)
(* ahead of them (src/main.rs:279-295, 653-666).                           *)
THEOREM AckCountsAllHolds == Spec => []AckCountsAll
<1>1. IInv => AckCountsAll
  BY DEF IInv, TypeOK, Counted, AckCountsAll
<1> QED BY <1>1, InitInductive, NextInductive, PTL DEF Spec

-----------------------------------------------------------------------------
(* Nobody is stuck.  A task that waits stands in the queue of what it      *)
(* waits for, unless it holds it; and only the link, behind a SET, wants   *)
(* REPLICATION_INFO for itself.                                            *)
InQueue(t, l) == \E i \in 1 .. Len(queue[l]) : queue[l][i].task = t
Standing ==
  \A t \in Tasks : Waiting(t) =>
    Holds(t, Waits[pc[t]]) \/ InQueue(t, Waits[pc[t]])

ByLink(ticket) == ticket.mode = "write" => ticket.task = Link /\ pc[Link] = "increment"
Shared ==
  /\ \A ticket \in held["info"] : ByLink(ticket)
  /\ \A i \in 1 .. Len(queue["info"]) : ByLink(queue["info"][i])

LineInv == Standing /\ Shared

(* What a step of task t leaves to the others.                             *)
LEMMA LineStep ==
  ASSUME IInv, LineInv, NEW t \in Tasks, NEW from \in Places, NEW q \in Places,
         Goes(t, from, q),
         ~ Waiting(t) \/ Holds(t, Waits[from]),
         NEW S \in SUBSET Locks,
         held' = [l \in Locks |-> IF l \in S THEN Without(held[l], t) ELSE held[l]],
         from = "increment" => "info" \in S,
         \/ queue' = queue /\ q \notin DOMAIN Waits
         \/ \E l \in Locks, ticket \in Ticket :
              /\ Asks(l, ticket) /\ ticket.task = t /\ Waits[q] = l
              /\ l = "info" /\ ticket.mode = "write" => t = Link /\ q = "increment"
  PROVE  LineInv'
<1>1. /\ pc[t] = from /\ pc'[t] = q /\ \A s \in Tasks : s # t => pc'[s] = pc[s]
  BY DEF Goes, IInv, TypeOK
<1>2. \A l \in Locks : \A i \in 1 .. Len(queue[l]) : queue[l][i].task # t
  BY <1>1, InNoQueue DEF IInv
<1>3. ASSUME NEW l \in Locks
      PROVE  /\ held'[l] \subseteq held[l]
             /\ \A ticket \in held[l] : ticket.task # t => ticket \in held'[l]
             /\ l \in S => \A ticket \in held'[l] : ticket.task # t
  BY DEF Without
<1>4. ASSUME NEW l \in Locks
      PROVE  /\ queue[l] \in Seq(Ticket) /\ Len(queue[l]) \in Nat
             /\ \A i \in 1 .. Len(queue[l]) : queue[l][i] \in Ticket
             /\ held[l] \in SUBSET Ticket
  BY DEF IInv, TypeOK
<1>5. ASSUME NEW l \in Locks
      PROVE  /\ Len(queue'[l]) \in Nat /\ Len(queue[l]) <= Len(queue'[l])
             /\ \A i \in 1 .. Len(queue[l]) :
                  i \in 1 .. Len(queue'[l]) /\ queue'[l][i] = queue[l][i]
  <2>1. CASE queue' = queue
    BY <2>1, <1>4
  <2>2. ASSUME NEW m \in Locks, NEW ticket \in Ticket, Asks(m, ticket)
        PROVE  queue'[l] = queue[l] \/ queue'[l] = Append(queue[l], ticket)
    BY <2>2 DEF Asks, IInv, TypeOK
  <2> QED BY <2>1, <2>2, <1>4, SMTT(60)
<1>6. Standing'
  <2> SUFFICES ASSUME NEW s \in Tasks, pc'[s] \in DOMAIN Waits
               PROVE  \/ \E ticket \in held'[Waits[pc'[s]]] : ticket.task = s
                      \/ \E i \in 1 .. Len(queue'[Waits[pc'[s]]]) :
                           queue'[Waits[pc'[s]]][i].task = s
    BY DEF Standing, Waiting, Holds, InQueue
  <2>1. Waits[pc'[s]] \in Locks
    BY WaitsFacts
  <2>2. CASE s # t
    <3>1. pc'[s] = pc[s]
      BY <1>1, <2>2
    <3>2. Holds(s, Waits[pc[s]]) \/ InQueue(s, Waits[pc[s]])
      BY <3>1 DEF LineInv, Standing, Waiting
    <3>3. CASE Holds(s, Waits[pc[s]])
      BY <1>3, <2>1, <2>2, <3>1, <3>3 DEF Holds
    <3>4. CASE InQueue(s, Waits[pc[s]])
      BY <1>5, <2>1, <3>1, <3>4, SMTT(60) DEF InQueue
    <3> QED BY <3>2, <3>3, <3>4
  <2>3. CASE s = t
    <3>1. PICK l \in Locks, ticket \in Ticket :
            Asks(l, ticket) /\ ticket.task = t /\ Waits[q] = l
      BY <1>1, <2>3
    <3>2. queue'[l] = Append(queue[l], ticket) /\ queue[l] \in Seq(Ticket)
      BY <3>1 DEF Asks, IInv, TypeOK
    <3>3. /\ Len(queue[l]) + 1 \in 1 .. Len(queue'[l])
          /\ queue'[l][Len(queue[l]) + 1].task = s
      BY <1>4, <2>3, <3>1, <3>2
    <3> QED BY <1>1, <2>3, <3>1, <3>3
  <2> QED BY <2>2, <2>3
<1>7. "info" \in Locks /\ Link \in Tasks
  BY DEF Locks, Tasks
<1>8. ASSUME NEW ticket, ticket.mode = "write", ByLink(ticket), ticket.task # t
      PROVE  ticket.task = Link /\ pc'[Link] = "increment"
  BY <1>1, <1>7, <1>8 DEF ByLink
<1>9. ASSUME NEW ticket \in held'["info"], ticket.mode = "write"
      PROVE  ticket.task = Link /\ pc'[Link] = "increment"
  <2>1. ticket \in held["info"] /\ ByLink(ticket)
    BY <1>3, <1>7, <1>9 DEF LineInv, Shared
  <2>2. ticket.task # t
    <3> SUFFICES ASSUME ticket.task = t PROVE FALSE
      OBVIOUS
    <3>1. from = "increment"
      BY <1>1, <1>9, <2>1 DEF ByLink
    <3> QED BY <1>3, <1>7, <1>9, <3>1
  <2> QED BY <1>8, <1>9, <2>1, <2>2
<1>10. ASSUME NEW i \in 1 .. Len(queue'["info"]), queue'["info"][i].mode = "write"
       PROVE  queue'["info"][i].task = Link /\ pc'[Link] = "increment"
  <2>1. CASE i \in 1 .. Len(queue["info"])
    BY <1>2, <1>5, <1>7, <1>8, <1>10, <2>1 DEF LineInv, Shared
  <2>2. CASE i \notin 1 .. Len(queue["info"])
    <3>1. queue'["info"] # queue["info"]
      BY <1>10, <2>2
    <3>2. PICK l \in Locks, ticket \in Ticket :
            /\ Asks(l, ticket) /\ ticket.task = t
            /\ l = "info" /\ ticket.mode = "write" => t = Link /\ q = "increment"
      BY <3>1
    <3>3. l = "info" /\ queue'["info"] = Append(queue["info"], ticket)
      BY <1>7, <3>1, <3>2 DEF Asks, IInv, TypeOK
    <3>4. queue'["info"][i] = ticket
      BY <1>4, <1>7, <1>10, <2>2, <3>3
    <3> QED BY <1>1, <1>10, <3>2, <3>3, <3>4
  <2> QED BY <2>1, <2>2
<1>11. Shared'
  BY <1>9, <1>10 DEF Shared, ByLink
<1> QED BY <1>6, <1>11 DEF LineInv

LEMMA LineGrant ==
  ASSUME IInv, LineInv, NEW l \in Locks, Grant(l)
  PROVE  LineInv'
<1> DEFINE new == Head(queue[l])
<1>1. /\ queue[l] \in Seq(Ticket) /\ Len(queue[l]) \in Nat /\ Len(queue[l]) >= 1
      /\ new = queue[l][1]
      /\ queue' = [queue EXCEPT ![l] = Tail(queue[l])]
      /\ Len(Tail(queue[l])) = Len(queue[l]) - 1
      /\ \A i \in 1 .. Len(queue[l]) - 1 : Tail(queue[l])[i] = queue[l][i + 1]
  BY DEF Grant, Admits, IInv, TypeOK
<1>2. held' = [held EXCEPT ![l] = held[l] \cup {new}] /\ pc' = pc
  BY DEF Grant
<1> HIDE DEF new
<1>3. /\ held'[l] = held[l] \cup {new} /\ queue'[l] = Tail(queue[l])
      /\ \A m \in Locks : m # l => held'[m] = held[m] /\ queue'[m] = queue[m]
  BY <1>1, <1>2 DEF IInv, TypeOK
<1>4. Standing'
  <2> SUFFICES ASSUME NEW s \in Tasks, Waiting(s)
               PROVE  \/ \E ticket \in held'[Waits[pc[s]]] : ticket.task = s
                      \/ \E i \in 1 .. Len(queue'[Waits[pc[s]]]) :
                           queue'[Waits[pc[s]]][i].task = s
    BY <1>2 DEF Standing, Waiting, Holds, InQueue
  <2>1. Waits[pc[s]] \in Locks
    BY WaitsFacts DEF Waiting
  <2>2. Holds(s, Waits[pc[s]]) \/ InQueue(s, Waits[pc[s]])
    BY DEF LineInv, Standing
  <2>3. CASE Waits[pc[s]] # l
    BY <1>3, <2>1, <2>2, <2>3 DEF Holds, InQueue
  <2>4. CASE Waits[pc[s]] = l /\ Holds(s, l)
    BY <1>3, <2>4 DEF Holds
  <2>5. CASE Waits[pc[s]] = l /\ InQueue(s, l)
    <3>1. PICK i \in 1 .. Len(queue[l]) : queue[l][i].task = s
      BY <2>5 DEF InQueue
    <3>2. CASE i = 1
      BY <1>1, <1>3, <2>5, <3>1, <3>2
    <3>3. CASE i # 1
      <4>1. i - 1 \in 1 .. Len(queue[l]) - 1 /\ i - 1 + 1 = i
        BY <1>1, <3>3
      <4>2. i - 1 \in 1 .. Len(queue'[l]) /\ queue'[l][i - 1].task = s
        BY <1>1, <1>3, <3>1, <4>1
      <4> QED BY <2>5, <4>2
    <3> QED BY <3>2, <3>3
  <2> QED BY <2>2, <2>3, <2>4, <2>5
<1>5. Shared'
  <2>1. CASE l # "info"
    BY <1>2, <1>3, <2>1 DEF LineInv, Shared, ByLink, Locks
  <2>2. CASE l = "info"
    <3>1. ByLink(new)
      BY <1>1, <2>2 DEF LineInv, Shared
    <3>2. ASSUME NEW i \in 1 .. Len(queue'["info"]) PROVE ByLink(queue'["info"][i])
      <4>1. /\ i \in 1 .. Len(queue["info"]) - 1 /\ i + 1 \in 1 .. Len(queue["info"])
            /\ queue'["info"][i] = queue["info"][i + 1]
        <5>1. i \in 1 .. Len(queue["info"]) - 1
          BY <1>1, <1>3, <2>2
        <5>2. queue'["info"] = Tail(queue["info"]) /\ Len(queue["info"]) \in Nat
          BY <1>1, <1>3, <2>2
        <5>3. Tail(queue["info"])[i] = queue["info"][i + 1]
          BY <1>1, <2>2, <5>1
        <5> QED BY <5>1, <5>2, <5>3
      <4> QED BY <4>1 DEF LineInv, Shared
    <3>3. ASSUME NEW ticket \in held'["info"] PROVE ByLink(ticket)
      BY <1>3, <2>2, <3>1 DEF LineInv, Shared
    <3> QED BY <1>2, <3>2, <3>3 DEF Shared, ByLink
  <2> QED BY <2>1, <2>2
<1> QED BY <1>4, <1>5 DEF LineInv

(* One step of each kind.                                                  *)
LEMMA LineNext ==
  ASSUME IInv, LineInv, Next
  PROVE  LineInv'
<1>0. Clients \subseteq Tasks /\ Link \in Tasks
  BY DEF Tasks
<1>1. ASSUME NEW t \in Tasks, AskSet(t) PROVE LineInv'
  <2>1. t \in Tasks /\ "idle" \in Places /\ "map" \in Places /\ {} \in SUBSET Locks
    BY <1>0, WaitsFacts DEF Places, Locks
  <2>2. Goes(t, "idle", "map") /\ (~ Waiting(t) \/ Holds(t, Waits["idle"]))
    BY <1>1, WaitsFacts DEF AskSet, Goes, Waiting
  <2>3. held' = [l \in Locks |-> IF l \in {} THEN Without(held[l], t) ELSE held[l]]
    BY <1>1 DEF Locks, AskSet, Drops, DropsBoth, IInv, TypeOK
  <2>4. Writing(t) \in Ticket /\ Asks("map", Writing(t)) /\ Writing(t).task = t
        /\ Writing(t).mode = "write"
    BY <1>1, <2>1 DEF AskSet, Ticket, Writing
  <2>5. \E l \in Locks, ticket \in Ticket :
           /\ Asks(l, ticket) /\ ticket.task = t /\ Waits["map"] = l
           /\ l = "info" /\ ticket.mode = "write" => t = Link /\ "map" = "increment"
    BY <2>4, WaitsFacts DEF Locks
  <2> QED BY ONLY IInv, LineInv, <2>1, <2>2, <2>3, <2>5, LineStep
<1>2. ASSUME NEW t \in Tasks, Insert(t) PROVE LineInv'
  <2>1. t \in Tasks /\ "map" \in Places /\ "role" \in Places /\ {} \in SUBSET Locks
    BY <1>0, WaitsFacts DEF Places, Locks
  <2>2. Goes(t, "map", "role") /\ (~ Waiting(t) \/ Holds(t, Waits["map"]))
    BY <1>2, WaitsFacts DEF Insert, Goes, Waiting
  <2>3. held' = [l \in Locks |-> IF l \in {} THEN Without(held[l], t) ELSE held[l]]
    BY <1>2 DEF Locks, Insert, Drops, DropsBoth, IInv, TypeOK
  <2>4. Reading(t) \in Ticket /\ Asks("info", Reading(t)) /\ Reading(t).task = t
        /\ Reading(t).mode = "read"
    BY <1>2, <2>1 DEF Insert, Ticket, Reading
  <2>5. \E l \in Locks, ticket \in Ticket :
           /\ Asks(l, ticket) /\ ticket.task = t /\ Waits["role"] = l
           /\ l = "info" /\ ticket.mode = "write" => t = Link /\ "role" = "increment"
    BY <2>4, WaitsFacts DEF Locks
  <2> QED BY ONLY IInv, LineInv, <2>1, <2>2, <2>3, <2>5, LineStep
<1>3. ASSUME NEW t \in Tasks, AskCount(t) PROVE LineInv'
  <2>1. t \in Tasks /\ "role" \in Places /\ "count" \in Places /\ {"info"} \in SUBSET Locks
    BY <1>0, WaitsFacts DEF Places, Locks
  <2>2. Goes(t, "role", "count") /\ (~ Waiting(t) \/ Holds(t, Waits["role"]))
    BY <1>3, WaitsFacts DEF AskCount, Goes, Waiting
  <2>3. held' = [l \in Locks |-> IF l \in {"info"} THEN Without(held[l], t) ELSE held[l]]
    BY <1>3 DEF Locks, AskCount, Drops, DropsBoth, IInv, TypeOK
  <2>4. Reading(t) \in Ticket /\ Asks("count", Reading(t)) /\ Reading(t).task = t
        /\ Reading(t).mode = "read"
    BY <1>3, <2>1 DEF AskCount, Ticket, Reading
  <2>5. \E l \in Locks, ticket \in Ticket :
           /\ Asks(l, ticket) /\ ticket.task = t /\ Waits["count"] = l
           /\ l = "info" /\ ticket.mode = "write" => t = Link /\ "count" = "increment"
    BY <2>4, WaitsFacts DEF Locks
  <2> QED BY ONLY IInv, LineInv, <2>1, <2>2, <2>3, <2>5, LineStep
<1>4. ASSUME NEW t \in Tasks, Publish(t) PROVE LineInv'
  <2>1. t \in Tasks /\ "count" \in Places /\ "idle" \in Places /\ {"count", "map"} \in SUBSET Locks
    BY <1>0, WaitsFacts DEF Places, Locks
  <2>2. Goes(t, "count", "idle") /\ (~ Waiting(t) \/ Holds(t, Waits["count"]))
    BY <1>4, WaitsFacts DEF Publish, Goes, Waiting
  <2>3. held' = [l \in Locks |-> IF l \in {"count", "map"} THEN Without(held[l], t) ELSE held[l]]
    BY <1>4 DEF Locks, Publish, Drops, DropsBoth, IInv, TypeOK
  <2>4. queue' = queue /\ "idle" \notin DOMAIN Waits
    BY <1>4, WaitsFacts DEF Publish
  <2> QED BY ONLY IInv, LineInv, <2>1, <2>2, <2>3, <2>4, LineStep
<1>5. ASSUME NEW t \in Tasks, AskInfo(t) PROVE LineInv'
  <2>1. t \in Tasks /\ "idle" \in Places /\ "info" \in Places /\ {} \in SUBSET Locks
    BY <1>0, WaitsFacts DEF Places, Locks
  <2>2. Goes(t, "idle", "info") /\ (~ Waiting(t) \/ Holds(t, Waits["idle"]))
    BY <1>5, WaitsFacts DEF AskInfo, Goes, Waiting
  <2>3. held' = [l \in Locks |-> IF l \in {} THEN Without(held[l], t) ELSE held[l]]
    BY <1>5 DEF Locks, AskInfo, Drops, DropsBoth, IInv, TypeOK
  <2>4. Reading(t) \in Ticket /\ Asks("info", Reading(t)) /\ Reading(t).task = t
        /\ Reading(t).mode = "read"
    BY <1>5, <2>1 DEF AskInfo, Ticket, Reading
  <2>5. \E l \in Locks, ticket \in Ticket :
           /\ Asks(l, ticket) /\ ticket.task = t /\ Waits["info"] = l
           /\ l = "info" /\ ticket.mode = "write" => t = Link /\ "info" = "increment"
    BY <2>4, WaitsFacts DEF Locks
  <2> QED BY ONLY IInv, LineInv, <2>1, <2>2, <2>3, <2>5, LineStep, ZenonT(60)
<1>6. ASSUME NEW t \in Tasks, Report(t) PROVE LineInv'
  <2>1. t \in Tasks /\ "info" \in Places /\ "idle" \in Places /\ {"info"} \in SUBSET Locks
    BY <1>0, WaitsFacts DEF Places, Locks
  <2>2. Goes(t, "info", "idle") /\ (~ Waiting(t) \/ Holds(t, Waits["info"]))
    BY <1>6, WaitsFacts DEF Report, Goes, Waiting
  <2>3. held' = [l \in Locks |-> IF l \in {"info"} THEN Without(held[l], t) ELSE held[l]]
    BY <1>6 DEF Locks, Report, Drops, DropsBoth, IInv, TypeOK
  <2>4. queue' = queue /\ "idle" \notin DOMAIN Waits
    BY <1>6, WaitsFacts DEF Report
  <2> QED BY ONLY IInv, LineInv, <2>1, <2>2, <2>3, <2>4, LineStep
<1>7. ASSUME NEW c \in Clients, AskPsync(c) PROVE LineInv'
  <2>1. c \in Tasks /\ "idle" \in Places /\ "psync" \in Places /\ {} \in SUBSET Locks
    BY <1>0, WaitsFacts DEF Places, Locks
  <2>2. Goes(c, "idle", "psync") /\ (~ Waiting(c) \/ Holds(c, Waits["idle"]))
    BY <1>7, WaitsFacts DEF AskPsync, Goes, Waiting
  <2>3. held' = [l \in Locks |-> IF l \in {} THEN Without(held[l], c) ELSE held[l]]
    BY <1>7 DEF Locks, AskPsync, Drops, DropsBoth, IInv, TypeOK
  <2>4. Reading(c) \in Ticket /\ Asks("info", Reading(c)) /\ Reading(c).task = c
        /\ Reading(c).mode = "read"
    BY <1>7, <2>1 DEF AskPsync, Ticket, Reading
  <2>5. \E l \in Locks, ticket \in Ticket :
           /\ Asks(l, ticket) /\ ticket.task = c /\ Waits["psync"] = l
           /\ l = "info" /\ ticket.mode = "write" => c = Link /\ "psync" = "increment"
    BY <2>4, WaitsFacts DEF Locks
  <2> QED BY ONLY IInv, LineInv, <2>1, <2>2, <2>3, <2>5, LineStep
<1>8. ASSUME NEW c \in Clients, StartReply(c) PROVE LineInv'
  <2>1. c \in Tasks /\ "psync" \in Places /\ "reply" \in Places /\ {} \in SUBSET Locks
    BY <1>0, WaitsFacts DEF Places, Locks
  <2>2. Goes(c, "psync", "reply") /\ (~ Waiting(c) \/ Holds(c, Waits["psync"]))
    BY <1>8, WaitsFacts DEF StartReply, Goes, Waiting
  <2>3. held' = [l \in Locks |-> IF l \in {} THEN Without(held[l], c) ELSE held[l]]
    BY <1>8 DEF Locks, StartReply, Drops, DropsBoth, IInv, TypeOK
  <2>4. queue' = queue /\ "reply" \notin DOMAIN Waits
    BY <1>8, WaitsFacts DEF StartReply
  <2> QED BY ONLY IInv, LineInv, <2>1, <2>2, <2>3, <2>4, LineStep
<1>9. ASSUME NEW c \in Clients, EndReply(c) PROVE LineInv'
  <2>1. c \in Tasks /\ "reply" \in Places /\ "countIn" \in Places /\ {"info"} \in SUBSET Locks
    BY <1>0, WaitsFacts DEF Places, Locks
  <2>2. Goes(c, "reply", "countIn") /\ (~ Waiting(c) \/ Holds(c, Waits["reply"]))
    BY <1>9, WaitsFacts DEF EndReply, Goes, Waiting
  <2>3. held' = [l \in Locks |-> IF l \in {"info"} THEN Without(held[l], c) ELSE held[l]]
    BY <1>9 DEF Locks, EndReply, Drops, DropsBoth, IInv, TypeOK
  <2>4. Writing(c) \in Ticket /\ Asks("count", Writing(c)) /\ Writing(c).task = c
        /\ Writing(c).mode = "write"
    BY <1>9, <2>1 DEF EndReply, Ticket, Writing
  <2>5. \E l \in Locks, ticket \in Ticket :
           /\ Asks(l, ticket) /\ ticket.task = c /\ Waits["countIn"] = l
           /\ l = "info" /\ ticket.mode = "write" => c = Link /\ "countIn" = "increment"
    BY <2>4, WaitsFacts DEF Locks
  <2> QED BY ONLY IInv, LineInv, <2>1, <2>2, <2>3, <2>5, LineStep
<1>10. ASSUME NEW c \in Clients, CountIn(c) PROVE LineInv'
  <2>1. c \in Tasks /\ "countIn" \in Places /\ "pipe" \in Places /\ {"count"} \in SUBSET Locks
    BY <1>0, WaitsFacts DEF Places, Locks
  <2>2. Goes(c, "countIn", "pipe") /\ (~ Waiting(c) \/ Holds(c, Waits["countIn"]))
    BY <1>10, WaitsFacts DEF CountIn, Goes, Waiting
  <2>3. held' = [l \in Locks |-> IF l \in {"count"} THEN Without(held[l], c) ELSE held[l]]
    BY <1>10 DEF Locks, CountIn, Drops, DropsBoth, IInv, TypeOK
  <2>4. queue' = queue /\ "pipe" \notin DOMAIN Waits
    BY <1>10, WaitsFacts DEF CountIn
  <2> QED BY ONLY IInv, LineInv, <2>1, <2>2, <2>3, <2>4, LineStep
<1>11. ASSUME NEW c \in Clients, Accept(c) PROVE LineInv'
  <2>1. c \in Tasks /\ "pipe" \in Places /\ "idle" \in Places /\ {} \in SUBSET Locks
    BY <1>0, WaitsFacts DEF Places, Locks
  <2>2. Goes(c, "pipe", "idle") /\ (~ Waiting(c) \/ Holds(c, Waits["pipe"]))
    BY <1>11, WaitsFacts DEF Accept, Goes, Waiting
  <2>3. held' = [l \in Locks |-> IF l \in {} THEN Without(held[l], c) ELSE held[l]]
    BY <1>11 DEF Locks, Accept, Drops, DropsBoth, IInv, TypeOK
  <2>4. queue' = queue /\ "idle" \notin DOMAIN Waits
    BY <1>11, WaitsFacts DEF Accept
  <2> QED BY ONLY IInv, LineInv, <2>1, <2>2, <2>3, <2>4, LineStep
<1>12. ASSUME NEW t \in Tasks, ReadRole(t) PROVE LineInv'
  <2> DEFINE q == IF t = Link THEN "increment" ELSE "idle"
  <2>1. "role" \in Places /\ q \in Places /\ {"info", "map"} \in SUBSET Locks
    BY WaitsFacts DEF Places, Locks
  <2>2. Goes(t, "role", q) /\ (~ Waiting(t) \/ Holds(t, Waits["role"]))
    BY <1>12, WaitsFacts DEF ReadRole, Waiting
  <2>3. held' = [l \in Locks |-> IF l \in {"info", "map"} THEN Without(held[l], t) ELSE held[l]]
    BY <1>12 DEF Locks, ReadRole, DropsBoth, IInv, TypeOK
  <2>4. \/ queue' = queue /\ q \notin DOMAIN Waits
        \/ \E l \in Locks, ticket \in Ticket :
             /\ Asks(l, ticket) /\ ticket.task = t /\ Waits[q] = l
             /\ l = "info" /\ ticket.mode = "write" => t = Link /\ q = "increment"
    <3>1. CASE t = Link
      <4>1. /\ Writing(t) \in Ticket /\ Asks("info", Writing(t)) /\ Writing(t).task = t
            /\ q = "increment"
        BY <1>12, <3>1 DEF ReadRole, Ticket, Writing
      <4> QED BY <3>1, <4>1, WaitsFacts DEF Locks
    <3>2. CASE t # Link
      BY <1>12, <3>2, WaitsFacts DEF ReadRole
    <3> QED BY <3>1, <3>2
  <2> HIDE DEF q
  <2> QED BY ONLY IInv, LineInv, <2>1, <2>2, <2>3, <2>4, LineStep
<1>13. ASSUME IncrementOffset PROVE LineInv'
  <2>1. "increment" \in Places /\ "idle" \in Places /\ {"info"} \in SUBSET Locks
    BY WaitsFacts DEF Places, Locks
  <2>2. Goes(Link, "increment", "idle") /\ (~ Waiting(Link) \/ Holds(Link, Waits["increment"]))
    BY <1>13, WaitsFacts DEF IncrementOffset, Waiting
  <2>3. held' = [l \in Locks |-> IF l \in {"info"} THEN Without(held[l], Link) ELSE held[l]]
    BY <1>13 DEF Locks, IncrementOffset, Drops, IInv, TypeOK
  <2>4. queue' = queue /\ "idle" \notin DOMAIN Waits
    BY <1>13, WaitsFacts DEF IncrementOffset
  <2> QED BY ONLY IInv, LineInv, <1>0, <2>1, <2>2, <2>3, <2>4, LineStep
<1> QED BY <1>1, <1>2, <1>3, <1>4, <1>5, <1>6, <1>7, <1>8, <1>9, <1>10, <1>11, <1>12, <1>13,
           LineGrant DEF Next, Ask, Proceed

LEMMA LineInvariant == Spec => [](IInv /\ LineInv)
<1>1. Init => LineInv
  <2> SUFFICES ASSUME Init PROVE LineInv
    OBVIOUS
  <2>1. Standing
    BY WaitsFacts DEF Init, Standing, Waiting, Tasks
  <2>2. Shared
    BY DEF Init, Shared, Locks
  <2> QED BY <2>1, <2>2 DEF LineInv
<1>2. IInv /\ LineInv /\ [Next]_vars => LineInv'
  <2>1. ASSUME LineInv, UNCHANGED vars PROVE LineInv'
    BY <2>1 DEF vars, LineInv, Standing, Shared, ByLink, Waiting, Holds, InQueue
  <2> QED BY <2>1, LineNext
<1> QED BY <1>1, <1>2, InitInductive, NextInductive, PTL DEF Spec

(* For any number of clients: whenever somebody waits, some lock lets the  *)
(* next one in or a task goes on, except behind a link that waits for a    *)
(* client to read its PSYNC answer (src/main.rs:272-294, 337-350, 434,     *)
(* 518-528).  Who holds SLAVES_COUNT waits for nothing; who holds          *)
(* REPLICATION_INFO waits for nothing but his client; who holds the map    *)
(* waits for one of these two.                                             *)
THEOREM NobodyIsStuck == Spec => []NobodyStuck
<1>1. ASSUME IInv, LineInv PROVE NobodyStuck
  <2> SUFFICES ASSUME NEW s \in Tasks, Waiting(s),
                      \A l \in Locks : ~ Admits(l),
                      \A t \in Tasks : Waiting(t) => ~ Holds(t, Waits[pc[t]])
               PROVE  pc[Link] = "increment" /\ \E c \in Clients : pc[c] = "reply"
    BY DEF NobodyStuck
  <2>1. ASSUME NEW l \in Locks, NEW t \in Tasks, Waiting(t), Waits[pc[t]] = l
        PROVE  /\ queue[l] # <<>> /\ Head(queue[l]) = queue[l][1]
               /\ 1 \in 1 .. Len(queue[l]) /\ held[l] # {}
    <3>1. InQueue(t, l)
      BY <1>1, <2>1 DEF LineInv, Standing
    <3>2. queue[l] \in Seq(Ticket) /\ Len(queue[l]) \in Nat
      BY <1>1 DEF IInv, TypeOK
    <3>3. queue[l] # <<>> /\ Len(queue[l]) >= 1 /\ Head(queue[l]) = queue[l][1]
      BY <3>1, <3>2 DEF InQueue
    <3>4. held[l] # {}
      BY <3>3 DEF Admits
    <3> QED BY <3>2, <3>3, <3>4
  <2>2. \A l \in Locks : \A ticket \in held[l] :
          /\ ticket.task \in Tasks /\ pc[ticket.task] \in MayHold[l]
          /\ Waiting(ticket.task) => Waits[pc[ticket.task]] # l
    <3> SUFFICES ASSUME NEW l \in Locks, NEW ticket \in held[l]
                 PROVE  /\ ticket.task \in Tasks /\ pc[ticket.task] \in MayHold[l]
                        /\ Waiting(ticket.task) => Waits[pc[ticket.task]] # l
      OBVIOUS
    <3>1. ticket.task \in Tasks
      BY <1>1 DEF IInv, TypeOK, Ticket
    <3>2. pc[ticket.task] \in MayHold[l]
      BY <1>1 DEF IInv, Guards
    <3>3. Holds(ticket.task, l)
      BY DEF Holds
    <3> QED BY <3>1, <3>2, <3>3
  <2>3. ASSUME NEW t \in Tasks, Waiting(t) PROVE Waits[pc[t]] # "count"
    <3> SUFFICES ASSUME Waits[pc[t]] = "count" PROVE FALSE
      OBVIOUS
    <3>1. PICK ticket \in held["count"] : TRUE
      BY <2>1, <2>3 DEF Locks
    <3> QED BY <2>2, <3>1, WaitsFacts, MayHoldFacts DEF Locks, Waiting
  <2>4. PICK t \in Tasks : Waiting(t) /\ Waits[pc[t]] = "info"
    <3>1. CASE Waits[pc[s]] = "info"
      BY <3>1
    <3>2. CASE Waits[pc[s]] = "map"
      <4>1. PICK ticket \in held["map"] : TRUE
        BY <2>1, <3>2 DEF Locks
      <4>2. /\ ticket.task \in Tasks /\ pc[ticket.task] \in {"map", "role", "count"}
            /\ Waiting(ticket.task) => Waits[pc[ticket.task]] # "map"
        BY <2>2, MayHoldFacts DEF Locks
      <4>3. pc[ticket.task] \in {"role", "count"} /\ Waiting(ticket.task)
        BY <4>2, WaitsFacts DEF Waiting
      <4> QED BY <2>3, <4>2, <4>3, WaitsFacts
    <3> QED BY <2>3, <3>1, <3>2, WaitsFacts DEF Locks, Waiting
  <2>5. /\ queue["info"] # <<>> /\ Head(queue["info"]) = queue["info"][1]
        /\ 1 \in 1 .. Len(queue["info"]) /\ held["info"] # {}
    BY <2>1, <2>4 DEF Locks
  <2>6. \A ticket \in held["info"] : ticket.task \in Tasks /\ pc[ticket.task] = "reply"
    BY <2>2, WaitsFacts, MayHoldFacts DEF Locks, Waiting
  <2>7. \A ticket \in held["info"] : ticket.mode = "read"
    <3>1. TAKE ticket \in held["info"]
    <3>2. ticket \in Ticket /\ ByLink(ticket)
      BY <1>1 DEF IInv, TypeOK, LineInv, Shared, Locks
    <3>3. ticket.mode \in {"read", "write"}
      BY <3>2 DEF Ticket
    <3> QED BY <2>6, <3>2, <3>3 DEF ByLink
  <2>8. Head(queue["info"]).mode = "write"
    <3>1. queue["info"][1] \in Ticket
      BY <1>1, <2>5 DEF IInv, TypeOK, Locks
    <3>2. queue["info"][1].mode \in {"read", "write"}
      BY <3>1 DEF Ticket
    <3> QED BY <2>5, <2>7, <3>2 DEF Admits, Locks
  <2>9. pc[Link] = "increment"
    BY <1>1, <2>5, <2>8 DEF LineInv, Shared, ByLink
  <2>10. PICK ticket \in held["info"] : pc[ticket.task] = "reply" /\ ticket.task \in Tasks
    BY <2>5, <2>6
  <2> QED BY <2>9, <2>10 DEF Tasks
<1> QED BY <1>1, LineInvariant, PTL
=============================================================================
