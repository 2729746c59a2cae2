-------------------------------- MODULE Relay --------------------------------
(***************************************************************************)
(* What replication promises, and no more: a replica executes SETs of the  *)
(* master's feed in the order of the feed, each at most once.  It may miss *)
(* some, it may lose the deadline of some, and a replica that reads a      *)
(* snapshot from disk forgets what it had executed.                        *)
(***************************************************************************)
EXTENDS Integers, Sequences

CONSTANTS Replicas, Messages, NoPx

VARIABLES
  feed,       \* the SETs the master replicates
  copy,       \* what each replica has executed since its last snapshot
  frontier    \* how far in the feed each replica is

vars == <<feed, copy, frontier>>

Init ==
  /\ feed = <<>>
  /\ copy = [r \in Replicas |-> <<>>]
  /\ frontier = [r \in Replicas |-> 0]

Publish ==
  /\ \E m \in Messages : feed' = Append(feed, m)
  /\ UNCHANGED <<copy, frontier>>

Execute(r) ==
  \E i \in frontier[r] + 1 .. Len(feed), whole \in BOOLEAN :
    /\ whole \/ feed[i].px # NoPx
    /\ copy' = [copy EXCEPT ![r] = Append(@, [msg |-> i, whole |-> whole])]
    /\ frontier' = [frontier EXCEPT ![r] = i]
    /\ UNCHANGED feed

Reload(r) ==
  /\ copy' = [copy EXCEPT ![r] = <<>>]
  /\ UNCHANGED <<feed, frontier>>

Next == Publish \/ \E r \in Replicas : Execute(r) \/ Reload(r)
Spec == Init /\ [][Next]_vars
=============================================================================
