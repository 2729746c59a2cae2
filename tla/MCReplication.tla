---------------------------- MODULE MCReplication ----------------------------
(* Bounds for Replication: the SETs sent and the places where they are cut. *)
EXTENDS Replication

CONSTANTS ms, r1

Plain == [px |-> NoPx, stars |-> {}]
Dated == [px |-> ms, stars |-> {}]
Multiplied == [px |-> ms, stars |-> {3}]     \* a value like 2*3
EveryKind == {Plain, Dated, Multiplied}

(* Every cut in the line in front of the arguments, in front of and inside *)
(* the first word, and on both sides of the value's end, where a deadline  *)
(* is lost.                                                                *)
ManyCuts == {p \in Point : p[1] \in {0, 3, 4}} \cup {<<1, 0>>, <<1, 4>>}
=============================================================================
