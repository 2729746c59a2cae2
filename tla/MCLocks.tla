------------------------------ MODULE MCLocks -------------------------------
(* Bounds for Locks: three clients beside the link.                        *)
EXTENDS Locks, TLC
CONSTANTS c1, c2, c3
=============================================================================
