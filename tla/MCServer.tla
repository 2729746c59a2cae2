------------------------------ MODULE MCServer ------------------------------
(* Instances of Server for TLC.                                            *)
EXTENDS Server

CONSTANTS k1, k2

Set(k, v, px) == [op |-> "SET", key |-> k, val |-> v, px |-> px]
OnKey(op, k) == [op |-> op, key |-> k]
Match(S) == [op |-> "KEYS", match |-> S]
Plainly(op) == [op |-> op]

Empty == [k \in Keys |-> NoEntry]

(* From an RDB file: k1 holds a number that expires at instant 1.          *)
Expiring == [Empty EXCEPT ![k1] = [val |-> 1, exp |-> 1]]
Wordy == [Empty EXCEPT ![k1] = [val |-> Text, exp |-> Never]]

NothingLoaded == {Empty}
SomethingLoaded == {Empty, Expiring, Wordy}

(* Every kind of command on one key; the deadline of the last SET is one   *)
(* the clock cannot hold.                                                  *)
EveryKind ==
  {Set(k1, 2, NoPx), Set(k1, 1, 1), Set(k1, 1, ClockMax + 1),
   OnKey("GET", k1), OnKey("INCR", k1),
   Match({k1}), Plainly("BADKEYS"), Plainly("PING"), Plainly("INFO"), Plainly("ACK")}

(* Writers only, to drive the feed: two keys, two values, a time to live.  *)
Writes == {Set(k1, 1, NoPx), Set(k1, 2, NoPx), Set(k2, 1, 1)}

(* For transactions: two commands that do not commute, and every way in    *)
(* which a command of a batch can fail and the batch go on; whether the    *)
(* second SET does depends on the clock.                                   *)
SomeFailing ==
  {Set(k1, Text, NoPx), OnKey("INCR", k1), Set(k1, 1, ClockMax), Plainly("BADKEYS")}
=============================================================================
