------------------------------ MODULE Keyspace ------------------------------
(***************************************************************************)
(* The in-memory string map of Rusdis (src/data.rs) and what one command   *)
(* of execute_multi_commands (src/main.rs) does to it: constant operators, *)
(* shared by every module that holds a map.                                *)
(*                                                                         *)
(* A stored string is either a number that `parse::<i64>()` accepts, kept  *)
(* as that number, or Text, any string it refuses.  A KEYS pattern is the  *)
(* set of keys its regular expression matches.                             *)
(*                                                                         *)
(* BumpUnchecked and AfterIncrReplacing are slips of the operator each of  *)
(* them precedes; nothing uses them.                                       *)
(***************************************************************************)
EXTENDS Integers, Sequences

CONSTANTS
  Keys,       \* the keys clients use
  Text,       \* a stored string that is not an i64
  IntMax,     \* i64::MAX
  ClockMax,   \* the last instant a SystemTime can hold
  NoEntry,    \* the key is absent
  Never,      \* expiration = None
  NoPx        \* a SET without PX

ASSUME KeyspaceAssumption ==
  /\ IntMax \in Nat \ {0}
  /\ ClockMax \in Nat
  /\ Text \notin Int
  /\ Never \notin Int
  /\ NoPx \notin Int
  /\ NoEntry \notin [val : Int \cup {Text}, exp : Nat \cup {Never}]

Values == 0 .. IntMax \cup {Text}
Instants == Nat \cup {Never}
Entry == [val : Values, exp : Instants]
Data == [Keys -> Entry \cup {NoEntry}]

-----------------------------------------------------------------------------
(* The commands execute_multi_commands distinguishes.  PING stands for     *)
(* every command with one constant reply (PING, ECHO, CONFIG GET, INFO     *)
(* REPLICATION, REPLCONF LISTENING-PORT and CAPA); INFO is an INFO without *)
(* a section, whose `cnt -= 1` starts from 0; ACK is REPLCONF ACK, the only*)
(* command whose arm appends nothing to the reply; BADKEYS is a KEYS whose *)
(* pattern Regex::new rejects.                                             *)
SetCommand == [op : {"SET"}, key : Keys, val : Values, px : Nat \cup {NoPx}]
KeyCommand == [op : {"GET", "INCR"}, key : Keys]
KeysCommand == [op : {"KEYS"}, match : SUBSET Keys]
PlainCommand == [op : {"PING", "INFO", "ACK", "BADKEYS"}]
Command == SetCommand \cup KeyCommand \cup KeysCommand \cup PlainCommand

(* Torn is an error that does not end its line, Garbled the bulk string   *)
(* without an end that an INFO without a section leaves.                   *)
Ok == <<"ok">>
Nil == <<"nil">>
Err == <<"err">>
Torn == <<"torn">>
Garbled == <<"garbled">>
Bulk(v) == <<"bulk", v>>
Number(n) == <<"int", n>>
KeyList(S) == <<"keys", S>>

Reply ==
  {Ok, Nil, Err, Torn, Garbled} \cup {Bulk(v) : v \in Values}
    \cup {Number(n) : n \in 0 .. IntMax} \cup {KeyList(S) : S \in SUBSET Keys}

(* What a SET becomes on the replication feed (generate_resp).             *)
Message == [key : Keys, val : Values, px : Nat \cup {NoPx}]
AsMessage(cmd) == [key |-> cmd.key, val |-> cmd.val, px |-> cmd.px]

-----------------------------------------------------------------------------
(* StringData::is_expired: a deadline counts as passed at the very instant *)
(* it names.                                                               *)
IsExpired(e, now) == e.exp # Never /\ now >= e.exp

Live(d, k, now) == d[k] # NoEntry /\ ~ IsExpired(d[k], now)

(* SET: `now.checked_add(px)`, which is None past ClockMax.                *)
CannotExpire(px, now) == px # NoPx /\ now + px > ClockMax
Deadline(px, now) == IF px = NoPx THEN Never ELSE now + px

AfterSet(d, cmd, exp) == [d EXCEPT ![cmd.key] = [val |-> cmd.val, exp |-> exp]]

(* GET is the only command that looks at the deadline, and it removes an   *)
(* entry it finds expired.                                                 *)
AfterGet(d, k, now) ==
  IF d[k] # NoEntry /\ IsExpired(d[k], now) THEN [d EXCEPT ![k] = NoEntry] ELSE d

GetReply(d, k, now) == IF Live(d, k, now) THEN Bulk(d[k].val) ELSE Nil

(* INCR: `entry(key).or_insert("0", None)`, saturating at i64::MAX, keeping *)
(* the deadline of an entry that exists, expired or not.                    *)
OrZero(e) == IF e = NoEntry THEN [val |-> 0, exp |-> Never] ELSE e
BumpUnchecked(n) == n + 1
Bump(n) == IF n < IntMax THEN n + 1 ELSE n

AfterIncrReplacing(d, k) ==
  IF OrZero(d[k]).val = Text
    THEN d
    ELSE [d EXCEPT ![k] = [val |-> Bump(OrZero(d[k]).val), exp |-> Never]]

AfterIncr(d, k) ==
  IF OrZero(d[k]).val = Text
    THEN d
    ELSE [d EXCEPT ![k] = [val |-> Bump(OrZero(d[k]).val), exp |-> OrZero(d[k]).exp]]

IncrReply(d, k) ==
  IF OrZero(d[k]).val = Text THEN Err ELSE Number(Bump(OrZero(d[k]).val))

(* KEYS lists what the map holds, expired entries included.                *)
KeysReply(d, match) == KeyList({k \in match : d[k] # NoEntry})
=============================================================================
