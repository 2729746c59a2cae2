------------------------------ MODULE Preload -------------------------------
(***************************************************************************)
(* How a server comes by its data (src/main.rs:104-136): the snapshot file *)
(* is read, and if it can be read, ADMIN is replaced by one that holds its *)
(* data sets.  RdbReader and Databases composed.                           *)
(***************************************************************************)
EXTENDS RdbReader

CONSTANTS Keys, Entries, Indices   \* of Databases

VARIABLES
  heap, databases, curIdx,   \* ADMIN: as in Databases
  loaded                     \* the data sets ADMIN was made from

Admin == INSTANCE Databases
admin == <<heap, databases, curIdx, loaded>>
all == <<vars, admin>>

PreloadInit ==
  /\ Init
  /\ loaded = <<>>
  /\ heap = Admin!HeapOf(loaded)
  /\ databases = Admin!References(loaded)
  /\ curIdx = 0

(* What cannot be read is reported and ignored.                            *)
ReplaceAdmin ==
  /\ phase = "ok" /\ loaded = <<>> /\ datasets # <<>>
  /\ loaded' = datasets
  /\ heap' = Admin!HeapOf(datasets)
  /\ databases' = Admin!References(datasets)
  /\ curIdx' = 0
  /\ UNCHANGED vars

(* What callers of Admin do once main has come to its listener.  Clients   *)
(* cannot select a database: only the unit test does.                      *)
Serve ==
  /\ phase = "failed" \/ (phase = "ok" /\ loaded = datasets)
  /\ Admin!Use
  /\ UNCHANGED <<vars, loaded>>

PreloadNext ==
  \/ Next /\ UNCHANGED admin
  \/ ReplaceAdmin
  \/ Serve

PreloadSpec == PreloadInit /\ [][PreloadNext]_all

-----------------------------------------------------------------------------
Databases == DOMAIN databases
Filled(i) == i < Len(loaded)

(* src/data.rs:127-136: whatever is selected, the database that commands   *)
(* index exists and refers to a map; nothing is out of bounds.             *)
CurrentExists == curIdx \in Databases /\ databases[curIdx] \in DOMAIN heap

(* src/data.rs:98-119: the databases that the snapshot filled share their  *)
(* map with no other; a write through one database shows in another only   *)
(* if both came up empty, and those all share one map.                     *)
WritesStayApart ==
  [][UNCHANGED loaded =>
       \A i \in Databases :
         Admin!Held(i)' # Admin!Held(i) =>
           i = curIdx \/ (~ Filled(i) /\ ~ Filled(curIdx))]_all

(* src/main.rs:113-132 and src/data.rs:96-125, from the file to the maps:  *)
(* what a database holds that no client wrote is what the snapshot says,   *)
(* value and deadline, and all of it unless a client overwrote it; a       *)
(* snapshot that cannot be read leaves nothing behind.  Of two pairs whose *)
(* keys read the same, the later one counts: the number -3 and the text    *)
(* 253 do.                                                                 *)
Entry(pair) == [val |-> MeaningOfPair(pair).val, exp |-> MeaningOfPair(pair).exp]
Says(i, k, entry) ==
  /\ i < Len(written.sets)
  /\ \E j \in DOMAIN written.sets[i + 1].pairs :
       LET pair == written.sets[i + 1].pairs[j]
       IN  Meaning(pair.key) = k /\ Entry(pair) = entry
Counts(ps, j) ==
  \A n \in DOMAIN ps : Meaning(ps[n].key) = Meaning(ps[j].key) => n <= j

Preloaded ==
  Sized =>
    /\ \A i \in Databases : \A k \in DOMAIN Admin!Held(i) :
         Admin!Held(i)[k] \notin Entries =>
           phase = "ok" /\ Says(i, k, Admin!Held(i)[k])
    /\ loaded # <<>> =>
         \A i \in DOMAIN written.sets : \A j \in DOMAIN written.sets[i].pairs :
           LET k == Meaning(written.sets[i].pairs[j].key)
           IN  Counts(written.sets[i].pairs, j) =>
                 /\ k \in DOMAIN Admin!Held(i - 1)
                 /\ \/ Admin!Held(i - 1)[k] = Entry(written.sets[i].pairs[j])
                    \/ k \in Keys /\ Admin!Held(i - 1)[k] \in Entries
=============================================================================
