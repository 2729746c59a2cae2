----------------------------- MODULE Databases ------------------------------
(***************************************************************************)
(* Admin (src/data.rs): the databases a server holds, made from the data   *)
(* sets of a snapshot, and the one that commands work on.  A database is a *)
(* reference to a map; two databases may hold the same reference.          *)
(***************************************************************************)
EXTENDS Integers, Sequences

CONSTANTS
  NoExpiry,
  Keys, Entries,   \* what SETs write: keys, and [val, exp]
  Indices          \* bound: the arguments of select_database

VARIABLES
  heap,        \* the maps, by the place they are at
  databases,   \* the place each database refers to; databases are counted from 0
  curIdx

Most(a, b) == IF a < b THEN b ELSE a
Numbers(sets) == 0 .. Most(Len(sets), 16) - 1

(* collect: of two pairs with one key the later one stays.                 *)
LastOf(pairs, k) ==
  pairs[CHOOSE i \in DOMAIN pairs :
          pairs[i].key = k /\ \A j \in DOMAIN pairs : pairs[j].key = k => j <= i]

AsMapForEver(pairs) ==
  [k \in {pairs[i].key : i \in DOMAIN pairs} |->
     [val |-> LastOf(pairs, k).val, exp |-> NoExpiry]]

AsMap(pairs) ==
  [k \in {pairs[i].key : i \in DOMAIN pairs} |->
     [val |-> LastOf(pairs, k).val, exp |-> LastOf(pairs, k).exp]]

(* vec![Database::default(); length] makes one map and refers to it        *)
(* length times; each data set then gets a map of its own.                 *)
Shared == 0
PlaceOfWritingThrough(sets, i) == Shared
PlaceOf(sets, i) == IF i < Len(sets) THEN i + 1 ELSE Shared

HeapOf(sets) ==
  [p \in {Shared} \cup {PlaceOf(sets, i) : i \in Numbers(sets)} |->
     IF p = Shared THEN <<>> ELSE AsMap(sets[p])]

References(sets) == [i \in Numbers(sets) |-> PlaceOf(sets, i)]

(* A number that no database has is ignored.                               *)
SelectUpToLength(i) ==
  /\ curIdx' = IF i - 1 \in DOMAIN databases \/ i = 0 THEN i ELSE curIdx
  /\ UNCHANGED <<heap, databases>>

SelectDatabase(i) ==
  /\ curIdx' = IF i \in DOMAIN databases THEN i ELSE curIdx
  /\ UNCHANGED <<heap, databases>>

(* A SET through get_string_data_map.                                      *)
GetStringDataMap == databases[curIdx]
Insert(k, entry) ==
  /\ heap' = [heap EXCEPT ![GetStringDataMap] =
                [x \in DOMAIN @ \cup {k} |-> IF x = k THEN entry ELSE @[x]]]
  /\ UNCHANGED <<databases, curIdx>>

Use ==
  \/ \E i \in Indices : SelectDatabase(i)
  \/ \E k \in Keys, entry \in Entries : Insert(k, entry)

Held(i) == heap[databases[i]]
=============================================================================
