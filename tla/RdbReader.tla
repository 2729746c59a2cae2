----------------------------- MODULE RdbReader ------------------------------
(***************************************************************************)
(* read_rdb (src/rdb_file_reader.rs): one step per turn of its loop, and   *)
(* per pair of a data set.  The file is one that Redis wrote, whole or cut *)
(* short by a crash or a full disk.                                        *)
(***************************************************************************)
EXTENDS Rdb

CONSTANT Snapshots     \* what was written: [aux, sets]

ASSUME SnapshotsAreRedis == \A s \in Snapshots : IsSnapshot(s)

VARIABLES
  written,   \* the snapshot,
  bytes,     \* and as much of its file as there is
  phase,     \* header, metadata, database, pairs, checksum; at the end ok or failed
  pos,       \* the next byte
  aux,       \* aux_fields
  datasets,  \* the data sets read, each a sequence of pairs
  pairs,     \* the data set being read,
  left       \* and how many pairs it still lacks

vars == <<written, bytes, phase, pos, aux, datasets, pairs, left>>

Phases == {"header", "metadata", "database", "pairs", "checksum", "ok", "failed"}

TypeOK ==
  /\ bytes \in Seq(Byte)
  /\ phase \in Phases
  /\ pos \in 1 .. Len(bytes) + 1
  /\ left \in Nat
  /\ phase = "pairs" <=> left > 0

Init ==
  /\ written \in Snapshots
  /\ \E n \in 0 .. Len(File(written)) : bytes = SubSeq(File(written), 1, n)
  /\ phase = "header"
  /\ pos = 1
  /\ aux = <<>> /\ datasets = <<>> /\ pairs = <<>> /\ left = 0

Here(b) == pos <= Len(bytes) /\ bytes[pos] = b

Refuse ==
  /\ phase' = "failed"
  /\ left' = 0
  /\ UNCHANGED <<written, bytes, pos, aux, datasets, pairs>>

ReadHeaderWithoutVersion ==
  /\ phase = "header"
  /\ IF Len(bytes) >= 5 /\ SubSeq(bytes, 1, 5) = Magic
       THEN /\ phase' = "metadata"
            /\ pos' = 10
            /\ UNCHANGED <<written, bytes, aux, datasets, pairs, left>>
       ELSE Refuse

ReadHeader ==
  /\ phase = "header"
  /\ IF Len(bytes) >= 9 /\ SubSeq(bytes, 1, 5) = Magic
       THEN /\ phase' = "metadata"
            /\ pos' = 10
            /\ UNCHANGED <<written, bytes, aux, datasets, pairs, left>>
       ELSE Refuse

AuxFieldAgain ==
  LET field == TwoStrings(bytes, pos + 1) IN
  /\ phase = "metadata" /\ Here(250)
  /\ IF field.ok
       THEN /\ aux' = Append(aux, field.val)
            /\ UNCHANGED <<written, bytes, phase, pos, datasets, pairs, left>>
       ELSE Refuse

AuxField ==
  LET field == TwoStrings(bytes, pos + 1) IN
  /\ phase = "metadata" /\ Here(250)
  /\ IF field.ok
       THEN /\ aux' = Append(aux, field.val)
            /\ pos' = field.next
            /\ UNCHANGED <<written, bytes, phase, datasets, pairs, left>>
       ELSE Refuse

(* The flag is only looked at; the next turn takes it.                     *)
EndMetadata ==
  /\ phase = "metadata" /\ (Here(254) \/ Here(255))
  /\ phase' = IF Here(254) THEN "database" ELSE "checksum"
  /\ UNCHANGED <<written, bytes, pos, aux, datasets, pairs, left>>

(* The pairs read so far, and how many the data set still lacks.           *)
Collect(read, n) ==
  /\ left' = n
  /\ pairs' = IF n = 0 THEN <<>> ELSE read
  /\ datasets' = IF n = 0 THEN Append(datasets, read) ELSE datasets
  /\ phase' = IF n = 0 THEN "database" ELSE "pairs"

Larger(a, b) == IF a < b THEN b ELSE a

(* The number of the database is read and dropped, and the byte behind it  *)
(* skipped, whatever it is.                                                *)
SizesSummed(p) ==
  LET index == DecodeLength(bytes, p)
      normal == DecodeLength(bytes, index.next + 1)
      expiry == DecodeLength(bytes, normal.next)
  IN  IF ~ index.ok THEN Failed
      ELSE IF ~ normal.ok THEN Failed
      ELSE IF ~ expiry.ok THEN Failed
      ELSE Found(normal.val + expiry.val, expiry.next)

Sizes(p) ==
  LET index == DecodeLength(bytes, p)
      normal == DecodeLength(bytes, index.next + 1)
      expiry == DecodeLength(bytes, normal.next)
  IN  IF ~ index.ok THEN Failed
      ELSE IF ~ normal.ok THEN Failed
      ELSE IF ~ expiry.ok THEN Failed
      ELSE Found(Larger(normal.val, expiry.val), expiry.next)

SelectDb ==
  LET sizes == Sizes(pos + 1) IN
  /\ phase = "database" /\ Here(254)
  /\ IF sizes.ok
       THEN /\ pos' = sizes.next
            /\ Collect(<<>>, sizes.val)
            /\ UNCHANGED <<written, bytes, aux>>
       ELSE Refuse

TakePair ==
  LET pair == ReadPair(bytes, pos) IN
  /\ phase = "pairs"
  /\ IF pair.ok
       THEN /\ pos' = pair.next
            /\ Collect(Append(pairs, pair.val), left - 1)
            /\ UNCHANGED <<written, bytes, aux>>
       ELSE Refuse

EndDatabases ==
  /\ phase = "database" /\ Here(255)
  /\ phase' = "checksum"
  /\ UNCHANGED <<written, bytes, pos, aux, datasets, pairs, left>>

(* A flag that is none of these, or the end of the file.                   *)
Unexpected ==
  /\ \/ phase = "metadata" /\ ~ Here(250)
     \/ phase = "database"
  /\ ~ Here(254) /\ ~ Here(255)
  /\ Refuse

(* The checksum is not looked at.                                          *)
Finish ==
  /\ phase = "checksum"
  /\ phase' = "ok"
  /\ UNCHANGED <<written, bytes, pos, aux, datasets, pairs, left>>

Next ==
  \/ ReadHeader \/ AuxField \/ EndMetadata \/ SelectDb \/ TakePair
  \/ EndDatabases \/ Unexpected \/ Finish

Spec == Init /\ [][Next]_vars

-----------------------------------------------------------------------------
(* What the reader should make of the file, and can.                       *)
Contents ==
  [i \in DOMAIN written.sets |->
     [j \in DOMAIN written.sets[i].pairs |-> MeaningOfPair(written.sets[i].pairs[j])]]

(* The reader cannot tell a database that has no sizes, as before version  *)
(* 7.                                                                      *)
Understood ==
  /\ \A i \in DOMAIN written.aux : Known(written.aux[i][1]) /\ Known(written.aux[i][2])
  /\ \A i \in DOMAIN written.sets : \A j \in DOMAIN written.sets[i].pairs :
       KnownPair(written.sets[i].pairs[j])
Sized == \A i \in DOMAIN written.sets : written.sets[i].sized

Whole == Len(bytes) >= Len(Body(written))

(* src/rdb_file_reader.rs:38-226: a file is taken for a snapshot only if   *)
(* all of it up to the end mark is there and understood, and then the data *)
(* sets are those written, in their order, each key with its own value and *)
(* deadline.  A file that was cut short anywhere, in a string, a length or *)
(* a timestamp, never passes for a smaller snapshot.                       *)
AllOrNothing ==
  phase = "ok" /\ Sized => Whole /\ Understood /\ datasets = Contents

(* src/rdb_file_reader.rs:38-226, the other way round: a whole file with   *)
(* nothing but strings in it is never refused, whatever forms its lengths  *)
(* have.                                                                   *)
RefusedForAReason == phase = "failed" => ~ Whole \/ ~ Understood \/ ~ Sized

(* src/rdb_file_reader.rs:51-219: each turn of the loop takes at least one *)
(* byte, or goes on to a later phase from which none leads back; flags     *)
(* that are only looked at cannot keep it turning.                         *)
Rank ==
  CASE phase = "header" -> 0 [] phase = "metadata" -> 1 [] phase \in {"database", "pairs"} -> 2
    [] phase = "checksum" -> 3 [] phase \in {"ok", "failed"} -> 4
TurnsAdvance == [][Rank' > Rank \/ (Rank' = Rank /\ pos' > pos)]_vars
=============================================================================
