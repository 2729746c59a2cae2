-------------------------------- MODULE Rdb ---------------------------------
(***************************************************************************)
(* The RDB format, from both sides: what decode_length, decode_string and  *)
(* parse_data (src/rdb_file_reader.rs) make of the bytes at a position,    *)
(* and the bytes with which Redis, whose files they are, writes a          *)
(* snapshot.  A text is the sequence of its UTF-8 bytes.                   *)
(***************************************************************************)
EXTENDS Integers, Sequences, SequencesExt

CONSTANT NoExpiry

Byte == 0 .. 255

(* A decoder returns a value and the position behind it, or an Err.        *)
Failed == [ok |-> FALSE]
Found(v, n) == [ok |-> TRUE, val |-> v, next |-> n]

(* The upper two bits of the first byte say how a length is written: six   *)
(* bits, fourteen bits, four bytes; 192 .. 194 announce a string that is a *)
(* number of one, two or four bytes, in the other byte order.              *)
Extra(b) ==
  IF b < 64 THEN 0
  ELSE IF b < 128 \/ b = 192 THEN 1
  ELSE IF b = 193 THEN 2 ELSE 4

Joined(high, low) == 256 * high + low

(* Four bytes, the greatest first; or the least first, below a high part.  *)
GreatestFirst(f, p) == Joined(Joined(Joined(f[p], f[p + 1]), f[p + 2]), f[p + 3])
LeastFirst(high, f, p) ==
  Joined(Joined(Joined(Joined(high, f[p + 3]), f[p + 2]), f[p + 1]), f[p])

LengthAt(f, p) ==
  LET b == f[p] IN
  IF b < 64       THEN b
  ELSE IF b < 128 THEN Joined(b - 64, f[p + 1])
  ELSE IF b < 192 THEN GreatestFirst(f, p + 1)
  ELSE IF b = 192 THEN f[p + 1]
  ELSE IF b = 193 THEN Joined(f[p + 2], f[p + 1])
  ELSE                 LeastFirst(0, f, p + 1)

DecodeLengthUnswapped(f, p) ==
  IF p > Len(f) \/ f[p] > 194 \/ p + Extra(f[p]) > Len(f) THEN Failed
  ELSE Found(IF f[p] = 193 THEN Joined(f[p + 1], f[p + 2]) ELSE LengthAt(f, p),
             p + Extra(f[p]) + 1)

DecodeLength(f, p) ==
  IF p > Len(f) \/ f[p] > 194 \/ p + Extra(f[p]) > Len(f) THEN Failed
  ELSE Found(LengthAt(f, p), p + Extra(f[p]) + 1)

(* format!("{}", n), and a byte pushed as a char: one of 128 or more takes *)
(* two bytes in UTF-8.                                                     *)
Decimal(n) ==
  LET digits == CHOOSE d \in 1 .. 10 : n < 10 ^ d /\ (d = 1 \/ n >= 10 ^ (d - 1))
  IN  [i \in 1 .. digits |-> 48 + ((n \div 10 ^ (digits - i)) % 10)]

AsChars(text) ==
  LET first(c) == IF c < 128 THEN c ELSE 192 + (c \div 64)
      second(c) == IF c < 128 THEN -1 ELSE 128 + (c % 64)
  IN  SelectSeq([n \in 1 .. 2 * Len(text) |->
                   IF n % 2 = 1 THEN first(text[(n + 1) \div 2]) ELSE second(text[n \div 2])],
                LAMBDA c : c >= 0)

DecodeString(f, p) ==
  LET length == DecodeLength(f, p)
      last == length.next + length.val - 1
  IN  IF ~ length.ok THEN Failed
      ELSE IF f[p] >= 192 THEN Found(Decimal(length.val), length.next)
      ELSE IF last > Len(f) THEN Failed
      ELSE Found(AsChars(SubSeq(f, length.next, last)), last + 1)

TwoStrings(f, p) ==
  LET first == DecodeString(f, p)
      second == DecodeString(f, first.next)
  IN  IF ~ first.ok THEN Failed
      ELSE IF ~ second.ok THEN Failed
      ELSE Found(<<first.val, second.val>>, second.next)

(* Only the type 0, a string, is supported.                                *)
ParseData(f, p) ==
  IF p > Len(f) THEN Failed
  ELSE IF f[p] # 0 THEN Failed ELSE TwoStrings(f, p + 1)

(* A pair has in front of it a deadline in seconds (FD), in milliseconds   *)
(* (FC), or none.                                                          *)
Stamped(f, p) == IF f[p] = 253 THEN 4 ELSE IF f[p] = 252 THEN 8 ELSE 0
Expiration(f, p) ==
  CASE Stamped(f, p) = 4 -> 1000 * LeastFirst(0, f, p + 1)
    [] Stamped(f, p) = 8 -> LeastFirst(LeastFirst(0, f, p + 5), f, p + 1)
    [] Stamped(f, p) = 0 -> NoExpiry

ReadPair(f, p) ==
  IF p > Len(f) THEN Failed
  ELSE LET data == ParseData(f, IF Stamped(f, p) = 0 THEN p ELSE p + Stamped(f, p) + 1)
       IN  IF ~ data.ok THEN Failed
           ELSE Found([key |-> data.val[1], val |-> data.val[2], exp |-> Expiration(f, p)],
                      data.next)

-----------------------------------------------------------------------------
(* How Redis writes the strings of a snapshot: a text with its length in   *)
(* one of three forms, a number in two's complement, or compressed.        *)
Raw(text) == [enc |-> "raw", form |-> 6, text |-> text]
Num(n, width) == [enc |-> "int", n |-> n, width |-> width]
Lzf == [enc |-> "lzf"]

(* A number in four or eight bytes, the least first.                       *)
Above(n) == ((n \div 256) \div 256) \div 256
FourBytes(n) ==
  <<n % 256, (n \div 256) % 256, ((n \div 256) \div 256) % 256, Above(n) % 256>>
High(n) == Above(n) \div 256
EightBytes(n) == FourBytes(n) \o FourBytes(High(n))

LengthBytes(n, form) ==
  CASE form = 6  -> <<n>>
    [] form = 14 -> <<64 + (n \div 256), n % 256>>
    [] form = 32 -> LET b == FourBytes(n) IN <<128, b[4], b[3], b[2], b[1]>>

NumberBytes(n, width) ==
  CASE width = 1 -> <<192, n % 256>>
    [] width = 2 -> <<193, n % 256, (n \div 256) % 256>>
    [] width = 4 -> <<194>> \o FourBytes(n)

StringBytes(s) ==
  CASE s.enc = "raw" -> LengthBytes(Len(s.text), s.form) \o s.text
    [] s.enc = "int" -> NumberBytes(s.n, s.width)
    [] s.enc = "lzf" -> <<195, 2, 5, 97, 97>>

(* A deadline is [unit, n]; the type is 0 for a string, 1 for a list.      *)
StampBytes(exp) ==
  CASE exp.unit = "s"    -> <<253>> \o FourBytes(exp.n)
    [] exp.unit = "ms"   -> <<252>> \o EightBytes(exp.n)
    [] exp.unit = "none" -> <<>>
PairBytes(pair) ==
  StampBytes(pair.exp) \o <<pair.type>> \o StringBytes(pair.key) \o StringBytes(pair.val)

(* A database has a number, and from version 7 on the sizes of its tables: *)
(* all keys, and those with a deadline.                                    *)
SizeBytes(n) == LengthBytes(n, IF n < 64 THEN 6 ELSE IF n < 64 * 256 THEN 14 ELSE 32)
WithDeadline(ps) == {i \in DOMAIN ps : ps[i].exp.unit # "none"}
TableBytes(ps) == <<251>> \o SizeBytes(Len(ps)) \o SizeBytes(Cardinality(WithDeadline(ps)))
SetHeader(set) ==
  <<254>> \o SizeBytes(set.db) \o (IF set.sized THEN TableBytes(set.pairs) ELSE <<>>)
SetBytes(set) ==
  SetHeader(set) \o FlattenSeq([i \in DOMAIN set.pairs |-> PairBytes(set.pairs[i])])

Magic == <<82, 69, 68, 73, 83>>
Version == <<48, 48, 49, 49>>

AuxBytes(field) == <<250>> \o StringBytes(field[1]) \o StringBytes(field[2])

(* The part of a file that the reader looks at; a checksum follows it.     *)
Body(snapshot) ==
  Magic \o Version
  \o FlattenSeq([i \in DOMAIN snapshot.aux |-> AuxBytes(snapshot.aux[i])])
  \o FlattenSeq([i \in DOMAIN snapshot.sets |-> SetBytes(snapshot.sets[i])])
  \o <<255>>

CheckSum == <<1, 2, 3, 4, 5, 6, 7, 8>>
File(snapshot) == Body(snapshot) \o CheckSum

(* What Redis may have to write: lengths that fit their form, numbers that *)
(* fit their width; the codes of types lie below those of the marks.       *)
Fits(n, form) ==
  \/ form = 6 /\ n < 64
  \/ form = 14 /\ n < 64 * 256
  \/ form = 32 /\ High(n) = 0
SignedByte(b) == b + 128 \in 0 .. 255
FitsSigned(n, width) ==
  \/ width = 1 /\ SignedByte(n)
  \/ width = 2 /\ SignedByte(n \div 256)
  \/ width = 4 /\ SignedByte(Above(n))
IsString(s) ==
  CASE s.enc = "raw" -> s.text \in Seq(Byte) /\ Fits(Len(s.text), s.form)
    [] s.enc = "int" -> s.n \in Int /\ FitsSigned(s.n, s.width)
    [] OTHER -> s.enc = "lzf"
IsDeadline(exp) ==
  \/ exp.unit = "none"
  \/ exp.unit = "s" /\ exp.n \in Nat /\ High(exp.n) = 0
  \/ exp.unit = "ms" /\ exp.n \in Nat /\ High(High(exp.n)) = 0
IsPair(pair) ==
  IsDeadline(pair.exp) /\ pair.type \in 0 .. 243 /\ IsString(pair.key) /\ IsString(pair.val)
IsSet(set) ==
  /\ set.db \in Nat /\ High(set.db) = 0
  /\ set.sized \in BOOLEAN
  /\ set.pairs \in Seq(Range(set.pairs)) /\ High(Len(set.pairs)) = 0
  /\ \A i \in DOMAIN set.pairs : IsPair(set.pairs[i])
IsSnapshot(s) ==
  /\ s.aux \in Seq(Range(s.aux))
  /\ \A i \in DOMAIN s.aux : IsString(s.aux[i][1]) /\ IsString(s.aux[i][2])
  /\ s.sets \in Seq(Range(s.sets))
  /\ \A i \in DOMAIN s.sets : IsSet(s.sets[i])

(* What a snapshot says, in the reader's terms.  A number written as such  *)
(* is taken for unsigned, and a byte of a text for a character.            *)
Modulus(width) ==
  CASE width = 1 -> 256 [] width = 2 -> 256 * 256 [] width = 4 -> 256 * (256 * (256 * 256))
Meaning(s) ==
  IF s.enc = "raw" THEN AsChars(s.text)
  ELSE Decimal(IF s.n < 0 THEN s.n + Modulus(s.width) ELSE s.n)
MeaningOfExp(exp) ==
  CASE exp.unit = "s" -> 1000 * exp.n [] exp.unit = "ms" -> exp.n [] exp.unit = "none" -> NoExpiry
MeaningOfPair(pair) ==
  [key |-> Meaning(pair.key), val |-> Meaning(pair.val), exp |-> MeaningOfExp(pair.exp)]

(* What the reader knows: texts and numbers, no other types.               *)
Known(s) == s.enc # "lzf"
KnownPair(pair) == pair.type = 0 /\ Known(pair.key) /\ Known(pair.val)
=============================================================================
