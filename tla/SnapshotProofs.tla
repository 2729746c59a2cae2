--------------------------- MODULE SnapshotProofs ---------------------------
(***************************************************************************)
(* First the RDB format: where in a file the parts are that Redis wrote    *)
(* one after the other, and what the decoders make of each of them.  Then  *)
(* read_rdb on every sequence of bytes, not only on those Redis writes: it *)
(* never leaves the file, and it comes to an end.  Then read_rdb on what   *)
(* Redis writes, whole or cut: it reads what was written, all of it or     *)
(* nothing.  Progress says how far it has come.  Last the databases that   *)
(* are made of it.                                                         *)
(***************************************************************************)
EXTENDS Preload, SequenceProofs

LEMMA ByteIsNat == \A b \in Byte : b \in Nat /\ b \in Int /\ b <= 255
BY DEF Byte

(* Numbers and their bytes.                                                *)
LEMMA Digits ==
  ASSUME NEW n \in Int
  PROVE  /\ n % 256 \in Byte /\ n \div 256 \in Int
         /\ n = Joined(n \div 256, n % 256)
BY DEF Byte, Joined

LEMMA FourBytesFacts ==
  ASSUME NEW n \in Int
  PROVE  /\ FourBytes(n) \in Seq(Byte) /\ Len(FourBytes(n)) = 4
         /\ \A i \in 1 .. 4 : FourBytes(n)[i] \in Int
         /\ High(n) \in Int
         /\ n = Joined(Joined(Joined(Joined(High(n), FourBytes(n)[4]), FourBytes(n)[3]),
                              FourBytes(n)[2]), FourBytes(n)[1])
<1> DEFINE a == n \div 256
           b == a \div 256
           c == b \div 256
           d == c \div 256
<1>1. a \in Int /\ b \in Int /\ c \in Int /\ d \in Int
  OBVIOUS
<1>2. Above(n) = c /\ High(n) = d
  BY DEF High, Above
<1>3. /\ n % 256 \in Byte /\ a % 256 \in Byte /\ b % 256 \in Byte /\ c % 256 \in Byte
      /\ n = Joined(a, n % 256) /\ a = Joined(b, a % 256)
      /\ b = Joined(c, b % 256) /\ c = Joined(d, c % 256)
  <2>1. /\ n % 256 \in Byte /\ n = Joined(a, n % 256)
        /\ a % 256 \in Byte /\ a = Joined(b, a % 256)
    BY <1>1, Digits, ZenonT(60)
  <2> HIDE DEF a, b
  <2>2. /\ b % 256 \in Byte /\ b = Joined(c, b % 256)
        /\ c % 256 \in Byte /\ c = Joined(d, c % 256)
    BY <1>1, Digits, ZenonT(60)
  <2> QED BY <2>1, <2>2
<1>4. FourBytes(n) = <<n % 256, a % 256, b % 256, c % 256>>
  BY <1>2 DEF FourBytes
<1> HIDE DEF a, b, c, d
<1>5. FourBytes(n) \in Seq(Byte) /\ Len(FourBytes(n)) = 4
  BY <1>3, <1>4
<1>6. /\ FourBytes(n)[1] = n % 256 /\ FourBytes(n)[2] = a % 256
      /\ FourBytes(n)[3] = b % 256 /\ FourBytes(n)[4] = c % 256
  BY <1>4
<1>7. \A i \in 1 .. 4 : FourBytes(n)[i] \in Int
  BY <1>3, <1>6 DEF Byte
<1> QED BY <1>1, <1>2, <1>3, <1>5, <1>6, <1>7

LEMMA JoinedDiffers ==
  ASSUME NEW a \in Int, NEW c \in Int, NEW x \in Int
  PROVE  /\ Joined(a, x) \in Int /\ Joined(c, x) \in Int
         /\ Joined(a, x) - Joined(c, x) = 256 * (a - c)
BY DEF Joined

(* The four bytes of n where they stand in a file, and in the other order. *)
LEMMA LeastFirstReads ==
  ASSUME NEW f \in Seq(Byte), NEW p \in Nat \ {0}, NEW n \in Int, NEW high \in Int,
         PartOf(f, p, FourBytes(n)), p + 3 <= Len(f)
  PROVE  LeastFirst(high, f, p) = 256 * (256 * (256 * (256 * (high - High(n))))) + n
<1> DEFINE b == FourBytes(n)
<1>1. /\ Len(b) = 4 /\ High(n) \in Int
      /\ n = Joined(Joined(Joined(Joined(High(n), b[4]), b[3]), b[2]), b[1])
      /\ b[1] \in Int /\ b[2] \in Int /\ b[3] \in Int /\ b[4] \in Int
  BY FourBytesFacts
<1> HIDE DEF b
<1>2. f[p] = b[1] /\ f[p + 1] = b[2] /\ f[p + 2] = b[3] /\ f[p + 3] = b[4]
  <2>1. \A j \in 1 .. 4 : f[p + j - 1] = b[j]
    BY <1>1, SMTT(60) DEF PartOf, b
  <2>2. /\ f[p + 1 - 1] = b[1] /\ f[p + 2 - 1] = b[2]
        /\ f[p + 3 - 1] = b[3] /\ f[p + 4 - 1] = b[4]
    BY <2>1
  <2> QED BY <2>2
<1>3. LeastFirst(high, f, p) = Joined(Joined(Joined(Joined(high, b[4]), b[3]), b[2]), b[1])
  BY <1>2 DEF LeastFirst
<1> DEFINE h3 == Joined(high, b[4])
           h2 == Joined(h3, b[3])
           h1 == Joined(h2, b[2])
           h0 == Joined(h1, b[1])
           n3 == Joined(High(n), b[4])
           n2 == Joined(n3, b[3])
           n1 == Joined(n2, b[2])
           n0 == Joined(n1, b[1])
<1> DEFINE d == high - High(n)
<1>4. b[1] \in Int /\ b[2] \in Int /\ b[3] \in Int /\ b[4] \in Int /\ d \in Int
  BY ONLY <1>1, high \in Int
<1>5. h3 \in Int /\ n3 \in Int /\ h3 - n3 = 256 * d
  BY ONLY <1>1, <1>4, high \in Int, JoinedDiffers, ZenonT(60)
<1> HIDE DEF h3, n3, d
<1>6. h2 \in Int /\ n2 \in Int /\ h2 - n2 = 256 * (h3 - n3)
  BY ONLY <1>4, <1>5, SMT DEF Joined
<1> HIDE DEF h2, n2
<1>7. h1 \in Int /\ n1 \in Int /\ h1 - n1 = 256 * (h2 - n2)
  BY ONLY <1>4, <1>6, SMT, SMTT(60) DEF Joined
<1> HIDE DEF h1, n1
<1>8. h0 \in Int /\ n0 \in Int /\ h0 - n0 = 256 * (h1 - n1)
  BY ONLY <1>4, <1>7, SMT DEF Joined
<1>9. LeastFirst(high, f, p) = h0 /\ n = n0
  BY <1>1, <1>3 DEF h3, h2, h1, n3, n2, n1
<1> HIDE DEF h0, n0
<1>10. h0 - n0 = 256 * (256 * (256 * (256 * d)))
  BY ONLY <1>5, <1>6, <1>7, <1>8, ZenonT(60)
<1>11. h0 = 256 * (256 * (256 * (256 * d))) + n0
  BY ONLY <1>4, <1>8, <1>10, SMT
<1>12. LeastFirst(high, f, p) = 256 * (256 * (256 * (256 * d))) + n
  BY ONLY <1>9, <1>11, SMT
<1> QED BY ONLY <1>12 DEF d

LEMMA GreatestFirstReads ==
  ASSUME NEW f, NEW p, NEW n \in Int, High(n) = 0,
         f[p] = FourBytes(n)[4], f[p + 1] = FourBytes(n)[3],
         f[p + 2] = FourBytes(n)[2], f[p + 3] = FourBytes(n)[1]
  PROVE  GreatestFirst(f, p) = n
<1>1. n = Joined(Joined(Joined(Joined(0, FourBytes(n)[4]), FourBytes(n)[3]),
                        FourBytes(n)[2]), FourBytes(n)[1])
  BY FourBytesFacts
<1>2. Joined(0, FourBytes(n)[4]) = FourBytes(n)[4]
  <2>1. FourBytes(n)[4] \in Int
    BY FourBytesFacts, 4 \in 1 .. 4
  <2> QED BY ONLY <2>1 DEF Joined
<1> QED BY <1>1, <1>2, Zenon DEF GreatestFirst

-----------------------------------------------------------------------------
(* r, made of n bytes of f from p on, is v if they are all there, and an   *)
(* error if the file was cut before their end.                             *)
Reads(r, f, p, n, v) == IF p + n - 1 <= Len(f) THEN r = Found(v, p + n) ELSE ~ r.ok

(* What DecodeLength does is settled by the first byte and those it        *)
(* announces.                                                              *)
LEMMA DecodeLengthReads ==
  ASSUME NEW f \in Seq(Byte), NEW p \in Nat \ {0}, NEW s \in Seq(Byte), PartOf(f, p, s),
         Len(s) \in Nat \ {0}, s[1] <= 194, Extra(s[1]) = Len(s) - 1,
         NEW v, p + Len(s) - 1 <= Len(f) => LengthAt(f, p) = v
  PROVE  Reads(DecodeLength(f, p), f, p, Len(s), v)
<1>1. Len(f) \in Nat
  OBVIOUS
<1>2. p <= Len(f) => f[p] = s[1]
  <2>1. p + 1 - 1 = p /\ 1 \in 1 .. Len(s)
    OBVIOUS
  <2> QED BY <2>1 DEF PartOf
<1>3. CASE p > Len(f)
  <2>1. ~ (p + Len(s) - 1 <= Len(f))
    BY <1>1, <1>3
  <2>2. DecodeLength(f, p) = Failed
    BY <1>3 DEF DecodeLength
  <2> QED BY <2>1, <2>2 DEF Reads, Failed
<1>4. CASE p <= Len(f)
  <2>1. f[p] = s[1] /\ ~ (f[p] > 194) /\ ~ (p > Len(f)) /\ s[1] \in Int
    <3>1. s[1] \in Byte
      BY 1 \in 1 .. Len(s)
    <3>2. s[1] \in Int
      BY <3>1, ByteIsNat, Zenon
    <3>3. ~ (s[1] > 194)
      BY ONLY <3>2, s[1] <= 194
    <3> QED BY <1>1, <1>2, <1>4, <3>2, <3>3
  <2>2. p + Extra(f[p]) = p + Len(s) - 1
    BY <2>1
  <2>3. CASE p + Len(s) - 1 <= Len(f)
    <3>1. ~ (p + Extra(f[p]) > Len(f))
      BY <1>1, <2>2, <2>3
    <3>2. DecodeLength(f, p) = Found(LengthAt(f, p), p + Extra(f[p]) + 1)
      BY <2>1, <3>1 DEF DecodeLength
    <3>3. p + Extra(f[p]) + 1 = p + Len(s)
      BY <2>2
    <3> QED BY <2>3, <3>2, <3>3 DEF Reads
  <2>4. CASE ~ (p + Len(s) - 1 <= Len(f))
    <3>1. p + Extra(f[p]) > Len(f)
      BY <1>1, <2>2, <2>4
    <3>2. DecodeLength(f, p) = Failed
      BY <3>1 DEF DecodeLength
    <3> QED BY <2>4, <3>2 DEF Reads, Failed
  <2> QED BY <2>3, <2>4
<1> QED BY <1>1, <1>3, <1>4

(* Single bytes that stand in a file.                                      *)
LEMMA PartOfTuple ==
  ASSUME NEW f \in Seq(Byte), NEW p \in Nat \ {0}, NEW s, Len(s) \in Nat, PartOf(f, p, s)
  PROVE  /\ 1 <= Len(s) /\ p <= Len(f) => f[p] = s[1]
         /\ 2 <= Len(s) /\ p + 1 <= Len(f) => f[p + 1] = s[2]
         /\ 3 <= Len(s) /\ p + 2 <= Len(f) => f[p + 2] = s[3]
         /\ 4 <= Len(s) /\ p + 3 <= Len(f) => f[p + 3] = s[4]
         /\ 5 <= Len(s) /\ p + 4 <= Len(f) => f[p + 4] = s[5]
<1>1. /\ p + 1 - 1 = p /\ p + 2 - 1 = p + 1 /\ p + 3 - 1 = p + 2
      /\ p + 4 - 1 = p + 3 /\ p + 5 - 1 = p + 4
  OBVIOUS
<1>2. \A j \in 1 .. 5 : j <= Len(s) /\ p + j - 1 <= Len(f) => f[p + j - 1] = s[j]
  BY DEF PartOf
<1>3. 1 \in 1 .. 5 /\ 2 \in 1 .. 5 /\ 3 \in 1 .. 5 /\ 4 \in 1 .. 5 /\ 5 \in 1 .. 5
  OBVIOUS
<1> QED BY ONLY <1>1, <1>2, <1>3

LEMMA ExtraFacts ==
  ASSUME NEW b \in Nat
  PROVE  /\ b < 64 => Extra(b) = 0
         /\ b \in 64 .. 127 => Extra(b) = 1
         /\ b \in 128 .. 191 => Extra(b) = 4
         /\ b = 192 => Extra(b) = 1
         /\ b = 193 => Extra(b) = 2
         /\ b = 194 => Extra(b) = 4
BY DEF Extra

(* src/rdb_file_reader.rs:349-381: a length in each of its three forms.    *)
LEMMA LengthBytesAreBytes ==
  ASSUME NEW n \in Nat, NEW form, Fits(n, form)
  PROVE  /\ LengthBytes(n, form) \in Seq(Byte)
         /\ Len(LengthBytes(n, form)) \in Nat \ {0}
         /\ LengthBytes(n, form)[1] < 192
         /\ Extra(LengthBytes(n, form)[1]) = Len(LengthBytes(n, form)) - 1
<1>1. CASE form = 6 /\ n < 64
  <2>1. LengthBytes(n, form) = <<n>>
    BY <1>1 DEF LengthBytes
  <2>2. n \in Byte /\ n < 192 /\ Extra(n) = 0
    BY <1>1, ExtraFacts DEF Byte
  <2> QED BY <2>1, <2>2
<1>2. CASE form = 14 /\ n < 64 * 256
  <2> DEFINE a == 64 + (n \div 256)
  <2>1. a \in 64 .. 127 /\ n % 256 \in Byte
    BY <1>2 DEF Byte
  <2>2. LengthBytes(n, form) = <<a, n % 256>>
    BY <1>2 DEF LengthBytes
  <2> HIDE DEF a
  <2>3. a \in Byte /\ a < 192 /\ Extra(a) = 1
    BY <2>1, ExtraFacts DEF Byte
  <2> QED BY <2>1, <2>2, <2>3
<1>3. CASE form = 32 /\ High(n) = 0
  <2> DEFINE b == FourBytes(n)
  <2>1. b[1] \in Byte /\ b[2] \in Byte /\ b[3] \in Byte /\ b[4] \in Byte
    <3>1. b \in Seq(Byte) /\ Len(b) = 4
      BY FourBytesFacts
    <3> HIDE DEF b
    <3> QED BY <3>1
  <2>2. LengthBytes(n, form) = <<128, b[4], b[3], b[2], b[1]>>
    BY <1>3 DEF LengthBytes
  <2>3. 128 \in Byte /\ Extra(128) = 4 /\ 128 < 192
    BY ExtraFacts DEF Byte
  <2> HIDE DEF b
  <2> QED BY <2>1, <2>2, <2>3
<1> QED BY <1>1, <1>2, <1>3 DEF Fits

LEMMA LengthReads ==
  ASSUME NEW f \in Seq(Byte), NEW p \in Nat \ {0}, NEW n \in Nat, NEW form, Fits(n, form),
         PartOf(f, p, LengthBytes(n, form))
  PROVE  /\ Reads(DecodeLength(f, p), f, p, Len(LengthBytes(n, form)), n)
         /\ p <= Len(f) => f[p] < 192
<1> DEFINE s == LengthBytes(n, form)
<1>1. /\ s \in Seq(Byte) /\ Len(s) \in Nat \ {0} /\ s[1] < 192
      /\ Extra(s[1]) = Len(s) - 1
  BY LengthBytesAreBytes
<1>2. p <= Len(f) => f[p] = s[1]
  <2> HIDE DEF s
  <2>1. PartOf(f, p, s)
    BY DEF s
  <2> QED BY <1>1, <2>1, PartOfTuple
<1>3. ASSUME p + Len(s) - 1 <= Len(f) PROVE LengthAt(f, p) = n
  <2>1. p <= Len(f) /\ Len(f) \in Nat
    <3> HIDE DEF s
    <3> QED BY <1>1, <1>3
  <2>2. CASE form = 6 /\ n < 64
    <3>1. s = <<n>>
      BY <2>2 DEF LengthBytes
    <3>2. f[p] = n
      BY <1>2, <2>1, <3>1
    <3> QED BY <2>2, <3>2 DEF LengthAt
  <2>3. CASE form = 14 /\ n < 64 * 256
    <3> DEFINE a == 64 + (n \div 256)
    <3>1. s = <<a, n % 256>>
      BY <2>3 DEF LengthBytes
    <3>2. a \in 64 .. 127 /\ a - 64 = n \div 256
      BY <2>3
    <3> HIDE DEF a
    <3>3. Len(s) = 2 /\ s[1] = a /\ s[2] = n % 256 /\ PartOf(f, p, s)
      BY <3>1
    <3> HIDE DEF s
    <3>4. p + 1 <= Len(f)
      BY <1>3, <3>3
    <3>5. f[p] = a /\ f[p + 1] = n % 256
      <4>1. /\ 1 <= Len(s) /\ p <= Len(f) => f[p] = s[1]
            /\ 2 <= Len(s) /\ p + 1 <= Len(f) => f[p + 1] = s[2]
        <5>1. Len(s) \in Nat
          BY ONLY <3>3
        <5>2. f \in Seq(Byte) /\ p \in Nat \ {0} /\ PartOf(f, p, s)
          BY <3>3
        <5> QED BY ONLY <5>1, <5>2, PartOfTuple
      <4>2. 1 <= Len(s) /\ 2 <= Len(s)
        BY ONLY <3>3
      <4> QED BY ONLY <2>1, <3>3, <3>4, <4>1, <4>2, Zenon
    <3>6. LengthAt(f, p) = Joined(a - 64, n % 256)
      BY <3>2, <3>5 DEF LengthAt
    <3> QED BY <3>2, <3>6, Digits
  <2>4. CASE form = 32 /\ High(n) = 0
    <3> DEFINE b == FourBytes(n)
    <3>1. s = <<128, b[4], b[3], b[2], b[1]>>
      BY <2>4 DEF LengthBytes
    <3> HIDE DEF b
    <3>2. /\ Len(s) = 5 /\ s[1] = 128 /\ s[2] = b[4] /\ s[3] = b[3] /\ s[4] = b[2]
          /\ s[5] = b[1] /\ PartOf(f, p, s)
      BY <3>1
    <3> HIDE DEF s
    <3>3. p + 4 <= Len(f)
      BY <1>3, <3>2
    <3>4. /\ f[p] = 128 /\ f[p + 1] = b[4] /\ f[p + 2] = b[3]
          /\ f[p + 3] = b[2] /\ f[p + 4] = b[1]
      <4>1. /\ 1 <= Len(s) /\ p <= Len(f) => f[p] = s[1]
            /\ 2 <= Len(s) /\ p + 1 <= Len(f) => f[p + 1] = s[2]
            /\ 3 <= Len(s) /\ p + 2 <= Len(f) => f[p + 2] = s[3]
            /\ 4 <= Len(s) /\ p + 3 <= Len(f) => f[p + 3] = s[4]
            /\ 5 <= Len(s) /\ p + 4 <= Len(f) => f[p + 4] = s[5]
        <5>1. Len(s) \in Nat /\ PartOf(f, p, s)
          BY <1>1, <3>2
        <5> QED BY ONLY <5>1, PartOfTuple, f \in Seq(Byte), p \in Nat \ {0}, SMTT(60)
      <4>2. 1 <= Len(s) /\ 2 <= Len(s) /\ 3 <= Len(s) /\ 4 <= Len(s) /\ 5 <= Len(s)
        BY ONLY <3>2
      <4>3. p + 1 <= Len(f) /\ p + 2 <= Len(f) /\ p + 3 <= Len(f)
        BY <2>1, <3>3
      <4> QED BY ONLY <2>1, <3>2, <3>3, <4>1, <4>2, <4>3, Zenon
    <3>5. p + 1 + 1 = p + 2 /\ p + 1 + 2 = p + 3 /\ p + 1 + 3 = p + 4
      OBVIOUS
    <3>6. GreatestFirst(f, p + 1) = n
      BY <2>4, <3>4, <3>5, GreatestFirstReads, SMTT(60) DEF b
    <3> QED BY <3>4, <3>6 DEF LengthAt
  <2> QED BY <2>2, <2>3, <2>4 DEF Fits
<1>4. Reads(DecodeLength(f, p), f, p, Len(s), n)
  <2> HIDE DEF s
  <2>1. PartOf(f, p, s)
    BY DEF s
  <2>2. s[1] <= 194
    <3>1. s[1] \in Byte
      BY <1>1
    <3>2. s[1] \in Int
      BY <3>1, ByteIsNat, Zenon
    <3> QED BY <1>1, <3>2
  <2> QED BY <1>1, <1>3, <2>1, <2>2, DecodeLengthReads
<1> QED BY <1>1, <1>2, <1>4

(* One byte in front of others.                                            *)
LEMMA ByteInFront ==
  ASSUME NEW a \in Byte, NEW b \in Seq(Byte)
  PROVE  /\ <<a>> \o b \in Seq(Byte)
         /\ Len(<<a>> \o b) = Len(b) + 1
         /\ (<<a>> \o b)[1] = a
         /\ \A f \in Seq(Byte), p \in Nat \ {0} :
              PartOf(f, p, <<a>> \o b) =>
                (p <= Len(f) => f[p] = a) /\ PartOf(f, p + 1, b)
<1>1. <<a>> \in Seq(Byte) /\ Len(<<a>>) = 1 /\ <<a>>[1] = a /\ Len(b) \in Nat
  OBVIOUS
<1>2. /\ <<a>> \o b \in Seq(Byte) /\ Len(<<a>> \o b) = Len(b) + 1
      /\ (<<a>> \o b)[1] = a
  BY <1>1, ConcatProperties
<1>3. ASSUME NEW f \in Seq(Byte), NEW p \in Nat \ {0}, PartOf(f, p, <<a>> \o b)
      PROVE  (p <= Len(f) => f[p] = a) /\ PartOf(f, p + 1, b)
  <2> DEFINE s == <<a>>
  <2>1. s \in Seq(Byte) /\ Len(s) = 1 /\ s[1] = a
    BY <1>1
  <2>2. PartOf(f, p, s \o b)
    BY <1>3
  <2> HIDE DEF s
  <2>3. PartOf(f, p, s) /\ PartOf(f, p + Len(s), b)
    BY <2>1, <2>2, PartOfConcat
  <2>4. p <= Len(f) => f[p] = s[1]
    <3>1. p + 1 - 1 = p /\ 1 \in 1 .. Len(s)
      BY <2>1
    <3> QED BY <2>3, <3>1 DEF PartOf
  <2> QED BY <2>1, <2>3, <2>4
<1> QED BY <1>2, <1>3

(* Two's complement, taken for unsigned.                                   *)
Unsigned(n, width) == IF n < 0 THEN n + Modulus(width) ELSE n

LEMMA SignedByteFacts ==
  ASSUME NEW b \in Int, SignedByte(b)
  PROVE  /\ b % 256 = IF b < 0 THEN b + 256 ELSE b
         /\ b \div 256 = IF b < 0 THEN 0 - 1 ELSE 0
<1>1. b + 128 \in 0 .. 255
  BY DEF SignedByte
<1>2. CASE b < 0
  BY <1>1, <1>2, SMT
<1>3. CASE ~ (b < 0)
  BY <1>1, <1>3, SMT
<1> QED BY <1>2, <1>3

LEMMA DivKeepsSign ==
  ASSUME NEW n \in Int
  PROVE  n \div 256 \in Int /\ (n \div 256 < 0 <=> n < 0)
BY SMT

LEMMA TwosComplement ==
  ASSUME NEW n \in Int
  PROVE  /\ SignedByte(n) => n % 256 = Unsigned(n, 1)
         /\ SignedByte(n \div 256) => Joined((n \div 256) % 256, n % 256) = Unsigned(n, 2)
         /\ SignedByte(Above(n)) =>
              256 * (256 * (256 * (256 * (0 - High(n))))) + n = Unsigned(n, 4)
<1>1. /\ Unsigned(n, 1) = IF n < 0 THEN n + 256 ELSE n
      /\ Unsigned(n, 2) = IF n < 0 THEN n + 256 * 256 ELSE n
      /\ Unsigned(n, 4) = IF n < 0 THEN n + 256 * (256 * (256 * 256)) ELSE n
  BY DEF Modulus, Unsigned
<1>2. ASSUME SignedByte(n) PROVE n % 256 = Unsigned(n, 1)
  BY <1>1, <1>2, SignedByteFacts
<1>3. ASSUME SignedByte(n \div 256)
      PROVE  Joined((n \div 256) % 256, n % 256) = Unsigned(n, 2)
  <2> DEFINE a == n \div 256
             r == n % 256
  <2>1. n = 256 * a + r /\ r \in 0 .. 255 /\ a \in Int /\ (a < 0 <=> n < 0)
    BY DivKeepsSign, SMT
  <2>2. a % 256 = IF a < 0 THEN a + 256 ELSE a
    BY <1>3, <2>1, SignedByteFacts
  <2>3. Joined(a % 256, r) = 256 * (a % 256) + r
    BY DEF Joined
  <2> HIDE DEF a, r
  <2>4. CASE n < 0
    <3>1. 256 * (a % 256) + r = n + 256 * 256
      BY ONLY <2>1, <2>2, <2>4, SMT
    <3> QED BY <1>1, <2>3, <2>4, <3>1 DEF a, r
  <2>5. CASE ~ (n < 0)
    <3>1. 256 * (a % 256) + r = n
      BY ONLY <2>1, <2>2, <2>5, SMT
    <3> QED BY <1>1, <2>3, <2>5, <3>1 DEF a, r
  <2> QED BY <2>4, <2>5
<1>4. ASSUME SignedByte(Above(n))
      PROVE  256 * (256 * (256 * (256 * (0 - High(n))))) + n = Unsigned(n, 4)
  <2> DEFINE a == n \div 256
             b == a \div 256
             t == b \div 256
  <2>1. a \in Int /\ (a < 0 <=> n < 0)
    BY DivKeepsSign
  <2> HIDE DEF a
  <2>2. b \in Int /\ (b < 0 <=> n < 0)
    BY <2>1, DivKeepsSign
  <2> HIDE DEF b
  <2>3. t \in Int /\ (t < 0 <=> n < 0)
    BY <2>2, DivKeepsSign
  <2>4. Above(n) = t
    BY DEF Above, a, b
  <2> HIDE DEF t
  <2>5. High(n) = IF n < 0 THEN 0 - 1 ELSE 0
    BY <1>4, <2>3, <2>4, SignedByteFacts DEF High
  <2>6. CASE n < 0
    <3>1. 0 - High(n) = 1
      <4>1. High(n) = 0 - 1
        BY <2>5, <2>6, Zenon
      <4> QED BY ONLY <4>1
    <3>2. 256 * (256 * (256 * (256 * (0 - High(n))))) = 256 * (256 * (256 * 256))
      BY ONLY <3>1
    <3> QED BY <1>1, <2>6, <3>2
  <2>7. CASE ~ (n < 0)
    <3>1. 0 - High(n) = 0
      <4>1. High(n) = 0
        BY <2>5, <2>7, Zenon
      <4> QED BY ONLY <4>1
    <3>2. 256 * (256 * (256 * (256 * (0 - High(n))))) = 0
      BY ONLY <3>1
    <3> QED BY <1>1, <2>7, <3>2
  <2> QED BY <2>6, <2>7
<1> QED BY <1>2, <1>3, <1>4

(* src/rdb_file_reader.rs:298-343: a number in each of its three widths.   *)
LEMMA NumberBytesAreBytes ==
  ASSUME NEW n \in Int, NEW width, FitsSigned(n, width)
  PROVE  /\ NumberBytes(n, width) \in Seq(Byte)
         /\ Len(NumberBytes(n, width)) \in Nat \ {0}
         /\ NumberBytes(n, width)[1] \in 192 .. 194
         /\ Extra(NumberBytes(n, width)[1]) = Len(NumberBytes(n, width)) - 1
<1>1. CASE width = 1
  <2>1. NumberBytes(n, width) = <<192, n % 256>>
    BY <1>1 DEF NumberBytes
  <2>2. n % 256 \in Byte /\ 192 \in Byte /\ Extra(192) = 1
    BY ExtraFacts DEF Byte
  <2> QED BY <2>1, <2>2
<1>2. CASE width = 2
  <2>1. NumberBytes(n, width) = <<193, n % 256, (n \div 256) % 256>>
    BY <1>2 DEF NumberBytes
  <2>2. /\ n % 256 \in Byte /\ (n \div 256) % 256 \in Byte /\ 193 \in Byte
        /\ Extra(193) = 2
    BY ExtraFacts DEF Byte
  <2> QED BY <2>1, <2>2
<1>3. CASE width = 4
  <2> DEFINE b == FourBytes(n)
  <2>1. NumberBytes(n, width) = <<194>> \o b
    BY <1>3 DEF NumberBytes
  <2>2. b \in Seq(Byte) /\ Len(b) = 4 /\ 194 \in Byte
    BY FourBytesFacts DEF Byte
  <2> HIDE DEF b
  <2>3. Extra(194) = 4 /\ 194 \in 192 .. 194
    BY ExtraFacts
  <2> DEFINE s == NumberBytes(n, width)
             first == 194
  <2>4. s = <<first>> \o b /\ first \in Byte /\ b \in Seq(Byte)
    BY <2>1, <2>2
  <2>9. Extra(first) = 4 /\ first \in 192 .. 194
    BY <2>3
  <2> HIDE DEF s, first
  <2>5. s \in Seq(Byte) /\ Len(s) = Len(b) + 1 /\ s[1] = first
    <3>1. /\ <<first>> \o b \in Seq(Byte) /\ Len(<<first>> \o b) = Len(b) + 1
          /\ (<<first>> \o b)[1] = first
      BY ONLY <2>4, ByteInFront, Zenon
    <3> QED BY ONLY <2>4, <3>1, Zenon
  <2>6. Len(s) = 5
    BY ONLY <2>2, <2>5
  <2>7. s[1] \in 192 .. 194 /\ Extra(s[1]) = Len(s) - 1
    <3>1. Len(s) - 1 = 4
      BY ONLY <2>6
    <3>2. s[1] = first
      BY <2>5
    <3>3. Extra(s[1]) = 4 /\ first \in 192 .. 194
      BY ONLY <2>9, <3>2
    <3> QED BY ONLY <3>1, <3>2, <3>3
  <2>8. Len(s) \in Nat \ {0}
    BY ONLY <2>6
  <2> QED BY ONLY <2>5, <2>7, <2>8 DEF s
<1> QED BY <1>1, <1>2, <1>3 DEF FitsSigned

LEMMA NumberReads ==
  ASSUME NEW f \in Seq(Byte), NEW p \in Nat \ {0}, NEW n \in Int, NEW width,
         FitsSigned(n, width), PartOf(f, p, NumberBytes(n, width))
  PROVE  /\ Reads(DecodeLength(f, p), f, p, Len(NumberBytes(n, width)), Unsigned(n, width))
         /\ p <= Len(f) => f[p] >= 192
<1> DEFINE s == NumberBytes(n, width)
<1>1. /\ s \in Seq(Byte) /\ Len(s) \in Nat \ {0} /\ s[1] \in 192 .. 194
      /\ Extra(s[1]) = Len(s) - 1 /\ PartOf(f, p, s)
  BY NumberBytesAreBytes
<1>2. p <= Len(f) => f[p] = s[1]
  <2> HIDE DEF s
  <2> QED BY <1>1, PartOfTuple
<1>3. s[1] <= 194 /\ s[1] >= 192
  <2> HIDE DEF s
  <2> QED BY <1>1
<1>4. ASSUME p + Len(s) - 1 <= Len(f) PROVE LengthAt(f, p) = Unsigned(n, width)
  <2>1. p <= Len(f) /\ Len(f) \in Nat
    <3> HIDE DEF s
    <3> QED BY <1>1, <1>4
  <2>2. CASE width = 1 /\ SignedByte(n)
    <3>1. s = <<192, n % 256>>
      BY <2>2 DEF NumberBytes
    <3>2. Len(s) = 2 /\ s[1] = 192 /\ s[2] = n % 256
      BY <3>1
    <3> HIDE DEF s
    <3>3. f[p] = 192 /\ f[p + 1] = n % 256
      <4>1. 2 <= Len(s) /\ p + 1 <= Len(f) => f[p + 1] = s[2]
        BY <1>1, PartOfTuple
      <4>2. p + 1 <= Len(f)
        BY <1>4, <3>2
      <4> QED BY ONLY <1>2, <2>1, <3>2, <4>1, <4>2
    <3>4. LengthAt(f, p) = n % 256
      BY <3>3 DEF LengthAt
    <3> QED BY <2>2, <3>4, TwosComplement
  <2>3. CASE width = 2 /\ SignedByte(n \div 256)
    <3>1. s = <<193, n % 256, (n \div 256) % 256>>
      BY <2>3 DEF NumberBytes
    <3>2. Len(s) = 3 /\ s[1] = 193 /\ s[2] = n % 256 /\ s[3] = (n \div 256) % 256
      BY <3>1
    <3> HIDE DEF s
    <3>3. f[p] = 193 /\ f[p + 1] = n % 256 /\ f[p + 2] = (n \div 256) % 256
      <4>1. /\ 2 <= Len(s) /\ p + 1 <= Len(f) => f[p + 1] = s[2]
            /\ 3 <= Len(s) /\ p + 2 <= Len(f) => f[p + 2] = s[3]
        BY <1>1, PartOfTuple
      <4>2. p + 1 <= Len(f) /\ p + 2 <= Len(f)
        BY <1>4, <2>1, <3>2
      <4> QED BY ONLY <1>2, <2>1, <3>2, <4>1, <4>2
    <3>4. LengthAt(f, p) = Joined((n \div 256) % 256, n % 256)
      BY <3>3 DEF LengthAt
    <3> QED BY <2>3, <3>4, TwosComplement
  <2>4. CASE width = 4 /\ SignedByte(Above(n))
    <3> DEFINE b == FourBytes(n)
    <3>1. s = <<194>> \o b
      BY <2>4 DEF NumberBytes
    <3>2. b \in Seq(Byte) /\ Len(b) = 4 /\ 194 \in Byte
      BY FourBytesFacts DEF Byte
    <3> HIDE DEF b, s
    <3>3. /\ Len(s) = 5 /\ (p <= Len(f) => f[p] = 194)
          /\ PartOf(f, p + 1, b)
      <4>1. Len(s) = Len(b) + 1
        BY ONLY <3>1, <3>2, ByteInFront, Zenon
      <4>2. PartOf(f, p, <<194>> \o b)
        BY ONLY <1>1, <3>1
      <4>3. (p <= Len(f) => f[p] = 194) /\ PartOf(f, p + 1, b)
        BY ONLY <3>2, <4>2, ByteInFront, f \in Seq(Byte), p \in Nat \ {0}, Zenon
      <4> QED BY ONLY <3>2, <4>1, <4>3
    <3>4. p + 1 \in Nat \ {0} /\ p + 1 + 3 <= Len(f)
      BY <1>4, <2>1, <3>3
    <3>5. LeastFirst(0, f, p + 1) = 256 * (256 * (256 * (256 * (0 - High(n))))) + n
      BY <3>3, <3>4, LeastFirstReads DEF b
    <3>6. LengthAt(f, p) = LeastFirst(0, f, p + 1)
      BY <2>1, <3>3 DEF LengthAt
    <3> QED BY ONLY <2>4, <3>5, <3>6, n \in Int, TwosComplement
  <2>5. \/ width = 1 /\ SignedByte(n)
        \/ width = 2 /\ SignedByte(n \div 256)
        \/ width = 4 /\ SignedByte(Above(n))
    BY DEF FitsSigned
  <2> QED BY <2>2, <2>3, <2>4, <2>5, Zenon
<1>5. Reads(DecodeLength(f, p), f, p, Len(s), Unsigned(n, width))
  <2> HIDE DEF s
  <2> QED BY <1>1, <1>3, <1>4, DecodeLengthReads
<1>6. p <= Len(f) => f[p] >= 192
  <2> HIDE DEF s
  <2> QED BY <1>2, <1>3
<1> QED BY <1>5, <1>6

-----------------------------------------------------------------------------
(* Strings.                                                                *)
LEMMA StringKinds ==
  ASSUME NEW s, IsString(s)
  PROVE  \/ /\ s.enc = "raw" /\ s.text \in Seq(Byte) /\ Fits(Len(s.text), s.form)
            /\ StringBytes(s) = LengthBytes(Len(s.text), s.form) \o s.text
            /\ Known(s) /\ Meaning(s) = AsChars(s.text)
         \/ /\ s.enc = "int" /\ s.n \in Int /\ FitsSigned(s.n, s.width)
            /\ StringBytes(s) = NumberBytes(s.n, s.width)
            /\ Known(s) /\ Meaning(s) = Decimal(Unsigned(s.n, s.width))
         \/ StringBytes(s) = <<195, 2, 5, 97, 97>> /\ ~ Known(s)
<1>1. CASE s.enc = "raw"
  BY <1>1 DEF IsString, StringBytes, Known, Meaning
<1>2. CASE s.enc = "int"
  BY <1>2 DEF IsString, StringBytes, Known, Meaning, Unsigned
<1>3. CASE s.enc # "raw" /\ s.enc # "int"
  <2>1. s.enc = "lzf"
    BY <1>3 DEF IsString
  <2> QED BY <2>1 DEF StringBytes, Known
<1> QED BY <1>1, <1>2, <1>3

LEMMA StringBytesAreBytes ==
  ASSUME NEW s, IsString(s)
  PROVE  StringBytes(s) \in Seq(Byte) /\ Len(StringBytes(s)) \in Nat \ {0}
<1>1. CASE /\ s.text \in Seq(Byte) /\ Fits(Len(s.text), s.form)
           /\ StringBytes(s) = LengthBytes(Len(s.text), s.form) \o s.text
  <2> DEFINE l == LengthBytes(Len(s.text), s.form)
             t == s.text
  <2>1. l \in Seq(Byte) /\ Len(l) \in Nat \ {0} /\ t \in Seq(Byte) /\ Len(t) \in Nat
    BY <1>1, LengthBytesAreBytes, LenProperties
  <2>2. StringBytes(s) = l \o t
    BY <1>1
  <2> HIDE DEF l, t
  <2>3. l \o t \in Seq(Byte) /\ Len(l \o t) = Len(l) + Len(t)
    BY <2>1, ConcatProperties
  <2> QED BY <2>1, <2>2, <2>3
<1>2. CASE /\ s.n \in Int /\ FitsSigned(s.n, s.width)
           /\ StringBytes(s) = NumberBytes(s.n, s.width)
  BY <1>2, NumberBytesAreBytes
<1>3. CASE StringBytes(s) = <<195, 2, 5, 97, 97>>
  <2>1. 195 \in Byte /\ 2 \in Byte /\ 5 \in Byte /\ 97 \in Byte
    BY DEF Byte
  <2> QED BY <1>3, <2>1
<1> QED BY <1>1, <1>2, <1>3, StringKinds

(* src/rdb_file_reader.rs:250-283: a text of n bytes behind its length.    *)
LEMMA TextReads ==
  ASSUME NEW f \in Seq(Byte), NEW p \in Nat \ {0}, NEW text \in Seq(Byte), NEW form,
         Fits(Len(text), form), PartOf(f, p, LengthBytes(Len(text), form) \o text)
  PROVE  Reads(DecodeString(f, p), f, p, Len(LengthBytes(Len(text), form) \o text),
               AsChars(text))
<1> DEFINE l == LengthBytes(Len(text), form)
           length == DecodeLength(f, p)
           last == length.next + length.val - 1
<1>1. /\ l \in Seq(Byte) /\ Len(l) \in Nat \ {0} /\ Len(text) \in Nat /\ Len(f) \in Nat
      /\ PartOf(f, p, l \o text)
  BY LengthBytesAreBytes, LenProperties
<1>2. Len(l \o text) = Len(l) + Len(text)
  <2> HIDE DEF l
  <2> QED BY <1>1, ConcatProperties
<1>3. PartOf(f, p, l) /\ PartOf(f, p + Len(l), text)
  <2> HIDE DEF l
  <2> QED BY <1>1, PartOfConcat
<1>4. Reads(length, f, p, Len(l), Len(text)) /\ (p <= Len(f) => f[p] < 192)
  BY <1>1, <1>3, LengthReads
<1>5. DecodeString(f, p) =
        IF ~ length.ok THEN Failed
        ELSE IF f[p] >= 192 THEN Found(Decimal(length.val), length.next)
        ELSE IF last > Len(f) THEN Failed
        ELSE Found(AsChars(SubSeq(f, length.next, last)), last + 1)
  BY DEF DecodeString
<1> DEFINE n == Len(l)
           m == Len(text)
<1>6. n \in Nat \ {0} /\ m \in Nat /\ Len(l \o text) = n + m
  BY <1>1, <1>2
<1> HIDE DEF l, n, m, length
<1>7. CASE ~ (p + n - 1 <= Len(f))
  <2>1. ~ length.ok
    BY <1>4, <1>7 DEF Reads, n
  <2>2. DecodeString(f, p) = Failed
    BY ONLY <1>5, <2>1
  <2>3. ~ (p + (n + m) - 1 <= Len(f))
    BY <1>1, <1>6, <1>7
  <2> QED BY <1>6, <2>2, <2>3 DEF Reads, Failed, l
<1>8. CASE p + n - 1 <= Len(f)
  <2>1. length = Found(m, p + n)
    BY <1>4, <1>8 DEF Reads, n, m
  <2>2. length.ok /\ length.val = m /\ length.next = p + n
    BY <2>1 DEF Found
  <2>3. p \in 1 .. Len(f)
    BY <1>1, <1>6, <1>8
  <2>4. ~ (f[p] >= 192)
    <3>1. f[p] \in Byte /\ f[p] < 192
      BY <1>4, <2>3
    <3>2. f[p] \in Int
      BY <3>1, ByteIsNat, Zenon
    <3> QED BY ONLY <3>1, <3>2
  <2>5. last = p + n + m - 1
    BY ONLY <2>2
  <2>6. DecodeString(f, p) =
          IF p + n + m - 1 > Len(f) THEN Failed
          ELSE Found(AsChars(SubSeq(f, p + n, p + n + m - 1)), p + n + m - 1 + 1)
    BY ONLY <1>5, <2>2, <2>4, <2>5
  <2>7. CASE p + n + m - 1 > Len(f)
    <3>1. ~ (p + (n + m) - 1 <= Len(f))
      BY <1>1, <1>6, <2>7
    <3>2. DecodeString(f, p) = Failed
      BY ONLY <2>6, <2>7
    <3> QED BY <1>6, <3>1, <3>2 DEF Reads, Failed, l
  <2>8. CASE ~ (p + n + m - 1 > Len(f))
    <3> DEFINE a == p + n
               b == p + n + m - 1
               sub == SubSeq(f, a, b)
    <3>1. a \in Nat \ {0} /\ b \in Int /\ b <= Len(f) /\ b - a + 1 = m
      BY <1>1, <1>6, <2>8
    <3>2. \A i \in 1 .. m : a + i - 1 <= Len(f)
      BY <1>1, <1>6, <3>1
    <3>3. PartOf(f, a, text)
      BY <1>3 DEF n
    <3> HIDE DEF a, b, sub
    <3>4. \A i \in a .. b : f[i] \in Byte
      BY <1>1, <3>1, ElementOfSeq
    <3>5. /\ sub \in Seq(Byte) /\ Len(sub) = (IF a <= b THEN b - a + 1 ELSE 0)
          /\ \A i \in 1 .. b - a + 1 : sub[i] = f[a + i - 1]
      BY ONLY <3>1, <3>4, SubSeqProperties DEF sub
    <3>6. Len(sub) = m
      BY ONLY <1>6, <3>1, <3>5
    <3>7. \A i \in 1 .. m : sub[i] = text[i]
      BY <3>1, <3>2, <3>3, <3>5 DEF PartOf, m
    <3>8. sub = text
      BY <3>5, <3>6, <3>7, Extensional DEF m
    <3>9. p + (n + m) - 1 <= Len(f) /\ p + n + m - 1 + 1 = p + (n + m)
      BY <1>1, <1>6, <2>8
    <3>10. DecodeString(f, p) = Found(AsChars(text), p + n + m - 1 + 1)
      BY <2>6, <2>8, <3>8 DEF sub, a, b
    <3> QED BY <1>6, <3>9, <3>10 DEF Reads, l
  <2> QED BY <2>7, <2>8
<1> QED BY <1>7, <1>8

(* What is known is read, and what is not, refused.                        *)
ReadsIf(known, r, f, p, n, v) == IF known THEN Reads(r, f, p, n, v) ELSE ~ r.ok

LEMMA StringReads ==
  ASSUME NEW f \in Seq(Byte), NEW p \in Nat \ {0}, NEW s, IsString(s),
         PartOf(f, p, StringBytes(s))
  PROVE  ReadsIf(Known(s), DecodeString(f, p), f, p, Len(StringBytes(s)), Meaning(s))
<1>1. CASE /\ s.text \in Seq(Byte) /\ Fits(Len(s.text), s.form)
           /\ StringBytes(s) = LengthBytes(Len(s.text), s.form) \o s.text
           /\ Known(s) /\ Meaning(s) = AsChars(s.text)
  <2>1. PartOf(f, p, LengthBytes(Len(s.text), s.form) \o s.text)
    BY <1>1
  <2>2. Reads(DecodeString(f, p), f, p, Len(LengthBytes(Len(s.text), s.form) \o s.text),
              AsChars(s.text))
    BY <1>1, <2>1, TextReads
  <2> QED BY <1>1, <2>2 DEF ReadsIf
<1>2. CASE /\ s.n \in Int /\ FitsSigned(s.n, s.width)
           /\ StringBytes(s) = NumberBytes(s.n, s.width)
           /\ Known(s) /\ Meaning(s) = Decimal(Unsigned(s.n, s.width))
  <2> DEFINE b == StringBytes(s)
             length == DecodeLength(f, p)
             v == Unsigned(s.n, s.width)
  <2>1. PartOf(f, p, NumberBytes(s.n, s.width))
    BY <1>2
  <2>2. Reads(length, f, p, Len(b), v) /\ (p <= Len(f) => f[p] >= 192)
    BY <1>2, <2>1, NumberReads
  <2>3. b \in Seq(Byte) /\ Len(b) \in Nat \ {0} /\ Len(f) \in Nat
    BY <1>2, NumberBytesAreBytes, LenProperties
  <2>4. ~ length.ok => DecodeString(f, p) = Failed
    BY DEF DecodeString
  <2>5. length.ok /\ f[p] >= 192 => DecodeString(f, p) = Found(Decimal(length.val), length.next)
    BY DEF DecodeString
  <2> HIDE DEF length, b, v
  <2>6. CASE p + Len(b) - 1 <= Len(f)
    <3>1. length = Found(v, p + Len(b)) /\ f[p] >= 192
      BY <2>2, <2>3, <2>6 DEF Reads
    <3>2. length.ok /\ length.val = v /\ length.next = p + Len(b)
      BY <3>1 DEF Found
    <3>3. DecodeString(f, p) = Found(Decimal(v), p + Len(b))
      BY <2>5, <3>1, <3>2
    <3> QED BY <1>2, <2>6, <3>3 DEF Reads, ReadsIf, b, v
  <2>7. CASE ~ (p + Len(b) - 1 <= Len(f))
    <3>1. DecodeString(f, p) = Failed
      BY <2>2, <2>4, <2>7 DEF Reads
    <3> QED BY <1>2, <2>7, <3>1 DEF Reads, ReadsIf, Failed, b
  <2> QED BY <2>6, <2>7
<1>3. CASE StringBytes(s) = <<195, 2, 5, 97, 97>> /\ ~ Known(s)
  <2> DEFINE b == StringBytes(s)
  <2>1. Len(b) \in Nat /\ 1 <= Len(b) /\ b[1] = 195 /\ PartOf(f, p, b)
    BY <1>3
  <2>2. p <= Len(f) => f[p] = 195
    <3> HIDE DEF b
    <3> QED BY <2>1, PartOfTuple
  <2>3. p > Len(f) \/ f[p] > 194
    BY <2>2, LenProperties
  <2>4. DecodeLength(f, p) = Failed
    BY <2>3 DEF DecodeLength
  <2>5. ~ DecodeString(f, p).ok
    BY <2>4 DEF DecodeString, Failed
  <2> QED BY <1>3, <2>5 DEF ReadsIf
<1> QED BY <1>1, <1>2, <1>3, StringKinds, ZenonT(60)

(* src/rdb_file_reader.rs:97-111, 400-418: two strings, one behind the     *)
(* other.                                                                  *)
TwoBytes(a, b) == StringBytes(a) \o StringBytes(b)

LEMMA TwoBytesAreBytes ==
  ASSUME NEW a, NEW b, IsString(a), IsString(b)
  PROVE  /\ TwoBytes(a, b) \in Seq(Byte)
         /\ Len(TwoBytes(a, b)) = Len(StringBytes(a)) + Len(StringBytes(b))
         /\ Len(TwoBytes(a, b)) \in Nat \ {0}
<1> DEFINE s == StringBytes(a)
           t == StringBytes(b)
<1>1. s \in Seq(Byte) /\ t \in Seq(Byte) /\ Len(s) \in Nat \ {0} /\ Len(t) \in Nat \ {0}
  BY StringBytesAreBytes
<1> HIDE DEF s, t
<1>2. s \o t \in Seq(Byte) /\ Len(s \o t) = Len(s) + Len(t)
  BY <1>1, ConcatProperties
<1> QED BY <1>1, <1>2 DEF TwoBytes, s, t

LEMMA TwoStringsRead ==
  ASSUME NEW f \in Seq(Byte), NEW p \in Nat \ {0}, NEW a, NEW b, IsString(a), IsString(b),
         PartOf(f, p, TwoBytes(a, b))
  PROVE  ReadsIf(Known(a) /\ Known(b), TwoStrings(f, p), f, p, Len(TwoBytes(a, b)),
                 <<Meaning(a), Meaning(b)>>)
<1> DEFINE s == StringBytes(a)
           t == StringBytes(b)
           first == DecodeString(f, p)
           second == DecodeString(f, first.next)
<1>1. s \in Seq(Byte) /\ t \in Seq(Byte) /\ Len(s) \in Nat \ {0} /\ Len(t) \in Nat \ {0}
  BY StringBytesAreBytes
<1>2. PartOf(f, p, s) /\ PartOf(f, p + Len(s), t)
  <2>1. PartOf(f, p, s \o t)
    BY DEF TwoBytes
  <2> HIDE DEF s, t
  <2> QED BY <1>1, <2>1, PartOfConcat
<1>3. ReadsIf(Known(a), first, f, p, Len(s), Meaning(a))
  BY <1>2, StringReads
<1>4. ReadsIf(Known(b), DecodeString(f, p + Len(s)), f, p + Len(s), Len(t), Meaning(b))
  <2>1. p + Len(s) \in Nat \ {0}
    BY <1>1
  <2> QED BY <1>2, <2>1, StringReads
<1>5. Len(TwoBytes(a, b)) = Len(s) + Len(t)
  BY TwoBytesAreBytes
<1>6. TwoStrings(f, p) =
        IF ~ first.ok THEN Failed
        ELSE IF ~ second.ok THEN Failed
        ELSE Found(<<first.val, second.val>>, second.next)
  BY DEF TwoStrings
<1>7. Len(f) \in Nat
  OBVIOUS
<1> HIDE DEF s, t, first
<1>8. CASE ~ first.ok
  <2>1. TwoStrings(f, p) = Failed
    BY <1>6, <1>8
  <2>2. Known(a) => ~ (p + Len(s) - 1 <= Len(f))
    BY <1>3, <1>8 DEF ReadsIf, Reads, Found
  <2>3. Known(a) => ~ (p + (Len(s) + Len(t)) - 1 <= Len(f))
    BY <1>1, <1>7, <2>2
  <2> QED BY <1>5, <2>1, <2>3 DEF ReadsIf, Reads, Failed
<1>9. CASE first.ok
  <2>1. Known(a) /\ p + Len(s) - 1 <= Len(f) /\ first = Found(Meaning(a), p + Len(s))
    BY <1>3, <1>9 DEF ReadsIf, Reads
  <2>2. first.val = Meaning(a) /\ first.next = p + Len(s)
    BY <2>1 DEF Found
  <2> HIDE DEF second
  <2>3. ReadsIf(Known(b), second, f, p + Len(s), Len(t), Meaning(b))
    BY <1>4, <2>2 DEF second
  <2>4. CASE ~ second.ok
    <3>1. TwoStrings(f, p) = Failed
      BY <1>6, <2>4
    <3>2. Known(b) => ~ (p + Len(s) + Len(t) - 1 <= Len(f))
      BY <2>3, <2>4 DEF ReadsIf, Reads, Found
    <3>3. p + Len(s) + Len(t) - 1 = p + (Len(s) + Len(t)) - 1
      BY <1>1
    <3> QED BY <1>5, <3>1, <3>2, <3>3 DEF ReadsIf, Reads, Failed
  <2>5. CASE second.ok
    <3>1. /\ Known(b) /\ p + Len(s) + Len(t) - 1 <= Len(f)
          /\ second = Found(Meaning(b), p + Len(s) + Len(t))
      BY <2>3, <2>5 DEF ReadsIf, Reads
    <3>2. second.val = Meaning(b) /\ second.next = p + Len(s) + Len(t)
      BY <3>1 DEF Found
    <3>3. TwoStrings(f, p) = Found(<<Meaning(a), Meaning(b)>>, p + Len(s) + Len(t))
      BY ONLY <1>6, <1>9, <2>2, <2>5, <3>2
    <3>4. /\ p + Len(s) + Len(t) - 1 = p + (Len(s) + Len(t)) - 1
          /\ p + Len(s) + Len(t) = p + (Len(s) + Len(t))
      BY <1>1
    <3> QED BY <1>5, <2>1, <3>1, <3>3, <3>4 DEF ReadsIf, Reads
  <2> QED BY <2>4, <2>5
<1> QED BY <1>8, <1>9

(* src/rdb_file_reader.rs:94-112: an auxiliary field behind its flag.      *)
LEMMA AuxReads ==
  ASSUME NEW field, IsString(field[1]), IsString(field[2])
  PROVE  /\ AuxBytes(field) \in Seq(Byte)
         /\ Len(AuxBytes(field)) \in Nat \ {0}
         /\ \A f \in Seq(Byte), p \in Nat \ {0} :
              PartOf(f, p, AuxBytes(field)) =>
                /\ p <= Len(f) => f[p] = 250
                /\ ReadsIf(Known(field[1]) /\ Known(field[2]), TwoStrings(f, p + 1),
                           f, p + 1, Len(AuxBytes(field)) - 1,
                           <<Meaning(field[1]), Meaning(field[2])>>)
<1> DEFINE a == field[1]
           b == field[2]
           s == StringBytes(a)
           t == StringBytes(b)
           two == TwoBytes(a, b)
           mark == 250
<1>1. s \in Seq(Byte) /\ t \in Seq(Byte)
  BY StringBytesAreBytes
<1>2. two \in Seq(Byte) /\ Len(two) \in Nat \ {0} /\ two = s \o t
  BY TwoBytesAreBytes DEF TwoBytes
<1>3. <<mark>> \in Seq(Byte) /\ mark \in Byte
  BY DEF Byte
<1>4. AuxBytes(field) = <<mark>> \o s \o t
  BY DEF AuxBytes
<1>5. mark = 250
  OBVIOUS
<1>6. IsString(a) /\ IsString(b)
  OBVIOUS
<1> HIDE DEF a, b, s, t, two, mark
<1>7. AuxBytes(field) = <<mark>> \o two
  BY <1>1, <1>2, <1>3, <1>4, ConcatAssociative
<1>8. /\ <<mark>> \o two \in Seq(Byte)
      /\ Len(<<mark>> \o two) = Len(two) + 1
      /\ \A f \in Seq(Byte), p \in Nat \ {0} :
           PartOf(f, p, <<mark>> \o two) =>
             (p <= Len(f) => f[p] = mark) /\ PartOf(f, p + 1, two)
  BY ONLY <1>2, <1>3, ByteInFront, Zenon
<1>9. Len(AuxBytes(field)) - 1 = Len(two)
  BY ONLY <1>2, <1>7, <1>8
<1>10. ASSUME NEW f \in Seq(Byte), NEW p \in Nat \ {0}, PartOf(f, p, AuxBytes(field))
       PROVE  /\ p <= Len(f) => f[p] = 250
              /\ ReadsIf(Known(a) /\ Known(b), TwoStrings(f, p + 1), f, p + 1,
                         Len(AuxBytes(field)) - 1, <<Meaning(a), Meaning(b)>>)
  <2>1. (p <= Len(f) => f[p] = mark) /\ PartOf(f, p + 1, two)
    <3>1. PartOf(f, p, <<mark>> \o two)
      BY ONLY <1>7, <1>10
    <3> QED BY ONLY <1>8, <3>1, f \in Seq(Byte), p \in Nat \ {0}, Zenon
  <2>2. p + 1 \in Nat \ {0} /\ PartOf(f, p + 1, TwoBytes(a, b))
    BY <2>1 DEF two
  <2>3. ReadsIf(Known(a) /\ Known(b), TwoStrings(f, p + 1), f, p + 1,
                Len(TwoBytes(a, b)), <<Meaning(a), Meaning(b)>>)
    BY ONLY <1>6, <2>2, f \in Seq(Byte), TwoStringsRead
  <2> QED BY <1>5, <1>9, <2>1, <2>3 DEF two
<1>11. AuxBytes(field) \in Seq(Byte) /\ Len(AuxBytes(field)) \in Nat \ {0}
  BY ONLY <1>2, <1>7, <1>8
<1> QED BY ONLY <1>10, <1>11 DEF a, b

(* src/rdb_file_reader.rs:143-181: the deadline in front of a pair, and    *)
(* the type behind it, whose codes are none of the marks.                  *)
At(f, p) == IF Stamped(f, p) = 0 THEN p ELSE p + Stamped(f, p) + 1

LEMMA StampReads ==
  ASSUME NEW f \in Seq(Byte), NEW p \in Nat \ {0}, p <= Len(f),
         NEW exp, IsDeadline(exp), NEW type \in 0 .. 243,
         PartOf(f, p, StampBytes(exp)), PartOf(f, p + Len(StampBytes(exp)), <<type>>)
  PROVE  /\ StampBytes(exp) \in Seq(Byte)
         /\ Len(StampBytes(exp)) \in Nat
         /\ At(f, p) = p + Len(StampBytes(exp))
         /\ p + Len(StampBytes(exp)) - 1 <= Len(f) => Expiration(f, p) = MeaningOfExp(exp)
<1> DEFINE s == StampBytes(exp)
<1>1. Len(f) \in Nat /\ p + 1 \in Nat \ {0} /\ p + 5 \in Nat \ {0}
  OBVIOUS
<1>2. CASE exp.unit = "none"
  <2>1. s = <<>>
    BY <1>2 DEF StampBytes
  <2>2. s \in Seq(Byte) /\ Len(s) = 0
    BY <2>1, EmptySeq, Zenon
  <2>3. f[p] = type
    <3> DEFINE one == <<type>>
    <3>1. p + Len(s) = p
      BY <2>2
    <3>2. PartOf(f, p, one) /\ Len(one) = 1 /\ one[1] = type
      BY <3>1
    <3> HIDE DEF one
    <3>3. Len(one) \in Nat /\ 1 <= Len(one)
      BY <3>2
    <3> QED BY <3>2, <3>3, PartOfTuple
  <2>4. Stamped(f, p) = 0
    BY <2>3 DEF Stamped
  <2>5. At(f, p) = p + 0 /\ Expiration(f, p) = NoExpiry
    BY <2>4 DEF At, Expiration
  <2>6. MeaningOfExp(exp) = NoExpiry
    BY <1>2 DEF MeaningOfExp
  <2> QED BY <2>2, <2>5, <2>6
<1>3. CASE exp.unit = "s" /\ exp.n \in Nat /\ High(exp.n) = 0
  <2> DEFINE n == exp.n
             b == FourBytes(n)
             mark == 253
  <2>1. s = <<mark>> \o b
    BY <1>3 DEF StampBytes
  <2>2. b \in Seq(Byte) /\ Len(b) = 4 /\ mark \in Byte /\ mark = 253
    <3>1. n \in Int
      BY <1>3
    <3>2. b \in Seq(Byte) /\ Len(b) = 4
      BY ONLY <3>1, FourBytesFacts DEF b
    <3> QED BY <3>2 DEF Byte
  <2> HIDE DEF b, mark, s
  <2>3. /\ s \in Seq(Byte) /\ Len(s) = 5
        /\ f[p] = mark /\ PartOf(f, p + 1, b)
    <3>1. /\ <<mark>> \o b \in Seq(Byte) /\ Len(<<mark>> \o b) = Len(b) + 1
          /\ PartOf(f, p, <<mark>> \o b) =>
               (p <= Len(f) => f[p] = mark) /\ PartOf(f, p + 1, b)
      <4>1. mark \in Byte /\ b \in Seq(Byte)
        BY <2>2
      <4> QED BY ONLY <4>1, f \in Seq(Byte), p \in Nat \ {0}, ByteInFront, Zenon
    <3>2. PartOf(f, p, <<mark>> \o b)
      BY <2>1 DEF s
    <3> QED BY ONLY <2>1, <2>2, <3>1, <3>2, p <= Len(f)
  <2>4. Stamped(f, p) = 4
    BY <2>2, <2>3 DEF Stamped
  <2>5. At(f, p) = p + 5
    BY <2>4 DEF At
  <2>6. ASSUME p + 5 - 1 <= Len(f) PROVE Expiration(f, p) = 1000 * n
    <3>1. p + 1 + 3 <= Len(f)
      BY <1>1, <2>6
    <3>2. LeastFirst(0, f, p + 1) = 256 * (256 * (256 * (256 * (0 - High(n))))) + n
      BY <1>1, <1>3, <2>3, <3>1, LeastFirstReads DEF b
    <3>3. LeastFirst(0, f, p + 1) = n
      BY <1>3, <3>2
    <3> QED BY <2>4, <3>3 DEF Expiration
  <2>7. MeaningOfExp(exp) = 1000 * n
    BY <1>3 DEF MeaningOfExp
  <2> QED BY <2>3, <2>5, <2>6, <2>7 DEF s
<1>4. CASE exp.unit = "ms" /\ exp.n \in Nat /\ High(High(exp.n)) = 0
  <2> DEFINE n == exp.n
             b == FourBytes(n)
             c == FourBytes(High(n))
             e == EightBytes(n)
             mark == 252
  <2>1. s = <<mark>> \o e
    BY <1>4 DEF StampBytes
  <2>2. /\ b \in Seq(Byte) /\ Len(b) = 4 /\ mark \in Byte /\ mark = 252
        /\ High(n) \in Int /\ c \in Seq(Byte) /\ Len(c) = 4 /\ e = b \o c
    <3>1. b \in Seq(Byte) /\ Len(b) = 4 /\ High(n) \in Int
      <4>1. n \in Int
        BY <1>4
      <4> QED BY ONLY <4>1, FourBytesFacts DEF b
    <3>2. c \in Seq(Byte) /\ Len(c) = 4
      BY <3>1, FourBytesFacts
    <3> QED BY <3>1, <3>2 DEF Byte, EightBytes
  <2> HIDE DEF b, c, e, mark, s
  <2>3. e \in Seq(Byte) /\ Len(e) = 8
    <3>1. b \o c \in Seq(Byte) /\ Len(b \o c) = Len(b) + Len(c)
      BY <2>2, ConcatProperties
    <3> QED BY ONLY <2>2, <3>1
  <2>4. /\ s \in Seq(Byte) /\ Len(s) = 9
        /\ f[p] = mark /\ PartOf(f, p + 1, e)
    <3>1. /\ <<mark>> \o e \in Seq(Byte) /\ Len(<<mark>> \o e) = Len(e) + 1
          /\ PartOf(f, p, <<mark>> \o e) =>
               (p <= Len(f) => f[p] = mark) /\ PartOf(f, p + 1, e)
      <4>1. mark \in Byte /\ e \in Seq(Byte)
        BY <2>2, <2>3
      <4> QED BY ONLY <4>1, f \in Seq(Byte), p \in Nat \ {0}, ByteInFront, Zenon
    <3>2. PartOf(f, p, <<mark>> \o e)
      BY <2>1 DEF s
    <3> QED BY ONLY <2>1, <2>3, <3>1, <3>2, p <= Len(f)
  <2>5. PartOf(f, p + 1, b) /\ PartOf(f, p + 5, c)
    <3>1. p + 1 + Len(b) = p + 5
      BY <2>2
    <3> QED BY <1>1, <2>2, <2>4, <3>1, PartOfConcat, ZenonT(60)
  <2>6. Stamped(f, p) = 8
    BY <2>2, <2>4 DEF Stamped
  <2>7. At(f, p) = p + 9
    BY <2>6 DEF At
  <2>8. ASSUME p + 9 - 1 <= Len(f) PROVE Expiration(f, p) = n
    <3>1. p + 1 + 3 <= Len(f) /\ p + 5 + 3 <= Len(f)
      BY <1>1, <2>8
    <3>2. LeastFirst(0, f, p + 5) =
            256 * (256 * (256 * (256 * (0 - High(High(n)))))) + High(n)
      BY <1>1, <2>2, <2>5, <3>1, LeastFirstReads DEF c
    <3>3. LeastFirst(0, f, p + 5) = High(n)
      BY <1>4, <2>2, <3>2
    <3>4. LeastFirst(High(n), f, p + 1) =
            256 * (256 * (256 * (256 * (High(n) - High(n))))) + n
      BY <1>1, <1>4, <2>2, <2>5, <3>1, LeastFirstReads DEF b
    <3>5. LeastFirst(High(n), f, p + 1) = n
      <4>1. High(n) - High(n) = 0
        BY <2>2
      <4> QED BY ONLY <1>4, <3>4, <4>1
    <3> QED BY <2>6, <3>3, <3>5 DEF Expiration
  <2>9. MeaningOfExp(exp) = n
    BY <1>4 DEF MeaningOfExp
  <2> QED BY <2>4, <2>7, <2>8, <2>9 DEF s
<1> QED BY <1>2, <1>3, <1>4 DEF IsDeadline

LEMMA StampBytesAreBytes ==
  ASSUME NEW exp, IsDeadline(exp)
  PROVE  StampBytes(exp) \in Seq(Byte) /\ Len(StampBytes(exp)) \in Nat
<1>1. CASE exp.unit = "none"
  <2>1. StampBytes(exp) = <<>>
    BY <1>1 DEF StampBytes
  <2> QED BY <2>1, EmptySeq, 0 \in Nat, Zenon
<1>2. CASE exp.unit = "s" /\ exp.n \in Nat
  <2> DEFINE b == FourBytes(exp.n)
             mark == 253
  <2>1. StampBytes(exp) = <<mark>> \o b /\ mark \in Byte
    BY <1>2 DEF StampBytes, Byte
  <2>2. b \in Seq(Byte) /\ Len(b) = 4
    <3>1. exp.n \in Int
      BY <1>2
    <3> QED BY ONLY <3>1, FourBytesFacts DEF b
  <2> HIDE DEF b, mark
  <2>3. <<mark>> \o b \in Seq(Byte) /\ Len(<<mark>> \o b) = Len(b) + 1
    BY ONLY <2>1, <2>2, ByteInFront, Zenon
  <2> QED BY ONLY <2>1, <2>2, <2>3
<1>3. CASE exp.unit = "ms" /\ exp.n \in Nat
  <2> DEFINE b == FourBytes(exp.n)
             c == FourBytes(High(exp.n))
             mark == 252
  <2>1. StampBytes(exp) = <<mark>> \o (b \o c) /\ mark \in Byte
    BY <1>3 DEF StampBytes, EightBytes, Byte
  <2>2. b \in Seq(Byte) /\ Len(b) = 4 /\ c \in Seq(Byte) /\ Len(c) = 4
    <3>1. exp.n \in Int
      BY <1>3
    <3>2. b \in Seq(Byte) /\ Len(b) = 4 /\ High(exp.n) \in Int
      BY ONLY <3>1, FourBytesFacts DEF b
    <3>3. c \in Seq(Byte) /\ Len(c) = 4
      BY ONLY <3>2, FourBytesFacts DEF c
    <3> QED BY <3>2, <3>3
  <2> HIDE DEF b, c, mark
  <2>3. b \o c \in Seq(Byte) /\ Len(b \o c) = Len(b) + Len(c)
    BY <2>2, ConcatProperties
  <2>4. <<mark>> \o (b \o c) \in Seq(Byte) /\ Len(<<mark>> \o (b \o c)) = Len(b \o c) + 1
    BY ONLY <2>1, <2>3, ByteInFront, Zenon
  <2> QED BY ONLY <2>1, <2>2, <2>3, <2>4
<1> QED BY <1>1, <1>2, <1>3 DEF IsDeadline

(* The four parts of a pair.                                               *)
LEMMA PairParts ==
  ASSUME NEW pair, IsPair(pair)
  PROVE  /\ PairBytes(pair) \in Seq(Byte)
         /\ Len(PairBytes(pair)) =
              Len(StampBytes(pair.exp)) + 1 + Len(TwoBytes(pair.key, pair.val))
         /\ \A f \in Seq(Byte), p \in Nat \ {0} :
              PartOf(f, p, PairBytes(pair)) =>
                /\ PartOf(f, p, StampBytes(pair.exp))
                /\ PartOf(f, p + Len(StampBytes(pair.exp)), <<pair.type>>)
                /\ PartOf(f, p + Len(StampBytes(pair.exp)) + 1, TwoBytes(pair.key, pair.val))
<1> DEFINE s == StampBytes(pair.exp)
           one == <<pair.type>>
           k == StringBytes(pair.key)
           v == StringBytes(pair.val)
           two == TwoBytes(pair.key, pair.val)
<1>1. PairBytes(pair) = s \o one \o k \o v
  BY DEF PairBytes
<1>2. /\ IsDeadline(pair.exp) /\ pair.type \in 0 .. 243
      /\ IsString(pair.key) /\ IsString(pair.val)
  BY DEF IsPair
<1>3. s \in Seq(Byte) /\ Len(s) \in Nat
  BY <1>2, StampBytesAreBytes
<1>4. k \in Seq(Byte) /\ v \in Seq(Byte)
  BY <1>2, StringBytesAreBytes
<1>5. two = k \o v /\ two \in Seq(Byte) /\ Len(two) \in Nat
  BY <1>2, TwoBytesAreBytes DEF TwoBytes
<1>6. one \in Seq(Byte) /\ Len(one) = 1
  <2>1. pair.type \in Byte
    BY <1>2 DEF Byte
  <2> QED BY <2>1
<1> HIDE DEF s, one, k, v, two
<1> DEFINE front == s \o one
<1>7. front \in Seq(Byte) /\ Len(front) = Len(s) + 1
  BY <1>3, <1>6, ConcatProperties
<1>8. PairBytes(pair) = front \o two
  <2> HIDE DEF front
  <2>1. (front \o k) \o v = front \o (k \o v)
    BY <1>4, <1>7, ConcatAssociative, SMTT(60)
  <2> QED BY <1>1, <1>5, <2>1 DEF front
<1> HIDE DEF front
<1>9. front \o two \in Seq(Byte) /\ Len(front \o two) = Len(s) + 1 + Len(two)
  BY <1>3, <1>5, <1>7, ConcatProperties, ZenonT(60)
<1>10. ASSUME NEW f \in Seq(Byte), NEW p \in Nat \ {0}, PartOf(f, p, PairBytes(pair))
       PROVE  /\ PartOf(f, p, s) /\ PartOf(f, p + Len(s), one)
              /\ PartOf(f, p + Len(s) + 1, two)
  <2>1. PartOf(f, p, front) /\ PartOf(f, p + Len(front), two)
    BY <1>5, <1>7, <1>8, <1>10, PartOfConcat, ZenonT(60)
  <2>2. PartOf(f, p, s) /\ PartOf(f, p + Len(s), one)
    BY <1>3, <1>6, <2>1, PartOfConcat DEF front
  <2>3. p + Len(front) = p + Len(s) + 1
    BY <1>3, <1>7
  <2> QED BY <2>1, <2>2, <2>3
<1> QED BY <1>8, <1>9, <1>10 DEF s, one, two

(* src/rdb_file_reader.rs:138-199: a pair is read as what it means, if all *)
(* of it is there and it is of the only type that the reader knows.        *)
LEMMA PairReads ==
  ASSUME NEW f \in Seq(Byte), NEW p \in Nat \ {0}, NEW pair, IsPair(pair),
         PartOf(f, p, PairBytes(pair))
  PROVE  ReadsIf(KnownPair(pair), ReadPair(f, p), f, p, Len(PairBytes(pair)),
                 MeaningOfPair(pair))
<1> DEFINE l == Len(StampBytes(pair.exp))
           n == Len(TwoBytes(pair.key, pair.val))
           v == <<Meaning(pair.key), Meaning(pair.val)>>
           known == Known(pair.key) /\ Known(pair.val)
           at == p + l
           two == TwoStrings(f, at + 1)
<1>1. /\ IsDeadline(pair.exp) /\ pair.type \in 0 .. 243
      /\ IsString(pair.key) /\ IsString(pair.val)
  BY DEF IsPair
<1>2. /\ PartOf(f, p, StampBytes(pair.exp))
      /\ PartOf(f, at, <<pair.type>>)
      /\ PartOf(f, at + 1, TwoBytes(pair.key, pair.val))
      /\ Len(PairBytes(pair)) = l + 1 + n
  BY PairParts
<1>3. l \in Nat /\ n \in Nat \ {0} /\ Len(f) \in Nat /\ at \in Nat \ {0} /\ at + 1 \in Nat \ {0}
  <2>1. l \in Nat
    BY <1>1, StampBytesAreBytes
  <2>2. n \in Nat \ {0}
    BY <1>1, TwoBytesAreBytes
  <2> QED BY <2>1, <2>2
<1>4. ReadsIf(known, two, f, at + 1, n, v)
  BY <1>1, <1>2, <1>3, TwoStringsRead
<1>5. at <= Len(f) => f[at] = pair.type
  <2> DEFINE one == <<pair.type>>
  <2>1. PartOf(f, at, one) /\ Len(one) = 1 /\ one[1] = pair.type
    BY <1>2
  <2> HIDE DEF one, at
  <2>2. Len(one) \in Nat /\ 1 <= Len(one)
    BY <2>1
  <2> QED BY <1>3, <2>1, <2>2, PartOfTuple, SMTT(60)
<1>6. ASSUME p <= Len(f)
      PROVE  /\ At(f, p) = at
             /\ at - 1 <= Len(f) => Expiration(f, p) = MeaningOfExp(pair.exp)
  <2> DEFINE exp == pair.exp
             type == pair.type
  <2>1. IsDeadline(exp) /\ type \in 0 .. 243
    BY <1>1
  <2>2. PartOf(f, p, StampBytes(exp)) /\ PartOf(f, p + Len(StampBytes(exp)), <<type>>)
    BY <1>2
  <2> HIDE DEF exp, type
  <2>3. /\ At(f, p) = p + Len(StampBytes(exp))
        /\ p + Len(StampBytes(exp)) - 1 <= Len(f) => Expiration(f, p) = MeaningOfExp(exp)
    BY ONLY <1>6, <2>1, <2>2, f \in Seq(Byte), p \in Nat \ {0}, StampReads
  <2> QED BY <2>3 DEF exp
<1>7. KnownPair(pair) <=> pair.type = 0 /\ known
  BY DEF KnownPair
<1>8. MeaningOfPair(pair) = [key |-> v[1], val |-> v[2], exp |-> MeaningOfExp(pair.exp)]
  BY DEF MeaningOfPair
<1>9. /\ p > Len(f) => ReadPair(f, p) = Failed
      /\ ~ (p > Len(f)) =>
           ReadPair(f, p) =
             LET data == ParseData(f, At(f, p))
             IN  IF ~ data.ok THEN Failed
                 ELSE Found([key |-> data.val[1], val |-> data.val[2],
                             exp |-> Expiration(f, p)], data.next)
  BY DEF ReadPair, At
<1>10. p + (l + 1 + n) - 1 = at + n
  BY <1>3
<1>11. p + (l + 1 + n) = at + 1 + n /\ at + 1 + n - 1 = at + n
  BY <1>3
<1> HIDE DEF l, n, v, known, two
<1>12. CASE p > Len(f)
  <2>1. ~ (at + n <= Len(f))
    BY <1>3, <1>12
  <2>2. ReadPair(f, p) = Failed
    BY <1>9, <1>12
  <2> QED BY <1>2, <1>10, <2>1, <2>2 DEF ReadsIf, Reads, Failed
<1>13. CASE ~ (p > Len(f))
  <2> DEFINE data == ParseData(f, at)
  <2>1. p <= Len(f)
    BY <1>3, <1>13
  <2>2. ReadPair(f, p) =
          IF ~ data.ok THEN Failed
          ELSE Found([key |-> data.val[1], val |-> data.val[2], exp |-> Expiration(f, p)],
                     data.next)
    BY <1>6, <1>9, <1>13, <2>1
  <2>3. data = IF at > Len(f) THEN Failed ELSE IF f[at] # 0 THEN Failed ELSE two
    BY DEF ParseData, two
  <2> HIDE DEF data
  <2>4. CASE at > Len(f)
    <3>1. ~ (at + n <= Len(f))
      BY <1>3, <2>4
    <3>2. data = Failed
      BY <2>3, <2>4
    <3>3. ReadPair(f, p) = Failed
      BY ONLY <2>2, <3>2 DEF Failed
    <3> QED BY <1>2, <1>10, <3>1, <3>3 DEF ReadsIf, Reads, Failed
  <2>5. CASE ~ (at > Len(f)) /\ f[at] # 0
    <3>1. data = Failed
      BY <2>3, <2>5
    <3>2. ReadPair(f, p) = Failed
      BY ONLY <2>2, <3>1 DEF Failed
    <3>3. ~ KnownPair(pair)
      <4>1. at <= Len(f)
        BY <1>3, <2>5
      <4> QED BY <1>5, <1>7, <2>5, <4>1
    <3> QED BY <3>2, <3>3 DEF ReadsIf, Failed
  <2>6. CASE ~ (at > Len(f)) /\ f[at] = 0
    <3>1. at <= Len(f) /\ at - 1 <= Len(f)
      BY <1>3, <2>6
    <3>2. data = two
      BY <2>3, <2>6
    <3>3. pair.type = 0
      BY <1>5, <2>6, <3>1
    <3>4. Expiration(f, p) = MeaningOfExp(pair.exp)
      BY <1>6, <2>1, <3>1
    <3>5. CASE ~ two.ok
      <4>1. ReadPair(f, p) = Failed
        BY ONLY <2>2, <3>2, <3>5
      <4>2. known => ~ (at + n <= Len(f))
        BY <1>4, <1>11, <3>5 DEF ReadsIf, Reads, Found
      <4> QED BY <1>2, <1>7, <1>10, <4>1, <4>2 DEF ReadsIf, Reads, Failed
    <3>6. CASE two.ok
      <4>1. known /\ at + n <= Len(f) /\ two = Found(v, at + 1 + n)
        BY <1>4, <1>11, <3>6 DEF ReadsIf, Reads
      <4>2. two.val = v /\ two.next = at + 1 + n
        BY <4>1 DEF Found
      <4>3. ReadPair(f, p) =
              Found([key |-> v[1], val |-> v[2], exp |-> MeaningOfExp(pair.exp)], at + 1 + n)
        BY ONLY <2>2, <3>2, <3>4, <3>6, <4>2
      <4>4. KnownPair(pair)
        BY <1>7, <3>3, <4>1
      <4> QED BY <1>2, <1>8, <1>10, <1>11, <4>1, <4>3, <4>4 DEF ReadsIf, Reads
    <3> QED BY <3>5, <3>6
  <2> QED BY <2>4, <2>5, <2>6
<1> QED BY <1>12, <1>13

-----------------------------------------------------------------------------
(* The sizes in front of a data set.                                       *)
LEMMA DivGrows ==
  ASSUME NEW m \in Nat, NEW n \in Nat, m <= n
  PROVE  m \div 256 \in Nat /\ n \div 256 \in Nat /\ m \div 256 <= n \div 256
BY SMT

LEMMA HighGrows ==
  ASSUME NEW m \in Nat, NEW n \in Nat, m <= n, High(n) = 0
  PROVE  High(m) = 0
<1> DEFINE a == m \div 256
           b == n \div 256
<1>1. a \in Nat /\ b \in Nat /\ a <= b
  BY DivGrows
<1> DEFINE c == a \div 256
           d == b \div 256
<1> HIDE DEF a, b
<1>2. c \in Nat /\ d \in Nat /\ c <= d
  BY <1>1, DivGrows
<1> DEFINE g == c \div 256
           h == d \div 256
<1> HIDE DEF c, d
<1>3. g \in Nat /\ h \in Nat /\ g <= h
  BY <1>2, DivGrows
<1> HIDE DEF g, h
<1>4. g \div 256 \in Nat /\ g \div 256 <= h \div 256
  BY <1>3, DivGrows
<1>5. High(m) = g \div 256 /\ High(n) = h \div 256
  BY DEF High, Above, a, b, c, d, g, h
<1> QED BY ONLY <1>3, <1>4, <1>5, High(n) = 0

(* src/rdb_file_reader.rs:125-137: a size is a length in the shortest form *)
(* that holds it.                                                          *)
LEMMA SizeReads ==
  ASSUME NEW n \in Nat, High(n) = 0
  PROVE  /\ SizeBytes(n) \in Seq(Byte)
         /\ Len(SizeBytes(n)) \in Nat \ {0}
         /\ \A f \in Seq(Byte), p \in Nat \ {0} :
              PartOf(f, p, SizeBytes(n)) => Reads(DecodeLength(f, p), f, p, Len(SizeBytes(n)), n)
<1> DEFINE form == IF n < 64 THEN 6 ELSE IF n < 64 * 256 THEN 14 ELSE 32
<1>1. SizeBytes(n) = LengthBytes(n, form)
  BY DEF SizeBytes
<1>2. Fits(n, form)
  BY DEF Fits
<1> HIDE DEF form
<1>3. /\ LengthBytes(n, form) \in Seq(Byte) /\ Len(LengthBytes(n, form)) \in Nat \ {0}
  BY <1>2, LengthBytesAreBytes
<1>4. ASSUME NEW f \in Seq(Byte), NEW p \in Nat \ {0}, PartOf(f, p, SizeBytes(n))
      PROVE  Reads(DecodeLength(f, p), f, p, Len(SizeBytes(n)), n)
  <2>1. PartOf(f, p, LengthBytes(n, form))
    BY <1>1, <1>4
  <2> QED BY <1>1, <1>2, <2>1, LengthReads
<1> QED BY <1>1, <1>3, <1>4

LEMMA FewerWithDeadline ==
  ASSUME NEW S, NEW ps \in Seq(S)
  PROVE  /\ Cardinality(WithDeadline(ps)) \in Nat
         /\ Cardinality(WithDeadline(ps)) <= Len(ps)
<1>1. Len(ps) \in Nat /\ DOMAIN ps = 1 .. Len(ps)
  OBVIOUS
<1>2. IsFiniteSet(1 .. Len(ps)) /\ Cardinality(1 .. Len(ps)) = Len(ps)
  BY <1>1, FS_Interval
<1>3. WithDeadline(ps) \subseteq 1 .. Len(ps)
  BY <1>1 DEF WithDeadline
<1>4. /\ IsFiniteSet(WithDeadline(ps))
      /\ Cardinality(WithDeadline(ps)) <= Cardinality(1 .. Len(ps))
  BY <1>2, <1>3, FS_Subset
<1> QED BY <1>2, <1>4, FS_CardinalityType

(* src/rdb_file_reader.rs:113-137: the parts of what stands in front of    *)
(* the pairs of a data set.                                                *)
LEMMA HeaderParts ==
  ASSUME NEW set, IsSet(set)
  PROVE  /\ SetHeader(set) \in Seq(Byte)
         /\ Len(SetHeader(set)) \in Nat \ {0}
         /\ \A f \in Seq(Byte), p \in Nat \ {0} :
              PartOf(f, p, SetHeader(set)) => (p <= Len(f) => f[p] = 254)
         /\ \E a, b, c \in Nat \ {0} :
              /\ set.sized => Len(SetHeader(set)) = 1 + a + 1 + b + c
              /\ \A f \in Seq(Byte), p \in Nat \ {0} :
                   set.sized /\ PartOf(f, p, SetHeader(set)) =>
                     /\ Reads(DecodeLength(f, p + 1), f, p + 1, a, set.db)
                     /\ Reads(DecodeLength(f, p + 1 + a + 1), f, p + 1 + a + 1, b,
                              Len(set.pairs))
                     /\ Reads(DecodeLength(f, p + 1 + a + 1 + b), f, p + 1 + a + 1 + b, c,
                              Cardinality(WithDeadline(set.pairs)))
<1> DEFINE n == set.db
           m == Len(set.pairs)
           d == Cardinality(WithDeadline(set.pairs))
           A == SizeBytes(n)
           B == SizeBytes(m)
           C == SizeBytes(d)
           mark == 254
           sub == 251
<1>1. n \in Nat /\ High(n) = 0 /\ m \in Nat /\ High(m) = 0 /\ d \in Nat /\ High(d) = 0
  <2>1. n \in Nat /\ High(n) = 0 /\ High(m) = 0 /\ set.pairs \in Seq(Range(set.pairs))
    BY DEF IsSet
  <2>2. m \in Nat
    BY <2>1, LenProperties
  <2>3. d \in Nat /\ d <= m
    BY <2>1, FewerWithDeadline
  <2> HIDE DEF m, d
  <2>4. High(d) = 0
    BY <2>1, <2>2, <2>3, HighGrows
  <2> QED BY <2>1, <2>2, <2>3, <2>4
<1>2. SetHeader(set) =
        <<mark>> \o A \o (IF set.sized THEN <<sub>> \o B \o C ELSE <<>>)
  BY DEF SetHeader, TableBytes
<1>3. mark = 254 /\ mark \in Byte /\ sub \in Byte /\ <<mark>> \in Seq(Byte) /\ <<sub>> \in Seq(Byte)
  BY DEF Byte
<1> HIDE DEF n, m, d
<1>4. /\ A \in Seq(Byte) /\ B \in Seq(Byte) /\ C \in Seq(Byte)
      /\ Len(A) \in Nat \ {0} /\ Len(B) \in Nat \ {0} /\ Len(C) \in Nat \ {0}
  BY <1>1, SizeReads
<1>5. \A f \in Seq(Byte), p \in Nat \ {0} :
        /\ PartOf(f, p, A) => Reads(DecodeLength(f, p), f, p, Len(A), n)
        /\ PartOf(f, p, B) => Reads(DecodeLength(f, p), f, p, Len(B), m)
        /\ PartOf(f, p, C) => Reads(DecodeLength(f, p), f, p, Len(C), d)
  BY <1>1, SizeReads
<1> HIDE DEF A, B, C, mark, sub
<1> DEFINE table == IF set.sized THEN <<sub>> \o B \o C ELSE <<>>
           rest == B \o C
<1>6. rest \in Seq(Byte) /\ Len(rest) = Len(B) + Len(C)
  BY <1>4, ConcatProperties
<1>7. <<sub>> \o B \o C = <<sub>> \o rest
  BY <1>3, <1>4, ConcatAssociative
<1> HIDE DEF rest
<1>8. /\ <<sub>> \o rest \in Seq(Byte) /\ Len(<<sub>> \o rest) = Len(rest) + 1
      /\ \A f \in Seq(Byte), p \in Nat \ {0} :
           PartOf(f, p, <<sub>> \o rest) => PartOf(f, p + 1, rest)
  BY ONLY <1>3, <1>6, ByteInFront, Zenon
<1>9. set.sized \in BOOLEAN
  BY DEF IsSet
<1>10. /\ table \in Seq(Byte) /\ Len(table) \in Nat
       /\ set.sized => table = <<sub>> \o rest /\ Len(table) = 1 + Len(B) + Len(C)
  <2>1. CASE set.sized
    <3>1. table = <<sub>> \o rest
      BY <1>7, <2>1
    <3> QED BY ONLY <1>4, <1>6, <1>8, <3>1
  <2>2. CASE ~ set.sized
    <3>1. table = <<>>
      BY <2>2
    <3> QED BY <2>2, <3>1, EmptySeq, 0 \in Nat, Zenon
  <2> QED BY <1>9, <2>1, <2>2
<1>11. SetHeader(set) = <<mark>> \o A \o table
  BY <1>2
<1> HIDE DEF table
<1> DEFINE tail == A \o table
<1>12. tail \in Seq(Byte) /\ Len(tail) = Len(A) + Len(table)
  BY <1>4, <1>10, ConcatProperties
<1>13. SetHeader(set) = <<mark>> \o tail
  BY <1>3, <1>4, <1>10, <1>11, ConcatAssociative, SMTT(60)
<1> HIDE DEF tail
<1>14. /\ <<mark>> \o tail \in Seq(Byte) /\ Len(<<mark>> \o tail) = Len(tail) + 1
       /\ \A f \in Seq(Byte), p \in Nat \ {0} :
            PartOf(f, p, <<mark>> \o tail) =>
              (p <= Len(f) => f[p] = mark) /\ PartOf(f, p + 1, tail)
  <2>1. mark \in Byte
    BY <1>3
  <2> QED BY ONLY <1>12, <2>1, ByteInFront, Zenon
<1>15. SetHeader(set) \in Seq(Byte) /\ Len(SetHeader(set)) \in Nat \ {0}
  BY ONLY <1>4, <1>10, <1>12, <1>13, <1>14
<1>16. ASSUME NEW f \in Seq(Byte), NEW p \in Nat \ {0}, PartOf(f, p, SetHeader(set))
       PROVE  /\ p <= Len(f) => f[p] = mark
              /\ PartOf(f, p + 1, A)
              /\ set.sized => /\ PartOf(f, p + 1 + Len(A) + 1, B)
                              /\ PartOf(f, p + 1 + Len(A) + 1 + Len(B), C)
  <2>1. (p <= Len(f) => f[p] = mark) /\ PartOf(f, p + 1, tail)
    <3>1. PartOf(f, p, <<mark>> \o tail)
      BY ONLY <1>13, <1>16
    <3> QED BY ONLY <1>14, <3>1, f \in Seq(Byte), p \in Nat \ {0}, Zenon
  <2>2. /\ p + 1 \in Nat \ {0} /\ p + 1 + Len(A) \in Nat \ {0}
        /\ p + 1 + Len(A) + 1 \in Nat \ {0}
    BY <1>4
  <2>3. PartOf(f, p + 1, A) /\ PartOf(f, p + 1 + Len(A), table)
    BY <1>4, <1>10, <2>1, <2>2, PartOfConcat DEF tail
  <2>4. ASSUME set.sized
        PROVE  /\ PartOf(f, p + 1 + Len(A) + 1, B)
               /\ PartOf(f, p + 1 + Len(A) + 1 + Len(B), C)
    <3>1. PartOf(f, p + 1 + Len(A), <<sub>> \o rest)
      BY ONLY <1>10, <2>3, <2>4
    <3>2. PartOf(f, p + 1 + Len(A) + 1, rest)
      BY ONLY <1>8, <2>2, <3>1, f \in Seq(Byte), Zenon
    <3> QED BY <1>4, <2>2, <3>2, PartOfConcat DEF rest
  <2> QED BY <2>1, <2>3, <2>4
<1> DEFINE a == Len(A)
           b == Len(B)
           c == Len(C)
<1>17. set.sized => Len(SetHeader(set)) = 1 + a + 1 + b + c
  <2>1. Len(SetHeader(set)) = Len(tail) + 1
    BY ONLY <1>13, <1>14
  <2>2. Len(SetHeader(set)) = Len(A) + Len(table) + 1
    BY ONLY <1>12, <2>1
  <2>3. ASSUME set.sized PROVE Len(SetHeader(set)) = 1 + Len(A) + 1 + Len(B) + Len(C)
    <3>1. Len(table) = 1 + Len(B) + Len(C)
      BY ONLY <1>10, <2>3
    <3>2. Len(A) \in Nat /\ Len(B) \in Nat /\ Len(C) \in Nat
      BY ONLY <1>4
    <3> QED BY ONLY <2>2, <3>1, <3>2
  <2> QED BY ONLY <2>3 DEF a, b, c
<1>18. ASSUME NEW f \in Seq(Byte), NEW p \in Nat \ {0}, set.sized,
              PartOf(f, p, SetHeader(set))
       PROVE  /\ Reads(DecodeLength(f, p + 1), f, p + 1, a, n)
              /\ Reads(DecodeLength(f, p + 1 + a + 1), f, p + 1 + a + 1, b, m)
              /\ Reads(DecodeLength(f, p + 1 + a + 1 + b), f, p + 1 + a + 1 + b, c, d)
  <2>1. /\ p + 1 \in Nat \ {0} /\ p + 1 + a + 1 \in Nat \ {0}
        /\ p + 1 + a + 1 + b \in Nat \ {0}
    BY <1>4
  <2>2. /\ PartOf(f, p + 1, A) /\ PartOf(f, p + 1 + a + 1, B)
        /\ PartOf(f, p + 1 + a + 1 + b, C)
    BY <1>16, <1>18
  <2> HIDE DEF a, b, c
  <2> QED BY <1>5, <2>1, <2>2 DEF a, b, c
<1>19. a \in Nat \ {0} /\ b \in Nat \ {0} /\ c \in Nat \ {0}
  BY <1>4
<1>20. \A f \in Seq(Byte), p \in Nat \ {0} :
         PartOf(f, p, SetHeader(set)) => (p <= Len(f) => f[p] = 254)
  BY <1>3, <1>16
<1> HIDE DEF a, b, c
<1> QED BY <1>15, <1>17, <1>18, <1>19, <1>20, SMTT(60) DEF n, m, d

-----------------------------------------------------------------------------
(* Where the parts of a file are.                                          *)
LEMMA Mapped ==
  ASSUME NEW S, NEW n \in Nat, NEW g \in [1 .. n -> S]
  PROVE  g \in Seq(S) /\ Len(g) = n /\ DOMAIN g = 1 .. n
OBVIOUS

AuxParts(s) == [i \in DOMAIN s.aux |-> AuxBytes(s.aux[i])]
SetParts(s) == [i \in DOMAIN s.sets |-> SetBytes(s.sets[i])]
PairsOf(set) == [i \in DOMAIN set.pairs |-> PairBytes(set.pairs[i])]

(* Behind the first n auxiliary fields; behind the first n data sets; and  *)
(* in the bytes of a data set, behind the first n pairs.                   *)
AuxAt(s, n) == 10 + Offset(AuxParts(s), n)
SetAt(s, n) == AuxAt(s, Len(s.aux)) + Offset(SetParts(s), n)
PairAt(set, n) == Len(SetHeader(set)) + Offset(PairsOf(set), n)

LEMMA PairsAreBytes ==
  ASSUME NEW set, IsSet(set)
  PROVE  /\ PairsOf(set) \in Seq(Seq(Byte))
         /\ Len(PairsOf(set)) = Len(set.pairs)
         /\ Len(set.pairs) \in Nat /\ DOMAIN set.pairs = 1 .. Len(set.pairs)
<1>1. set.pairs \in Seq(Range(set.pairs)) /\ \A i \in DOMAIN set.pairs : IsPair(set.pairs[i])
  BY DEF IsSet
<1>2. Len(set.pairs) \in Nat /\ DOMAIN set.pairs = 1 .. Len(set.pairs)
  BY <1>1, LenProperties
<1>3. \A i \in 1 .. Len(set.pairs) : PairBytes(set.pairs[i]) \in Seq(Byte)
  <2>1. TAKE i \in 1 .. Len(set.pairs)
  <2>2. IsPair(set.pairs[i])
    BY <1>1, <1>2
  <2> QED BY <2>2, PairParts
<1>4. PairsOf(set) \in [1 .. Len(set.pairs) -> Seq(Byte)]
  BY <1>2, <1>3 DEF PairsOf
<1> QED BY <1>2, <1>4, Mapped

LEMMA SetLayout ==
  ASSUME NEW set, IsSet(set)
  PROVE  /\ SetBytes(set) \in Seq(Byte)
         /\ Len(SetBytes(set)) = PairAt(set, Len(set.pairs))
         /\ PairAt(set, 0) = Len(SetHeader(set))
         /\ \A n \in 0 .. Len(set.pairs) :
              PairAt(set, n) \in Nat \ {0} /\ PairAt(set, n) <= Len(SetBytes(set))
         /\ \A n \in 1 .. Len(set.pairs) :
              PairAt(set, n) = PairAt(set, n - 1) + Len(PairBytes(set.pairs[n]))
         /\ \A f \in Seq(Byte), p \in Nat \ {0} :
              PartOf(f, p, SetBytes(set)) =>
                /\ PartOf(f, p, SetHeader(set))
                /\ \A n \in 1 .. Len(set.pairs) :
                     PartOf(f, p + PairAt(set, n - 1), PairBytes(set.pairs[n]))
<1> DEFINE h == SetHeader(set)
           ps == PairsOf(set)
           flat == FlattenSeq(ps)
           N == Len(set.pairs)
<1>1. h \in Seq(Byte) /\ Len(h) \in Nat \ {0}
  BY HeaderParts
<1>2. ps \in Seq(Seq(Byte)) /\ Len(ps) = N /\ N \in Nat /\ DOMAIN set.pairs = 1 .. N
  BY PairsAreBytes
<1>3. \A n \in 1 .. N : ps[n] = PairBytes(set.pairs[n])
  BY <1>2 DEF PairsOf
<1>4. SetBytes(set) = h \o flat
  BY DEF SetBytes, PairsOf
<1>5. \A n \in 0 .. N : PairAt(set, n) = Len(h) + Offset(ps, n)
  BY DEF PairAt
<1> HIDE DEF h, ps, N
<1>6. /\ flat \in Seq(Byte)
      /\ Offset(ps, 0) = 0
      /\ Offset(ps, N) = Len(flat)
      /\ \A n \in 0 .. N : Offset(ps, n) \in Nat /\ Offset(ps, n) <= Len(flat)
      /\ \A n \in 1 .. N :
           /\ Offset(ps, n) = Offset(ps, n - 1) + Len(ps[n])
           /\ PartOf(flat, Offset(ps, n - 1) + 1, ps[n])
  BY <1>2, Flattened
<1> HIDE DEF flat
<1>7. SetBytes(set) \in Seq(Byte) /\ Len(SetBytes(set)) = Len(h) + Len(flat) /\ Len(flat) \in Nat
  BY <1>1, <1>4, <1>6, ConcatProperties, LenProperties
<1>8. 0 \in 0 .. N /\ N \in 0 .. N
  BY <1>2
<1>9. Len(SetBytes(set)) = PairAt(set, N) /\ PairAt(set, 0) = Len(h)
  <2>1. PairAt(set, N) = Len(h) + Offset(ps, N) /\ PairAt(set, 0) = Len(h) + Offset(ps, 0)
    BY ONLY <1>5, <1>8, Zenon
  <2>2. PairAt(set, N) = Len(h) + Len(flat) /\ PairAt(set, 0) = Len(h) + 0
    BY ONLY <1>6, <2>1, Zenon
  <2> QED BY ONLY <1>1, <1>7, <2>2
<1>10. ASSUME NEW n \in 0 .. N
       PROVE  PairAt(set, n) \in Nat \ {0} /\ PairAt(set, n) <= Len(SetBytes(set))
  BY <1>1, <1>5, <1>6, <1>7
<1>11. ASSUME NEW n \in 1 .. N
       PROVE  /\ n - 1 \in 0 .. N /\ Offset(ps, n - 1) \in Nat /\ Len(ps[n]) \in Nat
              /\ ps[n] \in Seq(Byte)
              /\ PairAt(set, n) = PairAt(set, n - 1) + Len(PairBytes(set.pairs[n]))
  <2>1. n - 1 \in 0 .. N /\ n \in 0 .. N
    BY <1>2
  <2>2. ps[n] \in Seq(Byte) /\ Len(ps[n]) \in Nat
    BY <1>2, ElementOfSeq, LenProperties
  <2>3. Offset(ps, n - 1) \in Nat
    BY <1>6, <2>1
  <2>4. PairAt(set, n) = Len(h) + (Offset(ps, n - 1) + Len(ps[n]))
    BY <1>5, <1>6, <2>1
  <2>5. PairAt(set, n - 1) = Len(h) + Offset(ps, n - 1)
    BY <1>5, <2>1
  <2> QED BY <1>1, <1>3, <2>1, <2>2, <2>3, <2>4, <2>5
<1>12. ASSUME NEW f \in Seq(Byte), NEW p \in Nat \ {0}, PartOf(f, p, SetBytes(set))
       PROVE  /\ PartOf(f, p, h)
              /\ \A n \in 1 .. N : PartOf(f, p + PairAt(set, n - 1), PairBytes(set.pairs[n]))
  <2>1. PartOf(f, p, h) /\ PartOf(f, p + Len(h), flat)
    BY <1>1, <1>4, <1>6, <1>12, PartOfConcat
  <2>2. ASSUME NEW n \in 1 .. N
        PROVE  PartOf(f, p + PairAt(set, n - 1), PairBytes(set.pairs[n]))
    <3> DEFINE q == Offset(ps, n - 1) + 1
               t == ps[n]
               r == p + Len(h)
    <3>1. q \in Nat \ {0} /\ t \in Seq(Byte) /\ r \in Nat \ {0}
      BY <1>1, <1>11
    <3>2. PartOf(flat, q, t)
      BY <1>6
    <3>3. q + Len(t) - 1 <= Len(flat)
      <4>1. Offset(ps, n) = Offset(ps, n - 1) + Len(t) /\ Offset(ps, n) <= Len(flat)
        BY <1>2, <1>6
      <4> QED BY <1>7, <1>11, <4>1
    <3>4. r + q - 1 = p + PairAt(set, n - 1)
      BY <1>1, <1>5, <1>11
    <3> HIDE DEF q, t, r
    <3>5. PartOf(f, r + q - 1, t)
      BY <1>6, <2>1, <3>1, <3>2, <3>3, PartOfPart DEF r
    <3> QED BY <1>3, <3>4, <3>5 DEF t
  <2> QED BY <2>1, <2>2
<1> QED BY <1>7, <1>9, <1>10, <1>11, <1>12 DEF h, N

(* The parts of a file: nine bytes in front, the auxiliary fields, the     *)
(* data sets, and the end mark.                                            *)
LEMMA PartsAreBytes ==
  ASSUME NEW s, IsSnapshot(s)
  PROVE  /\ AuxParts(s) \in Seq(Seq(Byte)) /\ Len(AuxParts(s)) = Len(s.aux)
         /\ Len(s.aux) \in Nat /\ DOMAIN s.aux = 1 .. Len(s.aux)
         /\ SetParts(s) \in Seq(Seq(Byte)) /\ Len(SetParts(s)) = Len(s.sets)
         /\ Len(s.sets) \in Nat /\ DOMAIN s.sets = 1 .. Len(s.sets)
<1>1. /\ s.aux \in Seq(Range(s.aux)) /\ s.sets \in Seq(Range(s.sets))
      /\ \A i \in DOMAIN s.aux : IsString(s.aux[i][1]) /\ IsString(s.aux[i][2])
      /\ \A i \in DOMAIN s.sets : IsSet(s.sets[i])
  BY DEF IsSnapshot
<1>2. /\ Len(s.aux) \in Nat /\ DOMAIN s.aux = 1 .. Len(s.aux)
      /\ Len(s.sets) \in Nat /\ DOMAIN s.sets = 1 .. Len(s.sets)
  BY <1>1, LenProperties
<1>3. \A i \in 1 .. Len(s.aux) : AuxBytes(s.aux[i]) \in Seq(Byte)
  <2>1. TAKE i \in 1 .. Len(s.aux)
  <2> DEFINE field == s.aux[i]
  <2>2. IsString(field[1]) /\ IsString(field[2])
    BY <1>1, <1>2
  <2> HIDE DEF field
  <2>3. AuxBytes(field) \in Seq(Byte)
    BY <2>2, AuxReads
  <2> QED BY <2>3 DEF field
<1>4. \A i \in 1 .. Len(s.sets) : SetBytes(s.sets[i]) \in Seq(Byte)
  <2>1. TAKE i \in 1 .. Len(s.sets)
  <2>2. IsSet(s.sets[i])
    BY <1>1, <1>2
  <2> QED BY <2>2, SetLayout
<1>5. AuxParts(s) \in [1 .. Len(s.aux) -> Seq(Byte)]
  BY <1>2, <1>3 DEF AuxParts
<1>6. SetParts(s) \in [1 .. Len(s.sets) -> Seq(Byte)]
  BY <1>2, <1>4 DEF SetParts
<1> QED BY <1>2, <1>5, <1>6, Mapped

LEMMA TwoInARow ==
  ASSUME NEW s \in Seq(Byte), NEW t \in Seq(Byte)
  PROVE  /\ s \o t \in Seq(Byte) /\ Len(s \o t) = Len(s) + Len(t)
         /\ \A f \in Seq(Byte), p \in Nat \ {0} :
              PartOf(f, p, s \o t) => PartOf(f, p, s) /\ PartOf(f, p + Len(s), t)
BY ConcatProperties, PartOfConcat

LEMMA PartWithin ==
  ASSUME NEW f \in Seq(Byte), NEW r \in Nat, r # 0, NEW s \in Seq(Byte), PartOf(f, r, s),
         NEW o \in Nat, NEW t \in Seq(Byte), PartOf(s, o + 1, t), o + Len(t) <= Len(s)
  PROVE  PartOf(f, r + o, t)
<1> DEFINE q == o + 1
<1>1. q \in Nat \ {0} /\ Len(t) \in Nat /\ Len(s) \in Nat /\ r \in Nat \ {0}
  BY LenProperties
<1>2. q + Len(t) - 1 <= Len(s) /\ r + q - 1 = r + o
  BY <1>1
<1> HIDE DEF q
<1>3. PartOf(s, q, t)
  BY DEF q
<1>4. PartOf(f, r + q - 1, t)
  BY ONLY <1>1, <1>2, <1>3, PartOf(f, r, s), f \in Seq(Byte), s \in Seq(Byte), t \in Seq(Byte),
          PartOfPart
<1> QED BY <1>2, <1>4

LEMMA FrontIsBytes == Magic \o Version \in Seq(Byte) /\ Len(Magic \o Version) = 9
<1>1. Magic \in Seq(Byte) /\ Len(Magic) = 5 /\ Version \in Seq(Byte) /\ Len(Version) = 4
  BY DEF Magic, Version, Byte
<1> HIDE DEF Magic, Version
<1>2. Magic \o Version \in Seq(Byte) /\ Len(Magic \o Version) = Len(Magic) + Len(Version)
  BY <1>1, TwoInARow
<1> QED BY ONLY <1>1, <1>2

LEMMA Layout ==
  ASSUME NEW s, IsSnapshot(s)
  PROVE  /\ File(s) \in Seq(Byte)
         /\ Len(Body(s)) \in Nat /\ Len(Body(s)) <= Len(File(s))
         /\ Len(Body(s)) = SetAt(s, Len(s.sets))
         /\ AuxAt(s, 0) = 10 /\ SetAt(s, 0) = AuxAt(s, Len(s.aux))
         /\ \A n \in 0 .. Len(s.aux) :
              AuxAt(s, n) \in Nat \ {0} /\ AuxAt(s, n) <= Len(Body(s))
         /\ \A n \in 0 .. Len(s.sets) :
              SetAt(s, n) \in Nat \ {0} /\ SetAt(s, n) <= Len(Body(s))
         /\ \A n \in 1 .. Len(s.aux) :
              /\ AuxAt(s, n) = AuxAt(s, n - 1) + Len(AuxBytes(s.aux[n]))
              /\ PartOf(File(s), AuxAt(s, n - 1), AuxBytes(s.aux[n]))
         /\ \A n \in 1 .. Len(s.sets) :
              /\ SetAt(s, n) = SetAt(s, n - 1) + Len(SetBytes(s.sets[n]))
              /\ PartOf(File(s), SetAt(s, n - 1), SetBytes(s.sets[n]))
         /\ PartOf(File(s), 1, Magic \o Version)
         /\ PartOf(File(s), SetAt(s, Len(s.sets)), <<255>>)
<1> DEFINE f == File(s)
           front == Magic \o Version
           as == AuxParts(s)
           ss == SetParts(s)
           a == FlattenSeq(as)
           b == FlattenSeq(ss)
           end == <<255>>
           M == Len(s.aux)
           N == Len(s.sets)
<1>1. /\ as \in Seq(Seq(Byte)) /\ Len(as) = M /\ M \in Nat /\ DOMAIN s.aux = 1 .. M
      /\ ss \in Seq(Seq(Byte)) /\ Len(ss) = N /\ N \in Nat /\ DOMAIN s.sets = 1 .. N
  BY PartsAreBytes
<1>2. /\ \A n \in 1 .. M : as[n] = AuxBytes(s.aux[n])
      /\ \A n \in 1 .. N : ss[n] = SetBytes(s.sets[n])
  BY <1>1 DEF AuxParts, SetParts
<1>3. Body(s) = front \o a \o b \o end /\ f = Body(s) \o CheckSum
  BY DEF Body, File, AuxParts, SetParts
<1>4. /\ front \in Seq(Byte) /\ Len(front) = 9
      /\ end \in Seq(Byte) /\ Len(end) = 1
      /\ CheckSum \in Seq(Byte) /\ Len(CheckSum) = 8
  BY FrontIsBytes DEF CheckSum, Byte
<1> HIDE DEF f, front, as, ss, a, b, end, M, N
<1>5. /\ a \in Seq(Byte) /\ Len(a) \in Nat
      /\ Offset(as, 0) = 0 /\ Offset(as, M) = Len(a)
      /\ \A n \in 0 .. M : Offset(as, n) \in Nat /\ Offset(as, n) <= Len(a)
      /\ \A n \in 1 .. M : /\ Offset(as, n) = Offset(as, n - 1) + Len(as[n])
                           /\ PartOf(a, Offset(as, n - 1) + 1, as[n])
  BY <1>1, Flattened, LenProperties DEF a
<1>6. /\ b \in Seq(Byte) /\ Len(b) \in Nat
      /\ Offset(ss, 0) = 0 /\ Offset(ss, N) = Len(b)
      /\ \A n \in 0 .. N : Offset(ss, n) \in Nat /\ Offset(ss, n) <= Len(b)
      /\ \A n \in 1 .. N : /\ Offset(ss, n) = Offset(ss, n - 1) + Len(ss[n])
                           /\ PartOf(b, Offset(ss, n - 1) + 1, ss[n])
  BY <1>1, Flattened, LenProperties DEF b
<1> DEFINE fa == front \o a
           fab == fa \o b
           body == Body(s)
<1>7. front \in Seq(Byte) /\ a \in Seq(Byte) /\ b \in Seq(Byte) /\ end \in Seq(Byte) /\ CheckSum \in Seq(Byte)
  BY <1>4, <1>5, <1>6
<1>8. body = fab \o end
  BY <1>3
<1> HIDE DEF body
<1>9. /\ fa \in Seq(Byte) /\ Len(fa) = Len(front) + Len(a)
      /\ \A g \in Seq(Byte), p \in Nat \ {0} :
           PartOf(g, p, fa) => PartOf(g, p, front) /\ PartOf(g, p + Len(front), a)
  BY ONLY <1>7, TwoInARow, Zenon
<1> HIDE DEF fa
<1>10. /\ fab \in Seq(Byte) /\ Len(fab) = Len(fa) + Len(b)
       /\ \A g \in Seq(Byte), p \in Nat \ {0} :
            PartOf(g, p, fab) => PartOf(g, p, fa) /\ PartOf(g, p + Len(fa), b)
  BY ONLY <1>7, <1>9, TwoInARow, Zenon
<1> HIDE DEF fab
<1>11. /\ body \in Seq(Byte) /\ Len(body) = Len(fab) + Len(end)
       /\ \A g \in Seq(Byte), p \in Nat \ {0} :
            PartOf(g, p, body) => PartOf(g, p, fab) /\ PartOf(g, p + Len(fab), end)
  BY ONLY <1>7, <1>8, <1>10, TwoInARow, Zenon
<1>22. /\ f \in Seq(Byte) /\ Len(f) = Len(body) + Len(CheckSum)
       /\ \A g \in Seq(Byte), p \in Nat \ {0} : PartOf(g, p, f) => PartOf(g, p, body)
  <2>1. f = body \o CheckSum
    BY <1>3 DEF body
  <2> QED BY ONLY <1>7, <1>11, <2>1, TwoInARow, Zenon
<1>23. /\ Len(fa) = 9 + Len(a) /\ Len(fab) = 9 + Len(a) + Len(b)
       /\ Len(body) = 10 + Len(a) + Len(b) /\ Len(f) = Len(body) + 8
       /\ Len(body) \in Nat /\ Len(body) <= Len(f) /\ Len(f) \in Nat
  <2>1. /\ Len(front) = 9 /\ Len(end) = 1 /\ Len(CheckSum) = 8
        /\ Len(a) \in Nat /\ Len(b) \in Nat
    BY ONLY <1>4, <1>5, <1>6
  <2>2. /\ Len(fa) = Len(front) + Len(a) /\ Len(fab) = Len(fa) + Len(b)
        /\ Len(body) = Len(fab) + Len(end) /\ Len(f) = Len(body) + Len(CheckSum)
    BY ONLY <1>9, <1>10, <1>11, <1>22
  <2> QED BY ONLY <2>1, <2>2
<1>12. /\ PartOf(f, 1, front) /\ PartOf(f, 10, a) /\ PartOf(f, 10 + Len(a), b)
       /\ PartOf(f, 10 + Len(a) + Len(b), end)
  <2>1. PartOf(f, 1, f)
    BY <1>22, <1>23 DEF PartOf
  <2>2. 1 \in Nat \ {0}
    OBVIOUS
  <2>3. PartOf(f, 1, body)
    BY ONLY <1>22, <2>1, <2>2, Zenon
  <2>4. PartOf(f, 1, fab) /\ PartOf(f, 1 + Len(fab), end)
    BY ONLY <1>11, <1>22, <2>2, <2>3, Zenon
  <2>5. PartOf(f, 1, fa) /\ PartOf(f, 1 + Len(fa), b)
    BY ONLY <1>10, <1>22, <2>2, <2>4, Zenon
  <2>6. PartOf(f, 1, front) /\ PartOf(f, 1 + Len(front), a)
    BY ONLY <1>9, <1>22, <2>2, <2>5, Zenon
  <2>7. 1 + Len(front) = 10 /\ 1 + Len(fa) = 10 + Len(a) /\ 1 + Len(fab) = 10 + Len(a) + Len(b)
    BY ONLY <1>4, <1>5, <1>6, <1>23
  <2> QED BY ONLY <2>4, <2>5, <2>6, <2>7
<1>13. /\ \A n \in 0 .. M : AuxAt(s, n) = 10 + Offset(as, n)
       /\ \A n \in 0 .. N : SetAt(s, n) = 10 + Len(a) + Offset(ss, n)
  BY <1>5 DEF AuxAt, SetAt, as, ss, M
<1>14. 0 \in 0 .. M /\ M \in 0 .. M /\ 0 \in 0 .. N /\ N \in 0 .. N
  BY <1>1
<1>15. /\ Len(body) = SetAt(s, N)
       /\ AuxAt(s, 0) = 10 /\ SetAt(s, 0) = AuxAt(s, M)
  <2>1. /\ AuxAt(s, 0) = 10 + Offset(as, 0) /\ AuxAt(s, M) = 10 + Offset(as, M)
        /\ SetAt(s, 0) = 10 + Len(a) + Offset(ss, 0)
        /\ SetAt(s, N) = 10 + Len(a) + Offset(ss, N)
    BY ONLY <1>13, <1>14
  <2>2. /\ Offset(as, 0) = 0 /\ Offset(as, M) = Len(a) /\ Len(a) \in Nat
        /\ Offset(ss, 0) = 0 /\ Offset(ss, N) = Len(b) /\ Len(b) \in Nat
    BY ONLY <1>5, <1>6
  <2>3. Len(body) = 10 + Len(a) + Len(b)
    BY ONLY <1>23
  <2>4. AuxAt(s, 0) = 10 /\ AuxAt(s, M) = 10 + Len(a)
    <3>1. 10 + 0 = 10
      OBVIOUS
    <3> QED BY ONLY <2>1, <2>2, <3>1, Zenon
  <2>5. SetAt(s, 0) = 10 + Len(a)
    <3>1. 10 + Len(a) + 0 = 10 + Len(a)
      BY ONLY <2>2
    <3> QED BY ONLY <2>1, <2>2, <3>1, Zenon
  <2>6. SetAt(s, N) = 10 + Len(a) + Len(b)
    BY ONLY <2>1, <2>2, Zenon
  <2> QED BY ONLY <2>3, <2>4, <2>5, <2>6, Zenon
<1>16. ASSUME NEW n \in 0 .. M
       PROVE  AuxAt(s, n) \in Nat \ {0} /\ AuxAt(s, n) <= Len(body)
  <2> DEFINE x == Offset(as, n)
             y == Len(a)
             z == Len(b)
  <2>1. AuxAt(s, n) = 10 + x /\ x \in Nat /\ x <= y /\ y \in Nat /\ z \in Nat
    BY ONLY <1>5, <1>6, <1>13, n \in 0 .. M
  <2>2. Len(body) = 10 + y + z
    BY ONLY <1>23
  <2> HIDE DEF x, y, z
  <2>3. 10 + x \in Nat \ {0} /\ 10 + x <= 10 + y + z
    BY ONLY <2>1
  <2> QED BY ONLY <2>1, <2>2, <2>3, Zenon
<1>17. ASSUME NEW n \in 0 .. N
       PROVE  SetAt(s, n) \in Nat \ {0} /\ SetAt(s, n) <= Len(body)
  <2>1. /\ SetAt(s, n) = 10 + Len(a) + Offset(ss, n) /\ Offset(ss, n) \in Nat
        /\ Offset(ss, n) <= Len(b) /\ Len(a) \in Nat /\ Len(b) \in Nat
    BY ONLY <1>5, <1>6, <1>13, n \in 0 .. N
  <2>2. Len(body) = 10 + Len(a) + Len(b)
    BY ONLY <1>23
  <2> QED BY ONLY <2>1, <2>2
<1>18. ASSUME NEW n \in 1 .. M
       PROVE  /\ AuxAt(s, n) = AuxAt(s, n - 1) + Len(AuxBytes(s.aux[n]))
              /\ PartOf(f, AuxAt(s, n - 1), AuxBytes(s.aux[n]))
  <2> DEFINE o == Offset(as, n - 1)
             t == as[n]
  <2>1. n - 1 \in 0 .. M /\ n \in 0 .. M
    BY <1>1
  <2>2. t \in Seq(Byte) /\ Len(t) \in Nat
    <3>1. n \in 1 .. Len(as)
      BY <1>1
    <3> QED BY ONLY <1>1, <3>1, ElementOfSeq, LenProperties
  <2>3. /\ o \in Nat /\ Offset(as, n) = o + Len(t) /\ Offset(as, n) <= Len(a)
        /\ PartOf(a, o + 1, t)
    BY ONLY <1>5, <2>1, n \in 1 .. M
  <2>4. AuxAt(s, n - 1) = 10 + o /\ AuxAt(s, n) = 10 + Offset(as, n)
    BY ONLY <1>13, <2>1
  <2>5. t = AuxBytes(s.aux[n])
    BY ONLY <1>2, n \in 1 .. M
  <2> HIDE DEF o, t
  <2>6. PartOf(f, 10 + o, t)
    BY ONLY <1>7, <1>5, <1>12, <1>22, <2>2, <2>3, PartWithin
  <2>7. AuxAt(s, n) = AuxAt(s, n - 1) + Len(t)
    BY ONLY <2>2, <2>3, <2>4
  <2> QED BY ONLY <2>4, <2>5, <2>6, <2>7
<1>19. ASSUME NEW n \in 1 .. N
       PROVE  /\ SetAt(s, n) = SetAt(s, n - 1) + Len(SetBytes(s.sets[n]))
              /\ PartOf(f, SetAt(s, n - 1), SetBytes(s.sets[n]))
  <2> DEFINE o == Offset(ss, n - 1)
             t == ss[n]
             r == 10 + Len(a)
  <2>1. n - 1 \in 0 .. N /\ n \in 0 .. N
    BY <1>1
  <2>2. t \in Seq(Byte) /\ Len(t) \in Nat
    <3>1. n \in 1 .. Len(ss)
      BY <1>1
    <3> QED BY ONLY <1>1, <3>1, ElementOfSeq, LenProperties
  <2>3. /\ o \in Nat /\ Offset(ss, n) = o + Len(t) /\ Offset(ss, n) <= Len(b)
        /\ PartOf(b, o + 1, t)
    BY ONLY <1>6, <2>1, n \in 1 .. N
  <2>4. SetAt(s, n - 1) = r + o /\ SetAt(s, n) = r + Offset(ss, n)
    BY ONLY <1>13, <2>1
  <2>5. t = SetBytes(s.sets[n])
    BY ONLY <1>2, n \in 1 .. N
  <2>6. r \in Nat \ {0} /\ PartOf(f, r, b)
    BY ONLY <1>5, <1>12
  <2> HIDE DEF o, t, r
  <2>7. PartOf(f, r + o, t)
    BY ONLY <1>7, <1>6, <2>6, <1>22, <2>2, <2>3, PartWithin
  <2>8. SetAt(s, n) = SetAt(s, n - 1) + Len(t)
    BY ONLY <2>2, <2>3, <2>4, <2>6
  <2> QED BY ONLY <2>4, <2>5, <2>7, <2>8
<1>20. PartOf(f, SetAt(s, N), end)
  <2>1. SetAt(s, N) = 10 + Len(a) + Len(b)
    BY ONLY <1>15, <1>23
  <2> QED BY ONLY <1>12, <2>1
<1> QED BY ONLY <1>12, <1>15, <1>16, <1>17, <1>18, <1>19, <1>20, <1>22, <1>23
           DEF f, front, end, body, M, N

-----------------------------------------------------------------------------
(* A decoder that finds a value is behind at least one byte of it, and not *)
(* beyond the end of the file.                                             *)
Behind(p, f, r) == r.ok => r.next \in p + 1 .. Len(f) + 1

(* The bytes of a file, and of a file that was cut short.                  *)
LEMMA Elements ==
  ASSUME NEW S, NEW f \in Seq(S)
  PROVE  DOMAIN f = 1 .. Len(f) /\ \A i \in 1 .. Len(f) : f[i] \in S
OBVIOUS

(* What is left of a file that was cut is a sequence of the same bytes.    *)
LEMMA CutShort ==
  ASSUME NEW S, NEW f \in Seq(S), NEW n \in 0 .. Len(f)
  PROVE  SubSeq(f, 1, n) \in Seq(S)
<1>1. \A i \in 1 .. n : f[i] \in S
  BY Elements
<1> QED BY <1>1, SubSeqProperties

USE DEF Byte

(* src/rdb_file_reader.rs:285-386: decode_length.                          *)
LEMMA LengthIsNat ==
  ASSUME NEW f, NEW p \in Nat, NEW b \in 0 .. 255, b = f[p], ~ (b > 194),
         \A i \in 1 .. Extra(b) : f[p + i] \in Nat
  PROVE  LengthAt(f, p) \in Nat
<1>1. CASE b < 64
  BY <1>1 DEF LengthAt
<1>2. CASE b \in 64 .. 127
  <2>1. f[p + 1] \in Nat
    BY <1>2 DEF Extra
  <2> QED BY <1>2, <2>1 DEF LengthAt, Joined
<1>3. CASE b \in 128 .. 191
  <2>1. f[p + 1] \in Nat /\ f[p + 2] \in Nat /\ f[p + 3] \in Nat /\ f[p + 4] \in Nat
    BY <1>3 DEF Extra
  <2>2. LengthAt(f, p) = GreatestFirst(f, p + 1)
    BY <1>3 DEF LengthAt
  <2>3. GreatestFirst(f, p + 1) =
          Joined(Joined(Joined(f[p + 1], f[p + 2]), f[p + 3]), f[p + 4])
    BY DEF GreatestFirst
  <2> QED BY <2>1, <2>2, <2>3 DEF Joined
<1>4. CASE b = 192
  <2>1. f[p + 1] \in Nat
    BY <1>4 DEF Extra
  <2> QED BY <1>4, <2>1 DEF LengthAt
<1>5. CASE b = 193
  <2>1. f[p + 1] \in Nat /\ f[p + 2] \in Nat
    BY <1>5 DEF Extra
  <2> QED BY <1>5, <2>1 DEF LengthAt, Joined
<1>6. CASE b = 194
  <2>1. f[p + 1] \in Nat /\ f[p + 2] \in Nat /\ f[p + 3] \in Nat /\ f[p + 4] \in Nat
    BY <1>6 DEF Extra
  <2>2. LengthAt(f, p) = LeastFirst(0, f, p + 1)
    BY <1>6 DEF LengthAt
  <2>3. LeastFirst(0, f, p + 1) =
          Joined(Joined(Joined(Joined(0, f[p + 4]), f[p + 3]), f[p + 2]), f[p + 1])
    BY DEF LeastFirst
  <2> QED BY <2>1, <2>2, <2>3 DEF Joined
<1> QED BY <1>1, <1>2, <1>3, <1>4, <1>5, <1>6

LEMMA LengthBounds ==
  ASSUME NEW f \in Seq(Byte), NEW p \in Nat \ {0}
  PROVE  /\ Behind(p, f, DecodeLength(f, p))
         /\ DecodeLength(f, p).ok \in BOOLEAN
         /\ DecodeLength(f, p).ok => /\ DecodeLength(f, p).val \in Nat
                                     /\ p \in DOMAIN f
<1> DEFINE refused == p > Len(f) \/ f[p] > 194 \/ p + Extra(f[p]) > Len(f)
<1>1. CASE refused
  BY <1>1 DEF DecodeLength, Failed, Behind
<1>2. CASE ~ refused
  <2>1. \A i \in DOMAIN f : f[i] \in 0 .. 255
    BY Elements, ZenonT(60)
  <2>2. p \in DOMAIN f
    BY <1>2
  <2>3. PICK b \in 0 .. 255 : b = f[p]
    BY <2>1, <2>2
  <2>4. ~ (b > 194) /\ ~ (p + Extra(b) > Len(f))
    BY <1>2, <2>3, Zenon
  <2>5. Extra(b) \in {0, 1, 2, 4}
    BY <2>4 DEF Extra
  <2>6. p + Extra(b) + 1 \in p + 1 .. Len(f) + 1
    BY <2>4, <2>5
  <2>7. \A i \in 1 .. Extra(b) : f[p + i] \in Nat
    <3>1. TAKE i \in 1 .. Extra(b)
    <3>2. p + i \in DOMAIN f
      BY <2>4, <2>5
    <3>3. PICK x \in 0 .. 255 : x = f[p + i]
      BY <2>1, <3>2
    <3>4. x \in Nat
      OBVIOUS
    <3> QED BY <3>3, <3>4, Zenon
  <2>8. LengthAt(f, p) \in Nat
    BY <2>3, <2>4, <2>7, LengthIsNat
  <2>9. DecodeLength(f, p) = Found(LengthAt(f, p), p + Extra(b) + 1)
    BY <1>2, <2>3 DEF DecodeLength
  <2> QED BY <2>2, <2>6, <2>8, <2>9 DEF Found, Behind
<1> QED BY <1>1, <1>2

(* src/rdb_file_reader.rs:250-283: decode_string.                          *)
LEMMA StringBounds ==
  ASSUME NEW f \in Seq(Byte), NEW p \in Nat \ {0}
  PROVE  /\ Behind(p, f, DecodeString(f, p))
         /\ DecodeString(f, p).ok \in BOOLEAN
<1> DEFINE length == DecodeLength(f, p)
<1>1. CASE ~ length.ok
  BY <1>1 DEF DecodeString, Failed, Behind
<1>2. CASE length.ok
  <2>1. length.next \in p + 1 .. Len(f) + 1 /\ length.val \in Nat
    BY <1>2, LengthBounds DEF Behind
  <2>2. CASE f[p] >= 192
    BY <1>2, <2>1, <2>2 DEF DecodeString, Found, Behind
  <2>3. CASE ~ (f[p] >= 192) /\ length.next + length.val - 1 > Len(f)
    BY <1>2, <2>3 DEF DecodeString, Failed, Behind
  <2>4. CASE ~ (f[p] >= 192) /\ ~ (length.next + length.val - 1 > Len(f))
    <3>1. DecodeString(f, p).ok = TRUE
      BY <1>2, <2>4 DEF DecodeString, Found
    <3>2. DecodeString(f, p).next = length.next + length.val - 1 + 1
      BY <1>2, <2>4 DEF DecodeString, Found
    <3>3. length.next + length.val - 1 + 1 \in p + 1 .. Len(f) + 1
      BY <2>1, <2>4
    <3> QED BY <3>1, <3>2, <3>3 DEF Behind
  <2> QED BY <2>2, <2>3, <2>4
<1> QED BY <1>1, <1>2, LengthBounds

LEMMA TwoStringsBounds ==
  ASSUME NEW f \in Seq(Byte), NEW p \in Nat \ {0}
  PROVE  /\ Behind(p, f, TwoStrings(f, p))
         /\ TwoStrings(f, p).ok \in BOOLEAN
<1> DEFINE first == DecodeString(f, p)
           second == DecodeString(f, first.next)
<1>1. CASE ~ first.ok
  BY <1>1 DEF TwoStrings, Failed, Behind
<1>2. CASE first.ok
  <2>1. first.next \in p + 1 .. Len(f) + 1
    BY <1>2, StringBounds DEF Behind
  <2>2. first.next \in Nat \ {0}
    BY <2>1
  <2>3. second.ok \in BOOLEAN /\ (second.ok => second.next \in first.next + 1 .. Len(f) + 1)
    BY <2>2, StringBounds DEF Behind
  <2>4. CASE ~ second.ok
    BY <1>2, <2>4 DEF TwoStrings, Failed, Behind
  <2>5. CASE second.ok
    <3>1. TwoStrings(f, p) = Found(<<first.val, second.val>>, second.next)
      BY <1>2, <2>5 DEF TwoStrings
    <3> QED BY <2>1, <2>3, <2>5, <3>1 DEF Found, Behind
  <2> QED BY <2>3, <2>4, <2>5
<1> QED BY <1>1, <1>2, StringBounds

(* src/rdb_file_reader.rs:138-199: a pair with its deadline.               *)
LEMMA PairBounds ==
  ASSUME NEW f \in Seq(Byte), NEW p \in Nat \ {0}
  PROVE  /\ Behind(p, f, ReadPair(f, p))
         /\ ReadPair(f, p).ok \in BOOLEAN
<1> DEFINE at == IF Stamped(f, p) = 0 THEN p ELSE p + Stamped(f, p) + 1
           data == ParseData(f, at)
<1>1. CASE p > Len(f)
  BY <1>1 DEF ReadPair, Failed, Behind
<1>2. CASE ~ (p > Len(f))
  <2>1. at \in Nat \ {0} /\ at >= p
    BY DEF Stamped
  <2>2. Behind(at, f, data) /\ data.ok \in BOOLEAN
    <3>1. CASE at > Len(f)
      BY <3>1 DEF ParseData, Failed, Behind
    <3>2. CASE ~ (at > Len(f)) /\ f[at] # 0
      BY <3>2 DEF ParseData, Failed, Behind
    <3>3. CASE ~ (at > Len(f)) /\ f[at] = 0
      <4>1. data = TwoStrings(f, at + 1)
        BY <3>3 DEF ParseData
      <4>2. at + 1 \in Nat \ {0}
        BY <2>1
      <4>3. Behind(at + 1, f, TwoStrings(f, at + 1)) /\ TwoStrings(f, at + 1).ok \in BOOLEAN
        BY <4>2, TwoStringsBounds
      <4> QED BY <2>1, <4>1, <4>3 DEF Behind
    <3> QED BY <3>1, <3>2, <3>3
  <2> HIDE DEF data, at
  <2>3. ReadPair(f, p) =
          IF ~ data.ok THEN Failed
          ELSE Found([key |-> data.val[1], val |-> data.val[2], exp |-> Expiration(f, p)],
                     data.next)
    BY <1>2 DEF ReadPair, data, at
  <2>4. CASE ~ data.ok
    BY <2>3, <2>4 DEF Failed, Behind
  <2>5. CASE data.ok
    <3>1. ReadPair(f, p).next = data.next /\ ReadPair(f, p).ok = TRUE
      BY <2>3, <2>5 DEF Found
    <3>2. data.next \in p + 1 .. Len(f) + 1
      BY <2>1, <2>2, <2>5 DEF Behind
    <3> QED BY <3>1, <3>2 DEF Behind
  <2> QED BY <2>2, <2>4, <2>5
<1> QED BY <1>1, <1>2

(* src/rdb_file_reader.rs:125-137: the numbers in front of a data set.     *)
LEMMA SizesBounds ==
  ASSUME bytes \in Seq(Byte), NEW p \in Nat \ {0}
  PROVE  /\ Behind(p, bytes, Sizes(p))
         /\ Sizes(p).ok \in BOOLEAN
         /\ Sizes(p).ok => Sizes(p).val \in Nat
<1> DEFINE index == DecodeLength(bytes, p)
           normal == DecodeLength(bytes, index.next + 1)
           expiry == DecodeLength(bytes, normal.next)
<1>1. CASE ~ index.ok
  BY <1>1 DEF Sizes, Failed, Behind
<1>2. CASE index.ok
  <2>1. index.next \in p + 1 .. Len(bytes) + 1
    BY <1>2, LengthBounds DEF Behind
  <2>2. index.next + 1 \in Nat \ {0}
    BY <2>1
  <2>3. /\ normal.ok \in BOOLEAN
        /\ normal.ok => /\ normal.next \in index.next + 1 + 1 .. Len(bytes) + 1
                        /\ normal.val \in Nat
    BY <2>2, LengthBounds DEF Behind
  <2>4. CASE ~ normal.ok
    BY <1>2, <2>4 DEF Sizes, Failed, Behind
  <2>5. CASE normal.ok
    <3>1. normal.next \in Nat \ {0}
      BY <2>1, <2>3, <2>5
    <3>2. /\ expiry.ok \in BOOLEAN
          /\ expiry.ok => /\ expiry.next \in normal.next + 1 .. Len(bytes) + 1
                          /\ expiry.val \in Nat
      BY <3>1, LengthBounds DEF Behind
    <3>3. CASE ~ expiry.ok
      BY <1>2, <2>5, <3>3 DEF Sizes, Failed, Behind
    <3>4. CASE expiry.ok
      <4>1. Sizes(p) = Found(Larger(normal.val, expiry.val), expiry.next)
        BY <1>2, <2>5, <3>4 DEF Sizes
      <4>2. Larger(normal.val, expiry.val) \in Nat
        BY <2>3, <2>5, <3>2, <3>4 DEF Larger
      <4> HIDE DEF index, normal, expiry
      <4> QED BY <2>1, <2>3, <2>5, <3>2, <3>4, <4>1, <4>2 DEF Found, Behind
    <3> QED BY <3>2, <3>3, <3>4
  <2> QED BY <2>3, <2>4, <2>5
<1> QED BY <1>1, <1>2, LengthBounds

-----------------------------------------------------------------------------
(* What a turn does to phase, pos and left.                                *)
Turn ==
  /\ bytes' = bytes
  /\ \/ phase' = "failed" /\ pos' = pos /\ left' = 0
     \/ phase = "header" /\ phase' = "metadata" /\ pos' = 10 /\ Len(bytes) >= 9 /\ left' = left
     \/ /\ phase = "metadata" /\ phase' = phase /\ left' = left
        /\ pos' \in pos + 1 .. Len(bytes) + 1
     \/ /\ phase = "metadata" /\ phase' \in {"database", "checksum"}
        /\ pos' = pos /\ left' = left
     \/ /\ phase \in {"database", "pairs"} /\ pos' \in pos + 1 .. Len(bytes) + 1
        /\ left' \in Nat /\ phase' = IF left' = 0 THEN "database" ELSE "pairs"
     \/ phase = "database" /\ phase' = "checksum" /\ pos' = pos /\ left' = left
     \/ phase = "checksum" /\ phase' = "ok" /\ pos' = pos /\ left' = left

(* src/rdb_file_reader.rs:51-219: every step is one of these turns.        *)
LEMMA NextIsATurn == TypeOK /\ Next => Turn /\ phase \notin {"ok", "failed"}
<1> SUFFICES ASSUME TypeOK, Next
             PROVE  Turn /\ phase \notin {"ok", "failed"}
  OBVIOUS
<1> USE DEF TypeOK
<1>1. ASSUME Refuse PROVE Turn
  BY <1>1 DEF Refuse, Turn
<1>2. pos \in Nat \ {0} /\ pos + 1 \in Nat \ {0}
  OBVIOUS
<1>3. CASE ReadHeader
  BY <1>1, <1>3 DEF ReadHeader, Turn
<1>4. CASE AuxField
  <2>1. Behind(pos + 1, bytes, TwoStrings(bytes, pos + 1))
    BY <1>2, TwoStringsBounds
  <2>2. TwoStrings(bytes, pos + 1).ok =>
          TwoStrings(bytes, pos + 1).next \in pos + 1 .. Len(bytes) + 1
    BY <2>1 DEF Behind
  <2> QED BY <1>1, <1>4, <2>2 DEF AuxField, Turn
<1>5. CASE EndMetadata
  BY <1>5 DEF EndMetadata, Turn
<1>6. CASE SelectDb
  <2>1. /\ Behind(pos + 1, bytes, Sizes(pos + 1))
        /\ Sizes(pos + 1).ok => Sizes(pos + 1).val \in Nat
    BY <1>2, SizesBounds
  <2>2. CASE Sizes(pos + 1).ok
    <3>1. pos' = Sizes(pos + 1).next /\ left' = Sizes(pos + 1).val /\ bytes' = bytes
      BY <1>6, <2>2 DEF SelectDb, Collect
    <3>2. phase' = IF left' = 0 THEN "database" ELSE "pairs"
      BY <1>6, <2>2 DEF SelectDb, Collect
    <3>3. pos' \in pos + 1 .. Len(bytes) + 1
      BY <2>1, <2>2, <3>1 DEF Behind
    <3>4. phase = "database"
      BY <1>6 DEF SelectDb
    <3> QED BY <2>1, <2>2, <3>1, <3>2, <3>3, <3>4 DEF Turn
  <2>3. CASE ~ Sizes(pos + 1).ok
    BY <1>1, <1>6, <2>3 DEF SelectDb
  <2> QED BY <1>6, <2>2, <2>3 DEF SelectDb
<1>7. CASE TakePair
  <2>1. Behind(pos, bytes, ReadPair(bytes, pos))
    BY <1>2, PairBounds
  <2>2. CASE ReadPair(bytes, pos).ok
    <3>1. pos' = ReadPair(bytes, pos).next /\ left' = left - 1 /\ bytes' = bytes
      BY <1>7, <2>2 DEF TakePair, Collect
    <3>2. phase = "pairs" /\ phase' = IF left' = 0 THEN "database" ELSE "pairs"
      BY <1>7, <2>2 DEF TakePair, Collect
    <3>3. pos' \in pos + 1 .. Len(bytes) + 1
      BY <2>1, <2>2, <3>1 DEF Behind
    <3> QED BY <3>1, <3>2, <3>3 DEF Turn
  <2>3. CASE ~ ReadPair(bytes, pos).ok
    BY <1>1, <1>7, <2>3 DEF TakePair
  <2> QED BY <1>7, <2>2, <2>3 DEF TakePair
<1>8. CASE EndDatabases
  BY <1>8 DEF EndDatabases, Turn
<1>9. CASE Unexpected
  BY <1>1, <1>9 DEF Unexpected
<1>10. CASE Finish
  BY <1>10 DEF Finish, Turn
<1> QED BY <1>3, <1>4, <1>5, <1>6, <1>7, <1>8, <1>9, <1>10 DEF Next

(* The reader in front of any bytes at all, whoever wrote them.            *)
AnyFile ==
  /\ bytes \in Seq(Byte)
  /\ phase = "header" /\ pos = 1 /\ left = 0
AnySpec == AnyFile /\ [][Next]_vars

LEMMA RedisFilesAreFiles == Init => AnyFile
<1> SUFFICES ASSUME Init PROVE bytes \in Seq(Byte)
  BY DEF Init, AnyFile
<1>1. File(written) \in Seq(Byte)
  <2>1. IsSnapshot(written)
    BY SnapshotsAreRedis DEF Init
  <2> QED BY <2>1, Layout
<1>2. PICK n \in 0 .. Len(File(written)) : bytes = SubSeq(File(written), 1, n)
  BY DEF Init
<1> DEFINE file == File(written)
<1>3. file \in Seq(Byte) /\ n \in 0 .. Len(file)
  BY <1>1
<1> HIDE DEF file
<1>4. SubSeq(file, 1, n) \in Seq(Byte)
  BY <1>3, CutShort
<1> QED BY <1>2, <1>4 DEF file

(* src/rdb_file_reader.rs:38-226: on no sequence of bytes, be it a file of *)
(* Redis or not, does the reader leave the file, and it is in the middle   *)
(* of a data set exactly as long as that set lacks a pair.                 *)
THEOREM ReaderTypeCorrect == AnySpec => []TypeOK
<1>1. AnyFile => TypeOK
  BY DEF AnyFile, TypeOK, Phases
<1>2. TypeOK /\ [Next]_vars => TypeOK'
  <2> SUFFICES ASSUME TypeOK, [Next]_vars PROVE TypeOK'
    OBVIOUS
  <2>1. CASE Next
    <3>1. Turn
      BY <2>1, NextIsATurn
    <3> QED BY <3>1 DEF Turn, TypeOK, Phases
  <2>2. CASE UNCHANGED vars
    BY <2>2 DEF vars, TypeOK
  <2> QED BY <2>1, <2>2
<1> QED BY <1>1, <1>2, PTL DEF AnySpec

LEMMA RedisFilesAreRead == Spec => []TypeOK
<1>1. Init => AnyFile
  BY RedisFilesAreFiles
<1> QED BY <1>1, ReaderTypeCorrect, PTL DEF Spec, AnySpec

(* src/rdb_file_reader.rs:51-219: every turn of the loop takes a byte or   *)
(* goes on to a later phase; since the file is finite and there are five   *)
(* ranks, the loop ends on every sequence of bytes, whoever wrote it.      *)
THEOREM ReaderAdvances == AnySpec => TurnsAdvance
<1>1. TypeOK /\ [Next]_vars => [Rank' > Rank \/ (Rank' = Rank /\ pos' > pos)]_vars
  <2> SUFFICES ASSUME TypeOK, Next
               PROVE  Rank' > Rank \/ (Rank' = Rank /\ pos' > pos)
    BY DEF vars
  <2>1. Turn /\ phase \notin {"ok", "failed"}
    BY NextIsATurn
  <2>2. pos \in Nat /\ phase \in Phases
    BY DEF TypeOK
  <2> QED BY <2>1, <2>2 DEF Turn, Rank, Phases
<1> QED BY <1>1, ReaderTypeCorrect, PTL DEF AnySpec, TurnsAdvance

-----------------------------------------------------------------------------
(* How far the reader has come: behind the first n auxiliary fields, behind*)
(* the first n data sets, or in the next one behind its first m pairs, and *)
(* that it has what these say.                                             *)
Prefix(g, n) == [i \in 1 .. n |-> g[i]]

KnownFields(n) == \A i \in 1 .. n : Known(written.aux[i][1]) /\ Known(written.aux[i][2])
KnownPairs(i, n) == \A j \in 1 .. n : KnownPair(written.sets[i].pairs[j])
KnownSets(n) == \A i \in 1 .. n : KnownPairs(i, Len(written.sets[i].pairs))

AtField(n) ==
  /\ pos = AuxAt(written, n)
  /\ datasets = <<>> /\ pairs = <<>>
  /\ KnownFields(n)
AtSet(n) ==
  /\ pos = SetAt(written, n)
  /\ datasets = Prefix(Contents, n) /\ pairs = <<>>
  /\ KnownFields(Len(written.aux)) /\ KnownSets(n)
AtPair(n, m) ==
  /\ pos = SetAt(written, n) + PairAt(written.sets[n + 1], m)
  /\ left = Len(written.sets[n + 1].pairs) - m
  /\ datasets = Prefix(Contents, n) /\ pairs = Prefix(Contents[n + 1], m)
  /\ KnownFields(Len(written.aux)) /\ KnownSets(n) /\ KnownPairs(n + 1, m)

Progress ==
  /\ phase = "header" => datasets = <<>> /\ pairs = <<>>
  /\ phase = "metadata" => \E n \in 0 .. Len(written.aux) : AtField(n)
  /\ phase = "database" => \E n \in 0 .. Len(written.sets) : AtSet(n)
  /\ phase = "pairs" =>
       \E n \in 0 .. Len(written.sets) - 1 :
         \E m \in 0 .. Len(written.sets[n + 1].pairs) - 1 : AtPair(n, m)
  /\ phase \in {"checksum", "ok"} => Whole /\ Understood /\ datasets = Contents
  /\ phase = "failed" => ~ Whole \/ ~ Understood

(* The file is what is left of the one that was written.                   *)
Cut ==
  /\ written \in Snapshots
  /\ \E n \in 0 .. Len(File(written)) : bytes = SubSeq(File(written), 1, n)

SnapshotInv == TypeOK /\ Cut /\ (Sized => Progress)

LEMMA PrefixIsSeq ==
  ASSUME NEW g, NEW n \in Nat
  PROVE  /\ Prefix(g, n) \in Seq({g[i] : i \in 1 .. n + 1})
         /\ Len(Prefix(g, n)) = n
         /\ \A i \in 1 .. n : Prefix(g, n)[i] = g[i]
<1>1. Prefix(g, n) \in [1 .. n -> {g[i] : i \in 1 .. n + 1}]
  BY DEF Prefix
<1>2. Prefix(g, n) \in Seq({g[i] : i \in 1 .. n + 1}) /\ Len(Prefix(g, n)) = n
  BY <1>1, Mapped
<1> QED BY <1>2 DEF Prefix

LEMMA PrefixGrows ==
  ASSUME NEW g, NEW n \in Nat
  PROVE  Append(Prefix(g, n), g[n + 1]) = Prefix(g, n + 1)
<1> DEFINE S == {g[i] : i \in 1 .. n + 1}
           s == Prefix(g, n)
           x == g[n + 1]
           t == Prefix(g, n + 1)
<1>1. s \in Seq(S) /\ Len(s) = n /\ \A i \in 1 .. n : s[i] = g[i]
  BY PrefixIsSeq
<1>2. x \in S
  BY n + 1 \in 1 .. n + 1
<1>3. t \in [1 .. n + 1 -> S] /\ \A i \in 1 .. n + 1 : t[i] = g[i]
  BY DEF Prefix
<1>4. t \in Seq(S) /\ Len(t) = n + 1
  <2>1. n + 1 \in Nat /\ t \in [1 .. n + 1 -> S]
    BY <1>3
  <2> HIDE DEF t, S
  <2> QED BY <2>1, Mapped
<1>5. x = g[n + 1]
  OBVIOUS
<1> HIDE DEF S, s, x, t
<1>6. Append(s, x) \in Seq(S) /\ Len(Append(s, x)) = n + 1
  BY <1>1, <1>2
<1>7. \A i \in 1 .. n + 1 : Append(s, x)[i] = t[i]
  <2>1. TAKE i \in 1 .. n + 1
  <2>2. CASE i = n + 1
    <3>1. Append(s, x)[n + 1] = x
      BY <1>1, <1>2
    <3> QED BY <1>3, <1>5, <2>2, <3>1
  <2>3. CASE i # n + 1
    <3>1. i \in 1 .. n
      BY <2>3
    <3>2. Append(s, x)[i] = s[i]
      BY <1>1, <1>2, <3>1
    <3> QED BY <1>1, <1>3, <3>1, <3>2
  <2> QED BY <2>2, <2>3
<1>8. Append(s, x) = t
  BY <1>4, <1>6, <1>7, Extensional
<1> QED BY <1>8 DEF s, x, t

LEMMA PrefixIsEmpty == \A g : Prefix(g, 0) = <<>>
<1>1. TAKE g
<1>2. Prefix(g, 0) \in Seq({g[i] : i \in 1 .. 0 + 1}) /\ Len(Prefix(g, 0)) = 0
  BY PrefixIsSeq
<1> QED BY <1>2, EmptySeq

(* What is settled by an answer of a decoder.                              *)
LEMMA ReadsMeans ==
  ASSUME NEW known, NEW r, NEW f, NEW p, NEW n, NEW v, ReadsIf(known, r, f, p, n, v)
  PROVE  /\ r.ok => known /\ r.val = v /\ r.next = p + n
         /\ ~ r.ok => ~ known \/ ~ (p + n - 1 <= Len(f))
BY DEF ReadsIf, Reads, Found

(* The places of the parts, in what is left of the file.                   *)
LEMMA CutLayout ==
  ASSUME Cut
  PROVE  /\ IsSnapshot(written) /\ bytes \in Seq(Byte) /\ Len(bytes) \in Nat
         /\ Len(Body(written)) \in Nat
         /\ \A p \in Nat \ {0}, s \in Seq(Byte) :
              PartOf(File(written), p, s) => PartOf(bytes, p, s)
<1>1. IsSnapshot(written)
  BY SnapshotsAreRedis DEF Cut
<1>2. File(written) \in Seq(Byte) /\ Len(Body(written)) \in Nat
  BY <1>1, Layout
<1> DEFINE file == File(written)
<1>3. PICK n \in 0 .. Len(file) : bytes = SubSeq(file, 1, n)
  BY DEF Cut
<1> HIDE DEF file
<1>4. file \in Seq(Byte)
  BY <1>2 DEF file
<1>5. bytes \in Seq(Byte)
  BY <1>3, <1>4, CutShort
<1>6. ASSUME NEW p \in Nat \ {0}, NEW s \in Seq(Byte), PartOf(file, p, s)
      PROVE  PartOf(bytes, p, s)
  BY <1>3, <1>4, <1>6, PartOfPrefix
<1> QED BY <1>1, <1>2, <1>5, <1>6, LenProperties DEF file

(* src/rdb_file_reader.rs:94-112: what the reader finds behind the first n *)
(* auxiliary fields.                                                       *)
LEMMA AtFields ==
  ASSUME Cut, NEW n \in 0 .. Len(written.aux) - 1,
         NEW p, p = AuxAt(written, n), NEW q, q = AuxAt(written, n + 1)
  PROVE  /\ p <= Len(bytes) => bytes[p] = 250
         /\ TwoStrings(bytes, p + 1).ok =>
              /\ Known(written.aux[n + 1][1]) /\ Known(written.aux[n + 1][2])
              /\ TwoStrings(bytes, p + 1).next = q
         /\ ~ TwoStrings(bytes, p + 1).ok =>
              \/ ~ Known(written.aux[n + 1][1]) \/ ~ Known(written.aux[n + 1][2])
              \/ ~ Whole
<1> DEFINE field == written.aux[n + 1]
           b == AuxBytes(field)
           r == TwoStrings(bytes, p + 1)
           known == Known(field[1]) /\ Known(field[2])
           v == <<Meaning(field[1]), Meaning(field[2])>>
<1>1. IsSnapshot(written) /\ bytes \in Seq(Byte) /\ Len(bytes) \in Nat
  BY CutLayout
<1>2. Len(written.aux) \in Nat /\ DOMAIN written.aux = 1 .. Len(written.aux)
  BY <1>1, PartsAreBytes
<1>3. n + 1 \in 1 .. Len(written.aux) /\ n \in 0 .. Len(written.aux) /\ n + 1 - 1 = n
      /\ n + 1 \in 0 .. Len(written.aux)
  BY <1>2
<1>4. IsString(field[1]) /\ IsString(field[2])
  BY <1>1, <1>2, <1>3 DEF IsSnapshot
<1>5. /\ p \in Nat \ {0} /\ q \in Nat \ {0} /\ q <= Len(Body(written))
      /\ q = p + Len(b) /\ PartOf(File(written), p, b)
  BY <1>1, <1>3, Layout
<1> HIDE DEF field, b, r, known, v
<1>6. /\ b \in Seq(Byte) /\ Len(b) \in Nat \ {0}
      /\ \A f \in Seq(Byte), x \in Nat \ {0} :
           PartOf(f, x, b) =>
             /\ x <= Len(f) => f[x] = 250
             /\ ReadsIf(known, TwoStrings(f, x + 1), f, x + 1, Len(b) - 1, v)
  BY <1>4, AuxReads DEF b, known, v
<1>7. PartOf(bytes, p, b)
  BY <1>5, <1>6, CutLayout
<1>8. /\ p <= Len(bytes) => bytes[p] = 250
      /\ ReadsIf(known, r, bytes, p + 1, Len(b) - 1, v)
  BY <1>1, <1>5, <1>6, <1>7 DEF r
<1>9. /\ r.ok => known /\ r.next = p + 1 + (Len(b) - 1)
      /\ ~ r.ok => ~ known \/ ~ (p + 1 + (Len(b) - 1) - 1 <= Len(bytes))
  BY <1>8, ReadsMeans
<1>10. p + 1 + (Len(b) - 1) = q
  BY <1>5, <1>6
<1>11. ~ (q - 1 <= Len(bytes)) => ~ Whole
  BY <1>1, <1>5, CutLayout DEF Whole
<1>12. r.ok => known /\ r.next = q
  BY ONLY <1>9, <1>10
<1>13. ~ r.ok => ~ known \/ ~ Whole
  <2>1. ~ r.ok => ~ known \/ ~ (q - 1 <= Len(bytes))
    <3>1. p + 1 + (Len(b) - 1) - 1 = q - 1
      BY <1>5, <1>6, <1>10
    <3> QED BY ONLY <1>9, <3>1, Zenon
  <2> QED BY ONLY <1>11, <2>1, Zenon
<1> QED BY ONLY <1>8, <1>12, <1>13, Zenon DEF known, field, r

(* src/rdb_file_reader.rs:113-137: behind the first n data sets.           *)
LEMMA SizesRead ==
  ASSUME bytes \in Seq(Byte), NEW p \in Nat \ {0}, NEW set, IsSet(set), set.sized,
         PartOf(bytes, p, SetHeader(set))
  PROVE  /\ Sizes(p + 1).ok =>
              /\ Sizes(p + 1).val = Len(set.pairs)
              /\ Sizes(p + 1).next = p + Len(SetHeader(set))
         /\ ~ Sizes(p + 1).ok => ~ (p + Len(SetHeader(set)) - 1 <= Len(bytes))
<1> DEFINE h == Len(SetHeader(set))
           m == Len(set.pairs)
           d == Cardinality(WithDeadline(set.pairs))
           index == DecodeLength(bytes, p + 1)
           normal == DecodeLength(bytes, index.next + 1)
           expiry == DecodeLength(bytes, normal.next)
<1>1. Sizes(p + 1) = IF ~ index.ok THEN Failed
                     ELSE IF ~ normal.ok THEN Failed
                     ELSE IF ~ expiry.ok THEN Failed
                     ELSE Found(Larger(normal.val, expiry.val), expiry.next)
  BY DEF Sizes
<1>2. PICK a, b, c \in Nat \ {0} :
        /\ h = 1 + a + 1 + b + c
        /\ Reads(index, bytes, p + 1, a, set.db)
        /\ Reads(DecodeLength(bytes, p + 1 + a + 1), bytes, p + 1 + a + 1, b, m)
        /\ Reads(DecodeLength(bytes, p + 1 + a + 1 + b), bytes, p + 1 + a + 1 + b, c, d)
  <2>1. \E a, b, c \in Nat \ {0} :
          /\ set.sized => h = 1 + a + 1 + b + c
          /\ \A f \in Seq(Byte), x \in Nat \ {0} :
               set.sized /\ PartOf(f, x, SetHeader(set)) =>
                 /\ Reads(DecodeLength(f, x + 1), f, x + 1, a, set.db)
                 /\ Reads(DecodeLength(f, x + 1 + a + 1), f, x + 1 + a + 1, b, m)
                 /\ Reads(DecodeLength(f, x + 1 + a + 1 + b), f, x + 1 + a + 1 + b, c, d)
    BY HeaderParts, Zenon
  <2> HIDE DEF h, m, d
  <2> QED BY ONLY <2>1, bytes \in Seq(Byte), p \in Nat \ {0}, set.sized,
                  PartOf(bytes, p, SetHeader(set)), Zenon DEF index
<1>3. m \in Nat /\ d \in Nat /\ d <= m /\ Len(bytes) \in Nat
  <2>1. set.pairs \in Seq(Range(set.pairs))
    BY DEF IsSet
  <2> QED BY <2>1, FewerWithDeadline, LenProperties
<1>4. Larger(m, d) = m
  <2> HIDE DEF m, d
  <2> QED BY <1>3 DEF Larger
<1> HIDE DEF h, m, d, index
<1>5. CASE ~ index.ok
  <2>1. ~ (p + 1 + a - 1 <= Len(bytes))
    BY <1>2, <1>5 DEF Reads, Found
  <2>2. ~ (p + h - 1 <= Len(bytes))
    BY <1>2, <1>3, <2>1
  <2>3. Sizes(p + 1) = Failed
    BY <1>1, <1>5
  <2> QED BY <2>2, <2>3 DEF Failed, h
<1>6. CASE index.ok
  <2>1. index.next + 1 = p + 1 + a + 1
    BY <1>2, <1>6 DEF Reads, Found
  <2>2. Reads(normal, bytes, p + 1 + a + 1, b, m)
    BY <1>2, <2>1
  <2> HIDE DEF normal
  <2>3. CASE ~ normal.ok
    <3>1. ~ (p + 1 + a + 1 + b - 1 <= Len(bytes))
      BY <2>2, <2>3 DEF Reads, Found
    <3>2. ~ (p + h - 1 <= Len(bytes))
      BY <1>2, <1>3, <3>1
    <3>3. Sizes(p + 1) = Failed
      BY <1>1, <1>6, <2>3
    <3> QED BY <3>2, <3>3 DEF Failed, h
  <2>4. CASE normal.ok
    <3>1. normal.next = p + 1 + a + 1 + b /\ normal.val = m
      BY <2>2, <2>4 DEF Reads, Found
    <3>2. Reads(expiry, bytes, p + 1 + a + 1 + b, c, d)
      BY <1>2, <3>1
    <3> HIDE DEF expiry
    <3>3. CASE ~ expiry.ok
      <4>1. ~ (p + 1 + a + 1 + b + c - 1 <= Len(bytes))
        BY <3>2, <3>3 DEF Reads, Found
      <4>2. ~ (p + h - 1 <= Len(bytes))
        BY <1>2, <1>3, <4>1
      <4>3. Sizes(p + 1) = Failed
        BY <1>1, <1>6, <2>4, <3>3
      <4> QED BY <4>2, <4>3 DEF Failed, h
    <3>4. CASE expiry.ok
      <4>1. expiry.next = p + 1 + a + 1 + b + c /\ expiry.val = d
        BY <3>2, <3>4 DEF Reads, Found
      <4>2. p + 1 + a + 1 + b + c = p + h
        BY <1>2
      <4>3. Sizes(p + 1) = Found(m, p + h)
        BY <1>1, <1>4, <1>6, <2>4, <3>1, <3>4, <4>1, <4>2
      <4> QED BY <4>3 DEF Found, h, m
    <3> QED BY <3>3, <3>4
  <2> QED BY <2>3, <2>4
<1> QED BY <1>5, <1>6

LEMMA SetPlaces ==
  ASSUME Cut, NEW n \in 0 .. Len(written.sets) - 1
  PROVE  /\ IsSet(written.sets[n + 1])
         /\ SetAt(written, n) \in Nat \ {0}
         /\ SetAt(written, n + 1) \in Nat /\ SetAt(written, n + 1) <= Len(Body(written))
         /\ SetAt(written, n + 1) = SetAt(written, n) + Len(SetBytes(written.sets[n + 1]))
         /\ PartOf(bytes, SetAt(written, n), SetBytes(written.sets[n + 1]))
<1> DEFINE set == written.sets[n + 1]
           p == SetAt(written, n)
           b == SetBytes(set)
<1>1. IsSnapshot(written)
  BY CutLayout
<1>2. Len(written.sets) \in Nat /\ DOMAIN written.sets = 1 .. Len(written.sets)
  BY <1>1, PartsAreBytes
<1>3. n + 1 \in 1 .. Len(written.sets) /\ n \in 0 .. Len(written.sets) /\ n + 1 - 1 = n
      /\ n + 1 \in 0 .. Len(written.sets)
  BY <1>2
<1>4. IsSet(set)
  BY <1>1, <1>2, <1>3 DEF IsSnapshot
<1>5. /\ p \in Nat \ {0} /\ SetAt(written, n + 1) \in Nat
      /\ SetAt(written, n + 1) <= Len(Body(written))
      /\ SetAt(written, n + 1) = p + Len(b) /\ PartOf(File(written), p, b)
  BY <1>1, <1>3, Layout
<1>6. b \in Seq(Byte)
  BY <1>4, SetLayout
<1> HIDE DEF p, b
<1>7. PartOf(bytes, p, b)
  BY <1>5, <1>6, CutLayout
<1> QED BY <1>4, <1>5, <1>7 DEF p, b

LEMMA AtSets ==
  ASSUME Cut, Sized, NEW n \in 0 .. Len(written.sets) - 1, NEW p, p = SetAt(written, n)
  PROVE  /\ p <= Len(bytes) => bytes[p] = 254
         /\ Sizes(p + 1).ok =>
              /\ Sizes(p + 1).val = Len(written.sets[n + 1].pairs)
              /\ Sizes(p + 1).next = p + PairAt(written.sets[n + 1], 0)
         /\ ~ Sizes(p + 1).ok => ~ Whole
<1> DEFINE set == written.sets[n + 1]
           h == SetHeader(set)
           b == SetBytes(set)
<1>1. /\ IsSet(set) /\ p \in Nat \ {0} /\ PartOf(bytes, p, b)
      /\ p + Len(b) <= Len(Body(written)) /\ bytes \in Seq(Byte)
      /\ Len(bytes) \in Nat /\ Len(Body(written)) \in Nat
  BY SetPlaces, CutLayout
<1>2. set.sized
  <2>1. n + 1 \in DOMAIN written.sets
    <3>1. IsSnapshot(written)
      BY CutLayout
    <3>2. Len(written.sets) \in Nat /\ DOMAIN written.sets = 1 .. Len(written.sets)
      BY <3>1, PartsAreBytes
    <3> QED BY <3>2
  <2> QED BY <2>1 DEF Sized
<1> HIDE DEF set, h, b
<1>3. /\ PairAt(set, 0) = Len(h) /\ PartOf(bytes, p, h)
      /\ Len(h) \in Nat \ {0} /\ Len(h) <= Len(b) /\ Len(b) \in Nat
  <2>1. Len(set.pairs) \in Nat
    BY <1>1, PairsAreBytes
  <2>2. 0 \in 0 .. Len(set.pairs)
    BY <2>1
  <2>3. /\ PairAt(set, 0) = Len(h) /\ PartOf(bytes, p, h)
        /\ PairAt(set, 0) <= Len(b) /\ b \in Seq(Byte)
    BY <1>1, <2>2, SetLayout DEF h, b
  <2>4. Len(h) \in Nat \ {0}
    BY <1>1, HeaderParts DEF h
  <2> QED BY <2>3, <2>4, LenProperties
<1>4. p <= Len(bytes) => bytes[p] = 254
  BY <1>1, <1>3, HeaderParts DEF h
<1>5. /\ Sizes(p + 1).ok => /\ Sizes(p + 1).val = Len(set.pairs)
                            /\ Sizes(p + 1).next = p + Len(h)
      /\ ~ Sizes(p + 1).ok => ~ (p + Len(h) - 1 <= Len(bytes))
  BY <1>1, <1>2, <1>3, SizesRead DEF h
<1>6. ~ (p + Len(h) - 1 <= Len(bytes)) => ~ Whole
  BY <1>1, <1>3 DEF Whole
<1> QED BY ONLY <1>3, <1>4, <1>5, <1>6, Zenon DEF set

(* src/rdb_file_reader.rs:138-199: behind the first m pairs of a data set. *)
LEMMA AtPairs ==
  ASSUME Cut, NEW n \in 0 .. Len(written.sets) - 1,
         NEW m \in 0 .. Len(written.sets[n + 1].pairs) - 1,
         NEW p, p = SetAt(written, n) + PairAt(written.sets[n + 1], m)
  PROVE  /\ ReadPair(bytes, p).ok =>
              /\ KnownPair(written.sets[n + 1].pairs[m + 1])
              /\ ReadPair(bytes, p).val = MeaningOfPair(written.sets[n + 1].pairs[m + 1])
              /\ ReadPair(bytes, p).next =
                   SetAt(written, n) + PairAt(written.sets[n + 1], m + 1)
         /\ ~ ReadPair(bytes, p).ok =>
              ~ KnownPair(written.sets[n + 1].pairs[m + 1]) \/ ~ Whole
<1> DEFINE set == written.sets[n + 1]
           pair == set.pairs[m + 1]
           s == SetAt(written, n)
           b == SetBytes(set)
           l == Len(PairBytes(pair))
           r == ReadPair(bytes, p)
           q == s + PairAt(set, m + 1)
<1>1. /\ IsSet(set) /\ s \in Nat \ {0} /\ PartOf(bytes, s, b)
      /\ s + Len(b) <= Len(Body(written)) /\ bytes \in Seq(Byte)
      /\ Len(bytes) \in Nat /\ Len(Body(written)) \in Nat
  BY SetPlaces, CutLayout
<1>2. m \in 0 .. Len(set.pairs) - 1 /\ p = s + PairAt(set, m)
  OBVIOUS
<1> HIDE DEF set, s
<1>3. Len(set.pairs) \in Nat /\ DOMAIN set.pairs = 1 .. Len(set.pairs)
  BY <1>1, PairsAreBytes
<1>4. m + 1 \in 1 .. Len(set.pairs) /\ m \in 0 .. Len(set.pairs)
      /\ m + 1 - 1 = m /\ m + 1 \in 0 .. Len(set.pairs)
  BY ONLY <1>2, <1>3
<1>5. IsPair(pair)
  BY <1>1, <1>3, <1>4 DEF IsSet
<1>6. /\ PairAt(set, m) \in Nat \ {0} /\ PairAt(set, m + 1) \in Nat \ {0}
      /\ PairAt(set, m + 1) <= Len(b)
      /\ PairAt(set, m + 1) = PairAt(set, m) + l
      /\ PartOf(bytes, p, PairBytes(pair)) /\ b \in Seq(Byte)
  <2>1. /\ PairAt(set, m) \in Nat \ {0} /\ PairAt(set, m + 1) \in Nat \ {0}
        /\ PairAt(set, m + 1) <= Len(b)
    BY <1>1, <1>4, SetLayout
  <2>2. PairAt(set, m + 1) = PairAt(set, m + 1 - 1) + l
    <3>1. \A k \in 1 .. Len(set.pairs) :
            PairAt(set, k) = PairAt(set, k - 1) + Len(PairBytes(set.pairs[k]))
      BY <1>1, SetLayout, Zenon
    <3> QED BY ONLY <1>4, <3>1
  <2>3. PartOf(bytes, s + PairAt(set, m + 1 - 1), PairBytes(pair)) /\ b \in Seq(Byte)
    <3>1. /\ b \in Seq(Byte)
          /\ \A k \in 1 .. Len(set.pairs) :
               PartOf(bytes, s + PairAt(set, k - 1), PairBytes(set.pairs[k]))
      BY <1>1, SetLayout, Zenon
    <3> QED BY ONLY <1>4, <3>1
  <2> QED BY <1>2, <1>4, <2>1, <2>2, <2>3
<1>7. p \in Nat \ {0} /\ p + l = q /\ Len(b) \in Nat /\ l \in Nat
  <2>1. PairBytes(pair) \in Seq(Byte)
    BY <1>5, PairParts
  <2>2. l \in Nat /\ Len(b) \in Nat
    BY <1>6, <2>1, LenProperties
  <2> HIDE DEF l, b
  <2>3. p \in Nat \ {0}
    BY ONLY <1>1, <1>2, <1>6
  <2>4. p + l = s + PairAt(set, m + 1)
    BY ONLY <1>1, <1>2, <1>6, <2>2
  <2> QED BY <2>2, <2>3, <2>4
<1> HIDE DEF pair, b, l, r, q
<1>8. ReadsIf(KnownPair(pair), r, bytes, p, l, MeaningOfPair(pair))
  BY <1>1, <1>5, <1>6, <1>7, PairReads DEF l, r
<1>9. /\ r.ok => KnownPair(pair) /\ r.val = MeaningOfPair(pair) /\ r.next = p + l
      /\ ~ r.ok => ~ KnownPair(pair) \/ ~ (p + l - 1 <= Len(bytes))
  BY <1>8, ReadsMeans
<1>10. ~ (p + l - 1 <= Len(bytes)) => ~ Whole
  BY <1>1, <1>6, <1>7, SMTT(60) DEF Whole, q
<1> QED BY ONLY <1>7, <1>9, <1>10, Zenon DEF pair, r, q, set, s

(* What is left of the marks: behind the auxiliary fields stands the first *)
(* data set or the end mark, and behind the data sets the end mark.        *)
LEMMA SetMark ==
  ASSUME Cut, NEW n \in 0 .. Len(written.sets), SetAt(written, n) <= Len(bytes)
  PROVE  bytes[SetAt(written, n)] = IF n < Len(written.sets) THEN 254 ELSE 255
<1>1. IsSnapshot(written) /\ bytes \in Seq(Byte) /\ Len(bytes) \in Nat
  BY CutLayout
<1>2. Len(written.sets) \in Nat
  BY <1>1, PartsAreBytes
<1>3. CASE n < Len(written.sets)
  <2> DEFINE set == written.sets[n + 1]
             p == SetAt(written, n)
  <2>1. n \in 0 .. Len(written.sets) - 1
    BY <1>2, <1>3
  <2>2. IsSet(set) /\ p \in Nat \ {0} /\ PartOf(bytes, p, SetBytes(set))
    BY <2>1, SetPlaces
  <2> HIDE DEF set, p
  <2>3. PartOf(bytes, p, SetHeader(set))
    BY <1>1, <2>2, SetLayout
  <2>4. p <= Len(bytes) => bytes[p] = 254
    BY <1>1, <2>2, <2>3, HeaderParts
  <2>5. p <= Len(bytes)
    BY DEF p
  <2> QED BY <1>3, <2>4, <2>5 DEF p
<1>4. CASE ~ (n < Len(written.sets))
  <2> DEFINE p == SetAt(written, n)
             end == <<255>>
  <2>1. n = Len(written.sets)
    BY <1>2, <1>4
  <2>2. PartOf(File(written), p, end) /\ p \in Nat \ {0}
    BY <1>1, <2>1, Layout
  <2>3. end \in Seq(Byte) /\ Len(end) = 1 /\ end[1] = 255
    BY DEF Byte
  <2>4. PartOf(bytes, p, end)
    <3> HIDE DEF end, p
    <3> QED BY <2>2, <2>3, CutLayout
  <2>5. p <= Len(bytes)
    OBVIOUS
  <2> HIDE DEF end, p
  <2>6. Len(end) \in Nat /\ 1 <= Len(end)
    BY <2>3
  <2>7. bytes[p] = end[1]
    BY <1>1, <2>2, <2>4, <2>5, <2>6, PartOfTuple
  <2> QED BY <1>4, <2>3, <2>7 DEF p
<1> QED BY <1>3, <1>4

LEMMA FieldMark ==
  ASSUME Cut, NEW n \in 0 .. Len(written.aux), AuxAt(written, n) <= Len(bytes)
  PROVE  bytes[AuxAt(written, n)] =
           IF n < Len(written.aux) THEN 250
           ELSE IF 0 < Len(written.sets) THEN 254 ELSE 255
<1>1. IsSnapshot(written)
  BY CutLayout
<1>2. Len(written.aux) \in Nat /\ Len(written.sets) \in Nat
  BY <1>1, PartsAreBytes
<1>3. CASE n < Len(written.aux)
  <2>1. n \in 0 .. Len(written.aux) - 1
    BY <1>2, <1>3
  <2>2. AuxAt(written, n) <= Len(bytes) => bytes[AuxAt(written, n)] = 250
    BY <2>1, AtFields
  <2> QED BY <1>3, <2>2
<1>4. CASE ~ (n < Len(written.aux))
  <2>1. n = Len(written.aux) /\ 0 \in 0 .. Len(written.sets)
    BY <1>2, <1>4
  <2>2. SetAt(written, 0) = AuxAt(written, n)
    BY <1>1, <2>1, Layout
  <2>3. bytes[SetAt(written, 0)] = IF 0 < Len(written.sets) THEN 254 ELSE 255
    BY <2>1, <2>2, SetMark
  <2> QED BY <1>4, <2>2, <2>3
<1> QED BY <1>3, <1>4

(* All that was written before a place of the reader is there; what is not *)
(* there is a reason to refuse.                                            *)
LEMMA Places ==
  ASSUME Cut
  PROVE  /\ \A n \in 0 .. Len(written.aux) :
              AuxAt(written, n) \in Nat /\ AuxAt(written, n) <= Len(Body(written))
         /\ \A n \in 0 .. Len(written.sets) :
              SetAt(written, n) \in Nat /\ SetAt(written, n) <= Len(Body(written))
         /\ AuxAt(written, 0) = 10 /\ SetAt(written, 0) = AuxAt(written, Len(written.aux))
         /\ SetAt(written, Len(written.sets)) = Len(Body(written))
         /\ Len(bytes) \in Nat /\ Len(Body(written)) \in Nat
         /\ Len(written.aux) \in Nat /\ Len(written.sets) \in Nat
         /\ DOMAIN written.aux = 1 .. Len(written.aux)
         /\ DOMAIN written.sets = 1 .. Len(written.sets)
         /\ \A i \in 1 .. Len(written.sets) :
              /\ DOMAIN written.sets[i].pairs = 1 .. Len(written.sets[i].pairs)
              /\ Len(written.sets[i].pairs) \in Nat
<1>1. IsSnapshot(written) /\ Len(bytes) \in Nat /\ Len(Body(written)) \in Nat
  BY CutLayout
<1>2. /\ Len(written.aux) \in Nat /\ DOMAIN written.aux = 1 .. Len(written.aux)
      /\ Len(written.sets) \in Nat /\ DOMAIN written.sets = 1 .. Len(written.sets)
  BY <1>1, PartsAreBytes
<1>3. \A i \in 1 .. Len(written.sets) :
        /\ DOMAIN written.sets[i].pairs = 1 .. Len(written.sets[i].pairs)
        /\ Len(written.sets[i].pairs) \in Nat
  <2>1. TAKE i \in 1 .. Len(written.sets)
  <2> DEFINE set == written.sets[i]
  <2>2. IsSet(set)
    BY <1>1, <1>2 DEF IsSnapshot
  <2> HIDE DEF set
  <2>3. Len(set.pairs) \in Nat /\ DOMAIN set.pairs = 1 .. Len(set.pairs)
    BY <2>2, PairsAreBytes
  <2> QED BY <2>3 DEF set
<1>4. /\ AuxAt(written, 0) = 10 /\ SetAt(written, 0) = AuxAt(written, Len(written.aux))
      /\ SetAt(written, Len(written.sets)) = Len(Body(written))
  BY <1>1, Layout
<1>5. /\ \A n \in 0 .. Len(written.aux) :
           AuxAt(written, n) \in Nat /\ AuxAt(written, n) <= Len(Body(written))
      /\ \A n \in 0 .. Len(written.sets) :
           SetAt(written, n) \in Nat /\ SetAt(written, n) <= Len(Body(written))
  BY <1>1, Layout
<1> QED BY ONLY <1>1, <1>2, <1>3, <1>4, <1>5

LEMMA ContentsFacts ==
  ASSUME Cut
  PROVE  /\ Contents = Prefix(Contents, Len(written.sets))
         /\ \A i \in 1 .. Len(written.sets) :
              /\ Contents[i] = Prefix(Contents[i], Len(written.sets[i].pairs))
              /\ \A j \in 1 .. Len(written.sets[i].pairs) :
                   Contents[i][j] = MeaningOfPair(written.sets[i].pairs[j])
<1>1. DOMAIN written.sets = 1 .. Len(written.sets)
  BY Places
<1>2. Contents = [i \in 1 .. Len(written.sets) |->
                    [j \in DOMAIN written.sets[i].pairs |->
                       MeaningOfPair(written.sets[i].pairs[j])]]
  BY <1>1 DEF Contents
<1>3. Contents = Prefix(Contents, Len(written.sets))
  <2> DEFINE N == Len(written.sets)
             c(i) == [j \in DOMAIN written.sets[i].pairs |->
                        MeaningOfPair(written.sets[i].pairs[j])]
  <2>1. Contents = [i \in 1 .. N |-> c(i)]
    BY <1>2
  <2> HIDE DEF N, c
  <2>2. Contents = [i \in 1 .. N |-> Contents[i]]
    BY <2>1
  <2> QED BY <2>2 DEF Prefix, N
<1>4. ASSUME NEW i \in 1 .. Len(written.sets)
      PROVE  /\ Contents[i] = Prefix(Contents[i], Len(written.sets[i].pairs))
             /\ \A j \in 1 .. Len(written.sets[i].pairs) :
                  Contents[i][j] = MeaningOfPair(written.sets[i].pairs[j])
  <2> DEFINE ps == written.sets[i].pairs
             c == Contents[i]
             N == Len(ps)
  <2>1. DOMAIN ps = 1 .. N
    BY Places
  <2>2. c = [j \in 1 .. N |-> MeaningOfPair(ps[j])]
    BY <1>2, <2>1
  <2> HIDE DEF ps, c, N
  <2>3. c = [j \in 1 .. N |-> c[j]] /\ \A j \in 1 .. N : c[j] = MeaningOfPair(ps[j])
    BY <2>2
  <2> QED BY <2>3 DEF Prefix, ps, c, N
<1> QED BY <1>3, <1>4

-----------------------------------------------------------------------------
(* The file does not change, and with it what it says.                     *)
LEMMA FileStays == ASSUME Next PROVE written' = written /\ bytes' = bytes
<1>1. Refuse => written' = written /\ bytes' = bytes
  BY DEF Refuse
<1>2. ReadHeader => written' = written /\ bytes' = bytes
  BY <1>1 DEF ReadHeader
<1>3. AuxField => written' = written /\ bytes' = bytes
  BY <1>1 DEF AuxField
<1>4. EndMetadata => written' = written /\ bytes' = bytes
  BY DEF EndMetadata
<1>5. SelectDb => written' = written /\ bytes' = bytes
  BY <1>1 DEF SelectDb
<1>6. TakePair => written' = written /\ bytes' = bytes
  BY <1>1 DEF TakePair
<1>7. EndDatabases \/ Finish => written' = written /\ bytes' = bytes
  BY DEF EndDatabases, Finish
<1>8. Unexpected => written' = written /\ bytes' = bytes
  BY <1>1 DEF Unexpected
<1> QED BY <1>2, <1>3, <1>4, <1>5, <1>6, <1>7, <1>8 DEF Next

LEMMA MeaningStays ==
  ASSUME written' = written, bytes' = bytes
  PROVE  /\ Cut' <=> Cut
         /\ Sized' <=> Sized
         /\ Whole' <=> Whole
         /\ Understood' <=> Understood
         /\ Contents' = Contents
         /\ \A n : KnownFields(n)' <=> KnownFields(n)
         /\ \A n : KnownSets(n)' <=> KnownSets(n)
         /\ \A i, n : KnownPairs(i, n)' <=> KnownPairs(i, n)
BY DEF Cut, Sized, Whole, Understood, Contents, KnownFields, KnownSets, KnownPairs

LEMMA Refused ==
  ASSUME Refuse, ~ Whole \/ ~ Understood
  PROVE  Progress'
<1>1. phase' = "failed" /\ written' = written /\ bytes' = bytes
  BY DEF Refuse
<1>2. ~ Whole' \/ ~ Understood'
  BY <1>1, MeaningStays
<1> QED BY <1>1, <1>2 DEF Progress

(* The reader goes on behind the first n fields, data sets or pairs.       *)
LEMMA OnToField ==
  ASSUME Cut, NEW n \in 0 .. Len(written.aux),
         written' = written, bytes' = bytes, phase' = "metadata",
         pos' = AuxAt(written, n), datasets' = <<>>, pairs' = <<>>, KnownFields(n)
  PROVE  Progress'
<1>1. AtField(n)'
  BY MeaningStays DEF AtField
<1>2. \E k \in 0 .. Len(written'.aux) : AtField(k)'
  BY <1>1
<1> QED BY <1>2 DEF Progress

LEMMA OnToSet ==
  ASSUME Cut, NEW n \in 0 .. Len(written.sets),
         written' = written, bytes' = bytes, phase' = "database",
         pos' = SetAt(written, n), datasets' = Prefix(Contents, n), pairs' = <<>>,
         KnownFields(Len(written.aux)), KnownSets(n)
  PROVE  Progress'
<1>1. AtSet(n)'
  <2>1. Contents' = Contents /\ KnownFields(Len(written.aux))' /\ KnownSets(n)'
    BY MeaningStays
  <2> QED BY <2>1 DEF AtSet
<1>2. \E k \in 0 .. Len(written'.sets) : AtSet(k)'
  BY <1>1
<1> QED BY <1>2 DEF Progress

LEMMA OnToPair ==
  ASSUME Cut, NEW n \in 0 .. Len(written.sets) - 1,
         NEW m \in 0 .. Len(written.sets[n + 1].pairs) - 1,
         written' = written, bytes' = bytes, phase' = "pairs",
         pos' = SetAt(written, n) + PairAt(written.sets[n + 1], m),
         left' = Len(written.sets[n + 1].pairs) - m,
         datasets' = Prefix(Contents, n), pairs' = Prefix(Contents[n + 1], m),
         KnownFields(Len(written.aux)), KnownSets(n), KnownPairs(n + 1, m)
  PROVE  Progress'
<1>1. AtPair(n, m)'
  <2>1. /\ Contents' = Contents /\ KnownFields(Len(written.aux))' /\ KnownSets(n)'
        /\ KnownPairs(n + 1, m)'
    BY MeaningStays
  <2> QED BY <2>1 DEF AtPair
<1>2. \E k \in 0 .. Len(written'.sets) - 1 :
        \E j \in 0 .. Len(written'.sets[k + 1].pairs) - 1 : AtPair(k, j)'
  BY <1>1
<1> QED BY <1>2 DEF Progress

LEMMA OnToEnd ==
  ASSUME Cut, written' = written, bytes' = bytes, phase' \in {"checksum", "ok"},
         datasets' = Contents, Whole, Understood
  PROVE  Progress'
<1>1. Whole' /\ Understood' /\ datasets' = Contents'
  BY MeaningStays
<1> QED BY <1>1 DEF Progress

(* src/rdb_file_reader.rs:51-65: the header.                               *)
LEMMA HeaderStep ==
  ASSUME Cut, Progress, ReadHeader
  PROVE  Progress'
<1> DEFINE good == Len(bytes) >= 9 /\ SubSeq(bytes, 1, 5) = Magic
<1>1. phase = "header" /\ datasets = <<>> /\ pairs = <<>>
  BY DEF ReadHeader, Progress
<1>2. CASE good
  <2>1. /\ phase' = "metadata" /\ pos' = 10 /\ written' = written /\ bytes' = bytes
        /\ datasets' = <<>> /\ pairs' = <<>>
    BY <1>1, <1>2 DEF ReadHeader
  <2>2. 0 \in 0 .. Len(written.aux) /\ AuxAt(written, 0) = 10
    BY Places
  <2>3. KnownFields(0)
    BY DEF KnownFields
  <2> QED BY <2>1, <2>2, <2>3, OnToField
<1>3. CASE ~ good
  <2>1. Refuse
    BY <1>3 DEF ReadHeader
  <2>2. ASSUME Whole PROVE good
    <3>1. Len(bytes) \in Nat /\ Len(bytes) >= 10
      <4>1. 10 <= Len(Body(written)) /\ Len(bytes) \in Nat /\ Len(Body(written)) \in Nat
        BY Places, 0 \in 0 .. Len(written.aux)
      <4> QED BY <2>2, <4>1 DEF Whole
    <3> DEFINE front == Magic \o Version
               five == SubSeq(bytes, 1, 5)
    <3>2. IsSnapshot(written) /\ bytes \in Seq(Byte)
      BY CutLayout
    <3>3. Magic \in Seq(Byte) /\ Len(Magic) = 5 /\ Version \in Seq(Byte)
      BY DEF Magic, Version
    <3>4. front \in Seq(Byte) /\ PartOf(File(written), 1, front)
      BY <3>2, FrontIsBytes, Layout
    <3>5. PartOf(bytes, 1, front)
      <4> HIDE DEF front
      <4> QED BY <3>4, 1 \in Nat \ {0}, CutLayout
    <3>6. PartOf(bytes, 1, Magic)
      BY <3>2, <3>3, <3>5, 1 \in Nat \ {0}, PartOfConcat
    <3>7. five \in Seq(Byte) /\ Len(five) = 5 /\ \A i \in 1 .. 5 : five[i] = bytes[i]
      <4>1. \A i \in 1 .. 5 : bytes[i] \in Byte
        <5>1. TAKE i \in 1 .. 5
        <5>2. i \in 1 .. Len(bytes)
          BY <3>1
        <5> QED BY <3>2, <5>2, ElementOfSeq
      <4> QED BY <4>1, SubSeqProperties
    <3>8. \A i \in 1 .. 5 : bytes[i] = Magic[i]
      <4>1. TAKE i \in 1 .. 5
      <4>2. i \in 1 .. Len(Magic) /\ 1 + i - 1 = i /\ i <= Len(bytes)
        BY <3>1, <3>3
      <4> QED BY <3>6, <4>2 DEF PartOf
    <3>9. five = Magic
      <4> HIDE DEF five
      <4> QED BY <3>3, <3>7, <3>8, Extensional
    <3> QED BY <3>1, <3>9
  <2>3. ~ Whole
    BY <1>3, <2>2
  <2> QED BY <2>1, <2>3, Refused
<1> QED BY <1>2, <1>3

(* src/rdb_file_reader.rs:94-112: an auxiliary field.                      *)
LEMMA FieldStep ==
  ASSUME Cut, Progress, AuxField
  PROVE  Progress'
<1>1. phase = "metadata" /\ pos <= Len(bytes) /\ bytes[pos] = 250
  BY DEF AuxField, Here
<1>2. PICK n \in 0 .. Len(written.aux) : AtField(n)
  BY <1>1 DEF Progress
<1>3. pos = AuxAt(written, n) /\ datasets = <<>> /\ pairs = <<>> /\ KnownFields(n)
  BY <1>2 DEF AtField
<1>4. Len(written.aux) \in Nat /\ Len(written.sets) \in Nat
  BY Places
<1>5. n < Len(written.aux)
  <2>1. 250 = IF n < Len(written.aux) THEN 250 ELSE IF 0 < Len(written.sets) THEN 254 ELSE 255
    BY <1>1, <1>3, FieldMark
  <2> QED BY <1>4, <2>1
<1>6. n \in 0 .. Len(written.aux) - 1 /\ n + 1 \in 0 .. Len(written.aux)
      /\ n + 1 \in DOMAIN written.aux
  BY <1>4, <1>5, Places
<1> DEFINE r == TwoStrings(bytes, pos + 1)
<1>7. /\ r.ok => /\ Known(written.aux[n + 1][1]) /\ Known(written.aux[n + 1][2])
                 /\ r.next = AuxAt(written, n + 1)
      /\ ~ r.ok => \/ ~ Known(written.aux[n + 1][1]) \/ ~ Known(written.aux[n + 1][2])
                   \/ ~ Whole
  BY <1>3, <1>6, AtFields
<1>8. CASE r.ok
  <2>1. /\ phase' = "metadata" /\ pos' = r.next /\ written' = written /\ bytes' = bytes
        /\ datasets' = <<>> /\ pairs' = <<>>
    BY <1>1, <1>3, <1>8 DEF AuxField
  <2>2. KnownFields(n + 1)
    <3>1. SUFFICES ASSUME NEW i \in 1 .. n + 1
                   PROVE  Known(written.aux[i][1]) /\ Known(written.aux[i][2])
      BY DEF KnownFields
    <3>2. CASE i = n + 1
      BY <1>7, <1>8, <3>2
    <3>3. CASE i # n + 1
      <4>1. i \in 1 .. n
        BY <3>3
      <4> QED BY <1>3, <4>1 DEF KnownFields
    <3> QED BY <3>2, <3>3
  <2> HIDE DEF r
  <2> QED BY <1>6, <1>7, <1>8, <2>1, <2>2, OnToField
<1>9. CASE ~ r.ok
  <2>1. Refuse
    BY <1>9 DEF AuxField
  <2>2. ~ Whole \/ ~ Understood
    BY <1>6, <1>7, <1>9 DEF Understood
  <2> QED BY <2>1, <2>2, Refused
<1> QED BY <1>8, <1>9

(* All fields, data sets and pairs are known: the snapshot is understood.  *)
LEMMA AllKnown ==
  ASSUME Cut, KnownFields(Len(written.aux)), KnownSets(Len(written.sets))
  PROVE  Understood
<1>1. ASSUME NEW i \in DOMAIN written.aux
      PROVE  Known(written.aux[i][1]) /\ Known(written.aux[i][2])
  <2>1. i \in 1 .. Len(written.aux)
    BY Places
  <2> QED BY <2>1 DEF KnownFields
<1>2. ASSUME NEW i \in DOMAIN written.sets, NEW j \in DOMAIN written.sets[i].pairs
      PROVE  KnownPair(written.sets[i].pairs[j])
  <2>1. i \in 1 .. Len(written.sets)
    BY Places
  <2>2. j \in 1 .. Len(written.sets[i].pairs)
    BY <2>1, Places
  <2>3. KnownPairs(i, Len(written.sets[i].pairs))
    BY <2>1 DEF KnownSets
  <2> QED BY <2>2, <2>3 DEF KnownPairs
<1> QED BY <1>1, <1>2 DEF Understood

(* The end mark stands behind all data sets.                               *)
LEMMA AtTheEnd ==
  ASSUME Cut, NEW n \in 0 .. Len(written.sets), AtSet(n), Here(255)
  PROVE  Whole /\ Understood /\ datasets = Contents
<1>1. /\ pos = SetAt(written, n) /\ pos <= Len(bytes) /\ bytes[pos] = 255
      /\ datasets = Prefix(Contents, n)
      /\ KnownFields(Len(written.aux)) /\ KnownSets(n)
  BY DEF AtSet, Here
<1>2. Len(written.sets) \in Nat
  BY Places
<1>3. n = Len(written.sets)
  <2>1. 255 = IF n < Len(written.sets) THEN 254 ELSE 255
    BY <1>1, SetMark
  <2> QED BY <1>2, <2>1
<1>4. Understood
  BY <1>1, <1>3, AllKnown
<1>5. Whole
  <2>1. /\ pos = Len(Body(written)) /\ Len(Body(written)) \in Nat /\ Len(bytes) \in Nat
    BY <1>1, <1>3, Places
  <2> QED BY <1>1, <2>1 DEF Whole
<1>6. datasets = Contents
  BY <1>1, <1>3, ContentsFacts
<1> QED BY <1>4, <1>5, <1>6

LEMMA FieldsDone ==
  ASSUME Cut, phase = "metadata", Progress, Here(254) \/ Here(255)
  PROVE  AtSet(0)
<1>1. pos <= Len(bytes) /\ bytes[pos] \in {254, 255}
  BY DEF Here
<1>2. PICK n \in 0 .. Len(written.aux) : AtField(n)
  BY DEF Progress
<1>3. pos = AuxAt(written, n) /\ datasets = <<>> /\ pairs = <<>> /\ KnownFields(n)
  BY <1>2 DEF AtField
<1>4. Len(written.aux) \in Nat /\ Len(written.sets) \in Nat
  BY Places
<1>5. n = Len(written.aux)
  <2>1. bytes[pos] = IF n < Len(written.aux) THEN 250
                     ELSE IF 0 < Len(written.sets) THEN 254 ELSE 255
    BY <1>1, <1>3, FieldMark
  <2> QED BY <1>1, <1>4, <2>1
<1>6. pos = SetAt(written, 0)
  BY <1>3, <1>5, Places
<1>7. datasets = Prefix(Contents, 0)
  BY <1>3, PrefixIsEmpty, Zenon
<1>8. KnownSets(0)
  BY DEF KnownSets
<1> QED BY <1>3, <1>5, <1>6, <1>7, <1>8 DEF AtSet

(* src/rdb_file_reader.rs:81-93: the auxiliary fields end.                 *)
LEMMA EndMetadataStep ==
  ASSUME Cut, Progress, EndMetadata
  PROVE  Progress'
<1>1. /\ phase = "metadata" /\ (Here(254) \/ Here(255))
      /\ written' = written /\ bytes' = bytes /\ pos' = pos
      /\ datasets' = datasets /\ pairs' = pairs
  BY DEF EndMetadata
<1>2. AtSet(0) /\ 0 \in 0 .. Len(written.sets)
  BY <1>1, FieldsDone, Places
<1>3. CASE Here(254)
  <2>1. phase' = "database"
    BY <1>3 DEF EndMetadata
  <2> QED BY <1>1, <1>2, <2>1, OnToSet DEF AtSet
<1>4. CASE ~ Here(254)
  <2>1. phase' = "checksum" /\ Here(255)
    BY <1>1, <1>4 DEF EndMetadata
  <2>2. Whole /\ Understood /\ datasets = Contents
    BY <1>2, <2>1, AtTheEnd
  <2> QED BY <1>1, <2>1, <2>2, OnToEnd
<1> QED BY <1>3, <1>4

(* src/rdb_file_reader.rs:200-219: so do the data sets; the checksum.      *)
LEMMA EndDatabasesStep ==
  ASSUME Cut, Progress, EndDatabases
  PROVE  Progress'
<1>1. /\ phase = "database" /\ Here(255) /\ phase' = "checksum"
      /\ written' = written /\ bytes' = bytes /\ datasets' = datasets
  BY DEF EndDatabases
<1>2. PICK n \in 0 .. Len(written.sets) : AtSet(n)
  BY <1>1 DEF Progress
<1>3. Whole /\ Understood /\ datasets = Contents
  BY <1>1, <1>2, AtTheEnd
<1> QED BY <1>1, <1>3, OnToEnd

LEMMA FinishStep ==
  ASSUME Cut, Progress, Finish
  PROVE  Progress'
<1>1. /\ phase = "checksum" /\ phase' = "ok"
      /\ written' = written /\ bytes' = bytes /\ datasets' = datasets
  BY DEF Finish
<1>2. Whole /\ Understood /\ datasets = Contents
  BY <1>1 DEF Progress
<1> QED BY <1>1, <1>2, OnToEnd

(* src/rdb_file_reader.rs:66-93, 113-124: a byte that is no mark, or none, *)
(* is a reason to refuse, since the file was cut there.                    *)
LEMMA UnexpectedStep ==
  ASSUME Cut, Progress, Unexpected
  PROVE  Progress'
<1>1. Refuse /\ ~ Here(254) /\ ~ Here(255)
      /\ ((phase = "metadata" /\ ~ Here(250)) \/ phase = "database")
  BY DEF Unexpected
<1>2. ~ Whole
  <2>1. ASSUME NEW n \in 0 .. Len(written.aux), pos = AuxAt(written, n), ~ Here(250)
        PROVE  ~ Whole
    <3>1. ASSUME pos <= Len(bytes) PROVE FALSE
      <4>1. bytes[pos] \in {250, 254, 255}
        BY <2>1, <3>1, FieldMark
      <4> QED BY <1>1, <2>1, <3>1, <4>1 DEF Here
    <3>2. /\ pos \in Nat /\ pos <= Len(Body(written))
          /\ Len(bytes) \in Nat /\ Len(Body(written)) \in Nat
      BY <2>1, Places
    <3> QED BY <3>1, <3>2 DEF Whole
  <2>2. ASSUME NEW n \in 0 .. Len(written.sets), pos = SetAt(written, n)
        PROVE  ~ Whole
    <3>1. ASSUME pos <= Len(bytes) PROVE FALSE
      <4>1. bytes[pos] \in {254, 255}
        BY <2>2, <3>1, SetMark
      <4> QED BY <1>1, <3>1, <4>1 DEF Here
    <3>2. /\ pos \in Nat /\ pos <= Len(Body(written))
          /\ Len(bytes) \in Nat /\ Len(Body(written)) \in Nat
      BY <2>2, Places
    <3> QED BY <3>1, <3>2 DEF Whole
  <2>3. CASE phase = "metadata" /\ ~ Here(250)
    <3>1. PICK n \in 0 .. Len(written.aux) : AtField(n)
      BY <2>3 DEF Progress
    <3> QED BY <2>1, <2>3, <3>1 DEF AtField
  <2>4. CASE phase = "database"
    <3>1. PICK n \in 0 .. Len(written.sets) : AtSet(n)
      BY <2>4 DEF Progress
    <3> QED BY <2>2, <3>1 DEF AtSet
  <2> QED BY <1>1, <2>3, <2>4
<1> QED BY <1>1, <1>2, Refused

(* src/rdb_file_reader.rs:113-137: the sizes of a data set.                *)
LEMMA SelectStep ==
  ASSUME Cut, Sized, Progress, SelectDb
  PROVE  Progress'
<1>1. phase = "database" /\ pos <= Len(bytes) /\ bytes[pos] = 254
  BY DEF SelectDb, Here
<1>2. PICK n \in 0 .. Len(written.sets) : AtSet(n)
  BY <1>1 DEF Progress
<1>3. /\ pos = SetAt(written, n) /\ datasets = Prefix(Contents, n) /\ pairs = <<>>
      /\ KnownFields(Len(written.aux)) /\ KnownSets(n)
  BY <1>2 DEF AtSet
<1>4. Len(written.sets) \in Nat
  BY Places
<1>5. n < Len(written.sets)
  <2>1. 254 = IF n < Len(written.sets) THEN 254 ELSE 255
    BY <1>1, <1>3, SetMark
  <2> QED BY <1>4, <2>1
<1>6. n \in 0 .. Len(written.sets) - 1 /\ n + 1 \in 1 .. Len(written.sets)
      /\ n + 1 \in 0 .. Len(written.sets) /\ n \in Nat
  BY <1>4, <1>5
<1> DEFINE set == written.sets[n + 1]
           m == Len(set.pairs)
           r == Sizes(pos + 1)
<1>7. m \in Nat
  BY <1>6, Places
<1>8. /\ r.ok => r.val = m /\ r.next = pos + PairAt(set, 0)
      /\ ~ r.ok => ~ Whole
  BY <1>3, <1>6, AtSets
<1>9. CASE r.ok
  <2>1. /\ pos' = r.next /\ written' = written /\ bytes' = bytes
        /\ left' = r.val
        /\ pairs' = <<>>
        /\ datasets' = IF r.val = 0 THEN Append(datasets, <<>>) ELSE datasets
        /\ phase' = IF r.val = 0 THEN "database" ELSE "pairs"
    BY <1>9 DEF SelectDb, Collect
  <2>2. pos' = SetAt(written, n) + PairAt(set, 0)
    BY <1>3, <1>8, <1>9, <2>1
  <2>3. Prefix(Contents[n + 1], 0) = <<>>
    BY PrefixIsEmpty
  <2>4. KnownPairs(n + 1, 0)
    BY DEF KnownPairs
  <2>5. CASE m = 0
    <3>1. phase' = "database" /\ datasets' = Append(datasets, <<>>)
      BY <1>8, <1>9, <2>1, <2>5
    <3>2. Contents[n + 1] = <<>>
      <4>1. Contents[n + 1] = Prefix(Contents[n + 1], m)
        BY <1>6, ContentsFacts
      <4> QED BY ONLY <2>3, <2>5, <4>1
    <3>3. datasets' = Prefix(Contents, n + 1)
      <4>1. Append(Prefix(Contents, n), Contents[n + 1]) = Prefix(Contents, n + 1)
        BY <1>6, PrefixGrows
      <4> QED BY ONLY <1>3, <3>1, <3>2, <4>1
    <3>4. pos' = SetAt(written, n + 1)
      <4>1. /\ IsSet(set)
            /\ SetAt(written, n + 1) = SetAt(written, n) + Len(SetBytes(set))
        BY <1>6, SetPlaces
      <4>2. Len(SetBytes(set)) = PairAt(set, m)
        BY <4>1, SetLayout
      <4> QED BY ONLY <2>2, <2>5, <4>1, <4>2
    <3>5. KnownSets(n + 1)
      <4>1. SUFFICES ASSUME NEW i \in 1 .. n + 1
                     PROVE  KnownPairs(i, Len(written.sets[i].pairs))
        BY DEF KnownSets
      <4>2. CASE i = n + 1
        BY <2>4, <2>5, <4>2
      <4>3. CASE i # n + 1
        <5>1. i \in 1 .. n
          BY <1>6, <4>3
        <5> QED BY <1>3, <5>1 DEF KnownSets
      <4> QED BY <4>2, <4>3
    <3> QED BY <1>3, <1>6, <2>1, <3>1, <3>3, <3>4, <3>5, OnToSet
  <2>6. CASE m # 0
    <3>1. /\ phase' = "pairs" /\ datasets' = Prefix(Contents, n) /\ left' = m - 0
          /\ pairs' = Prefix(Contents[n + 1], 0)
      <4>1. phase' = "pairs" /\ datasets' = datasets /\ left' = m
        BY <1>8, <1>9, <2>1, <2>6
      <4> QED BY <1>3, <1>7, <2>1, <2>3, <4>1
    <3>2. 0 \in 0 .. m - 1
      BY <1>7, <2>6
    <3> HIDE DEF r
    <3> QED BY <1>3, <1>6, <2>1, <2>2, <2>4, <3>1, <3>2, OnToPair
  <2> QED BY <2>5, <2>6
<1>10. CASE ~ r.ok
  <2>1. Refuse
    BY <1>10 DEF SelectDb
  <2> QED BY <1>8, <1>10, <2>1, Refused
<1> QED BY <1>9, <1>10

LEMMA OneMoreKnown ==
  ASSUME Cut, NEW n \in Nat, NEW m \in Nat, KnownPairs(n + 1, m),
         KnownPair(written.sets[n + 1].pairs[m + 1])
  PROVE  KnownPairs(n + 1, m + 1)
<1> SUFFICES ASSUME NEW j \in 1 .. m + 1 PROVE KnownPair(written.sets[n + 1].pairs[j])
  BY DEF KnownPairs
<1>1. CASE j = m + 1
  BY <1>1
<1>2. CASE j # m + 1
  <2>1. j \in 1 .. m
    BY <1>2
  <2> QED BY <2>1 DEF KnownPairs
<1> QED BY <1>1, <1>2

LEMMA OneMoreSet ==
  ASSUME Cut, NEW n \in Nat, KnownSets(n),
         KnownPairs(n + 1, Len(written.sets[n + 1].pairs))
  PROVE  KnownSets(n + 1)
<1> SUFFICES ASSUME NEW i \in 1 .. n + 1
             PROVE  KnownPairs(i, Len(written.sets[i].pairs))
  BY DEF KnownSets
<1>1. CASE i = n + 1
  BY <1>1
<1>2. CASE i # n + 1
  <2>1. i \in 1 .. n
    BY <1>2
  <2> QED BY <2>1 DEF KnownSets
<1> QED BY <1>1, <1>2

(* src/rdb_file_reader.rs:138-199: a pair.                                 *)
LEMMA PairStep ==
  ASSUME Cut, Progress, TakePair
  PROVE  Progress'
<1>1. phase = "pairs"
  BY DEF TakePair
<1>a. PICK n \in 0 .. Len(written.sets) - 1 :
             \E m \in 0 .. Len(written.sets[n + 1].pairs) - 1 : AtPair(n, m)
  BY <1>1 DEF Progress
<1>2. PICK m \in 0 .. Len(written.sets[n + 1].pairs) - 1 : AtPair(n, m)
  BY <1>a
<1> DEFINE set == written.sets[n + 1]
           N == Len(set.pairs)
           pair == set.pairs[m + 1]
           r == ReadPair(bytes, pos)
           now == SetAt(written, n)
<1>3. /\ pos = now + PairAt(set, m) /\ left = N - m
      /\ datasets = Prefix(Contents, n) /\ pairs = Prefix(Contents[n + 1], m)
      /\ KnownFields(Len(written.aux)) /\ KnownSets(n) /\ KnownPairs(n + 1, m)
  BY <1>2 DEF AtPair
<1>4. /\ Len(written.sets) \in Nat /\ n \in Nat
      /\ n + 1 \in 1 .. Len(written.sets) /\ n + 1 \in 0 .. Len(written.sets)
  BY Places
<1>5. N \in Nat /\ DOMAIN set.pairs = 1 .. N /\ n + 1 \in DOMAIN written.sets
  BY <1>4, Places
<1>6. m \in Nat /\ m + 1 \in 1 .. N /\ m < N
  BY <1>5
<1>7. /\ r.ok => /\ KnownPair(pair) /\ r.val = MeaningOfPair(pair)
                 /\ r.next = now + PairAt(set, m + 1)
      /\ ~ r.ok => ~ KnownPair(pair) \/ ~ Whole
  BY <1>3, AtPairs
<1>8. CASE r.ok
  <2> DEFINE read == Append(pairs, r.val)
  <2>1. /\ pos' = r.next /\ written' = written /\ bytes' = bytes
        /\ left' = left - 1
        /\ pairs' = (IF left - 1 = 0 THEN <<>> ELSE read)
        /\ datasets' = (IF left - 1 = 0 THEN Append(datasets, read) ELSE datasets)
        /\ phase' = (IF left - 1 = 0 THEN "database" ELSE "pairs")
    BY <1>8 DEF TakePair, Collect
  <2>2. read = Prefix(Contents[n + 1], m + 1)
    <3>1. r.val = Contents[n + 1][m + 1]
      BY <1>4, <1>6, <1>7, <1>8, ContentsFacts
    <3>2. Append(Prefix(Contents[n + 1], m), Contents[n + 1][m + 1])
            = Prefix(Contents[n + 1], m + 1)
      BY <1>6, PrefixGrows
    <3> QED BY ONLY <1>3, <3>1, <3>2
  <2>3. KnownPairs(n + 1, m + 1)
    BY <1>3, <1>4, <1>6, <1>7, <1>8, OneMoreKnown
  <2>4. pos' = now + PairAt(set, m + 1)
    BY <1>7, <1>8, <2>1
  <2> HIDE DEF read, r
  <2>5. CASE m + 1 = N
    <3>1. left - 1 = 0
      BY ONLY <1>3, <1>5, <1>6, <2>5
    <3>2. phase' = "database" /\ pairs' = <<>> /\ datasets' = Append(datasets, read)
      BY <2>1, <3>1
    <3>3. Contents[n + 1] = Prefix(Contents[n + 1], N)
      BY <1>4, ContentsFacts
    <3>4. datasets' = Prefix(Contents, n + 1)
      <4>1. Append(Prefix(Contents, n), Contents[n + 1]) = Prefix(Contents, n + 1)
        BY <1>4, PrefixGrows
      <4>2. read = Contents[n + 1]
        BY ONLY <2>2, <2>5, <3>3
      <4> QED BY ONLY <1>3, <3>2, <4>1, <4>2
    <3>5. pos' = SetAt(written, n + 1)
      <4>1. IsSet(set) /\ SetAt(written, n + 1) = now + Len(SetBytes(set))
        BY SetPlaces
      <4>2. Len(SetBytes(set)) = PairAt(set, N)
        BY <4>1, SetLayout
      <4> QED BY ONLY <2>4, <2>5, <4>1, <4>2
    <3>6. KnownSets(n + 1)
      <4>1. KnownPairs(n + 1, Len(written.sets[n + 1].pairs))
        BY ONLY <2>3, <2>5 DEF N, set
      <4> QED BY <1>3, <1>4, <4>1, OneMoreSet
    <3> QED BY <1>3, <1>4, <2>1, <3>2, <3>4, <3>5, <3>6, OnToSet
  <2>6. CASE m + 1 # N
    <3>1. left - 1 # 0 /\ left - 1 = N - (m + 1) /\ m + 1 \in 0 .. N - 1
      <4>1. left = N - m /\ N \in Nat /\ m \in Nat /\ m + 1 =< N
        BY <1>3, <1>5, <1>6
      <4> HIDE DEF N
      <4> QED BY ONLY <4>1, <2>6
    <3>2. /\ phase' = "pairs" /\ datasets' = Prefix(Contents, n)
          /\ pairs' = Prefix(Contents[n + 1], m + 1) /\ left' = N - (m + 1)
      BY <1>3, <2>1, <2>2, <3>1
    <3> QED BY <1>3, <2>1, <2>3, <2>4, <3>1, <3>2, OnToPair
  <2> QED BY <2>5, <2>6
<1>9. CASE ~ r.ok
  <2>1. Refuse
    BY <1>9 DEF TakePair
  <2>2. ~ Whole \/ ~ Understood
    BY <1>5, <1>6, <1>7, <1>9 DEF Understood
  <2> QED BY <2>1, <2>2, Refused
<1> QED BY <1>8, <1>9

(* How far the reader has come, and what it then has: the invariant that   *)
(* settles what a reader ends with.                                        *)
LEMMA SnapshotInvariant == Spec => []SnapshotInv
<1>1. Init => Cut /\ Progress
  <2> SUFFICES ASSUME Init PROVE Cut /\ Progress
    OBVIOUS
  <2>1. Cut
    BY DEF Init, Cut
  <2>2. phase = "header" /\ datasets = <<>> /\ pairs = <<>>
    BY DEF Init
  <2> QED BY <2>1, <2>2 DEF Progress
<1>2. TypeOK /\ (Cut /\ (Sized => Progress)) /\ [Next]_vars => (Cut /\ (Sized => Progress))'
  <2> SUFFICES ASSUME Cut, Sized => Progress, [Next]_vars
               PROVE  Cut' /\ (Sized' => Progress')
    OBVIOUS
  <2>1. CASE Next
    <3>1. written' = written /\ bytes' = bytes
      BY <2>1, FileStays
    <3>2. Cut' /\ (Sized' <=> Sized)
      BY <3>1, MeaningStays
    <3>3. ASSUME Sized PROVE Progress'
      <4>1. Progress
        BY <3>3
      <4> QED BY <2>1, <3>3, <4>1, HeaderStep, FieldStep, EndMetadataStep, SelectStep, PairStep,
                 EndDatabasesStep, UnexpectedStep, FinishStep DEF Next
    <3> QED BY <3>2, <3>3
  <2>2. CASE UNCHANGED vars
    <3>1. /\ written' = written /\ bytes' = bytes /\ phase' = phase /\ pos' = pos
          /\ datasets' = datasets /\ pairs' = pairs /\ left' = left
      BY <2>2 DEF vars
    <3>2. Cut' /\ (Sized' <=> Sized)
      BY <3>1, MeaningStays
    <3>3. Progress' <=> Progress
      BY ONLY <3>1 DEF Progress, AtField, AtSet, AtPair, KnownFields, KnownSets, KnownPairs,
                       Contents, Whole, Understood
    <3> QED BY <3>2, <3>3
  <2> QED BY <2>1, <2>2
<1> QED BY <1>1, <1>2, RedisFilesAreRead, PTL DEF Spec, SnapshotInv

(* src/rdb_file_reader.rs:38-226: what passes for a snapshot is all of it, *)
(* for every snapshot that Redis may have written, and wherever its file   *)
(* was cut.                                                                *)
THEOREM SnapshotsAreWhole == Spec => []AllOrNothing
<1>1. SnapshotInv => AllOrNothing
  BY DEF SnapshotInv, Progress, AllOrNothing
<1> QED BY <1>1, SnapshotInvariant, PTL

(* src/rdb_file_reader.rs:38-226: and a whole file that the reader can     *)
(* understand is never refused.                                            *)
THEOREM SnapshotsAreTaken == Spec => []RefusedForAReason
<1>1. SnapshotInv => RefusedForAReason
  BY DEF SnapshotInv, Progress, RefusedForAReason
<1> QED BY <1>1, SnapshotInvariant, PTL

-----------------------------------------------------------------------------
(***************************************************************************)
(* Preload: whatever a snapshot holds, however many data sets are read     *)
(* from it, and whatever callers select and write.                         *)
(***************************************************************************)

(* The databases are references as Admin::new made them: each to its own   *)
(* map or, behind the data sets, to the one they share.                    *)
Referring ==
  /\ databases = Admin!References(loaded)
  /\ curIdx \in Admin!Numbers(loaded)
  /\ \A i \in Admin!Numbers(loaded) : Admin!PlaceOf(loaded, i) \in DOMAIN heap

(* What is read is a sequence, of whatever.                                *)
IsSeq(s) == \E S : s \in Seq(S)
AreSeqs == IsSeq(datasets) /\ IsSeq(loaded)

PreloadInv == Referring /\ AreSeqs

(* How long a sequence is, and what Append makes of it.                    *)
LEMMA SeqFacts ==
  ASSUME NEW s, IsSeq(s)
  PROVE  Len(s) \in Nat /\ \A x : IsSeq(Append(s, x))
<1>1. PICK S : s \in Seq(S)
  BY DEF IsSeq
<1>2. ASSUME NEW x PROVE IsSeq(Append(s, x))
  <2>1. s \in Seq(S \cup {x})
    BY <1>1
  <2>2. Append(s, x) \in Seq(S \cup {x})
    BY <2>1
  <2> QED BY <2>2 DEF IsSeq
<1> QED BY <1>1, <1>2

(* src/data.rs:96-125: Admin::new.                                         *)
LEMMA NewRefers ==
  ASSUME NEW sets, IsSeq(sets)
  PROVE  /\ 0 \in Admin!Numbers(sets)
         /\ \A i \in Admin!Numbers(sets) : Admin!PlaceOf(sets, i) \in DOMAIN Admin!HeapOf(sets)
         /\ DOMAIN Admin!References(sets) = Admin!Numbers(sets)
<1>1. Len(sets) \in Nat
  BY SeqFacts
<1>2. 0 \in Admin!Numbers(sets)
  BY <1>1 DEF Admin!Numbers, Admin!Most
<1>3. \A i \in Admin!Numbers(sets) : Admin!PlaceOf(sets, i) \in DOMAIN Admin!HeapOf(sets)
  BY DEF Admin!HeapOf
<1> QED BY <1>2, <1>3 DEF Admin!References

LEMMA PreloadInitially == PreloadInit => PreloadInv
<1> SUFFICES ASSUME PreloadInit PROVE PreloadInv
  OBVIOUS
<1>1. IsSeq(<<>>)
  BY <<>> \in Seq({}) DEF IsSeq
<1>2. AreSeqs
  BY <1>1 DEF PreloadInit, Init, AreSeqs
<1>3. Referring
  BY <1>2, NewRefers DEF PreloadInit, AreSeqs, Referring
<1> QED BY <1>2, <1>3 DEF PreloadInv

(* A turn of the reader leaves the data sets alone or adds one.            *)
LEMMA TurnKeepsSeqs ==
  ASSUME IsSeq(datasets), Next
  PROVE  IsSeq(datasets')
<1>1. ASSUME NEW read, NEW n, Collect(read, n) PROVE IsSeq(datasets')
  BY <1>1, SeqFacts DEF Collect
<1>2. CASE SelectDb
  BY <1>2, <1>1 DEF SelectDb, Refuse
<1>3. CASE TakePair
  BY <1>3, <1>1 DEF TakePair, Refuse
<1>4. CASE ReadHeader \/ AuxField \/ EndMetadata \/ EndDatabases \/ Unexpected \/ Finish
  <2>1. datasets' = datasets
    BY <1>4 DEF ReadHeader, AuxField, EndMetadata, EndDatabases, Unexpected, Finish, Refuse
  <2> QED BY <2>1
<1> QED BY <1>2, <1>3, <1>4 DEF Next

(* What a caller of Admin may change: the current index, to one that       *)
(* exists, or the map that the current database refers to.                 *)
LEMMA UseFacts ==
  ASSUME Referring, IsSeq(loaded), Admin!Use
  PROVE  /\ databases' = databases
         /\ curIdx' \in Admin!Numbers(loaded)
         /\ DOMAIN heap' = DOMAIN heap
         /\ \A p \in DOMAIN heap : heap'[p] # heap[p] => p = databases[curIdx]
<1>1. DOMAIN databases = Admin!Numbers(loaded)
  BY NewRefers DEF Referring
<1>2. ASSUME NEW i \in Indices, Admin!SelectDatabase(i)
      PROVE  /\ databases' = databases /\ heap' = heap
             /\ curIdx' \in Admin!Numbers(loaded)
  BY <1>1, <1>2 DEF Admin!SelectDatabase, Referring
<1>3. ASSUME NEW k \in Keys, NEW entry \in Entries, Admin!Insert(k, entry)
      PROVE  /\ databases' = databases /\ curIdx' = curIdx
             /\ DOMAIN heap' = DOMAIN heap
             /\ \A p \in DOMAIN heap : heap'[p] # heap[p] => p = databases[curIdx]
  BY <1>3 DEF Admin!Insert, Admin!GetStringDataMap
<1> QED BY <1>2, <1>3 DEF Admin!Use, Referring

LEMMA PreloadNextInductive ==
  ASSUME PreloadInv, [PreloadNext]_all
  PROVE  PreloadInv'
<1>1. CASE Next /\ UNCHANGED admin
  <2>1. AreSeqs'
    BY <1>1, TurnKeepsSeqs DEF PreloadInv, AreSeqs, admin
  <2>2. Referring'
    BY <1>1 DEF PreloadInv, Referring, admin
  <2> QED BY <2>1, <2>2 DEF PreloadInv
<1>2. CASE ReplaceAdmin
  <2>1. AreSeqs'
    BY <1>2 DEF PreloadInv, AreSeqs, ReplaceAdmin, vars
  <2>2. /\ loaded' = datasets /\ IsSeq(datasets)
        /\ heap' = Admin!HeapOf(datasets)
        /\ databases' = Admin!References(datasets)
        /\ curIdx' = 0
    BY <1>2 DEF PreloadInv, AreSeqs, ReplaceAdmin
  <2>3. Referring'
    BY <2>2, NewRefers DEF Referring
  <2> QED BY <2>1, <2>3 DEF PreloadInv
<1>3. CASE Serve
  <2>1. AreSeqs'
    BY <1>3 DEF PreloadInv, AreSeqs, Serve, vars
  <2>2. loaded' = loaded
    BY <1>3 DEF Serve
  <2>3. Referring'
    BY <1>3, <2>2, UseFacts DEF PreloadInv, AreSeqs, Referring, Serve
  <2> QED BY <2>1, <2>3 DEF PreloadInv
<1>4. CASE UNCHANGED all
  BY <1>4 DEF all, vars, admin, PreloadInv, AreSeqs, Referring
<1> QED BY <1>1, <1>2, <1>3, <1>4 DEF PreloadNext

LEMMA PreloadInvariance == PreloadSpec => []PreloadInv
BY PreloadInitially, PreloadNextInductive, PTL DEF PreloadSpec

-----------------------------------------------------------------------------
(* For every snapshot, and whatever is selected: the database that         *)
(* commands index exists and refers to a map (src/data.rs:127-136).        *)
THEOREM CurrentAlwaysExists == PreloadSpec => []CurrentExists
<1>1. PreloadInv => CurrentExists
  BY NewRefers DEF PreloadInv, AreSeqs, Referring, CurrentExists, Databases, Admin!References
<1> QED BY <1>1, PreloadInvariance, PTL

(* For every snapshot: a write through one database shows in another only  *)
(* if the snapshot filled neither (src/data.rs:98-119).                    *)
THEOREM OnlyUnfilledShare == PreloadSpec => WritesStayApart
<1> DEFINE Apart ==
      UNCHANGED loaded =>
        \A i \in Databases :
          Admin!Held(i)' # Admin!Held(i) => i = curIdx \/ (~ Filled(i) /\ ~ Filled(curIdx))
<1>1. ASSUME PreloadInv, PreloadNext
      PROVE  Apart
  <2> SUFFICES ASSUME UNCHANGED loaded, NEW i \in Databases,
                      Admin!Held(i)' # Admin!Held(i)
               PROVE  i = curIdx \/ (~ Filled(i) /\ ~ Filled(curIdx))
    OBVIOUS
  <2>1. Serve
    <3>1. CASE Next /\ UNCHANGED admin
      BY <3>1 DEF admin, Admin!Held
    <3>2. CASE ReplaceAdmin
      BY <3>2 DEF ReplaceAdmin
    <3> QED BY <1>1, <3>1, <3>2 DEF PreloadNext
  <2>2. /\ databases' = databases
        /\ \A p \in DOMAIN heap : heap'[p] # heap[p] => p = databases[curIdx]
    BY <1>1, <2>1, UseFacts DEF PreloadInv, AreSeqs, Serve
  <2>3. /\ Len(loaded) \in Nat
        /\ i \in Admin!Numbers(loaded) /\ curIdx \in Admin!Numbers(loaded)
        /\ databases[i] = Admin!PlaceOf(loaded, i)
        /\ databases[curIdx] = Admin!PlaceOf(loaded, curIdx)
        /\ databases[i] \in DOMAIN heap
    BY <1>1, SeqFacts, NewRefers
       DEF PreloadInv, AreSeqs, Referring, Databases, Admin!References
  <2>4. Admin!PlaceOf(loaded, i) = Admin!PlaceOf(loaded, curIdx)
    BY <2>2, <2>3 DEF Admin!Held
  <2>5. i \in Nat /\ curIdx \in Nat
    BY <2>3 DEF Admin!Numbers
  <2> QED BY <2>3, <2>4, <2>5 DEF Admin!PlaceOf, Admin!Shared, Filled
<1>2. PreloadInv /\ [PreloadNext]_all => [Apart]_all
  BY <1>1
<1> QED BY <1>2, PreloadInvariance, PTL DEF PreloadSpec, WritesStayApart

-----------------------------------------------------------------------------
(* src/data.rs:113-119: collect keeps the last of the pairs of a key.      *)
LEMMA LastStays ==
  ASSUME NEW n \in Nat, NEW pairsRead, DOMAIN pairsRead = 1 .. n,
         NEW k \in {pairsRead[i].key : i \in 1 .. n}
  PROVE  \E i \in 1 .. n :
           /\ pairsRead[i].key = k /\ Admin!LastOf(pairsRead, k) = pairsRead[i]
           /\ \A j \in 1 .. n : pairsRead[j].key = k => j <= i
<1> DEFINE Greatest(i) ==
      pairsRead[i].key = k /\ \A j \in DOMAIN pairsRead : pairsRead[j].key = k => j <= i
           FromTheEnd == {n - i : i \in {m \in 1 .. n : pairsRead[m].key = k}}
<1>1. FromTheEnd \subseteq Nat /\ FromTheEnd # {}
  OBVIOUS
<1>2. PICK d \in FromTheEnd : \A e \in FromTheEnd : d <= e
  BY <1>1, LeastNumber
<1>3. PICK i \in 1 .. n : pairsRead[i].key = k /\ d = n - i
  BY <1>2
<1>4. \A j \in 1 .. n : pairsRead[j].key = k => j <= i
  <2>1. TAKE j \in 1 .. n
  <2>2. HAVE pairsRead[j].key = k
  <2>3. d <= n - j
    BY <1>2, <2>2
  <2> QED BY <1>3, <2>3
<1>5. Greatest(i)
  BY <1>3, <1>4
<1>6. Greatest(CHOOSE g \in DOMAIN pairsRead : Greatest(g))
      /\ (CHOOSE g \in DOMAIN pairsRead : Greatest(g)) \in DOMAIN pairsRead
  BY <1>5
<1>7. Admin!LastOf(pairsRead, k) = pairsRead[CHOOSE g \in DOMAIN pairsRead : Greatest(g)]
  BY DEF Admin!LastOf
<1> HIDE DEF Greatest
<1> QED BY <1>6, <1>7 DEF Greatest

(* What the map at a place was made from, and what may have become of it:  *)
(* a caller's SET put an entry over one of those, or beside them.          *)
MadeFrom(sets, p) == IF p = Admin!Shared THEN <<>> ELSE Admin!AsMap(sets[p])
GrownFrom(map, old) ==
  /\ DOMAIN old \subseteq DOMAIN map
  /\ \A k \in DOMAIN map :
       \/ k \in DOMAIN old /\ map[k] = old[k]
       \/ k \in Keys /\ map[k] \in Entries

Grown == \A p \in DOMAIN heap : GrownFrom(heap[p], MadeFrom(loaded, p))
Taken == loaded # <<>> => phase = "ok" /\ loaded = datasets

LoadInv == PreloadInv /\ SnapshotInv /\ Grown /\ Taken

LEMMA NewIsGrown ==
  ASSUME NEW sets
  PROVE  \A p \in DOMAIN Admin!HeapOf(sets) :
           GrownFrom(Admin!HeapOf(sets)[p], MadeFrom(sets, p))
BY DEF Admin!HeapOf, GrownFrom, MadeFrom

LEMMA WriteGrows ==
  ASSUME Grown, Referring, IsSeq(loaded), loaded' = loaded, Admin!Use
  PROVE  Grown'
<1>1. DOMAIN heap' = DOMAIN heap /\ \A p : MadeFrom(loaded, p)' = MadeFrom(loaded, p)
  BY UseFacts
<1>2. ASSUME NEW i \in Indices, Admin!SelectDatabase(i) PROVE Grown'
  <2>1. heap' = heap
    BY <1>2 DEF Admin!SelectDatabase
  <2> QED BY <1>1, <2>1 DEF Grown
<1>3. ASSUME NEW k \in Keys, NEW entry \in Entries, Admin!Insert(k, entry) PROVE Grown'
  <2> DEFINE q == databases[curIdx]
  <2>1. heap' = [heap EXCEPT ![q] = [x \in DOMAIN heap[q] \cup {k} |->
                                       IF x = k THEN entry ELSE heap[q][x]]]
    BY <1>3 DEF Admin!Insert, Admin!GetStringDataMap
  <2> HIDE DEF q
  <2>2. SUFFICES ASSUME NEW p \in DOMAIN heap PROVE GrownFrom(heap'[p], MadeFrom(loaded, p))
    BY <1>1 DEF Grown, GrownFrom
  <2>3. GrownFrom(heap[p], MadeFrom(loaded, p))
    BY DEF Grown
  <2>4. CASE p # q
    <3>1. heap'[p] = heap[p]
      BY <2>1, <2>4
    <3> QED BY <2>3, <3>1
  <2>5. CASE p = q
    <3>1. heap'[p] = [x \in DOMAIN heap[p] \cup {k} |-> IF x = k THEN entry ELSE heap[p][x]]
      BY <2>1, <2>5
    <3> QED BY <2>3, <3>1 DEF GrownFrom
  <2> QED BY <2>4, <2>5
<1> QED BY <1>2, <1>3 DEF Admin!Use

(* What the composition does to the reader's variables is what the reader  *)
(* does.                                                                   *)
LEMMA ReaderReads == PreloadSpec => Spec
<1>1. PreloadInit => Init
  BY DEF PreloadInit
<1>2. [PreloadNext]_all => [Next]_vars
  BY DEF PreloadNext, ReplaceAdmin, Serve, all
<1> QED BY <1>1, <1>2, PTL DEF PreloadSpec, Spec

LEMMA LoadInvariant == PreloadSpec => []LoadInv
<1>1. PreloadInit => Grown /\ Taken
  BY NewIsGrown DEF PreloadInit, Taken, Grown
<1>2. PreloadInv /\ SnapshotInv /\ (Grown /\ Taken) /\ [PreloadNext]_all => (Grown /\ Taken)'
  <2> SUFFICES ASSUME PreloadInv, SnapshotInv, Grown, Taken, [PreloadNext]_all
               PROVE  (Grown /\ Taken)'
    OBVIOUS
  <2>1. CASE Next /\ UNCHANGED admin
    <3>1. heap' = heap /\ loaded' = loaded
      BY <2>1 DEF admin
    <3>2. Grown'
      BY <3>1 DEF Grown, GrownFrom
    <3>3. phase \notin {"ok", "failed"}
      BY <2>1, NextIsATurn DEF SnapshotInv
    <3> QED BY <3>1, <3>2, <3>3 DEF Taken
  <2>2. CASE ReplaceAdmin
    <3>1. /\ loaded' = datasets /\ datasets' = datasets /\ phase' = "ok"
          /\ heap' = Admin!HeapOf(loaded')
      BY <2>2 DEF ReplaceAdmin, vars
    <3>2. Grown'
      BY <3>1, NewIsGrown DEF Grown, GrownFrom
    <3> QED BY <3>1, <3>2 DEF Taken
  <2>3. CASE Serve
    <3>1. loaded' = loaded /\ UNCHANGED vars /\ Admin!Use
      BY <2>3 DEF Serve
    <3>2. Grown'
      BY <3>1, WriteGrows DEF PreloadInv, AreSeqs
    <3> QED BY <3>1, <3>2 DEF Taken, vars
  <2>4. CASE UNCHANGED all
    <3>1. heap' = heap /\ loaded' = loaded /\ phase' = phase /\ datasets' = datasets
      BY <2>4 DEF all, vars, admin
    <3>2. Grown'
      BY <3>1 DEF Grown, GrownFrom
    <3> QED BY <3>1, <3>2 DEF Taken
  <2> QED BY <2>1, <2>2, <2>3, <2>4 DEF PreloadNext
<1> QED BY <1>1, <1>2, ReaderReads, SnapshotInvariant, PreloadInvariance, PTL
       DEF PreloadSpec, LoadInv

(* The data sets are as many as the snapshot has, and have as many pairs.  *)
LEMMA ContentsAreAsLong ==
  ASSUME Cut
  PROVE  /\ Len(Contents) = Len(written.sets) /\ Len(written.sets) \in Nat
         /\ DOMAIN written.sets = 1 .. Len(written.sets)
         /\ \A i \in DOMAIN written.sets :
              /\ Len(written.sets[i].pairs) \in Nat
              /\ DOMAIN written.sets[i].pairs = 1 .. Len(written.sets[i].pairs)
              /\ Contents[i] = [j \in 1 .. Len(written.sets[i].pairs) |->
                                  MeaningOfPair(written.sets[i].pairs[j])]
<1>1. /\ Len(written.sets) \in Nat /\ DOMAIN written.sets = 1 .. Len(written.sets)
      /\ \A i \in 1 .. Len(written.sets) :
           /\ Len(written.sets[i].pairs) \in Nat
           /\ DOMAIN written.sets[i].pairs = 1 .. Len(written.sets[i].pairs)
  BY Places
<1>2. Len(Contents) = Len(written.sets)
  <2>1. Contents = Prefix(Contents, Len(written.sets))
    BY ContentsFacts
  <2>2. Len(Prefix(Contents, Len(written.sets))) = Len(written.sets)
    BY <1>1, PrefixIsSeq
  <2> QED BY ONLY <2>1, <2>2
<1> QED BY <1>1, <1>2 DEF Contents

(* Where the maps are that the databases refer to, and what the data sets  *)
(* say.                                                                    *)
LEMMA Filling ==
  ASSUME LoadInv, Sized, loaded # <<>>, NEW i \in DOMAIN written.sets
  PROVE  /\ Admin!Held(i - 1) = heap[i]
         /\ GrownFrom(heap[i], Admin!AsMap(Contents[i]))
<1>1. phase = "ok" /\ loaded = Contents
  BY DEF LoadInv, Taken, SnapshotInv, Progress
<1>2. Len(loaded) = Len(written.sets) /\ Len(written.sets) \in Nat
      /\ i \in 1 .. Len(written.sets)
  <2>1. Cut
    BY DEF LoadInv, SnapshotInv
  <2> QED BY <1>1, <2>1, ContentsAreAsLong
<1>3. i - 1 \in Admin!Numbers(loaded) /\ Admin!PlaceOf(loaded, i - 1) = i
  BY <1>2 DEF Admin!Numbers, Admin!Most, Admin!PlaceOf
<1>4. /\ DOMAIN databases = Admin!Numbers(loaded) /\ databases[i - 1] = i
      /\ i \in DOMAIN heap
  BY <1>3 DEF LoadInv, PreloadInv, Referring, Admin!References
<1>5. MadeFrom(loaded, i) = Admin!AsMap(Contents[i])
  BY <1>1, <1>2 DEF MadeFrom, Admin!Shared
<1> QED BY <1>1, <1>2, <1>3, <1>4, <1>5 DEF LoadInv, Grown, Databases, Admin!Held

(* AsMap, of what the reader makes of a data set.                          *)
LEMMA MapOfPairs ==
  ASSUME NEW n \in Nat, NEW ps, DOMAIN ps = 1 .. n,
         NEW read, read = [j \in 1 .. n |-> MeaningOfPair(ps[j])]
  PROVE  /\ \A k \in DOMAIN Admin!AsMap(read) : \E j \in 1 .. n :
              Meaning(ps[j].key) = k /\ Admin!AsMap(read)[k] = Entry(ps[j])
         /\ \A j \in 1 .. n : Counts(ps, j) =>
              /\ Meaning(ps[j].key) \in DOMAIN Admin!AsMap(read)
              /\ Admin!AsMap(read)[Meaning(ps[j].key)] = Entry(ps[j])
<1> DEFINE map == Admin!AsMap(read)
<1>1. DOMAIN read = 1 .. n /\ \A j \in 1 .. n : read[j] = MeaningOfPair(ps[j])
  OBVIOUS
<1>2. \A j \in 1 .. n : /\ read[j].key = Meaning(ps[j].key)
                        /\ Entry(ps[j]) = [val |-> read[j].val, exp |-> read[j].exp]
  <2>1. TAKE j \in 1 .. n
  <2>2. read[j].key = Meaning(ps[j].key)
    BY <1>1, Zenon DEF MeaningOfPair
  <2>3. read[j] = MeaningOfPair(ps[j])
    BY <1>1
  <2>4. Entry(ps[j]) = [val |-> read[j].val, exp |-> read[j].exp]
    BY ONLY <2>3 DEF Entry
  <2> QED BY <2>2, <2>4
<1>3. /\ DOMAIN map = {read[j].key : j \in 1 .. n}
      /\ \A k \in DOMAIN map :
           map[k] = [val |-> Admin!LastOf(read, k).val, exp |-> Admin!LastOf(read, k).exp]
  BY <1>1 DEF Admin!AsMap
<1> HIDE DEF map
<1>4. \A k \in DOMAIN map : \E j \in 1 .. n :
        /\ read[j].key = k /\ map[k] = Entry(ps[j])
        /\ \A m \in 1 .. n : read[m].key = k => m <= j
  <2>1. TAKE k \in DOMAIN map
  <2>2. k \in {read[j].key : j \in 1 .. n}
    BY <1>3
  <2>3. PICK j \in 1 .. n : /\ read[j].key = k /\ Admin!LastOf(read, k) = read[j]
                           /\ \A m \in 1 .. n : read[m].key = k => m <= j
    BY <1>1, <2>2, LastStays
  <2> QED BY <1>2, <1>3, <2>3
<1>5. ASSUME NEW j \in 1 .. n, Counts(ps, j)
      PROVE  read[j].key \in DOMAIN map /\ map[read[j].key] = Entry(ps[j])
  <2>1. read[j].key \in DOMAIN map
    BY <1>3
  <2>2. PICK m \in 1 .. n : /\ read[m].key = read[j].key /\ map[read[j].key] = Entry(ps[m])
                           /\ j <= m
    BY <1>4, <2>1
  <2>3. m <= j
    BY <1>2, <1>5, <2>2 DEF Counts
  <2>4. m = j
    BY <2>2, <2>3
  <2> QED BY <2>1, <2>2, <2>4
<1>6. /\ \A k \in DOMAIN map : \E j \in 1 .. n :
           Meaning(ps[j].key) = k /\ map[k] = Entry(ps[j])
      /\ \A j \in 1 .. n : Counts(ps, j) =>
           Meaning(ps[j].key) \in DOMAIN map /\ map[Meaning(ps[j].key)] = Entry(ps[j])
  BY <1>2, <1>4, <1>5, SMTT(60)
<1> QED BY <1>6 DEF map

LEMMA MapOfSet ==
  ASSUME Cut, NEW i \in DOMAIN written.sets
  PROVE  /\ \A k \in DOMAIN Admin!AsMap(Contents[i]) : \E j \in DOMAIN written.sets[i].pairs :
              /\ Meaning(written.sets[i].pairs[j].key) = k
              /\ Admin!AsMap(Contents[i])[k] = Entry(written.sets[i].pairs[j])
         /\ \A j \in DOMAIN written.sets[i].pairs : Counts(written.sets[i].pairs, j) =>
              /\ Meaning(written.sets[i].pairs[j].key) \in DOMAIN Admin!AsMap(Contents[i])
              /\ Admin!AsMap(Contents[i])[Meaning(written.sets[i].pairs[j].key)]
                   = Entry(written.sets[i].pairs[j])
<1> DEFINE ps == written.sets[i].pairs
           n == Len(ps)
           read == Contents[i]
<1>1. /\ n \in Nat /\ DOMAIN ps = 1 .. n
      /\ read = [j \in 1 .. n |-> MeaningOfPair(ps[j])]
  BY ContentsAreAsLong
<1> HIDE DEF ps, n, read
<1>2. /\ \A k \in DOMAIN Admin!AsMap(read) : \E j \in DOMAIN ps :
           Meaning(ps[j].key) = k /\ Admin!AsMap(read)[k] = Entry(ps[j])
      /\ \A j \in DOMAIN ps : Counts(ps, j) =>
           /\ Meaning(ps[j].key) \in DOMAIN Admin!AsMap(read)
           /\ Admin!AsMap(read)[Meaning(ps[j].key)] = Entry(ps[j])
  BY ONLY <1>1, MapOfPairs, SMTT(60)
<1> QED BY ONLY <1>2 DEF ps, read

(* src/main.rs:113-132 and src/data.rs:96-125, from the file to the maps,  *)
(* for every snapshot that Redis may have left and whatever clients write: *)
(* what no client wrote is what the snapshot says, and all that it says is *)
(* there or was overwritten.                                               *)
THEOREM SnapshotsAreLoaded == PreloadSpec => []Preloaded
<1>1. LoadInv => Preloaded
  <2> SUFFICES ASSUME LoadInv, Sized PROVE Preloaded
    BY DEF Preloaded
  <2>0. Cut
    BY DEF LoadInv, SnapshotInv
  <2>1. ASSUME NEW i \in Databases, NEW k \in DOMAIN Admin!Held(i),
               Admin!Held(i)[k] \notin Entries
        PROVE  phase = "ok" /\ Says(i, k, Admin!Held(i)[k])
    <3>1. /\ i \in Admin!Numbers(loaded) /\ databases[i] = Admin!PlaceOf(loaded, i)
          /\ databases[i] \in DOMAIN heap
      BY <2>1, NewRefers
         DEF LoadInv, PreloadInv, AreSeqs, Referring, Databases, Admin!References
    <3>2. GrownFrom(Admin!Held(i), MadeFrom(loaded, databases[i]))
      BY <3>1 DEF LoadInv, Grown, Admin!Held
    <3>3. /\ k \in DOMAIN MadeFrom(loaded, databases[i])
          /\ Admin!Held(i)[k] = MadeFrom(loaded, databases[i])[k]
      BY <2>1, <3>2 DEF GrownFrom
    <3>4. databases[i] # Admin!Shared
      BY <3>3 DEF MadeFrom
    <3>5. i < Len(loaded) /\ databases[i] = i + 1
      BY <3>1, <3>4 DEF Admin!PlaceOf
    <3>6. Len(loaded) \in Nat /\ i \in Nat /\ loaded # <<>>
      <4>1. Len(loaded) \in Nat
        BY SeqFacts DEF LoadInv, PreloadInv, AreSeqs
      <4>2. i \in Nat
        BY <3>1 DEF Admin!Numbers
      <4>3. Len(<<>>) = 0
        OBVIOUS
      <4> QED BY <3>5, <4>1, <4>2, <4>3
    <3>7. phase = "ok" /\ loaded = Contents
      BY <3>6 DEF LoadInv, Taken, SnapshotInv, Progress
    <3>8. i + 1 \in DOMAIN written.sets /\ i < Len(written.sets)
      <4>1. /\ Len(loaded) = Len(written.sets)
            /\ DOMAIN written.sets = 1 .. Len(written.sets)
        BY <2>0, <3>7, ContentsAreAsLong
      <4> QED BY <3>5, <3>6, <4>1
    <3>9. MadeFrom(loaded, databases[i]) = Admin!AsMap(Contents[i + 1])
      BY <3>4, <3>5, <3>7 DEF MadeFrom
    <3>10. PICK j \in DOMAIN written.sets[i + 1].pairs :
             /\ Meaning(written.sets[i + 1].pairs[j].key) = k
             /\ Admin!Held(i)[k] = Entry(written.sets[i + 1].pairs[j])
      <4> DEFINE map == Admin!AsMap(Contents[i + 1])
                 ps == written.sets[i + 1].pairs
      <4>1. \A key \in DOMAIN map : \E j \in DOMAIN ps :
              Meaning(ps[j].key) = key /\ map[key] = Entry(ps[j])
        BY <2>0, <3>8, MapOfSet
      <4>2. k \in DOMAIN map /\ Admin!Held(i)[k] = map[k]
        BY <3>3, <3>9
      <4> HIDE DEF map
      <4> QED BY ONLY <4>1, <4>2
    <3> QED BY <3>7, <3>8, <3>10 DEF Says
  <2>2. ASSUME loaded # <<>>, NEW i \in DOMAIN written.sets,
               NEW j \in DOMAIN written.sets[i].pairs, Counts(written.sets[i].pairs, j)
        PROVE  LET k == Meaning(written.sets[i].pairs[j].key)
               IN  /\ k \in DOMAIN Admin!Held(i - 1)
                   /\ \/ Admin!Held(i - 1)[k] = Entry(written.sets[i].pairs[j])
                      \/ k \in Keys /\ Admin!Held(i - 1)[k] \in Entries
    <3> DEFINE k == Meaning(written.sets[i].pairs[j].key)
    <3>1. Admin!Held(i - 1) = heap[i] /\ GrownFrom(heap[i], Admin!AsMap(Contents[i]))
      BY <2>2, Filling
    <3>2. /\ k \in DOMAIN Admin!AsMap(Contents[i])
          /\ Admin!AsMap(Contents[i])[k] = Entry(written.sets[i].pairs[j])
      BY <2>0, <2>2, MapOfSet
    <3> HIDE DEF k
    <3>3. /\ k \in DOMAIN Admin!Held(i - 1)
          /\ \/ Admin!Held(i - 1)[k] = Entry(written.sets[i].pairs[j])
             \/ k \in Keys /\ Admin!Held(i - 1)[k] \in Entries
      BY <3>1, <3>2 DEF GrownFrom
    <3> QED BY <3>3 DEF k
  <2> QED BY <2>1, <2>2 DEF Preloaded
<1> QED BY <1>1, LoadInvariant, PTL
=============================================================================
