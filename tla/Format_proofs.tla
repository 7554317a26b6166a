----------------------------- MODULE Format_proofs -----------------------------
(***************************************************************************)
(* Proofs about FatEntry and Format.  First what a put does to the bytes   *)
(* of a table, for every type, every number of clusters and copies, and    *)
(* whatever the device held before.                                        *)
(*                                                                         *)
(* Then the layout format_partition plans: it fits into every partition of *)
(* every size it accepts; TLC looks at sizes around the limits of the      *)
(* geometry, these proofs at all of them.  And the volume is sound         *)
(* wherever a format was stopped: its tables, its count and its root       *)
(* directory.                                                              *)
(***************************************************************************)
EXTENDS Format, FiniteSetTheorems, TLAPS

ByteTable == [0..(FatBytes - 1) -> Byte]

\* The bytes of an entry.
Width(ft) == IF ft = 32 THEN 4 ELSE 2

-----------------------------------------------------------------------------
(* Encodings *)

\* A volume has room in its values for all its clusters, so that decoding undoes
\* encoding.
LEMMA DecodeUndoesEncode ==
    ASSUME NEW ft \in {12, 16, 32}, MayBe(ft), NEW v \in FatValue
    PROVE  /\ Encode(ft, v) \in Nat /\ Encode(ft, v) <= MaxValue(ft)
           /\ Decode(ft, Encode(ft, v)) = v
<1> USE ClusterCountAssumption DEF MayBe, FatValue, Cluster, Free, EndOfChain, Bad
<1>1. CASE ft = 12
  BY <1>1, SMT DEF Encode, Decode, MaxValue
<1>2. CASE ft = 16
  BY <1>2, SMT DEF Encode, Decode, MaxValue
<1>3. CASE ft = 32
  BY <1>3, SMT DEF Encode, Decode, MaxValue
<1> QED BY <1>1, <1>2, <1>3, SMT

\* Every entry lies within its table.
LEMMA EntryInTable ==
    ASSUME NEW ft \in {12, 16, 32}, NEW c \in Entry
    PROVE  /\ Offset(ft, c) \in Nat
           /\ Offset(ft, c) + Width(ft) <= FatBytes
           /\ FatBytes \in Nat
<1> USE ClusterCountAssumption DEF Entry, FatBytes, Width
<1>1. CASE ft = 12
  BY <1>1, SMT DEF Offset
<1>2. CASE ft = 16
  BY <1>2, SMT DEF Offset
<1>3. CASE ft = 32
  BY <1>3, SMT DEF Offset
<1> QED BY <1>1, <1>2, <1>3, SMT

-----------------------------------------------------------------------------
(* One copy *)

\* What raw_put writes, byte by byte.
LEMMA WrittenBytes ==
    ASSUME NEW ft \in {12, 16, 32}, NEW t \in ByteTable, NEW c \in Entry, NEW v,
           Get(ft, t, c) # v
    PROVE  LET at  == Offset(ft, c)
               new == NewBytes(ft, t[at], c, Encode(ft, v))
               put == RawPut(ft, t, c, v)
           IN  /\ put = [k \in 0..(FatBytes - 1) |-> put[k]]
               /\ \A j \in 0..(Width(ft) - 1) : put[at + j] = new[j + 1]
               /\ \A k \in 0..(FatBytes - 1) : k < at \/ k >= at + Width(ft) => put[k] = t[k]
<1> DEFINE at  == Offset(ft, c)
           new == NewBytes(ft, t[at], c, Encode(ft, v))
           put == RawPut(ft, t, c, v)
<1>1. Len(new) = Width(ft)
  BY SMT DEF NewBytes, Width
<1>2. at \in Nat /\ at + Width(ft) <= FatBytes /\ FatBytes \in Nat /\ Width(ft) \in {2, 4}
  BY EntryInTable, SMT DEF Width
<1>3. put = [k \in 0..(FatBytes - 1) |-> IF k \in at..(at + Width(ft) - 1)
                                          THEN new[k - at + 1] ELSE t[k]]
  BY <1>1, SMT DEF RawPut, ByteTable
<1> HIDE DEF at, new, put
<1>4. ASSUME NEW j \in 0..(Width(ft) - 1) PROVE put[at + j] = new[j + 1]
  <2>1. PICK k \in 0..(FatBytes - 1) : k = at + j
    BY <1>2, SMT
  <2>2. k \in at..(at + Width(ft) - 1) /\ k - at + 1 = j + 1
    BY <1>2, <2>1, SMT
  <2> QED BY <1>3, <2>1, <2>2, SMT
<1>5. ASSUME NEW k \in 0..(FatBytes - 1), k < at \/ k >= at + Width(ft) PROVE put[k] = t[k]
  <2>1. k \notin at..(at + Width(ft) - 1)
    BY <1>2, <1>5, SMT
  <2> QED BY <1>3, <2>1, SMT
<1>6. put = [k \in 0..(FatBytes - 1) |-> put[k]]
  BY <1>3, SMT
<1> QED BY <1>4, <1>5, <1>6, SMT DEF at, new, put

\* A number below 2^28 is put together from the bytes it is taken apart into.
LEMMA BytesOfNumber ==
    ASSUME NEW n \in Nat, n < 268435456
    PROVE  /\ ByteOf(n, 1) \in Byte /\ ByteOf(n, 256) \in Byte
           /\ ByteOf(n, 65536) \in Byte /\ ByteOf(n, 16777216) \in Byte
           /\ n < 65536 => n = ByteOf(n, 1) + (256 * ByteOf(n, 256))
           /\ n = ByteOf(n, 1) + (256 * ByteOf(n, 256))
                     + (65536 * ((ByteOf(n, 65536) + (256 * ByteOf(n, 16777216))) % 4096))
<1>1. PICK b0 \in Int, b1 \in Int, b2 \in Int, b3 \in Int :
          b0 = ByteOf(n, 1) /\ b1 = ByteOf(n, 256) /\ b2 = ByteOf(n, 65536) /\ b3 = ByteOf(n, 16777216)
  BY SMT DEF ByteOf
<1>2. b0 \in Byte /\ b1 \in Byte /\ b2 \in Byte /\ b3 \in Byte
  BY <1>1, SMT DEF ByteOf, Byte
<1>3. PICK q1 \in Int, q2 \in Int : q1 = n \div 256 /\ q2 = n \div 65536
  BY SMT
<1>4. n = b0 + (256 * q1) /\ q1 \in Nat /\ q1 < 1048576
  BY <1>1, <1>3, SMT DEF ByteOf
<1>5. q2 = q1 \div 256
  BY <1>3, SMT
<1>6. q1 = b1 + (256 * q2) /\ q2 \in Nat /\ q2 < 4096
  BY <1>1, <1>3, <1>4, <1>5, SMT DEF ByteOf
<1>7. n \div 16777216 = q2 \div 256
  BY <1>3, SMT
<1>8. q2 = b2 + (256 * b3)
  BY <1>1, <1>3, <1>6, <1>7, SMT DEF ByteOf
<1>9. q2 % 4096 = q2
  BY <1>6, SMT
<1>10. n < 65536 => q2 = 0
  BY <1>3, SMT
<1>11. n = b0 + (256 * b1) + (65536 * (q2 % 4096))
  BY <1>2, <1>4, <1>6, <1>9, SMT DEF Byte
<1>12. n < 65536 => n = b0 + (256 * b1)
  BY <1>2, <1>11, <1>10, <1>9, SMT DEF Byte
<1> QED BY <1>1, <1>2, <1>8, <1>11, <1>12, SMT

\* The upper twelve bits of two bytes, the lower twelve, and what is put together
\* for an odd entry.
LEMMA TwelveBits ==
    ASSUME NEW a \in Nat, NEW b \in Nat, NEW x \in Nat, a < 256, b < 256, x < 16
    PROVE  /\ (a + (256 * b)) \div 16 \in Nat
           /\ (a + (256 * b)) \div 16 < 4096
           /\ ((a + (256 * b)) \div 16) \div 16 = b
           /\ ((b % 16) + (16 * x)) \in Nat
           /\ ((b % 16) + (16 * x)) < 256
           /\ (a + (256 * ((b % 16) + (16 * x)))) % 4096 = (a + (256 * b)) % 4096
<1>1. PICK u \in Int, w \in Int : u = a \div 16 /\ w = (a + (256 * b)) \div 16
  BY SMT
<1>2. a - (16 * u) >= 0 /\ a - (16 * u) < 16
  BY <1>1, SMT
<1>3. u >= 0 /\ u < 16 /\ w = u + (16 * b)
  BY <1>1, <1>2, SMT
<1>4. w \div 16 = b
  BY <1>3, SMT
<1>5. PICK y \in Int, z \in Int : y = b % 16 /\ z = b \div 16
  BY SMT
<1>6. b = y + (16 * z) /\ y >= 0 /\ y < 16 /\ z >= 0 /\ z < 16
  BY <1>5, SMT
<1>7. (a + (256 * b)) % 4096 = a + (256 * y)
  BY <1>6, SMT
<1>8. (a + (256 * (y + (16 * x)))) % 4096 = a + (256 * y)
  BY <1>6, SMT
<1> QED BY <1>1, <1>3, <1>4, <1>5, <1>6, <1>7, <1>8, SMT

\* A put is read back.
LEMMA PutIsRead ==
    ASSUME NEW ft \in {12, 16, 32}, MayBe(ft), NEW t \in ByteTable, NEW c \in Entry,
           NEW v \in FatValue
    PROVE  /\ RawPut(ft, t, c, v) \in ByteTable
           /\ Get(ft, RawPut(ft, t, c, v), c) = v
           /\ ft = 12 /\ Odd(c) => RawPut(ft, t, c, v)[Offset(12, c) + 1] = Encode(12, v) \div 16
<1> DEFINE at  == Offset(ft, c)
           n   == Encode(ft, v)
           put == RawPut(ft, t, c, v)
<1>1. at \in Nat /\ at + Width(ft) <= FatBytes /\ FatBytes \in Nat /\ Width(ft) \in {2, 4}
  BY EntryInTable, SMT DEF Width
<1>2. n \in Nat /\ n <= MaxValue(ft) /\ Decode(ft, n) = v
  BY DecodeUndoesEncode, SMT
<1>3. t[at] \in Byte /\ t[at + 1] \in Byte
  BY <1>1, SMT DEF ByteTable
<1> HIDE DEF at, n, put
<1>4. CASE Get(ft, t, c) = v
  <2>1. put = t
    BY <1>4, SMT DEF put, RawPut
  <2>2. ASSUME ft = 12, Odd(c) PROVE t[at + 1] = n \div 16
    <3>1. PICK w \in Nat : w < 4096 /\ w = Word(t, at) \div 16 /\ t[at + 1] = w \div 16
      <4>1. PICK a \in Byte, b \in Byte : a = t[at] /\ b = t[at + 1]
        BY <1>3
      <4>2. Word(t, at) = a + (256 * b)
        BY <4>1, SMT DEF Word
      <4>3. a \in Nat /\ b \in Nat /\ a < 256 /\ b < 256
        BY SMT DEF Byte
      <4> QED BY <4>1, <4>2, <4>3, TwelveBits, SMT
    <3>2. Decode(12, w) = v
      BY <1>4, <2>2, <3>1, SMT DEF Get, at
    <3>3. w = n \/ (w > 4087 /\ n = 4095)
      BY <2>2, <3>2, ClusterCountAssumption, SMT
         DEF n, MayBe, Decode, Encode, MaxValue, FatValue, Cluster, Free, EndOfChain, Bad
    <3> QED BY <1>2, <3>1, <3>3, SMT
  <2> QED BY <1>4, <2>1, <2>2, SMT DEF put, at, n
<1>5. CASE Get(ft, t, c) # v
  <2> DEFINE new == NewBytes(ft, t[at], c, n)
  <2>1. /\ put = [k \in 0..(FatBytes - 1) |-> put[k]]
        /\ \A j \in 0..(Width(ft) - 1) : put[at + j] = new[j + 1]
        /\ \A k \in 0..(FatBytes - 1) : k < at \/ k >= at + Width(ft) => put[k] = t[k]
    BY <1>5, WrittenBytes, SMT DEF put, at, n
  <2> HIDE DEF new
  <2>2. put[at] = new[1] /\ put[at + 1] = new[2]
    <3>1. 0 \in 0..(Width(ft) - 1) /\ 1 \in 0..(Width(ft) - 1) /\ at + 0 = at
      BY <1>1, SMT
    <3>2. put[at + 0] = new[0 + 1]
      BY <2>1, <3>1, Zenon
    <3>3. put[at + 1] = new[1 + 1]
      BY <2>1, <3>1, Zenon
    <3> QED BY <3>1, <3>2, <3>3
  <2>3. ft = 32 => put[at + 2] = new[3] /\ put[at + 3] = new[4]
    BY <2>1, SMT DEF Width
  <2>4. \A j \in 0..(Width(ft) - 1) : new[j + 1] \in Byte
    <3>1. PICK a \in Nat : a < 256 /\ a = t[at]
      BY <1>3, SMT DEF Byte
    <3>2. n \in Nat /\ n < 268435456
      BY <1>2, SMT DEF MaxValue
    <3>3. /\ ByteOf(n, 1) \in Byte /\ ByteOf(n, 256) \in Byte
          /\ ByteOf(n, 65536) \in Byte /\ ByteOf(n, 16777216) \in Byte
      BY <3>2, BytesOfNumber, SMT
    <3>4. CASE ft = 12 /\ Odd(c)
      <4>1. new = <<(a % 16) + (16 * (n % 16)), ByteOf(n, 16)>>
        BY <3>1, <3>4, SMT DEF new, NewBytes
      <4>2. (a % 16) + (16 * (n % 16)) \in Byte /\ ByteOf(n, 16) \in Byte
        BY <3>1, <3>2, SMT DEF ByteOf, Byte
      <4> QED BY <3>4, <4>1, <4>2, SMT DEF Width
    <3>5. CASE ft = 12 /\ ~Odd(c)
      <4> DEFINE high == ((ByteOf(n, 1) \div 16) * 16) + (ByteOf(n, 256) % 16)
      <4>1. new = <<ByteOf(n, 1), high>>
        BY <3>5, SMT DEF new, NewBytes
      <4>2. high \in Byte
        BY <3>3, SMT DEF Byte
      <4> HIDE DEF high
      <4> QED BY <3>3, <3>5, <4>1, <4>2, SMT DEF Width
    <3>6. CASE ft = 16
      <4>1. new = <<ByteOf(n, 1), ByteOf(n, 256)>>
        BY <3>6, SMT DEF new, NewBytes
      <4> QED BY <3>3, <3>6, <4>1, SMT DEF Width
    <3>7. CASE ft = 32
      <4>1. new = <<ByteOf(n, 1), ByteOf(n, 256), ByteOf(n, 65536), ByteOf(n, 16777216)>>
        BY <3>7, SMT DEF new, NewBytes
      <4> QED BY <3>3, <3>7, <4>1, SMT DEF Width
    <3> QED BY <3>4, <3>5, <3>6, <3>7, SMT
  <2>5. put \in ByteTable
    <3>1. ASSUME NEW k \in 0..(FatBytes - 1) PROVE put[k] \in Byte
      <4>1. CASE k < at \/ k >= at + Width(ft)
        BY <2>1, <4>1, SMT DEF ByteTable
      <4>2. CASE k >= at /\ k < at + Width(ft)
        <5>1. PICK j \in 0..(Width(ft) - 1) : k = at + j
          BY <1>1, <4>2, SMT
        <5> QED BY <2>1, <2>4, <5>1, SMTT(30)
      <4> QED BY <1>1, <4>1, <4>2, SMT
    <3> QED BY <2>1, <3>1, SMT DEF ByteTable
  <2>6. CASE ft = 12 /\ Odd(c)
    <3>1. new[1] = (t[at] % 16) + (16 * (n % 16)) /\ new[2] = (n \div 16) % 256
      BY <2>6, SMT DEF new, NewBytes, ByteOf
    <3>2. n \in Nat /\ n < 4096
      BY <1>2, <2>6, SMT DEF MaxValue
    <3>3. Word(put, at) \div 16 = n /\ put[at + 1] = n \div 16
      BY <1>3, <2>2, <3>1, <3>2, SMT DEF Word, Byte
    <3> QED BY <1>2, <2>5, <2>6, <3>3, SMT DEF Get, at, put, n
  <2>7. CASE ft = 12 /\ ~Odd(c)
    <3>1. /\ new[1] = n % 256
          /\ new[2] = (((n % 256) \div 16) * 16) + (((n \div 256) % 256) % 16)
      BY <1>2, <2>7, SMT DEF new, NewBytes, ByteOf, MaxValue
    <3>2. n \in Nat /\ n < 4096
      BY <1>2, <2>7, SMT DEF MaxValue
    <3>3. Word(put, at) % 4096 = n
      BY <2>2, <3>1, <3>2, SMT DEF Word
    <3> QED BY <1>2, <2>5, <2>7, <3>3, SMT DEF Get, at, put, n
  <2>8. CASE ft = 16
    <3>1. new[1] = ByteOf(n, 1) /\ new[2] = ByteOf(n, 256)
      BY <2>8, SMT DEF new, NewBytes
    <3>2. n \in Nat /\ n < 65536
      BY <1>2, <2>8, SMT DEF MaxValue
    <3>3. Word(put, at) = n
      BY <2>2, <3>1, <3>2, BytesOfNumber, SMT DEF Word
    <3> QED BY <1>2, <2>5, <2>8, <3>3, SMT DEF Get, at, put, n
  <2>9. CASE ft = 32
    <3>1. /\ new[1] = ByteOf(n, 1) /\ new[2] = ByteOf(n, 256)
          /\ new[3] = ByteOf(n, 65536) /\ new[4] = ByteOf(n, 16777216)
      BY <2>9, SMT DEF new, NewBytes
    <3>2. n \in Nat /\ n < 268435456
      BY <1>2, <2>9, SMT DEF MaxValue
    <3>3. at + 2 + 1 = at + 3
      BY <1>1, SMT
    <3>4. Word(put, at) + (65536 * (Word(put, at + 2) % 4096)) = n
      BY <2>2, <2>3, <2>9, <3>1, <3>2, <3>3, BytesOfNumber, SMT DEF Word
    <3> QED BY <1>2, <2>5, <2>9, <3>4, SMT DEF Get, at, put, n
  <2> QED BY <2>6, <2>7, <2>8, <2>9, SMT
<1> QED BY <1>4, <1>5, SMT DEF put

\* It leaves all other entries alone, but for the odd FAT12 entry behind an even one,
\* of which it leaves the upper eight bits.
LEMMA PutLeavesOthers ==
    ASSUME NEW ft \in {12, 16, 32}, MayBe(ft), NEW t \in ByteTable, NEW v \in FatValue,
           NEW c \in Entry, NEW d \in Entry, c # d
    PROVE  /\ ft # 12 \/ Odd(c) \/ d # c + 1 => Get(ft, RawPut(ft, t, c, v), d) = Get(ft, t, d)
           /\ ft = 12 /\ Odd(d) => RawPut(ft, t, c, v)[Offset(12, d) + 1] = t[Offset(12, d) + 1]
<1> DEFINE at  == Offset(ft, c)
           od  == Offset(ft, d)
           put == RawPut(ft, t, c, v)
<1>1. CASE Get(ft, t, c) = v
  BY <1>1, SMT DEF RawPut
<1>2. CASE Get(ft, t, c) # v
  <2> DEFINE new == NewBytes(ft, t[at], c, Encode(ft, v))
  <2>1. /\ \A j \in 0..(Width(ft) - 1) : put[at + j] = new[j + 1]
        /\ \A k \in 0..(FatBytes - 1) : k < at \/ k >= at + Width(ft) => put[k] = t[k]
    BY <1>2, WrittenBytes, SMT
  <2>2. /\ at \in Nat /\ od \in Nat /\ od + Width(ft) <= FatBytes /\ FatBytes \in Nat
        /\ Width(ft) \in {2, 4} /\ c \in Nat /\ d \in Nat
    BY EntryInTable, ClusterCountAssumption, SMT DEF Width, Entry
  <2> HIDE DEF new, put
  <2>3. CASE ft # 12
    <3>1. od + Width(ft) <= at \/ od >= at + Width(ft)
      BY <2>2, <2>3, SMT DEF Offset, Width, at, od
    <3>2. \A j \in 0..(Width(ft) - 1) : put[od + j] = t[od + j]
      <4> SUFFICES ASSUME NEW j \in 0..(Width(ft) - 1) PROVE put[od + j] = t[od + j]
        BY SMT
      <4>1. od + j \in 0..(FatBytes - 1) /\ (od + j < at \/ od + j >= at + Width(ft))
        BY <2>2, <3>1, SMT
      <4> QED BY <2>1, <4>1, SMT
    <3>3. put[od] = t[od] /\ put[od + 1] = t[od + 1]
      BY <2>2, <3>2, SMT
    <3>4. ft = 32 => /\ put[od + 2] = t[od + 2] /\ put[od + 3] = t[od + 3]
                     /\ od + 2 + 1 = od + 3
      BY <2>2, <3>2, SMT DEF Width
    <3> QED BY <2>3, <3>3, <3>4, SMT DEF Get, Word, od, put
  <2>4. CASE ft = 12
    <3>1. Width(ft) = 2
      BY <2>4, SMT DEF Width
    <3>2. /\ at = c + (c \div 2) /\ od = d + (d \div 2)
      BY <2>4, SMT DEF Offset
    <3> HIDE DEF at, od
    <3>3. od \in 0..(FatBytes - 1) /\ od + 1 \in 0..(FatBytes - 1)
      BY <2>2, <3>1, SMT
    <3>4. CASE d < c - 1 \/ d > c + 1 \/ (d = c + 1 /\ Odd(c)) \/ (d = c - 1 /\ ~Odd(c))
      <4>1. od + 1 < at \/ od > at + 1
        BY <2>2, <3>2, <3>4, SMT DEF Odd
      <4>2. put[od] = t[od] /\ put[od + 1] = t[od + 1]
        BY <2>1, <2>2, <3>1, <3>3, <4>1, SMT
      <4> QED BY <2>4, <4>2, SMT DEF Get, Word, od, put
    <3>5. CASE d = c - 1 /\ Odd(c)
      <4>1. od + 1 = at /\ ~Odd(d) /\ od < at
        BY <2>2, <3>2, <3>5, SMT DEF Odd
      <4>2. put[od] = t[od]
        BY <2>1, <3>3, <4>1, SMT
      <4>3. put[at] = new[1]
        <5>1. 0 \in 0..(Width(ft) - 1) /\ at + 0 = at
          BY <2>2, <3>1, SMT
        <5> QED BY <2>1, <5>1, SMT
      <4>4. new[1] = (t[at] % 16) + (16 * (Encode(ft, v) % 16))
        BY <2>4, <3>5, SMT DEF new, NewBytes
      <4>5. PICK x \in Nat : x < 16 /\ put[at] = (t[at] % 16) + (16 * x)
        <5>1. Encode(ft, v) \in Int
          BY <2>4, DecodeUndoesEncode, SMT DEF MaxValue
        <5>2. Encode(ft, v) % 16 \in Nat /\ Encode(ft, v) % 16 < 16
          BY <5>1, SMT
        <5> QED BY <4>3, <4>4, <5>2, SMT
      <4>6. t[od] \in Byte /\ t[at] \in Byte
        BY <3>3, <4>1, SMT DEF ByteTable
      <4>7. Word(put, od) % 4096 = Word(t, od) % 4096
        <5>1. PICK a \in Byte, b \in Byte : a = t[od] /\ b = t[at]
          BY <4>6
        <5>2. Word(t, od) = a + (256 * b) /\ Word(put, od) = a + (256 * ((b % 16) + (16 * x)))
          BY <4>1, <4>2, <4>5, <5>1, SMT DEF Word
        <5>3. a \in Nat /\ b \in Nat /\ a < 256 /\ b < 256
          BY SMT DEF Byte
        <5> QED BY <4>5, <5>2, <5>3, TwelveBits, SMT
      <4> QED BY <2>4, <4>1, <4>7, SMT DEF Get, od, put
    <3>6. CASE d = c + 1 /\ ~Odd(c)
      <4>1. od + 1 = at + 2
        BY <2>2, <3>2, <3>6, SMT DEF Odd
      <4>2. put[od + 1] = t[od + 1]
        BY <2>1, <2>2, <3>1, <3>3, <4>1, SMT
      <4> QED BY <2>4, <3>6, <4>2, SMT DEF od, put
    <3> QED BY <2>2, <3>4, <3>5, <3>6, SMT
  <2> QED BY <2>3, <2>4, SMT
<1> QED BY <1>1, <1>2, SMT

\* Two copies in which the entry of c and the one of d read alike do so after the same
\* put on both, whatever else differs between them.  For the odd FAT12 entry behind an
\* even one it takes that its upper eight bits are alike as well.
LEMMA PutKeepsAgreement ==
    ASSUME NEW ft \in {12, 16, 32}, MayBe(ft), NEW t \in ByteTable, NEW u \in ByteTable,
           NEW v \in FatValue, NEW c \in Entry, NEW d \in Entry, c # d,
           Get(ft, t, d) = Get(ft, u, d), Get(ft, t, c) = Get(ft, u, c),
           ft = 12 /\ Odd(d) => t[Offset(12, d) + 1] = u[Offset(12, d) + 1]
    PROVE  Get(ft, RawPut(ft, t, c, v), d) = Get(ft, RawPut(ft, u, c, v), d)
<1>1. CASE ft # 12 \/ Odd(c) \/ d # c + 1
  <2>1. /\ Get(ft, RawPut(ft, t, c, v), d) = Get(ft, t, d)
        /\ Get(ft, RawPut(ft, u, c, v), d) = Get(ft, u, d)
    BY <1>1, PutLeavesOthers, SMT
  <2> QED BY <2>1
<1>2. CASE Get(ft, t, c) = v
  BY <1>2 DEF RawPut
<1>3. CASE ft = 12 /\ ~Odd(c) /\ d = c + 1 /\ Get(ft, t, c) # v
  <2> DEFINE at  == Offset(12, c)
             w   == Encode(12, v)
             low == ((ByteOf(w, 1) \div 16) * 16) + (ByteOf(w, 256) % 16)
  <2>1. at \in Nat /\ Offset(12, d) = at + 1 /\ at + 2 < FatBytes /\ Odd(d)
    BY <1>3, ClusterCountAssumption, SMT DEF Offset, Odd, Entry, FatBytes
  <2>2. ASSUME NEW x \in ByteTable, Get(12, x, c) # v
        PROVE  RawPut(12, x, c, v)[at + 1] = low /\ RawPut(12, x, c, v)[at + 2] = x[at + 2]
    <3>1. NewBytes(12, x[at], c, w) = <<ByteOf(w, 1), low>>
      BY <1>3 DEF NewBytes
    <3> HIDE DEF low, w, at
    <3>2. RawPut(12, x, c, v) =
             [k \in DOMAIN x |-> IF k \in at..(at + 1)
                                    THEN <<ByteOf(w, 1), low>>[k - at + 1] ELSE x[k]]
      <4>1. Len(<<ByteOf(w, 1), low>>) = 2 /\ at + 2 - 1 = at + 1
        BY <2>1, SMT
      <4>2. RawPut(12, x, c, v) =
               [k \in DOMAIN x |-> IF k \in at..(at + Len(NewBytes(12, x[at], c, w)) - 1)
                                      THEN NewBytes(12, x[at], c, w)[k - at + 1] ELSE x[k]]
        BY <2>2 DEF RawPut, at, w
      <4> QED BY <3>1, <4>1, <4>2
    <3>3. DOMAIN x = 0..(FatBytes - 1)
      BY DEF ByteTable
    <3>4. at + 1 \in DOMAIN x /\ at + 2 \in DOMAIN x
      BY <2>1, <3>3, ClusterCountAssumption, SMT DEF FatBytes
    <3>5. at + 1 \in at..(at + 1) /\ at + 2 \notin at..(at + 1) /\ (at + 1) - at + 1 = 2
      BY <2>1, SMT
    <3> QED BY <3>2, <3>4, <3>5, SMT
  <2>3. Get(12, u, c) # v
    BY <1>3
  <2>4. t[at + 2] = u[at + 2]
    <3> HIDE DEF at
    <3>1. (at + 1) + 1 = at + 2
      BY <2>1, SMT
    <3> QED BY <1>3, <2>1, <3>1
  <2>5. /\ RawPut(12, t, c, v)[at + 1] = RawPut(12, u, c, v)[at + 1]
        /\ RawPut(12, t, c, v)[at + 2] = RawPut(12, u, c, v)[at + 2]
    BY <1>3, <2>2, <2>3, <2>4
  <2>6. Word(RawPut(12, t, c, v), Offset(12, d)) = Word(RawPut(12, u, c, v), Offset(12, d))
    <3> HIDE DEF at
    <3>1. (at + 1) + 1 = at + 2
      BY <2>1, SMT
    <3> QED BY <2>1, <2>5, <3>1 DEF Word
  <2> QED BY <1>3, <2>1, <2>6 DEF Get
<1> QED BY <1>1, <1>2, <1>3

-----------------------------------------------------------------------------
(* All copies *)

\* What is known of the tables at every moment.
TableInv ==
    /\ TypeOK
    /\ MayBe(fat_type)
    /\ cleared < ClusterCount => stored = [c \in Entry |-> Free]
    /\ \A c \in shifted : fat_type = 12 /\ Odd(c)
    /\ CopiesAgree
    /\ \A i \in Copy, c \in 0..(cleared - 1) :
          /\ c \notin shifted => Get(fat_type, bytes[i], c) = stored[c]
          /\ fat_type = 12 /\ Odd(c) => bytes[i][Offset(12, c) + 1] = Encode(12, stored[c]) \div 16

LEMMA TableInvInit == Init => TableInv
<1> SUFFICES ASSUME Init PROVE TableInv
  OBVIOUS
<1>1. fat_type \in {12, 16, 32} /\ MayBe(fat_type)
  BY DEF Init
<1>2. bytes \in [Copy -> ByteTable]
  BY EntryAssumption DEF Init, ByteTable, FatBytes, Byte
<1>3. 0..(cleared - 1) = {}
  BY SMT DEF Init
<1>4. TypeOK
  BY <1>1, <1>2, ClusterCountAssumption DEF Init, TypeOK, FatValue, ByteTable
<1> QED BY <1>1, <1>3, <1>4 DEF Init, TableInv, CopiesAgree

\* A put of any value for any entry whose table is cleared that far.
LEMMA PutKeepsTables ==
    ASSUME TableInv, NEW c \in Entry, NEW v \in FatValue,
           bytes' = PutAll(fat_type, bytes, c, v), shifted' = Shift(c), fat_type' = fat_type,
           \/ c = cleared /\ v = Free /\ cleared' = cleared + 1 /\ stored' = stored
           \/ cleared = ClusterCount /\ cleared' = cleared /\ stored' = [stored EXCEPT ![c] = v]
    PROVE  TableInv'
<1>1. fat_type \in {12, 16, 32} /\ MayBe(fat_type) /\ cleared \in Nat /\ cleared <= ClusterCount
  BY ClusterCountAssumption, SMT DEF TableInv, TypeOK
<1>2. \A i \in Copy : bytes[i] \in ByteTable /\ bytes'[i] = RawPut(fat_type, bytes[i], c, v)
  <2>1. \A i \in Copy : i < FatCount
    BY EntryAssumption, SMT DEF Copy
  <2> QED BY <2>1 DEF TableInv, TypeOK, ByteTable, PutAll, PutFirst
<1>3. /\ stored' \in [Entry -> FatValue] /\ stored'[c] = v
      /\ \A d \in Entry : d # c => stored'[d] = stored[d]
  <2>1. stored \in [Entry -> FatValue]
    BY DEF TableInv, TypeOK
  <2>2. CASE c = cleared /\ v = Free /\ cleared' = cleared + 1 /\ stored' = stored
    <3>1. cleared < ClusterCount
      BY <2>2, ClusterCountAssumption, SMT DEF Entry
    <3> QED BY <2>1, <2>2, <3>1, SMT DEF TableInv
  <2>3. CASE cleared = ClusterCount /\ stored' = [stored EXCEPT ![c] = v]
    BY <2>1, <2>3, SMT
  <2> QED BY <2>2, <2>3
<1>4. TypeOK'
  <2>1. bytes' \in [Copy -> [0..(FatBytes - 1) -> Byte]]
    <3>1. \A i \in Copy : RawPut(fat_type, bytes[i], c, v) \in ByteTable
      BY <1>1, <1>2, PutIsRead, SMT
    <3>2. bytes' = [i \in Copy |-> RawPut(fat_type, bytes[i], c, v)]
      <4>1. \A i \in Copy : i < FatCount
        BY EntryAssumption, SMT DEF Copy
      <4> QED BY <4>1 DEF PutAll, PutFirst
    <3> QED BY <3>1, <3>2, SMT DEF ByteTable
  <2>2. shifted' \subseteq Entry
    BY DEF TableInv, TypeOK, Shift
  <2>3. cleared' \in 0..ClusterCount
    BY <1>1, ClusterCountAssumption, SMT DEF Entry
  <2> QED BY <1>1, <1>3, <2>1, <2>2, <2>3 DEF TypeOK
<1>5. MayBe(fat_type)'
  BY <1>1, SMT DEF MayBe
<1>6. (cleared < ClusterCount => stored = [d \in Entry |-> Free])'
  BY <1>1, ClusterCountAssumption, SMT DEF TableInv, Entry
<1>7. \A d \in shifted' : fat_type' = 12 /\ Odd(d)
  BY ClusterCountAssumption, SMT DEF TableInv, Shift, Odd, Entry
<1>8. CopiesAgree'
  <2>1. 0 \in Copy
    BY EntryAssumption DEF Copy
  <2>2. ASSUME NEW d \in 0..(cleared' - 1), NEW i \in Copy
        PROVE  Get(fat_type, bytes'[i], d) = Get(fat_type, bytes'[0], d)
    <3>1. d \in Entry
      BY <1>1, ClusterCountAssumption, SMT DEF Entry
    <3>2. CASE d = c
      BY <1>1, <1>2, <2>1, <3>1, <3>2, PutIsRead
    <3>3. CASE d # c
      <4>1. d \in 0..(cleared - 1)
        BY <1>1, <3>1, <3>3, ClusterCountAssumption, SMT DEF Entry
      <4>2. Get(fat_type, bytes[i], d) = Get(fat_type, bytes[0], d)
        BY <4>1 DEF TableInv, CopiesAgree
      <4>3. fat_type = 12 /\ Odd(d) => bytes[i][Offset(12, d) + 1] = bytes[0][Offset(12, d) + 1]
        BY <2>1, <4>1 DEF TableInv
      <4>4. CASE c \in 0..(cleared - 1)
        <5>1. Get(fat_type, bytes[i], c) = Get(fat_type, bytes[0], c)
          BY <4>4 DEF TableInv, CopiesAgree
        <5> QED BY <1>1, <1>2, <2>1, <3>1, <3>3, <4>2, <4>3, <5>1, PutKeepsAgreement
      <4>5. CASE c \notin 0..(cleared - 1)
        <5>1. d # c + 1
          BY <1>1, <4>1, <4>5, ClusterCountAssumption, SMT DEF Entry
        <5>2. \A k \in Copy : Get(fat_type, bytes'[k], d) = Get(fat_type, bytes[k], d)
          BY <1>1, <1>2, <3>1, <3>3, <5>1, PutLeavesOthers
        <5> QED BY <2>1, <4>2, <5>2
      <4> QED BY <4>4, <4>5
    <3> QED BY <3>2, <3>3
  <2>3. fat_type' = fat_type
    OBVIOUS
  <2> QED BY <2>2, <2>3 DEF CopiesAgree
<1>9. ASSUME NEW i \in Copy, NEW d \in 0..(cleared' - 1)
      PROVE  /\ d \notin shifted' => Get(fat_type', bytes'[i], d) = stored'[d]
             /\ fat_type' = 12 /\ Odd(d)
                  => bytes'[i][Offset(12, d) + 1] = Encode(12, stored'[d]) \div 16
  <2>1. d \in Entry
    BY <1>1, ClusterCountAssumption, SMT DEF Entry
  <2>2. CASE d = c
    BY <1>1, <1>2, <1>3, <2>1, <2>2, PutIsRead, SMT
  <2>3. CASE d # c
    <3>1. d \in 0..(cleared - 1) /\ stored'[d] = stored[d]
      BY <1>1, <1>3, <2>1, <2>3, ClusterCountAssumption, SMT DEF Entry
    <3>2. d \notin shifted' => d \notin shifted /\ (fat_type # 12 \/ Odd(c) \/ d # c + 1)
      BY <2>1, <2>3, SMT DEF Shift
    <3>3. /\ d \notin shifted' => Get(fat_type, bytes'[i], d) = Get(fat_type, bytes[i], d)
          /\ fat_type = 12 /\ Odd(d) => bytes'[i][Offset(12, d) + 1] = bytes[i][Offset(12, d) + 1]
      BY <1>1, <1>2, <2>1, <2>3, <3>2, PutLeavesOthers, SMT
    <3> QED BY <3>1, <3>2, <3>3, SMT DEF TableInv
  <2> QED BY <2>2, <2>3
<1> QED BY <1>4, <1>5, <1>6, <1>7, <1>8, <1>9 DEF TableInv

LEMMA TableInvStep == TableInv /\ [Next]_vars => TableInv'
<1> SUFFICES ASSUME TableInv, [Next]_vars PROVE TableInv'
  OBVIOUS
<1>1. CASE UNCHANGED vars
  BY <1>1, SMT DEF vars, TableInv, TypeOK, MayBe, CopiesAgree
<1>2. CASE InitializeEntry
  <2>1. cleared \in Entry /\ Free \in FatValue
    BY <1>2, ClusterCountAssumption, SMT DEF InitializeEntry, TableInv, TypeOK, Entry, FatValue
  <2> QED BY <1>2, <2>1, PutKeepsTables, SMT DEF InitializeEntry
<1>3. ASSUME NEW c \in Touched, NEW v \in Stored, Put(c, v) PROVE TableInv'
  <2>1. c \in Entry /\ v \in FatValue
    BY EntryAssumption, ClusterCountAssumption, SMT DEF Entry, Cluster
  <2>2. /\ bytes' = PutAll(fat_type, bytes, c, v) /\ shifted' = Shift(c) /\ fat_type' = fat_type
        /\ cleared = ClusterCount /\ cleared' = cleared /\ stored' = [stored EXCEPT ![c] = v]
    BY <1>3 DEF Put
  <2> QED BY <2>1, <2>2, PutKeepsTables
<1> QED BY <1>1, <1>2, <1>3 DEF Next

\* What the properties ask for.
LEMMA TableInvImplies ==
    ASSUME TableInv
    PROVE  /\ EntriesIndependentOrShifted
           /\ ShiftedKeepsUpperBits
<1>1. EntriesIndependentOrShifted
  BY SMT DEF TableInv, EntriesIndependentOrShifted
<1>2. ShiftedKeepsUpperBits
  BY SMT DEF TableInv, ShiftedKeepsUpperBits
<1> QED BY <1>1, <1>2

\* FatValue::get returns what put stored, in every copy and for every type, number of
\* clusters and old content of the device, which may differ from copy to copy, but for
\* odd FAT12 entries whose even neighbour was put after them, which keep their upper
\* eight bits and read alike in all copies.  Nothing that
\* Format assumes of its own constants is used for it.
THEOREM EntriesStayIndependent ==
    Spec => [](TypeOK /\ EntriesIndependentOrShifted /\ ShiftedKeepsUpperBits /\ CopiesAgree)
<1>1. TableInv => TypeOK /\ EntriesIndependentOrShifted /\ ShiftedKeepsUpperBits /\ CopiesAgree
  BY TableInvImplies DEF TableInv
<1> QED BY <1>1, TableInvInit, TableInvStep, PTL DEF Spec

-----------------------------------------------------------------------------
(* The layout *)

\* Clusters have one of six sizes.
LEMMA ClusterBlocksRange ==
    ASSUME NEW ft \in {12, 16, 32}, NEW n \in Nat
    PROVE  ClusterBlocks(ft, n) \in {1, 4, 8, 16, 32, 64}
  BY SMTT(30) DEF ClusterBlocks

\* Rounding up to blocks loses nothing.
LEMMA RoundUpEnough ==
    ASSUME NEW n \in Nat
    PROVE  /\ RoundUp(n, BlockLen) \in Nat
           /\ n <= RoundUp(n, BlockLen) * BlockLen
  BY SMT DEF RoundUp, BlockLen

\* The bytes a table is planned with.
TableBytes(ft, k) == CASE ft = 32 -> (4 * k) + 8
                       [] ft # 32 /\ k > 4085 -> (2 * k) + 4
                       [] ft # 32 /\ k <= 4085 -> (((3 * k) + 1) \div 2) + 3

LEMMA FatBlocksEnough ==
    ASSUME NEW ft \in {12, 16, 32}, NEW n \in Nat
    PROVE  /\ NumberClusters(ft, n) \in Nat
           /\ FatBlocks(ft, n) \in Nat
           /\ TableBytes(ft, NumberClusters(ft, n)) <= FatBlocks(ft, n) * BlockLen
<1> DEFINE k == NumberClusters(ft, n)
<1>1. k \in Nat
  <2>1. PICK b \in {1, 4, 8, 16, 32, 64} : b = ClusterBlocks(ft, n)
    BY ClusterBlocksRange
  <2> QED BY <2>1, SMT DEF NumberClusters
<1>2. TableBytes(ft, k) \in Nat
  BY <1>1, SMT DEF TableBytes
<1>3. FatBlocks(ft, n) = RoundUp(TableBytes(ft, k), BlockLen)
  BY SMT DEF FatBlocks, TableBytes
<1> QED BY <1>1, <1>2, <1>3, RoundUpEnough

\* No more clusters are found in the data area than were counted in the partition,
\* and fewer when the reserved blocks and the root directory take one.
LEMMA DataClustersBound ==
    ASSUME NEW ft \in {12, 16, 32}, NEW n \in Nat, n >= FirstData(ft, n)
    PROVE  /\ DataClusters(ft, n) \in Nat
           /\ DataClusters(ft, n) <= NumberClusters(ft, n)
           /\ FirstData(ft, n) + (DataClusters(ft, n) * ClusterBlocks(ft, n)) <= n
           /\ ft = 16 /\ DataClusters(ft, n) >= 4085 => NumberClusters(ft, n) > 4085
<1>1. PICK b \in {1, 4, 8, 16, 32, 64} : b = ClusterBlocks(ft, n)
  BY ClusterBlocksRange
<1>2. PICK f \in Nat : f = FirstData(ft, n) /\ (ft = 16 => f >= 33)
  <2>1. FatBlocks(ft, n) \in Nat
    BY FatBlocksEnough
  <2>2. FirstData(ft, n) \in Nat /\ (ft = 16 => FirstData(ft, n) >= 33)
    BY <2>1, SMT DEF FirstData, ReservedBlocks, RootBlocks, RoundUp, BlockLen
  <2> QED BY <2>2
<1>3. ft = 16 => b \in {4, 64}
  BY <1>1, SMT DEF ClusterBlocks
<1>4. /\ DataClusters(ft, n) = (n - f) \div b
      /\ NumberClusters(ft, n) = n \div b
  BY <1>1, <1>2, SMT DEF DataClusters, NumberClusters
<1>5. b = 64 /\ ft = 16 => n \div 4 > 65525
  BY <1>1, SMT DEF ClusterBlocks
<1>6. /\ (n - f) \div b \in Nat
      /\ (n - f) \div b <= n \div b
      /\ f + (((n - f) \div b) * b) <= n
  BY <1>1, <1>2, SMT
<1>7. ft = 16 /\ (n - f) \div b >= 4085 => n \div b > 4085
  <2>1. CASE b = 4 BY <2>1, <1>2, SMT
  <2>2. CASE b = 64 BY <2>2, <1>2, <1>5, SMT
  <2> QED BY <2>1, <2>2, <1>3
<1> QED BY <1>1, <1>2, <1>4, <1>6, <1>7

\* What is known of a partition whose format was planned.
Planned == /\ blocks >= FirstData(fat_type, blocks)
           /\ TypeBySize(DataClusters(fat_type, blocks)) = fat_type

\* The table of a planned volume has an entry for its last cluster.
LEMMA PlannedFits ==
    ASSUME fat_type \in {12, 16, 32}, blocks \in Nat, Planned
    PROVE  LayoutFits
<1> DEFINE d == DataClusters(fat_type, blocks)
           k == NumberClusters(fat_type, blocks)
           b == ClusterBlocks(fat_type, blocks)
           size == FatBlocks(fat_type, blocks) * BlockLen
           used == CASE fat_type = 12 -> (d + 1) + ((d + 1) \div 2) + 2
                     [] fat_type = 16 -> (2 * (d + 1)) + 2
                     [] fat_type = 32 -> (4 * (d + 1)) + 4
<1>1. /\ d \in Nat /\ k \in Nat /\ d <= k
      /\ FirstData(fat_type, blocks) + (d * b) <= blocks
      /\ fat_type = 16 /\ d >= 4085 => k > 4085
  BY DataClustersBound, FatBlocksEnough, SMTT(30) DEF Planned
<1>2. TableBytes(fat_type, k) <= size
  BY FatBlocksEnough
<1>3. fat_type = 16 => d >= 4085
  BY <1>1, SMT DEF Planned, TypeBySize
<1>4. used <= TableBytes(fat_type, k)
  <2> HIDE DEF d, k
  <2>1. CASE fat_type = 12 BY <2>1, <1>1, SMT DEF TableBytes
  <2>2. CASE fat_type = 16 BY <2>2, <1>1, <1>3, SMT DEF TableBytes
  <2>3. CASE fat_type = 32 BY <2>3, <1>1, SMT DEF TableBytes
  <2> QED BY <2>1, <2>2, <2>3
<1>5. used <= size
  <2>1. used \in Int /\ TableBytes(fat_type, k) \in Int /\ size \in Int
    <3>1. size \in Int
      <4>1. FatBlocks(fat_type, blocks) \in Nat
        BY FatBlocksEnough
      <4> HIDE DEF d, k, used
      <4> QED BY <4>1, SMT DEF BlockLen
    <3> HIDE DEF d, k, size
    <3> QED BY <3>1, <1>1, SMT DEF TableBytes
  <2> HIDE DEF used, size
  <2> QED BY <2>1, <1>2, <1>4, SMT
<1>6. b * BlockLen < 65536
  BY ClusterBlocksRange, SMT DEF BlockLen
<1>7. ((d + 1) - 1) = d
  BY <1>1, SMT
<1> QED BY <1>1, <1>5, <1>6, <1>7, SMT DEF LayoutFits

\* The inductive invariant: the type and the size of the partition stay, and only
\* Plan comes to "planned".
LayoutInv == /\ fat_type \in {12, 16, 32}
             /\ blocks \in Nat
             /\ step = "planned" => Planned

LEMMA LayoutInvInit == FormatInit => LayoutInv
<1> SUFFICES ASSUME FormatInit PROVE LayoutInv
  OBVIOUS
<1>1. fat_type \in {12, 16, 32} /\ step = "asked" /\ blocks \in Sizes
  BY DEF FormatInit, Init
<1>2. blocks \in Nat
  <2>1. Sizes \subseteq 0..MaxBlocks
    BY FormatAssumption DEF FormatAssumption
  <2> QED BY <1>1, <2>1, SMT
<1> QED BY <1>1, <1>2 DEF LayoutInv

LEMMA LayoutInvStep == LayoutInv /\ [FormatNext]_formatVars => LayoutInv'
<1> SUFFICES ASSUME LayoutInv, [FormatNext]_formatVars PROVE LayoutInv'
  OBVIOUS
<1>1. fat_type' = fat_type /\ blocks' = blocks
  BY DEF FormatNext, formatVars, vars, At, Refuse, CleanInfo, Panic, Plan, WriteBoot,
         ClearTables, InitializeEntry, Mount, TakeRoot, FlushInfo, ClearRoot, FlushBoot,
         Again, Use, Put
<1>2. step' = "planned" => step = "planned" \/ Plan
  BY DEF FormatNext, formatVars, vars, At, Refuse, CleanInfo, Panic, Plan, WriteBoot,
         ClearTables, Mount, TakeRoot, FlushInfo, ClearRoot, FlushBoot, Again, Use
<1>3. step' = "planned" => Planned
  BY <1>2 DEF LayoutInv, Plan, Planned
<1>4. Planned => Planned'
  BY <1>1 DEF Planned
<1> QED BY <1>1, <1>3, <1>4 DEF LayoutInv

\* Whatever format_partition plans fits: the tables have an entry for every cluster
\* and the clusters end within the partition, for every size of partition, type and
\* number of failures.
THEOREM LayoutAlwaysFits == FormatSpec => []LayoutFits
<1>1. LayoutInv => LayoutFits
  <2>1. CASE step = "planned" BY <2>1, PlannedFits DEF LayoutInv
  <2>2. CASE step # "planned" BY <2>2 DEF LayoutFits
  <2> QED BY <2>1, <2>2
<1> QED BY <1>1, LayoutInvInit, LayoutInvStep, PTL DEF FormatSpec

-----------------------------------------------------------------------------
(* The volume that is made *)

AllFree == stored = [c \in Entry |-> Free]

\* The root directory has its cluster: the first of an empty table.
RootTaken == root_cluster = 2 /\ cleared = ClusterCount /\ stored[2] = EndOfChain

\* The chain of the root directory ends in its first cluster.
RootEnds == \A i \in Copy : Get(fat_type, bytes[i], 2) = EndOfChain

\* The stored or cached count is the one of the table.
Exactly(n) == n = {Cardinality(FreeEntries)}

\* What is on the disk and in memory at every step of a format.
StepInv ==
    /\ step \in {"cleaned", "planned", "tables", "mounted"} /\ fat_type = 32 => info = {}
    /\ step \in {"tables", "mounted", "allocated", "cleared"} => boot = {0}
    /\ step \in {"asked", "refused", "cleaned", "panicked", "wrapped", "planned", "tables"}
          => root_cluster = 0 /\ free = {} /\ AllFree
    /\ step = "mounted" => /\ fat_type = 32 /\ cleared = ClusterCount /\ Exactly(free)
                           /\ (root_cluster = 0 /\ AllFree) \/ RootTaken
    /\ step \in {"allocated", "cleared", "done", "used"}
          => IF fat_type = 32 THEN RootTaken ELSE root_cluster = 0
    /\ step \in {"cleared", "done", "used"} => root = "clear"
    /\ step \in {"done", "used"} => boot = {root_cluster}
    /\ boot \in {{}, {0}, {2}}
    /\ boot = {2} => fat_type = 32 /\ root = "clear" /\ RootEnds
    /\ boot # {} /\ step # "used" /\ fat_type = 32 /\ info # {} => Exactly(info)

\* The variables beside the tables, one by one.
FieldsOK ==
    /\ step \in {"asked", "refused", "cleaned", "panicked", "wrapped", "planned", "tables",
                 "mounted", "allocated", "cleared", "done", "used"}
    /\ blocks \in Sizes
    /\ info = {} \/ \E k \in Nat : info = {k}
    /\ free = {} \/ \E k \in Nat : free = {k}
    /\ root \in {"old", "clear"}
    /\ root_cluster \in {0, 2}
    /\ failures \in 0..MaxFailures

VolumeInv == TableInv /\ FieldsOK /\ StepInv

\* The free entries can be counted.
LEMMA CountIsNat == IsFiniteSet(FreeEntries) /\ Cardinality(FreeEntries) \in Nat
<1>1. IsFiniteSet(2..(ClusterCount - 1))
  BY FS_Interval, ClusterCountAssumption, SMT
<1>2. FreeEntries \subseteq 2..(ClusterCount - 1)
  BY DEF FreeEntries
<1> QED BY <1>1, <1>2, FS_Subset, FS_CardinalityType

\* What was put for an entry of FAT32 is read in every copy.
LEMMA TableInvReads ==
    ASSUME TableInv, fat_type = 32, cleared = ClusterCount
    PROVE  \A i \in Copy, c \in Entry : Get(fat_type, bytes[i], c) = stored[c]
  BY SMT DEF TableInv, Entry

\* The root directory's cluster ends the chain in every copy once it is taken.
LEMMA TakenEnds ==
    ASSUME TableInv, fat_type = 32, RootTaken
    PROVE  RootEnds
<1>1. 2 \in Entry
  BY ClusterCountAssumption, SMT DEF Entry
<1> QED BY <1>1, TableInvReads DEF RootTaken, RootEnds

LEMMA VolumeInvInit == FormatInit => VolumeInv
<1> SUFFICES ASSUME FormatInit PROVE VolumeInv
  OBVIOUS
<1>1. TableInv
  BY TableInvInit DEF FormatInit
<1>2. FieldsOK
  BY FormatAssumption, SMT DEF FormatInit, FieldsOK
<1>3. StepInv
  BY DEF FormatInit, Init, StepInv, AllFree
<1> QED BY <1>1, <1>2, <1>3 DEF VolumeInv

\* A step that leaves the tables alone keeps all that is said of them.
LEMMA TablesStay ==
    ASSUME VolumeInv, UNCHANGED vars
    PROVE  /\ TableInv'
           /\ Cardinality(FreeEntries)' = Cardinality(FreeEntries)
           /\ AllFree' = AllFree
           /\ RootEnds' = RootEnds
           /\ fat_type' = fat_type /\ cleared' = cleared /\ stored' = stored
<1>1. TableInv'
  BY TableInvStep DEF VolumeInv
<1> QED BY <1>1 DEF vars, FreeEntries, AllFree, RootEnds

\* Such steps: those before the tables are cleared, and those of the root directory
\* and the two blocks that follow.
LEMMA OtherSteps ==
    ASSUME VolumeInv,
           Refuse \/ CleanInfo \/ Panic \/ Plan \/ WriteBoot \/ Mount \/ FlushInfo \/ ClearRoot
              \/ FlushBoot \/ UNCHANGED formatVars
    PROVE  VolumeInv'
<1>1. UNCHANGED vars /\ failures' = failures /\ blocks' = blocks
  BY DEF Refuse, CleanInfo, Panic, Plan, WriteBoot, Mount, FlushInfo, ClearRoot, FlushBoot, At,
         formatVars
<1>2. /\ TableInv'
      /\ Cardinality(FreeEntries)' = Cardinality(FreeEntries)
      /\ AllFree' = AllFree
      /\ RootEnds' = RootEnds
      /\ fat_type' = fat_type /\ cleared' = cleared /\ stored' = stored
  BY <1>1, TablesStay
<1>3. PICK k \in Nat : Cardinality(FreeEntries) = k /\ Cardinality(FreeEntries)' = k
  BY <1>2, CountIsNat
<1>4. CASE Refuse \/ Panic \/ Plan
  <2>1. /\ UNCHANGED <<disk, free, root_cluster>>
        /\ \/ step = "asked" /\ step' = "refused"
           \/ step = "cleaned" /\ step' \in {"panicked", "wrapped", "planned"}
    BY <1>4 DEF Refuse, Panic, Plan, At
  <2> QED BY <1>1, <1>2, <1>3, <2>1 DEF VolumeInv, FieldsOK, StepInv, RootTaken, Exactly, disk
<1>5. CASE CleanInfo
  BY <1>1, <1>2, <1>3, <1>5 DEF VolumeInv, FieldsOK, StepInv, RootTaken, Exactly, CleanInfo, At
<1>6. CASE WriteBoot
  BY <1>1, <1>2, <1>3, <1>6 DEF VolumeInv, FieldsOK, StepInv, RootTaken, Exactly, WriteBoot, At
<1>7. CASE Mount
  BY <1>1, <1>2, <1>3, <1>7
     DEF VolumeInv, FieldsOK, StepInv, RootTaken, Exactly, Mount, Counted, At, disk
<1>8. CASE FlushInfo
  BY <1>1, <1>2, <1>3, <1>8 DEF VolumeInv, FieldsOK, StepInv, RootTaken, Exactly, FlushInfo, At
<1>9. CASE ClearRoot
  BY <1>1, <1>2, <1>3, <1>9 DEF VolumeInv, FieldsOK, StepInv, RootTaken, Exactly, ClearRoot, At
<1>10. CASE FlushBoot
  <2>1. fat_type = 32 /\ RootTaken => RootEnds
    BY TakenEnds DEF VolumeInv
  <2> QED BY <1>1, <1>2, <1>3, <1>10, <2>1
             DEF VolumeInv, FieldsOK, StepInv, RootTaken, Exactly, FlushBoot, At
<1>11. CASE UNCHANGED formatVars
  BY <1>1, <1>2, <1>3, <1>11
     DEF VolumeInv, FieldsOK, StepInv, RootTaken, Exactly, formatVars, disk
<1> QED BY <1>4, <1>5, <1>6, <1>7, <1>8, <1>9, <1>10, <1>11

\* Clearing goes on while no count is valid and the boot record names no root.
LEMMA ClearTablesStep == VolumeInv /\ ClearTables => VolumeInv'
<1> SUFFICES ASSUME VolumeInv, ClearTables PROVE VolumeInv'
  OBVIOUS
<1>1. TableInv'
  BY TableInvStep DEF VolumeInv, ClearTables, Next
<1>2. /\ step = "tables" /\ fat_type' = fat_type /\ stored' = stored
      /\ UNCHANGED <<step, blocks, failures, disk, free, root_cluster>>
  BY DEF ClearTables, InitializeEntry, At
<1>3. FieldsOK'
  BY <1>2 DEF VolumeInv, FieldsOK, disk
<1>4. StepInv'
  BY <1>2 DEF VolumeInv, StepInv, AllFree, disk
<1> QED BY <1>1, <1>3, <1>4 DEF VolumeInv

\* The root directory takes cluster 2, and one cluster less is free.
LEMMA TakeRootStep == VolumeInv /\ TakeRoot => VolumeInv'
<1> SUFFICES ASSUME VolumeInv, TakeRoot PROVE VolumeInv'
  OBVIOUS
<1>1. /\ step = "mounted" /\ root_cluster = 0 /\ step' = step
      /\ UNCHANGED <<fat_type, cleared, shifted, blocks, failures, disk>>
      /\ free' = {k - 1 : k \in free}
  BY DEF TakeRoot, At
<1>2. /\ fat_type = 32 /\ cleared = ClusterCount /\ Exactly(free) /\ AllFree
      /\ boot = {0} /\ info = {}
  BY <1>1 DEF VolumeInv, StepInv, RootTaken
<1>3. PICK c \in FreeEntries :
          /\ \A d \in FreeEntries : c <= d
          /\ bytes' = PutAll(fat_type, bytes, c, EndOfChain)
          /\ stored' = [stored EXCEPT ![c] = EndOfChain]
          /\ root_cluster' = c
  BY DEF TakeRoot
<1>4. 0 \in Copy
  BY EntryAssumption, SMT DEF Copy
<1>5. 2 \in Entry /\ \A d \in 2..(ClusterCount - 1) : d \in Entry
  BY ClusterCountAssumption, SMT DEF Entry
<1>6. FreeEntries = 2..(ClusterCount - 1)
  <2>1. ASSUME NEW d \in 2..(ClusterCount - 1) PROVE Get(fat_type, bytes[0], d) = Free
    BY <1>2, <1>4, <1>5, TableInvReads DEF VolumeInv, AllFree
  <2> QED BY <2>1 DEF FreeEntries
<1>7. c = 2
  <2>1. 2 \in FreeEntries
    BY <1>6, ClusterCountAssumption, SMT
  <2> QED BY <1>3, <1>6, <2>1, ClusterCountAssumption, SMT
<1>8. EndOfChain \in FatValue /\ EndOfChain # Free
  BY SMT DEF FatValue, EndOfChain, Free
<1>9. TableInv'
  <2>1. shifted = {}
    BY <1>2, SMT DEF VolumeInv, TableInv
  <2>2. shifted' = Shift(c)
    BY <1>1, <1>2, <2>1, SMT DEF Shift
  <2> QED BY <1>1, <1>2, <1>3, <1>5, <1>7, <1>8, <2>2, PutKeepsTables DEF VolumeInv
<1>10. RootTaken'
  <2>1. stored \in [Entry -> FatValue]
    BY DEF VolumeInv, TableInv, TypeOK
  <2> QED BY <1>1, <1>2, <1>3, <1>5, <1>7, <2>1 DEF RootTaken
<1>11. FreeEntries' = FreeEntries \ {2}
  <2>1. ASSUME NEW d \in 2..(ClusterCount - 1)
        PROVE  Get(fat_type, bytes[0], d)' = Free <=> d # 2
    <3>1. Get(fat_type, bytes[0], d)' = stored'[d]
      <4>1. fat_type' = 32 /\ cleared' = ClusterCount
        BY <1>1, <1>2
      <4>2. (\A i \in Copy, e \in Entry : Get(fat_type, bytes[i], e) = stored[e])'
        BY <1>9, <4>1, SMT DEF TableInv, Entry
      <4> QED BY <1>4, <1>5, <4>2
    <3>2. stored'[d] = IF d = 2 THEN EndOfChain ELSE Free
      BY <1>2, <1>3, <1>5, <1>7 DEF AllFree
    <3> QED BY <1>8, <3>1, <3>2
  <2> QED BY <1>6, <2>1 DEF FreeEntries
<1>12. PICK k \in Nat : /\ free = {k} /\ k = Cardinality(FreeEntries)
                        /\ k - 1 \in Nat /\ Cardinality(FreeEntries)' = k - 1
  <2>1. 2 \in FreeEntries
    BY <1>6, ClusterCountAssumption, SMT
  <2>2. Cardinality(FreeEntries \ {2}) = Cardinality(FreeEntries) - 1
    BY <2>1, CountIsNat, FS_RemoveElement
  <2>3. Cardinality(FreeEntries \ {2}) \in Nat
    BY CountIsNat, FS_RemoveElement, FS_CardinalityType
  <2>4. Cardinality(FreeEntries)' = Cardinality(FreeEntries \ {2})
    BY <1>11
  <2> QED BY <1>2, <2>2, <2>3, <2>4, CountIsNat DEF Exactly
<1>13. free' = {k - 1}
  BY <1>1, <1>12
<1>14. FieldsOK'
  BY <1>1, <1>2, <1>3, <1>7, <1>12, <1>13 DEF VolumeInv, FieldsOK, disk
<1>15. StepInv'
  BY <1>1, <1>2, <1>10, <1>12, <1>13 DEF StepInv, Exactly, disk
<1> QED BY <1>9, <1>14, <1>15 DEF VolumeInv

\* What is on the disk stays when a format is begun again.
LEMMA AgainStep == VolumeInv /\ Again => VolumeInv'
<1> SUFFICES ASSUME VolumeInv, Again PROVE VolumeInv'
  OBVIOUS
<1>1. /\ step' = "asked" /\ free' = {} /\ root_cluster' = 0 /\ AllFree'
      /\ cleared' = 0 /\ shifted' = {} /\ stored' = [c \in Entry |-> Free]
      /\ UNCHANGED <<fat_type, blocks, disk>>
      /\ step # "used" /\ failures < MaxFailures /\ failures' = failures + 1
  BY DEF Again, AllFree
<1> DEFINE early == step \in {"tables", "mounted"} /\ boot = {0} /\ (fat_type = 32 => info = {})
<1>7. bytes' \in [Copy -> ByteTable] /\ (bytes' = bytes \/ early)
  <2>1. bytes \in [Copy -> ByteTable] /\ fat_type \in {12, 16, 32} /\ MayBe(fat_type)
    BY DEF VolumeInv, TableInv, TypeOK, ByteTable
  <2>2. ASSUME NEW c \in Entry, NEW v \in FatValue, NEW k \in Copy,
               bytes' = PutFirst(fat_type, bytes, c, v, k)
        PROVE  bytes' \in [Copy -> ByteTable]
    <3>1. \A i \in Copy : bytes[i] \in ByteTable /\ RawPut(fat_type, bytes[i], c, v) \in ByteTable
      BY <2>1, PutIsRead
    <3> QED BY <2>2, <3>1 DEF PutFirst
  <2>3. Free \in FatValue /\ EndOfChain \in FatValue
    BY DEF FatValue
  <2>4. PICK k \in Copy :
          \/ bytes' = bytes
          \/ /\ step = "tables" /\ cleared < ClusterCount
             /\ bytes' = PutFirst(fat_type, bytes, cleared, Free, k)
          \/ /\ step = "mounted" /\ root_cluster = 0
             /\ \E c \in FreeEntries :
                   /\ \A d \in FreeEntries : c <= d
                   /\ bytes' = PutFirst(fat_type, bytes, c, EndOfChain, k)
    BY DEF Again, PartOfPut
  <2>5. CASE bytes' = bytes
    BY <2>1, <2>5
  <2>6. CASE /\ step = "tables" /\ cleared < ClusterCount
             /\ bytes' = PutFirst(fat_type, bytes, cleared, Free, k)
    <3>1. cleared \in Entry
      BY <2>6, ClusterCountAssumption, SMT DEF VolumeInv, TableInv, TypeOK, Entry
    <3> QED BY <2>2, <2>3, <2>6, <3>1 DEF VolumeInv, StepInv
  <2>7. CASE /\ step = "mounted" /\ root_cluster = 0
             /\ \E c \in FreeEntries :
                   /\ \A d \in FreeEntries : c <= d
                   /\ bytes' = PutFirst(fat_type, bytes, c, EndOfChain, k)
    <3>1. \A c \in FreeEntries : c \in Entry
      BY ClusterCountAssumption, SMT DEF FreeEntries, Entry
    <3> QED BY <2>2, <2>3, <2>7, <3>1 DEF VolumeInv, StepInv
  <2> QED BY <2>4, <2>5, <2>6, <2>7
<1>2. TableInv'
  <2>1. TypeOK'
    <3>1. stored' \in [Entry -> FatValue]
      BY <1>1 DEF FatValue
    <3>2. cleared' \in 0..ClusterCount
      BY <1>1, ClusterCountAssumption, SMT
    <3> QED BY <1>1, <1>7, <3>1, <3>2 DEF VolumeInv, TableInv, TypeOK, ByteTable
  <2>2. MayBe(fat_type)'
    <3>1. MayBe(fat_type) /\ fat_type \in {12, 16, 32} /\ fat_type' = fat_type
      BY <1>1 DEF VolumeInv, TableInv, TypeOK
    <3> QED BY <3>1, SMT DEF MayBe
  <2>3. 0..(cleared' - 1) = {}
    BY <1>1, SMT
  <2>4. CopiesAgree'
    BY <2>3 DEF CopiesAgree
  <2> QED BY <1>1, <2>1, <2>2, <2>3, <2>4 DEF TableInv
<1>3. FieldsOK'
  <2>1. failures' \in 0..MaxFailures
    BY <1>1, FormatAssumption, SMT DEF VolumeInv, FieldsOK
  <2> QED BY <1>1, <2>1 DEF VolumeInv, FieldsOK, disk
<1>4. bytes' = bytes => /\ Cardinality(FreeEntries)' = Cardinality(FreeEntries)
                         /\ RootEnds' = RootEnds
  BY <1>1 DEF FreeEntries, RootEnds
<1>5. StepInv'
  <2>1. CASE bytes' = bytes
    BY <1>1, <1>4, <2>1 DEF VolumeInv, StepInv, Exactly, disk
  <2>2. CASE early
    BY <1>1, <2>2 DEF VolumeInv, StepInv, Exactly, disk
  <2> QED BY <1>7, <2>1, <2>2
<1> QED BY <1>2, <1>3, <1>5 DEF VolumeInv

\* Using the volume leaves the root directory's cluster alone.
LEMMA UseStep == VolumeInv /\ Use => VolumeInv'
<1> SUFFICES ASSUME VolumeInv, Use PROVE VolumeInv'
  OBVIOUS
<1>1. PICK c \in Touched, v \in Stored : Put(c, v)
  BY DEF Use
<1>2. /\ step \in {"done", "used"} /\ step' = "used"
      /\ UNCHANGED <<blocks, disk, free, root_cluster, failures>>
      /\ UNCHANGED <<fat_type, cleared>>
      /\ stored' = [stored EXCEPT ![c] = v] /\ c # 2
  BY <1>1, FormatAssumption DEF Use, Put
<1>3. TableInv'
  BY <1>1, TableInvStep DEF VolumeInv, Next
<1>4. FieldsOK'
  BY <1>2 DEF VolumeInv, FieldsOK, disk
<1>5. stored'[2] = stored[2]
  BY <1>2, ClusterCountAssumption, SMT DEF VolumeInv, TableInv, TypeOK, Entry
<1>6. RootTaken => RootTaken'
  BY <1>2, <1>5 DEF RootTaken
<1>7. fat_type = 32 /\ RootTaken => RootEnds'
  <2> SUFFICES ASSUME fat_type = 32, RootTaken PROVE RootEnds'
    OBVIOUS
  <2>1. fat_type' = 32 /\ cleared' = ClusterCount /\ stored'[2] = EndOfChain
    BY <1>2, <1>6 DEF RootTaken
  <2>2. (\A i \in Copy : Get(fat_type, bytes[i], 2) = stored[2])'
    BY <1>3, <2>1, ClusterCountAssumption, SMT DEF TableInv
  <2> QED BY <2>1, <2>2 DEF RootEnds
<1>8. StepInv'
  BY <1>2, <1>6, <1>7 DEF VolumeInv, StepInv, disk
<1> QED BY <1>3, <1>4, <1>8 DEF VolumeInv

LEMMA VolumeInvStep == VolumeInv /\ [FormatNext]_formatVars => VolumeInv'
  BY OtherSteps, ClearTablesStep, TakeRootStep, AgainStep, UseStep DEF FormatNext

\* Every variable keeps its type, whatever fails.
THEOREM FormatTypesStay == FormatSpec => []FormatTypeOK
<1>1. VolumeInv => FormatTypeOK
  <2> SUFFICES ASSUME VolumeInv PROVE FormatTypeOK
    OBVIOUS
  <2>1. 2 \in Cluster
    BY ClusterCountAssumption, SMT DEF Cluster
  <2>2. ASSUME NEW S, S = {} \/ \E k \in Nat : S = {k}
        PROVE  S \subseteq Nat /\ Cardinality(S) <= 1
    <3>1. Cardinality(S) = 0 \/ Cardinality(S) = 1
      BY <2>2, FS_EmptySet, FS_Singleton
    <3> QED BY <2>2, <3>1, SMT
  <2>3. boot \subseteq {0} \union Cluster /\ Cardinality(boot) <= 1
    <3>1. boot \in {{}, {0}, {2}}
      BY DEF VolumeInv, StepInv
    <3>2. Cardinality(boot) <= 1
      BY <2>2, <3>1
    <3> QED BY <2>1, <3>1, <3>2
  <2> QED BY <2>1, <2>2, <2>3 DEF VolumeInv, TableInv, FieldsOK, FormatTypeOK
<1> QED BY <1>1, VolumeInvInit, VolumeInvStep, PTL DEF FormatSpec

\* From the first boot record on a mount finds the number of free clusters of the
\* table, however far the format went and however often it was begun.
THEOREM MountsCount == FormatSpec => []MountCounts
<1>1. VolumeInv => MountCounts
  BY DEF VolumeInv, StepInv, MountCounts, Counted, Exactly
<1> QED BY <1>1, VolumeInvInit, VolumeInvStep, PTL DEF FormatSpec

\* A boot record that names a root directory names a cleared one whose chain ends in
\* every copy of the table, also while the volume is made again and while it is used.
THEOREM RootStaysSound == FormatSpec => []RootSound
<1>1. VolumeInv => RootSound
  <2> SUFFICES ASSUME VolumeInv PROVE RootSound
    OBVIOUS
  <2>1. \A c \in boot \ {0} : c = 2 /\ boot = {2}
    BY DEF VolumeInv, StepInv
  <2> QED BY <2>1 DEF VolumeInv, StepInv, RootEnds, RootSound
<1> QED BY <1>1, VolumeInvInit, VolumeInvStep, PTL DEF FormatSpec

\* On a volume that is made and used every entry is read as it was put, but for an odd
\* FAT12 entry behind an even one put later.
THEOREM VolumeEntriesIndependent == FormatSpec => []EntriesIndependentOrShifted
<1>1. VolumeInv => EntriesIndependentOrShifted
  BY TableInvImplies DEF VolumeInv
<1> QED BY <1>1, VolumeInvInit, VolumeInvStep, PTL DEF FormatSpec

\* Such an entry keeps its upper eight bits.
THEOREM VolumeShiftedKeep == FormatSpec => []ShiftedKeepsUpperBits
<1>1. VolumeInv => ShiftedKeepsUpperBits
  BY TableInvImplies DEF VolumeInv
<1> QED BY <1>1, VolumeInvInit, VolumeInvStep, PTL DEF FormatSpec

\* Every copy of the table reads alike from the clearing on, although they hold
\* different bytes before, and also when a format before stopped between two copies.
THEOREM VolumeCopiesAgree == FormatSpec => []CopiesAgree
<1>1. VolumeInv => CopiesAgree
  BY DEF VolumeInv, TableInv
<1> QED BY <1>1, VolumeInvInit, VolumeInvStep, PTL DEF FormatSpec
=============================================================================
