------------------------------- MODULE FatEntry -------------------------------
(***************************************************************************)
(* How an entry of the file allocation table lies in bytes: the three      *)
(* encodings, FatValue::from_cluster, raw_put, put and initialize          *)
(* (libfat/src/table.rs) and the offsets of libfat/src/cluster.rs.  The    *)
(* other modules take a table for a function from clusters to values;      *)
(* this one says for which volumes the bytes are one.                      *)
(***************************************************************************)
EXTENDS FatTable, Sequences

CONSTANTS
    FatCount,   \* copies of the table
    OldTables,  \* what the place of one copy may hold before a volume is made
    Touched,    \* clusters whose entries are written
    Stored      \* values written

ASSUME EntryAssumption ==
    /\ FatCount \in Nat /\ FatCount >= 1
    /\ OldTables \subseteq [0..(4 * ClusterCount - 1) -> 0..255]
    /\ Touched \subseteq Cluster
    /\ Stored \subseteq FatValue

VARIABLES
    fat_type,   \* 12, 16 or 32
    bytes,      \* bytes[i]: copy i of the table
    cleared,    \* initialize has been through the entries below
    stored,     \* history: what was last put for each entry
    shifted     \* history: odd entries whose even neighbour was written after them

vars == <<fat_type, bytes, cleared, stored, shifted>>

Entry    == 0..(ClusterCount - 1)
Copy     == 0..(FatCount - 1)      \* fat_index
FatBytes == 4 * ClusterCount       \* fat_size, in bytes: room for any encoding
Byte     == 0..255

\* A volume of the type may have so many clusters: initialize_cache and, for FAT32,
\* format_partition.
MayBe(ft) == ClusterCount - 2 <= (CASE ft = 12 -> 4084 [] ft = 16 -> 65524 [] ft = 32 -> 268435445)

-----------------------------------------------------------------------------
(* Encodings *)

\* The largest value of an entry; the top four bits of a FAT32 entry do not count.
MaxValue(ft) == CASE ft = 12 -> 4095 [] ft = 16 -> 65535 [] ft = 32 -> 268435455

\* to_fat12_value, to_fat16_value, to_fat32_value
Encode(ft, v) == CASE v = Free -> 0
                   [] v = Bad -> MaxValue(ft) - 8
                   [] v = EndOfChain -> MaxValue(ft)
                   [] OTHER -> v % (MaxValue(ft) + 1)

\* from_fat12_value, from_fat16_value, from_fat32_value
Decode(ft, n) == CASE n = 0 -> Free
                   [] n = MaxValue(ft) - 8 -> Bad
                   [] n > MaxValue(ft) - 8 -> EndOfChain
                   [] OTHER -> n

\* A slip: an odd FAT12 entry is taken to begin one byte later.
RoundedUpOffset(ft, c) == CASE ft = 12 -> c + ((c + 1) \div 2)
                            [] ft = 16 -> c * 2
                            [] ft = 32 -> c * 4

\* Cluster::to_fat_offset, in a copy of the table
Offset(ft, c) == CASE ft = 12 -> c + (c \div 2)
                   [] ft = 16 -> c * 2
                   [] ft = 32 -> c * 4

Odd(c) == c % 2 = 1

Word(table, at) == table[at] + (256 * table[at + 1])

\* from_cluster: two bytes, or four for FAT32; an odd FAT12 entry is their upper
\* twelve bits, an even one their lower twelve.
Get(ft, table, c) ==
    LET at == Offset(ft, c)
    IN  Decode(ft, CASE ft = 12 /\ Odd(c)  -> Word(table, at) \div 16
                     [] ft = 12 /\ ~Odd(c) -> Word(table, at) % 4096
                     [] ft = 16 -> Word(table, at)
                     [] ft = 32 -> Word(table, at) + (65536 * (Word(table, at + 2) % 4096)))

\* The byte of a number that stands for so many ones: the cast `as u8` of a shifted
\* value.
ByteOf(n, ones) == (n \div ones) % 256

\* A slip: an odd FAT12 entry keeps the wrong half of the byte it shares.
SwappedNewBytes(ft, old, c, n) ==
    CASE ft = 12 -> IF Odd(c) THEN <<((old \div 16) * 16) + (n % 16), ByteOf(n, 16)>>
                    ELSE <<ByteOf(n, 1), ByteOf(n, 256)>>
      [] ft = 16 -> <<ByteOf(n, 1), ByteOf(n, 256)>>
      [] ft = 32 -> <<ByteOf(n, 1), ByteOf(n, 256), ByteOf(n, 65536), ByteOf(n, 16777216)>>

\* A slip: an odd FAT12 entry is added to the byte it shares, of which nothing is
\* cleared first.
UnmaskedNewBytes(ft, old, c, n) ==
    IF ft = 12 /\ Odd(c) THEN <<old + (16 * (n % 16)), ByteOf(n, 16)>>
    ELSE SwappedNewBytes(ft, old, c, n)

\* The bytes raw_put writes for the number n, old being the first byte it replaces.
\* An even FAT12 entry takes the upper half of its second byte from the first one,
\* which it has just overwritten, and not from the second byte it read.
NewBytes(ft, old, c, n) ==
    CASE ft = 12 /\ Odd(c)  -> <<(old % 16) + (16 * (n % 16)), ByteOf(n, 16)>>
      [] ft = 12 /\ ~Odd(c) -> <<ByteOf(n, 1),
                                 ((ByteOf(n, 1) \div 16) * 16) + (ByteOf(n, 256) % 16)>>
      [] ft = 16 -> <<ByteOf(n, 1), ByteOf(n, 256)>>
      [] ft = 32 -> <<ByteOf(n, 1), ByteOf(n, 256), ByteOf(n, 65536), ByteOf(n, 16777216)>>

\* raw_put: nothing is written when the entry already has the value.
RawPut(ft, table, c, v) ==
    LET at  == Offset(ft, c)
        new == NewBytes(ft, table[at], c, Encode(ft, v))
    IN  IF Get(ft, table, c) = v
          THEN table
          ELSE [k \in DOMAIN table |-> IF k \in at..(at + Len(new) - 1)
                                          THEN new[k - at + 1] ELSE table[k]]

\* put, having come to copy k.  A copy lies fat_size behind the one before, which is
\* more than a table takes; each is read, and left alone or written, by itself.
PutFirst(ft, tables, c, v, k) ==
    [i \in Copy |-> IF i < k THEN RawPut(ft, tables[i], c, v) ELSE tables[i]]

\* A slip: what the first copy holds decides whether any copy is written.
FirstDecidesPutAll(ft, tables, c, v) ==
    IF Get(ft, tables[0], c) = v THEN tables ELSE PutFirst(ft, tables, c, v, FatCount)

\* put: every copy in turn.
PutAll(ft, tables, c, v) == PutFirst(ft, tables, c, v, FatCount)

-----------------------------------------------------------------------------

Init == /\ fat_type \in {ft \in {12, 16, 32} : MayBe(ft)}
        /\ bytes \in [Copy -> OldTables]
        /\ cleared = 0
        /\ stored = [c \in Entry |-> Free]
        /\ shifted = {}

\* An even FAT12 entry reaches into the odd one that follows it.
Shift(c) == IF Odd(c) THEN shifted \ {c}
            ELSE IF fat_type = 12 THEN shifted \union ({c + 1} \intersect Entry)
            ELSE shifted

\* One round of the loop of initialize.
InitializeEntry ==
    /\ cleared < ClusterCount
    /\ bytes' = PutAll(fat_type, bytes, cleared, Free)
    /\ shifted' = Shift(cleared)
    /\ cleared' = cleared + 1
    /\ UNCHANGED <<fat_type, stored>>

\* FatValue::put, on a volume whose tables are initialized
Put(c, v) ==
    /\ cleared = ClusterCount
    /\ bytes' = PutAll(fat_type, bytes, c, v)
    /\ stored' = [stored EXCEPT ![c] = v]
    /\ shifted' = Shift(c)
    /\ UNCHANGED <<fat_type, cleared>>

Next == \/ InitializeEntry
        \/ \E c \in Touched, v \in Stored : Put(c, v)

Spec == Init /\ [][Next]_vars

-----------------------------------------------------------------------------
(* Properties *)

TypeOK == /\ fat_type \in {12, 16, 32}
          /\ bytes \in [Copy -> [0..(FatBytes - 1) -> Byte]]
          /\ cleared \in 0..ClusterCount
          /\ stored \in [Entry -> FatValue]
          /\ shifted \subseteq Entry

\* FatValue::get returns for every entry of every copy what put stored there,
\* whatever was put for its neighbours and whatever the device held before the
\* volume was made.  The comment on raw_put says so: it writes "at a given
\* Cluster".
EntriesIndependent ==
    \A c \in 0..(cleared - 1), i \in Copy : Get(fat_type, bytes[i], c) = stored[c]

\* So it is, but for an odd FAT12 entry whose even neighbour was put after it.
EntriesIndependentOrShifted ==
    \A c \in (0..(cleared - 1)) \ shifted, i \in Copy : Get(fat_type, bytes[i], c) = stored[c]

\* Such an entry loses its low four bits at most: the chains of a FAT12 volume are
\* damaged within sixteen clusters of where they led.
ShiftedKeepsUpperBits ==
    \A c \in shifted \intersect (0..(cleared - 1)), i \in Copy :
        Get(12, bytes[i], c) # stored[c] =>
            bytes[i][Offset(12, c) + 1] = Encode(12, stored[c]) \div 16

\* Every copy of the table reads alike, a shifted entry included, although the copies
\* differ in what the device held before and raw_put looks at each of them alone before
\* it skips or writes it: a driver that reads another copy sees the same chains.
CopiesAgree ==
    \A c \in 0..(cleared - 1), i \in Copy : Get(fat_type, bytes[i], c) = Get(fat_type, bytes[0], c)
=============================================================================
