--------------------------- MODULE FileAccess_proofs ---------------------------
(***************************************************************************)
(* Which byte of the device a byte of the buffer goes to or comes from,    *)
(* for every size of block and cluster, every chain, offset and buffer.    *)
(***************************************************************************)
EXTENDS FileAccess, FatTable_proofs, FiniteSetTheorems

\* The blocks of a cluster.
LEMMA Sizes ==
    /\ BlockSize \in Nat \ {0} /\ BlocksPerCluster \in Nat \ {0} /\ ClusterSize \in Nat \ {0}
    /\ ClusterSize = BlocksPerCluster * BlockSize
    /\ \A r \in 1..BlocksPerCluster :
          /\ r * BlockSize \in Nat /\ r * BlockSize <= ClusterSize
          /\ (r - 1) * BlockSize \in Nat /\ (r - 1) * BlockSize = (r * BlockSize) - BlockSize
<1>1. BlockSize \in Nat \ {0} /\ BlocksPerCluster \in Nat \ {0}
  BY AccessAssumption
<1>2. ClusterSize \in Nat \ {0} /\ ClusterSize = BlocksPerCluster * BlockSize
  BY <1>1, SMT DEF ClusterSize
<1>3. ASSUME NEW r \in 1..BlocksPerCluster
      PROVE  /\ r * BlockSize \in Nat /\ r * BlockSize <= ClusterSize
             /\ (r - 1) * BlockSize \in Nat /\ (r - 1) * BlockSize = (r * BlockSize) - BlockSize
  <2>1. r * BlockSize <= BlocksPerCluster * BlockSize
    BY <1>1, SMT
  <2> QED BY <1>1, <1>2, <2>1, SMT
<1> QED BY <1>1, <1>2, <1>3

\* Blocks and clusters of an offset: an offset in the first block of its cluster.
LEMMA OffsetInFirstBlock ==
    ASSUME NEW a \in Nat, a % ClusterSize < BlockSize
    PROVE  /\ (a \div BlockSize) \div BlocksPerCluster = a \div ClusterSize
           /\ (a \div BlockSize) % BlocksPerCluster = 0
           /\ a % BlockSize = a % ClusterSize
<1>1. PICK j \in Nat, o \in Nat : /\ a = (ClusterSize * j) + o /\ o < BlockSize
                                 /\ j = a \div ClusterSize /\ o = a % ClusterSize
  BY Sizes, DivMod
<1>2. ClusterSize * j = BlockSize * (BlocksPerCluster * j) /\ BlocksPerCluster * j \in Nat
  BY Sizes, SMT
<1>3. a \div BlockSize = BlocksPerCluster * j /\ a % BlockSize = o
  <2>1. PICK b \in Nat : b = BlocksPerCluster * j
    BY <1>2
  <2>2. a = (BlockSize * b) + o
    BY <1>1, <1>2, <2>1
  <2> QED BY <1>1, <2>1, <2>2, Sizes, OneQuotient, ZenonT(30)
<1>4. ((BlocksPerCluster * j) + 0) \div BlocksPerCluster = j /\ ((BlocksPerCluster * j) + 0) % BlocksPerCluster = 0
  BY Sizes, OneQuotient, SMT
<1>5. (BlocksPerCluster * j) + 0 = BlocksPerCluster * j
  BY <1>2, SMT
<1> QED BY <1>1, <1>3, <1>4, <1>5

\* As many clusters as n bytes need hold n bytes.
LEMMA NeededCovers ==
    ASSUME NEW n \in Nat
    PROVE  Needed(n) \in Nat /\ n <= ClusterSize * Needed(n)
<1>1. PICK a \in Nat : a = n + ClusterSize - 1
  BY Sizes, SMT
<1>2. PICK q \in Nat, r \in Nat : r < ClusterSize /\ a = (ClusterSize * q) + r /\ q = a \div ClusterSize
  BY Sizes, DivMod
<1> QED BY <1>1, <1>2, Sizes, SMT DEF Needed

-----------------------------------------------------------------------------
(* Chains *)

\* The entries of s make one chain in F.
Threads(F, s) ==
    /\ \A i, j \in 1..Len(s) : s[i] = s[j] => i = j
    /\ \A i \in 1..Len(s) : F[s[i]] = IF i = Len(s) THEN EndOfChain ELSE s[i + 1]

LEMMA ThreadedThreads ==
    ASSUME NEW F \in Table, NEW n \in Nat, NEW s \in Chains(n)
    PROVE  /\ Threaded(F, s) \in Table
           /\ Threads(Threaded(F, s), s)
           /\ s \in Seq(Cluster) /\ Len(s) = n
<1>1. s \in Seq(Cluster) /\ Len(s) = n
  BY SMT DEF Chains
<1>2. \A i, j \in 1..n : s[i] = s[j] => i = j
  BY DEF Chains
<1>3. \A i \in 1..n : s[i] \in Cluster
  BY DEF Chains
<1>4. ASSUME NEW i \in 1..n
      PROVE  Threaded(F, s)[s[i]] = IF i = n THEN EndOfChain ELSE s[i + 1]
  <2>1. (CHOOSE j \in 1..n : s[j] = s[i]) = i
    BY <1>2
  <2> QED BY <1>1, <1>3, <2>1 DEF Threaded
<1>5. ASSUME NEW c \in Cluster PROVE Threaded(F, s)[c] \in FatValue
  <2>1. CASE \E i \in 1..n : s[i] = c
    <3>1. PICK i \in 1..n : s[i] = c
      BY <2>1
    <3>2. i # n => s[i + 1] \in Cluster
      BY <1>3, SMT
    <3> QED BY <1>4, <3>1, <3>2 DEF FatValue
  <2>2. CASE ~ \E i \in 1..n : s[i] = c
    BY <1>1, <2>2 DEF Threaded, Table
  <2> QED BY <2>1, <2>2
<1>6. Threaded(F, s) \in Table
  <2>1. Threaded(F, s) = [c \in Cluster |-> Threaded(F, s)[c]]
    BY DEF Threaded
  <2> QED BY <1>5, <2>1 DEF Table
<1> QED BY <1>1, <1>2, <1>4, <1>6 DEF Threads

-----------------------------------------------------------------------------
(* The inductive invariant *)

IterType == [current_cluster : Int, last_fat : FatValue, last_cluster : Int,
             first_block : 0..(BlocksPerCluster - 1), counter : 1..BlocksPerCluster]

\* What the start of a move has tested.
Tested == pc = "moving" => /\ offset <= MaxOffset
                           /\ op = "read" => offset < file_size /\ offset + size_done <= file_size
                           /\ op = "write" => offset + buf_len <= file_size

AccessType ==
    /\ TypeOK
    /\ op \in {"read", "write"}
    /\ Threads(fat, chain)
    /\ file_size \in Nat /\ offset \in Nat /\ buf_len \in Nat /\ size_done \in Nat
    /\ iter \in IterType
    /\ pc = "start" => moved = <<>> /\ size_done = 0
    /\ Tested

\* There is more to move.
More == size_done < buf_len /\ (op = "read" => BytesLeft > 0)

\* The cluster of the offset, counted from 0.
Skipped == offset \div ClusterSize

\* The iterator has begun q clusters and returned r blocks of the last of them, in a
\* chain it takes for one of m clusters.
IterAt(it, q, r, m) ==
    LET i == Skipped + q
    IN  /\ it.counter = r /\ it.first_block = 0
        /\ q > 0 => i <= m /\ it.last_cluster = chain[i]
        /\ i + 1 <= m => /\ it.current_cluster = chain[i + 1]
                         /\ it.last_fat = IF i + 1 = m THEN EndOfChain ELSE chain[i + 2]
        /\ i + 1 > m => it.current_cluster = None
        /\ m < Len(chain) => m <= i + 1

\* The clusters of the chain the iterator comes to: all of them, unless an entry could
\* not be read, and always the one of the offset.
Visible(m) == m \in Skipped + 1..Len(chain) /\ (~lost => m = Len(chain))

\* Before the first block, as after the last one of a cluster, the next is to begin.
Returned(q, r) == /\ q = 0 => r = BlocksPerCluster
                  /\ size_done + ClusterSize = (ClusterSize * q) + (r * BlockSize)

\* While there is more to move, whole blocks have been moved, and in a sound access
\* the iterator stands where they end.
BlocksOK == pc = "moving" /\ More =>
    /\ \E m \in Nat : size_done = BlockSize * m
    /\ Sound => \E q \in Nat, r \in 1..BlocksPerCluster, m \in Nat :
                    Visible(m) /\ IterAt(iter, q, r, m) /\ Returned(q, r)

AccessInv == /\ AccessType /\ BlocksOK
             /\ SoundAccessExact /\ SoundAccessComplete /\ ReadPanicsOnOddBuffersOnly

LEMMA GetType ==
    ASSUME fat \in Table, NEW c
    PROVE  Get(c) \in FatValue
  BY DEF Get, Table, FatValue

LEMMA NextBlockType ==
    ASSUME fat \in Table, NEW it \in IterType
    PROVE  NextBlock(it) \in IterType
<1>1. BlocksPerCluster \in Nat \ {0}
  BY Sizes
<1>2. CASE it.counter # BlocksPerCluster
  BY <1>1, <1>2, SMT DEF NextBlock, IterType
<1>3. CASE it.counter = BlocksPerCluster
  <2>1. it.current_cluster # None /\ IsData(it.last_fat) => it.last_fat \in Int
    BY ClusterCountAssumption, SMT DEF IsData, Cluster
  <2>2. Get(it.last_fat) \in FatValue
    BY GetType
  <2>3. it.first_block + 1 \in 1..BlocksPerCluster /\ 0 \in 0..(BlocksPerCluster - 1) /\ None \in Int
    BY <1>1, SMT DEF IterType, None
  <2> QED BY <1>3, <2>1, <2>2, <2>3 DEF NextBlock, IterType
<1> QED BY <1>2, <1>3

\* One block further.  When an entry is read on the way and the read fails, the chain
\* ends with the cluster of that entry.
LEMMA NextBlockAt ==
    ASSUME AccessType, NEW it, NEW q \in Nat, NEW r \in 1..BlocksPerCluster, NEW m \in Nat,
           m <= Len(chain), it \in IterType, IterAt(it, q, r, m), q = 0 => r = BlocksPerCluster
    PROVE  /\ r < BlocksPerCluster => IterAt(NextBlock(it), q, r + 1, m) /\ ~ReadsTable(it)
           /\ r = BlocksPerCluster /\ Skipped + q + 1 <= m =>
                 /\ IterAt(NextBlock(it), q + 1, 1, m)
                 /\ ReadsTable(it) => /\ Skipped + q + 2 <= Len(chain)
                                      /\ IterAt(Unread(NextBlock(it)), q + 1, 1, Skipped + q + 2)
           /\ r = BlocksPerCluster /\ Skipped + q + 1 > m => NextBlock(it).last_cluster = None
<1> DEFINE nx == NextBlock(it)
           i  == Skipped + q
<1>1. Skipped \in Nat /\ i \in Nat /\ Len(chain) \in Nat /\ BlocksPerCluster \in Nat \ {0}
  <2>1. Skipped \in Nat
    BY Sizes, DivMod DEF AccessType, Skipped
  <2>2. Len(chain) \in Nat
    BY DEF AccessType, TypeOK
  <2> QED BY <2>1, <2>2, Sizes, SMT
<1> HIDE DEF i
<1>2. CASE r < BlocksPerCluster
  <2>1. nx = [it EXCEPT !.counter = @ + 1]
    BY <1>2, SMT DEF NextBlock, IterAt, IterType
  <2>2. ~ReadsTable(it)
    BY <1>2, SMT DEF ReadsTable, IterAt
  <2> QED BY <1>2, <2>1, <2>2, SMT DEF IterAt
<1>3. CASE r = BlocksPerCluster
  <2>1. /\ nx.counter = 1 /\ nx.first_block = 0 /\ nx.last_cluster = it.current_cluster
        /\ nx.current_cluster = IF it.current_cluster # None /\ IsData(it.last_fat)
                                   THEN it.last_fat ELSE None
        /\ nx.last_fat = IF it.current_cluster # None /\ IsData(it.last_fat)
                            THEN Get(it.last_fat) ELSE it.last_fat
    BY <1>3, SMT DEF NextBlock, IterAt, IterType
  <2>2. CASE i + 1 > m
    BY <1>1, <1>3, <2>1, <2>2, SMT DEF IterAt, i
  <2>3. CASE i + 1 <= m
    <3>1. /\ it.current_cluster = chain[i + 1]
          /\ it.last_fat = IF i + 1 = m THEN EndOfChain ELSE chain[i + 2]
          /\ m < Len(chain) => m <= i + 1
          /\ i + 1 \in 1..Len(chain) /\ i + 1 + 1 = i + 2
      BY <1>1, <2>3, SMT DEF IterAt, i
    <3>2. chain[i + 1] \in Cluster /\ chain[i + 1] # None
      <4>1. chain[i + 1] \in Cluster
        BY <3>1 DEF AccessType, TypeOK
      <4> QED BY <4>1, ClusterCountAssumption, SMT DEF Cluster, None
    <3>3. CASE i + 1 = m
      <4>1. it.last_fat = EndOfChain /\ ~IsData(EndOfChain)
        BY <3>1, <3>3, ClusterCountAssumption, SMT DEF IsData, EndOfChain, Cluster
      <4>2. nx.current_cluster = None /\ nx.last_cluster = chain[i + 1] /\ ~ReadsTable(it)
        BY <2>1, <3>1, <4>1 DEF ReadsTable
      <4>3. IterAt(nx, q + 1, 1, m)
        BY <1>1, <1>3, <2>1, <2>3, <3>3, <4>2, SMT DEF IterAt, i
      <4> QED BY <1>1, <1>3, <2>3, <4>2, <4>3 DEF i
    <3>4. CASE i + 2 <= m
      <4>1. i + 2 \in 1..Len(chain) /\ i + 1 # m /\ m = Len(chain) /\ i + 1 # Len(chain)
            /\ i + 3 = i + 2 + 1
        BY <1>1, <3>1, <3>4, SMT
      <4>2. it.last_fat = chain[i + 2] /\ chain[i + 2] \in Cluster
        BY <3>1, <4>1 DEF AccessType, TypeOK
      <4>3. /\ nx.current_cluster = chain[i + 2] /\ nx.last_cluster = chain[i + 1]
            /\ nx.last_fat = fat[chain[i + 2]]
        BY <2>1, <3>1, <3>2, <4>2 DEF IsData, Get
      <4>4. fat[chain[i + 2]] = IF i + 2 = m THEN EndOfChain ELSE chain[i + 3]
        BY <4>1 DEF AccessType, Threads
      <4>5. IterAt(nx, q + 1, 1, m)
        <5> HIDE DEF nx
        <5> QED BY <1>1, <1>3, <2>1, <2>3, <3>4, <4>1, <4>3, <4>4, SMT DEF IterAt, i
      <4>6. IterAt(Unread(nx), q + 1, 1, i + 2)
        <5>1. nx \in [current_cluster : Int, last_fat : FatValue, last_cluster : Int,
                      first_block : 0..(BlocksPerCluster - 1), counter : 1..BlocksPerCluster]
          BY NextBlockType DEF IterType, AccessType, TypeOK
        <5> HIDE DEF nx
        <5>2. /\ Unread(nx).counter = nx.counter /\ Unread(nx).first_block = nx.first_block
              /\ Unread(nx).last_cluster = nx.last_cluster
              /\ Unread(nx).current_cluster = nx.current_cluster
              /\ Unread(nx).last_fat = EndOfChain
          BY <5>1, SMT DEF Unread
        <5> QED BY <1>1, <1>3, <2>1, <2>3, <3>4, <4>1, <4>3, <5>2, SMT DEF IterAt, i
      <4> QED BY <1>1, <1>3, <2>3, <4>1, <4>5, <4>6 DEF i
    <3> QED BY <1>1, <2>3, <3>3, <3>4, SMT
  <2> QED BY <1>1, <2>2, <2>3, SMT
<1> QED BY <1>1, <1>2, <1>3, SMT

LEMMA UnreadType ==
    ASSUME NEW it \in IterType
    PROVE  Unread(it) \in IterType
  BY DEF Unread, IterType, FatValue

LEMMA NewIterType ==
    ASSUME fat \in Table, chain \in Seq(Cluster), NEW b \in Nat
    PROVE  NewIter(b) \in IterType
<1>1. BlocksPerCluster \in Nat \ {0}
  BY Sizes
<1>2. StartCluster \in Int
  <2>1. chain # <<>> => Head(chain) \in Cluster
    BY SMT
  <2> QED BY <2>1, ClusterCountAssumption, SMT DEF StartCluster, None, Cluster
<1>3. b \div BlocksPerCluster \in Nat /\ b % BlocksPerCluster \in Nat /\ b % BlocksPerCluster < BlocksPerCluster
  BY <1>1, DivMod
<1>4. /\ StartCluster + (b \div BlocksPerCluster) \in Int
      /\ b % BlocksPerCluster \in 0..(BlocksPerCluster - 1)
      /\ BlocksPerCluster \in 1..BlocksPerCluster /\ None \in Int
  BY <1>1, <1>2, <1>3, SMT DEF None
<1> QED BY <1>4, GetType DEF NewIter, IterType

\* A sound access begins with the cluster of its offset.
LEMMA NewIterAt ==
    ASSUME AccessType, Sound, offset < file_size
    PROVE  /\ Skipped + 1 \in 1..Len(chain)
           /\ IterAt(NewIter(offset \div BlockSize), 0, BlocksPerCluster, Len(chain))
           /\ IterAt(Unread(NewIter(offset \div BlockSize)), 0, BlocksPerCluster, Skipped + 1)
<1>1. Skipped \in Nat /\ offset = (ClusterSize * Skipped) + (offset % ClusterSize) /\ offset % ClusterSize \in Nat
  BY Sizes, DivMod DEF AccessType, Skipped
<1>2. Skipped + 1 <= Len(chain) /\ Len(chain) \in Nat
  <2>1. PICK n \in Nat : n = Len(chain) /\ file_size <= ClusterSize * n
    BY NeededCovers DEF AccessType, TypeOK
  <2>2. ASSUME n <= Skipped PROVE FALSE
    <3>1. ClusterSize * n <= ClusterSize * Skipped
      BY <1>1, <2>2, Sizes, SMT
    <3> QED BY <1>1, <2>1, <3>1, Sizes, SMT DEF AccessType
  <2> QED BY <1>1, <2>1, <2>2, SMT
<1>3. /\ (offset \div BlockSize) \div BlocksPerCluster = Skipped
      /\ (offset \div BlockSize) % BlocksPerCluster = 0
  BY OffsetInFirstBlock DEF AccessType, Sound, Skipped
<1>4. chain[Skipped + 1] = chain[1] + Skipped
  <2>1. Skipped + 1 \in 1..Lesser((offset \div ClusterSize) + 1, Len(chain))
    BY <1>1, <1>2, SMT DEF Lesser, Skipped
  <2>2. chain[Skipped + 1] = chain[1] + (Skipped + 1) - 1
    BY <2>1 DEF Sound
  <2>3. chain[1] \in Int
    <3>1. chain[1] \in Cluster
      BY <1>1, <1>2, SMT DEF AccessType, TypeOK
    <3> QED BY <3>1, ClusterCountAssumption, SMT DEF Cluster
  <2> QED BY <1>1, <2>2, <2>3, SMT
<1>5. StartCluster = chain[1]
  BY <1>1, <1>2, SMT DEF StartCluster, AccessType, TypeOK
<1>6. chain[Skipped + 1] \in Cluster
  BY <1>1, <1>2, SMT DEF AccessType, TypeOK
<1>7. NewIter(offset \div BlockSize)
        = [current_cluster |-> chain[Skipped + 1], last_fat |-> fat[chain[Skipped + 1]],
           first_block |-> 0, last_cluster |-> None, counter |-> BlocksPerCluster]
  BY <1>3, <1>4, <1>5, <1>6 DEF NewIter, Get
<1>8. fat[chain[Skipped + 1]] = IF Skipped + 1 = Len(chain) THEN EndOfChain ELSE chain[Skipped + 2]
  <2>1. Skipped + 1 \in 1..Len(chain) /\ Skipped + 1 + 1 = Skipped + 2
    BY <1>1, <1>2, SMT
  <2> QED BY <2>1 DEF AccessType, Threads
<1>9. Unread(NewIter(offset \div BlockSize))
        = [current_cluster |-> chain[Skipped + 1], last_fat |-> EndOfChain,
           first_block |-> 0, last_cluster |-> None, counter |-> BlocksPerCluster]
  BY <1>7 DEF Unread
<1>10. IterAt(NewIter(offset \div BlockSize), 0, BlocksPerCluster, Len(chain))
  BY <1>1, <1>2, <1>7, <1>8, SMT DEF IterAt
<1>11. IterAt(Unread(NewIter(offset \div BlockSize)), 0, BlocksPerCluster, Skipped + 1)
  BY <1>1, <1>2, <1>9, SMT DEF IterAt
<1> QED BY <1>1, <1>2, <1>10, <1>11, SMT

-----------------------------------------------------------------------------
(* One chunk *)

LEMMA ChunkType ==
    ASSUME AccessType, NEW nx \in IterType, NEW n \in Nat
    PROVE  Chunk(nx, n) \in Seq(Int) /\ Len(Chunk(nx, n)) = n
<1> DEFINE at == DataBytesOffset(nx.last_cluster) + (offset % BlockSize) + (size_done % ClusterSize)
<1>1. DataBytesOffset(nx.last_cluster) \in Int
  <2>1. nx.last_cluster \in Int
    BY DEF IterType
  <2> QED BY <2>1, Sizes, SMT DEF DataBytesOffset
<1>2. offset % BlockSize \in Nat /\ size_done % ClusterSize \in Nat
  BY Sizes, DivMod DEF AccessType
<1>3. at \in Int
  BY <1>1, <1>2, SMT
<1>4. Chunk(nx, n) = [k \in 1..n |-> at + k - 1]
  BY DEF Chunk
<1> HIDE DEF at
<1> QED BY <1>3, <1>4, SMT

\* The chunk of the block the iterator returns belongs where it goes.
LEMMA ChunkExact ==
    ASSUME AccessType, Sound, NEW nx, NEW n \in Nat, n <= BlockSize, size_done + n <= buf_len,
           NEW q \in Nat \ {0}, NEW r \in 1..BlocksPerCluster, NEW m \in 0..Len(chain),
           IterAt(nx, q, r, m),
           size_done + ClusterSize = (ClusterSize * q) + ((r - 1) * BlockSize),
           NEW k \in 1..n
    PROVE  Chunk(nx, n)[k] = Place(offset + size_done + k - 1)
<1>1. PICK j \in Nat, o \in Nat : /\ offset = (ClusterSize * j) + o /\ o = offset % ClusterSize
                                 /\ j = Skipped /\ o < BlockSize /\ offset % BlockSize = o
  <2>1. offset \in Nat /\ offset % ClusterSize < BlockSize
    BY DEF AccessType, Sound
  <2>2. /\ offset \div ClusterSize \in Nat /\ offset % ClusterSize \in Nat
        /\ offset = (ClusterSize * (offset \div ClusterSize)) + (offset % ClusterSize)
    BY <2>1, Sizes, DivMod
  <2>3. offset % BlockSize = offset % ClusterSize
    BY <2>1, OffsetInFirstBlock
  <2> QED BY <2>1, <2>2, <2>3 DEF Skipped
<1>2. PICK e \in Nat : e = (r - 1) * BlockSize /\ e + BlockSize <= ClusterSize
  BY Sizes
<1>3. PICK p \in Nat : q = p + 1
  <2>1. q - 1 \in Nat /\ q = (q - 1) + 1
    BY SMT
  <2> QED BY <2>1
<1>4. size_done = (ClusterSize * p) + e
  BY <1>2, <1>3, Sizes, SMT DEF AccessType
<1>5. size_done % ClusterSize = e
  <2>1. e < ClusterSize
    BY <1>2, Sizes, SMT
  <2> QED BY <1>4, <2>1, Sizes, OneQuotient
<1>6. o + e + (k - 1) \in Nat /\ o + e + (k - 1) < ClusterSize
  <2>1. CASE o = 0
    BY <1>2, <2>1, Sizes, SMT
  <2>2. CASE o + buf_len <= ClusterSize
    <3>1. ClusterSize * p \in Nat
      BY Sizes, SMT
    <3> QED BY <1>4, <2>2, <3>1, Sizes, SMT DEF AccessType
  <2> QED BY <1>1, <2>1, <2>2 DEF Sound
<1>7. PICK g \in Nat, h \in Nat : g = j + p /\ h = o + e + (k - 1) /\ h < ClusterSize
  BY <1>6, SMT
<1>8. offset + size_done + k - 1 = (ClusterSize * g) + h
  <2>1. ClusterSize * g = (ClusterSize * j) + (ClusterSize * p)
    BY <1>7, Sizes, SMT
  <2>2. ClusterSize * j \in Nat /\ ClusterSize * p \in Nat
    BY Sizes, SMT
  <2>3. PICK x \in Nat, y \in Nat : x = ClusterSize * j /\ y = ClusterSize * p
    BY <2>2
  <2>4. offset = x + o /\ size_done = y + e /\ ClusterSize * g = x + y
    BY <1>1, <1>4, <2>1, <2>3
  <2>5. (x + o) + (y + e) + k - 1 = (x + y) + h
    <3>1. k \in Int /\ h = o + e + (k - 1)
      BY <1>7
    <3> QED BY ONLY <3>1, o \in Nat, e \in Nat, x \in Nat, y \in Nat, h \in Nat, SMT
  <2> QED BY <2>4, <2>5
<1>9. /\ (offset + size_done + k - 1) \div ClusterSize = g
      /\ (offset + size_done + k - 1) % ClusterSize = h
  <2>1. ((ClusterSize * g) + h) \div ClusterSize = g /\ ((ClusterSize * g) + h) % ClusterSize = h
    BY <1>7, Sizes, OneQuotient
  <2> QED BY <1>8, <2>1
<1>10. nx.last_cluster = chain[g + 1]
  BY <1>1, <1>3, <1>7, SMT DEF IterAt
<1>11. PICK d \in Int : d = DataBytesOffset(nx.last_cluster)
  <2>1. g + 1 \in 1..Len(chain)
    BY <1>1, <1>3, <1>7, SMT DEF IterAt, AccessType, TypeOK
  <2>2. nx.last_cluster \in Int
    <3>1. chain[g + 1] \in Cluster
      BY <2>1 DEF AccessType, TypeOK
    <3> QED BY <1>10, <3>1, ClusterCountAssumption, SMT DEF Cluster
  <2> QED BY <2>2, Sizes, SMT DEF DataBytesOffset
<1>12. Chunk(nx, n)[k] = d + o + e + k - 1
  BY <1>1, <1>5, <1>11 DEF Chunk
<1>13. Place(offset + size_done + k - 1) = d + h
  BY <1>9, <1>10, <1>11 DEF Place
<1> QED BY <1>7, <1>11, <1>12, <1>13, SMT

\* A chunk keeps the invariant.
LEMMA MoveKeeps ==
    ASSUME AccessInv, pc = "moving", More, NEW n \in Nat, n <= BlockSize, size_done + n <= buf_len,
           op = "read" => n <= BytesLeft,
           n = BlockSize \/ size_done + n = buf_len \/ (op = "read" /\ n = BytesLeft),
           NextBlock(iter).last_cluster # None,
           Move(NextBlock(iter), n)
    PROVE  AccessInv'
<1> DEFINE nx == NextBlock(iter)
<1>1. /\ moved' = moved \o Chunk(nx, n) /\ size_done' = size_done + n /\ pc' = pc
      /\ \/ iter' = nx /\ lost' = lost
         \/ ReadsTable(iter) /\ iter' = Unread(nx) /\ lost' = TRUE
      /\ op' = op /\ offset' = offset /\ buf_len' = buf_len
      /\ fat' = fat /\ chain' = chain /\ file_size' = file_size
  BY DEF Move, input, file
<1>2. AccessType
  BY DEF AccessInv
<1>3. nx \in IterType /\ iter' \in IterType
  <2>1. nx \in IterType
    BY <1>2, NextBlockType DEF AccessType, TypeOK
  <2> HIDE DEF nx
  <2> QED BY <1>1, <2>1, UnreadType
<1>4. /\ offset \in Nat /\ buf_len \in Nat /\ size_done \in Nat /\ file_size \in Nat
      /\ moved \in Seq(Int) /\ Len(moved) = size_done
  BY <1>2 DEF AccessType, TypeOK
<1>5. Chunk(nx, n) \in Seq(Int) /\ Len(Chunk(nx, n)) = n
  BY <1>2, <1>3, ChunkType
<1>6. moved' \in Seq(Int) /\ Len(moved') = size_done'
  <2>1. PICK s \in Seq(Int) : s = Chunk(nx, n) /\ Len(s) = n
    BY <1>5
  <2>2. moved' = moved \o s
    BY <1>1, <2>1
  <2>3. moved \o s \in Seq(Int) /\ Len(moved \o s) = Len(moved) + Len(s)
    BY <1>4, <2>1, SMT
  <2> QED BY <1>1, <1>4, <2>1, <2>2, <2>3
<1>7. AccessType'
  <2>1. size_done' \in Nat /\ size_done' <= buf_len
    BY <1>1, <1>4, SMT
  <2>2. op = "read" => offset + size_done' <= file_size
    BY <1>1, <1>4, SMT DEF BytesLeft
  <2>3. iter'.counter \in 1..BlocksPerCluster /\ iter'.first_block \in 0..(BlocksPerCluster - 1)
        /\ iter'.last_fat \in FatValue
    BY <1>1, <1>3 DEF IterType
  <2>4. TypeOK'
    <3>1. lost' \in BOOLEAN
      BY <1>1, <1>2 DEF AccessType, TypeOK
    <3> QED BY <1>1, <1>2, <1>6, <2>1, <2>3, <3>1 DEF AccessType, TypeOK, Needed
  <2> QED BY <1>1, <1>2, <1>3, <2>1, <2>2, <2>4 DEF AccessType, Threads, Tested
<1>8. Sound' = Sound /\ Skipped' = Skipped
  BY <1>1 DEF Sound, Skipped
<1>9. ASSUME Sound
      PROVE  \E q \in Nat \ {0}, r \in 1..BlocksPerCluster, m \in 0..Len(chain), l \in Nat :
                   /\ IterAt(nx, q, r, m)
                   /\ l \in Skipped + 1..Len(chain) /\ (~lost' => l = Len(chain))
                   /\ IterAt(iter', q, r, l)
                   /\ size_done + ClusterSize = (ClusterSize * q) + ((r - 1) * BlockSize)
  <2>1. PICK q \in Nat, r \in 1..BlocksPerCluster, m \in Nat :
               Visible(m) /\ IterAt(iter, q, r, m) /\ Returned(q, r)
    BY <1>9 DEF AccessInv, BlocksOK
  <2>2. Skipped \in Nat /\ Len(chain) \in Nat
    <3>1. Skipped \in Nat
      BY <1>2, Sizes, DivMod DEF AccessType, Skipped
    <3>2. Len(chain) \in Nat
      BY <1>2 DEF AccessType, TypeOK
    <3> QED BY <3>1, <3>2
  <2>3. m \in Skipped + 1..Len(chain) /\ (~lost => m = Len(chain)) /\ m <= Len(chain)
        /\ m \in 0..Len(chain)
    BY <2>1, <2>2, SMT DEF Visible
  <2>4. IterAt(iter, q, r, m) /\ (q = 0 => r = BlocksPerCluster) /\ iter \in IterType
    BY <1>2, <2>1 DEF Returned, AccessType
  <2>5. /\ r < BlocksPerCluster => IterAt(nx, q, r + 1, m) /\ ~ReadsTable(iter)
        /\ r = BlocksPerCluster /\ Skipped + q + 1 <= m =>
              /\ IterAt(nx, q + 1, 1, m)
              /\ ReadsTable(iter) => /\ Skipped + q + 2 <= Len(chain)
                                     /\ IterAt(Unread(nx), q + 1, 1, Skipped + q + 2)
        /\ r = BlocksPerCluster /\ Skipped + q + 1 > m => nx.last_cluster = None
    BY <1>2, <2>3, <2>4, NextBlockAt
  <2> HIDE DEF nx
  <2>6. CASE r < BlocksPerCluster
    <3>1. q # 0
      BY <2>1, <2>6, SMT DEF Returned
    <3>2. r + 1 \in 1..BlocksPerCluster /\ (r + 1) - 1 = r
      BY <2>6, Sizes, SMT
    <3>3. size_done + ClusterSize = (ClusterSize * q) + (((r + 1) - 1) * BlockSize)
      BY <2>1, <3>2 DEF Returned
    <3>4. iter' = nx /\ lost' = lost
      BY <1>1, <2>5, <2>6
    <3> QED BY <2>3, <2>5, <2>6, <3>1, <3>2, <3>3, <3>4
  <2>7. CASE r = BlocksPerCluster
    <3>1. q + 1 \in Nat \ {0} /\ 1 \in 1..BlocksPerCluster
      BY Sizes, SMT
    <3>2. size_done + ClusterSize = (ClusterSize * (q + 1)) + ((1 - 1) * BlockSize)
      BY <2>1, <2>7, Sizes, SMT DEF Returned
    <3>3. Skipped + q + 1 <= m
      <4>1. nx.last_cluster # None
        BY DEF nx
      <4> QED BY <2>2, <2>3, <2>5, <2>7, <4>1, SMT
    <3>4. IterAt(nx, q + 1, 1, m)
      BY <2>5, <2>7, <3>3
    <3>5. CASE iter' = nx /\ lost' = lost
      BY <2>3, <3>1, <3>2, <3>4, <3>5
    <3>6. CASE ReadsTable(iter) /\ iter' = Unread(nx) /\ lost' = TRUE
      <4>1. IterAt(iter', q + 1, 1, Skipped + q + 2) /\ Skipped + q + 2 <= Len(chain)
        BY <2>5, <2>7, <3>3, <3>6
      <4>2. Skipped + q + 2 \in Skipped + 1..Len(chain) /\ Skipped + q + 2 \in Nat
        BY <2>2, <4>1, SMT
      <4> QED BY <2>3, <3>1, <3>2, <3>4, <3>6, <4>1, <4>2
    <3> QED BY <1>1, <3>5, <3>6
  <2> QED BY <2>6, <2>7, Sizes, SMT
<1>10. BlocksOK'
  <2> SUFFICES ASSUME More'
               PROVE  /\ \E m \in Nat : size_done' = BlockSize * m
                      /\ Sound => \E q \in Nat, r \in 1..BlocksPerCluster, m \in Nat :
                                       Visible(m)' /\ IterAt(iter, q, r, m)' /\ Returned(q, r)'
    BY <1>8 DEF BlocksOK
  <2>1. n = BlockSize
    BY <1>1, <1>4, SMT DEF More, BytesLeft
  <2>2. \E m \in Nat : size_done' = BlockSize * m
    <3>1. PICK m \in Nat : size_done = BlockSize * m
      BY DEF AccessInv, BlocksOK
    <3>2. m + 1 \in Nat /\ size_done' = BlockSize * (m + 1)
      BY <1>1, <2>1, <3>1, Sizes, SMT
    <3> QED BY <3>2
  <2>3. ASSUME Sound
        PROVE  \E q \in Nat, r \in 1..BlocksPerCluster, l \in Nat :
                   Visible(l)' /\ IterAt(iter, q, r, l)' /\ Returned(q, r)'
    <3>1. PICK q \in Nat \ {0}, r \in 1..BlocksPerCluster, l \in Nat :
              /\ l \in Skipped + 1..Len(chain) /\ (~lost' => l = Len(chain))
              /\ IterAt(iter', q, r, l)
              /\ size_done + ClusterSize = (ClusterSize * q) + ((r - 1) * BlockSize)
      BY <1>9, <2>3
    <3>2. IterAt(iter, q, r, l)' /\ Visible(l)'
      BY <1>1, <1>8, <3>1 DEF IterAt, Visible
    <3>3. (r - 1) * BlockSize = (r * BlockSize) - BlockSize /\ r * BlockSize \in Nat
      BY Sizes
    <3>4. ClusterSize * q \in Nat
      BY Sizes, SMT
    <3>5. size_done' + ClusterSize = (ClusterSize * q) + (r * BlockSize)
      BY <1>1, <1>4, <2>1, <3>1, <3>3, <3>4, Sizes, SMT
    <3> QED BY <3>2, <3>5 DEF Returned
  <2> QED BY <2>2, <2>3
<1>11. SoundAccessExact'
  <2> SUFFICES ASSUME Sound, NEW i \in 1..Len(moved') PROVE moved'[i] = Place(offset + i - 1)'
    BY <1>1, <1>8 DEF SoundAccessExact
  <2>1. Place(offset + i - 1)' = Place(offset + i - 1)
    BY <1>1 DEF Place
  <2>2. CASE i <= size_done
    <3>1. i \in 1..Len(moved) /\ moved'[i] = moved[i]
      BY <1>1, <1>4, <1>5, <1>6, <2>2, SMT
    <3> QED BY <2>1, <3>1 DEF AccessInv, SoundAccessExact
  <2>3. CASE i > size_done
    <3>1. PICK k \in 1..n : i = size_done + k
      <4>1. i - size_done \in 1..n /\ i = size_done + (i - size_done)
        BY <1>1, <1>4, <1>6, <2>3, SMT
      <4> QED BY <4>1
    <3>2. moved'[i] = Chunk(nx, n)[k]
      <4>1. i \in Len(moved) + 1..Len(moved) + Len(Chunk(nx, n)) /\ i - Len(moved) = k
        BY <1>4, <1>5, <3>1
      <4>2. (moved \o Chunk(nx, n))[i] = Chunk(nx, n)[i - Len(moved)]
        BY <1>4, <1>5, <4>1
      <4> QED BY <1>1, <4>1, <4>2
    <3>3. Chunk(nx, n)[k] = Place(offset + size_done + k - 1)
      <4>1. PICK q \in Nat \ {0}, r \in 1..BlocksPerCluster, m \in 0..Len(chain) :
                /\ IterAt(nx, q, r, m)
                /\ size_done + ClusterSize = (ClusterSize * q) + ((r - 1) * BlockSize)
        BY <1>9
      <4> HIDE DEF nx
      <4> QED BY <1>2, <4>1, ChunkExact
    <3>4. offset + size_done + k - 1 = offset + i - 1
      BY <1>4, <3>1, SMT
    <3> QED BY <2>1, <3>2, <3>3, <3>4
  <2> QED BY <1>4, <2>2, <2>3, SMT
<1>12. SoundAccessComplete' /\ ReadPanicsOnOddBuffersOnly'
  BY <1>1 DEF SoundAccessComplete, ReadPanicsOnOddBuffersOnly
<1> QED BY <1>7, <1>10, <1>11, <1>12 DEF AccessInv

-----------------------------------------------------------------------------
(* The other steps *)

LEMMA AccessInvInit == Init => AccessInv
<1> SUFFICES ASSUME Init PROVE AccessInv
  OBVIOUS
<1>1. Cardinality(Cluster) \in Nat
  <2>1. IsFiniteSet(Cluster)
    BY FS_Interval, ClusterCountAssumption, SMT DEF Cluster
  <2> QED BY <2>1, FS_CardinalityType
<1>2. PICK n \in Nat : /\ chain \in Chains(n)
                       /\ file_size \in 0..(n * ClusterSize) /\ Needed(file_size) = n
  <2>1. PICK n \in 0..Cardinality(Cluster) :
            chain \in Chains(n) /\ file_size \in {k \in 0..(n * ClusterSize) : Needed(k) = n}
    BY DEF Init
  <2>2. n \in Nat
    BY <1>1, SMT
  <2> QED BY <2>1, <2>2
<1>3. PICK F \in Table : fat = Threaded(F, chain)
  <2>1. PICK others \in {Free, EndOfChain} : fat = Threaded([c \in Cluster |-> others], chain)
    BY DEF Init
  <2>2. [c \in Cluster |-> others] \in Table
    BY DEF Table, FatValue
  <2> QED BY <2>1, <2>2
<1>4. fat \in Table /\ Threads(fat, chain) /\ chain \in Seq(Cluster) /\ Len(chain) = n
  BY <1>2, <1>3, ThreadedThreads
<1>5. /\ op \in {"read", "write"} /\ file_size \in Nat /\ offset \in Nat /\ buf_len \in Nat
      /\ size_done = 0 /\ moved = <<>> /\ pc = "start" /\ iter = NewIter(0) /\ lost = FALSE
  BY <1>2, AccessAssumption, Sizes, SMT DEF Init
<1>6. iter \in IterType
  BY <1>4, <1>5, NewIterType
<1>7. TypeOK
  <2>1. moved \in Seq(Int) /\ Len(moved) = 0 /\ size_done <= buf_len
    BY <1>5, SMT
  <2>2. iter.counter \in 1..BlocksPerCluster /\ iter.first_block \in 0..(BlocksPerCluster - 1)
        /\ iter.last_fat \in FatValue
    BY <1>6 DEF IterType
  <2> QED BY <1>2, <1>4, <1>5, <2>1, <2>2 DEF TypeOK
<1>8. AccessType
  BY <1>4, <1>5, <1>6, <1>7 DEF AccessType, Tested
<1>9. SoundAccessExact
  BY <1>5, SMT DEF SoundAccessExact
<1> QED BY <1>5, <1>8, <1>9 DEF AccessInv, BlocksOK, SoundAccessComplete, ReadPanicsOnOddBuffersOnly

\* A call that ends, with what its result requires.
LEMMA EndKeeps ==
    ASSUME AccessInv, NEW result \in {"ok", "denied", "nospace", "ioerr", "panic"}, End(result),
           SoundAccessComplete', ReadPanicsOnOddBuffersOnly'
    PROVE  AccessInv'
<1>1. /\ pc' = result /\ UNCHANGED <<op, offset, buf_len, appendable, fat, chain, file_size>>
      /\ UNCHANGED <<iter, size_done, moved, lost>>
  BY DEF End, input, file
<1>2. TypeOK'
  BY <1>1 DEF AccessInv, AccessType, TypeOK, Needed
<1>3. AccessType'
  BY <1>1, <1>2 DEF AccessInv, AccessType, Threads, Tested
<1>4. BlocksOK'
  BY <1>1 DEF BlocksOK
<1>5. SoundAccessExact'
  BY <1>1 DEF AccessInv, SoundAccessExact, Sound, Place
<1> QED BY <1>3, <1>4, <1>5 DEF AccessInv

\* The iterator is made.
LEMMA BeginKeeps ==
    ASSUME AccessInv, pc = "start", Begin, offset <= MaxOffset,
           op = "read" => offset < file_size,
           op = "write" => offset + buf_len <= file_size
    PROVE  AccessInv'
<1>1. /\ pc' = "moving" /\ UNCHANGED <<op, offset, buf_len, appendable, fat, chain, file_size>>
      /\ UNCHANGED <<size_done, moved>> /\ lost' \in BOOLEAN
      /\ iter' = IF lost' THEN Unread(NewIter(offset \div BlockSize))
                 ELSE NewIter(offset \div BlockSize)
  BY DEF Begin, input, file
<1>2. /\ size_done = 0 /\ moved = <<>> /\ offset \in Nat /\ file_size \in Nat /\ buf_len \in Nat
      /\ fat \in Table /\ chain \in Seq(Cluster) /\ op \in {"read", "write"}
  BY DEF AccessInv, AccessType, TypeOK
<1>3. iter' \in IterType
  <2>1. NewIter(offset \div BlockSize) \in IterType
    BY <1>2, Sizes, DivMod, NewIterType
  <2> QED BY <1>1, <2>1, UnreadType
<1>4. TypeOK'
  <2>1. iter'.counter \in 1..BlocksPerCluster /\ iter'.first_block \in 0..(BlocksPerCluster - 1)
        /\ iter'.last_fat \in FatValue
    BY <1>3 DEF IterType
  <2> QED BY <1>1, <2>1 DEF AccessInv, AccessType, TypeOK, Needed
<1>5. AccessType'
  <2>1. op = "read" => offset + size_done <= file_size
    BY <1>2, SMT
  <2> QED BY <1>1, <1>3, <1>4, <2>1 DEF AccessInv, AccessType, Threads, Tested
<1>6. BlocksOK'
  <2> SUFFICES ASSUME More
               PROVE  /\ \E m \in Nat : size_done = BlockSize * m
                      /\ Sound => \E q \in Nat, r \in 1..BlocksPerCluster, m \in Nat :
                                       Visible(m)' /\ IterAt(iter, q, r, m)' /\ Returned(q, r)
    BY <1>1 DEF BlocksOK, More, BytesLeft, Sound, Returned
  <2>1. 0 \in Nat /\ size_done = BlockSize * 0
    BY <1>2, Sizes, SMT
  <2>2. offset < file_size
    BY <1>2, SMT DEF More
  <2>3. ASSUME Sound
        PROVE  \E m \in Nat : Visible(m)' /\ IterAt(iter, 0, BlocksPerCluster, m)'
    <3>1. /\ Skipped + 1 \in 1..Len(chain)
          /\ IterAt(NewIter(offset \div BlockSize), 0, BlocksPerCluster, Len(chain))
          /\ IterAt(Unread(NewIter(offset \div BlockSize)), 0, BlocksPerCluster, Skipped + 1)
      BY <2>2, <2>3, NewIterAt DEF AccessInv
    <3>2. Skipped \in Nat /\ Len(chain) \in Nat
      <4>1. Skipped \in Nat
        BY <1>2, Sizes, DivMod DEF Skipped
      <4>2. Len(chain) \in Nat
        BY <1>2
      <4> QED BY <4>1, <4>2
    <3>3. PICK m \in Nat : /\ m \in Skipped + 1..Len(chain) /\ (~lost' => m = Len(chain))
                           /\ IterAt(iter', 0, BlocksPerCluster, m)
      <4>1. Skipped + 1 \in Skipped + 1..Len(chain) /\ Len(chain) \in Skipped + 1..Len(chain)
            /\ Skipped + 1 \in Nat
        BY <3>1, <3>2, SMT
      <4> QED BY <1>1, <3>1, <3>2, <4>1
    <3>4. Visible(m)' /\ IterAt(iter, 0, BlocksPerCluster, m)'
      BY <1>1, <3>3 DEF Visible, IterAt, Skipped
    <3> QED BY <3>4
  <2>4. BlocksPerCluster \in 1..BlocksPerCluster
    BY Sizes, SMT
  <2>5. Returned(0, BlocksPerCluster)
    BY <1>2, Sizes, SMT DEF Returned
  <2> QED BY <2>1, <2>3, <2>4, <2>5
<1>7. SoundAccessExact'
  BY <1>1, <1>2, SMT DEF SoundAccessExact
<1> QED BY <1>1, <1>5, <1>6, <1>7 DEF AccessInv, SoundAccessComplete, ReadPanicsOnOddBuffersOnly

\* set_len: the chain grows behind its end.
LEMMA GrowKeeps == AccessInv /\ WriteGrow => AccessInv'
<1> SUFFICES ASSUME AccessInv, WriteGrow PROVE AccessInv'
  OBVIOUS
<1>1. /\ pc = "start" /\ pc' = "start" /\ op = "write" /\ file_size' = offset + buf_len
      /\ UNCHANGED <<op, offset, buf_len, appendable, iter, size_done, moved, lost>>
  BY DEF WriteGrow, input
<1>2. /\ size_done = 0 /\ moved = <<>> /\ offset \in Nat /\ buf_len \in Nat /\ fat \in Table
  BY <1>1 DEF AccessInv, AccessType, TypeOK
<1>3. file_size' \in Nat
  BY <1>1, <1>2, SMT
<1>4. PICK s \in Chains(Needed(offset + buf_len)) : chain' = s /\ fat' = Threaded(fat, s)
  BY DEF WriteGrow
<1>5. Needed(offset + buf_len) \in Nat /\ Needed(file_size)' = Needed(offset + buf_len)
  BY <1>1, <1>3, NeededCovers DEF Needed
<1>6. fat' \in Table /\ Threads(fat', chain') /\ chain' \in Seq(Cluster) /\ Len(chain') = Needed(file_size)'
  BY <1>2, <1>4, <1>5, ThreadedThreads
<1>7. TypeOK'
  BY <1>1, <1>6 DEF AccessInv, AccessType, TypeOK
<1>8. AccessType'
  BY <1>1, <1>3, <1>6, <1>7 DEF AccessInv, AccessType, Threads, Tested
<1>9. SoundAccessExact'
  BY <1>1, <1>2, SMT DEF SoundAccessExact
<1> QED BY <1>1, <1>8, <1>9
        DEF AccessInv, BlocksOK, SoundAccessComplete, ReadPanicsOnOddBuffersOnly

\* While there is more to move the iterator of a sound access returns a block, but at
\* the end of a cluster when an entry of the table could not be read.
LEMMA MoreHasBlock ==
    ASSUME AccessInv, pc = "moving", More, Sound
    PROVE  \/ NextBlock(iter).last_cluster # None
           \/ lost /\ size_done # 0 /\ size_done % ClusterSize = 0
<1>1. PICK q \in Nat, r \in 1..BlocksPerCluster, m \in Nat :
              Visible(m) /\ IterAt(iter, q, r, m) /\ Returned(q, r)
  BY DEF AccessInv, BlocksOK
<1>2. /\ offset \in Nat /\ file_size \in Nat /\ size_done \in Nat /\ buf_len \in Nat
      /\ op \in {"read", "write"} /\ iter \in IterType /\ chain \in Seq(Cluster)
      /\ Len(chain) = Needed(file_size)
      /\ op = "write" => offset + buf_len <= file_size
  <2>1. AccessType /\ TypeOK
    BY DEF AccessInv, AccessType
  <2>2. chain \in Seq(Cluster) /\ Len(chain) = Needed(file_size)
    BY <2>1 DEF TypeOK
  <2>3. op = "write" => offset + buf_len <= file_size
    <3>1. Tested
      BY <2>1 DEF AccessType
    <3> QED BY <3>1 DEF Tested
  <2>4. /\ offset \in Nat /\ file_size \in Nat /\ size_done \in Nat /\ buf_len \in Nat
        /\ op \in {"read", "write"} /\ iter \in IterType
    BY <2>1 DEF AccessType
  <2> QED BY <2>2, <2>3, <2>4
<1>3. PICK l \in Nat : l = Len(chain) /\ file_size <= ClusterSize * l
  BY <1>2, NeededCovers
<1>4. PICK j \in Nat, o \in Nat : j = Skipped /\ offset = (ClusterSize * j) + o
  <2>1. /\ offset \div ClusterSize \in Nat /\ offset % ClusterSize \in Nat
        /\ offset = (ClusterSize * (offset \div ClusterSize)) + (offset % ClusterSize)
    BY <1>2, Sizes, DivMod
  <2> QED BY <2>1 DEF Skipped
<1>5. offset + size_done < file_size
  BY <1>2, SMT DEF More, BytesLeft
<1>10. m <= l /\ j + 1 <= m /\ (~lost => m = l)
  BY <1>1, <1>3, <1>4, SMT DEF Visible
<1>6. /\ r < BlocksPerCluster => IterAt(NextBlock(iter), q, r + 1, m)
      /\ r = BlocksPerCluster /\ j + q + 1 <= m => IterAt(NextBlock(iter), q + 1, 1, m)
  BY <1>1, <1>2, <1>3, <1>4, <1>10, NextBlockAt DEF AccessInv, Returned
<1>7. \A i \in 1..l : chain[i] # None
  <2>1. \A i \in 1..l : chain[i] \in Cluster
    BY <1>2, <1>3
  <2> QED BY <2>1, ClusterCountAssumption, SMT DEF Cluster, None
<1>8. CASE r < BlocksPerCluster
  <2>1. q > 0
    BY <1>1, <1>8, SMT DEF Returned
  <2>2. j + q \in 1..l /\ NextBlock(iter).last_cluster = chain[j + q]
    BY <1>3, <1>4, <1>6, <1>8, <1>10, <2>1, SMT DEF IterAt
  <2> QED BY <1>7, <2>2
<1>9. CASE r = BlocksPerCluster
  <2>1. size_done = ClusterSize * q
    BY <1>1, <1>2, <1>9, Sizes, SMT DEF Returned
  <2>2. j + q < l
    <3> SUFFICES ASSUME l <= j + q PROVE FALSE
      BY <1>3, SMT
    <3>1. ClusterSize * l <= ClusterSize * (j + q)
      BY Sizes, SMT
    <3>2. ClusterSize * (j + q) = (ClusterSize * j) + (ClusterSize * q)
      BY Sizes, SMT
    <3>3. ClusterSize * j \in Nat /\ ClusterSize * q \in Nat /\ ClusterSize * l \in Nat
      BY Sizes, SMT
    <3>4. PICK a \in Nat, b \in Nat, e \in Nat :
             a = ClusterSize * j /\ b = ClusterSize * q /\ e = ClusterSize * l
      BY <3>3
    <3>5. e <= a + b /\ offset = a + o /\ size_done = b /\ file_size <= e
      BY <1>3, <1>4, <2>1, <3>1, <3>2, <3>4
    <3>6. file_size \in Nat
      BY <1>2 DEF AccessType
    <3> QED BY <1>5, <3>5, <3>6, SMT
  <2>3. j + q + 1 <= m => j + (q + 1) \in 1..l /\ NextBlock(iter).last_cluster = chain[j + (q + 1)]
    <3> SUFFICES ASSUME j + q + 1 <= m PROVE j + (q + 1) \in 1..l /\ NextBlock(iter).last_cluster = chain[j + (q + 1)]
      OBVIOUS
    <3> QED BY <1>3, <1>4, <1>6, <1>9, <1>10, <2>2, SMT DEF IterAt
  <2>4. CASE j + q + 1 <= m
    BY <1>7, <2>3, <2>4
  <2>5. CASE ~(j + q + 1 <= m)
    <3>1. lost /\ q # 0
      BY <1>10, <1>3, <1>4, <2>2, <2>5, SMT
    <3>2. size_done # 0
      BY <2>1, <3>1, Sizes, SMT
    <3>3. size_done = (ClusterSize * q) + 0
      BY <1>2, <2>1, SMT
    <3>4. ((ClusterSize * q) + 0) % ClusterSize = 0
      BY Sizes, OneQuotient, SMT
    <3> QED BY <3>1, <3>2, <3>3, <3>4
  <2> QED BY <2>4, <2>5
<1> QED BY <1>8, <1>9, Sizes, SMT

LEMMA ReadBlockKeeps == AccessInv /\ ReadBlock => AccessInv'
<1> SUFFICES ASSUME AccessInv, ReadBlock PROVE AccessInv'
  OBVIOUS
<1> DEFINE nx == NextBlock(iter)
<1>1. pc = "moving" /\ op = "read" /\ AccessType
  BY DEF ReadBlock, AccessInv
<1>2. /\ offset \in Nat /\ file_size \in Nat /\ size_done \in Nat /\ buf_len \in Nat
      /\ size_done <= buf_len /\ offset < file_size /\ offset + size_done <= file_size
      /\ offset <= MaxOffset /\ MaxOffset \in Nat /\ Len(moved) = size_done
  <2>1. size_done <= buf_len /\ Len(moved) = size_done
    BY <1>1 DEF AccessType, TypeOK
  <2>2. offset < file_size /\ offset + size_done <= file_size /\ offset <= MaxOffset
    <3>1. Tested
      BY <1>1 DEF AccessType
    <3> QED BY <1>1, <3>1 DEF Tested
  <2>3. offset \in Nat /\ file_size \in Nat /\ size_done \in Nat /\ buf_len \in Nat
    BY <1>1 DEF AccessType
  <2> QED BY <2>1, <2>2, <2>3, AccessAssumption
<1>3. BlockSize \in Nat \ {0}
  BY Sizes
<1>4. ReadLimit \in Nat /\ ReadLimit <= BlockSize /\ ReadLimit <= BytesLeft /\ ReadLimit <= buf_len
      /\ (ReadLimit = BlockSize \/ ReadLimit = BytesLeft \/ ReadLimit = buf_len)
      /\ BytesLeft \in Nat /\ BytesLeft = file_size - size_done - offset
  BY <1>2, <1>3, SMT DEF ReadLimit, Lesser, BytesLeft
<1>5. CASE size_done >= buf_len \/ nx.last_cluster = None \/ BytesLeft = 0
  <2>1. End("ok")
    BY <1>5 DEF ReadBlock
  <2>2. SoundAccessComplete'
    <3>1. Whole = Lesser(buf_len, file_size - offset)
      BY <1>1, <1>2, SMT DEF Whole
    <3> SUFFICES ASSUME Sound
                 PROVE  \/ Len(moved) = Whole
                        \/ lost /\ Len(moved) \in 1..(Whole - 1) /\ Len(moved) % ClusterSize = 0
      BY <2>1 DEF SoundAccessComplete, End, input, file, Sound, Whole
    <3>2. CASE ~More
      <4>1. size_done >= buf_len \/ BytesLeft = 0
        BY <1>1, <1>2, <1>4, <3>2, SMT DEF More
      <4> QED BY <1>2, <1>4, <3>1, <4>1, SMT DEF Lesser
    <3>3. CASE More
      <4>1. lost /\ size_done # 0 /\ size_done % ClusterSize = 0
        <5>1. ~(size_done >= buf_len) /\ BytesLeft # 0
          BY <1>1, <1>2, <1>4, <3>3, SMT DEF More
        <5>2. nx.last_cluster = None
          BY <1>5, <5>1
        <5> QED BY <1>1, <3>3, <5>2, MoreHasBlock
      <4>2. Len(moved) \in 1..(Whole - 1)
        BY <1>1, <1>2, <1>4, <3>1, <3>3, <4>1, SMT DEF Lesser, More
      <4> QED BY <1>2, <4>1, <4>2
    <3> QED BY <3>2, <3>3
  <2>3. ReadPanicsOnOddBuffersOnly'
    BY <2>1 DEF End, ReadPanicsOnOddBuffersOnly
  <2> QED BY <2>1, <2>2, <2>3, EndKeeps
<1>6. CASE ~(size_done >= buf_len \/ nx.last_cluster = None \/ BytesLeft = 0)
  <2>1. More
    BY <1>2, <1>4, <1>6, SMT DEF More
  <2>2. CASE size_done + ReadLimit > buf_len
    <3>1. End("panic")
      BY <1>6, <2>2 DEF ReadBlock
    <3>2. PICK m \in Nat : size_done = BlockSize * m
      BY <1>1, <2>1 DEF AccessInv, BlocksOK
    <3>3. m # 0
      BY <1>2, <1>3, <1>4, <2>2, <3>2, SMT
    <3>4. buf_len > BlockSize
      <4>1. BlockSize * m >= BlockSize
        BY <1>3, <3>2, <3>3, SMT
      <4> QED BY <1>2, <1>3, <1>6, <3>2, <4>1, SMT
    <3>5. buf_len % BlockSize # 0
      <4> SUFFICES ASSUME buf_len % BlockSize = 0 PROVE FALSE
        OBVIOUS
      <4>1. PICK k \in Nat : buf_len = BlockSize * k
        <5>1. buf_len \div BlockSize \in Nat /\ buf_len = (BlockSize * (buf_len \div BlockSize)) + 0
          BY <1>2, <1>3, DivMod
        <5>2. BlockSize * (buf_len \div BlockSize) \in Nat
          BY <1>3, <5>1, SMT
        <5> QED BY <5>1, <5>2, SMT
      <4>2. m < k
        <5> SUFFICES ASSUME k <= m PROVE FALSE
          BY SMT
        <5>1. BlockSize * k <= BlockSize * m
          BY <1>3, SMT
        <5> QED BY <1>2, <1>6, <3>2, <4>1, <5>1, SMT
      <4>3. (BlockSize * m) + BlockSize <= BlockSize * k
        BY <1>3, <4>2, SMT
      <4> QED BY <1>2, <1>3, <1>4, <2>2, <3>2, <4>1, <4>3, SMT
    <3>6. offset + buf_len < file_size
      BY <1>2, <1>4, <2>2, SMT
    <3>7. ReadPanicsOnOddBuffersOnly'
      BY <3>1, <3>4, <3>5, <3>6 DEF End, input, file, ReadPanicsOnOddBuffersOnly
    <3>8. SoundAccessComplete'
      BY <3>1 DEF End, SoundAccessComplete
    <3> QED BY <3>1, <3>7, <3>8, EndKeeps
  <2>3. CASE ~(size_done + ReadLimit > buf_len)
    <3>1. Move(nx, ReadLimit)
      BY <1>6, <2>3 DEF ReadBlock
    <3>2. /\ size_done + ReadLimit <= buf_len
          /\ \/ ReadLimit = BlockSize \/ size_done + ReadLimit = buf_len
             \/ op = "read" /\ ReadLimit = BytesLeft
      BY <1>1, <1>2, <1>4, <2>3, SMT
    <3> HIDE DEF nx
    <3>3. nx.last_cluster # None
      BY <1>6
    <3> QED BY <1>1, <1>4, <2>1, <3>1, <3>2, <3>3, MoveKeeps DEF nx
  <2> QED BY <2>2, <2>3
<1> QED BY <1>5, <1>6

LEMMA WriteBlockKeeps == AccessInv /\ WriteBlock => AccessInv'
<1> SUFFICES ASSUME AccessInv, WriteBlock PROVE AccessInv'
  OBVIOUS
<1>1. pc = "moving" /\ op = "write" /\ AccessType
  BY DEF WriteBlock, AccessInv
<1>2. /\ size_done \in Nat /\ buf_len \in Nat /\ size_done <= buf_len /\ Len(moved) = size_done
  BY <1>1 DEF AccessType, TypeOK
<1>3. BlockSize \in Nat \ {0}
  BY Sizes
<1>4. CASE size_done >= buf_len \/ NextBlock(iter).last_cluster = None
  <2>1. End("ok")
    BY <1>4 DEF WriteBlock
  <2>2. SoundAccessComplete'
    <3>1. Whole = buf_len
      BY <1>1 DEF Whole
    <3> SUFFICES ASSUME Sound
                 PROVE  \/ Len(moved) = Whole
                        \/ lost /\ Len(moved) \in 1..(Whole - 1) /\ Len(moved) % ClusterSize = 0
      BY <2>1 DEF SoundAccessComplete, End, input, file, Sound, Whole
    <3>2. CASE ~More
      <4>1. size_done >= buf_len
        BY <1>1, <1>2, <3>2, SMT DEF More
      <4> QED BY <1>2, <3>1, <4>1, SMT
    <3>3. CASE More
      <4>1. ~(size_done >= buf_len)
        BY <1>2, <3>3, SMT DEF More
      <4>2. lost /\ size_done # 0 /\ size_done % ClusterSize = 0
        <5>1. NextBlock(iter).last_cluster = None
          BY <1>4, <4>1
        <5> QED BY <1>1, <3>3, <5>1, MoreHasBlock
      <4>3. Len(moved) \in 1..(Whole - 1)
        BY <1>2, <3>1, <4>1, <4>2, SMT
      <4> QED BY <1>2, <4>2, <4>3
    <3> QED BY <3>2, <3>3
  <2>3. ReadPanicsOnOddBuffersOnly'
    BY <2>1 DEF End, ReadPanicsOnOddBuffersOnly
  <2> QED BY <2>1, <2>2, <2>3, EndKeeps
<1>5. CASE ~(size_done >= buf_len \/ NextBlock(iter).last_cluster = None)
  <2>1. More
    BY <1>1, <1>2, <1>5, SMT DEF More
  <2> DEFINE n == Lesser(BlockSize, buf_len - size_done)
  <2>2. /\ n \in Nat /\ n <= BlockSize /\ size_done + n <= buf_len
        /\ n = BlockSize \/ size_done + n = buf_len
    BY <1>2, <1>3, SMT DEF Lesser
  <2>3. Move(NextBlock(iter), n)
    BY <1>5 DEF WriteBlock
  <2>4. NextBlock(iter).last_cluster # None
    BY <1>5
  <2>5. op # "read"
    BY <1>1
  <2> HIDE DEF n
  <2> QED BY <1>1, <2>1, <2>2, <2>3, <2>4, <2>5, MoveKeeps
<1> QED BY <1>4, <1>5

LEMMA AccessInvStep == AccessInv /\ [Next]_vars => AccessInv'
<1> SUFFICES ASSUME AccessInv, [Next]_vars PROVE AccessInv'
  OBVIOUS
<1>1. /\ offset \in Nat /\ file_size \in Nat /\ buf_len \in Nat /\ op \in {"read", "write"}
      /\ pc = "start" => Len(moved) = 0
  BY SMT DEF AccessInv, AccessType
<1>2. CASE UNCHANGED vars \/ Ended
  <2>1. /\ UNCHANGED <<op, offset, buf_len, appendable, fat, chain, file_size>>
        /\ UNCHANGED <<iter, size_done, moved, lost, pc>>
    BY <1>2 DEF Ended, vars, input, file
  <2>2. AccessType'
    BY <2>1 DEF AccessInv, AccessType, TypeOK, Needed, Threads, Tested
  <2>3. BlocksOK'
    BY <2>1 DEF AccessInv, BlocksOK, More, BytesLeft, Sound, IterAt, Visible, Returned, Skipped
  <2>4. SoundAccessExact' /\ SoundAccessComplete' /\ ReadPanicsOnOddBuffersOnly'
    BY <2>1 DEF AccessInv, SoundAccessExact, SoundAccessComplete, ReadPanicsOnOddBuffersOnly, Sound, Place, Whole
  <2> QED BY <2>2, <2>3, <2>4 DEF AccessInv
<1>3. CASE ReadNothing
  <2>1. End("ok") /\ pc = "start" /\ op = "read" /\ (offset > MaxOffset \/ offset >= file_size)
    BY <1>3 DEF ReadNothing
  <2>2. SoundAccessComplete' /\ ReadPanicsOnOddBuffersOnly'
    BY <1>1, <2>1 DEF End, input, file, SoundAccessComplete, Whole, ReadPanicsOnOddBuffersOnly
  <2> QED BY <2>1, <2>2, EndKeeps
<1>4. CASE WriteDenied \/ WriteNoSpace \/ IoError
  <2>1. PICK result \in {"denied", "nospace", "ioerr"} : End(result)
    BY <1>4 DEF WriteDenied, WriteNoSpace, IoError
  <2>2. SoundAccessComplete' /\ ReadPanicsOnOddBuffersOnly'
    BY <2>1 DEF End, SoundAccessComplete, ReadPanicsOnOddBuffersOnly
  <2> QED BY <2>1, <2>2, EndKeeps
<1>5. CASE ReadBegin \/ WriteBegin
  BY <1>5, BeginKeeps DEF ReadBegin, WriteBegin
<1> QED BY <1>2, <1>3, <1>4, <1>5, GrowKeeps, ReadBlockKeeps, WriteBlockKeeps DEF Next

-----------------------------------------------------------------------------
(* Theorems *)

\* Every variable keeps its type: the iterator stays within its cluster, and no call
\* moves more than the buffer holds.
THEOREM AccessTypesStay == Spec => []TypeOK
<1>1. AccessInv => TypeOK
  BY DEF AccessInv, AccessType
<1> QED BY <1>1, AccessInvInit, AccessInvStep, PTL DEF Spec

\* File::read and File::write move every byte to or from its place in the file, when
\* the access begins in the first block of a cluster that is reached through
\* neighbouring clusters and stays in it, or begins with the cluster.
THEOREM SoundStaysExact == Spec => []SoundAccessExact
<1>1. AccessInv => SoundAccessExact
  BY DEF AccessInv
<1> QED BY <1>1, AccessInvInit, AccessInvStep, PTL DEF Spec

\* Such a call that returns without an error has moved all there was to move, or whole
\* clusters of it, one at least, when an entry of the table could not be read.
THEOREM SoundStaysComplete == Spec => []SoundAccessComplete
<1>1. AccessInv => SoundAccessComplete
  BY DEF AccessInv
<1> QED BY <1>1, AccessInvInit, AccessInvStep, PTL DEF Spec

\* File::read panics only for a buffer longer than a block, no multiple of it, that
\* ends before the file does.
THEOREM OddBuffersOnlyPanic == Spec => []ReadPanicsOnOddBuffersOnly
<1>1. AccessInv => ReadPanicsOnOddBuffersOnly
  BY DEF AccessInv
<1> QED BY <1>1, AccessInvInit, AccessInvStep, PTL DEF Spec
==============================================================================
