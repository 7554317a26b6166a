------------------------------ MODULE FileAccess ------------------------------
(***************************************************************************)
(* Where the bytes of a file go: File::read and File::write                *)
(* (libfat/src/directory/mod.rs) with the iterator over the blocks of a    *)
(* chain (offset_iter.rs, table.rs) and Cluster::to_data_bytes_offset.     *)
(* Bytes have no value here: a call is described by which byte of the      *)
(* caller's buffer it moves to or from which byte of the device.  The      *)
(* device may fail at any access: one of the data ends the call with an    *)
(* error, one of the table ends the chain, and the call returns well.      *)
(***************************************************************************)
EXTENDS FatTable, Sequences

CONSTANTS
    BlockSize,         \* boot_record.bytes_per_block
    BlocksPerCluster,  \* boot_record.blocks_per_cluster
    MaxOffset,         \* max_size in check_range
    MaxBuffer          \* bound on the size of the caller's buffer

ASSUME AccessAssumption ==
    /\ BlockSize \in Nat \ {0}
    /\ BlocksPerCluster \in Nat \ {0}
    /\ MaxOffset \in Nat
    /\ MaxBuffer \in Nat

ClusterSize == BlockSize * BlocksPerCluster

VARIABLES
    op,         \* "read" or "write"
    fat,        \* the table
    chain,      \* the clusters of the file in their order
    file_size,
    offset,     \* where the access begins
    buf_len,
    appendable, \* write may make the file longer
    iter,       \* the ClusterOffsetIter
    size_done,  \* read_size, write_size
    moved,      \* device byte that each byte of the buffer went to or came from
    lost,       \* history: an entry of the table could not be read
    pc          \* "start", "moving", or how the call ended

input == <<op, offset, buf_len, appendable>>
file  == <<fat, chain, file_size>>
vars  == <<input, file, iter, size_done, moved, lost, pc>>

None == 0   \* Option::None of a cluster

Lesser(a, b) == IF a < b THEN a ELSE b

\* Clusters that n bytes take.
Needed(n) == (n + ClusterSize - 1) \div ClusterSize

\* The table F with the clusters of s made one chain.
Threaded(F, s) ==
    [c \in Cluster |->
        IF \E i \in 1..Len(s) : s[i] = c
          THEN LET i == CHOOSE j \in 1..Len(s) : s[j] = c
               IN  IF i = Len(s) THEN EndOfChain ELSE s[i + 1]
          ELSE F[c]]

Chains(n) == {s \in [1..n -> Cluster] : \A i, j \in 1..n : s[i] = s[j] => i = j}

\* FatValue::get.  Behind the last entry lies the next copy of the table, whose
\* first entry initialize made Free.
Get(c) == IF c \in Cluster THEN fat[c] ELSE Free

StartCluster == IF chain = <<>> THEN None ELSE Head(chain)

\* Cluster::to_data_bytes_offset, counted from the first data byte
DataBytesOffset(c) == (c - 2) * ClusterSize

-----------------------------------------------------------------------------

\* ClusterOffsetIter::new: the chain is entered as many clusters behind its first
\* one as the offset is, as if it were contiguous.
NewIter(block) ==
    LET c == StartCluster + (block \div BlocksPerCluster)
    IN  [current_cluster |-> c,
         last_fat        |-> Get(c),
         first_block     |-> block % BlocksPerCluster,
         last_cluster    |-> None,
         counter         |-> BlocksPerCluster]

\* A slip: the block the iterator starts with is counted twice.
OverrunNextBlock(it) ==
    IF it.counter # BlocksPerCluster
      THEN [it EXCEPT !.counter = @ + 1]
      ELSE [it EXCEPT !.counter = it.first_block + 2,
                      !.last_cluster = it.current_cluster,
                      !.current_cluster = IF IsData(it.last_fat) THEN it.last_fat ELSE None,
                      !.last_fat = IF IsData(@) THEN Get(@) ELSE @]

\* A slip: the cluster that ends the chain is not returned.
ShortNextBlock(it) ==
    IF it.counter # BlocksPerCluster
      THEN [it EXCEPT !.counter = @ + 1]
      ELSE [it EXCEPT !.counter = it.first_block + 1,
                      !.first_block = 0,
                      !.last_cluster = IF IsData(it.last_fat) THEN it.current_cluster ELSE None,
                      !.current_cluster = IF IsData(it.last_fat) THEN it.last_fat ELSE None,
                      !.last_fat = IF IsData(@) THEN Get(@) ELSE @]

\* ClusterOffsetIter::next and FatClusterIter::next; there is no next block when
\* last_cluster becomes None.
NextBlock(it) ==
    IF it.counter # BlocksPerCluster
      THEN [it EXCEPT !.counter = @ + 1]
      ELSE [it EXCEPT !.counter = it.first_block + 1,
                      !.first_block = 0,
                      !.last_cluster = it.current_cluster,
                      !.current_cluster = IF @ # None /\ IsData(it.last_fat)
                                            THEN it.last_fat ELSE None,
                      !.last_fat = IF it.current_cluster # None /\ IsData(@)
                                     THEN Get(@) ELSE @]

\* Whether that reads an entry of the table.
ReadsTable(it) == it.counter = BlocksPerCluster /\ it.current_cluster # None /\ IsData(it.last_fat)

\* last_fat is None when the entry could not be read (the .ok() of FatClusterIter::new
\* and next): the chain ends there, as it does at an EndOfChain.
Unread(it) == [it EXCEPT !.last_fat = EndOfChain]

-----------------------------------------------------------------------------

Init ==
    /\ op \in {"read", "write"}
    /\ \E n \in 0..Cardinality(Cluster) :
          /\ chain \in Chains(n)
          /\ file_size \in {k \in 0..(n * ClusterSize) : Needed(k) = n}
    /\ \E others \in {Free, EndOfChain} : fat = Threaded([c \in Cluster |-> others], chain)
    /\ offset \in 0..(MaxOffset + 1)
    /\ buf_len \in 0..MaxBuffer
    /\ appendable \in IF op = "write" THEN BOOLEAN ELSE {FALSE}
    /\ iter = NewIter(0)
    /\ size_done = 0
    /\ moved = <<>>
    /\ lost = FALSE
    /\ pc = "start"

End(result) == pc' = result /\ UNCHANGED <<input, file, iter, size_done, moved, lost>>

Begin == /\ pc' = "moving"
         /\ lost' \in BOOLEAN
         /\ iter' = LET it == NewIter(offset \div BlockSize) IN IF lost' THEN Unread(it) ELSE it
         /\ UNCHANGED <<input, file, size_done, moved>>

\* check_range, and an offset at or behind the end: Ok(0)
ReadNothing == /\ pc = "start" /\ op = "read"
               /\ offset > MaxOffset \/ offset >= file_size
               /\ End("ok")

ReadBegin == /\ pc = "start" /\ op = "read"
             /\ offset <= MaxOffset /\ offset < file_size
             /\ Begin

\* check_range, and the end of the buffer behind the end of the file
WriteDenied == /\ pc = "start" /\ op = "write"
               /\ \/ offset > MaxOffset
                  \/ offset + buf_len > file_size /\ ~appendable
               /\ End("denied")

WriteBegin == /\ pc = "start" /\ op = "write"
              /\ offset <= MaxOffset /\ offset + buf_len <= file_size
              /\ Begin

\* set_len(min_size), which takes whatever free clusters it needs (module
\* FatFile), or fails when there are too few.
WriteGrow ==
    /\ pc = "start" /\ op = "write" /\ appendable
    /\ offset <= MaxOffset /\ offset + buf_len > file_size
    /\ \E s \in Chains(Needed(offset + buf_len)) :
          /\ \A i \in 1..Len(s) : IF i <= Len(chain) THEN s[i] = chain[i] ELSE fat[s[i]] = Free
          /\ chain' = s
          /\ fat' = Threaded(fat, s)
    /\ file_size' = offset + buf_len
    /\ UNCHANGED <<input, iter, size_done, moved, lost, pc>>

WriteNoSpace ==
    /\ pc = "start" /\ op = "write" /\ appendable
    /\ offset <= MaxOffset
    /\ Needed(offset + buf_len) - Len(chain) > Cardinality(FreeClusters(fat))
    /\ End("nospace")

-----------------------------------------------------------------------------
(* The loops over the blocks *)

\* A slip: the offset in the block counts for the first block only.
FirstOnlyChunk(it, n) ==
    LET at == DataBytesOffset(it.last_cluster)
              + (IF size_done = 0 THEN offset % BlockSize ELSE 0)
              + (size_done % BlockSize)
    IN  [k \in 1..n |-> at + k - 1]

\* The device bytes of the next n bytes of the buffer.
Chunk(it, n) ==
    LET at == DataBytesOffset(it.last_cluster) + (offset % BlockSize) + (size_done % ClusterSize)
    IN  [k \in 1..n |-> at + k - 1]

Move(it, n) == /\ \/ iter' = it /\ lost' = lost
                  \/ ReadsTable(iter) /\ iter' = Unread(it) /\ lost' = TRUE
               /\ moved' = moved \o Chunk(it, n)
               /\ size_done' = size_done + n
               /\ UNCHANGED <<input, file, pc>>

BytesLeft == file_size - size_done - offset

\* A slip: the end of the file is not looked at.
EndlessReadLimit == Lesser(BlockSize, buf_len)

\* buf_limit in read, which does not look at what is left of the buffer
ReadLimit == Lesser(Lesser(BlockSize, BytesLeft), buf_len)

ReadBlock ==
    /\ pc = "moving" /\ op = "read"
    /\ LET it == NextBlock(iter)
       IN  IF size_done >= buf_len \/ it.last_cluster = None \/ BytesLeft = 0
             THEN End("ok")
           ELSE IF size_done + ReadLimit > buf_len   \* the slice is out of range
             THEN End("panic")
           ELSE Move(it, ReadLimit)

WriteBlock ==
    /\ pc = "moving" /\ op = "write"
    /\ LET it == NextBlock(iter)
       IN  IF size_done >= buf_len \/ it.last_cluster = None
             THEN End("ok")
             ELSE Move(it, Lesser(BlockSize, buf_len - size_done))

\* The device fails in set_len, or at an access to the data.
IoError == pc \in {"start", "moving"} /\ End("ioerr")

Ended == pc \notin {"start", "moving"} /\ UNCHANGED vars

Next == \/ ReadNothing \/ ReadBegin \/ ReadBlock
        \/ WriteDenied \/ WriteGrow \/ WriteNoSpace \/ WriteBegin \/ WriteBlock
        \/ IoError
        \/ Ended

Spec == Init /\ [][Next]_vars

-----------------------------------------------------------------------------
(* Properties *)

TypeOK ==
    /\ fat \in Table
    /\ chain \in Seq(Cluster) /\ Len(chain) = Needed(file_size)
    /\ iter.counter \in 1..BlocksPerCluster
    /\ iter.first_block \in 0..(BlocksPerCluster - 1)
    /\ iter.last_fat \in FatValue
    /\ moved \in Seq(Int) /\ Len(moved) = size_done
    /\ size_done <= buf_len
    /\ lost \in BOOLEAN
    /\ pc \in {"start", "moving", "ok", "denied", "nospace", "ioerr", "panic"}

\* The device byte in which byte n of the file is stored.
Place(n) == DataBytesOffset(chain[(n \div ClusterSize) + 1]) + (n % ClusterSize)

\* Every byte that has been moved belongs to its place in the file, as the comment
\* on write says: "Write the given buffer at a given offset of the file."
EveryAccessExact ==
    op = "write" => \A i \in 1..Len(moved) : moved[i] = Place(offset + i - 1)

\* The accesses the address computation is right for: the clusters up to the one
\* of the offset lie behind each other, and the offset is the first byte of a
\* cluster, or in its first block and the access ends in the same cluster.
Sound ==
    /\ \A i \in 1..Lesser((offset \div ClusterSize) + 1, Len(chain)) : chain[i] = chain[1] + i - 1
    /\ offset % ClusterSize < BlockSize
    /\ offset % ClusterSize = 0 \/ (offset % ClusterSize) + buf_len <= ClusterSize

\* Such accesses move every byte to or from its place, however the chain goes on
\* behind the first cluster and however the buffer ends; an access from the start
\* of a file is always one of them.
SoundAccessExact ==
    Sound => \A i \in 1..Len(moved) : moved[i] = Place(offset + i - 1)

\* What there is to move: a read ends with the buffer or the file, a write with the
\* buffer.
Whole == IF op = "write" THEN buf_len
         ELSE IF offset > MaxOffset \/ offset >= file_size THEN 0
         ELSE Lesser(buf_len, file_size - offset)

\* Such an access that ends well has moved all there was to move, unless an entry of
\* the table could not be read, of which the caller of write is told nothing: then it
\* has moved whole clusters, one at least, and so never stops within a cluster or
\* before the first.
SoundAccessComplete ==
    Sound /\ pc = "ok" =>
        \/ Len(moved) = Whole
        \/ lost /\ Len(moved) \in 1..(Whole - 1) /\ Len(moved) % ClusterSize = 0

\* The slice of the caller's buffer is out of range in no read but one whose buffer
\* is longer than a block, is no multiple of it and ends before the file does.
ReadPanicsOnOddBuffersOnly ==
    pc = "panic" => /\ buf_len > BlockSize /\ buf_len % BlockSize # 0
                    /\ offset + buf_len < file_size
=============================================================================
