-------------------------------- MODULE Format --------------------------------
(***************************************************************************)
(* Making a volume: format_partition, the geometry it computes and the     *)
(* boot record's initialize_cache (libfat/src/lib.rs), init and            *)
(* create_root_directory (libfat/src/filesystem.rs), and the table of      *)
(* FatEntry that it clears on the way.  A format may fail or be stopped    *)
(* between any two writes and be asked for again.                          *)
(***************************************************************************)
EXTENDS FatEntry, FiniteSets

CONSTANTS
    Sizes,      \* sizes of a partition, in blocks of 512 bytes
    Followed,   \* those whose format is followed to its end, with a table of
                \* ClusterCount entries for the one that was planned
    StaleCounts,\* free counts an information block may hold from before
    MaxFailures

\* 1 TB less a block.  From 2^32 blocks on the boot record has no room for their number.
MaxBlocks == 2147483647

ASSUME FormatAssumption ==
    /\ Sizes \subseteq 0..MaxBlocks /\ Followed \subseteq Sizes
    /\ StaleCounts \subseteq Nat /\ MaxFailures \in Nat
    /\ 2 \notin Touched

VARIABLES
    step,       \* how far the format is
    blocks,     \* size of the partition
    boot,       \* the root cluster of the boot record on the disk, {} before it is written
    info,       \* the free count in the information block, {} when it is not valid
    root,       \* what stands in the root directory's first cluster or blocks
    free,       \* memory: free_cluster, {} before init
    root_cluster,   \* memory: root_dir_childs_cluster
    failures

disk == <<boot, info, root>>
formatVars == <<vars, step, blocks, disk, free, root_cluster, failures>>

-----------------------------------------------------------------------------
(* Geometry.  Sizes are in blocks: 2048 of them are a megabyte. *)

BlockLen == 512

RoundUp(n, k) == (n + k - 1) \div k

\* The size of a cluster, in blocks, of format_partition.
ClusterBlocks(ft, n) ==
    CASE ft = 32 -> (CASE n \div 2048 > 32768 -> 64
                       [] n \div 2048 \in 16385..32768 -> 32
                       [] n \div 2048 \in 8193..16384 -> 16
                       [] n \div 2048 \in 1025..8192 -> 8
                       [] OTHER -> 1)
      [] ft = 16 -> IF n \div 4 > 65525 THEN 64 ELSE 4
      [] ft = 12 -> IF n \div 4 > 4085 THEN 64 ELSE 4

\* A slip: the clusters are counted before their size is chosen.
EarlyNumberClusters(ft, n) == n \div 4

NumberClusters(ft, n) == n \div ClusterBlocks(ft, n)

\* "this is too big to hold this filesystem type"
TooBig(ft, n) == NumberClusters(ft, n) > (CASE ft = 12 -> 4085
                                            [] ft = 16 -> 65525
                                            [] ft = 32 -> 268435445)

ReservedBlocks(ft) == IF ft = 32 THEN 32 ELSE 1
RootBlocks(ft)     == IF ft = 32 THEN 0 ELSE RoundUp(512 * 32, BlockLen)

\* fat_size: the blocks of one copy of the table.
FatBlocks(ft, n) ==
    LET k == NumberClusters(ft, n)
    IN  RoundUp(CASE ft = 32 -> (4 * k) + 8
                  [] ft # 32 /\ k > 4085 -> (2 * k) + 4
                  [] ft # 32 /\ k <= 4085 -> (((3 * k) + 1) \div 2) + 3, BlockLen)

\* first_data_offset, in blocks
FirstData(ft, n) == ReservedBlocks(ft) + (2 * FatBlocks(ft, n)) + RootBlocks(ft)

\* What initialize_cache takes from the boot record: clusters, and the type by their
\* number.
DataClusters(ft, n) == (n - FirstData(ft, n)) \div ClusterBlocks(ft, n)
TypeBySize(k) == IF k < 4085 THEN 12 ELSE IF k < 65525 THEN 16 ELSE 32

-----------------------------------------------------------------------------
(* format_partition *)

FormatInit ==
    /\ Init
    /\ step = "asked"
    /\ blocks \in Sizes
    /\ boot = {}
    /\ info \in {{}} \union {{k} : k \in StaleCounts}
    /\ root = "old"
    /\ free = {} /\ root_cluster = 0
    /\ failures = 0

At(s) == step = s /\ UNCHANGED <<blocks, failures>>

Refuse == /\ At("asked")
          /\ TooBig(fat_type, blocks)
          /\ step' = "refused"
          /\ UNCHANGED <<vars, disk, free, root_cluster>>

\* A slip: the information block stays as it is.
NoCleanInfo == /\ At("asked")
               /\ ~TooBig(fat_type, blocks)
               /\ step' = "cleaned"
               /\ UNCHANGED <<vars, disk, free, root_cluster>>

\* "Make sure to clean the fs info block", before anything tests the geometry
CleanInfo == /\ At("asked")
             /\ ~TooBig(fat_type, blocks)
             /\ info' = IF fat_type = 32 THEN {} ELSE info
             /\ step' = "cleaned"
             /\ UNCHANGED <<vars, boot, root, free, root_cluster>>

\* The subtraction of initialize_cache overflows, or the type is not the one that
\* was asked for.  A build without overflow checks goes on when a partition is too
\* small for FAT32, with some 2^32 clusters.
Panic == /\ At("cleaned")
         /\ \/ /\ blocks < FirstData(fat_type, blocks)
               /\ step' \in {"panicked"} \union (IF fat_type = 32 THEN {"wrapped"} ELSE {})
            \/ /\ blocks >= FirstData(fat_type, blocks)
               /\ TypeBySize(DataClusters(fat_type, blocks)) # fat_type
               /\ step' = "panicked"
         /\ UNCHANGED <<vars, disk, free, root_cluster>>

Plan == /\ At("cleaned")
        /\ blocks >= FirstData(fat_type, blocks)
        /\ TypeBySize(DataClusters(fat_type, blocks)) = fat_type
        /\ step' = "planned"
        /\ UNCHANGED <<vars, disk, free, root_cluster>>

\* The first boot record; the root directory of FAT32 has no cluster yet.
WriteBoot == /\ At("planned") /\ blocks \in Followed
             /\ boot' = {0}
             /\ step' = "tables"
             /\ UNCHANGED <<vars, info, root, free, root_cluster>>

\* FatValue::initialize, one entry at a time
ClearTables == /\ At("tables")
               /\ InitializeEntry
               /\ UNCHANGED <<step, disk, free, root_cluster>>

FreeEntries == {c \in 2..(ClusterCount - 1) : Get(fat_type, bytes[0], c) = Free}

\* FatFileSystem::init: the stored count when there is one, or else a count of the table
Counted == IF fat_type = 32 /\ info # {} THEN info ELSE {Cardinality(FreeEntries)}

Mount == /\ At("tables") /\ cleared = ClusterCount
         /\ free' = Counted
         /\ step' = IF fat_type = 32 THEN "mounted" ELSE "allocated"
         /\ UNCHANGED <<vars, disk, root_cluster>>

\* alloc_cluster(None) of create_root_directory: the entry, the count, the flush
TakeRoot == /\ At("mounted") /\ root_cluster = 0
            /\ \E c \in FreeEntries :
                  /\ \A d \in FreeEntries : c <= d
                  /\ bytes' = PutAll(fat_type, bytes, c, EndOfChain)
                  /\ stored' = [stored EXCEPT ![c] = EndOfChain]
                  /\ root_cluster' = c
            /\ free' = {k - 1 : k \in free}
            /\ UNCHANGED <<fat_type, cleared, shifted, step, disk>>

FlushInfo == /\ At("mounted") /\ root_cluster # 0
             /\ info' = free
             /\ step' = "allocated"
             /\ UNCHANGED <<vars, boot, root, free, root_cluster>>

\* A slip: the root directory is left as it is found.
SkippedClearRoot == /\ At("allocated")
                    /\ step' = "cleared"
                    /\ UNCHANGED <<vars, disk, free, root_cluster>>

\* clean_cluster_data, or the entries of a FAT12/FAT16 root directory one by one
ClearRoot == /\ At("allocated")
             /\ root' = "clear"
             /\ step' = "cleared"
             /\ UNCHANGED <<vars, boot, info, free, root_cluster>>

\* flush of the boot record; FAT32 gets its backup after it, which nothing reads
FlushBoot == /\ At("cleared")
             /\ boot' = {root_cluster}
             /\ step' = "done"
             /\ UNCHANGED <<vars, info, root, free, root_cluster>>

\* A put that has not come to its last copy.
PartOfPut == \E k \in Copy :
    \/ bytes' = bytes
    \/ /\ step = "tables" /\ cleared < ClusterCount
       /\ bytes' = PutFirst(fat_type, bytes, cleared, Free, k)
    \/ /\ step = "mounted" /\ root_cluster = 0
       /\ \E c \in FreeEntries :
             /\ \A d \in FreeEntries : c <= d
             /\ bytes' = PutFirst(fat_type, bytes, c, EndOfChain, k)

\* A write fails, or the system stops, also between two copies of an entry, and the
\* format is asked for again, or a volume is that is there.
Again == /\ step \in {"cleaned", "planned", "tables", "mounted", "allocated", "cleared", "done"}
         /\ failures < MaxFailures
         /\ failures' = failures + 1
         /\ step' = "asked"
         /\ free' = {} /\ root_cluster' = 0
         /\ cleared' = 0 /\ stored' = [c \in Entry |-> Free] /\ shifted' = {}
         /\ PartOfPut
         /\ UNCHANGED <<fat_type, blocks, disk>>

\* The volume is used: any entry may be put.
Use == /\ step \in {"done", "used"}
       /\ step' = "used"
       /\ \E c \in Touched, v \in Stored : Put(c, v)
       /\ UNCHANGED <<blocks, disk, free, root_cluster, failures>>

FormatNext == \/ Refuse \/ CleanInfo \/ Panic \/ Plan \/ WriteBoot \/ ClearTables
              \/ Mount \/ TakeRoot \/ FlushInfo \/ ClearRoot \/ FlushBoot
              \/ Again \/ Use

FormatSpec == FormatInit /\ [][FormatNext]_formatVars

-----------------------------------------------------------------------------
(* Properties *)

FormatTypeOK ==
    /\ TypeOK
    /\ step \in {"asked", "refused", "cleaned", "panicked", "wrapped", "planned", "tables",
                 "mounted", "allocated", "cleared", "done", "used"}
    /\ blocks \in Sizes
    /\ boot \subseteq {0} \union Cluster /\ Cardinality(boot) <= 1
    /\ info \subseteq Nat /\ Cardinality(info) <= 1
    /\ root \in {"old", "clear"}
    /\ free \subseteq Nat /\ Cardinality(free) <= 1
    /\ root_cluster \in {0} \union Cluster
    /\ failures \in 0..MaxFailures

\* What is planned fits: both tables have an entry for every cluster of the data
\* area, the last cluster ends within the partition, and the size of a cluster in
\* bytes is a number of 16 bits other than zero, which set_len multiplies out and
\* divides by.
LayoutFits ==
    step = "planned" =>
        LET last == DataClusters(fat_type, blocks) + 1
        IN  /\ (CASE fat_type = 12 -> last + (last \div 2) + 2
                  [] fat_type = 16 -> (2 * last) + 2
                  [] fat_type = 32 -> (4 * last) + 4) <= FatBlocks(fat_type, blocks) * BlockLen
            /\ FirstData(fat_type, blocks) + ((last - 1) * ClusterBlocks(fat_type, blocks)) <= blocks
            /\ ClusterBlocks(fat_type, blocks) * BlockLen < 65536

\* From the first boot record on, a mount finds the number of free clusters of the
\* table, however far the format went and however often it was begun: the comment on
\* the cleaning of the information block says why, "it may contains valid data".
MountCounts ==
    boot # {} /\ step # "used" => Counted = {Cardinality(FreeEntries)}

\* The root directory a boot record names is a cleared one, whose chain ends there in
\* every copy of the table, also while the volume is formatted again and when it is
\* used; the one of FAT12/FAT16 is cleared when the format returns.
RootSound ==
    /\ \A c \in boot \ {0} : /\ root = "clear"
                             /\ \A i \in Copy : Get(32, bytes[i], c) = EndOfChain
    /\ step \in {"done", "used"} => root = "clear" /\ boot = {root_cluster}
=============================================================================
