# A verification project for kfs_libfs

This directory holds TLA+ models of `libfat`, the FAT12/FAT16/FAT32 driver of this
repository, the TLC configurations that check them on small volumes, and theorems about
them with proofs that TLAPS checks for volumes of every size.

    tlc -workers 2 -config alloc_serial.cfg MCClusterAlloc     # model-check one run
    tlapm ClusterAlloc_proofs.tla                              # check the proofs

`PROJECT.json` lists the runs, what source lines every definition stands for ("map"), one
plausible slip per property that the run must notice ("mutants", the definitions under
"A slip:" in the modules), the hazards of the code, and the findings.

## 1. The system

`libfat` keeps a volume: boot record, FS information block (FAT32), copies of the file
allocation table, root directory (FAT12/FAT16), and the data clusters that hold files and
directories. Every method takes `&FatFileSystem`; the device is behind a mutex that is
held for one read or one write, hint and free count are atomics. So a call is a long
sequence of small accesses, any of which may fail, between any two of which the system
may stop or another thread may run. There is no journal, no cache and no background task.

| component | state it keeps | operations | correct when |
|---|---|---|---|
| cluster allocator and FS information block (`filesystem.rs`) | `last_cluster` (hint) and `free_cluster` (count), atomics, mirrored in an on-disk block | `alloc_cluster`, `free_cluster`, `flush`, `from_fs`, `init` | no cluster is handed out twice, no used one is freed; the count is the number of free entries; "no space" only when there is none |
| file allocation table (`table.rs`, `cluster.rs`) | entries of 12, 16 or 32 bits, in `fats_count` copies | `get`, `put`, `initialize`, walks to the last cluster, counting | what was put is read back, neighbours are untouched, copies read alike, chains are disjoint and end |
| file data access (`directory/mod.rs`, `offset_iter.rs`) | bytes of a file in its chain | `File::read`, `File::write` | byte *n* of the file is always the same byte of the device; accesses are complete |
| file size and life cycle (`directory/mod.rs`) | directory entry, its copy in an open handle, the chain | `create_file`, `open_file`, `set_len`, `unlink` | files share no cluster, a chain is long enough for the size, nothing is lost, handles agree with the disk |
| directory entries (`directory/mod.rs`, `raw_dir_entry_iterator.rs`, `dir_entry_iterator.rs`) | a name as several entries of 32 bytes, in order, with holes | create, find, list, delete, rename | a listing is exactly what was created and not deleted, at every step |
| directory tree | entries of directories, `.` and `..` | `create_directory`, `delete_directory`, rename across directories, path walks | a tree: one parent each, no cycles, `..` leads to the parent |
| short and long names (`name.rs`, `utils.rs`) | none | conversions, checksum | |
| mount and format (`lib.rs`, `filesystem.rs`) | boot record | `get_raw_partition`, `get_partition`, `format_*` | the planned regions fit; whatever a format leaves when it stops can be mounted with a true count and be formatted again |
| attributes, timestamps | none | bit tests, dates | |
| libfs traits | none (declarations) | | their comments are promises |
| libfs_fat adapter | open mode, directory reader with an iterator and a count | maps libfs calls and errors to libfat | modes are enforced, a reader returns what is there, once, and as many entries as it counted |
| demonstration program | none | formats a device and copies a file | |

How they interact: the adapter calls directories and files; directories call the
allocator for clusters of new directories and for their own growth, files do so in
`set_len` (which `File::write` calls to grow); the allocator calls the table; all of them
read and write the device. The shared state is the device, the hint and the count, and
the copy of a directory entry that each open file carries (`DirectoryEntry`,
`directory/mod.rs:119`).

What is hard here: calls of several threads interleave between single accesses; an access
fails, or the system stops, between two writes that belong together (mark and link, cut
and free, copy and copy of the table, cluster and entry, entry and entry of a long name,
new name and old name); values read before other accesses are used after them (the hint,
the count, the entry in a handle, the iterator of a directory); offsets meet block,
cluster and table boundaries; the volume fills up in the middle of a call. The list, line
by line, is `PROJECT.json` "hazards".

## 2. The modules

    FatTable            the table as a function, well-formedness of chains
      ClusterPool       abstract specification: which writes to the table are legal
      ClusterAlloc      the allocator, one device access or atomic per step;  implements ClusterPool
      FatFile           files, entries and handles over any allocator;        implements ClusterPool
      FileAccess        bytes of a file: one read or write, block by block
      FatEntry          bytes of the table: FAT12, FAT16, FAT32
        Format          geometry and writes of a format, over the table of FatEntry
      DirSlots          one directory, entry by entry
        DirReader       a reader of libfs_fat over the directory of DirSlots
      FatTree           directories and files at any depth over any allocator
    MC*                 instances for TLC (model values, symmetry, constraints)
    *_proofs            theorems

**FatTable** takes a table for a function from data clusters `2..ClusterCount-1` to
`FatValue` (a cluster, free, end of chain, bad) and states `WellFormed(F, H)`: entries
only continue at entries in use, no two continue at the same one, and the start clusters
`H` are in use and nothing continues at them. Together: the chains from `H` are disjoint
lists. `Chain(F, c)` is what `FatClusterIter` comes to from `c`, as the least set that holds
`c` and is closed under the links. (`ClusterCount` is the `cluster_count` of the boot record *after*
`initialize_cache` has added the two reserved entries, so it is one past the last cluster.)

**ClusterPool** is what the allocator promises the rest of the driver: `Take` a free
cluster, `Append` a detached one to the end of a chain, `Cut`, `Release` a detached one,
`Register` a detached one as a start, `Drop` a start.

**ClusterAlloc** has one action per access: `WalkOn`/`WalkEnd*` are
`get_last_and_previous_cluster`, `LoadHint` .. `SubFree` are `alloc_cluster` in the order
of the code (the debug assertions are steps that lead to "panic"; `RawPut` is one round
of the loop over the copies in `put`), `UnlinkPrevious` .. `AddFree` are `free_cluster`,
`Flush*` are `FatFileSystemInfo::flush` with its two loads and one write, `IoError` is a
failed device access at any point that makes one, `CrashAndMount` loses memory and mounts
with `from_fs` and `init`. `Locking` is what callers exclude: nothing ("none", which is
all that the code itself enforces), other allocations, or whole calls. `heads` are the
start clusters of files and directories. A shortening `set_len` gives up a file's last
cluster before it writes the entry (`Emptying`), so a stop in between leaves an entry that
names a cluster the file no longer has: `stale` are these clusters, `CallStale` is a call
that goes by such an entry, and `torn` remembers that there was one.

**FatEntry** keeps every copy of the table as bytes: the encodings, the offset of an entry
in its copy, `raw_put`'s two cases for FAT12 (as written, `table.rs:236-256`) and `put` and
`initialize`. `OldTables` is what the place of a copy may hold before, each copy for itself;
a volume is of a type its number of clusters allows (`MayBe`).

**FileAccess** follows one `read` or `write` block by block: `check_range`, growth by
`set_len` where `write` asks for it, `ClusterOffsetIter` with its counters, the address
computed for every chunk, and `buf_limit`. Bytes are traced by address, so that the
property compares addresses and not contents. An access to the data that fails ends the
call with an error; an entry of the table that cannot be read is the end of the chain
(`Unread`: the `.ok()` of `table.rs:40` and `:56`), after which the call returns well, and
`lost` remembers it.

**FatFile** takes the allocation of a cluster for one step (any free one), and the writes
of `set_len`, `unlink` and `create_file` for one step each: growing from nothing and from
a chain, shortening cluster by cluster with the unlink before the release, the store of
the entry after the chain, the update of the handle after the store.

**DirSlots** is a directory as an array of entries: the root directory of FAT12/FAT16
with the clusters behind it, or a chain of clusters of one or two blocks. The model has
`allocate_entries` with the growth by a linked and then cleared cluster, `create_dir_entry`
writing one entry per step, `find_entry` and the iterator that collects the parts of a
name, `delete_dir_entry`, and `rename` in place or by copy and delete. Iterators lead
where the code's lead: past the end of a FAT12/FAT16 root directory by one block, and
into another cluster when they begin in a later block. History variables say what each
file was named last (`names`), which files a stopped call has left in doubt (`suspect`),
whether a call has begun at a place too small or otherwise unsuitable (`misplaced`), and
whether an iterator of a call has ended before its directory (`unread`). Reads of the table
that fail are not reported and end the chain here too: the search for a hole does not see
one in a later cluster (`Unseen`), and the cluster that is linked then stands behind it, which
is misplaced when that hole is a free entry; the test for an existing name
does not find it (`Overlooked`); an iterator in use is at its end, where a name makes
`unwrap` panic and a deletion stops (`LinkUnread`). Each costs a fault.

**DirReader** adds to DirSlots a reader of `libfs_fat`: `open_directory`, which counts the
entries and makes an iterator, and `read`, one entry of the directory per step, with the
look-ahead of `FatClusterIter` (the number of the next cluster is known, and its table
entry read, when a cluster begins). The reader shares nothing with the caller that works
in the directory but the device. `Take` is an entry that is there, `FreeEnd` and
`ChainEnd` are the ends, `ReadOn` is a caller that asks again after an end, `EntryFails`
and `LinkFails` are reads that fail and are not reported (`libfs_fat/src/lib.rs:95`,
`table.rs:43`, `table.rs:58`).

**FatTree** has whole names as entries, one place each, and steps as large as one effect
on the tree: `Alloc`, `Clean`, `Enter` (the name, `.` and `..`), `Grow`/`Clear`, `Take` and
`Store` (`set_len` after `create_file`, by path), `Rewrite` (rename in place), `Third` (what
rename does to the third entry), `Erase`, `Release`. A call carries the list of its steps;
`RolledBack` says what `create_directory` undoes. A caller names any directory that paths
lead to (`Below(Root)`), and two callers never work in one directory at the same time
(`MayUse`). History variables: `home` is where the last completed call has put an object,
`moved`, `cut`, `twice` and `leaky` say what renames and stopped calls have left behind,
`damage` what no property can survive (see "Constraints"). The tests that a failed read
of the table cuts short are there: a directory that seems empty (`SeemsEmpty`), a hole that is
not seen (`NoHoleSeen`). `Fails` is how a call ends with an error: with the roll-back, which
behind the first block of a FAT12/FAT16 root directory takes the place of the new name for
one of another cluster (`Misdirected`), deletes what stands there and frees the cluster that
the name still leads to.

**Format** is `format_partition`: the geometry as operators over the size of a partition,
and one step per write, from the cleaning of the information block, which comes before any
test of the geometry, over the first boot record, the tables (FatEntry's `InitializeEntry`),
`init`, the root directory's cluster, its count on the disk and its clearing to the final
boot record. `Again` is a format that is asked for once more after a failure, a stop, also
between two copies of an entry (`PartOfPut`), or its end. For the sizes in `Followed` the
writes are followed, with a table of `ClusterCount` entries in place of the one that was
planned; the others end with their plan. `boot`, `info` and `free` are sets of at most one
number, empty when there is no valid one.

## 3. The runs

| run | volume and bounds | states | what it shows |
|---|---|---|---|
| `alloc_serial` | FAT32, 4 data clusters (root, one bad), 2 copies, words of 9 values, 1 caller, 1 failing access, 1 crash | 1.0 million | chains disjoint at every access, assertions never fire, the pool is implemented and every call returns, until a call goes by a stale entry; count, hint, information block and copies exact while nothing failed; "no space" only on a full volume while nothing failed |
| `alloc_locked` | FAT32, 3 data clusters, 2 copies, 2 threads that exclude each other's allocations only | 175 thousand | releases and walks may interleave with an allocation at every access: chains stay disjoint, assertions hold, the count is exact in the end, the pool is implemented |
| `alloc_race` | as before, nothing excluded | violation | two threads find the same free cluster: `debug_assert!` (`filesystem.rs:433`) fires |
| `fat12_neighbour` | a table of 40 entries, 2 copies, 3 neighbouring entries written with 5 values, devices filled with 4 patterns | violation | a put on an even FAT12 entry changes the odd entry behind it (`table.rs:246`) |
| `file_access` | 2 blocks of 2 bytes per cluster, every chain of up to 3 clusters in any order, every offset and length | 296 thousand | accesses that begin in the first block of a cluster reached through neighbouring clusters move every byte to and from its place, and all of them, or whole clusters of them when an entry of the table could not be read; which reads run past their buffer |
| `file_offset` | the same | violation | a write to the second block of a cluster goes to the first (`directory/mod.rs:752`) |
| `file_ops` | 3 data clusters of 2 bytes, sizes to 5, 2 callers, 2 files, one failure or crash | 557 thousand | files stay disjoint and covered until a *shortening* call is stopped; nothing is lost while nothing failed; handles agree with the disk also after failures; the pool is implemented until then |
| `dir_hole` | blocks of 4 entries, old root of 2 blocks, 2 data clusters of one block, 3 files, names of one, one and two parts, no failure | violation | a name of two parts is written over the name behind a hole of one part (`directory/mod.rs:206`) |
| `dir_reader` | as `dir_hole`, clusters of one and of two blocks, one failure, crash or unread table entry; with a reader: clusters of one block, at most 3 calls of the other caller, all clusters but the directory's own free, failing reads of the reader only | 656 thousand | while calls begin at suitable places: listings are exact for every settled file at every write, rename never loses a file, and no `unwrap` fails but where a table entry was not read; a reader returns each file that nobody works on once and under its name, also after an end and after a failed read of an entry, and as many entries as were counted |
| `format` | 3 types, 624 sizes around the limits of the geometry, 40 table entries, 2 copies, 4 fill patterns, one for each copy, 3 old information blocks, one failure; then 5 values put on 3 neighbouring entries | 448 thousand | what is planned fits; a mount after any write of a format counts the free clusters; the root directory that a boot record names is clear and ends its chain in every copy; every entry reads back, but for an odd FAT12 entry put before its even neighbour, which loses its low four bits at most; all copies read alike |
| `tree_ops` | 4 data clusters, directories of 3 entries per cluster, old root of 5, 2 callers, 3 objects under 2 names, 4 calls, one failure or crash | 202 thousand | no two names share a cluster; what was named is found under its last name, from the root, once; between calls no cluster is in use without a name unless a call was stopped where it cannot clean up; `..` leads up from directories that were not moved |
| `tree_move` | the same, one caller, no failure | violation | a directory that is renamed into another directory keeps its old `..` (`directory/mod.rs:561`) |

**Properties that come in two strengths.** Where the code does not keep what a comment
promises, a run shows the violation of the promise, and another property states how much
does hold. `EntriesIndependentOrShifted` and `ShiftedKeepsUpperBits` are what is left of
`EntriesIndependent`; `SoundAccessExact` of `EveryAccessExact`; `DotDotLeadsUp` of
`RenameKeepsDotDot`; `ListingExact`, `FilesListed`, `UnwrapSafe`, `ReaderExact` and
`CountAgrees` (all under `~misplaced`, `UnwrapSafe` under `~unread` besides) of
`NamesFound`; `FilesDisjoint` and `SizesCovered` of FatFile, and `ChainsWellFormed`,
`NoPanic`, `PoolUntilTorn` and `CallsReturn` of ClusterAlloc, hold until something is
`torn`. In FatFile that is the stopped shortening itself; ClusterAlloc looks at single
clusters and can say more: nothing is wrong with the table before a call goes by the entry
that was left. Then it may be: extending a chain from a cluster that is free finds that very
cluster, links it to itself, and the next walk never ends.

**Bounds.** The interesting cases of the allocator are a hint before, at and behind the
free cluster, none, the last one, a full volume, a bad cluster in the way and a chain of
two or three: four data clusters have them all. `MaxFaults` and `MaxCrashes` bound how
often something goes wrong; one suffices to stop a call at each of its points, and what
comes after it is checked from every state it can leave. `WordSize` stands for 2^32:
the count wraps as the atomic does, and it is small enough for wrapping to be reached if
the count drifts. `FatEntry` and `Format` write an even, an odd and an even entry, so both
sides of a shared byte occur, and stored clusters 5 and 37 differ in each half byte. The
sizes of `format` are those where the size of a cluster, the type, the encoding or the
answer changes, in ranges wider than the overhead of a volume (the table of a size is
larger than the change of one size by one); sizes from 2^31 blocks are beyond TLC, and
`LayoutAlwaysFits` is about all sizes below. `FileAccess`
has two blocks per cluster and offsets beyond the longest file. `file_ops` has sizes
that need one to three clusters on a volume with three, so that two files exhaust it; an
instance with four data clusters (5.5 million states) and one without the constraint
(8.6 million) were run once with the same outcome. `dir_reader` has room for a name that
crosses a block, a cluster and the end of the root directory, and forces growth;
`MaxCalls` there bounds the calls of a behaviour with a reader only (and its clusters have
one block, to stay within the time of a run): three calls can put a
name before, at and behind the reader. In `tree_ops` (`MaxCalls` four) two directories and
a file below them, or a directory that grows into a second cluster (`.`, `..` and two
children in clusters of three), fill the volume. A directory whose children are in its second
cluster, and which a failed read lets seem empty, takes five calls: that instance (1.2 million
states) was run once with the same outcome.

**Constraints.** `Untorn`, `Placed` and `Undamaged` cut the exploration where a shortened
file was torn, a call that began at an unsuitable place has ended, or a call that did
damage has ended. Damage is: a name was created twice because the directory could not be
read, one of the two names of a stopped rename was used, a directory without dots was
deleted or moved, a directory was moved below itself (by one caller, or by two who each
move a directory below the other's: `Looped` looks when the new name is written), a crash
left a linked cluster that is not cleared, a directory was deleted that only seemed empty,
a name was made behind a hole that was not seen, a roll-back deleted an entry of another
cluster. Every property but the types
is conditional on the opposite, so nothing is hidden that a property speaks of; the
condition is part of the property and can be read there. `Roomy` bounds where a reader is: a
directory with clusters of one block and all clusters but its own free.

**Deadlock** is checked except in `dir_reader` and `dir_hole`, where a program stops when
`unwrap` panics, in `tree_ops` and `tree_move`, which end with `MaxCalls`, and in `format`,
which ends when it is refused, panics or has planned a size that is not followed. In
`FileAccess`, `Ended` is the end of the one access.

**Fairness.** `FairSpec` of ClusterAlloc assumes weak fairness of `Step(t)`: a thread
inside a call runs on. The code has no waiting of its own besides the device mutex, which
is held for one access, and its loops are left only through their ends, so this is the
scheduling of any thread. Calls are not assumed to be made, and failing accesses and
crashes are not assumed to happen. `CallsReturn` is checked for one caller. With two
threads and only allocations excluded it is not claimed: weak fairness does not grant
a thread the lock, and a chain that another thread keeps extending can be walked forever.

## 4. The proofs

TLC checks the volumes above; the following holds for every `ClusterCount` and the other
constants, from the assumptions each module states about them.

| module | theorems | for every |
|---|---|---|
| `ClusterAlloc_proofs` | `Typed`, `AlwaysWellFormed`, `NeverPanics`, `CountStaysExact`, `InfoStaysCurrent`, `MirrorsStayEqual`, `NoSpaceStaysRight`, `ImplementsPool` | set of threads, bad clusters, copies, word size, faults, crashes |
| `ClusterPool_proofs` | `PoolWellFormed` | implementation of the pool |
| `FatFile_proofs` | `TypesStay`, `HandlesStayCurrent`, `FilesStayDisjoint`, `SizesStayCovered`, `NothingStaysLost`, `FilesImplementPool` | set of callers and places, size of clusters, faults |
| `FileAccess_proofs` | `AccessTypesStay`, `SoundStaysExact`, `SoundStaysComplete`, `OddBuffersOnlyPanic` | size of block and cluster, chain, offset, buffer |
| `Format_proofs`, about FatEntry | `EntriesStayIndependent` | type, number of copies, old content, written entries and values |
| `Format_proofs` | `LayoutAlwaysFits`, `FormatTypesStay`, `MountsCount`, `RootStaysSound`, `VolumeEntriesIndependent`, `VolumeShiftedKeep`, `VolumeCopiesAgree` | the same, sizes of partitions, old information blocks, failures |
| `FatTree_proofs` | `TreeInvHolds`, `OneOwnerHolds`, `NothingLostHolds`, `NothingLeakedHolds`, `DotDotLeadsUpHolds`, `TypeHolds` | set of threads and names, finite set of objects, places of a cluster and of an old root directory, calls, failures and crashes |
| `DirReader_proofs`, about DirSlots | `DirInvHolds`, `ListingExactHolds`, `FilesListedHolds`, `UnwrapSafeHolds` | size of blocks, clusters and of an old root directory, set of names, files, failures |
| `DirReader_proofs` | `ReaderTypeHolds`, `ReaderExactHolds` | the same, filters, calls beside a reader |

`AlwaysWellFormed`, `NeverPanics`, `CountStaysExact` and `ImplementsPool` assume
`Excluded == Locking # "none"`: callers exclude each other's calls, or only each other's
allocations, while walks and releases interleave with them and with one another at every
access. Without it they are false (`alloc_race`). `InfoStaysCurrent`, `MirrorsStayEqual` and
`NoSpaceStaysRight` assume `Serial == Locking = "calls"`, as with calls that interleave a
block is flushed with what was read before another call's change, two copies of an entry are
written in different orders, and a search fails to see what is freed behind it. All others
are about their specification as it stands.

**The table.** `FatTable_proofs` has one lemma per kind of write: `TakeKeeps`, `AppendKeeps`,
`CutKeeps`, `ReleaseKeeps`, and for the start clusters `RegisterKeeps`, `DropKeeps`. Each says
that `WellFormed` survives the write under the guard that ClusterPool gives it. The lemmas
on `Chain` say how a chain changes with a link: what is appended joins it, what is cut off
leaves it, and all others stay.

**The allocator.** `ChainsWellFormed` is not inductive: it says nothing of the cluster a call
has in hand. The inductive invariant is

    SafeInv == TypeInv /\ (torn \/ IInv)
    IInv    == /\ TypeOK /\ Formed
               /\ Serial => OneCall
               /\ OneAllocation /\ OwnChains /\ HeldApart
               /\ \A t \in Thread : CallOK(t) /\ HeldOK(t)

A call by a stale entry works on a cluster nothing is known of, so `IInv` ends there and
only the types stay (`TypeInv`, which holds whatever callers exclude). A stale entry itself
disturbs nothing: `heads` is what the files have. `Formed` is what `ChainsWellFormed` says
until then. `OneCall` and `OneAllocation` are the exclusion itself, `OwnChains` that only
extending calls share a chain. `Held(t)` is the cluster that a thread has taken and not yet
linked or handed out, or has cut off and not yet freed: nothing refers to it (`HeldOK`), and
no two threads hold the same (`HeldApart`). `CallOK(t)` is what thread `t` knows at each of
its points and no other may disturb: on a walk (`WalkOK`), that `prev` is the entry before
`number`; up to the first write of an extension (`ExtendOK`), that `prev` still ends a
chain; while it takes a cluster (`TakeOK`), that the cluster is free and then in use, in the
first copy of the table, whatever the other copies hold; while it releases (`FreeOK`), that
what it read of the cluster still holds. So each step has two parts: it keeps what its own
thread knows, and it does not take that of another (`Spared`): it changes no link inside the
chain of another call, nor the end of one that an allocation is to append to, makes nothing
refer to a cluster that another holds, and leaves an allocation the free clusters it may
have found. `Combine` puts both together. Every action has a lemma `...Keeps`; actions that
leave the table alone share `QuietStep`, the four that write it use the lemma of
FatTable_proofs that fits, through `PutFirst`, which splits a `RawPut` into the write to the
first copy and the others, which nobody reads. That a walk or an allocation of one thread
survives a write by another is `ChainSurvives`: a chain of which no link changes loses none
of its clusters, whatever is appended to it. `CrashKeeps` needs only that memory is rebuilt
within its types (`FreeCountTyped`).

**Its books.** Count, information block and copies are exact between calls only; along a
call each is off by what the call has done and not yet noted. `CountOK` says by how much the
count is, with any number of calls under way:

    free_cluster + Cardinality(FreedBy) = FreeNow + TakenCount

where `FreedBy` are the threads between the put of a freed cluster and the addition, of which
there may be many, and `TakenCount` is 1 between the put of a taken cluster and the
subtraction. It also says that an allocation past the test of the count leaves it above zero,
so the count wraps around neither end. `Books`, for calls that exclude each other, adds
`PutOK`, which copies of the entry being put are written; `InfoOK`, which of hint and count
the block still lacks; `MirrorOK`, that the copies agree on all other entries; `ScanOK`, that
the clusters from the hint the search began with to where it stands are in use, so that
`NoSpaceLeft` after a whole round means that none is free (`NoSpaceLeftMeansFull`). `PutOK`
and `ScanOK` hold throughout, the others as long as nothing has failed, as the properties
do (`Calm`: without a failure there is no stale entry). `ImplementsPool` needs no such
condition: each action is a step of ClusterPool, or leaves its variables alone, until something
is torn.

**Files.** The inductive invariant of FatFile is

    FileInv == HandlesOK /\ (torn => failed) /\ (~torn => ChainsOK) /\ (~failed => Exact)

`ChainsOK` counts as roots all that may stand for a chain: the entries on the disk and the
first clusters that calls hold, each root answered for by exactly one of them. It says that
the table is well formed for the roots, and for a call that grows a file, shortens one,
makes or deletes one, which clusters of its chain it has reached and how many are to come.
`Exact` adds that there are no clusters in use but those of the roots' chains, and that each
chain is as long as its entry's size and its call say. A file is covered (`SizesCovered`)
even when a growing call fails, because the entry is stored after the chain; this is what a
shortening call that is stopped loses, and where `torn` comes from.

**Bytes of a file.** In a sound access, while there is more to move, whole blocks have been
moved and the iterator stands where they end: it has begun `q` clusters of the chain, from
the one of the offset, and returned `r` blocks of the last (`IterAt`, `Returned`). With that
the address of a chunk and the place of its bytes have the same quotient and remainder
(`ChunkExact`), and the iterator does not run out before the file does (`MoreHasBlock`), unless
an entry of the table was not read: then it runs out at the end of a cluster.
Whole blocks moved is also why a read panics on odd buffers only.

**Bytes of the table.** `PutIsRead`: `get` returns what `raw_put` has put.
`PutLeavesOthers`: any other entry reads as before, but for the odd FAT12 entry behind an
even one, of which the upper byte stays. Both are arithmetic on the bytes of a number
(`BytesOfNumber`, `TwelveBits`), and need that the type has a value for every cluster
(`MayBe`), which is what `DecodeUndoesEncode` fails without. `TableInv` says of every copy
that the entries that are cleared read as stored, and of odd FAT12 entries, shifted or not,
that their upper byte is the stored one's. That the copies read alike (`CopiesAgree`) is
part of it: their bytes differ where the type leaves bits alone or where nothing was
cleared, and whether `raw_put` writes is decided for each copy by what it holds, so a put
has to be followed on two copies at once.

**Formats.** `LayoutInv`, that a planned size has passed the tests of `initialize_cache` and of
the assertion after it (`Planned`), is inductive; the rest is arithmetic: clusters have one
of six sizes (`ClusterBlocksRange`), the data area has no more of them than the partition
(`DataClustersBound`), and the tables are planned for those of the partition
(`FatBlocksEnough`). For the volume, `VolumeInv == TableInv /\ FieldsOK /\ StepInv`: what is on
the disk and in memory at each step. `RootSound` and `MountCounts` are about the disk a
format that stops leaves behind, so `StepInv` has to say what a format may rely on when it
comes upon the remains of another: a boot record that names cluster 2 stands over a table
in which that cluster ends a chain, until it is replaced before anything is cleared; and
between the cleaning of the information block and the flush of the root directory's count
there is no valid one. `2 \notin Touched` in `FormatAssumption` is what the rest of the driver
sees to: nobody frees or extends the root directory's first cluster (`OneOwner` of FatTree,
`FilesDisjoint` of FatFile).

**The tree.** The properties of FatTree speak of what paths from the root lead to
(`Directories`, an iteration over the levels of the tree), and no step can be shown to keep
that by itself: a rename of a directory takes all that is below it elsewhere, and a second
caller may rename something above at the same time. The inductive invariant therefore does
not mention paths. `TreeInv == damage = {} => TreeBody` speaks of all names on the volume
(`Standing`) and of the directories they name (`LiveDirs`), wherever they are:

* `WellFormed(link, Roots)`, where the roots are the start clusters of all names and those
  that calls hold while no name stands for them (`Holding`: a directory that is made and
  not yet named, a file's cluster that is not yet stored, what is being freed), and no name
  leads to what is held (`HeldLoose`).
* `StandingOK`: each name stands in a directory that has a name; `Ranked`: directories have
  a rank that grows from each to those in it. So each is reached from the root: of those
  that are not, one of least rank would stand in a directory that is (`AllReached`, with
  `BelowReaches`, that as many levels as there are objects suffice). These are the only
  places where paths are followed, in arguments about one state. That a rename keeps a rank
  is why it must not move a directory below itself: the rank of the directory and all below
  it is raised past that of its new parent.
* `OwnersOK`, `HomeOK`, `NamesOK`, `CutOK`, `CleanOK`, `DotsOK`, `NoLeak`: what the properties
  say, of all names instead of those that are reached, and at every step of a call: two
  names of an object are those of a rename that has written the second (`Written`) or of one
  that was stopped (`twice`).
* `CallInv(t)`: what each call knows (its plan and how far it is, its places, that what it
  makes or deletes is empty, which cluster is not cleared), and `CallsApart`, which callers
  see to. As for the allocator, a step keeps what its own call knows and spares the others
  (`Spared`).

What a failed read lets a call do to the tree is damage, and where `TreeBody` ends: so `BeginDelete`
may assume that the directory is empty, `Grow` that the directory is full, and a call that fails
that it is rolled back (`FailsIs`, `GrowIs`).

Each action has a lemma `...Keeps`. Most change no name, or only what is in one place, and
share the lemmas on steps of that kind (`NamesStayKeeps`, `OwnersStay`, `DotsStay`,
`NearSteps`, `EnterKeeps`); that of `Third` shows that a name is cut only where a rename
looks for `..`, which is what `NothingLost` says of such a name. TLC checked `TreeInv` on
the instance of `tree_ops` first.

Trying to prove them has corrected the model twice. Two callers may each move a directory
below the other's, each by a move that is sound when it begins, so that looking when a
rename begins, as the model did, is not enough to say when a tree stops to be one (`Looped`
looks when the name is written; an instance with more directories than that of `tree_ops` is
needed to see the difference). And `NothingLost` asked for exactly one place that an object
is kept in, which an object with two names after a stopped rename may fail harmlessly.
`TypeHolds` speaks of volumes without damage: what a loop of directories makes the calls do
is bounded by nothing. The theorems need that `Object` is finite (the levels of the tree are
counted by it) and that "none" is no object.

**Directories.** The properties of DirSlots speak of `Listing`, what a scan of the directory in
the order of its places computes. The proof takes this in two parts. The first says once
what a scan returns, whatever the directory holds (`ListingIs`): the names found stand in
different positions before the first free entry, none of those is left out, each consists of
the parts that stand directly before its short entry (`FoundAt`), and it has the name whose
entries stand there if nothing before them looks like one part more (`CleanAt`). The lemmas
on the way through the directory come before it: the chain from the start cluster has
no cluster twice (`ChainFromIs`), so no place is read twice (`WalkIs`), and an iterator that
begins where an iterator may begin returns the rest of the way (`IterIs`). Both `ClusterWalk` and
`ChainFrom` are functions of an index for that reason, not sequences put together recursively.

The second part is the inductive invariant, which does not mention `Listing`:

    DirInv == VolumeOK /\ TypeOK /\ FreshOK /\ CallOK /\ (~misplaced => PlacedOK)

`PlacedOK` speaks of `View`, what the positions of the directory hold. `Settled` says that a
file no stopped call is about stands in one position under its name (`KeptAs`) or, without a
name, in none; `Visible` that no file stands behind a free entry; `Somewhere` that no named
file is missing; `Loose` and `OldPlaces` where remains of another owner may stand. For a
call that goes on, `Writing`, `Clearing`, `Deleting` and `Rewriting` say what of its
positions is done and what is to come, and `Source` that the name a copy is made of is still
there, apart from the positions the copy takes. A write changes one position, and leaves a
file its name unless the position belongs to that name (`KeptSurvives`, with `Outside`); so
each step comes down to which positions names end in. When a cluster is linked or freed
again, positions are added or taken behind all others (`Grown`, `Shrunk`). `UnwrapSafeHolds`
follows because a call under way always has as many positions before it as it has entries to
write (`Comes`), so that `NoNextEntry` does not happen and only `LinkUnread` makes `unwrap`
panic. A call that a failed read has cut short leaves what a call that stopped there leaves
(`Stopped`); that a name is not created behind a free entry because its hole was not seen is
what `misplaced` says of `TakeCluster`, and of a hole left by a deleted name the listing
does not depend.

Proving it has corrected the model: the end of a scan and the kind of an entry were cases of
one `CASE` in `ScanEntry`, of which TLC takes the first that fits and TLA+ any; the type
invariant left out that a call that began at an unsuitable place may write the short entry
of a file it did not find; and the theorems need that the remains of another owner are no
`.` or `..` (`Old # Dot`).

**The reader.** `ReaderExact` says what a reader has returned when it meets an end, so its invariant
says what it has returned while it is under way: `ReaderInv` puts it at a position of the
directory, with the ends of the clusters it knows of (`Cursor`), and says of each file
nobody has worked on since it was opened that it was returned once if it stands before that
position (`Passing`), and if it stands behind was not returned, that the parts read so far are
those of its name (`Ahead`, `RunFor`), and that the chain as the reader knows it reaches so far
(`Nears`). The last is what goes wrong when an entry of the table cannot be read, and why
`ReaderExact` makes an exception there. For the reader's own steps `CursorPasses` and `RunGoesOn`
carry this over one entry. The steps of the other caller leave the reader alone; what
has to be shown of them is that they only add positions at the end (`Longer`) and write
no entry of a file that they are not about (`Spares`): the position of a file is the same
before and after by `Settled` of `DirInv`, so what the reader has passed stays passed. TLC
checked a somewhat stronger `ReaderInv` on the instance of `dir_reader` first.

The inductive invariants of the allocator, of its books, of the files, of the table, of the
directory, of its reader and of the tree were checked by TLC on the instances above before
they were proved.

**Only model-checked:** `CountAgrees` of DirReader. `ReaderInv` says of each file of its own
whether it was returned; a proof that as many were returned as were counted has to say of
the whole of what was returned that it is what the scan finds before the reader's position.
**Out of reach of the prover:** `CallsReturn` (liveness under fairness).

## 5. Findings

Five runs contradict a comment or assertion of the repository: `alloc_race`,
`fat12_neighbour`, `file_offset`, `dir_hole`, `tree_move` (quoted in `PROJECT.json`).
Besides, seen while modelling and visible in the models, without a comment that promises
otherwise:

* A crash inside `free_cluster` leaves the old count on the disk; a volume that was full
  mounts with count 0, and `NoSpaceLeft` is returned although clusters are free
  (`NoSpaceLeftMeansFull` of ClusterAlloc fails with one crash).
* With two threads, even when allocations exclude each other, the second copy of a table
  may keep an entry of an earlier owner, and the information block may store an older
  count over a newer one (`MirrorsAgree`, `InfoCurrent` fail there).
* `set_len` on an empty file that runs out of space or fails half way leaves the clusters
  it has allocated to nobody (`NothingLost` therefore speaks of undisturbed runs only).
* A shortening `set_len` that is stopped leaves an entry whose size, or whose start
  cluster, belongs to freed clusters; another file can get them (`torn`). Growing the
  chain of such an entry may link a free cluster to itself, and the next walk to its end
  never returns.
* An entry of the table that cannot be read ends a chain without an error (`table.rs:40`,
  `table.rs:56`). A write then returns `Ok` after part of the buffer, a directory that is
  not full gets a cluster behind its free entries, in which the new name is never found,
  `next().unwrap()` panics in a name that crosses into the next cluster, and a directory
  whose children are in its second cluster is deleted as empty: the children are lost and
  their clusters stay in use.
* The comment in `free_cluster` says the hint is invalidated when the freed cluster is
  the hint; the `compare_and_swap` instead sets the hint when there is none. No harm is
  done: the search is right from any hint.
* A read whose buffer is longer than a block, not a multiple of it and shorter than the
  rest of the file panics on the range of its last slice.
* `FatDirEntryIterator::new` passes a byte offset where a block index is expected, so an
  entry in a later block of its cluster is deleted or renamed in another cluster.

* A directory whose `.` or `..` cannot be made stays, without them, when its name stands in
  a FAT12/FAT16 root directory: `create_dir_entry` takes the entry for one outside it
  (`directory/mod.rs:263` looks at the cluster of the child) and the deletion fails. When
  its name stands behind the first block of that root, the deletion may succeed: it marks an
  entry of another cluster, and the cluster that the name leads to is freed. Deleting such a
  directory may lose children: up to two entries count as empty.
* `..` names the cluster that holds the name, not the first one of the parent, so a path
  through `..` of a directory named in a later cluster of its parent misses entries.
* A directory that cannot be read counts as one without the name: `create_*` and `rename`
  then make a second entry of one name (`filesystem.rs:253`, `266`, `319`). Nothing keeps a
  directory from being moved below itself, or from losing its `.` and `..` by name.
* `read` of a directory goes on behind the free entry at its end when it is called again;
  a failed read of an entry is taken for an unwanted entry, and repeated for ever if it
  keeps failing; a failed read of the table ends the directory without an error. Behind the
  last block of a FAT12/FAT16 root directory the first block of cluster 2 is read.
* `format_partition` cleans the information block before it tests whether the partition is
  large enough, and then panics instead of returning `InvalidPartition`: by the
  subtraction in `initialize_cache`, or by the assertion on the type (FAT16 below 16407
  blocks, FAT32 below 66599, FAT12 from 261497 to 261503). Without overflow checks a FAT32
  format of a partition smaller than its reserved blocks and tables goes on with some 2^32
  clusters.
  FAT12 volumes of 35 to 38 blocks are made without a cluster.
* A format that stops leaves a boot record that mounts: with the old root directory over
  cleared tables (FAT12/FAT16), or with root cluster 0 (FAT32).
* `get_partition` reads the partition table at byte `index` of the device, not at its start.

## 6. Abstractions, and what is not modelled

* Names are sequences of parts of a long name; characters, case, checksums and short names
  (never compared by the code) are left out, and so are timestamps and attributes other
  than those that tell an entry's kind. Volume labels in a directory are left out.
* In DirSlots the two writes that link a cluster are one step, and a directory is written by
  one caller. In FatFile a file has one handle at a time, in FatTree two callers never work
  in one directory at once; the code enforces none of it.
* In FatTree a name takes one place, whatever its length (DirSlots has the parts of a name), and
  a cluster has one block, so that `Erase` finds its entry where it stands: entries behind the
  first block of a larger cluster, which are looked for in other clusters, are in DirSlots,
  a cluster is found, marked and linked in one step (ClusterAlloc has the steps), and all
  free clusters are alike, so that one choice among them stands for all.
* In Format the copies of an entry are written in one step, or in part when the format stops
  there; the entries of a FAT12/FAT16 root directory in one step; the backup of the boot
  record is left out, as nothing reads it.
* DirReader counts the entries in one step and has one reader, who opens once. The filters
  for files and for directories differ from the one in the run in what they accept only.
* A failing access does nothing; a write is not torn inside a block.
* The `.` and `..` entries cannot be named by FatTree's callers.
* Not modelled: conversion of names, dates and attributes (pure functions), the traits
  (declarations), the demonstration program (usage), the partition table and the validity
  test of a boot record (comparisons with constants), open modes and error mapping of the
  adapter (one test each), the path buffer of a reader.

## 7. Plan

Done: FatTable, ClusterPool, ClusterAlloc, FatEntry, FileAccess, FatFile, Format, FatTree and
DirSlots with their proofs, DirReader with those of its types and of what it returns. What is
left:

1. **A proof** of `CountAgrees` of DirReader: the count is the length of what a scan finds, and a
   reader nobody has disturbed repeats that scan.
2. **FatEntry with two threads**: read and write of `raw_put` as two steps.
3. **FatTree**: a second handle on a file, as in a rename of a file that is open.
