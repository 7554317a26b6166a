------------------------------- MODULE DirSlots -------------------------------
(***************************************************************************)
(* The entries of one directory: create_file, unlink and rename of         *)
(* libfat/src/directory/mod.rs with the iterators of                       *)
(* raw_dir_entry_iterator.rs and dir_entry_iterator.rs.  A name takes      *)
(* several entries: its long name in parts, the last part first, and the   *)
(* short entry, which holds what the name stands for.  Every entry is      *)
(* written by itself.                                                      *)
(*                                                                         *)
(* A step is one write to the device with the reads before it; a directory *)
(* is in use by one caller.  The device is an array of entries: the root   *)
(* directory of FAT12/FAT16, if there is one, and the data clusters behind *)
(* it.  A long name is the sequence of its parts; the two writes that link *)
(* a new cluster are one here (module ClusterAlloc has them apart).        *)
(***************************************************************************)
EXTENDS FatTable, SequencesExt

CONSTANTS
    EntriesPerBlock,  \* bytes_per_block / FatDirEntry::LEN
    RootBlocks,       \* blocks of the root directory of FAT12/FAT16
    ClusterSizes,     \* values of blocks_per_cluster
    Name,             \* long names, sequences of parts
    File,             \* what a name stands for: start cluster, size, attributes
    Old,              \* the file of an entry left in a cluster by its last owner
    Dot,              \* the directories behind "." and ".."
    MaxFaults         \* bound on failing accesses and crashes

ASSUME DirectoryAssumption ==
    /\ EntriesPerBlock \in Nat \ {0}
    /\ RootBlocks \in Nat \ {0}
    /\ \A n \in ClusterSizes : n \in Nat \ {0}
    /\ \A n \in Name : n \in Seq(STRING) /\ n # <<>>
    /\ Old \notin File /\ Dot \notin File /\ Old # Dot
    /\ MaxFaults \in Nat

VARIABLES
    old_root,            \* the directory is the root directory of FAT12/FAT16
    blocks_per_cluster,
    start,               \* dir_info.start_cluster
    fat,                 \* the table
    disk,                \* disk[p]: the entry in place p
    op,                  \* "none", "create", "delete", "rewrite", "copy"
    name,                \* the name to be made
    entry,               \* the DirectoryEntry to be deleted or renamed
    file,                \* what the entry of the call stands for
    iter,                \* places the FatDirEntryIterator has still to return
    todo,                \* entries still to be written
    fresh,               \* blocks of the cluster just linked still to be cleared
    panicked,
    names,               \* history: names[f] is the name f has, or <<>>
    suspect,             \* history: files of calls that stopped half way or that
                         \*   were named behind the remains of such a call
    misplaced,           \* history: a call began at a place that does not suit it
    unread,              \* history: an iterator of a call ended before the directory
    faults

volume  == <<old_root, blocks_per_cluster, start>>
call    == <<op, name, entry, file, iter, todo, fresh>>
history == <<names, suspect, misplaced, unread>>
vars    == <<volume, fat, disk, call, panicked, history, faults>>

FreeSlot == [kind |-> "free"]
Deleted  == [kind |-> "deleted"]

\* The entry of a part of a long name; first is the flag 0x40 of its order.
Lfn(order, first, part) == [kind |-> "lfn", order |-> order, first |-> first, part |-> part]

Sfn(short, f) == [kind |-> "sfn", short |-> short, file |-> f]

ShortName(n) == <<"short">> \o n

NoEntry == [name |-> <<>>, first |-> 0, count |-> 0, file |-> "none"]

IsHole(e) == e.kind \in {"free", "deleted"}   \* is_free() || is_deleted()

-----------------------------------------------------------------------------
(* Places *)

RootSlots    == IF old_root THEN RootBlocks * EntriesPerBlock ELSE 0
ClusterSlots == blocks_per_cluster * EntriesPerBlock

Place == 0..(RootSlots + Cardinality(Cluster) * ClusterSlots - 1)

\* Cluster::to_data_bytes_offset
FirstPlace(c) == RootSlots + (c - 2) * ClusterSlots

ClusterOf(p) == 2 + (p - RootSlots) \div ClusterSlots
BlockOf(p)   == ((p - RootSlots) % ClusterSlots) \div EntriesPerBlock

BlockPlaces(c, b) == [i \in 1..EntriesPerBlock |-> FirstPlace(c) + b * EntriesPerBlock + i - 1]

\* FatClusterIter from c
ChainFrom(c) ==
    LET walk[n \in 1..Cardinality(Cluster)] ==
            IF n = 1 THEN <<c>>
            ELSE LET s == walk[n - 1] IN
                 IF Last(s) \in Cluster /\ IsData(fat[Last(s)]) THEN Append(s, fat[Last(s)]) ELSE s
    IN  walk[Cardinality(Cluster)]

\* FatDirEntryIterator over clusters, from block b of cluster c.  The byte offset
\* of the block goes to ClusterOffsetIter::new, which takes it for a number of
\* blocks.
ClusterWalk(c, b) ==
    LET offset == b * EntriesPerBlock
        cs     == ChainFrom(c + offset \div blocks_per_cluster)
        begun  == offset % blocks_per_cluster
    IN  [i \in 1..((Len(cs) * blocks_per_cluster - begun) * EntriesPerBlock) |->
            LET n == (i - 1) \div EntriesPerBlock   \* blocks that the iterator has left behind
            IN  BlockPlaces(cs[((begun + n) \div blocks_per_cluster) + 1],
                            (b + n) % blocks_per_cluster)[((i - 1) % EntriesPerBlock) + 1]]

\* The same over the root directory of FAT12/FAT16, up to the first block that
\* begins behind its end.
RootWalk(p) == [i \in 1..((RootBlocks + 1) * EntriesPerBlock - p) |-> p + i - 1]

\* FatDirEntryIterator::from_directory
DirectoryWalk == IF old_root THEN RootWalk(0) ELSE ClusterWalk(start, 0)

\* A slip: the iterator ends with the block it begins in.
OneBlockIterFrom(p) == [i \in 1..(EntriesPerBlock - (p % EntriesPerBlock)) |-> p + i - 1]

\* FatDirEntryIterator::new with the cluster, block and offset of place p
IterFrom(p) ==
    IF old_root THEN RootWalk(p)
    ELSE LET w == ClusterWalk(ClusterOf(p), BlockOf(p))
         IN  SubSeq(w, ((p - RootSlots) % EntriesPerBlock) + 1, Len(w))

\* The places of the directory in their order.
DirectoryPlaces == IF old_root THEN [i \in 1..RootSlots |-> i - 1] ELSE DirectoryWalk

\* Position of the first place that allocate_entries takes, 0 if there is none.
FirstHole == SelectInSeq(DirectoryWalk, LAMBDA p : p \in Place /\ IsHole(disk[p]))

-----------------------------------------------------------------------------
(* DirectoryEntryIterator: the entries read so far of the next name, and the
   names found. *)

ScanStart == [name |-> <<>>, places |-> <<>>, lfn_index |-> 0,
              next_is_end_entry |-> FALSE, found |-> <<>>, over |-> FALSE]

\* A slip: a deleted entry does not drop the parts before it.
KeepingScanEntry(s, p) ==
    LET e == disk[p]
        t == [s EXCEPT !.places = Append(@, p)]
    IN  IF s.over THEN s ELSE
        CASE e.kind = "free" -> [s EXCEPT !.over = TRUE]
          [] e.kind = "deleted" -> [s EXCEPT !.places = <<>>, !.lfn_index = 0]
          [] e.kind = "lfn" ->
                LET index == IF e.first THEN e.order ELSE s.lfn_index
                IN  [t EXCEPT !.name = <<e.part>> \o @, !.lfn_index = index - 1,
                              !.next_is_end_entry = @ \/ index - 1 <= 1]
          [] e.kind = "sfn" ->
                [ScanStart EXCEPT !.found = Append(s.found,
                    [name  |-> IF s.next_is_end_entry THEN s.name ELSE e.short,
                     first |-> Head(t.places), count |-> Len(t.places), file |-> e.file])]

ScanEntry(s, p) ==
    LET e == disk[p]
        t == [s EXCEPT !.places = Append(@, p)]
    IN  IF s.over THEN s ELSE
        CASE e.kind = "free" -> [s EXCEPT !.over = TRUE]
          [] e.kind = "deleted" -> [s EXCEPT !.name = <<>>, !.places = <<>>, !.lfn_index = 0]
          [] e.kind = "lfn" ->
                LET index == IF e.first THEN e.order ELSE s.lfn_index
                IN  [t EXCEPT !.name = <<e.part>> \o @, !.lfn_index = index - 1,
                              !.next_is_end_entry = @ \/ index - 1 <= 1]
          [] e.kind = "sfn" ->
                [ScanStart EXCEPT !.found = Append(s.found,
                    [name  |-> IF s.next_is_end_entry THEN s.name ELSE e.short,
                     first |-> Head(t.places), count |-> Len(t.places), file |-> e.file])]

Listing ==
    LET walk == DirectoryWalk
        scan[i \in 0..Len(walk)] == IF i = 0 THEN ScanStart ELSE ScanEntry(scan[i - 1], walk[i])
    IN  scan[Len(walk)].found

\* find_entry, NoEntry for NotFound
Find(n) == LET found == Listing
               i     == SelectInSeq(found, LAMBDA e : e.name = n)
           IN  IF i = 0 THEN NoEntry ELSE found[i]

-----------------------------------------------------------------------------

\* A slip: the order counts from zero.
ZeroEntriesOf(n, f) ==
    [i \in 1..Len(n) |-> Lfn(Len(n) - i, i = 1, n[Len(n) + 1 - i])]
        \o <<Sfn(ShortName(n), f)>>

\* What create_dir_entry and rename write for a name.
EntriesOf(n, f) ==
    [i \in 1..Len(n) |-> Lfn(Len(n) + 1 - i, i = 1, n[Len(n) + 1 - i])]
        \o <<Sfn(ShortName(n), f)>>

Init ==
    /\ old_root \in BOOLEAN
    /\ blocks_per_cluster \in ClusterSizes
    /\ start \in IF old_root THEN {0} ELSE Cluster
    /\ \E free \in SUBSET (Cluster \ {start}) :
          /\ old_root => free = Cluster   \* no call looks at the table there
          /\ fat = [c \in Cluster |-> IF c \in free THEN Free ELSE EndOfChain]
    /\ \E dots \in {0, 2} :
          /\ old_root => dots = 0
          /\ disk = [p \in Place |->
                        IF old_root /\ p < RootSlots THEN FreeSlot
                        ELSE IF ClusterOf(p) # start THEN Sfn(ShortName(<<"old">>), Old)
                        ELSE IF p - FirstPlace(start) < dots THEN Sfn(ShortName(<<".">>), Dot)
                        ELSE FreeSlot]
    /\ op = "none" /\ name = <<>> /\ entry = NoEntry /\ file = "none"
    /\ iter = <<>> /\ todo = <<>> /\ fresh = <<>>
    /\ panicked = FALSE
    /\ names = [f \in File |-> <<>>]
    /\ suspect = {}
    /\ misplaced = FALSE
    /\ unread = FALSE
    /\ faults = 0

EndCall ==
    /\ op' = "none" /\ name' = <<>> /\ entry' = NoEntry /\ file' = "none"
    /\ iter' = <<>> /\ todo' = <<>> /\ fresh' = <<>>

OnDisk(f) == \E p \in Place : disk[p].kind = "sfn" /\ disk[p].file = f

\* An iterator made for place p begins there.
Straight(p) == IF old_root THEN p < RootSlots ELSE BlockOf(p) = 0

\* n entries can be written from position k of the directory on.
Suits(k, n) ==
    /\ k + n - 1 <= Len(DirectoryPlaces)
    /\ \A i \in k..(k + n - 1) : IsHole(disk[DirectoryPlaces[i]])
    /\ Straight(DirectoryPlaces[k])

\* What stands before position k is part of a name that was not completed.
BehindRemains(k) == k > 1 /\ disk[DirectoryWalk[k - 1]].kind = "lfn"

\* allocate_entries when there is a hole: it is asked for one entry, however many
\* will be written.
TakeHole(f) ==
    /\ FirstHole # 0
    /\ iter' = IterFrom(DirectoryWalk[FirstHole])
    /\ misplaced' = (misplaced \/ ~Suits(FirstHole, Len(todo')))
    /\ suspect' = IF BehindRemains(FirstHole) THEN suspect \union {f} ELSE suspect
    /\ UNCHANGED <<fat, fresh>>

\* Reads that fail when the search ends before the hole: the table entry of a cluster
\* in front of it is taken for the end of the chain ("ok()").
Unseen == IF FirstHole = 0 THEN 0 ELSE 1

\* allocate_entries when no hole was seen: a cluster is linked and then cleared, its
\* first block last.  Behind a free entry no name in it is ever found.
TakeCluster(f) ==
    /\ ~old_root
    /\ FirstHole = 0 \/ FirstHole > ClusterSlots
    /\ \E c \in FreeClusters(fat) :
          /\ fat' = [fat EXCEPT ![Last(ChainFrom(start))] = c, ![c] = EndOfChain]
          /\ fresh' = [i \in 1..blocks_per_cluster |-> <<c, i % blocks_per_cluster>>]
    /\ misplaced' = \/ misplaced \/ Len(todo') > ClusterSlots
                    \/ \E p \in ToSet(DirectoryWalk) : disk[p].kind = "free"
    /\ suspect' = IF BehindRemains(Len(DirectoryWalk) + 1) THEN suspect \union {f} ELSE suspect
    /\ UNCHANGED iter

\* k is the number of reads that fail.
AllocateEntries(f, k) == \/ k = 0 /\ TakeHole(f)
                         \/ k = Unseen /\ TakeCluster(f)

Fail(k) == /\ faults + k <= MaxFaults
           /\ faults' = faults + k

\* find_entry(n).is_ok() is FALSE also for a name that exists, when a read fails on
\* the way to it.
Overlooked(n) == IF Find(n) = NoEntry THEN 0 ELSE 1

-----------------------------------------------------------------------------
(* Calls begin.  A name that exists already, one that does not, and a full
   device end a call before it has changed anything. *)

\* FatFileSystem::create_file; the file is one that nothing stands for yet.
BeginCreate(n) ==
    /\ op = "none" /\ ~panicked
    /\ \E k \in {0, 1} :
          /\ Fail(k + Overlooked(n))
          /\ \E f \in File :
                /\ names[f] = <<>> /\ ~OnDisk(f)
                /\ file' = f
                /\ todo' = EntriesOf(n, f)
                /\ AllocateEntries(f, k)
    /\ op' = "create" /\ name' = n
    /\ UNCHANGED <<volume, disk, entry, panicked, names, unread>>

\* delete_dir_entry
DeletionOf(e) == [i \in 1..e.count |-> Deleted]

\* unlink: find_entry and delete_dir_entry
BeginDelete(n) ==
    /\ op = "none" /\ ~panicked
    /\ LET e == Find(n) IN
          /\ e # NoEntry
          /\ entry' = e /\ file' = e.file
          /\ iter' = IterFrom(e.first)
          /\ todo' = DeletionOf(e)
          /\ names' = [f \in File |-> IF f = e.file THEN <<>> ELSE names[f]]
          /\ misplaced' = (misplaced \/ ~Straight(e.first))
    /\ op' = "delete"
    /\ UNCHANGED <<volume, fat, disk, name, fresh, panicked, suspect, unread, faults>>

\* A slip: the number of entries is not compared.
UncountedInPlace(e, n) == ~old_root /\ ClusterOf(e.first) = start

\* A name with as many entries in the first cluster is overwritten; the start
\* cluster that the root directory of FAT12/FAT16 is compared with is none.
InPlace(e, n) ==
    /\ e.count = Len(n) + 1
    /\ ~old_root /\ ClusterOf(e.first) = start

BeginRename(o, n) ==
    /\ op = "none" /\ ~panicked
    /\ LET e == Find(o) IN
          /\ e # NoEntry
          /\ entry' = e /\ file' = e.file
          /\ todo' = EntriesOf(n, e.file)
          /\ IF InPlace(e, n)
               THEN /\ op' = "rewrite"
                    /\ iter' = IterFrom(e.first)
                    /\ Fail(Overlooked(n))
                    /\ misplaced' = (misplaced \/ ~Straight(e.first))
                    /\ UNCHANGED <<fat, fresh, suspect>>
               ELSE /\ op' = "copy"
                    /\ \E k \in {0, 1} : Fail(k + Overlooked(n)) /\ AllocateEntries(e.file, k)
    /\ name' = n
    /\ UNCHANGED <<volume, disk, panicked, names, unread>>

-----------------------------------------------------------------------------
(* Calls go on, one write after the other. *)

\* clean_cluster_data; after its last block the entries go to the new cluster.
Clean ==
    /\ fresh # <<>>
    /\ LET b == BlockPlaces(Head(fresh)[1], Head(fresh)[2]) IN
          disk' = [p \in Place |-> IF Contains(b, p) THEN FreeSlot ELSE disk[p]]
    /\ fresh' = Tail(fresh)
    /\ iter' = IF Len(fresh) = 1 THEN IterFrom(FirstPlace(Head(fresh)[1])) ELSE iter
    /\ UNCHANGED <<volume, fat, op, name, entry, file, todo, panicked, history, faults>>

\* rename keeps what is behind the short name of the entry it overwrites.
Written(e, p) ==
    IF op = "rewrite" /\ e.kind = "sfn"
      THEN Sfn(e.short, IF disk[p].kind = "sfn" THEN disk[p].file ELSE "none")
      ELSE e

\* next() returns an entry.
EntryComes == iter # <<>> /\ Head(iter) \in Place

\* next() and flush() of one entry
WriteEntry ==
    /\ fresh = <<>> /\ todo # <<>> /\ EntryComes
    /\ disk' = [disk EXCEPT ![Head(iter)] = Written(Head(todo), Head(iter))]
    /\ iter' = Tail(iter)
    /\ todo' = Tail(todo)
    /\ UNCHANGED <<volume, fat, op, name, entry, file, fresh, panicked, history, faults>>

\* What the call was about and still has an entry of.
Remains == IF OnDisk(file) THEN {file} ELSE {}

\* next() is None: unwrap panics, delete_dir_entry returns ReadFailed.  An entry
\* that cannot be read ends any call.
NoNextEntry ==
    /\ fresh = <<>> /\ todo # <<>> /\ ~EntryComes
    /\ panicked' = (iter = <<>> /\ Head(todo) # Deleted)
    /\ suspect' = suspect \union Remains
    /\ EndCall
    /\ UNCHANGED <<volume, fat, disk, names, misplaced, unread, faults>>

CreateDone ==
    /\ op = "create" /\ todo = <<>>
    /\ names' = [names EXCEPT ![file] = name]
    /\ EndCall
    /\ UNCHANGED <<volume, fat, disk, panicked, suspect, misplaced, unread, faults>>

RewriteDone ==
    /\ op = "rewrite" /\ todo = <<>>
    /\ names' = [f \in File |-> IF f = file THEN name ELSE names[f]]
    /\ EndCall
    /\ UNCHANGED <<volume, fat, disk, panicked, suspect, misplaced, unread, faults>>

\* The new name of a renamed file is complete and its old one is deleted.
CopyDone ==
    /\ op = "copy" /\ todo = <<>>
    /\ names' = [f \in File |-> IF f = file THEN name ELSE names[f]]
    /\ op' = "delete"
    /\ iter' = IterFrom(entry.first)
    /\ todo' = DeletionOf(entry)
    /\ misplaced' = (misplaced \/ ~Straight(entry.first))
    /\ UNCHANGED <<volume, fat, disk, name, entry, file, fresh, panicked, suspect, unread, faults>>

DeleteDone ==
    /\ op = "delete" /\ todo = <<>>
    /\ suspect' = IF OnDisk(file) THEN suspect ELSE suspect \ {file}
    /\ EndCall
    /\ UNCHANGED <<volume, fat, disk, panicked, names, misplaced, unread, faults>>

Fault == Fail(1)

\* A write fails or the system crashes: what was written stays.
Stop ==
    /\ todo # <<>>
    /\ Fault
    /\ suspect' = suspect \union Remains \union (IF fresh = <<>> THEN {} ELSE {Old})
    /\ EndCall
    /\ UNCHANGED <<volume, fat, disk, panicked, names, misplaced, unread>>

\* The first next() of a call.
AtFirst == Len(todo) = IF op = "delete" THEN entry.count ELSE Len(name) + 1

\* The table entry that leads to the next cluster was not read: the iterator is at
\* its end, though the directory is not.
LinkUnread ==
    /\ fresh = <<>> /\ todo # <<>> /\ ~AtFirst
    /\ ~old_root /\ iter # <<>> /\ Len(iter) % ClusterSlots = 0
    /\ Fault
    /\ panicked' = (Head(todo) # Deleted)
    /\ suspect' = suspect \union Remains
    /\ unread' = TRUE
    /\ EndCall
    /\ UNCHANGED <<volume, fat, disk, names, misplaced>>

\* clean_cluster_data fails and the new cluster is freed again.
CleanFails ==
    /\ fresh # <<>>
    /\ Fault
    /\ LET c == Head(fresh)[1] IN
          fat' = [d \in Cluster |-> IF d = c THEN Free
                                    ELSE IF fat[d] = c THEN EndOfChain ELSE fat[d]]
    /\ EndCall
    /\ UNCHANGED <<volume, disk, panicked, history>>

Next == \/ \E n \in Name : BeginCreate(n) \/ BeginDelete(n)
        \/ \E o, n \in Name : BeginRename(o, n)
        \/ Clean \/ WriteEntry \/ NoNextEntry
        \/ CreateDone \/ RewriteDone \/ CopyDone \/ DeleteDone
        \/ Stop \/ LinkUnread \/ CleanFails

Spec == Init /\ [][Next]_vars

-----------------------------------------------------------------------------
(* Properties *)

\* What a place may hold.  A call that began at a place that does not suit it may
\* write the short entry of a file that it did not find.
LfnEntry == [kind : {"lfn"}, order : UNION {1..Len(n) : n \in Name}, first : BOOLEAN,
             part : UNION {ToSet(n) : n \in Name}]
SfnEntry == [kind : {"sfn"}, short : {ShortName(n) : n \in Name \union {<<".">>, <<"old">>}},
             file : File \union {Old, Dot, "none"}]

TypeOK ==
    /\ fat \in Table
    /\ disk \in [Place -> {FreeSlot, Deleted} \union LfnEntry \union SfnEntry]
    /\ op \in {"none", "create", "delete", "rewrite", "copy"}
    /\ names \in [File -> Name \union {<<>>}]
    /\ suspect \subseteq File \union {Old, Dot, "none"}
    /\ op = "none" => iter = <<>> /\ todo = <<>> /\ fresh = <<>>

\* The files of which a listing may say anything: the one of the call, those of
\* calls that stopped half way, and what a cluster holds that is linked to the
\* directory before it is cleared.
Unsettled == suspect \union {file, Dot} \union (IF fresh = <<>> THEN {} ELSE {Old})

\* A listing of a full root directory of FAT12/FAT16 goes on in the block behind.
Overrun == old_root /\ \A p \in 0..(RootSlots - 1) : disk[p].kind # "free"

\* What the iterator over a directory returns is what was created, renamed and not
\* deleted, every file once and under its name: at every step of a call for the
\* files of other names, and also after calls that stopped half way.  The
\* entries of several names, the remains of deleted ones and of stopped calls must
\* never mix, as long as every call began at a place that suits it.
ListingExact ==
    ~misplaced /\ ~Overrun =>
        LET found   == Listing
            settled == {i \in 1..Len(found) : found[i].file \notin Unsettled}
        IN  /\ {<<found[i].file, found[i].name>> : i \in settled}
                  = {<<f, names[f]>> : f \in {g \in File \ Unsettled : names[g] # <<>>}}
            /\ \A i, j \in settled : found[i].file = found[j].file => i = j

\* No file is lost: between any two writes of a rename, and when it stops there,
\* the file that is renamed stands in the directory under some name, and so does
\* every other.
FilesListed ==
    ~misplaced => \A f \in File :
        names[f] # <<>> => \E e \in ToSet(Listing) : e.file = f

\* next().unwrap() in create_dir_entry and rename finds an entry when the call
\* began at a place that suits it and the iterator could read its way through the
\* table: no other failure makes it panic.
UnwrapSafe == ~misplaced /\ ~unread => ~panicked

\* allocate_entries is to "Search space to allocate a directory entry": while
\* nothing fails, a name that was created is found until it is renamed or deleted.
NamesFound ==
    faults = 0 /\ op = "none" =>
        \A f \in File : names[f] # <<>> => Find(names[f]).file = f
=============================================================================
