----------------------------- MODULE ClusterAlloc -----------------------------
(***************************************************************************)
(* Allocation and release of clusters: FatFileSystem::alloc_cluster and    *)
(* free_cluster (libfat/src/filesystem.rs) with the walk to the last       *)
(* cluster, the update of every copy of the table (libfat/src/table.rs)    *)
(* and the FS information block of FAT32.                                  *)
(*                                                                         *)
(* Every method of the file system takes &self, the device is locked for   *)
(* one read or write at a time and the hint and the count are atomics, so  *)
(* a step is one access to the device or to an atomic and threads          *)
(* interleave between any two of them.                                     *)
(***************************************************************************)
EXTENDS FatTable

CONSTANTS
    Thread,           \* the threads that call the file system
    Locking,          \* what the callers exclude: "calls", "allocations", "none"
    FatCount,         \* boot_record.fats_count: copies of the table
    WordSize,         \* u32 has WordSize values
    HasFsInfo,        \* FAT32: hint and count are kept in an on-disk block
    DebugAssertions,  \* the build checks debug_assert!
    BadClusters,      \* clusters marked bad when the volume was made
    MaxFaults,        \* bound on failing device accesses
    MaxCrashes        \* bound on crashes

ASSUME ConstantsAssumption ==
    /\ Locking \in {"calls", "allocations", "none"}
    /\ FatCount \in Nat /\ FatCount >= 1
    /\ WordSize \in Nat /\ WordSize > ClusterCount + 1
    /\ HasFsInfo \in BOOLEAN
    /\ DebugAssertions \in BOOLEAN
    /\ BadClusters \subseteq Cluster \ {2}
    /\ MaxFaults \in Nat
    /\ MaxCrashes \in Nat

VARIABLES
    fat,           \* fat[i]: copy i of the table
    last_cluster,  \* fat_info.last_cluster: where the next search starts
    free_cluster,  \* fat_info.free_cluster
    info,          \* the FS information block
    heads,         \* start clusters that files and directories have
    stale,         \* start clusters that entries still name after a stopped trim
    torn,          \* history: a call went by such an entry
    pc,            \* pc[t]: the next access of thread t, or the result it has
    op,            \* op[t]: the call thread t is in
    chain,         \* chain[t]: first cluster of the chain the call works on
    prev,          \* prev[t]: last_cluster_allocated or previous_cluster
    start,         \* start[t]: start_cluster
    number,        \* number[t]: number_cluster or current_cluster
    value,         \* value[t]: the entry free_cluster read last
    fat_index,     \* fat_index[t]: copy the next raw_put of put goes to
    snap,          \* snap[t]: what flush has loaded so far
    faults, crashes

disk   == <<fat, info>>
memory == <<last_cluster, free_cluster>>
locals == <<op, chain, prev, start, number, value, fat_index, snap>>
mishap == <<stale, torn, faults, crashes>>
vars   == <<disk, memory, heads, pc, locals, mishap>>

Word  == 0..(WordSize - 1)
Unset == WordSize - 1            \* 0xFFFF_FFFF
None  == 0                       \* Option::None of a cluster

Idle   == "idle"
Calls  == {"alloc", "extend", "trim", "free"}
Result == {"ok", "nospace", "ioerr"}

\* Program points of an allocation from its first load of shared state to its
\* last store.
AllocSection == {"checkFree", "tryNext", "reloadHint", "scan", "assertFree",
                 "putEndOfChain", "assertLast", "putLink", "storeHint", "subFree"}
FlushPoint   == {"flushHint", "flushFree", "flushWrite"}
FreePoint    == {"unlink", "readCurrent", "putFree", "swapHint", "addFree"}
Point        == {Idle, "walk", "loadHint", "readLast", "panic"}
                    \union Result \union AllocSection \union FlushPoint \union FreePoint

\* Points whose next access goes to the device and may fail.
DevicePoint == {"walk", "readLast", "tryNext", "scan", "assertFree", "putEndOfChain",
                "assertLast", "putLink", "unlink", "readCurrent", "putFree", "flushWrite"}

NoSnap == [last |-> Unset, free |-> Unset]

TypeOK ==
    /\ fat \in [0..(FatCount - 1) -> Table]
    /\ last_cluster \in Cluster \union {Unset}
    /\ free_cluster \in Word
    /\ info \in [last : Cluster \union {Unset}, free : Word]
    /\ heads \subseteq Cluster
    /\ stale \subseteq Cluster
    /\ torn \in BOOLEAN
    /\ pc \in [Thread -> Point]
    /\ op \in [Thread -> Calls \union {Idle}]
    /\ chain \in [Thread -> Cluster \union {None}]
    /\ prev \in [Thread -> Cluster \union {None}]
    /\ start \in [Thread -> Cluster \union {None, 1}]
    /\ number \in [Thread -> Cluster \union {None, 1}]
    /\ value \in [Thread -> FatValue]
    /\ fat_index \in [Thread -> 0..(FatCount - 1)]
    /\ snap \in [Thread -> [last : Cluster \union {Unset}, free : Word]]
    /\ faults \in 0..MaxFaults
    /\ crashes \in 0..MaxCrashes

-----------------------------------------------------------------------------
(* Helpers *)

\* fetch_add and fetch_sub wrap around.
Increment(n) == IF n = WordSize - 1 THEN 0 ELSE n + 1
Decrement(n) == IF n = 0 THEN WordSize - 1 ELSE n - 1

\* FatValue::get reads the first copy.
Get(c) == fat[0][c]

RootHeads == IF HasFsInfo THEN {2} ELSE {}   \* the root directory of FAT32

Goto(t, p) == pc' = [pc EXCEPT ![t] = p]

InCall(t) == pc[t] # Idle

MayCall == Locking = "calls" => \A u \in Thread : ~InCall(u)

Allocating(t) ==
    pc[t] \in AllocSection \/ (pc[t] \in FlushPoint /\ op[t] \in {"alloc", "extend"})

MayAllocate == Locking = "allocations" => \A u \in Thread : ~Allocating(u)

\* set_len is giving up the only cluster of the file and writes the entry after that.
Emptying(t) ==
    op[t] = "trim" /\ prev[t] = None /\ pc[t] \in FreePoint \union FlushPoint \union {"ok"}

\* The call is done, and the write of the entry that the caller puts the outcome in
\* is next.
EntryWrite(t) == pc[t] = "ok" /\ (op[t] = "alloc" \/ Emptying(t))

Succ(c) == IF c + 1 >= ClusterCount THEN 2 ELSE c + 1

\* A slip: put stops after the first copy.
FirstOnlyRawPut(t, c, v, next) ==
    /\ fat' = [fat EXCEPT ![0] = [@ EXCEPT ![c] = v]]
    /\ Goto(t, next)
    /\ UNCHANGED <<info, memory, heads, op, chain, prev, start, number, value, fat_index, snap, mishap>>

\* One raw_put of FatValue::put: the copy is read and, when it differs, written.
\* Both accesses are one step, as only the write counts and it stores v whatever
\* was read.
RawPut(t, c, v, next) ==
    /\ fat' = [fat EXCEPT ![fat_index[t]] = [@ EXCEPT ![c] = v]]
    /\ IF fat_index[t] + 1 < FatCount
         THEN fat_index' = [fat_index EXCEPT ![t] = @ + 1] /\ UNCHANGED pc
         ELSE fat_index' = [fat_index EXCEPT ![t] = 0] /\ Goto(t, next)
    /\ UNCHANGED <<info, memory, heads, op, chain, prev, start, number, value, snap, mishap>>

\* FatFileSystemInfo::flush returns at once unless the volume is FAT32.
FlushStart == IF HasFsInfo THEN "flushHint" ELSE "ok"

\* FatFileSystemInfo::from_fs and FatFileSystem::init.
MountedHint == IF HasFsInfo THEN info.last ELSE Unset
MountedFree == IF HasFsInfo /\ info.free <= ClusterCount
                 THEN info.free
                 ELSE Cardinality(FreeClusters(fat[0]))

-----------------------------------------------------------------------------
(* Plausible slips, each of which one of the properties must notice.        *)

\* The hint is used without the test that it is a cluster.
UncheckedLoadHint(t) ==
    /\ pc[t] = "loadHint"
    /\ MayAllocate
    /\ start' = [start EXCEPT ![t] = last_cluster]
    /\ Goto(t, "checkFree")
    /\ UNCHANGED <<disk, memory, heads, op, chain, prev, number, value, fat_index, snap, mishap>>

\* The last cluster is freed without the previous one being made the end.
NoUnlinkWalkEndTrim(t) ==
    /\ pc[t] = "walk" /\ op[t] = "trim"
    /\ ~IsData(Get(number[t]))
    /\ Goto(t, "readCurrent")
    /\ heads' = IF prev[t] = None THEN heads \ {chain[t]} ELSE heads
    /\ UNCHANGED <<disk, memory, locals, mishap>>

\* "test next chunk" without the test.
UncheckedTryNext(t) ==
    /\ pc[t] = "tryNext"
    /\ number' = [number EXCEPT ![t] = Succ(start[t])]
    /\ Goto(t, "assertFree")
    /\ UNCHANGED <<disk, memory, heads, op, chain, prev, start, value, fat_index, snap, mishap>>

\* The previous cluster is freed instead of being made the end.
FreeingUnlinkPrevious(t) ==
    /\ pc[t] = "unlink"
    /\ RawPut(t, prev[t], Free, "readCurrent")

\* The walk reads the next entry and stays where it is.
StuckWalkOn(t) ==
    /\ pc[t] = "walk"
    /\ IsData(Get(number[t]))
    /\ prev' = [prev EXCEPT ![t] = number[t]]
    /\ UNCHANGED <<disk, memory, heads, pc, op, chain, start, number, value, fat_index, snap, mishap>>

\* Only the last cluster of a freed chain is counted.
OnceAddFree(t) ==
    /\ pc[t] = "addFree"
    /\ IF IsData(value[t])
         THEN /\ number' = [number EXCEPT ![t] = value[t]] /\ Goto(t, "readCurrent")
              /\ UNCHANGED free_cluster
         ELSE /\ Goto(t, FlushStart)
              /\ free_cluster' = Increment(free_cluster)
              /\ UNCHANGED number
    /\ UNCHANGED <<disk, last_cluster, heads, op, chain, prev, start, value, fat_index, snap, mishap>>

\* The search ends where the table ends, whatever the hint was.
NoRoundScanWrap(t) ==
    /\ pc[t] = "scan"
    /\ number[t] + 1 >= ClusterCount
    /\ Goto(t, "nospace")
    /\ UNCHANGED <<disk, memory, heads, locals, mishap>>

\* The hint is not read again when flush starts: what the last flush wrote stays.
StaleFlushHint(t) ==
    /\ pc[t] = "flushHint"
    /\ snap' = [snap EXCEPT ![t] = [@ EXCEPT !.last = info.last]]
    /\ Goto(t, "flushFree")
    /\ UNCHANGED <<disk, memory, heads, op, chain, prev, start, number, value, fat_index, mishap>>

\* A chain that has grown is appended to all the same.
BlindReadLastGrown(t) ==
    /\ pc[t] = "readLast"
    /\ MayAllocate
    /\ IsData(Get(prev[t]))
    /\ start' = [start EXCEPT ![t] = prev[t]]
    /\ Goto(t, "checkFree")
    /\ UNCHANGED <<disk, memory, heads, op, chain, prev, number, value, fat_index, snap, mishap>>

-----------------------------------------------------------------------------
(* A mounted volume on which nothing but the root directory exists. *)

FreshTable == [c \in Cluster |-> IF c \in BadClusters THEN Bad
                                 ELSE IF c \in RootHeads THEN EndOfChain
                                 ELSE Free]

Init ==
    /\ fat = [i \in 0..(FatCount - 1) |-> FreshTable]
    /\ heads = RootHeads
    /\ stale = {}
    /\ torn = FALSE
    /\ last_cluster \in IF HasFsInfo THEN Cluster \union {Unset} ELSE {Unset}
    /\ free_cluster = Cardinality(FreeClusters(FreshTable))
    /\ info = [last |-> last_cluster, free |-> free_cluster]
    /\ pc = [t \in Thread |-> Idle]
    /\ op = [t \in Thread |-> Idle]
    /\ chain = [t \in Thread |-> None]
    /\ prev = [t \in Thread |-> None]
    /\ start = [t \in Thread |-> None]
    /\ number = [t \in Thread |-> None]
    /\ value = [t \in Thread |-> Free]
    /\ fat_index = [t \in Thread |-> 0]
    /\ snap = [t \in Thread |-> NoSnap]
    /\ faults = 0
    /\ crashes = 0

-----------------------------------------------------------------------------
(* The calls.  Callers keep to a file of their own when they shorten or    *)
(* delete it; several of them may extend the same directory.               *)

Call(t, name, h, p) ==
    /\ ~InCall(t)
    /\ MayCall
    /\ op' = [op EXCEPT ![t] = name]
    /\ chain' = [chain EXCEPT ![t] = h]
    /\ number' = [number EXCEPT ![t] = h]
    /\ Goto(t, p)
    /\ UNCHANGED <<disk, memory, prev, start, value, fat_index, snap>>

\* alloc_cluster(None): the first cluster of a new file or directory.
CallAlloc(t) == Call(t, "alloc", None, "loadHint") /\ UNCHANGED <<heads, mishap>>

\* get_last_cluster(h), then alloc_cluster(Some(last)).
CallExtend(t, h) ==
    /\ \A u \in Thread : chain[u] = h => op[u] = "extend"
    /\ Call(t, "extend", h, "walk")
    /\ UNCHANGED <<heads, mishap>>

\* get_last_and_previous_cluster(h), then free_cluster(last, previous).
CallTrim(t, h) ==
    /\ h \notin RootHeads
    /\ \A u \in Thread : chain[u] # h
    /\ Call(t, "trim", h, "walk")
    /\ UNCHANGED <<heads, mishap>>

\* free_cluster(h, None) for a chain whose directory entry was deleted.
CallFree(t, h) ==
    /\ h \notin RootHeads
    /\ \A u \in Thread : chain[u] # h
    /\ Call(t, "free", h, "readCurrent")
    /\ heads' = heads \ {h}
    /\ UNCHANGED mishap

\* A call on an entry that a stopped trim has left with the cluster it gave up:
\* free by now, or part of another chain, or neither.  Nothing tells the caller.
CallStale(t, h) ==
    /\ \/ Call(t, "extend", h, "walk")
       \/ Call(t, "trim", h, "walk")
       \/ Call(t, "free", h, "readCurrent")
    /\ torn' = TRUE
    /\ UNCHANGED <<heads, stale, faults, crashes>>

\* The call returns; alloc_cluster(None) hands its cluster to the caller, which
\* records it as a start cluster.
Return(t) ==
    /\ pc[t] \in Result
    /\ heads' = IF op[t] = "alloc" /\ pc[t] = "ok" THEN heads \union {number[t]} ELSE heads
    /\ Goto(t, Idle)
    /\ op' = [op EXCEPT ![t] = Idle]
    /\ chain' = [chain EXCEPT ![t] = None]
    /\ prev' = [prev EXCEPT ![t] = None]
    /\ start' = [start EXCEPT ![t] = None]
    /\ number' = [number EXCEPT ![t] = None]
    /\ value' = [value EXCEPT ![t] = Free]
    /\ fat_index' = [fat_index EXCEPT ![t] = 0]
    /\ snap' = [snap EXCEPT ![t] = NoSnap]
    /\ UNCHANGED <<disk, memory, mishap>>

-----------------------------------------------------------------------------
(* get_last_and_previous_cluster *)

WalkOn(t) ==
    /\ pc[t] = "walk"
    /\ IsData(Get(number[t]))
    /\ prev' = [prev EXCEPT ![t] = number[t]]
    /\ number' = [number EXCEPT ![t] = Get(number[t])]
    /\ UNCHANGED <<disk, memory, heads, pc, op, chain, start, value, fat_index, snap, mishap>>

WalkEndExtend(t) ==
    /\ pc[t] = "walk" /\ op[t] = "extend"
    /\ ~IsData(Get(number[t]))
    /\ prev' = [prev EXCEPT ![t] = number[t]]
    /\ Goto(t, "readLast")
    /\ UNCHANGED <<disk, memory, heads, op, chain, start, number, value, fat_index, snap, mishap>>

\* When the only cluster of the chain goes, the file gives up its start cluster; its
\* entry names it until the call is done (Emptying).
WalkEndTrim(t) ==
    /\ pc[t] = "walk" /\ op[t] = "trim"
    /\ ~IsData(Get(number[t]))
    /\ IF prev[t] = None
         THEN Goto(t, "readCurrent") /\ heads' = heads \ {chain[t]}
         ELSE Goto(t, "unlink") /\ UNCHANGED heads
    /\ UNCHANGED <<disk, memory, locals, mishap>>

-----------------------------------------------------------------------------
(* alloc_cluster *)

LoadHint(t) ==
    /\ pc[t] = "loadHint"
    /\ MayAllocate
    /\ start' = [start EXCEPT ![t] = IF last_cluster >= ClusterCount THEN 1 ELSE last_cluster]
    /\ Goto(t, "checkFree")
    /\ UNCHANGED <<disk, memory, heads, op, chain, prev, number, value, fat_index, snap, mishap>>

\* The chain has grown behind the caller's back: its next cluster is the answer.
ReadLastGrown(t) ==
    /\ pc[t] = "readLast"
    /\ MayAllocate
    /\ IsData(Get(prev[t]))
    /\ number' = [number EXCEPT ![t] = Get(prev[t])]
    /\ Goto(t, "ok")
    /\ UNCHANGED <<disk, memory, heads, op, chain, prev, start, value, fat_index, snap, mishap>>

ReadLastEnd(t) ==
    /\ pc[t] = "readLast"
    /\ MayAllocate
    /\ ~IsData(Get(prev[t]))
    /\ start' = [start EXCEPT ![t] = prev[t]]
    /\ Goto(t, "checkFree")
    /\ UNCHANGED <<disk, memory, heads, op, chain, prev, number, value, fat_index, snap, mishap>>

CheckFree(t) ==
    /\ pc[t] = "checkFree"
    /\ IF free_cluster = 0
         THEN Goto(t, "nospace") /\ UNCHANGED number
         ELSE IF op[t] = "extend"
           THEN Goto(t, "tryNext") /\ UNCHANGED number
           ELSE Goto(t, "scan") /\ number' = [number EXCEPT ![t] = start[t]]
    /\ UNCHANGED <<disk, memory, heads, op, chain, prev, start, value, fat_index, snap, mishap>>

Found == IF DebugAssertions THEN "assertFree" ELSE "putEndOfChain"

\* "test next chunk": the cluster right behind the last one is taken if free.
TryNext(t) ==
    /\ pc[t] = "tryNext"
    /\ IF Get(Succ(start[t])) = Free
         THEN number' = [number EXCEPT ![t] = Succ(start[t])] /\ Goto(t, Found)
         ELSE Goto(t, "reloadHint") /\ UNCHANGED number
    /\ UNCHANGED <<disk, memory, heads, op, chain, prev, start, value, fat_index, snap, mishap>>

ReloadHint(t) ==
    /\ pc[t] = "reloadHint"
    /\ LET from == IF last_cluster >= 2 /\ last_cluster < ClusterCount
                     THEN last_cluster ELSE start[t]
       IN  /\ start' = [start EXCEPT ![t] = from]
           /\ number' = [number EXCEPT ![t] = from]
    /\ Goto(t, "scan")
    /\ UNCHANGED <<disk, memory, heads, op, chain, prev, value, fat_index, snap, mishap>>

\* The search goes round the table once.  From cluster 1, which stands for "no
\* hint", it ends where the table ends.
ScanWrap(t) ==
    /\ pc[t] = "scan"
    /\ number[t] + 1 >= ClusterCount
    /\ start[t] < 2
    /\ Goto(t, "nospace")
    /\ UNCHANGED <<disk, memory, heads, locals, mishap>>

ScanNext(t) ==
    /\ pc[t] = "scan"
    /\ number[t] + 1 < ClusterCount \/ start[t] >= 2
    /\ number' = [number EXCEPT ![t] = Succ(number[t])]
    /\ IF Get(Succ(number[t])) = Free THEN Goto(t, Found)
       ELSE IF Succ(number[t]) = start[t] THEN Goto(t, "nospace")
       ELSE UNCHANGED pc
    /\ UNCHANGED <<disk, memory, heads, op, chain, prev, start, value, fat_index, snap, mishap>>

\* debug_assert!(FatValue::get(self, allocated_cluster)? == FatValue::Free)
AssertFree(t) ==
    /\ pc[t] = "assertFree"
    /\ Goto(t, IF Get(number[t]) = Free THEN "putEndOfChain" ELSE "panic")
    /\ UNCHANGED <<disk, memory, heads, locals, mishap>>

AfterPut(t) == IF op[t] # "extend" THEN "storeHint"
               ELSE IF DebugAssertions THEN "assertLast" ELSE "putLink"

PutEndOfChain(t) ==
    /\ pc[t] = "putEndOfChain"
    /\ RawPut(t, number[t], EndOfChain, AfterPut(t))

\* debug_assert!(get(last_cluster_allocated)? == Free || ... == EndOfChain)
AssertLast(t) ==
    /\ pc[t] = "assertLast"
    /\ Goto(t, IF Get(prev[t]) \in {Free, EndOfChain} THEN "putLink" ELSE "panic")
    /\ UNCHANGED <<disk, memory, heads, locals, mishap>>

PutLink(t) ==
    /\ pc[t] = "putLink"
    /\ RawPut(t, prev[t], number[t], "storeHint")

StoreHint(t) ==
    /\ pc[t] = "storeHint"
    /\ last_cluster' = number[t]
    /\ Goto(t, "subFree")
    /\ UNCHANGED <<disk, free_cluster, heads, locals, mishap>>

SubFree(t) ==
    /\ pc[t] = "subFree"
    /\ free_cluster' = Decrement(free_cluster)
    /\ Goto(t, FlushStart)
    /\ UNCHANGED <<disk, last_cluster, heads, locals, mishap>>

-----------------------------------------------------------------------------
(* FatFileSystemInfo::flush: two loads, then one write. *)

FlushHint(t) ==
    /\ pc[t] = "flushHint"
    /\ snap' = [snap EXCEPT ![t] = [@ EXCEPT !.last = last_cluster]]
    /\ Goto(t, "flushFree")
    /\ UNCHANGED <<disk, memory, heads, op, chain, prev, start, number, value, fat_index, mishap>>

FlushFree(t) ==
    /\ pc[t] = "flushFree"
    /\ snap' = [snap EXCEPT ![t] = [@ EXCEPT !.free = free_cluster]]
    /\ Goto(t, "flushWrite")
    /\ UNCHANGED <<disk, memory, heads, op, chain, prev, start, number, value, fat_index, mishap>>

FlushWrite(t) ==
    /\ pc[t] = "flushWrite"
    /\ info' = snap[t]
    /\ Goto(t, "ok")
    /\ UNCHANGED <<fat, memory, heads, locals, mishap>>

-----------------------------------------------------------------------------
(* free_cluster *)

UnlinkPrevious(t) ==
    /\ pc[t] = "unlink"
    /\ RawPut(t, prev[t], EndOfChain, "readCurrent")

ReadCurrent(t) ==
    /\ pc[t] = "readCurrent"
    /\ value' = [value EXCEPT ![t] = Get(number[t])]
    /\ Goto(t, IF Get(number[t]) = Free THEN FlushStart ELSE "putFree")
    /\ UNCHANGED <<disk, memory, heads, op, chain, prev, start, number, fat_index, snap, mishap>>

PutFree(t) ==
    /\ pc[t] = "putFree"
    /\ RawPut(t, number[t], Free, "swapHint")

\* compare_and_swap(0xFFFF_FFFF, current_cluster)
SwapHint(t) ==
    /\ pc[t] = "swapHint"
    /\ last_cluster' = IF last_cluster = Unset THEN number[t] ELSE last_cluster
    /\ Goto(t, "addFree")
    /\ UNCHANGED <<disk, free_cluster, heads, locals, mishap>>

AddFree(t) ==
    /\ pc[t] = "addFree"
    /\ free_cluster' = Increment(free_cluster)
    /\ IF IsData(value[t])
         THEN number' = [number EXCEPT ![t] = value[t]] /\ Goto(t, "readCurrent")
         ELSE Goto(t, FlushStart) /\ UNCHANGED number
    /\ UNCHANGED <<disk, last_cluster, heads, op, chain, prev, start, value, fat_index, snap, mishap>>

-----------------------------------------------------------------------------
(* What goes wrong around the calls. *)

\* A device access fails, the write of the entry included; the call stops there with
\* ReadFailed or WriteFailed.
IoError(t) ==
    /\ pc[t] \in DevicePoint \/ EntryWrite(t)
    /\ faults < MaxFaults
    /\ faults' = faults + 1
    /\ stale' = IF Emptying(t) THEN stale \union {chain[t]} ELSE stale
    /\ Goto(t, "ioerr")
    /\ UNCHANGED <<disk, memory, heads, locals, torn, crashes>>

\* Everything but the disk is lost and the volume is mounted again.
CrashAndMount ==
    /\ crashes < MaxCrashes
    /\ crashes' = crashes + 1
    /\ last_cluster' = MountedHint
    /\ free_cluster' = MountedFree
    /\ pc' = [t \in Thread |-> Idle]
    /\ op' = [t \in Thread |-> Idle]
    /\ chain' = [t \in Thread |-> None]
    /\ prev' = [t \in Thread |-> None]
    /\ start' = [t \in Thread |-> None]
    /\ number' = [t \in Thread |-> None]
    /\ value' = [t \in Thread |-> Free]
    /\ fat_index' = [t \in Thread |-> 0]
    /\ snap' = [t \in Thread |-> NoSnap]
    /\ stale' = stale \union {chain[t] : t \in {u \in Thread : Emptying(u)}}
    /\ UNCHANGED <<disk, heads, torn, faults>>

-----------------------------------------------------------------------------

CallAny(t) ==
    \/ CallAlloc(t)
    \/ \E h \in heads : CallExtend(t, h) \/ CallTrim(t, h) \/ CallFree(t, h)
    \/ \E h \in stale : CallStale(t, h)

AllocStep(t) ==
    \/ LoadHint(t) \/ ReadLastGrown(t) \/ ReadLastEnd(t) \/ CheckFree(t)
    \/ TryNext(t) \/ ReloadHint(t) \/ ScanWrap(t) \/ ScanNext(t)
    \/ AssertFree(t) \/ PutEndOfChain(t) \/ AssertLast(t) \/ PutLink(t)
    \/ StoreHint(t) \/ SubFree(t)

FreeStep(t) ==
    \/ UnlinkPrevious(t) \/ ReadCurrent(t) \/ PutFree(t) \/ SwapHint(t) \/ AddFree(t)

\* The steps of a running call.
Step(t) ==
    \/ WalkOn(t) \/ WalkEndExtend(t) \/ WalkEndTrim(t)
    \/ AllocStep(t)
    \/ FreeStep(t)
    \/ FlushHint(t) \/ FlushFree(t) \/ FlushWrite(t)
    \/ Return(t)

Next == \/ \E t \in Thread : CallAny(t) \/ Step(t) \/ IoError(t)
        \/ CrashAndMount

Spec == Init /\ [][Next]_vars

\* A thread inside a call keeps running; nothing makes it call again.
FairSpec == Spec /\ \A t \in Thread : WF_vars(Step(t))

-----------------------------------------------------------------------------
(* Properties *)

\* The chains of the files and directories are disjoint lists of allocated clusters
\* in the copy of the table that is read, between any two device accesses, after
\* failed accesses and after crashes: the order in which alloc_cluster and
\* free_cluster write entries never leaves a used cluster free or shared.  It is so
\* until a call goes by the entry of a file whose last cluster was being given up
\* when set_len stopped: that entry (stale) names a cluster that may be free or
\* another file's.
ChainsWellFormed == torn \/ WellFormed(fat[0], heads)

\* debug_assert! of alloc_cluster never fires, as long as no call has gone by a
\* stale entry.
NoPanic == torn \/ \A t \in Thread : pc[t] # "panic"

Quiet       == \A t \in Thread : ~InCall(t)
Undisturbed == faults = 0 /\ crashes = 0

\* As long as no access failed and nothing crashed, the count kept in memory is,
\* whenever no call is running, the number of free entries a mount would count.
FreeCountExact ==
    Undisturbed /\ Quiet => free_cluster = Cardinality(FreeClusters(fat[0]))

\* Likewise the FS information block then holds the count and the hint of the
\* running system, so that a remount loses nothing.
InfoCurrent ==
    HasFsInfo /\ Undisturbed /\ Quiet => info = [last |-> last_cluster, free |-> free_cluster]

\* Likewise all copies of the table are then equal.
MirrorsAgree ==
    Undisturbed /\ Quiet => \A i \in 0..(FatCount - 1) : fat[i] = fat[0]

\* A call that gives up for lack of space does so on a volume without a free
\* cluster: neither the count nor the round of the search is off by one.
NoSpaceLeftMeansFull ==
    \A t \in Thread : pc[t] = "nospace" => FreeClusters(fat[0]) = {}

\* So it is as long as no access failed and nothing crashed.
NoSpaceLeftIsRight == Undisturbed => NoSpaceLeftMeansFull

\* Every write to the first copy of the table is one the pool allows: a free
\* cluster is taken, an unreferenced one appended or released, a chain cut.  So it is,
\* in a stopped call and after a crash as well, until a call goes by a stale entry.
Pool == INSTANCE ClusterPool WITH link <- fat[0]
PoolUntilTorn == Pool!Init /\ [][torn' \/ Pool!Next]_<<fat[0], heads>>

\* Every call returns: the walk to the last cluster, the search for a free one and
\* the release of a chain end.  A call that goes by a stale entry may not: the
\* cluster it extends is itself taken, and linked to itself, when it is free.
CallsReturn == \A t \in Thread : InCall(t) ~> (torn \/ ~InCall(t))
=============================================================================
