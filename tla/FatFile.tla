------------------------------- MODULE FatFile -------------------------------
(***************************************************************************)
(* Files: their directory entries, their open handles and their chains     *)
(* (Directory::create_file, open_file, unlink and File::set_len in         *)
(* libfat/src/directory/mod.rs).  A handle (struct File) keeps a copy of   *)
(* the entry it was opened from; set_len changes the chain one write after *)
(* the other, then the entry on the disk, then the copy.                   *)
(*                                                                         *)
(* A step is one write to the device with the reads before it.  How a      *)
(* cluster is found is ClusterAlloc's matter: here any free one is taken,  *)
(* which is what ClusterPool leaves of it.  Callers keep a file to one     *)
(* handle at a time and do not delete an open one.                         *)
(***************************************************************************)
EXTENDS FatTable

CONSTANTS
    Thread,       \* callers, each with one handle
    Slot,         \* places for directory entries, one per name
    ClusterSize,  \* blocks_per_cluster * bytes_per_block
    MaxSize,      \* bound on the size of a file
    MaxFaults     \* bound on failing accesses and crashes

ASSUME FileAssumption ==
    /\ ClusterSize \in Nat \ {0}
    /\ MaxSize \in Nat
    /\ MaxFaults \in Nat
    /\ "none" \notin Slot   \* the place of a closed handle

VARIABLES
    link,     \* the table
    entry,    \* entry[f]: the directory entry in place f
    handle,   \* handle[t]: the entry as thread t read it, and its place
    pc,       \* pc[t]: the next write of thread t
    target,   \* target[t]: the new size
    todo,     \* todo[t]: cluster_to_add_count, cluster_to_remove_count
    first,    \* first[t]: start_cluster of set_len
    last,     \* last[t]: last_cluster of set_len
    current,  \* current[t]: cluster being linked or freed
    emptied,  \* history: threads that have cut off the start of the file they empty
    torn,     \* history: a call that shortened a file stopped half way
    failed,   \* history: a call failed or the system crashed
    faults

disk   == <<link, entry>>
locals == <<target, todo, first, last, current>>
history == <<emptied, torn, failed>>
vars   == <<disk, handle, pc, locals, history, faults>>

None   == 0   \* Option::None of a cluster, and Cluster(0) in an entry
Closed == [place |-> "none", start |-> None, size |-> 0]
Unused == [used |-> FALSE, start |-> None, size |-> 0]

\* Clusters that n bytes take: align_up(n, cluster_size) / cluster_size
Needed(n) == (n + ClusterSize - 1) \div ClusterSize

ChainOf(c) == IF c = None THEN {} ELSE Chain(link, c)

\* get_last_and_previous_cluster; on a cycle the walk never ends
WalkEnds(c)   == \E d \in ChainOf(c) : ~IsData(link[d])
LastOf(c)     == CHOOSE d \in ChainOf(c) : ~IsData(link[d])
PreviousOf(c) == IF LastOf(c) = c THEN None
                 ELSE CHOOSE d \in ChainOf(c) : link[d] = LastOf(c)

Goto(t, p) == pc' = [pc EXCEPT ![t] = p]

Held(f) == \E t \in Thread : handle[t].place = f

Shrinking(t) == pc[t] \in {"shrink", "release", "store"} /\ target[t] < handle[t].size

\* A shortening call that has got as far as cutting the chain.
HalfShrunk(t) ==
    Shrinking(t) /\ (pc[t] = "release" \/ todo[t] < Needed(handle[t].size) - Needed(target[t]))

\* set_len appends to no chain but starts one.
FromEmpty(t) == handle[t].start = None \/ handle[t].size = 0

-----------------------------------------------------------------------------

Init ==
    /\ link = [c \in Cluster |-> Free]
    /\ entry = [f \in Slot |-> Unused]
    /\ handle = [t \in Thread |-> Closed]
    /\ pc = [t \in Thread |-> "idle"]
    /\ target = [t \in Thread |-> 0]
    /\ todo = [t \in Thread |-> 0]
    /\ first = [t \in Thread |-> None]
    /\ last = [t \in Thread |-> None]
    /\ current = [t \in Thread |-> None]
    /\ emptied = {}
    /\ torn = FALSE
    /\ failed = FALSE
    /\ faults = 0

\* create_file, when there is no entry of that name
Create(f) ==
    /\ ~entry[f].used
    /\ ~Held(f)
    /\ entry' = [entry EXCEPT ![f] = [used |-> TRUE, start |-> None, size |-> 0]]
    /\ UNCHANGED <<link, handle, pc, locals, history, faults>>

Open(t, f) ==
    /\ pc[t] = "idle" /\ handle[t] = Closed
    /\ entry[f].used /\ ~Held(f)
    /\ handle' = [handle EXCEPT ![t] =
                     [place |-> f, start |-> entry[f].start, size |-> entry[f].size]]
    /\ UNCHANGED <<disk, pc, locals, history, faults>>

Close(t) ==
    /\ pc[t] = "idle" /\ handle[t] # Closed
    /\ handle' = [handle EXCEPT ![t] = Closed]
    /\ UNCHANGED <<disk, pc, locals, history, faults>>

\* The call is over and leaves nothing behind in its variables.
EndCall(t) ==
    /\ Goto(t, "idle")
    /\ target' = [target EXCEPT ![t] = 0]
    /\ todo' = [todo EXCEPT ![t] = 0]
    /\ first' = [first EXCEPT ![t] = None]
    /\ last' = [last EXCEPT ![t] = None]
    /\ current' = [current EXCEPT ![t] = None]

-----------------------------------------------------------------------------
(* Plausible slips, each of which one of the properties must notice.        *)

\* The two counts are subtracted the wrong way round.
SwappedBeginShrink(t, n) ==
    /\ pc[t] = "idle" /\ handle[t] # Closed
    /\ n < handle[t].size
    /\ target' = [target EXCEPT ![t] = n]
    /\ todo' = [todo EXCEPT ![t] = Needed(n) - Needed(handle[t].size)]
    /\ Goto(t, "shrink")
    /\ UNCHANGED <<disk, handle, first, last, current, history, faults>>

\* The last cluster is freed while the one before still leads to it.
NoCutShrinkCut(t) ==
    /\ pc[t] = "shrink" /\ todo[t] > 0
    /\ current' = [current EXCEPT ![t] = LastOf(handle[t].start)]
    /\ emptied' = IF PreviousOf(handle[t].start) = None THEN emptied \union {t} ELSE emptied
    /\ Goto(t, "release")
    /\ UNCHANGED <<disk, handle, target, todo, first, last, torn, failed, faults>>

\* The difference of the sizes is divided without aligning them first.
UnalignedBeginGrow(t, n) ==
    /\ pc[t] = "idle" /\ handle[t] # Closed
    /\ n > handle[t].size
    /\ target' = [target EXCEPT ![t] = n]
    /\ todo' = [todo EXCEPT ![t] = (n - handle[t].size) \div ClusterSize]
    /\ LET end == IF FromEmpty(t) THEN None ELSE LastOf(handle[t].start)
       IN  /\ first' = [first EXCEPT ![t] = end]
           /\ last' = [last EXCEPT ![t] = end]
    /\ Goto(t, "grow")
    /\ UNCHANGED <<disk, handle, current, history, faults>>

\* Only the first cluster of a deleted file is freed.
FirstOnlyFreeNext(t) ==
    /\ pc[t] = "free"
    /\ link' = [link EXCEPT ![current[t]] = Free]
    /\ current' = [current EXCEPT ![t] = None]
    /\ Goto(t, "idle")
    /\ UNCHANGED <<entry, handle, target, todo, first, last, history, faults>>

\* The copy has the new size before the entry does.
EagerGrowDone(t) ==
    /\ pc[t] = "grow" /\ todo[t] = 0
    /\ handle' = [handle EXCEPT ![t].start = IF FromEmpty(t) THEN first[t] ELSE @,
                                ![t].size = target[t]]
    /\ Goto(t, "store")
    /\ UNCHANGED <<disk, locals, history, faults>>

\* A new chain is entered at its last cluster.
LastGrowDone(t) ==
    /\ pc[t] = "grow" /\ todo[t] = 0
    /\ handle' = IF FromEmpty(t) THEN [handle EXCEPT ![t].start = last[t]] ELSE handle
    /\ Goto(t, "store")
    /\ UNCHANGED <<disk, locals, history, faults>>

-----------------------------------------------------------------------------
(* set_len: growing *)

BeginGrow(t, n) ==
    /\ pc[t] = "idle" /\ handle[t] # Closed
    /\ n > handle[t].size
    /\ ~FromEmpty(t) => WalkEnds(handle[t].start)
    /\ target' = [target EXCEPT ![t] = n]
    /\ todo' = [todo EXCEPT ![t] = Needed(n) - Needed(handle[t].size)]
    /\ LET end == IF FromEmpty(t) THEN None ELSE LastOf(handle[t].start)
       IN  /\ first' = [first EXCEPT ![t] = end]
           /\ last' = [last EXCEPT ![t] = end]
    /\ Goto(t, "grow")
    /\ UNCHANGED <<disk, handle, current, history, faults>>

\* alloc_cluster(None)
GrowFirst(t) ==
    /\ pc[t] = "grow" /\ todo[t] > 0 /\ last[t] = None
    /\ \E c \in FreeClusters(link) :
          /\ link' = [link EXCEPT ![c] = EndOfChain]
          /\ first' = [first EXCEPT ![t] = c]
          /\ last' = [last EXCEPT ![t] = c]
    /\ todo' = [todo EXCEPT ![t] = @ - 1]
    /\ UNCHANGED <<entry, handle, pc, target, current, history, faults>>

\* alloc_cluster(Some(last)): the end is marked, then linked.
GrowTake(t) ==
    /\ pc[t] = "grow" /\ todo[t] > 0 /\ last[t] # None
    /\ \E c \in FreeClusters(link) :
          /\ link' = [link EXCEPT ![c] = EndOfChain]
          /\ current' = [current EXCEPT ![t] = c]
    /\ Goto(t, "link")
    /\ UNCHANGED <<entry, handle, target, todo, first, last, history, faults>>

GrowLink(t) ==
    /\ pc[t] = "link"
    /\ link' = [link EXCEPT ![last[t]] = current[t]]
    /\ last' = [last EXCEPT ![t] = current[t]]
    /\ current' = [current EXCEPT ![t] = None]
    /\ todo' = [todo EXCEPT ![t] = @ - 1]
    /\ Goto(t, "grow")
    /\ UNCHANGED <<entry, handle, target, first, history, faults>>

\* alloc_cluster fails: what was allocated so far stays as it is.
GrowNoSpace(t) ==
    /\ pc[t] = "grow" /\ todo[t] > 0
    /\ FreeClusters(link) = {}
    /\ EndCall(t)
    /\ failed' = TRUE
    /\ UNCHANGED <<disk, handle, emptied, torn, faults>>

GrowDone(t) ==
    /\ pc[t] = "grow" /\ todo[t] = 0
    /\ handle' = IF FromEmpty(t) THEN [handle EXCEPT ![t].start = first[t]] ELSE handle
    /\ Goto(t, "store")
    /\ UNCHANGED <<disk, locals, history, faults>>

-----------------------------------------------------------------------------
(* set_len: shortening.  The clusters go one by one, the last one first. *)

BeginShrink(t, n) ==
    /\ pc[t] = "idle" /\ handle[t] # Closed
    /\ n < handle[t].size
    /\ target' = [target EXCEPT ![t] = n]
    /\ todo' = [todo EXCEPT ![t] = Needed(handle[t].size) - Needed(n)]
    /\ Goto(t, "shrink")
    /\ UNCHANGED <<disk, handle, first, last, current, history, faults>>

\* free_cluster(last, previous): previous becomes the end, then last is freed.
ShrinkCut(t) ==
    /\ pc[t] = "shrink" /\ todo[t] > 0
    /\ WalkEnds(handle[t].start)
    /\ current' = [current EXCEPT ![t] = LastOf(handle[t].start)]
    /\ LET previous == PreviousOf(handle[t].start)
       IN  IF previous = None
             THEN emptied' = emptied \union {t} /\ UNCHANGED link
             ELSE link' = [link EXCEPT ![previous] = EndOfChain] /\ UNCHANGED emptied
    /\ Goto(t, "release")
    /\ UNCHANGED <<entry, handle, target, todo, first, last, torn, failed, faults>>

ShrinkRelease(t) ==
    /\ pc[t] = "release"
    /\ link' = [link EXCEPT ![current[t]] = Free]   \* the last one: the loop ends
    /\ current' = [current EXCEPT ![t] = None]
    /\ todo' = [todo EXCEPT ![t] = @ - 1]
    /\ Goto(t, "shrink")
    /\ UNCHANGED <<entry, handle, target, first, last, history, faults>>

ShrinkDone(t) ==
    /\ pc[t] = "shrink" /\ todo[t] = 0
    /\ Goto(t, "store")
    /\ UNCHANGED <<disk, handle, locals, history, faults>>

\* set_cluster, set_file_size (which resets the cluster of an empty file) and flush
\* of the entry; the copy gets the new size, and keeps its start cluster.
Store(t) ==
    /\ pc[t] = "store"
    /\ entry' = [entry EXCEPT ![handle[t].place] =
                    [used  |-> TRUE,
                     start |-> IF target[t] = 0 THEN None ELSE handle[t].start,
                     size  |-> target[t]]]
    /\ handle' = [handle EXCEPT ![t].size = target[t]]
    /\ EndCall(t)
    /\ emptied' = emptied \ {t}
    /\ UNCHANGED <<link, torn, failed, faults>>

-----------------------------------------------------------------------------
(* unlink: the entry is marked deleted, then its chain is freed from the     *)
(* start.                                                                    *)

Unlink(t, f) ==
    /\ pc[t] = "idle" /\ handle[t] = Closed
    /\ entry[f].used /\ ~Held(f)
    /\ entry' = [entry EXCEPT ![f] = Unused]
    /\ IF entry[f].start = None
         THEN UNCHANGED <<pc, current>>
         ELSE current' = [current EXCEPT ![t] = entry[f].start] /\ Goto(t, "free")
    /\ UNCHANGED <<link, handle, target, todo, first, last, history, faults>>

\* One round of the loop of free_cluster.
FreeNext(t) ==
    /\ pc[t] = "free"
    /\ link' = [link EXCEPT ![current[t]] = Free]
    /\ IF IsData(link[current[t]])
         THEN current' = [current EXCEPT ![t] = link[current[t]]] /\ UNCHANGED pc
         ELSE current' = [current EXCEPT ![t] = None] /\ Goto(t, "idle")
    /\ UNCHANGED <<entry, handle, target, todo, first, last, history, faults>>

-----------------------------------------------------------------------------
(* An access fails: the call returns, the handle stays as it is. *)
IoError(t) ==
    /\ pc[t] # "idle"
    /\ faults < MaxFaults
    /\ faults' = faults + 1
    /\ torn' = (torn \/ HalfShrunk(t))
    /\ failed' = TRUE
    /\ emptied' = emptied \ {t}
    /\ EndCall(t)
    /\ UNCHANGED <<disk, handle>>

\* The handles are lost, the disk is not.
Crash ==
    /\ faults < MaxFaults
    /\ faults' = faults + 1
    /\ torn' = (torn \/ \E t \in Thread : HalfShrunk(t))
    /\ failed' = TRUE
    /\ emptied' = {}
    /\ handle' = [t \in Thread |-> Closed]
    /\ pc' = [t \in Thread |-> "idle"]
    /\ target' = [t \in Thread |-> 0]
    /\ todo' = [t \in Thread |-> 0]
    /\ first' = [t \in Thread |-> None]
    /\ last' = [t \in Thread |-> None]
    /\ current' = [t \in Thread |-> None]
    /\ UNCHANGED disk

Step(t) ==
    \/ GrowFirst(t) \/ GrowTake(t) \/ GrowLink(t) \/ GrowNoSpace(t) \/ GrowDone(t)
    \/ ShrinkCut(t) \/ ShrinkRelease(t) \/ ShrinkDone(t)
    \/ Store(t)
    \/ FreeNext(t)

Next ==
    \/ \E f \in Slot : Create(f)
    \/ \E t \in Thread, f \in Slot : Open(t, f) \/ Unlink(t, f)
    \/ \E t \in Thread, n \in 0..MaxSize : BeginGrow(t, n) \/ BeginShrink(t, n)
    \/ \E t \in Thread : Close(t) \/ Step(t) \/ IoError(t)
    \/ Crash

Spec == Init /\ [][Next]_vars

-----------------------------------------------------------------------------
(* Properties *)

TypeOK ==
    /\ link \in Table
    /\ entry \in [Slot -> [used : BOOLEAN, start : Cluster \union {None}, size : 0..MaxSize]]
    /\ handle \in [Thread -> [place : Slot \union {"none"}, start : Cluster \union {None},
                              size : 0..MaxSize]]
    /\ pc \in [Thread -> {"idle", "grow", "link", "shrink", "release", "store", "free"}]
    /\ target \in [Thread -> 0..MaxSize]
    /\ todo \in [Thread -> 0..Needed(MaxSize)]
    /\ first \in [Thread -> Cluster \union {None}]
    /\ last \in [Thread -> Cluster \union {None}]
    /\ current \in [Thread -> Cluster \union {None}]
    /\ emptied \subseteq Thread
    /\ torn \in BOOLEAN /\ failed \in BOOLEAN
    /\ faults \in 0..MaxFaults

\* Entries whose chain starts on the disk where they say.
Owners == {f \in Slot : /\ entry[f].start # None
                        /\ \A t \in emptied : handle[t].place # f}

Heads == {entry[f].start : f \in Owners}

\* No two files share a cluster, and every cluster of a file is allocated, after
\* any number of failed calls and crashes, as long as none of them stopped a call
\* that was shortening a file.
FilesDisjoint ==
    ~torn => /\ WellFormed(link, Heads)
             /\ \A f, g \in Owners : entry[f].start = entry[g].start => f = g

\* Under the same condition the chain of a file is long enough for its size, at
\* every moment but while the file is being shortened: growing files get their
\* clusters before they get their size.
SizesCovered ==
    ~torn => \A f \in Slot :
        (\A t \in Thread : handle[t].place = f => ~Shrinking(t))
            => Cardinality(ChainOf(entry[f].start)) >= Needed(entry[f].size)

\* Unless a call failed, every allocated cluster belongs to a file, and no file has
\* more of them than its size takes, whenever no call is running.
NothingLost ==
    ~failed /\ (\A t \in Thread : pc[t] = "idle") =>
        /\ {c \in Cluster : InChain(link[c])} = UNION {ChainOf(entry[f].start) : f \in Slot}
        /\ \A f \in Slot : Cardinality(ChainOf(entry[f].start)) = Needed(entry[f].size)

\* Between its calls a handle agrees with the entry on the disk, also after a
\* failed call: set_len changes the size it keeps only when the entry has been
\* written.  (The start cluster of an empty file is not looked at.)
HandleCurrent ==
    \A t \in Thread : pc[t] = "idle" /\ handle[t] # Closed =>
        /\ handle[t].size = entry[handle[t].place].size
        /\ handle[t].size > 0 => handle[t].start = entry[handle[t].place].start

\* Until a shortening call is stopped, create_file, set_len and unlink use the
\* table only as the pool of clusters allows, with the start clusters of the
\* entries for its heads.
Pool == INSTANCE ClusterPool WITH heads <- Heads
PoolUntilTorn == Pool!Init /\ [][torn' \/ Pool!Next]_<<link, Heads>>
=============================================================================
