------------------------------- MODULE FatTree -------------------------------
(***************************************************************************)
(* The tree of directories: create_directory, create_file, delete_file,    *)
(* delete_directory, rename_file and rename_directory as                   *)
(* libfat/src/filesystem.rs and libfat/src/directory/mod.rs carry them out *)
(* in several directories, with create_file of libfs_fat/src/lib.rs, which *)
(* sets the length of what it has created.                                 *)
(*                                                                         *)
(* A step is one change of the table or of one directory.  A place holds   *)
(* one name with all its entries (module DirSlots has the entries apart,   *)
(* and ClusterAlloc and FatFile the steps of an allocation and of the      *)
(* release of a chain).  All names take the same number of entries, and a  *)
(* cluster has one block: in larger ones the entries behind the first      *)
(* block are looked for in other clusters (DirSlots has them).  The path a *)
(* caller gives is walked before the call, by names other than "." and     *)
(* "..".                                                                   *)
(***************************************************************************)
EXTENDS FatTable, SequencesExt

CONSTANTS
    Thread,
    Object,     \* files and directories other than the root
    Name,
    LongName,   \* names that reach beyond the eighth character of an entry
    RootSlots,  \* places of the root directory of FAT12/FAT16, never all in use
    Capacity,   \* places of a block, and of a cluster
    MaxCalls,   \* bound on calls
    MaxFaults   \* bound on failing accesses and crashes

ASSUME TreeAssumption ==
    /\ LongName \subseteq Name
    /\ Name \intersect {"", ".", "..", "cut", "old"} = {}
    /\ IsFiniteSet(Object) /\ "none" \notin Object
    /\ RootSlots \in Nat \ {0}
    /\ Capacity \in Nat /\ Capacity >= 3
    /\ MaxCalls \in Nat /\ MaxFaults \in Nat

VARIABLES
    old_root,   \* the root directory is that of FAT12/FAT16
    link,       \* the table
    slot,       \* slot[p]: what stands in place p
    call,       \* call[t]: the call of thread t
    home,       \* history: <<directory, name>> of each object, or Nowhere
    moved,      \* history: directories whose name was moved to another cluster
    cut,        \* history: objects whose name was cut by the move of their parent
    twice,      \* history: objects with two names since a rename was stopped
    leaky,      \* history: a call stopped where the code does not clean up
    damage,     \* history: what happened that no caller is protected from
    calls, faults

volume  == <<old_root, link, slot>>
history == <<home, moved, cut, twice, leaky, damage>>
vars    == <<volume, call, history, calls, faults>>

Empty    == [name |-> "", dir |-> FALSE, start |-> 0, obj |-> "none"]
Old      == [Empty EXCEPT !.name = "old"]   \* what a cluster holds that is not cleared
Nowhere  == <<0, "">>
NoPlace  == <<0, 0>>

\* in: directory an entry is made in; entry: what is made or deleted; old, new: its
\* places; fresh: cluster linked and not cleared; uses: directories of the call;
\* todo: steps to come.
NoCall == [op |-> "none", in |-> 0, entry |-> Empty, old |-> NoPlace, new |-> NoPlace,
           fresh |-> 0, uses |-> {}, todo |-> <<>>]

Place == ({0} \X (1..RootSlots)) \union (Cluster \X (1..Capacity))

\* Where the root directory begins; the one of FAT12/FAT16 is outside the clusters,
\* and the field its start_cluster is read from belongs to the label.
Root == IF old_root THEN 0 ELSE 2

-----------------------------------------------------------------------------
(* Reading the tree *)

\* FatClusterIter
ChainFrom(c) ==
    LET walk[n \in 1..Cardinality(Cluster)] ==
            IF n = 1 THEN <<c>>
            ELSE LET s == walk[n - 1] IN
                 IF Last(s) \in Cluster /\ IsData(link[Last(s)]) THEN Append(s, link[Last(s)]) ELSE s
    IN  walk[Cardinality(Cluster)]

\* FatDirEntryIterator::from_directory
PlacesOf(d) ==
    IF d = 0 THEN [i \in 1..RootSlots |-> <<0, i>>]
    ELSE LET cs == ChainFrom(d)
         IN  [i \in 1..(Len(cs) * Capacity) |->
                <<cs[((i - 1) \div Capacity) + 1], ((i - 1) % Capacity) + 1>>]

FirstPlace(d, Test(_)) == LET ps == PlacesOf(d)
                              i  == SelectInSeq(ps, Test)
                          IN  IF i = 0 THEN NoPlace ELSE ps[i]

\* find_entry, NoPlace for NotFound
Lookup(d, n) == FirstPlace(d, LAMBDA p : slot[p].name = n)

\* allocate_entries
Hole(d) == FirstPlace(d, LAMBDA p : slot[p] = Empty)

IsDots(e) == e.name \in {".", ".."}

Entries(d) == {p \in ToSet(PlacesOf(d)) : slot[p] # Empty}

\* The places a caller can name in a directory.
Children(d) == {p \in Entries(d) : ~IsDots(slot[p]) /\ Lookup(d, slot[p].name) = p}

\* The directories below d, d included: what paths lead to.
Below(d) ==
    LET upto[k \in 0..Cardinality(Object)] ==
            IF k = 0 THEN {d}
            ELSE upto[k - 1] \union {slot[p].start : p \in
                    {q \in UNION {Children(e) : e \in upto[k - 1]} : slot[q].dir}}
    IN  upto[Cardinality(Object)]

\* The parent that '..' and the comparison of rename take from a place: the cluster
\* the entry stands in, 0 for the first one of a FAT32 root directory.
ParentCluster(p) == IF p[1] = Root THEN 0 ELSE p[1]

-----------------------------------------------------------------------------
(* Calls *)

\* FAT12, FAT16 and FAT32 volumes as they are formatted: an empty root directory.
Init == /\ old_root \in BOOLEAN
        /\ link = [c \in Cluster |-> IF c = Root THEN EndOfChain ELSE Free]
        /\ slot = [p \in Place |-> IF p[1] \in {0, Root} THEN Empty ELSE Old]
        /\ call = [t \in Thread |-> NoCall]
        /\ home = [o \in Object |-> Nowhere]
        /\ moved = {} /\ cut = {} /\ twice = {}
        /\ leaky = FALSE
        /\ damage = {}
        /\ calls = 0 /\ faults = 0

Quiet == \A t \in Thread : call[t] = NoCall

Fault == /\ faults < MaxFaults
         /\ faults' = faults + 1

\* What the callers see to: nobody else works in these directories.
MayUse(ds) == \A u \in Thread : call[u].uses \intersect ds = {}

Start(t, c) == /\ call' = [call EXCEPT ![t] = c]
               /\ calls' = calls + 1

Goes(t, c) == call' = [call EXCEPT ![t] = c]

\* The next step of a call, or its end.
Advance(c) == IF Len(c.todo) = 1 THEN NoCall ELSE [c EXCEPT !.todo = Tail(@)]

Doing(t, steps) == call[t].todo # <<>> /\ Head(call[t].todo) \in steps

\* Nothing stands for the object and nothing is about to.
New(o) == /\ home[o] = Nowhere
          /\ \A p \in Place : slot[p].obj # o
          /\ \A t \in Thread : call[t].entry.obj # o

\* A slip: a name is created whether it exists or not.
UntestedAbsent(d, n) == UNCHANGED faults

\* "precheck that it doesn't exist already": find_entry(..).is_ok() is FALSE also
\* when the directory cannot be read.
Absent(d, n) == IF Lookup(d, n) = NoPlace THEN UNCHANGED faults ELSE Fault

Misread == IF faults' = faults THEN {} ELSE {"a name exists twice"}

\* FatFileSystem::create_directory and Directory::create_directory
BeginMkdir(t, d, n) ==
    /\ MayUse({d})
    /\ Absent(d, n)
    /\ \E o \in Object :
          /\ New(o)
          /\ Start(t, [NoCall EXCEPT
                !.op = "mkdir", !.in = d, !.uses = {d},
                !.entry = [name |-> n, dir |-> TRUE, start |-> 0, obj |-> o],
                !.todo = <<"alloc", "clean", "enter", "dot", "dotdot">>])
    /\ damage' = damage \union Misread
    /\ UNCHANGED <<volume, home, moved, cut, twice, leaky>>

\* create_file of libfs_fat: of no length, or set_len on the path after it.
BeginCreate(t, d, n) ==
    /\ MayUse({d})
    /\ Absent(d, n)
    /\ \E o \in Object, todo \in {<<"enter">>, <<"enter", "take", "store">>} :
          /\ New(o)
          /\ Start(t, [NoCall EXCEPT
                !.op = "create", !.in = d, !.uses = {d},
                !.entry = [name |-> n, dir |-> FALSE, start |-> 0, obj |-> o],
                !.todo = todo])
    /\ damage' = damage \union Misread
    /\ UNCHANGED <<volume, home, moved, cut, twice, leaky>>

\* What a call does that uses the name in place p of an object with two names, or
\* deletes a directory without "..".
DamageOf(p, deletes) ==
    (IF slot[p].obj \in twice THEN {"one of two names is used"} ELSE {}) \union
    (IF deletes /\ slot[p].dir /\ Lookup(slot[p].start, "..") = NoPlace
       THEN {"a directory without dots is deleted"} ELSE {})

UsesOf(p) == IF slot[p].dir THEN {slot[p].start} ELSE {}

\* The test of unlink for an empty directory: no third entry.
Emptied(d) == Cardinality(Entries(d)) <= 2

\* When the table entry of its first cluster cannot be read, the directory is taken
\* to end there ("ok()").
SeemsEmpty(d) == Cardinality({p \in Entries(d) : p[1] = d}) <= 2

Deletable(p) == IF slot[p].dir => Emptied(slot[p].start) THEN UNCHANGED faults
                ELSE SeemsEmpty(slot[p].start) /\ Fault

Orphaned == IF faults' = faults THEN {} ELSE {"a directory with children is deleted"}

\* A slip: the clusters are freed before the name is deleted.
FreeFirstBeginDelete(t, d, p) ==
    /\ MayUse({d} \union UsesOf(p))
    /\ Deletable(p)
    /\ Start(t, [NoCall EXCEPT
          !.op = "delete", !.in = d, !.uses = {d} \union UsesOf(p),
          !.entry = slot[p], !.old = p,
          !.todo = IF slot[p].start = 0 THEN <<"erase">> ELSE <<"free", "erase">>])
    /\ damage' = damage \union DamageOf(p, TRUE) \union Orphaned
    /\ UNCHANGED <<volume, home, moved, cut, twice, leaky>>

\* unlink
BeginDelete(t, d, p) ==
    /\ MayUse({d} \union UsesOf(p))
    /\ Deletable(p)
    /\ Start(t, [NoCall EXCEPT
          !.op = "delete", !.in = d, !.uses = {d} \union UsesOf(p),
          !.entry = slot[p], !.old = p,
          !.todo = IF slot[p].start = 0 THEN <<"erase">> ELSE <<"erase", "free">>])
    /\ damage' = damage \union DamageOf(p, TRUE) \union Orphaned
    /\ UNCHANGED <<volume, home, moved, cut, twice, leaky>>

\* "can we update in place?": the entry stands in the cluster the new parent begins
\* with; the root directory of FAT12/FAT16 begins with none.
InPlace(p, to) == to # 0 /\ p[1] = to

\* FatFileSystem::rename and Directory::rename
BeginRename(t, d, p, to, n) ==
    /\ MayUse({d, to} \union UsesOf(p))
    /\ Absent(to, n)
    /\ Start(t, [NoCall EXCEPT
          !.op = "rename", !.in = to, !.uses = {d, to} \union UsesOf(p),
          !.entry = [slot[p] EXCEPT !.name = n], !.old = p,
          !.todo = IF InPlace(p, to) THEN <<"rewrite">>
                   ELSE IF slot[p].dir THEN <<"enter", "third", "erase">>
                   ELSE <<"enter", "erase">>])
    /\ damage' = damage \union DamageOf(p, FALSE) \union Misread
    /\ UNCHANGED <<volume, home, moved, cut, twice, leaky>>

-----------------------------------------------------------------------------
(* The steps of a call *)

\* A slip: the search goes one cluster too far.
OneMoreFound == IF FreeClusters(link) = {} THEN {ClusterCount} ELSE {Min(FreeClusters(link))}

\* A cluster alloc_cluster may find.  Nothing here depends on which one it is, so
\* that one choice stands for all of them.
Found == IF FreeClusters(link) = {} THEN {} ELSE {Min(FreeClusters(link))}

\* alloc_cluster(None) of create_directory
Alloc(t) ==
    /\ Doing(t, {"alloc"})
    /\ \E c \in Found :
          /\ link' = [link EXCEPT ![c] = EndOfChain]
          /\ Goes(t, [Advance(call[t]) EXCEPT !.entry.start = c, !.uses = @ \union {c}])
    /\ UNCHANGED <<old_root, slot, history, calls, faults>>

\* clean_cluster_data
Cleaned(c) == [p \in Place |-> IF p[1] = c THEN Empty ELSE slot[p]]

Clean(t) ==
    /\ Doing(t, {"clean"})
    /\ slot' = Cleaned(call[t].entry.start)
    /\ Goes(t, Advance(call[t]))
    /\ UNCHANGED <<old_root, link, history, calls, faults>>

Entering == {"enter", "dot", "dotdot"}

\* The directory a step makes an entry in, and the entry.
Target(t) == IF Doing(t, {"enter"}) THEN call[t].in ELSE call[t].entry.start

\* A slip: '..' of a directory below the root gets the cluster of the root.
PlainMade(t) ==
    LET c == call[t] IN
    CASE Doing(t, {"enter"})  -> c.entry
      [] Doing(t, {"dot"})    -> [name |-> ".", dir |-> TRUE, start |-> c.entry.start, obj |-> "none"]
      [] Doing(t, {"dotdot"}) -> [name |-> "..", dir |-> TRUE, start |-> c.new[1], obj |-> "none"]

\* create_special_directory_entries
Made(t) ==
    LET c == call[t] IN
    CASE Doing(t, {"enter"})  -> c.entry
      [] Doing(t, {"dot"})    -> [name |-> ".", dir |-> TRUE, start |-> c.entry.start, obj |-> "none"]
      [] Doing(t, {"dotdot"}) -> [name |-> "..", dir |-> TRUE,
                                  start |-> ParentCluster(c.new), obj |-> "none"]

\* A directory gets a name in itself or below.  Nothing keeps a caller from that, or
\* two of them from moving their directories each below the other's.
Looped(t) == LET c == call[t] IN
    IF Doing(t, {"enter"}) /\ c.op = "rename" /\ c.entry.dir /\ c.in \in Below(c.entry.start)
      THEN {"a directory is moved below itself"} ELSE {}

\* create_dir_entry
Enter(t) ==
    LET c == call[t]
        p == Hole(Target(t))
    IN  /\ Doing(t, Entering)
        /\ p # NoPlace
        /\ slot' = [slot EXCEPT ![p] = Made(t)]
        /\ call' = [call EXCEPT ![t] =
              IF Doing(t, {"enter"}) /\ Len(c.todo) > 1 THEN [Advance(@) EXCEPT !.new = p]
              ELSE Advance(@)]
        /\ home' = IF Doing(t, {"enter"}) /\ c.op # "rename"
                     THEN [home EXCEPT ![c.entry.obj] = <<c.in, c.entry.name>>] ELSE home
        /\ damage' = damage \union Looped(t)
        /\ UNCHANGED <<old_root, link, moved, cut, twice, leaky, calls, faults>>

\* allocate_entries sees no hole; one behind the first cluster is missed when a table
\* entry in front of it cannot be read ("ok()").  The new cluster is behind that hole
\* then, and what is made in it may never be found (DirSlots tells when).
NoHoleSeen(d) ==
    LET p == Hole(d) IN
    IF p = NoPlace THEN UNCHANGED <<damage, faults>>
    ELSE /\ p[1] # d
         /\ Fault
         /\ damage' = damage \union {"a name is made behind a hole"}

\* allocate_entries: alloc_cluster(Some(last_cluster))
Grow(t) ==
    /\ Doing(t, Entering)
    /\ Target(t) # 0
    /\ NoHoleSeen(Target(t))
    /\ \E c \in Found :
          /\ link' = [link EXCEPT ![Last(ChainFrom(Target(t)))] = c, ![c] = EndOfChain]
          /\ call' = [call EXCEPT ![t].fresh = c, ![t].todo = <<"clear">> \o @]
    /\ UNCHANGED <<old_root, slot, home, moved, cut, twice, leaky, calls>>

Clear(t) ==
    /\ Doing(t, {"clear"})
    /\ slot' = Cleaned(call[t].fresh)
    /\ call' = [call EXCEPT ![t] = [Advance(@) EXCEPT !.fresh = 0]]
    /\ UNCHANGED <<old_root, link, history, calls, faults>>

\* open_file by the path and set_len, which takes the first cluster of an empty file;
\* a directory is opened like any file, and its size is zero.
Take(t) ==
    LET c == call[t]
        p == Lookup(c.in, c.entry.name)
    IN  /\ Doing(t, {"take"})
        /\ \/ /\ slot[p].dir \/ slot[p].start = 0
              /\ \E d \in Found :
                    /\ link' = [link EXCEPT ![d] = EndOfChain]
                    /\ Goes(t, [Advance(c) EXCEPT !.entry = [slot[p] EXCEPT !.start = d], !.new = p])
           \/ /\ ~slot[p].dir /\ slot[p].start # 0
              /\ Goes(t, NoCall)
              /\ UNCHANGED link
        /\ UNCHANGED <<old_root, slot, history, calls, faults>>

\* The entry in place p gets another start cluster.
Redirect(p, c) == slot' = [slot EXCEPT ![p].start = c]

Store(t) ==
    /\ Doing(t, {"store"})
    /\ Redirect(call[t].new, call[t].entry.start)
    /\ Goes(t, Advance(call[t]))
    /\ UNCHANGED <<old_root, link, history, calls, faults>>

\* rename in place
Rewrite(t) ==
    LET c == call[t] IN
    /\ Doing(t, {"rewrite"})
    /\ slot' = [slot EXCEPT ![c.old].name = c.entry.name]
    /\ home' = [home EXCEPT ![c.entry.obj] = <<c.in, c.entry.name>>]
    /\ cut' = cut \ {c.entry.obj}
    /\ Goes(t, Advance(call[t]))
    /\ UNCHANGED <<old_root, link, moved, twice, leaky, damage, calls, faults>>

\* The third entry of a directory, which rename takes for "..": behind "." and "..",
\* and else behind an entry less, it belongs to the long name of the first object
\* that is not the first in its place; behind "." alone it is a short entry.
Third(t) ==
    LET c   == call[t]
        ps  == PlacesOf(c.entry.start)
        dots == {i \in 1..2 : IsDots(slot[ps[i]])}
        p   == IF dots = {1, 2} THEN ps[3] ELSE ps[2]
        far == ParentCluster(c.new) # ParentCluster(c.old)
    IN  /\ Doing(t, {"third"})
        /\ moved' = IF far THEN moved \union {c.entry.obj} ELSE moved
        /\ CASE far /\ slot[p] # Empty /\ dots = {1} ->
                  /\ Redirect(p, ParentCluster(c.new))
                  /\ damage' = damage \union {"a directory without dots is moved"}
                  /\ UNCHANGED cut
             [] far /\ slot[p].name \in LongName /\ dots # {1} ->
                  /\ slot' = [slot EXCEPT ![p].name = "cut"]
                  /\ cut' = cut \union {slot[p].obj}
                  /\ UNCHANGED damage
             [] OTHER -> UNCHANGED <<slot, cut, damage>>
        /\ Goes(t, Advance(call[t]))
        /\ UNCHANGED <<old_root, link, home, twice, leaky, calls, faults>>

\* delete_dir_entry; a rename ends with it.
Erase(t) ==
    LET c == call[t] IN
    /\ Doing(t, {"erase"})
    /\ slot' = [slot EXCEPT ![c.old] = Empty]
    /\ home' = [home EXCEPT ![c.entry.obj] =
                  IF c.op = "rename" THEN <<c.in, c.entry.name>> ELSE Nowhere]
    /\ cut' = cut \ {c.entry.obj}
    /\ moved' = IF c.op = "rename" THEN moved ELSE moved \ {c.entry.obj}
    /\ Goes(t, Advance(call[t]))
    /\ UNCHANGED <<old_root, link, twice, leaky, damage, calls, faults>>

\* free_cluster(start_cluster, None)
Release(t) ==
    /\ Doing(t, {"free"})
    /\ LET chain == ToSet(ChainFrom(call[t].entry.start))
       IN  /\ link' = [c \in Cluster |-> IF c \in chain THEN Free ELSE link[c]]
           /\ slot' = [p \in Place |-> IF p[1] \in chain THEN Old ELSE slot[p]]
    /\ Goes(t, Advance(call[t]))
    /\ UNCHANGED <<old_root, history, calls, faults>>

-----------------------------------------------------------------------------
(* Calls that stop *)

\* A slip: a directory whose "." and ".." cannot be made keeps its name.
NameKeptRolledBack(c) ==
    IF c.op = "mkdir" /\ Head(c.todo) \in {"clean", "clear", "enter", "dot", "dotdot"}
      THEN [c EXCEPT !.op = "undo", !.todo = <<"free">>]
      ELSE NoCall

\* What create_directory does about an error; the other calls return it.  The entry
\* of a new directory is taken to be outside the root directory of FAT12/FAT16, as
\* it does not begin with cluster 0: when it stands there, in the first block, its
\* deletion fails.
RolledBack(c) ==
    CASE c.op = "mkdir" /\ Head(c.todo) \in {"clean", "clear", "enter"} ->
            [c EXCEPT !.op = "undo", !.todo = <<"free">>]
      [] c.op = "mkdir" /\ Head(c.todo) \in {"dot", "dotdot"} /\ c.new[1] # 0 ->
            [c EXCEPT !.op = "undo", !.todo = <<"erase", "free">>, !.old = c.new]
      [] OTHER -> NoCall

\* Behind the first block of that root the place is taken for one of another cluster.
Misdirected(c) == /\ c.op = "mkdir" /\ Head(c.todo) \in {"dot", "dotdot"}
                  /\ c.new[1] = 0 /\ c.new[2] > Capacity

\* The call ends with an error.  If there is a cluster where the entry of the
\* directory is looked for, some entry in it is deleted instead.
Fails(t) ==
    LET c == call[t] IN
    \/ /\ Goes(t, [RolledBack(c) EXCEPT !.fresh = 0])
       /\ UNCHANGED damage
    \/ /\ Misdirected(c)
       /\ \E q \in Cluster \X (1..Capacity) :
             Goes(t, [c EXCEPT !.op = "undo", !.todo = <<"erase", "free">>, !.old = q])
       /\ damage' = damage \union {"an entry of another cluster is deleted"}

\* A call stops with clusters in its hands.
Leaks(c) == \/ Head(c.todo) \in {"alloc", "take", "store", "free"}
            \/ Head(c.todo) \in {"dot", "dotdot"} /\ c.new[1] = 0

\* Both names of a rename are there.
Doubled(c) == IF c.op = "rename" /\ Head(c.todo) \in {"third", "erase"} THEN {c.entry.obj} ELSE {}

\* NoSpaceLeft: the volume is full.
NoSpace(t) ==
    /\ \/ Doing(t, {"alloc"})
       \/ Doing(t, {"take"})
             /\ LET p == Lookup(call[t].in, call[t].entry.name) IN slot[p].dir \/ slot[p].start = 0
       \/ Doing(t, Entering) /\ Hole(Target(t)) = NoPlace
    /\ Found = {}
    /\ Fails(t)
    /\ UNCHANGED <<volume, home, moved, cut, twice, leaky, calls, faults>>

\* A device access fails: what was written stays, but for a cluster that cannot be
\* cleared, which allocate_entries frees again.
IoError(t) ==
    LET c == call[t] IN
    /\ c # NoCall
    /\ Fault
    /\ link' = IF Doing(t, {"clear"})
                 THEN [d \in Cluster |-> IF d = c.fresh THEN Free
                                         ELSE IF link[d] = c.fresh THEN EndOfChain ELSE link[d]]
                 ELSE link
    /\ slot' = IF Doing(t, {"clear"})
                 THEN [p \in Place |-> IF p[1] = c.fresh THEN Old ELSE slot[p]] ELSE slot
    /\ Fails(t)
    /\ leaky' = (leaky \/ Leaks(c))
    /\ twice' = twice \union Doubled(c)
    /\ UNCHANGED <<old_root, home, moved, cut, calls>>

\* The system stops, by a panic too, and the volume is mounted again.
Crash ==
    /\ ~Quiet
    /\ Fault
    /\ call' = [t \in Thread |-> NoCall]
    /\ leaky' = TRUE
    /\ twice' = twice \union UNION {Doubled(call[t]) : t \in {u \in Thread : call[u] # NoCall}}
    /\ damage' = damage \union
          (IF \E t \in Thread : call[t].fresh # 0
             THEN {"a cluster is linked and not cleared"} ELSE {})
    /\ UNCHANGED <<volume, home, moved, cut, calls>>

Directories == Below(Root)

Call(t) ==
    /\ calls < MaxCalls
    /\ call[t] = NoCall
    /\ LET dirs == Directories IN
       \E d \in dirs :
          \/ \E n \in Name : BeginMkdir(t, d, n) \/ BeginCreate(t, d, n)
          \/ \E p \in Children(d) :
                \/ BeginDelete(t, d, p)
                \/ \E to \in dirs, n \in Name : BeginRename(t, d, p, to, n)

Next == \/ \E t \in Thread : Call(t)
        \/ \E t \in Thread :
              \/ Alloc(t) \/ Clean(t) \/ Enter(t) \/ Grow(t) \/ Clear(t)
              \/ Take(t) \/ Store(t) \/ Rewrite(t) \/ Third(t) \/ Erase(t) \/ Release(t)
              \/ NoSpace(t) \/ IoError(t)
        \/ Crash

Spec == Init /\ [][Next]_vars

-----------------------------------------------------------------------------
(* Properties *)

Ops   == {"none", "mkdir", "create", "delete", "rename", "undo"}
Entry == [name : Name \union {".", "..", "cut"}, dir : BOOLEAN,
          start : Cluster \union {0}, obj : Object \union {"none"}] \union {Empty, Old}

TypeOK ==
    /\ link \in Table
    /\ \A p \in Place : slot[p] \in Entry
    /\ \A t \in Thread :
          /\ call[t].op \in Ops /\ call[t].entry \in Entry
          /\ call[t].old \in Place \union {NoPlace} /\ call[t].new \in Place \union {NoPlace}
          /\ call[t].fresh \in Cluster \union {0}
          /\ call[t].uses \subseteq Cluster \union {0}
    /\ \A o \in Object : home[o] \in ((Cluster \union {0}) \X Name) \union {Nowhere}
    /\ leaky \in BOOLEAN
    /\ moved \subseteq Object /\ cut \subseteq Object /\ twice \subseteq Object

\* The places that name something, by paths from the root, each with its directory.
Named == UNION {{<<d, p>> : p \in Children(d)} : d \in Directories}

HeadsOf(named) == ({slot[e[2]].start : e \in named} \union {Root}) \ {0}

\* The object has a second name, or is about to get one.
TwoNames(o) == o \in twice \/ \E t \in Thread : call[t].op = "rename" /\ call[t].entry.obj = o

\* What names lead to belongs to them alone: the chains behind the entries of all
\* directories are disjoint lists of allocated clusters, and two entries share one
\* only as the two names of a rename that is under way or was stopped.  An entry
\* must be gone before its clusters are free, and a cluster in use before an entry
\* names it, wherever a call stops.
OneOwner ==
    damage = {} =>
        LET named == Named IN
        /\ WellFormed(link, HeadsOf(named))
        /\ \A e, f \in named :
              LET x == slot[e[2]]
                  y == slot[f[2]]
              IN  e # f /\ x.start # 0 /\ x.start = y.start => x.obj = y.obj /\ TwoNames(x.obj)

\* Nothing is lost: once its name is written, every file and directory is found
\* from the root, in the directory and under the name that the last completed
\* call has given it, and nowhere else, unless a rename is under way or was stopped.
\* The name of a child of a directory that was moved may be cut.
NothingLost ==
    damage = {} =>
        LET named == Named IN
        \A o \in Object : home[o] # Nowhere =>
            LET there == {e \in named : slot[e[2]].obj = o}
                Is(e, n) == e[1] = home[o][1] /\ slot[e[2]].name = n
            IN  \E e \in there : /\ Is(e, home[o][2]) \/ (o \in cut /\ Is(e, "cut"))
                                 /\ TwoNames(o) \/ there = {e}

\* No space is lost: between calls every cluster in use belongs to something that
\* has a name, also after calls that found no space and after directories that
\* could not be completed.
NothingLeaked ==
    damage = {} /\ Quiet /\ ~leaky =>
        {c \in Cluster : link[c] # Free}
            = UNION {ToSet(ChainFrom(h)) : h \in HeadsOf(Named)}

\* '..' of directory d, -1 if there is none.
DotDot(d) == LET p == Lookup(d, "..") IN IF p = NoPlace THEN -1 ELSE slot[p].start

LeadsUp(d, p) == DotDot(slot[p].start) \in {-1, IF d = Root THEN 0 ELSE d}

\* '..' of every complete directory is the directory it has its name in, 0 for the
\* root: if the name stands in the first cluster of that directory and was never
\* moved from another cluster.
DotDotLeadsUp ==
    damage = {} => \A e \in Named :
        LET d == e[1]
            p == e[2]
        IN  slot[p].dir /\ p[1] = d /\ slot[p].obj \notin moved /\ ~TwoNames(slot[p].obj)
                => LeadsUp(d, p)

\* Directory::rename is to see to "..", which it calls second_entry ("FIXME: is that
\* always the second entry?"), when "We aren't in the same dir": a directory that
\* stands in the first cluster of its parent leads back there, also when it was
\* moved.
RenameKeepsDotDot ==
    faults = 0 /\ Quiet /\ damage = {} =>
        \A e \in Named : slot[e[2]].dir /\ e[2][1] = e[1] => LeadsUp(e[1], e[2])
=============================================================================
