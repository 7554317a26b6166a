---------------------------- MODULE FatFile_proofs ----------------------------
(***************************************************************************)
(* Proofs about FatFile: what its calls keep, for any number of callers,   *)
(* files and clusters, any sizes and any number of failures.               *)
(*                                                                         *)
(* Three invariants carry them.  The first, HandlesOK, ties every handle and *)
(* every running call to the entry on the disk, and holds always.  The     *)
(* second, ChainsOK, ties them to the table and holds until a shortening   *)
(* call is stopped half way.  Its idea: a cluster no chain leads to is a   *)
(* root, and each root is answered for by exactly one of the entry of a    *)
(* file, a call that starts a chain, and a call that is about to link or   *)
(* to free the cluster.  The third, Exact, counts: until a call fails no   *)
(* cluster is allocated but those that somebody answers for, and no file   *)
(* has more of them than it takes.                                         *)
(***************************************************************************)
EXTENDS FatFile, FatTable_proofs, FiniteSetTheorems

(***************************************************************************)
(* What always holds.                                                      *)
(***************************************************************************)

\* Only an unused or empty entry has no start cluster.
EntryOK(f) ==
    /\ ~entry[f].used => entry[f] = Unused
    /\ entry[f].size = 0 <=> entry[f].start = None

HandleOK(t) ==
    /\ handle[t].place = "none" => handle[t] = Closed
    /\ handle[t].place # "none" =>
          /\ entry[handle[t].place].used
          /\ handle[t].size = entry[handle[t].place].size
          /\ handle[t].size > 0 => handle[t].start = entry[handle[t].place].start

\* Which call is running, and what it has in its variables.
CallOK(t) ==
    /\ pc[t] \in {"grow", "link", "shrink", "release", "store"} => handle[t].place # "none"
    /\ pc[t] = "free" => handle[t].place = "none"
    /\ pc[t] \in {"link", "release", "free"} => current[t] \in Cluster
    /\ pc[t] \in {"grow", "link"} => target[t] > handle[t].size
    /\ pc[t] \in {"shrink", "release"} => target[t] < handle[t].size
    /\ pc[t] = "store" => target[t] # handle[t].size /\ todo[t] = 0
    /\ pc[t] = "release" => todo[t] > 0
    /\ pc[t] = "link" => last[t] # None /\ todo[t] > 0
    /\ pc[t] \in {"grow", "link"} /\ handle[t].size > 0 => first[t] # None /\ last[t] # None
    /\ pc[t] \in {"grow", "link"} /\ handle[t].size = 0 =>
          /\ first[t] = None <=> last[t] = None
          /\ first[t] = None => todo[t] = Needed(target[t])
    /\ pc[t] = "store" /\ handle[t].size = 0 => handle[t].start = first[t] /\ first[t] # None

OneHandleEach == \A t, u \in Thread : handle[t].place = handle[u].place
                                         => t = u \/ handle[t].place = "none"

HandlesOK == /\ TypeOK
             /\ \A f \in Slot : EntryOK(f)
             /\ \A t \in Thread : HandleOK(t) /\ CallOK(t)
             /\ OneHandleEach

(***************************************************************************)
(* What holds until a shortening call is stopped half way.                 *)
(***************************************************************************)

\* The root the entry in place f answers for,
Start(f) == IF f \in Owners THEN entry[f].start ELSE None

\* the one a call answers for that starts a chain,
New(t) == IF pc[t] \in {"grow", "link", "store"} /\ handle[t].size = 0
            THEN first[t] ELSE None

\* and the one a call answers for that is about to link or to free it.
Pending(t) == IF pc[t] \in {"link", "release", "free"} THEN current[t] ELSE None

Roots == ({Start(f) : f \in Slot} \union {New(t) : t \in Thread}
              \union {Pending(t) : t \in Thread}) \ {None}

OneAnswers ==
    /\ \A f, g \in Slot : Start(f) = Start(g) => f = g \/ Start(f) = None
    /\ \A t, u \in Thread : New(t) = New(u) => t = u \/ New(t) = None
    /\ \A t, u \in Thread : Pending(t) = Pending(u) => t = u \/ Pending(t) = None
    /\ \A f \in Slot, t \in Thread : Start(f) # None => Start(f) # New(t) /\ Start(f) # Pending(t)
    /\ \A t, u \in Thread : New(t) # None => New(t) # Pending(u)

Growing(t) == pc[t] \in {"grow", "link", "store"} /\ target[t] > handle[t].size

\* The chain a growing call appends to.
Grown(t) == IF handle[t].size = 0 THEN first[t] ELSE handle[t].start

\* A growing call is at the end of its chain, which will be long enough.
GrowOK(t) ==
    /\ pc[t] = "link" => link[current[t]] = EndOfChain
    /\ pc[t] \in {"grow", "link"} /\ last[t] # None =>
          last[t] \in ChainOf(Grown(t)) /\ link[last[t]] = EndOfChain
    /\ Growing(t) => Cardinality(ChainOf(Grown(t))) + todo[t] >= Needed(target[t])

\* A shortening call leaves enough, and cuts off the start of the file only when
\* the file is to be empty.
ShrinkOK(t) ==
    /\ Shrinking(t) /\ t \notin emptied =>
          Cardinality(ChainOf(handle[t].start)) + (IF pc[t] = "release" THEN 1 ELSE 0)
              >= Needed(target[t]) + todo[t]
    /\ t \in emptied => /\ Shrinking(t)
                        /\ target[t] = 0
                        /\ todo[t] = IF pc[t] = "release" THEN 1 ELSE 0

LongEnough(f) ==
    (\A t \in Thread : handle[t].place = f => ~Shrinking(t))
        => Cardinality(ChainOf(entry[f].start)) >= Needed(entry[f].size)

ChainsOK == /\ WellFormed(link, Roots)
            /\ OneAnswers
            /\ \A t \in Thread : GrowOK(t) /\ ShrinkOK(t)
            /\ \A f \in Slot : LongEnough(f)

(***************************************************************************)
(* What holds until a call fails.                                          *)
(***************************************************************************)

\* Every allocated cluster is in a chain somebody answers for.
Covered == \A c \in Cluster : InChain(link[c]) => \E r \in Roots : c \in Chain(link, r)

\* A call has to add or to remove exactly as many clusters as it is to, and frees
\* no more than the last one.
CallExact(t) ==
    /\ Growing(t) => Cardinality(ChainOf(Grown(t))) + todo[t] = Needed(target[t])
    /\ Shrinking(t) /\ t \notin emptied =>
          Cardinality(ChainOf(handle[t].start)) + (IF pc[t] = "release" THEN 1 ELSE 0)
              = Needed(target[t]) + todo[t]
    /\ pc[t] = "release" => link[current[t]] = EndOfChain

Changing(t) == Shrinking(t) \/ (Growing(t) /\ handle[t].size > 0)

FileExact(f) ==
    (\A t \in Thread : handle[t].place = f => ~Changing(t))
        => Cardinality(ChainOf(entry[f].start)) = Needed(entry[f].size)

Exact == /\ Covered
         /\ \A t \in Thread : CallExact(t)
         /\ \A f \in Slot : FileExact(f)

FileInv == /\ HandlesOK
           /\ torn => failed
           /\ ~torn => ChainsOK
           /\ ~failed => Exact

-----------------------------------------------------------------------------
(* Sizes in clusters, and the two ends of a chain *)

\* More bytes never take fewer clusters, and none take none.
LEMMA NeededGrows ==
    /\ \A n \in Nat : Needed(n) \in Nat
    /\ Needed(0) = 0
    /\ \A n \in Nat : n > 0 => Needed(n) > 0
    /\ \A m, n \in Nat : m <= n => Needed(m) <= Needed(n)
<1>1. \A n \in Nat : Needed(n) \in Nat
  BY FileAssumption DEF Needed
<1>2. Needed(0) = 0
  BY FileAssumption DEF Needed
<1>3. \A n \in Nat : n > 0 => Needed(n) > 0
  BY FileAssumption DEF Needed
<1>4. \A m, n \in Nat : m <= n => Needed(m) <= Needed(n)
  BY FileAssumption DEF Needed
<1> QED BY <1>1, <1>2, <1>3, <1>4

\* Option::None is no cluster.
LEMMA NoneIsNoCluster == None \notin Cluster
  BY ClusterCountAssumption DEF None, Cluster

\* When the walk to the end of a chain ends, it ends in the chain, and the cluster
\* before the end, if there is one, links it.
LEMMA WalkToTheEnd ==
    ASSUME NEW c \in Cluster \union {None}, WalkEnds(c)
    PROVE  /\ c \in Cluster
           /\ LastOf(c) \in Chain(link, c)
           /\ LastOf(c) \in Cluster
           /\ ~IsData(link[LastOf(c)])
           /\ PreviousOf(c) = None => LastOf(c) = c
           /\ PreviousOf(c) # None => /\ PreviousOf(c) \in Chain(link, c)
                                      /\ PreviousOf(c) \in Cluster
                                      /\ link[PreviousOf(c)] = LastOf(c)
<1>1. c \in Cluster
  BY DEF WalkEnds, ChainOf
<1>2. LastOf(c) \in Chain(link, c) /\ ~IsData(link[LastOf(c)])
  BY <1>1, NoneIsNoCluster DEF WalkEnds, LastOf, ChainOf
<1>3. Chain(link, c) \subseteq Cluster
  BY <1>1, ChainFollows
<1>4. ASSUME LastOf(c) # c
      PROVE  PreviousOf(c) \in Chain(link, c) /\ link[PreviousOf(c)] = LastOf(c)
  <2>1. \E d \in Chain(link, c) : link[d] = LastOf(c)
    BY <1>1, <1>2, <1>4, ChainPredecessor
  <2> QED BY <1>1, <1>4, <2>1, NoneIsNoCluster DEF PreviousOf, ChainOf
<1>5. LastOf(c) = c => PreviousOf(c) = None
  BY DEF PreviousOf
<1> QED BY <1>1, <1>2, <1>3, <1>4, <1>5, NoneIsNoCluster

-----------------------------------------------------------------------------
(* HandlesOK *)

LEMMA HandlesInit == Init => HandlesOK
<1> SUFFICES ASSUME Init PROVE HandlesOK
  OBVIOUS
<1>1. TypeOK
  <2>1. link \in Table
    BY DEF Init, Table, FatValue
  <2>2. Unused \in [used : BOOLEAN, start : Cluster \union {None}, size : 0..MaxSize]
    BY FileAssumption DEF Unused
  <2>3. Closed \in [place : Slot \union {"none"}, start : Cluster \union {None}, size : 0..MaxSize]
    BY FileAssumption DEF Closed
  <2>4. 0 \in 0..Needed(MaxSize) /\ 0 \in 0..MaxSize /\ 0 \in 0..MaxFaults
    BY FileAssumption, NeededGrows
  <2> QED BY <2>1, <2>2, <2>3, <2>4 DEF Init, TypeOK
<1>2. \A f \in Slot : EntryOK(f)
  BY DEF Init, EntryOK, Unused, None
<1>3. \A t \in Thread : HandleOK(t) /\ CallOK(t)
  BY DEF Init, HandleOK, CallOK, Closed
<1>4. OneHandleEach
  BY DEF Init, OneHandleEach, Closed
<1> QED BY <1>1, <1>2, <1>3, <1>4 DEF HandlesOK

LEMMA HandlesCreate == ASSUME HandlesOK, NEW f \in Slot, Create(f) PROVE HandlesOK'
<1> USE DEF HandlesOK, Create, vars, disk, locals, history
<1>1. TypeOK'
  BY FileAssumption DEF TypeOK
<1>2. \A g \in Slot : EntryOK(g)'
  BY DEF EntryOK, Unused, None, TypeOK
<1>3. \A u \in Thread : HandleOK(u)' /\ CallOK(u)'
  BY DEF HandleOK, CallOK, Held, TypeOK
<1>4. OneHandleEach'
  BY DEF OneHandleEach
<1> QED BY <1>1, <1>2, <1>3, <1>4

LEMMA HandlesOpen ==
    ASSUME HandlesOK, NEW t \in Thread, NEW f \in Slot, Open(t, f) PROVE HandlesOK'
<1> USE DEF HandlesOK, Open, vars, disk, locals, history
<1>1. TypeOK'
  BY DEF TypeOK
<1>2. \A g \in Slot : EntryOK(g)'
  BY DEF EntryOK
<1>3. \A u \in Thread : HandleOK(u)' /\ CallOK(u)'
  BY FileAssumption DEF HandleOK, CallOK, TypeOK
<1>4. OneHandleEach'
  BY DEF OneHandleEach, Held, TypeOK
<1> QED BY <1>1, <1>2, <1>3, <1>4

LEMMA HandlesClose == ASSUME HandlesOK, NEW t \in Thread, Close(t) PROVE HandlesOK'
<1> USE DEF HandlesOK, Close, vars, disk, locals, history
<1>1. TypeOK'
  BY FileAssumption DEF TypeOK, Closed
<1>2. \A g \in Slot : EntryOK(g)'
  BY DEF EntryOK
<1>3. \A u \in Thread : HandleOK(u)' /\ CallOK(u)'
  BY DEF HandleOK, CallOK, TypeOK, Closed
<1>4. OneHandleEach'
  BY DEF OneHandleEach, TypeOK, Closed
<1> QED BY <1>1, <1>2, <1>3, <1>4

LEMMA HandlesBegin ==
    ASSUME HandlesOK, NEW t \in Thread, NEW n \in 0..MaxSize, BeginGrow(t, n) \/ BeginShrink(t, n)
    PROVE  HandlesOK'
<1> USE DEF HandlesOK, vars, disk, locals, history
<1>1. CASE BeginGrow(t, n)
  <2> USE <1>1 DEF BeginGrow
  <2>0. /\ todo'[t] = Needed(n) - Needed(handle[t].size)
        /\ todo'[t] \in 0..Needed(MaxSize)
        /\ handle[t].size = 0 => todo'[t] = Needed(n)
    BY FileAssumption, NeededGrows DEF TypeOK
  <2>1. handle[t] \in [place : Slot \union {"none"}, start : Cluster \union {None}, size : 0..MaxSize]
    BY DEF TypeOK
  <2>2. handle[t].place # "none" /\ (FromEmpty(t) <=> handle[t].size = 0)
    BY <2>1 DEF HandleOK, FromEmpty, EntryOK, TypeOK
  <2>3. ~FromEmpty(t) => LastOf(handle[t].start) \in Cluster
    BY <2>1, WalkToTheEnd
  <2>4. /\ first' = [first EXCEPT ![t] = first'[t]] /\ last' = [last EXCEPT ![t] = last'[t]]
        /\ first'[t] = last'[t]
        /\ IF handle[t].size = 0 THEN first'[t] = None ELSE first'[t] \in Cluster
    BY <2>2, <2>3 DEF TypeOK
  <2>5. TypeOK'
    BY <2>0, <2>4 DEF TypeOK, Goto
  <2>6. \A g \in Slot : EntryOK(g)'
    BY DEF EntryOK
  <2>7. \A u \in Thread : HandleOK(u)' /\ CallOK(u)'
    BY <2>0, <2>1, <2>2, <2>4, NoneIsNoCluster DEF HandleOK, CallOK, TypeOK, Goto
  <2>8. OneHandleEach'
    BY DEF OneHandleEach
  <2> QED BY <2>5, <2>6, <2>7, <2>8
<1>2. CASE BeginShrink(t, n)
  <2> USE <1>2 DEF BeginShrink
  <2>0. Needed(handle[t].size) - Needed(n) \in 0..Needed(MaxSize)
    BY FileAssumption, NeededGrows DEF TypeOK
  <2>5. TypeOK'
    BY <2>0 DEF TypeOK, Goto
  <2>6. \A g \in Slot : EntryOK(g)'
    BY DEF EntryOK
  <2>7. \A u \in Thread : HandleOK(u)' /\ CallOK(u)'
    BY DEF HandleOK, CallOK, TypeOK, Goto
  <2>8. OneHandleEach'
    BY DEF OneHandleEach
  <2> QED BY <2>5, <2>6, <2>7, <2>8
<1> QED BY <1>1, <1>2

LEMMA HandlesGrow ==
    ASSUME HandlesOK, NEW t \in Thread, GrowFirst(t) \/ GrowTake(t) \/ GrowLink(t) \/ GrowDone(t)
    PROVE  HandlesOK'
<1> USE DEF HandlesOK, vars, disk, locals, history
<1>0. \A g \in Slot : EntryOK(g)'
  BY DEF EntryOK, GrowFirst, GrowTake, GrowLink, GrowDone
<1>1. CASE GrowFirst(t)
  <2>1. PICK c \in FreeClusters(link) :
            /\ link' = [link EXCEPT ![c] = EndOfChain]
            /\ first' = [first EXCEPT ![t] = c]
            /\ last' = [last EXCEPT ![t] = c]
    BY <1>1 DEF GrowFirst
  <2>2. c \in Cluster /\ c # None
    BY NoneIsNoCluster DEF FreeClusters
  <2>3. TypeOK'
    BY <1>1, <2>1, <2>2, NeededGrows, FileAssumption DEF GrowFirst, TypeOK, Table, FatValue
  <2>4. \A u \in Thread : HandleOK(u)' /\ CallOK(u)'
    BY <1>1, <2>1, <2>2 DEF GrowFirst, HandleOK, CallOK, TypeOK
  <2>5. OneHandleEach'
    BY <1>1 DEF GrowFirst, OneHandleEach
  <2> QED BY <1>0, <2>3, <2>4, <2>5
<1>2. CASE GrowTake(t)
  <2>1. PICK c \in FreeClusters(link) :
            /\ link' = [link EXCEPT ![c] = EndOfChain]
            /\ current' = [current EXCEPT ![t] = c]
    BY <1>2 DEF GrowTake
  <2>2. c \in Cluster
    BY DEF FreeClusters
  <2>3. TypeOK'
    BY <1>2, <2>1, <2>2 DEF GrowTake, TypeOK, Table, FatValue, Goto
  <2>4. \A u \in Thread : HandleOK(u)' /\ CallOK(u)'
    BY <1>2, <2>1, <2>2 DEF GrowTake, HandleOK, CallOK, TypeOK, Goto
  <2>5. OneHandleEach'
    BY <1>2 DEF GrowTake, OneHandleEach
  <2> QED BY <1>0, <2>3, <2>4, <2>5
<1>3. CASE GrowLink(t)
  <2>1. current[t] \in Cluster /\ todo[t] - 1 \in 0..Needed(MaxSize)
    BY <1>3, NeededGrows, FileAssumption DEF GrowLink, CallOK, TypeOK
  <2>3. TypeOK'
    BY <1>3, <2>1 DEF GrowLink, TypeOK, Table, FatValue, Goto
  <2>4. \A u \in Thread : HandleOK(u)' /\ CallOK(u)'
    BY <1>3, <2>1, NoneIsNoCluster DEF GrowLink, HandleOK, CallOK, TypeOK, Goto
  <2>5. OneHandleEach'
    BY <1>3 DEF GrowLink, OneHandleEach
  <2> QED BY <1>0, <2>3, <2>4, <2>5
<1>4. CASE GrowDone(t)
  <2>1. FromEmpty(t) <=> handle[t].size = 0
    BY <1>4 DEF GrowDone, FromEmpty, HandleOK, CallOK, EntryOK, TypeOK
  <2>2. handle[t].size = 0 => first[t] # None
    BY <1>4, NeededGrows, FileAssumption DEF GrowDone, CallOK, TypeOK
  <2>3. handle' = [handle EXCEPT ![t].start = handle'[t].start]
    BY <1>4 DEF GrowDone, TypeOK
  <2>4. handle'[t].start = IF handle[t].size = 0 THEN first[t] ELSE handle[t].start
    BY <1>4, <2>1 DEF GrowDone, TypeOK
  <2>5. TypeOK'
    <3>1. PICK c \in Cluster \union {None} : handle' = [handle EXCEPT ![t].start = c]
      BY <2>3, <2>4 DEF TypeOK
    <3>2. handle' \in [Thread -> [place : Slot \union {"none"}, start : Cluster \union {None},
                                  size : 0..MaxSize]]
      BY <3>1, SMTT(30) DEF TypeOK
    <3> QED BY <1>4, <3>2 DEF GrowDone, TypeOK, Goto
  <2>6. \A u \in Thread : HandleOK(u)' /\ CallOK(u)'
    BY <1>4, <2>2, <2>3, <2>4 DEF GrowDone, HandleOK, CallOK, TypeOK, Goto, Closed
  <2>7. OneHandleEach'
    BY <1>4, <2>3 DEF GrowDone, OneHandleEach, TypeOK
  <2> QED BY <1>0, <2>5, <2>6, <2>7
<1> QED BY <1>1, <1>2, <1>3, <1>4

LEMMA HandlesShrink ==
    ASSUME HandlesOK, NEW t \in Thread, ShrinkCut(t) \/ ShrinkRelease(t) \/ ShrinkDone(t)
    PROVE  HandlesOK'
<1> USE DEF HandlesOK, vars, disk, locals, history
<1>0. (\A g \in Slot : EntryOK(g)') /\ OneHandleEach'
  BY DEF EntryOK, OneHandleEach, ShrinkCut, ShrinkRelease, ShrinkDone
<1>1. CASE ShrinkCut(t)
  <2>1. /\ LastOf(handle[t].start) \in Cluster
        /\ PreviousOf(handle[t].start) \in Cluster \union {None}
    BY <1>1, WalkToTheEnd DEF ShrinkCut, TypeOK
  <2>2. link' \in Table /\ emptied' \subseteq Thread
    BY <1>1, <2>1 DEF ShrinkCut, TypeOK, Table, FatValue
  <2>3. TypeOK'
    BY <1>1, <2>1, <2>2 DEF ShrinkCut, TypeOK, Goto
  <2>4. \A u \in Thread : HandleOK(u)' /\ CallOK(u)'
    BY <1>1, <2>1 DEF ShrinkCut, HandleOK, CallOK, TypeOK, Goto
  <2> QED BY <1>0, <2>3, <2>4
<1>2. CASE ShrinkRelease(t)
  <2>1. current[t] \in Cluster /\ todo[t] - 1 \in 0..Needed(MaxSize)
    BY <1>2, NeededGrows, FileAssumption DEF ShrinkRelease, CallOK, TypeOK
  <2>2. TypeOK'
    BY <1>2, <2>1 DEF ShrinkRelease, TypeOK, Table, FatValue, Goto
  <2>3. \A u \in Thread : HandleOK(u)' /\ CallOK(u)'
    BY <1>2 DEF ShrinkRelease, HandleOK, CallOK, TypeOK, Goto
  <2> QED BY <1>0, <2>2, <2>3
<1>3. CASE ShrinkDone(t)
  <2>1. TypeOK'
    BY <1>3 DEF ShrinkDone, TypeOK, Goto
  <2>2. \A u \in Thread : HandleOK(u)' /\ CallOK(u)'
    BY <1>3 DEF ShrinkDone, HandleOK, CallOK, TypeOK, Goto
  <2> QED BY <1>0, <2>1, <2>2
<1> QED BY <1>1, <1>2, <1>3

LEMMA HandlesStore == ASSUME HandlesOK, NEW t \in Thread, Store(t) PROVE HandlesOK'
<1> USE DEF HandlesOK, Store, vars, disk, locals, history
<1>1. /\ handle[t].place \in Slot
      /\ handle[t] \in [place : Slot \union {"none"}, start : Cluster \union {None}, size : 0..MaxSize]
      /\ target[t] \in 0..MaxSize
  BY DEF CallOK, TypeOK
<1>2. handle[t].start # None
  BY <1>1 DEF CallOK, HandleOK, EntryOK, TypeOK
<1>3. TypeOK'
  <2>1. handle' \in [Thread -> [place : Slot \union {"none"}, start : Cluster \union {None},
                                size : 0..MaxSize]]
    BY <1>1 DEF TypeOK
  <2>2. entry' \in [Slot -> [used : BOOLEAN, start : Cluster \union {None}, size : 0..MaxSize]]
    BY <1>1 DEF TypeOK
  <2>3. 0 \in 0..Needed(MaxSize) /\ 0 \in 0..MaxSize
    BY NeededGrows, FileAssumption
  <2> QED BY <2>1, <2>2, <2>3 DEF TypeOK, EndCall, Goto
<1>4. \A g \in Slot : EntryOK(g)'
  BY <1>1, <1>2 DEF EntryOK, TypeOK
<1>5. OneHandleEach'
  BY DEF OneHandleEach, TypeOK
<1>6. HandleOK(t)' /\ CallOK(t)'
  BY <1>1, <1>2 DEF HandleOK, CallOK, TypeOK, EndCall, Goto
<1>7. ASSUME NEW u \in Thread, u # t PROVE HandleOK(u)' /\ CallOK(u)'
  <2>1. handle[u].place # handle[t].place
    BY <1>1, <1>7, FileAssumption DEF OneHandleEach
  <2>2. handle'[u] = handle[u] /\ entry'[handle[u].place] = entry[handle[u].place]
    BY <1>7, <2>1 DEF TypeOK
  <2> QED BY <1>7, <2>2 DEF HandleOK, CallOK, TypeOK, EndCall, Goto
<1> QED BY <1>3, <1>4, <1>5, <1>6, <1>7

LEMMA HandlesUnlink ==
    ASSUME HandlesOK, NEW t \in Thread, NEW f \in Slot, Unlink(t, f) PROVE HandlesOK'
<1> USE DEF HandlesOK, Unlink, vars, disk, locals, history
<1>1. pc' = [pc EXCEPT ![t] = pc'[t]] /\ current' = [current EXCEPT ![t] = current'[t]]
  BY DEF TypeOK, Goto
<1>2. \/ pc'[t] = "idle" /\ current'[t] = current[t]
      \/ pc'[t] = "free" /\ current'[t] = entry[f].start /\ entry[f].start \in Cluster
  BY DEF TypeOK, Goto
<1>3. TypeOK'
  <2>1. Unused \in [used : BOOLEAN, start : Cluster \union {None}, size : 0..MaxSize]
    BY FileAssumption DEF Unused
  <2>2. entry' \in [Slot -> [used : BOOLEAN, start : Cluster \union {None}, size : 0..MaxSize]]
    BY <2>1 DEF TypeOK
  <2> QED BY <1>1, <1>2, <2>2 DEF TypeOK
<1>4. \A g \in Slot : EntryOK(g)'
  BY DEF EntryOK, TypeOK, Unused
<1>5. OneHandleEach'
  BY DEF OneHandleEach
<1>6. \A u \in Thread : HandleOK(u)' /\ CallOK(u)'
  BY <1>1, <1>2 DEF HandleOK, CallOK, TypeOK, Held, Closed
<1> QED BY <1>3, <1>4, <1>5, <1>6

LEMMA HandlesFreeNext == ASSUME HandlesOK, NEW t \in Thread, FreeNext(t) PROVE HandlesOK'
<1> USE DEF HandlesOK, FreeNext, vars, disk, locals, history
<1>1. pc' = [pc EXCEPT ![t] = pc'[t]] /\ current' = [current EXCEPT ![t] = current'[t]]
  BY DEF TypeOK, Goto
<1>2. \/ pc'[t] = "idle" /\ current'[t] = None
      \/ pc'[t] = "free" /\ current'[t] \in Cluster
  BY DEF TypeOK, Goto, IsData
<1>3. TypeOK'
  BY <1>1, <1>2 DEF TypeOK, Table, FatValue, CallOK
<1>4. (\A g \in Slot : EntryOK(g)') /\ OneHandleEach'
  BY DEF EntryOK, OneHandleEach
<1>5. \A u \in Thread : HandleOK(u)' /\ CallOK(u)'
  BY <1>1, <1>2 DEF HandleOK, CallOK, TypeOK
<1> QED BY <1>3, <1>4, <1>5

LEMMA HandlesFailure ==
    ASSUME HandlesOK, (\E t \in Thread : GrowNoSpace(t) \/ IoError(t)) \/ Crash
    PROVE  HandlesOK'
<1> USE DEF HandlesOK, vars, disk, locals, history
<1>1. ASSUME NEW t \in Thread, GrowNoSpace(t) \/ IoError(t) PROVE HandlesOK'
  <2>1. /\ EndCall(t) /\ UNCHANGED <<link, entry, handle>>
        /\ torn' \in BOOLEAN /\ failed' \in BOOLEAN /\ emptied' \subseteq Thread
        /\ faults' \in 0..MaxFaults
    <3>1. CASE GrowNoSpace(t)
      BY <3>1 DEF GrowNoSpace, TypeOK
    <3>2. CASE IoError(t)
      <4>1. torn' \in BOOLEAN
        BY <3>2, Zenon DEF IoError
      <4>2. faults' \in 0..MaxFaults
        BY <3>2, FileAssumption DEF IoError, TypeOK
      <4> QED BY <3>2, <4>1, <4>2 DEF IoError, TypeOK
    <3> QED BY <1>1, <3>1, <3>2
  <2>2. TypeOK'
    BY <2>1, NeededGrows, FileAssumption DEF TypeOK, EndCall, Goto, None
  <2>3. (\A g \in Slot : EntryOK(g)') /\ OneHandleEach'
    BY <2>1 DEF EntryOK, OneHandleEach
  <2>4. \A u \in Thread : HandleOK(u)' /\ CallOK(u)'
    BY <2>1 DEF HandleOK, CallOK, TypeOK, EndCall, Goto
  <2> QED BY <2>2, <2>3, <2>4
<1>2. ASSUME Crash PROVE HandlesOK'
  <2>1. Closed \in [place : Slot \union {"none"}, start : Cluster \union {None}, size : 0..MaxSize]
    BY FileAssumption DEF Closed
  <2>2. torn' \in BOOLEAN /\ faults' \in 0..MaxFaults
    BY <1>2, FileAssumption DEF Crash, TypeOK, HalfShrunk, Shrinking
  <2>3. TypeOK'
    BY <1>2, <2>1, <2>2, NeededGrows, FileAssumption DEF Crash, TypeOK
  <2>4. (\A g \in Slot : EntryOK(g)') /\ OneHandleEach'
    BY <1>2 DEF Crash, EntryOK, OneHandleEach, Closed
  <2>5. \A u \in Thread : HandleOK(u)' /\ CallOK(u)'
    BY <1>2 DEF Crash, HandleOK, CallOK, Closed
  <2> QED BY <2>3, <2>4, <2>5
<1> QED BY <1>1, <1>2

\* Every step keeps HandlesOK.
LEMMA HandlesStep == HandlesOK /\ [Next]_vars => HandlesOK'
<1> SUFFICES ASSUME HandlesOK, [Next]_vars PROVE HandlesOK'
  OBVIOUS
<1>1. CASE UNCHANGED vars
  BY <1>1 DEF HandlesOK, TypeOK, EntryOK, HandleOK, CallOK, OneHandleEach,
              vars, disk, locals, history
<1>2. CASE Next
  BY <1>2, HandlesCreate, HandlesOpen, HandlesClose, HandlesBegin, HandlesGrow, HandlesShrink,
     HandlesStore, HandlesUnlink, HandlesFreeNext, HandlesFailure
     DEF Next, Step
<1> QED BY <1>1, <1>2

\* Every variable has its type, whatever fails and whenever the system crashes.
\* In particular the counts of clusters to add and to remove never wrap, and no
\* walk, link or release is given a cluster that does not exist.
THEOREM TypesStay == Spec => []TypeOK
<1>1. HandlesOK => TypeOK
  BY DEF HandlesOK
<1> QED BY <1>1, HandlesInit, HandlesStep, PTL DEF Spec

\* A handle that is not in a call agrees with the entry on the disk: callers that
\* keep to one handle per file never write a stale size or start cluster back,
\* also after any number of failed calls and crashes.
THEOREM HandlesStayCurrent == Spec => []HandleCurrent
<1>1. HandlesOK => HandleCurrent
  BY FileAssumption DEF HandlesOK, HandleOK, HandleCurrent, Closed, TypeOK
<1> QED BY <1>1, HandlesInit, HandlesStep, PTL DEF Spec

-----------------------------------------------------------------------------
(* Roots and the chains that begin at them *)

\* A root is a cluster.
LEMMA RootsAreClusters ==
    HandlesOK =>
      /\ Roots \subseteq Cluster
      /\ \A f \in Slot : Start(f) # None => Start(f) \in Roots
      /\ \A t \in Thread : New(t) # None => New(t) \in Roots
      /\ \A t \in Thread : Pending(t) # None => Pending(t) \in Roots
<1> SUFFICES ASSUME HandlesOK
             PROVE  /\ Roots \subseteq Cluster
                    /\ \A f \in Slot : Start(f) # None => Start(f) \in Roots
                    /\ \A t \in Thread : New(t) # None => New(t) \in Roots
                    /\ \A t \in Thread : Pending(t) # None => Pending(t) \in Roots
  OBVIOUS
<1>1. \A f \in Slot : Start(f) \in Cluster \union {None}
  BY DEF HandlesOK, TypeOK, Start
<1>2. \A t \in Thread : New(t) \in Cluster \union {None} /\ Pending(t) \in Cluster \union {None}
  BY DEF HandlesOK, TypeOK, New, Pending
<1> QED BY <1>1, <1>2 DEF Roots

\* What every root after a step must be.
LEMMA RootsWithin ==
    ASSUME NEW X, \A f \in Slot : Start(f)' \in X \union {None},
           \A t \in Thread : New(t)' \in X \union {None} /\ Pending(t)' \in X \union {None}
    PROVE  Roots' \subseteq X
  BY DEF Roots

\* The number of clusters of a chain.
LEMMA ChainLength ==
    ASSUME NEW F
    PROVE  \A c \in Cluster : IsFiniteSet(Chain(F, c)) /\ Cardinality(Chain(F, c)) \in Nat
<1> SUFFICES ASSUME NEW c \in Cluster
             PROVE  IsFiniteSet(Chain(F, c)) /\ Cardinality(Chain(F, c)) \in Nat
  OBVIOUS
<1>1. IsFiniteSet(Cluster)
  BY ClusterCountAssumption, FS_Interval DEF Cluster
<1>2. Chain(F, c) \subseteq Cluster
  BY ChainFollows
<1> QED BY <1>1, <1>2, FS_Subset, FS_CardinalityType

LEMMA EmptyChain == ChainOf(None) = {} /\ Cardinality(ChainOf(None)) = 0
  BY FS_EmptySet DEF ChainOf

\* The file of an open handle answers for its start, until a call has cut it off.
LEMMA HeldStart ==
    ASSUME HandlesOK, ChainsOK, NEW t \in Thread,
           handle[t].place # "none", handle[t].size > 0, t \notin emptied
    PROVE  /\ handle[t].place \in Slot
           /\ handle[t].start = entry[handle[t].place].start
           /\ handle[t].start = Start(handle[t].place)
           /\ handle[t].start \in Cluster
           /\ handle[t].start \in Roots
<1>1. handle[t].place \in Slot /\ handle[t].start = entry[handle[t].place].start
  BY DEF HandlesOK, TypeOK, HandleOK
<1>2. handle[t].start # None
  BY <1>1 DEF HandlesOK, TypeOK, HandleOK, EntryOK
<1>3. \A u \in emptied : handle[u].place # handle[t].place
  BY DEF HandlesOK, TypeOK, OneHandleEach
<1>4. handle[t].start = Start(handle[t].place)
  BY <1>1, <1>2, <1>3 DEF Start, Owners
<1>5. handle[t].start \in Cluster /\ handle[t].start \in Roots
  BY <1>1, <1>2, <1>4, RootsAreClusters
<1> QED BY <1>1, <1>4, <1>5

-----------------------------------------------------------------------------
(* What a step leaves alone *)

\* The step leaves the chain from c as it is.
Safe(c) == /\ Chain(link', c) = Chain(link, c)
           /\ \A d \in Chain(link, c) : link'[d] = link[d]

\* It is no step of a call other than t's.
Others(t) == \A u \in Thread \ {t} :
    /\ handle'[u] = handle[u] /\ pc'[u] = pc[u]
    /\ target'[u] = target[u] /\ todo'[u] = todo[u]
    /\ first'[u] = first[u] /\ last'[u] = last[u] /\ current'[u] = current[u]
    /\ u \in emptied' <=> u \in emptied

\* t and its file answer for c.
Mine(t, c) == c = New(t) \/ c = Pending(t) \/ \E f \in Slot : handle[t].place = f /\ c = Start(f)

\* A write to a chain leaves all others alone.
LEMMA WriteIsSafe ==
    ASSUME HandlesOK, ChainsOK, NEW r \in Roots, NEW e \in Chain(link, r),
           \A d \in Cluster : d # e => link'[d] = link[d]
    PROVE  \A c \in Roots : c # r => Safe(c)
<1> SUFFICES ASSUME NEW c \in Roots, c # r PROVE Safe(c)
  OBVIOUS
<1>1. c \in Cluster /\ r \in Cluster
  BY RootsAreClusters
<1>2. Chain(link, c) \cap Chain(link, r) = {}
  BY RootsAreClusters, ChainsDisjoint DEF ChainsOK
<1>3. \A d \in Chain(link, c) : link'[d] = link[d]
  BY <1>1, <1>2, ChainFollows DEF HandlesOK, TypeOK, Table
<1> QED BY <1>1, <1>3, ChainKept DEF Safe

\* So does taking a free cluster, which then is a chain of its own.
LEMMA TakeIsSafe ==
    ASSUME HandlesOK, ChainsOK, NEW c \in FreeClusters(link),
           link' = [link EXCEPT ![c] = EndOfChain]
    PROVE  /\ \A r \in Roots : Safe(r)
           /\ c \in Cluster /\ c \notin Roots
           /\ link'[c] = EndOfChain
           /\ Chain(link', c) = {c}
           /\ WellFormed(link', Roots \union {c})
<1>1. c \in Cluster /\ link[c] = Free /\ link \in Table /\ Roots \in SUBSET Cluster
  BY RootsAreClusters DEF HandlesOK, TypeOK, FreeClusters
<1>2. WellFormed(link', Roots) /\ Detached(link', Roots, c)
  BY <1>1, TakeKeeps DEF ChainsOK
<1>3. link'[c] = EndOfChain /\ Chain(link', c) = {c}
  BY <1>1, ChainOfOne, MarksAreNotClusters DEF Table, IsData
<1>4. ASSUME NEW r \in Roots PROVE Safe(r)
  <2>1. c \notin Chain(link, r)
    BY <1>1, ChainInUse, MarksAreNotClusters DEF ChainsOK, InChain, IsData
  <2>2. \A d \in Chain(link, r) : link'[d] = link[d]
    BY <1>1, <2>1, ChainFollows DEF Table
  <2> QED BY <1>1, <2>2, ChainKept DEF Safe
<1>5. WellFormed(link', Roots \union {c})
  BY <1>1, <1>2, RegisterKeeps, TakeKeeps DEF ChainsOK
<1> QED BY <1>1, <1>2, <1>3, <1>4, <1>5 DEF Detached

LEMMA NoWriteIsSafe == ASSUME link' = link PROVE \A c : Safe(c)
  BY DEF Safe

\* A call that does not step keeps what it knows when its chains are left alone.
LEMMA OtherCallsKeep ==
    ASSUME HandlesOK, ChainsOK, NEW t \in Thread, Others(t),
           \A c \in Roots : Mine(t, c) \/ Safe(c)
    PROVE  \A u \in Thread : u # t =>
              /\ GrowOK(u)' /\ ShrinkOK(u)'
              /\ New(u)' = New(u) /\ Pending(u)' = Pending(u)
              /\ CallExact(u) => CallExact(u)'
<1> SUFFICES ASSUME NEW u \in Thread, u # t
             PROVE  /\ GrowOK(u)' /\ ShrinkOK(u)'
                    /\ New(u)' = New(u) /\ Pending(u)' = Pending(u)
                    /\ CallExact(u) => CallExact(u)'
  OBVIOUS
<1>1. New(u)' = New(u) /\ Pending(u)' = Pending(u)
  BY DEF Others, New, Pending
<1>2. New(u) # None => Safe(New(u))
  BY RootsAreClusters DEF ChainsOK, OneAnswers, Mine
<1>3. Pending(u) # None => Safe(Pending(u))
  BY RootsAreClusters DEF ChainsOK, OneAnswers, Mine
<1>4. ASSUME handle[u].place # "none", handle[u].size > 0, u \notin emptied
      PROVE  Safe(handle[u].start) /\ handle[u].start # None
  <2>1. /\ handle[u].place \in Slot /\ handle[u].start = Start(handle[u].place)
        /\ handle[u].start # None /\ handle[u].start \in Roots
    BY <1>4, HeldStart, NoneIsNoCluster
  <2>2. handle[t].place # handle[u].place
    BY <1>4 DEF HandlesOK, OneHandleEach
  <2>3. ~Mine(t, handle[u].start)
    BY <2>1, <2>2 DEF ChainsOK, OneAnswers, Mine
  <2> QED BY <2>1, <2>3
<1>5. GrowOK(u) /\ ShrinkOK(u) /\ CallOK(u)
  BY DEF HandlesOK, ChainsOK
<1>6. Growing(u) /\ Grown(u) # None => Safe(Grown(u))
  <2> SUFFICES ASSUME Growing(u), Grown(u) # None PROVE Safe(Grown(u))
    OBVIOUS
  <2>1. u \notin emptied /\ handle[u].place # "none" /\ handle[u].size \in Nat
    BY <1>5, FileAssumption DEF Growing, ShrinkOK, Shrinking, CallOK, HandlesOK, TypeOK
  <2>2. CASE handle[u].size = 0
    BY <1>2, <2>2 DEF Grown, New, Growing
  <2>3. CASE handle[u].size > 0
    BY <1>4, <2>1, <2>3 DEF Grown
  <2> QED BY <2>1, <2>2, <2>3
<1>7. /\ Grown(u)' = Grown(u) /\ (Growing(u)' <=> Growing(u))
      /\ (Shrinking(u)' <=> Shrinking(u)) /\ handle'[u] = handle[u]
  BY DEF Others, Grown, Growing, Shrinking
<1>8. Growing(u) => ChainOf(Grown(u))' = ChainOf(Grown(u))
  BY <1>6, <1>7 DEF ChainOf, Safe
<1>9. Shrinking(u) /\ u \notin emptied => ChainOf(handle[u].start)' = ChainOf(handle[u].start)
  <2> SUFFICES ASSUME Shrinking(u), u \notin emptied
               PROVE  ChainOf(handle[u].start)' = ChainOf(handle[u].start)
    OBVIOUS
  <2>1. handle[u].place # "none" /\ handle[u].size > 0
    BY <1>5, FileAssumption DEF Shrinking, CallOK, HandlesOK, TypeOK
  <2> QED BY <1>4, <1>7, <2>1 DEF ChainOf, Safe
<1>10. pc[u] \in {"link", "release"} => link'[current[u]] = link[current[u]]
  <2> SUFFICES ASSUME pc[u] \in {"link", "release"} PROVE link'[current[u]] = link[current[u]]
    OBVIOUS
  <2>1. Pending(u) = current[u] /\ current[u] \in Cluster
    BY <1>5 DEF Pending, CallOK
  <2> QED BY <1>3, <2>1, ChainFollows, NoneIsNoCluster DEF Safe
<1>11. GrowOK(u)'
  <2>1. pc[u] \in {"grow", "link"} => Growing(u)
    BY <1>5 DEF CallOK, Growing
  <2>2. pc[u] \in {"grow", "link"} /\ last[u] # None
            => last[u] \in ChainOf(Grown(u))' /\ link'[last[u]] = EndOfChain
    BY <1>5, <1>6, <1>8, <2>1, EmptyChain DEF GrowOK, Safe, ChainOf
  <2> QED BY <1>5, <1>7, <1>8, <1>10, <2>2 DEF GrowOK, Others
<1>12. ShrinkOK(u)'
  BY <1>5, <1>7, <1>9 DEF ShrinkOK, Others
<1>13. CallExact(u) => CallExact(u)'
  BY <1>7, <1>8, <1>9, <1>10 DEF CallExact, Others
<1> QED BY <1>1, <1>11, <1>12, <1>13

\* A file keeps its length when its chain and its entry are left alone.
LEMMA OtherFilesKeep ==
    ASSUME HandlesOK, ChainsOK, NEW f \in Slot, entry'[f] = entry[f],
           (\A t \in Thread : handle'[t].place = f => ~Shrinking(t)')
               => \A t \in Thread : handle[t].place = f => ~Shrinking(t),
           Start(f) # None => Safe(Start(f))
    PROVE  LongEnough(f)'
<1> SUFFICES ASSUME \A t \in Thread : handle'[t].place = f => ~Shrinking(t)'
             PROVE  Cardinality(ChainOf(entry[f].start))' >= Needed(entry'[f].size)
  BY DEF LongEnough
<1>1. Cardinality(ChainOf(entry[f].start)) >= Needed(entry[f].size)
  BY DEF ChainsOK, LongEnough
<1>2. entry[f].start # None => Start(f) = entry[f].start
  BY DEF Start, Owners, ChainsOK, ShrinkOK, HandlesOK, TypeOK
<1>3. ChainOf(entry[f].start)' = ChainOf(entry[f].start)
  BY <1>2 DEF ChainOf, Safe
<1> QED BY <1>1, <1>3

\* The entries answer for the same roots when neither they nor who holds them change.
LEMMA StartsKept ==
    ASSUME HandlesOK, entry' = entry, emptied' = emptied,
           \A u \in Thread : handle'[u].place = handle[u].place
    PROVE  \A f \in Slot : Start(f)' = Start(f)
  BY DEF HandlesOK, TypeOK, Start, Owners

\* Fewer roots answered for, in the same table.
LEMMA FewerRoots ==
    ASSUME HandlesOK, ChainsOK, link' = link,
           \A f \in Slot : Start(f)' = Start(f) \/ Start(f)' = None,
           \A t \in Thread : /\ New(t)' = New(t) \/ New(t)' = None
                             /\ Pending(t)' = Pending(t) \/ Pending(t)' = None
    PROVE  WellFormed(link', Roots') /\ OneAnswers'
<1>1. Roots' \subseteq Roots
  <2>1. \A f \in Slot : Start(f)' \in Roots \union {None}
    BY RootsAreClusters
  <2>2. \A t \in Thread : New(t)' \in Roots \union {None} /\ Pending(t)' \in Roots \union {None}
    BY RootsAreClusters
  <2> QED BY <2>1, <2>2, RootsWithin
<1>2. WellFormed(link', Roots')
  BY <1>1, FewerHeads DEF ChainsOK
<1>3. OneAnswers'
  BY DEF ChainsOK, OneAnswers
<1> QED BY <1>2, <1>3

\* Who is shortening a file stays the same when it does for t.
LEMMA SameShrinkers ==
    ASSUME NEW t \in Thread, Others(t), NEW f,
           handle[t].place = f /\ Shrinking(t) => handle'[t].place = f /\ Shrinking(t)'
    PROVE  (\A u \in Thread : handle'[u].place = f => ~Shrinking(u)')
               => \A u \in Thread : handle[u].place = f => ~Shrinking(u)
  BY DEF Others, Shrinking

\* The same for the exact length.
LEMMA OtherFilesExact ==
    ASSUME HandlesOK, ChainsOK, NEW t \in Thread, Others(t),
           NEW f \in Slot, entry'[f] = entry[f], FileExact(f),
           handle[t].place = f /\ Changing(t) => handle'[t].place = f /\ Changing(t)',
           Start(f) # None => Safe(Start(f))
    PROVE  FileExact(f)'
<1> SUFFICES ASSUME \A u \in Thread : handle'[u].place = f => ~Changing(u)'
             PROVE  Cardinality(ChainOf(entry[f].start))' = Needed(entry'[f].size)
  BY DEF FileExact
<1>1. \A u \in Thread : handle[u].place = f => ~Changing(u)
  BY DEF Others, Changing, Shrinking, Growing
<1>2. entry[f].start # None => Start(f) = entry[f].start
  BY <1>1 DEF Start, Owners, ChainsOK, ShrinkOK, HandlesOK, TypeOK, Changing
<1>3. ChainOf(entry[f].start)' = ChainOf(entry[f].start)
  BY <1>2 DEF ChainOf, Safe
<1> QED BY <1>1, <1>3 DEF FileExact

\* What becomes of the roots.
LEMMA RootIs ==
    ASSUME NEW r \in Roots
    PROVE  /\ r # None
           /\ \/ \E f \in Slot : r = Start(f)
              \/ \E t \in Thread : r = New(t) \/ r = Pending(t)
  BY DEF Roots

LEMMA RootAfter ==
    ASSUME NEW r, r # None,
           \/ \E f \in Slot : r = Start(f)'
           \/ \E t \in Thread : r = New(t)' \/ r = Pending(t)'
    PROVE  r \in Roots'
  BY DEF Roots

LEMMA RootsKept ==
    ASSUME link' = link, \A f \in Slot : Start(f)' = Start(f),
           \A t \in Thread : New(t)' = New(t) /\ Pending(t)' = Pending(t),
           Covered
    PROVE  Covered'
<1>1. Roots' = Roots
  BY DEF Roots
<1> QED BY <1>1 DEF Covered

ExactStep == ~failed' /\ Exact => Exact'

-----------------------------------------------------------------------------
(* What a step does to the pool of clusters *)

\* ClusterPool speaks of the same tables.
LEMMA SameTable ==
    /\ Pool!Free = Free /\ Pool!EndOfChain = EndOfChain /\ Pool!Cluster = Cluster
    /\ Pool!Table = Table
    /\ \A v : Pool!IsData(v) = IsData(v)
    /\ \A F, H, c : Pool!Detached(F, H, c) = Detached(F, H, c)
    /\ \A F, H : Pool!WellFormed(F, H) = WellFormed(F, H)
<1> USE DEF Pool!Free, Free, Pool!EndOfChain, EndOfChain, Pool!Cluster, Cluster, Pool!IsData,
        IsData, Pool!InChain, InChain, Pool!Linked, Linked
<1>1. Pool!Table = Table
  BY DEF Pool!Table, Table, Pool!FatValue, FatValue, Pool!Bad, Bad
<1>2. \A F, H, c : Pool!Detached(F, H, c) = Detached(F, H, c)
  BY DEF Pool!Detached, Detached
<1>3. \A F, H : Pool!WellFormed(F, H) = WellFormed(F, H)
  BY DEF Pool!WellFormed, WellFormed, Pool!LinksInUse, LinksInUse, Pool!LinksInjective,
         LinksInjective, Pool!HeadsInUse, HeadsInUse, Pool!HeadsUnlinked, HeadsUnlinked
<1> QED BY <1>1, <1>2, <1>3

PoolStep == Pool!Next \/ UNCHANGED <<link, Heads>>

\* The heads of the pool are the roots the entries answer for,
LEMMA HeadsAreStarts == Heads = {Start(f) : f \in Slot} \ {None}
  BY DEF Heads, Start, Owners

\* also after a step.
LEMMA HeadsAfter == Heads' = {Start(f)' : f \in Slot} \ {None}
  BY DEF Heads, Start, Owners

LEMMA HeadsKept ==
    ASSUME \A f \in Slot : Start(f)' = Start(f) PROVE Heads' = Heads
  BY HeadsAreStarts, HeadsAfter

LEMMA HeadsAreRoots == HandlesOK => Heads \subseteq Roots /\ Roots \subseteq Cluster
  BY HeadsAreStarts, RootsAreClusters

\* A root no entry answers for is detached from what the entries lead to.
LEMMA OtherRootsDetached ==
    ASSUME HandlesOK, ChainsOK, NEW c \in Roots, \A f \in Slot : Start(f) # c
    PROVE  Detached(link, Heads, c)
  BY HeadsAreStarts, HeadsAreRoots DEF ChainsOK, WellFormed, HeadsInUse, HeadsUnlinked, Detached

\* The entry in place p begins or ceases to answer for a root.
LEMMA HeadsChange ==
    ASSUME HandlesOK, ChainsOK, link' = link, NEW p \in Slot,
           \A g \in Slot : g # p => Start(g)' = Start(g),
           \/ Start(p)' = None \/ Start(p)' = Start(p)
           \/ Start(p) = None /\ Start(p)' \in Roots /\ \A g \in Slot : Start(g) # Start(p)'
    PROVE  PoolStep
<1>1. CASE Start(p)' = Start(p)
  BY <1>1, HeadsKept DEF PoolStep
<1>2. CASE Start(p)' = None /\ Start(p) # None
  <2>1. PICK c \in Cluster : c = Start(p) /\ c \in Heads
    BY <1>2, HeadsAreStarts, HeadsAreRoots
  <2>2. \A g \in Slot : g # p => Start(g) # c
    BY <1>2, <2>1 DEF ChainsOK, OneAnswers
  <2>3. Heads' = Heads \ {c}
    BY <1>2, <2>1, <2>2, HeadsAreStarts, HeadsAfter
  <2>4. Pool!Drop(c)
    BY <2>1, <2>3, SameTable DEF Pool!Drop
  <2> QED BY <2>1, <2>4, SameTable DEF PoolStep, Pool!Next
<1>3. CASE Start(p) = None /\ Start(p)' # None
  <2>1. PICK c \in Cluster : c = Start(p)' /\ c \in Roots
    BY <1>3, HeadsAreRoots
  <2>2. Heads' = Heads \union {c}
    BY <1>3, <2>1, HeadsAreStarts, HeadsAfter
  <2>3. Detached(link, Heads, c)
    BY <1>3, <2>1, OtherRootsDetached
  <2>4. Pool!Register(c)
    BY <2>2, <2>3, SameTable DEF Pool!Register
  <2> QED BY <2>1, <2>4, SameTable DEF PoolStep, Pool!Next
<1> QED BY <1>1, <1>2, <1>3

\* The four writes.
LEMMA PoolTake ==
    ASSUME NEW c \in FreeClusters(link), link' = [link EXCEPT ![c] = EndOfChain],
           \A f \in Slot : Start(f)' = Start(f)
    PROVE  PoolStep
<1>1. Pool!Take(c) /\ c \in Cluster
  BY HeadsKept, SameTable DEF Pool!Take, FreeClusters
<1> QED BY <1>1, SameTable DEF PoolStep, Pool!Next

LEMMA PoolAppend ==
    ASSUME HandlesOK, ChainsOK, NEW l \in Cluster, NEW c \in Roots, l # c,
           link[l] = EndOfChain, link[c] = EndOfChain, \A f \in Slot : Start(f) # c,
           link' = [link EXCEPT ![l] = c],
           \A f \in Slot : Start(f)' = Start(f)
    PROVE  PoolStep
<1>1. Detached(link, Heads, c) /\ c \in Cluster
  BY OtherRootsDetached, HeadsAreRoots
<1>2. Pool!Append(l, c)
  BY <1>1, HeadsKept, SameTable DEF Pool!Append
<1> QED BY <1>1, <1>2, SameTable DEF PoolStep, Pool!Next

LEMMA PoolCut ==
    ASSUME NEW q \in Cluster, IsData(link[q]), link' = [link EXCEPT ![q] = EndOfChain],
           \A f \in Slot : Start(f)' = Start(f)
    PROVE  PoolStep
<1>1. Pool!Cut(q)
  BY HeadsKept, SameTable DEF Pool!Cut
<1> QED BY <1>1, SameTable DEF PoolStep, Pool!Next

LEMMA PoolRelease ==
    ASSUME HandlesOK, ChainsOK, NEW c \in Roots, \A f \in Slot : Start(f) # c,
           link' = [link EXCEPT ![c] = Free],
           \A f \in Slot : Start(f)' = Start(f)
    PROVE  PoolStep
<1>1. Detached(link, Heads, c) /\ c \in Cluster
  BY OtherRootsDetached, HeadsAreRoots
<1>2. Pool!Release(c)
  BY <1>1, HeadsKept, SameTable DEF Pool!Release
<1> QED BY <1>1, <1>2, SameTable DEF PoolStep, Pool!Next

-----------------------------------------------------------------------------
(* ChainsOK: the steps that write nothing to the table *)

LEMMA ChainsCreate ==
    ASSUME HandlesOK, ChainsOK, NEW f \in Slot, Create(f)
    PROVE  ChainsOK' /\ PoolStep /\ ExactStep
<1> USE DEF Create, vars, disk, locals, history
<1>1. entry[f].start = None /\ entry'[f] = [used |-> TRUE, start |-> None, size |-> 0]
  BY DEF HandlesOK, TypeOK, EntryOK, Unused
<1>2. \A g \in Slot : g # f => entry'[g] = entry[g]
  BY DEF HandlesOK, TypeOK
<1>3. \A g \in Slot : Start(g)' = Start(g)
  BY <1>1, <1>2 DEF Start, Owners
<1>4. \A t \in Thread : New(t)' = New(t) /\ Pending(t)' = Pending(t)
  BY DEF New, Pending
<1>5. \A t \in Thread : GrowOK(t)' /\ ShrinkOK(t)'
  BY DEF ChainsOK, GrowOK, ShrinkOK, Grown, Growing, Shrinking, ChainOf
<1>6. ASSUME NEW g \in Slot PROVE LongEnough(g)'
  <2>1. CASE g = f
    BY <1>1, <2>1, EmptyChain, NeededGrows DEF LongEnough, ChainOf
  <2>2. CASE g # f
    BY <1>2, <2>2, NoWriteIsSafe, OtherFilesKeep DEF Shrinking
  <2> QED BY <2>1, <2>2
<1>7. PoolStep
  BY <1>3, HeadsKept DEF PoolStep
<1>8. ExactStep
  <2> SUFFICES ASSUME Exact PROVE Exact'
    BY DEF ExactStep
  <2>1. Covered'
    BY <1>3, <1>4, RootsKept DEF Exact
  <2>2. \A t \in Thread : CallExact(t)'
    BY DEF Exact, CallExact, Grown, Growing, Shrinking, ChainOf
  <2>3. ASSUME NEW g \in Slot PROVE FileExact(g)'
    <3>1. CASE g = f
      BY <1>1, <3>1, EmptyChain, NeededGrows DEF FileExact, ChainOf
    <3>2. CASE g # f
      BY <1>2, <3>2 DEF Exact, FileExact, ChainOf, Changing, Growing, Shrinking
    <3> QED BY <3>1, <3>2
  <2> QED BY <2>1, <2>2, <2>3 DEF Exact
<1> QED BY <1>3, <1>4, <1>5, <1>6, FewerRoots, <1>7, <1>8 DEF ChainsOK

LEMMA ChainsOpen ==
    ASSUME HandlesOK, ChainsOK, NEW t \in Thread, NEW f \in Slot, Open(t, f)
    PROVE  ChainsOK' /\ PoolStep /\ ExactStep
<1> USE DEF Open, vars, disk, locals, history
<1>1. Others(t) /\ pc[t] = "idle" /\ pc'[t] = "idle" /\ t \notin emptied
  BY DEF HandlesOK, TypeOK, ChainsOK, ShrinkOK, Shrinking, Others
<1>2. \A g \in Slot : Start(g)' = Start(g)
  BY <1>1 DEF HandlesOK, TypeOK, Start, Owners
<1>3. \A u \in Thread : u # t => /\ GrowOK(u)' /\ ShrinkOK(u)'
                                 /\ New(u)' = New(u) /\ Pending(u)' = Pending(u)
  BY <1>1, NoWriteIsSafe, OtherCallsKeep
<1>0. New(t) = None /\ Pending(t) = None
  BY DEF New, Pending
<1>4. New(t)' = None /\ Pending(t)' = None /\ GrowOK(t)' /\ ShrinkOK(t)'
  BY <1>1 DEF New, Pending, GrowOK, ShrinkOK, Growing, Shrinking
<1>5. \A g \in Slot : LongEnough(g)'
  BY <1>1, NoWriteIsSafe, SameShrinkers, OtherFilesKeep DEF Shrinking
<1>6. PoolStep
  BY <1>2, HeadsKept DEF PoolStep
<1>7. ExactStep
  <2> SUFFICES ASSUME Exact PROVE Exact'
    BY DEF ExactStep
  <2>1. Covered'
    BY <1>0, <1>2, <1>3, <1>4, RootsKept DEF Exact
  <2>2. CallExact(t)'
    BY <1>1 DEF CallExact, Growing, Shrinking
  <2>3. \A u \in Thread : u # t => CallExact(u)'
    BY <1>1, NoWriteIsSafe, OtherCallsKeep DEF Exact
  <2>4. \A g \in Slot : FileExact(g)'
    BY <1>1, NoWriteIsSafe, OtherFilesExact DEF Exact, Changing, Growing, Shrinking
  <2> QED BY <2>1, <2>2, <2>3, <2>4 DEF Exact
<1> QED BY <1>2, <1>3, <1>4, <1>5, FewerRoots, <1>6, <1>7 DEF ChainsOK

LEMMA ChainsClose ==
    ASSUME HandlesOK, ChainsOK, NEW t \in Thread, Close(t)
    PROVE  ChainsOK' /\ PoolStep /\ ExactStep
<1> USE DEF Close, vars, disk, locals, history
<1>1. Others(t) /\ pc[t] = "idle" /\ pc'[t] = "idle" /\ t \notin emptied
  BY DEF HandlesOK, TypeOK, ChainsOK, ShrinkOK, Shrinking, Others
<1>2. \A g \in Slot : Start(g)' = Start(g)
  BY <1>1 DEF HandlesOK, TypeOK, Start, Owners
<1>3. \A u \in Thread : u # t => /\ GrowOK(u)' /\ ShrinkOK(u)'
                                 /\ New(u)' = New(u) /\ Pending(u)' = Pending(u)
  BY <1>1, NoWriteIsSafe, OtherCallsKeep
<1>0. New(t) = None /\ Pending(t) = None
  BY DEF New, Pending
<1>4. New(t)' = None /\ Pending(t)' = None /\ GrowOK(t)' /\ ShrinkOK(t)'
  BY <1>1 DEF New, Pending, GrowOK, ShrinkOK, Growing, Shrinking
<1>5. \A g \in Slot : LongEnough(g)'
  BY <1>1, NoWriteIsSafe, SameShrinkers, OtherFilesKeep DEF Shrinking
<1>6. PoolStep
  BY <1>2, HeadsKept DEF PoolStep
<1>7. ExactStep
  <2> SUFFICES ASSUME Exact PROVE Exact'
    BY DEF ExactStep
  <2>1. Covered'
    BY <1>0, <1>2, <1>3, <1>4, RootsKept DEF Exact
  <2>2. CallExact(t)'
    BY <1>1 DEF CallExact, Growing, Shrinking
  <2>3. \A u \in Thread : u # t => CallExact(u)'
    BY <1>1, NoWriteIsSafe, OtherCallsKeep DEF Exact
  <2>4. \A g \in Slot : FileExact(g)'
    BY <1>1, NoWriteIsSafe, OtherFilesExact DEF Exact, Changing, Growing, Shrinking
  <2> QED BY <2>1, <2>2, <2>3, <2>4 DEF Exact
<1> QED BY <1>2, <1>3, <1>4, <1>5, FewerRoots, <1>6, <1>7 DEF ChainsOK

LEMMA ChainsBeginGrow ==
    ASSUME HandlesOK, ChainsOK, NEW t \in Thread, NEW n \in 0..MaxSize, BeginGrow(t, n)
    PROVE  ChainsOK' /\ PoolStep /\ ExactStep
<1> USE DEF BeginGrow, vars, disk, locals, history
<1>0. /\ handle[t].place \in Slot /\ handle[t].size \in Nat
      /\ t \in Thread /\ target'[t] = n /\ n > handle[t].size
      /\ todo'[t] = Needed(n) - Needed(handle[t].size)
      /\ handle[t].size = entry[handle[t].place].size
      /\ FromEmpty(t) <=> handle[t].size = 0
  BY FileAssumption DEF HandlesOK, TypeOK, HandleOK, EntryOK, FromEmpty
<1>1. Others(t) /\ pc[t] = "idle" /\ pc'[t] = "grow" /\ t \notin emptied
  BY DEF HandlesOK, TypeOK, ChainsOK, ShrinkOK, Shrinking, Others, Goto
<1>2. \A g \in Slot : Start(g)' = Start(g)
  BY StartsKept
<1>3. \A u \in Thread : u # t => /\ GrowOK(u)' /\ ShrinkOK(u)'
                                 /\ New(u)' = New(u) /\ Pending(u)' = Pending(u)
  BY <1>1, NoWriteIsSafe, OtherCallsKeep
<1>4. /\ handle[t].size = 0 => first'[t] = None /\ last'[t] = None
      /\ handle[t].size > 0 => last'[t] = LastOf(handle[t].start)
  BY <1>0 DEF HandlesOK, TypeOK
<1>5. New(t)' = None /\ Pending(t)' = None /\ ShrinkOK(t)'
  BY <1>0, <1>1, <1>4 DEF New, Pending, ShrinkOK, Shrinking
<1>6. GrowOK(t)'
  <2>1. CASE handle[t].size = 0
    BY <1>0, <1>1, <1>4, <2>1, EmptyChain, NeededGrows DEF GrowOK, Grown, Growing, ChainOf
  <2>2. CASE handle[t].size > 0
    <3>1. /\ handle[t].start = entry[handle[t].place].start
          /\ handle[t].start \in Cluster /\ handle[t].start \in Roots
      BY <1>0, <1>1, <2>2, FileAssumption, HeldStart
    <3>2. \A u \in Thread : handle[u].place = handle[t].place => ~Shrinking(u)
      BY <1>0, <1>1, FileAssumption DEF HandlesOK, OneHandleEach, Shrinking
    <3>3. Cardinality(ChainOf(handle[t].start)) >= Needed(handle[t].size)
      BY <1>0, <3>1, <3>2 DEF ChainsOK, LongEnough
    <3>4. ChainOf(handle[t].start) = Chain(link, handle[t].start)
      BY <3>1, NoneIsNoCluster DEF ChainOf
    <3>5. last'[t] \in ChainOf(handle[t].start) /\ ~IsData(link[last'[t]])
      BY <1>0, <1>4, <2>2, <3>1, <3>4, WalkToTheEnd
    <3>6. link[last'[t]] = EndOfChain
      BY <3>1, <3>4, <3>5, ChainInUse, RootsAreClusters DEF ChainsOK, InChain
    <3>7. Cardinality(ChainOf(handle[t].start)) + todo'[t] >= Needed(n)
      <4>1. Cardinality(ChainOf(handle[t].start)) \in Nat
        BY <3>1, <3>4, ChainLength
      <4>2. Needed(n) \in Nat /\ Needed(handle[t].size) \in Nat
        BY <1>0, NeededGrows, FileAssumption
      <4> QED BY <1>0, <3>3, <4>1, <4>2
    <3>8. Grown(t)' = handle[t].start /\ ChainOf(Grown(t))' = ChainOf(handle[t].start)
      BY <2>2 DEF Grown, ChainOf
    <3> QED BY <1>0, <1>1, <3>5, <3>6, <3>7, <3>8 DEF GrowOK
  <2> QED BY <1>0, <2>1, <2>2
<1>7. \A g \in Slot : LongEnough(g)'
  BY <1>1, NoWriteIsSafe, SameShrinkers, OtherFilesKeep DEF Shrinking
<1>8. PoolStep
  BY <1>2, HeadsKept DEF PoolStep
<1>9. ExactStep
  <2> SUFFICES ASSUME Exact PROVE Exact'
    BY DEF ExactStep
  <2>0. New(t) = None /\ Pending(t) = None
    BY DEF New, Pending
  <2>1. Covered'
    BY <1>2, <1>3, <1>5, <2>0, RootsKept DEF Exact
  <2>2. CallExact(t)'
    <3>1. CASE handle[t].size = 0
      <4>1. Grown(t)' = None /\ ChainOf(Grown(t))' = {}
        BY <1>4, <3>1 DEF Grown, ChainOf
      <4>2. 0 + todo'[t] = Needed(n)
        BY <1>0, <3>1, NeededGrows
      <4> QED BY <1>0, <1>1, <4>1, <4>2, EmptyChain DEF CallExact, Growing, Shrinking, ChainOf
    <3>2. CASE handle[t].size > 0
      <4>1. handle[t].start = entry[handle[t].place].start /\ handle[t].start \in Cluster
        BY <1>0, <1>1, <3>2, FileAssumption, HeldStart
      <4>2. \A u \in Thread : handle[u].place = handle[t].place => ~Changing(u)
        BY <1>0, <1>1, FileAssumption DEF HandlesOK, OneHandleEach, Changing, Growing, Shrinking
      <4>3. Cardinality(ChainOf(handle[t].start)) = Needed(handle[t].size)
        BY <1>0, <4>1, <4>2 DEF Exact, FileExact
      <4>4. Cardinality(ChainOf(handle[t].start)) + todo'[t] = Needed(n)
        BY <1>0, <4>3, NeededGrows, FileAssumption
      <4>5. Grown(t)' = handle[t].start /\ ChainOf(Grown(t))' = ChainOf(handle[t].start)
        BY <3>2 DEF Grown, ChainOf
      <4> QED BY <1>0, <1>1, <4>4, <4>5 DEF CallExact, Growing, Shrinking
    <3> QED BY <1>0, <3>1, <3>2
  <2>3. \A u \in Thread : u # t => CallExact(u)'
    BY <1>1, NoWriteIsSafe, OtherCallsKeep DEF Exact
  <2>4. ASSUME NEW g \in Slot PROVE FileExact(g)'
    <3>1. CASE g = handle[t].place /\ Changing(t)'
      BY <3>1 DEF FileExact
    <3>2. CASE ~(g = handle[t].place /\ Changing(t)')
      BY <1>1, <3>2, NoWriteIsSafe, OtherFilesExact DEF Exact, Changing, Growing, Shrinking
    <3> QED BY <3>1, <3>2
  <2> QED BY <2>1, <2>2, <2>3, <2>4 DEF Exact
<1> QED BY <1>2, <1>3, <1>5, <1>6, <1>7, FewerRoots, <1>8, <1>9 DEF ChainsOK

LEMMA ChainsBeginShrink ==
    ASSUME HandlesOK, ChainsOK, NEW t \in Thread, NEW n \in 0..MaxSize, BeginShrink(t, n)
    PROVE  ChainsOK' /\ PoolStep /\ ExactStep
<1> USE DEF BeginShrink, vars, disk, locals, history
<1>0. /\ handle[t].place \in Slot /\ handle[t].size \in Nat /\ n \in Nat
      /\ target'[t] = n /\ n < handle[t].size
      /\ todo'[t] = Needed(handle[t].size) - Needed(n)
      /\ handle[t].size = entry[handle[t].place].size
  BY FileAssumption DEF HandlesOK, TypeOK, HandleOK
<1>1. Others(t) /\ pc[t] = "idle" /\ pc'[t] = "shrink" /\ t \notin emptied
  BY DEF HandlesOK, TypeOK, ChainsOK, ShrinkOK, Shrinking, Others, Goto
<1>2. \A g \in Slot : Start(g)' = Start(g)
  BY StartsKept
<1>3. \A u \in Thread : u # t => /\ GrowOK(u)' /\ ShrinkOK(u)'
                                 /\ New(u)' = New(u) /\ Pending(u)' = Pending(u)
  BY <1>1, NoWriteIsSafe, OtherCallsKeep
<1>4. New(t)' = None /\ Pending(t)' = None /\ GrowOK(t)'
  BY <1>0, <1>1 DEF New, Pending, GrowOK, Growing
<1>5. ShrinkOK(t)'
  <2>1. /\ handle[t].start = entry[handle[t].place].start
        /\ handle[t].start \in Cluster
    BY <1>0, <1>1, FileAssumption, HeldStart
  <2>2. \A u \in Thread : handle[u].place = handle[t].place => ~Shrinking(u)
    BY <1>0, <1>1, FileAssumption DEF HandlesOK, OneHandleEach, Shrinking
  <2>3. Cardinality(ChainOf(handle[t].start)) >= Needed(handle[t].size)
    BY <1>0, <2>1, <2>2 DEF ChainsOK, LongEnough
  <2>4. Needed(n) \in Nat /\ Needed(handle[t].size) \in Nat
    BY <1>0, NeededGrows
  <2>5. Cardinality(ChainOf(handle[t].start)) \in Nat
    BY <2>1, NoneIsNoCluster, ChainLength DEF ChainOf
  <2>6. Cardinality(ChainOf(handle[t].start)) + 0 >= Needed(n) + todo'[t]
    BY <1>0, <2>3, <2>4, <2>5
  <2>7. ChainOf(handle[t].start)' = ChainOf(handle[t].start)
    BY DEF ChainOf
  <2> QED BY <1>0, <1>1, <2>6, <2>7 DEF ShrinkOK
<1>6. ASSUME NEW g \in Slot PROVE LongEnough(g)'
  <2>1. CASE g = handle[t].place
    BY <1>0, <1>1, <2>1 DEF LongEnough, Shrinking
  <2>2. CASE g # handle[t].place
    BY <1>1, <2>2, NoWriteIsSafe, SameShrinkers, OtherFilesKeep
  <2> QED BY <2>1, <2>2
<1>7. PoolStep
  BY <1>2, HeadsKept DEF PoolStep
<1>8. ExactStep
  <2> SUFFICES ASSUME Exact PROVE Exact'
    BY DEF ExactStep
  <2>0. New(t) = None /\ Pending(t) = None
    BY DEF New, Pending
  <2>1. Covered'
    BY <1>2, <1>3, <1>4, <2>0, RootsKept DEF Exact
  <2>2. CallExact(t)'
    <3>1. handle[t].start = entry[handle[t].place].start /\ handle[t].start \in Cluster
      BY <1>0, <1>1, FileAssumption, HeldStart
    <3>2. \A u \in Thread : handle[u].place = handle[t].place => ~Changing(u)
      BY <1>0, <1>1, FileAssumption DEF HandlesOK, OneHandleEach, Changing, Growing, Shrinking
    <3>3. Cardinality(ChainOf(handle[t].start)) = Needed(handle[t].size)
      BY <1>0, <3>1, <3>2 DEF Exact, FileExact
    <3>4. Cardinality(ChainOf(handle[t].start)) + 0 = Needed(n) + todo'[t]
      BY <1>0, <3>3, NeededGrows
    <3>5. ChainOf(handle[t].start)' = ChainOf(handle[t].start)
      BY DEF ChainOf
    <3> QED BY <1>0, <1>1, <3>4, <3>5 DEF CallExact, Growing, Shrinking
  <2>3. \A u \in Thread : u # t => CallExact(u)'
    BY <1>1, NoWriteIsSafe, OtherCallsKeep DEF Exact
  <2>4. ASSUME NEW g \in Slot PROVE FileExact(g)'
    <3>1. CASE g = handle[t].place
      BY <1>0, <1>1, <3>1 DEF FileExact, Changing, Shrinking
    <3>2. CASE g # handle[t].place
      BY <1>1, <3>2, NoWriteIsSafe, OtherFilesExact DEF Exact
    <3> QED BY <3>1, <3>2
  <2> QED BY <2>1, <2>2, <2>3, <2>4 DEF Exact
<1> QED BY <1>2, <1>3, <1>4, <1>5, <1>6, FewerRoots, <1>7, <1>8 DEF ChainsOK

LEMMA ChainsGrowDone ==
    ASSUME HandlesOK, ChainsOK, NEW t \in Thread, GrowDone(t)
    PROVE  ChainsOK' /\ PoolStep /\ ExactStep
<1> USE DEF GrowDone, vars, disk, locals, history
<1>0. /\ handle[t].size \in Nat /\ target[t] > handle[t].size /\ handle[t].place # "none"
      /\ handle[t].size = 0 => first[t] # None
      /\ FromEmpty(t) <=> handle[t].size = 0
  <2>1. handle[t].place # "none" /\ target[t] > handle[t].size /\ target[t] \in Nat
        /\ handle[t].size \in Nat
    BY FileAssumption DEF HandlesOK, TypeOK, CallOK
  <2>2. handle[t].size = 0 => first[t] # None
    BY <2>1, NeededGrows DEF HandlesOK, CallOK
  <2>3. FromEmpty(t) <=> handle[t].size = 0
    BY <2>1 DEF HandlesOK, TypeOK, HandleOK, EntryOK, FromEmpty
  <2> QED BY <2>1, <2>2, <2>3
<1>1. /\ handle'[t].place = handle[t].place /\ handle'[t].size = handle[t].size
      /\ handle'[t].start = IF handle[t].size = 0 THEN first[t] ELSE handle[t].start
      /\ pc'[t] = "store"
  BY <1>0 DEF HandlesOK, TypeOK, Goto
<1>2. Others(t) /\ t \notin emptied /\ ~Shrinking(t)
  BY <1>0 DEF HandlesOK, TypeOK, ChainsOK, ShrinkOK, Shrinking, Others, Goto
<1>3. \A g \in Slot : Start(g)' = Start(g)
  BY <1>1, <1>2, StartsKept DEF Others
<1>4. \A u \in Thread : u # t => /\ GrowOK(u)' /\ ShrinkOK(u)'
                                 /\ New(u)' = New(u) /\ Pending(u)' = Pending(u)
  BY <1>2, NoWriteIsSafe, OtherCallsKeep
<1>5. New(t)' = New(t) /\ Pending(t)' = Pending(t)
  BY <1>1 DEF New, Pending
<1>6. GrowOK(t)'
  <2>1. Grown(t)' = Grown(t) /\ ChainOf(Grown(t))' = ChainOf(Grown(t))
    BY <1>1 DEF Grown, ChainOf
  <2>2. Growing(t) /\ Growing(t)'
    BY <1>0, <1>1 DEF Growing
  <2> QED BY <1>1, <2>1, <2>2 DEF GrowOK, ChainsOK
<1>7. ShrinkOK(t)'
  BY <1>0, <1>1, <1>2 DEF ShrinkOK, Shrinking, HandlesOK, TypeOK
<1>8. \A g \in Slot : LongEnough(g)'
  BY <1>2, NoWriteIsSafe, SameShrinkers, OtherFilesKeep
<1>9. PoolStep
  BY <1>3, HeadsKept DEF PoolStep
<1>10. ExactStep
  <2> SUFFICES ASSUME Exact PROVE Exact'
    BY DEF ExactStep
  <2>1. Covered'
    BY <1>3, <1>4, <1>5, RootsKept DEF Exact
  <2>2. CallExact(t)'
    <3>1. Grown(t)' = Grown(t) /\ ChainOf(Grown(t))' = ChainOf(Grown(t))
      BY <1>1 DEF Grown, ChainOf
    <3>0. target[t] \in Nat
      BY FileAssumption DEF HandlesOK, TypeOK
    <3>2. Growing(t) /\ Growing(t)' /\ ~Shrinking(t)'
      BY <1>0, <1>1, <3>0 DEF Growing, Shrinking
    <3> QED BY <1>1, <3>1, <3>2 DEF Exact, CallExact
  <2>3. \A u \in Thread : u # t => CallExact(u)'
    BY <1>2, NoWriteIsSafe, OtherCallsKeep DEF Exact
  <2>4. \A g \in Slot : FileExact(g)'
    BY <1>0, <1>1, <1>2, NoWriteIsSafe, OtherFilesExact DEF Exact, Changing, Growing, Shrinking
  <2> QED BY <2>1, <2>2, <2>3, <2>4 DEF Exact
<1> QED BY <1>3, <1>4, <1>5, <1>6, <1>7, <1>8, FewerRoots, <1>9, <1>10 DEF ChainsOK

LEMMA ChainsShrinkDone ==
    ASSUME HandlesOK, ChainsOK, NEW t \in Thread, ShrinkDone(t)
    PROVE  ChainsOK' /\ PoolStep /\ ExactStep
<1> USE DEF ShrinkDone, vars, disk, locals, history
<1>1. /\ handle[t].size \in Nat /\ target[t] \in Nat /\ target[t] < handle[t].size
      /\ pc'[t] = "store"
  BY FileAssumption DEF HandlesOK, TypeOK, CallOK, Goto
<1>2. Others(t) /\ Shrinking(t) /\ Shrinking(t)'
  BY <1>1 DEF HandlesOK, TypeOK, Shrinking, Others, Goto
<1>3. \A g \in Slot : Start(g)' = Start(g)
  BY StartsKept
<1>4. \A u \in Thread : u # t => /\ GrowOK(u)' /\ ShrinkOK(u)'
                                 /\ New(u)' = New(u) /\ Pending(u)' = Pending(u)
  BY <1>2, NoWriteIsSafe, OtherCallsKeep
<1>5. New(t)' = None /\ Pending(t)' = None
  BY <1>1 DEF New, Pending
<1>6. GrowOK(t)'
  BY <1>1 DEF GrowOK, Growing
<1>7. ShrinkOK(t)'
  BY <1>1, <1>2 DEF ShrinkOK, ChainsOK, ChainOf
<1>8. \A g \in Slot : LongEnough(g)'
  BY <1>2, NoWriteIsSafe, SameShrinkers, OtherFilesKeep
<1>9. PoolStep
  BY <1>3, HeadsKept DEF PoolStep
<1>10. ExactStep
  <2> SUFFICES ASSUME Exact PROVE Exact'
    BY DEF ExactStep
  <2>0. New(t) = None /\ Pending(t) = None
    BY DEF New, Pending
  <2>1. Covered'
    BY <1>3, <1>4, <1>5, <2>0, RootsKept DEF Exact
  <2>2. CallExact(t)'
    BY <1>1, <1>2 DEF Exact, CallExact, ChainOf, Growing
  <2>3. \A u \in Thread : u # t => CallExact(u)'
    BY <1>2, NoWriteIsSafe, OtherCallsKeep DEF Exact
  <2>4. \A g \in Slot : FileExact(g)'
    BY <1>1, <1>2, NoWriteIsSafe, OtherFilesExact DEF Exact, Changing
  <2> QED BY <2>1, <2>2, <2>3, <2>4 DEF Exact
<1> QED BY <1>3, <1>4, <1>5, <1>6, <1>7, <1>8, FewerRoots, <1>9, <1>10 DEF ChainsOK

LEMMA ChainsGrowNoSpace ==
    ASSUME HandlesOK, ChainsOK, NEW t \in Thread, GrowNoSpace(t)
    PROVE  ChainsOK' /\ PoolStep /\ ExactStep
<1> USE DEF GrowNoSpace, vars, disk, locals, history, EndCall, Goto
<1>1. /\ pc'[t] = "idle" /\ ~Shrinking(t) /\ t \notin emptied
      /\ Others(t)
  BY DEF HandlesOK, TypeOK, Shrinking, ChainsOK, ShrinkOK, Others
<1>2. \A g \in Slot : Start(g)' = Start(g)
  BY StartsKept
<1>3. \A u \in Thread : u # t => /\ GrowOK(u)' /\ ShrinkOK(u)'
                                 /\ New(u)' = New(u) /\ Pending(u)' = Pending(u)
  BY <1>1, NoWriteIsSafe, OtherCallsKeep
<1>4. New(t)' = None /\ Pending(t)' = None /\ GrowOK(t)' /\ ShrinkOK(t)'
  BY <1>1 DEF New, Pending, GrowOK, ShrinkOK, Growing, Shrinking
<1>5. \A g \in Slot : LongEnough(g)'
  BY <1>1, NoWriteIsSafe, SameShrinkers, OtherFilesKeep
<1>6. PoolStep
  BY <1>2, HeadsKept DEF PoolStep
<1>7. ExactStep
  BY DEF ExactStep
<1> QED BY <1>2, <1>3, <1>4, <1>5, FewerRoots, <1>6, <1>7 DEF ChainsOK

\* A shortening call that has cut nothing yet leaves the file long enough for the
\* size that is still in its entry, and has cut off no start.
LEMMA NotHalfShrunk ==
    ASSUME HandlesOK, ChainsOK, NEW t \in Thread, ~HalfShrunk(t)
    PROVE  /\ t \notin emptied
           /\ Shrinking(t) => Cardinality(ChainOf(entry[handle[t].place].start))
                                  >= Needed(entry[handle[t].place].size)
<1>1. handle[t].size \in Nat /\ target[t] \in Nat /\ todo[t] \in Nat
  BY NeededGrows, FileAssumption DEF HandlesOK, TypeOK
<1>2. Needed(handle[t].size) \in Nat /\ Needed(target[t]) \in Nat
  BY <1>1, NeededGrows
<1>3. t \notin emptied
  <2> SUFFICES ASSUME t \in emptied PROVE FALSE
    OBVIOUS
  <2>1. Shrinking(t) /\ target[t] = 0 /\ handle[t].size > 0
        /\ (todo[t] = 0 \/ pc[t] = "release")
    BY <1>1 DEF ChainsOK, ShrinkOK, Shrinking
  <2> QED BY <1>1, <2>1, NeededGrows DEF HalfShrunk
<1>4. ASSUME Shrinking(t)
      PROVE  Cardinality(ChainOf(entry[handle[t].place].start))
                 >= Needed(entry[handle[t].place].size)
  <2>1. handle[t].place # "none" /\ handle[t].size > 0
    BY <1>1, <1>4 DEF HandlesOK, CallOK, Shrinking
  <2>2. /\ handle[t].start = entry[handle[t].place].start /\ handle[t].start \in Cluster
        /\ handle[t].size = entry[handle[t].place].size
    BY <1>3, <2>1, HeldStart DEF HandlesOK, HandleOK
  <2>3. pc[t] # "release" /\ ~(todo[t] < Needed(handle[t].size) - Needed(target[t]))
    BY <1>4 DEF HalfShrunk
  <2>4. Cardinality(ChainOf(handle[t].start)) + 0 >= Needed(target[t]) + todo[t]
    BY <1>3, <1>4, <2>3 DEF ChainsOK, ShrinkOK
  <2>5. Cardinality(ChainOf(handle[t].start)) \in Nat
    BY <2>2, ChainLength, NoneIsNoCluster DEF ChainOf
  <2> QED BY <1>1, <1>2, <2>2, <2>3, <2>4, <2>5
<1> QED BY <1>3, <1>4

LEMMA ChainsIoError ==
    ASSUME HandlesOK, ChainsOK, NEW t \in Thread, IoError(t), ~torn'
    PROVE  ChainsOK' /\ PoolStep /\ ExactStep
<1> USE DEF IoError, vars, disk, locals, history, EndCall, Goto
<1>1. ~HalfShrunk(t)
  OBVIOUS
<1>2. t \notin emptied /\ emptied' = emptied /\ pc'[t] = "idle" /\ Others(t)
  BY <1>1, NotHalfShrunk DEF HandlesOK, TypeOK, Others
<1>3. \A g \in Slot : Start(g)' = Start(g)
  BY <1>2, StartsKept
<1>4. \A u \in Thread : u # t => /\ GrowOK(u)' /\ ShrinkOK(u)'
                                 /\ New(u)' = New(u) /\ Pending(u)' = Pending(u)
  BY <1>2, NoWriteIsSafe, OtherCallsKeep
<1>5. New(t)' = None /\ Pending(t)' = None /\ GrowOK(t)' /\ ShrinkOK(t)'
  BY <1>2 DEF New, Pending, GrowOK, ShrinkOK, Growing, Shrinking
<1>6. ASSUME NEW g \in Slot PROVE LongEnough(g)'
  <2>1. CASE handle[t].place = g /\ Shrinking(t)
    BY <1>1, <2>1, NotHalfShrunk DEF LongEnough, ChainOf
  <2>2. CASE ~(handle[t].place = g /\ Shrinking(t))
    BY <1>2, <2>2, NoWriteIsSafe, SameShrinkers, OtherFilesKeep
  <2> QED BY <2>1, <2>2
<1>7. PoolStep
  BY <1>3, HeadsKept DEF PoolStep
<1>8. ExactStep
  BY DEF ExactStep
<1> QED BY <1>3, <1>4, <1>5, <1>6, FewerRoots, <1>7, <1>8 DEF ChainsOK

LEMMA ChainsCrash ==
    ASSUME HandlesOK, ChainsOK, Crash, ~torn'
    PROVE  ChainsOK' /\ PoolStep /\ ExactStep
<1> USE DEF Crash, vars, disk, locals, history
<1>1. \A t \in Thread : ~HalfShrunk(t)
  OBVIOUS
<1>2. emptied = {}
  BY <1>1, NotHalfShrunk DEF HandlesOK, TypeOK
<1>3. \A g \in Slot : Start(g)' = Start(g)
  BY <1>2 DEF Start, Owners
<1>4. \A t \in Thread : New(t)' = None /\ Pending(t)' = None /\ GrowOK(t)' /\ ShrinkOK(t)'
  BY DEF New, Pending, GrowOK, ShrinkOK, Growing, Shrinking
<1>5. ASSUME NEW g \in Slot PROVE LongEnough(g)'
  <2>1. Cardinality(ChainOf(entry[g].start)) >= Needed(entry[g].size)
    BY <1>1, NotHalfShrunk DEF ChainsOK, LongEnough
  <2> QED BY <2>1 DEF LongEnough, ChainOf
<1>6. PoolStep
  BY <1>3, HeadsKept DEF PoolStep
<1>7. ExactStep
  BY DEF ExactStep
<1> QED BY <1>3, <1>4, <1>5, FewerRoots, <1>6, <1>7 DEF ChainsOK

-----------------------------------------------------------------------------
(* ChainsOK: the steps that write an entry *)

LEMMA ChainsStore ==
    ASSUME HandlesOK, ChainsOK, NEW t \in Thread, Store(t)
    PROVE  ChainsOK' /\ PoolStep /\ ExactStep
<1> USE DEF Store, vars, disk, locals, history, EndCall, Goto
<1>p. PICK p \in Slot : p = handle[t].place
  BY FileAssumption DEF HandlesOK, TypeOK, CallOK
<1>0. /\ p # "none" /\ handle[t].place = p /\ handle[t].size \in Nat /\ target[t] \in Nat
      /\ target[t] # handle[t].size /\ todo[t] = 0
      /\ handle[t].size = 0 => handle[t].start = first[t]
  BY <1>p, FileAssumption DEF HandlesOK, TypeOK, CallOK
<1>1. /\ entry'[p].size = target[t]
      /\ entry'[p].start = IF target[t] = 0 THEN None ELSE handle[t].start
      /\ \A g \in Slot : g # p => entry'[g] = entry[g]
      /\ \A u \in Thread : handle'[u].place = handle[u].place
      /\ pc'[t] = "idle"
  BY <1>0 DEF HandlesOK, TypeOK
<1>2. Others(t)
  BY DEF HandlesOK, TypeOK, Others
<1>3. t \in emptied => target[t] = 0
  BY DEF ChainsOK, ShrinkOK
<1>4. \A g \in Slot : g # p => Start(g)' = Start(g)
  BY <1>0, <1>1 DEF HandlesOK, TypeOK, Start, Owners
<1>5. Start(p)' = IF target[t] = 0 THEN None ELSE handle[t].start
  <2>1. \A u \in emptied' : handle'[u].place # p
    BY <1>0, <1>1 DEF HandlesOK, TypeOK, OneHandleEach
  <2> QED BY <1>0, <1>1, <2>1 DEF Start, Owners
<1>6. handle[t].size = 0 => Start(p) = None /\ New(t) = handle[t].start
  BY <1>0 DEF HandlesOK, HandleOK, EntryOK, Start, New
<1>7. handle[t].size > 0 /\ target[t] > 0 => Start(p) = handle[t].start
  BY <1>0, <1>3, HeldStart
<1>8. \A u \in Thread : u # t => /\ GrowOK(u)' /\ ShrinkOK(u)'
                                 /\ New(u)' = New(u) /\ Pending(u)' = Pending(u)
  BY <1>2, NoWriteIsSafe, OtherCallsKeep
<1>9. New(t)' = None /\ Pending(t)' = None /\ Pending(t) = None /\ GrowOK(t)' /\ ShrinkOK(t)'
  BY <1>1 DEF New, Pending, GrowOK, ShrinkOK, Growing, Shrinking, HandlesOK, TypeOK
<1>10. Start(p)' = None \/ Start(p)' = Start(p) \/ (Start(p) = None /\ Start(p)' = New(t))
  BY <1>0, <1>5, <1>6, <1>7
<1>11. OneAnswers'
  <2>1. OneAnswers
    BY DEF ChainsOK
  <2>2. CASE Start(p)' \in {None, Start(p)}
    BY <1>4, <1>8, <1>9, <2>1, <2>2 DEF OneAnswers
  <2>3. CASE Start(p) = None /\ Start(p)' = New(t)
    BY <1>4, <1>8, <1>9, <2>1, <2>3 DEF OneAnswers
  <2> QED BY <1>10, <2>2, <2>3
<1>12. WellFormed(link', Roots')
  <2>1. \A g \in Slot : Start(g)' \in Roots \union {None}
    BY <1>4, <1>10, RootsAreClusters
  <2>2. \A u \in Thread : New(u)' \in Roots \union {None} /\ Pending(u)' \in Roots \union {None}
    BY <1>8, <1>9, RootsAreClusters
  <2>3. Roots' \subseteq Roots
    BY <2>1, <2>2, RootsWithin
  <2> QED BY <2>3, FewerHeads DEF ChainsOK
<1>13. LongEnough(p)'
  <2>1. CASE target[t] = 0
    BY <1>1, <2>1, EmptyChain, NeededGrows DEF LongEnough, ChainOf
  <2>2. CASE target[t] > 0
    <3>1. handle[t].start \in Cluster \union {None}
      BY DEF HandlesOK, TypeOK
    <3>2. Cardinality(ChainOf(handle[t].start)) \in Nat
      BY <3>1, ChainLength, EmptyChain DEF ChainOf
    <3>3. Needed(target[t]) \in Nat
      BY <1>0, NeededGrows
    <3>4. Cardinality(ChainOf(handle[t].start)) >= Needed(target[t])
      <4>1. CASE target[t] > handle[t].size
        <5>1. Growing(t) /\ Grown(t) = handle[t].start
          BY <1>0, <4>1 DEF Growing, Grown
        <5> QED BY <1>0, <3>2, <5>1 DEF ChainsOK, GrowOK
      <4>2. CASE target[t] < handle[t].size
        <5>1. Shrinking(t) /\ t \notin emptied
          BY <1>0, <1>3, <2>2, <4>2 DEF Shrinking
        <5>2. Cardinality(ChainOf(handle[t].start)) + 0 >= Needed(target[t]) + todo[t]
          BY <5>1 DEF ChainsOK, ShrinkOK
        <5> QED BY <1>0, <3>2, <3>3, <5>2
      <4> QED BY <1>0, <4>1, <4>2
    <3>5. ChainOf(entry[p].start)' = ChainOf(handle[t].start)
      BY <1>1, <2>2 DEF ChainOf
    <3> QED BY <1>1, <3>4, <3>5 DEF LongEnough
  <2> QED BY <1>0, <2>1, <2>2
<1>14. ASSUME NEW g \in Slot, g # p PROVE LongEnough(g)'
  BY <1>0, <1>1, <1>2, <1>14, NoWriteIsSafe, SameShrinkers, OtherFilesKeep
<1>15. PoolStep
  <2>1. Start(p) = None /\ Start(p)' # None
            => Start(p)' \in Roots /\ \A g \in Slot : Start(g) # Start(p)'
    BY <1>10, RootsAreClusters DEF ChainsOK, OneAnswers
  <2> QED BY <1>4, <1>10, <2>1, HeadsChange
<1>16. ExactStep
  <2> SUFFICES ASSUME Exact PROVE Exact'
    BY DEF ExactStep
  <2>0. ASSUME target[t] = 0 PROVE Start(p) = None
    <3>1. t \in emptied
      <4> SUFFICES ASSUME t \notin emptied PROVE FALSE
        OBVIOUS
      <4>1. Shrinking(t) /\ handle[t].start \in Cluster
        BY <1>0, <2>0, HeldStart DEF Shrinking
      <4>2. Cardinality(ChainOf(handle[t].start)) + 0 = 0
        BY <1>0, <2>0, <4>1, NeededGrows DEF Exact, CallExact
      <4>3. ChainOf(handle[t].start) = Chain(link, handle[t].start)
        BY <4>1, NoneIsNoCluster DEF ChainOf
      <4>4. Chain(link, handle[t].start) = {}
        BY <4>1, <4>2, <4>3, ChainLength, FS_EmptySet
      <4> QED BY <4>1, <4>4, ChainFollows
    <3> QED BY <1>0, <3>1 DEF Start, Owners
  <2>1. Covered'
    <3>1. \A r \in Roots : r \in Roots'
      <4> SUFFICES ASSUME NEW r \in Roots PROVE r \in Roots'
        OBVIOUS
      <4>1. r # None /\ (\/ \E g \in Slot : r = Start(g)
                         \/ \E u \in Thread : r = New(u) \/ r = Pending(u))
        BY RootIs
      <4>2. CASE \E g \in Slot : g # p /\ r = Start(g)
        BY <1>4, <4>1, <4>2, RootAfter
      <4>3. CASE r = Start(p)
        BY <1>0, <1>5, <1>6, <1>7, <2>0, <4>1, <4>3, RootAfter
      <4>4. CASE \E u \in Thread : u # t /\ (r = New(u) \/ r = Pending(u))
        BY <1>8, <4>1, <4>4, RootAfter
      <4>5. CASE r = New(t)
        <5>1. handle[t].size = 0 /\ target[t] # 0
          BY <1>0, <4>1, <4>5 DEF New
        <5> QED BY <1>5, <1>6, <4>1, <4>5, <5>1, RootAfter
      <4> QED BY <1>9, <4>1, <4>2, <4>3, <4>4, <4>5
    <3> QED BY <3>1 DEF Exact, Covered
  <2>2. CallExact(t)'
    BY <1>1 DEF CallExact, Growing, Shrinking
  <2>3. \A u \in Thread : u # t => CallExact(u)'
    BY <1>2, NoWriteIsSafe, OtherCallsKeep DEF Exact
  <2>4. FileExact(p)'
    <3>1. CASE target[t] = 0
      BY <1>1, <3>1, EmptyChain, NeededGrows DEF FileExact, ChainOf
    <3>2. CASE target[t] > 0
      <4>1. Cardinality(ChainOf(handle[t].start)) \in Nat
        <5>1. handle[t].start \in Cluster \union {None}
          BY DEF HandlesOK, TypeOK
        <5> QED BY <5>1, ChainLength, EmptyChain DEF ChainOf
      <4>2. Needed(target[t]) \in Nat
        BY <1>0, NeededGrows
      <4>3. Cardinality(ChainOf(handle[t].start)) = Needed(target[t])
        <5>1. CASE target[t] > handle[t].size
          <6>1. Growing(t) /\ Grown(t) = handle[t].start
            BY <1>0, <5>1 DEF Growing, Grown
          <6> QED BY <1>0, <4>1, <6>1 DEF Exact, CallExact
        <5>2. CASE target[t] < handle[t].size
          <6>1. Shrinking(t) /\ t \notin emptied
            BY <1>0, <1>3, <3>2, <5>2 DEF Shrinking
          <6>2. Cardinality(ChainOf(handle[t].start)) + 0 = Needed(target[t]) + todo[t]
            BY <6>1 DEF Exact, CallExact
          <6> QED BY <1>0, <4>1, <4>2, <6>2
        <5> QED BY <1>0, <5>1, <5>2
      <4>4. ChainOf(entry[p].start)' = ChainOf(handle[t].start)
        BY <1>1, <3>2 DEF ChainOf
      <4> QED BY <1>1, <4>3, <4>4 DEF FileExact
    <3> QED BY <1>0, <3>1, <3>2
  <2>5. ASSUME NEW g \in Slot, g # p PROVE FileExact(g)'
    BY <1>0, <1>1, <1>2, <2>5, NoWriteIsSafe, OtherFilesExact DEF Exact
  <2> QED BY <2>1, <2>2, <2>3, <2>4, <2>5 DEF Exact
<1> QED BY <1>0, <1>8, <1>9, <1>11, <1>12, <1>13, <1>14, <1>15, <1>16 DEF ChainsOK

LEMMA ChainsUnlink ==
    ASSUME HandlesOK, ChainsOK, NEW t \in Thread, NEW f \in Slot, Unlink(t, f)
    PROVE  ChainsOK' /\ PoolStep /\ ExactStep
<1> USE DEF Unlink, vars, disk, locals, history
<1>1. /\ entry'[f] = Unused
      /\ \A g \in Slot : g # f => entry'[g] = entry[g]
      /\ \A u \in Thread : handle[u].place # f
      /\ entry[f].start \in Cluster \union {None}
  BY DEF HandlesOK, TypeOK, Held
<1>2. Others(t) /\ t \notin emptied /\ pc'[t] \in {"idle", "free"}
  BY DEF HandlesOK, TypeOK, ChainsOK, ShrinkOK, Shrinking, Others, Goto
<1>3. /\ \A g \in Slot : g # f => Start(g)' = Start(g)
      /\ Start(f)' = None /\ Start(f) = entry[f].start
  BY <1>1 DEF HandlesOK, TypeOK, Start, Owners, Unused
<1>4. \A u \in Thread : u # t => /\ GrowOK(u)' /\ ShrinkOK(u)'
                                 /\ New(u)' = New(u) /\ Pending(u)' = Pending(u)
  BY <1>2, NoWriteIsSafe, OtherCallsKeep
<1>5. /\ New(t) = None /\ New(t)' = None /\ Pending(t) = None /\ Pending(t)' = Start(f)
      /\ GrowOK(t)' /\ ShrinkOK(t)'
  BY <1>2, <1>3 DEF New, Pending, GrowOK, ShrinkOK, Growing, Shrinking, HandlesOK, TypeOK, Goto
<1>6. OneAnswers'
  BY <1>3, <1>4, <1>5 DEF ChainsOK, OneAnswers
<1>7. WellFormed(link', Roots')
  <2>1. \A g \in Slot : Start(g)' \in Roots \union {None}
    BY <1>3, RootsAreClusters
  <2>2. \A u \in Thread : New(u)' \in Roots \union {None} /\ Pending(u)' \in Roots \union {None}
    BY <1>4, <1>5, RootsAreClusters
  <2>3. Roots' \subseteq Roots
    BY <2>1, <2>2, RootsWithin
  <2> QED BY <2>3, FewerHeads DEF ChainsOK
<1>8. LongEnough(f)'
  BY <1>1, EmptyChain, NeededGrows DEF LongEnough, ChainOf, Unused
<1>9. ASSUME NEW g \in Slot, g # f PROVE LongEnough(g)'
  BY <1>1, <1>2, <1>9, NoWriteIsSafe, SameShrinkers, OtherFilesKeep DEF Shrinking
<1>10. PoolStep
  BY <1>3, HeadsChange
<1>11. ExactStep
  <2> SUFFICES ASSUME Exact PROVE Exact'
    BY DEF ExactStep
  <2>1. Covered'
    <3>1. \A r \in Roots : r \in Roots'
      <4> SUFFICES ASSUME NEW r \in Roots PROVE r \in Roots'
        OBVIOUS
      <4>1. r # None /\ (\/ \E g \in Slot : r = Start(g)
                         \/ \E u \in Thread : r = New(u) \/ r = Pending(u))
        BY RootIs
      <4>2. \/ \E g \in Slot : r = Start(g)'
            \/ \E u \in Thread : r = New(u)' \/ r = Pending(u)'
        BY <1>3, <1>4, <1>5, <4>1
      <4> QED BY <4>1, <4>2, RootAfter
    <3> QED BY <3>1 DEF Exact, Covered
  <2>2. CallExact(t)'
    BY <1>2 DEF CallExact, Growing, Shrinking
  <2>3. \A u \in Thread : u # t => CallExact(u)'
    BY <1>2, NoWriteIsSafe, OtherCallsKeep DEF Exact
  <2>4. FileExact(f)'
    BY <1>1, EmptyChain, NeededGrows DEF FileExact, ChainOf, Unused
  <2>5. ASSUME NEW g \in Slot, g # f PROVE FileExact(g)'
    BY <1>1, <1>2, <2>5, NoWriteIsSafe, OtherFilesExact DEF Exact, Changing, Growing, Shrinking
  <2> QED BY <2>1, <2>2, <2>3, <2>4, <2>5 DEF Exact
<1> QED BY <1>4, <1>5, <1>6, <1>7, <1>8, <1>9, <1>10, <1>11 DEF ChainsOK

-----------------------------------------------------------------------------
(* ChainsOK: the steps that write the table *)

LEMMA ChainsGrowFirst ==
    ASSUME HandlesOK, ChainsOK, NEW t \in Thread, GrowFirst(t)
    PROVE  ChainsOK' /\ PoolStep /\ ExactStep
<1> USE DEF GrowFirst, vars, disk, locals, history
<1>1. PICK c \in FreeClusters(link) :
          /\ link' = [link EXCEPT ![c] = EndOfChain]
          /\ first' = [first EXCEPT ![t] = c]
          /\ last' = [last EXCEPT ![t] = c]
  OBVIOUS
<1>2. /\ \A r \in Roots : Safe(r)
      /\ c \in Cluster /\ c \notin Roots /\ c # None
      /\ link'[c] = EndOfChain
      /\ Chain(link', c) = {c}
      /\ WellFormed(link', Roots \union {c})
  BY <1>1, TakeIsSafe, NoneIsNoCluster
<1>3. /\ handle[t].size = 0 /\ first[t] = None /\ todo[t] = Needed(target[t])
      /\ todo[t] \in Nat /\ first'[t] = c /\ last'[t] = c /\ todo'[t] = todo[t] - 1
  BY <1>1, NeededGrows, FileAssumption DEF HandlesOK, TypeOK, CallOK
<1>4. Others(t) /\ ~Shrinking(t) /\ t \notin emptied
  BY <1>1 DEF HandlesOK, TypeOK, ChainsOK, ShrinkOK, Shrinking, Others
<1>5. \A g \in Slot : Start(g)' = Start(g)
  BY StartsKept
<1>6. \A u \in Thread : u # t => /\ GrowOK(u)' /\ ShrinkOK(u)'
                                 /\ New(u)' = New(u) /\ Pending(u)' = Pending(u)
  BY <1>2, <1>4, OtherCallsKeep
<1>7. New(t)' = c /\ Pending(t)' = None
  BY <1>3 DEF New, Pending
<1>8. OneAnswers'
  BY <1>2, <1>5, <1>6, <1>7, RootsAreClusters DEF ChainsOK, OneAnswers
<1>9. WellFormed(link', Roots')
  <2>1. \A g \in Slot : Start(g)' \in (Roots \union {c}) \union {None}
    BY <1>5, RootsAreClusters
  <2>2. \A u \in Thread : /\ New(u)' \in (Roots \union {c}) \union {None}
                          /\ Pending(u)' \in (Roots \union {c}) \union {None}
    BY <1>6, <1>7, RootsAreClusters
  <2>3. Roots' \subseteq Roots \union {c}
    BY <2>1, <2>2, RootsWithin
  <2> QED BY <1>2, <2>3, FewerHeads
<1>10. GrowOK(t)' /\ ShrinkOK(t)'
  <2>1. Grown(t)' = c /\ ChainOf(Grown(t))' = {c} /\ Cardinality({c}) = 1
    BY <1>2, <1>3, FS_Singleton DEF Grown, ChainOf
  <2>2. 1 + todo'[t] >= Needed(target[t])
    BY <1>3
  <2> QED BY <1>2, <1>3, <1>4, <2>1, <2>2 DEF GrowOK, ShrinkOK, Growing, Shrinking
<1>11. \A g \in Slot : LongEnough(g)'
  BY <1>2, <1>4, RootsAreClusters, SameShrinkers, OtherFilesKeep
<1>12. PoolStep
  BY <1>1, <1>5, PoolTake
<1>13. ExactStep
  <2> SUFFICES ASSUME Exact PROVE Exact'
    BY DEF ExactStep
  <2>1. Covered'
    <3> SUFFICES ASSUME NEW d \in Cluster, InChain(link'[d])
                 PROVE  \E r \in Roots' : d \in Chain(link', r)
      BY DEF Covered
    <3>1. c \in Roots' /\ \A r \in Roots : r \in Roots'
      <4>1. c \in Roots'
        BY <1>2, <1>7, RootAfter
      <4>2. ASSUME NEW r \in Roots PROVE r \in Roots'
        <5>1. r # None /\ (\/ \E g \in Slot : r = Start(g)
                           \/ \E u \in Thread : r = New(u) \/ r = Pending(u))
          BY RootIs
        <5>0. New(t) = None /\ Pending(t) = None
          BY <1>3 DEF New, Pending
        <5>2. \/ \E g \in Slot : r = Start(g)'
              \/ \E u \in Thread : r = New(u)' \/ r = Pending(u)'
          BY <1>5, <1>6, <1>7, <5>0, <5>1
        <5> QED BY <5>1, <5>2, RootAfter
      <4> QED BY <4>1, <4>2
    <3>2. CASE d = c
      BY <1>2, <3>1, <3>2, ChainFollows
    <3>3. CASE d # c
      <4>1. link'[d] = link[d]
        BY <1>1, <3>3 DEF HandlesOK, TypeOK, Table
      <4>2. PICK r \in Roots : d \in Chain(link, r)
        BY <4>1 DEF Exact, Covered
      <4> QED BY <1>2, <3>1, <4>2 DEF Safe
    <3> QED BY <3>2, <3>3
  <2>2. CallExact(t)'
    <3>1. Grown(t)' = c /\ ChainOf(Grown(t))' = {c} /\ Cardinality({c}) = 1
      BY <1>2, <1>3, FS_Singleton DEF Grown, ChainOf
    <3>2. 1 + todo'[t] = Needed(target[t])
      BY <1>3
    <3> QED BY <1>4, <3>1, <3>2 DEF CallExact, Growing, Shrinking
  <2>3. \A u \in Thread : u # t => CallExact(u)'
    BY <1>2, <1>4, OtherCallsKeep DEF Exact
  <2>4. \A g \in Slot : FileExact(g)'
    BY <1>3, <1>2, <1>4, RootsAreClusters, OtherFilesExact
       DEF Exact, Changing, Growing, Shrinking
  <2> QED BY <2>1, <2>2, <2>3, <2>4 DEF Exact
<1> QED BY <1>6, <1>8, <1>9, <1>10, <1>11, <1>12, <1>13 DEF ChainsOK

LEMMA ChainsGrowTake ==
    ASSUME HandlesOK, ChainsOK, NEW t \in Thread, GrowTake(t)
    PROVE  ChainsOK' /\ PoolStep /\ ExactStep
<1> USE DEF GrowTake, vars, disk, locals, history, Goto
<1>1. PICK c \in FreeClusters(link) :
          /\ link' = [link EXCEPT ![c] = EndOfChain]
          /\ current' = [current EXCEPT ![t] = c]
  OBVIOUS
<1>2. /\ \A r \in Roots : Safe(r)
      /\ c \in Cluster /\ c \notin Roots /\ c # None
      /\ link'[c] = EndOfChain
      /\ WellFormed(link', Roots \union {c})
  BY <1>1, TakeIsSafe, NoneIsNoCluster
<1>3. /\ pc'[t] = "link" /\ current'[t] = c
      /\ target[t] > handle[t].size /\ handle[t].place # "none"
      /\ handle[t].size \in Nat /\ target[t] \in Nat
      /\ handle[t].size = 0 => first[t] # None
  BY <1>1, FileAssumption DEF HandlesOK, TypeOK, CallOK
<1>4. Others(t) /\ ~Shrinking(t) /\ t \notin emptied
  BY <1>1 DEF HandlesOK, TypeOK, ChainsOK, ShrinkOK, Shrinking, Others
<1>5. \A g \in Slot : Start(g)' = Start(g)
  BY StartsKept
<1>6. \A u \in Thread : u # t => /\ GrowOK(u)' /\ ShrinkOK(u)'
                                 /\ New(u)' = New(u) /\ Pending(u)' = Pending(u)
  BY <1>2, <1>4, OtherCallsKeep
<1>7. New(t)' = New(t) /\ Pending(t)' = c
  BY <1>3 DEF New, Pending
<1>8. OneAnswers'
  BY <1>2, <1>5, <1>6, <1>7, RootsAreClusters DEF ChainsOK, OneAnswers
<1>9. WellFormed(link', Roots')
  <2>1. \A g \in Slot : Start(g)' \in (Roots \union {c}) \union {None}
    BY <1>5, RootsAreClusters
  <2>2. \A u \in Thread : /\ New(u)' \in (Roots \union {c}) \union {None}
                          /\ Pending(u)' \in (Roots \union {c}) \union {None}
    BY <1>6, <1>7, RootsAreClusters
  <2>3. Roots' \subseteq Roots \union {c}
    BY <2>1, <2>2, RootsWithin
  <2> QED BY <1>2, <2>3, FewerHeads
<1>10. Grown(t) \in Roots
  <2>1. CASE handle[t].size = 0
    <3>1. Grown(t) = New(t) /\ New(t) # None
      BY <1>3, <2>1 DEF Grown, New
    <3> QED BY <3>1, RootsAreClusters
  <2>2. CASE handle[t].size > 0
    BY <1>3, <1>4, <2>2, HeldStart DEF Grown
  <2> QED BY <1>3, <2>1, <2>2
<1>11. GrowOK(t)' /\ ShrinkOK(t)'
  <2>1. Grown(t)' = Grown(t) /\ Safe(Grown(t))
    BY <1>2, <1>10 DEF Grown
  <2>2. ChainOf(Grown(t))' = ChainOf(Grown(t)) /\ ChainOf(Grown(t)) = Chain(link, Grown(t))
    BY <1>10, <2>1, RootsAreClusters, NoneIsNoCluster DEF ChainOf, Safe
  <2>3. /\ last[t] \in ChainOf(Grown(t)) /\ link'[last[t]] = EndOfChain
        /\ Cardinality(ChainOf(Grown(t))) + todo[t] >= Needed(target[t])
    BY <1>3, <2>1, <2>2 DEF ChainsOK, GrowOK, Growing, Safe
  <2> QED BY <1>2, <1>3, <1>4, <2>1, <2>2, <2>3 DEF GrowOK, ShrinkOK, Growing, Shrinking
<1>12. \A g \in Slot : LongEnough(g)'
  BY <1>2, <1>4, RootsAreClusters, SameShrinkers, OtherFilesKeep
<1>13. PoolStep
  BY <1>1, <1>5, PoolTake
<1>14. ExactStep
  <2> SUFFICES ASSUME Exact PROVE Exact'
    BY DEF ExactStep
  <2>1. Covered'
    <3> SUFFICES ASSUME NEW d \in Cluster, InChain(link'[d])
                 PROVE  \E r \in Roots' : d \in Chain(link', r)
      BY DEF Covered
    <3>1. c \in Roots' /\ \A r \in Roots : r \in Roots'
      <4>1. c \in Roots'
        BY <1>2, <1>7, RootAfter
      <4>2. ASSUME NEW r \in Roots PROVE r \in Roots'
        <5>1. r # None /\ (\/ \E g \in Slot : r = Start(g)
                           \/ \E u \in Thread : r = New(u) \/ r = Pending(u))
          BY RootIs
        <5>0. Pending(t) = None
          BY DEF Pending
        <5>2. \/ \E g \in Slot : r = Start(g)'
              \/ \E u \in Thread : r = New(u)' \/ r = Pending(u)'
          BY <1>5, <1>6, <1>7, <5>0, <5>1
        <5> QED BY <5>1, <5>2, RootAfter
      <4> QED BY <4>1, <4>2
    <3>2. CASE d = c
      BY <1>2, <3>1, <3>2, ChainFollows
    <3>3. CASE d # c
      <4>1. link'[d] = link[d]
        BY <1>1, <3>3 DEF HandlesOK, TypeOK, Table
      <4>2. PICK r \in Roots : d \in Chain(link, r)
        BY <4>1 DEF Exact, Covered
      <4> QED BY <1>2, <3>1, <4>2 DEF Safe
    <3> QED BY <3>2, <3>3
  <2>2. CallExact(t)'
    <3>1. Grown(t)' = Grown(t) /\ Safe(Grown(t))
      BY <1>2, <1>10 DEF Grown
    <3>2. ChainOf(Grown(t))' = ChainOf(Grown(t))
      BY <1>10, <3>1 DEF ChainOf, Safe
    <3>3. Growing(t) /\ Growing(t)' /\ ~Shrinking(t)'
      BY <1>3 DEF Growing, Shrinking
    <3> QED BY <1>3, <3>2, <3>3 DEF Exact, CallExact
  <2>3. \A u \in Thread : u # t => CallExact(u)'
    BY <1>2, <1>4, OtherCallsKeep DEF Exact
  <2>4. \A g \in Slot : FileExact(g)'
    BY <1>3, <1>2, <1>4, RootsAreClusters, OtherFilesExact
       DEF Exact, Changing, Growing, Shrinking
  <2> QED BY <2>1, <2>2, <2>3, <2>4 DEF Exact
<1> QED BY <1>6, <1>8, <1>9, <1>11, <1>12, <1>13, <1>14 DEF ChainsOK

LEMMA ChainsGrowLink ==
    ASSUME HandlesOK, ChainsOK, NEW t \in Thread, GrowLink(t)
    PROVE  ChainsOK' /\ PoolStep /\ ExactStep
<1>1. PICK c \in Cluster : c = current[t] /\ c = Pending(t) /\ c # None
  BY NoneIsNoCluster DEF GrowLink, HandlesOK, CallOK, Pending
<1>2. PICK l \in Cluster : l = last[t]
  BY DEF GrowLink, HandlesOK, TypeOK, CallOK
<1>3. /\ link' = [link EXCEPT ![l] = c] /\ link \in Table
      /\ pc'[t] = "grow" /\ last'[t] = c /\ todo'[t] = todo[t] - 1 /\ todo[t] \in Nat
      /\ todo[t] > 0 /\ target[t] > handle[t].size /\ handle[t].place # "none"
      /\ handle[t].size \in Nat /\ target[t] \in Nat
      /\ handle[t].size = 0 => first[t] # None
  BY <1>1, <1>2, NeededGrows, FileAssumption, NoneIsNoCluster
     DEF GrowLink, Goto, HandlesOK, TypeOK, CallOK
<1>4. /\ Others(t) /\ ~Shrinking(t) /\ ~Shrinking(t)' /\ t \notin emptied /\ emptied' = emptied
      /\ pc[t] = "link" /\ UNCHANGED <<entry, handle, target, first>>
  BY DEF GrowLink, Goto, history, HandlesOK, TypeOK, ChainsOK, ShrinkOK, Shrinking, Others
<1>5. PICK r \in Roots : r = Grown(t) /\ Mine(t, r) /\ r # c
  <2>1. CASE handle[t].size = 0
    <3>1. Grown(t) = New(t) /\ New(t) # None /\ New(t) # c
      BY <1>1, <1>3, <1>4, <2>1 DEF Grown, New, ChainsOK, OneAnswers
    <3> QED BY <3>1, RootsAreClusters DEF Mine
  <2>2. CASE handle[t].size > 0
    <3>1. /\ handle[t].place \in Slot /\ Grown(t) = Start(handle[t].place)
          /\ Grown(t) \in Roots /\ Grown(t) # None
      BY <1>3, <1>4, <2>2, HeldStart, NoneIsNoCluster DEF Grown
    <3>2. Grown(t) # c
      BY <1>1, <3>1 DEF ChainsOK, OneAnswers
    <3> QED BY <3>1, <3>2 DEF Mine
  <2> QED BY <1>3, <2>1, <2>2
<1>6. /\ r \in Cluster /\ r # None /\ c \in Roots /\ Roots \in SUBSET Cluster
      /\ ChainOf(r) = Chain(link, r)
  BY <1>1, RootsAreClusters, NoneIsNoCluster DEF ChainOf
<1>7. /\ l \in Chain(link, r) /\ link[l] = EndOfChain /\ link[c] = EndOfChain
      /\ Cardinality(Chain(link, r)) + todo[t] >= Needed(target[t])
  BY <1>1, <1>2, <1>3, <1>4, <1>5, <1>6, NoneIsNoCluster DEF ChainsOK, GrowOK, Growing
<1>8. c \notin Chain(link, r) /\ l # c
  BY <1>5, <1>6, <1>7, ChainMissesUnlinked DEF ChainsOK, WellFormed, HeadsUnlinked
<1>9. WellFormed(link', Roots \ {c})
  <2>1. WellFormed(link, Roots \ {c}) /\ Detached(link, Roots \ {c}, c)
    BY <1>6, <1>3, DropKeeps DEF ChainsOK
  <2> QED BY <1>3, <1>6, <1>7, <1>8, <2>1, AppendKeeps
<1>10. \A q \in Roots : Safe(q) \/ q = r
  <2>1. \A d \in Cluster : d # l => link'[d] = link[d]
    BY <1>3 DEF Table
  <2> QED BY <1>7, <2>1, WriteIsSafe
<1>11. \A g \in Slot : Start(g)' = Start(g)
  BY <1>4, StartsKept
<1>12. \A u \in Thread : u # t => /\ GrowOK(u)' /\ ShrinkOK(u)'
                                  /\ New(u)' = New(u) /\ Pending(u)' = Pending(u)
  BY <1>4, <1>5, <1>10, OtherCallsKeep
<1>13. New(t)' = New(t) /\ Pending(t)' = None
  BY <1>3, <1>4 DEF New, Pending
<1>14. OneAnswers'
  BY <1>11, <1>12, <1>13 DEF ChainsOK, OneAnswers
<1>15. WellFormed(link', Roots')
  <2>1. \A g \in Slot : Start(g)' \in (Roots \ {c}) \union {None}
    BY <1>1, <1>11, RootsAreClusters DEF ChainsOK, OneAnswers
  <2>2. \A u \in Thread : /\ New(u)' \in (Roots \ {c}) \union {None}
                          /\ Pending(u)' \in (Roots \ {c}) \union {None}
    BY <1>1, <1>12, <1>13, RootsAreClusters DEF ChainsOK, OneAnswers
  <2>3. Roots' \subseteq Roots \ {c}
    BY <2>1, <2>2, RootsWithin
  <2> QED BY <1>9, <2>3, FewerHeads
<1>16. Chain(link', r) = Chain(link, r) \union {c}
  <2>1. ~IsData(link[l]) /\ ~IsData(link[c])
    BY <1>7, MarksAreNotClusters DEF IsData
  <2>2. link'[l] = c /\ \A d \in Cluster : d # l => link'[d] = link[d]
    BY <1>3 DEF Table
  <2> QED BY <1>6, <1>7, <1>8, <2>1, <2>2, ChainAppended
<1>17. Cardinality(Chain(link', r)) = Cardinality(Chain(link, r)) + 1
       /\ Cardinality(Chain(link, r)) \in Nat
  <2>1. IsFiniteSet(Chain(link, r)) /\ Cardinality(Chain(link, r)) \in Nat
    BY <1>6, ChainLength
  <2>2. Cardinality(Chain(link, r) \union {c}) = Cardinality(Chain(link, r)) + 1
    BY <1>8, <2>1, FS_AddElement
  <2> QED BY <1>16, <2>1, <2>2
<1>18. GrowOK(t)' /\ ShrinkOK(t)'
  <2>1. Grown(t)' = r /\ ChainOf(Grown(t))' = Chain(link', r)
    BY <1>4, <1>5, <1>6 DEF Grown, ChainOf
  <2>2. link'[c] = EndOfChain
    BY <1>3, <1>7, <1>8 DEF Table
  <2>3. Cardinality(Chain(link', r)) + todo'[t] >= Needed(target[t])
    BY <1>3, <1>7, <1>17
  <2> QED BY <1>3, <1>4, <1>16, <2>1, <2>2, <2>3 DEF GrowOK, ShrinkOK, Growing, Shrinking
<1>19. ASSUME NEW g \in Slot PROVE LongEnough(g)'
  <2>1. CASE Start(g) = r
    <3> SUFFICES ASSUME \A u \in Thread : handle'[u].place = g => ~Shrinking(u)'
                 PROVE  Cardinality(ChainOf(entry[g].start))' >= Needed(entry'[g].size)
      BY DEF LongEnough
    <3>1. entry[g].start = r
      BY <1>6, <2>1 DEF Start
    <3>2. Cardinality(ChainOf(entry[g].start)) >= Needed(entry[g].size)
      BY <1>4, SameShrinkers DEF ChainsOK, LongEnough
    <3>3. Needed(entry[g].size) \in Nat
      BY NeededGrows, FileAssumption DEF HandlesOK, TypeOK
    <3>4. ChainOf(entry[g].start) = Chain(link, r) /\ ChainOf(entry[g].start)' = Chain(link', r)
      BY <1>4, <1>6, <3>1 DEF ChainOf
    <3> QED BY <1>4, <1>17, <3>2, <3>3, <3>4
  <2>2. CASE Start(g) # r
    <3>1. Start(g) # None => Safe(Start(g))
      BY <1>10, <2>2, RootsAreClusters
    <3> QED BY <1>4, <3>1, SameShrinkers, OtherFilesKeep
  <2> QED BY <2>1, <2>2
<1>20. PoolStep
  <2>1. \A g \in Slot : Start(g) # c
    BY <1>1 DEF ChainsOK, OneAnswers
  <2> QED BY <1>3, <1>6, <1>7, <1>8, <1>11, <2>1, PoolAppend
<1>21. ExactStep
  <2> SUFFICES ASSUME Exact PROVE Exact'
    BY DEF ExactStep
  <2>1. Covered'
    <3> SUFFICES ASSUME NEW d \in Cluster, InChain(link'[d])
                 PROVE  \E x \in Roots' : d \in Chain(link', x)
      BY DEF Covered
    <3>1. \A x \in Roots : x # c => x \in Roots'
      <4> SUFFICES ASSUME NEW x \in Roots, x # c PROVE x \in Roots'
        OBVIOUS
      <4>1. x # None /\ (\/ \E g \in Slot : x = Start(g)
                         \/ \E u \in Thread : x = New(u) \/ x = Pending(u))
        BY RootIs
      <4>2. \/ \E g \in Slot : x = Start(g)'
            \/ \E u \in Thread : x = New(u)' \/ x = Pending(u)'
        BY <1>1, <1>11, <1>12, <1>13, <4>1
      <4> QED BY <4>1, <4>2, RootAfter
    <3>2. CASE d \in Chain(link', r)
      BY <1>5, <3>1, <3>2
    <3>3. CASE d \notin Chain(link', r)
      <4>1. d # l /\ d # c /\ link'[d] = link[d]
        BY <1>3, <1>7, <1>16, <3>3 DEF Table
      <4>2. PICK x \in Roots : d \in Chain(link, x)
        BY <4>1 DEF Exact, Covered
      <4>3. x # c /\ x # r
        <5>1. Chain(link, c) = {c}
          BY <1>7, ChainOfOne, MarksAreNotClusters DEF IsData
        <5> QED BY <1>16, <3>3, <4>1, <4>2, <5>1
      <4> QED BY <1>10, <3>1, <4>2, <4>3 DEF Safe
    <3> QED BY <3>2, <3>3
  <2>2. CallExact(t)'
    <3>1. Grown(t)' = r /\ ChainOf(Grown(t))' = Chain(link', r)
      BY <1>4, <1>5, <1>6 DEF Grown, ChainOf
    <3>2. Cardinality(Chain(link, r)) + todo[t] = Needed(target[t])
      BY <1>3, <1>4, <1>5, <1>6 DEF Exact, CallExact, Growing
    <3>3. Cardinality(Chain(link', r)) + todo'[t] = Needed(target[t])
      BY <1>3, <1>17, <3>2
    <3> QED BY <1>3, <1>4, <3>1, <3>3 DEF CallExact, Growing, Shrinking
  <2>3. \A u \in Thread : u # t => CallExact(u)'
    BY <1>4, <1>5, <1>10, OtherCallsKeep DEF Exact
  <2>4. ASSUME NEW g \in Slot PROVE FileExact(g)'
    <3>1. CASE Start(g) = r
      <4>1. handle[t].place = g /\ handle[t].size > 0
        <5>1. Start(g) # None /\ r # New(t) /\ r # Pending(t)
          BY <1>6, <3>1 DEF ChainsOK, OneAnswers
        <5>2. PICK f \in Slot : handle[t].place = f /\ r = Start(f)
          BY <1>5, <5>1 DEF Mine
        <5>3. f = g
          BY <3>1, <5>1, <5>2 DEF ChainsOK, OneAnswers
        <5>4. handle[t].size # 0
          BY <1>4, <1>5, <5>1 DEF Grown, New
        <5> QED BY <1>3, <5>2, <5>3, <5>4
      <4>2. Changing(t)' /\ handle'[t].place = g
        BY <1>3, <1>4, <4>1 DEF Changing, Growing
      <4> QED BY <4>2 DEF FileExact
    <3>2. CASE Start(g) # r
      <4>1. Start(g) # None => Safe(Start(g))
        BY <1>10, <3>2, RootsAreClusters
      <4>2. Changing(t) => Changing(t)'
        BY <1>3, <1>4 DEF Changing, Growing
      <4> QED BY <1>4, <4>1, <4>2, OtherFilesExact DEF Exact
    <3> QED BY <3>1, <3>2
  <2> QED BY <2>1, <2>2, <2>3, <2>4 DEF Exact
<1> QED BY <1>12, <1>14, <1>15, <1>18, <1>19, <1>20, <1>21 DEF ChainsOK

LEMMA ChainsShrinkCut ==
    ASSUME HandlesOK, ChainsOK, NEW t \in Thread, ShrinkCut(t)
    PROVE  ChainsOK' /\ PoolStep /\ ExactStep
<1> USE DEF ShrinkCut, vars, disk, locals, history, Goto
<1>1. /\ handle[t].place # "none" /\ handle[t].size \in Nat /\ target[t] \in Nat
      /\ target[t] < handle[t].size /\ todo[t] \in Nat /\ todo[t] > 0
      /\ pc'[t] = "release" /\ current'[t] = LastOf(handle[t].start)
  BY NeededGrows, FileAssumption DEF HandlesOK, TypeOK, CallOK
<1>2. Others(t) /\ Shrinking(t) /\ Shrinking(t)' /\ t \notin emptied
  <2>1. Shrinking(t) /\ Shrinking(t)'
    BY <1>1 DEF Shrinking
  <2>2. t \notin emptied
    BY <1>1 DEF ChainsOK, ShrinkOK
  <2>3. emptied' = emptied \/ emptied' = emptied \union {t}
    OBVIOUS
  <2>4. Others(t)
    BY <2>3 DEF HandlesOK, TypeOK, Others
  <2> QED BY <2>1, <2>2, <2>4
<1>3. PICK p \in Slot : p = handle[t].place
  BY <1>1 DEF HandlesOK, TypeOK
<1>4. PICK h \in Roots : /\ h = handle[t].start /\ h \in Cluster /\ h = Start(p)
                         /\ h = entry[p].start /\ h # None
  BY <1>1, <1>2, <1>3, HeldStart, NoneIsNoCluster
<1>5. PICK l \in Cluster : /\ l = LastOf(h) /\ l \in Chain(link, h) /\ ~IsData(link[l])
                           /\ l # None
  BY <1>4, WalkToTheEnd, NoneIsNoCluster
<1>6. /\ Cardinality(Chain(link, h)) >= Needed(target[t]) + todo[t]
      /\ IsFiniteSet(Chain(link, h)) /\ Cardinality(Chain(link, h)) \in Nat
      /\ Needed(target[t]) \in Nat
  <2>1. Cardinality(ChainOf(h)) + 0 >= Needed(target[t]) + todo[t]
    BY <1>2, <1>4 DEF ChainsOK, ShrinkOK
  <2>2. Cardinality(Chain(link, h)) \in Nat /\ IsFiniteSet(Chain(link, h))
    BY <1>4, ChainLength
  <2>3. Needed(target[t]) \in Nat
    BY <1>1, NeededGrows
  <2> QED BY <1>4, <2>1, <2>2, <2>3 DEF ChainOf
<1>7. Mine(t, h)
  BY <1>3, <1>4 DEF Mine
<1>8. New(t) = None /\ New(t)' = None /\ Pending(t) = None /\ Pending(t)' = l
  BY <1>1, <1>4, <1>5 DEF New, Pending
<1>9. GrowOK(t)'
  BY <1>1 DEF GrowOK, Growing
<1>10. LongEnough(p)'
  BY <1>2, <1>3 DEF LongEnough
<1>14. FileExact(p)'
  BY <1>2, <1>3 DEF FileExact, Changing
<1>11. link \in Table /\ Roots \in SUBSET Cluster /\ WellFormed(link, Roots)
  BY RootsAreClusters DEF HandlesOK, TypeOK, ChainsOK
<1>12. CASE PreviousOf(h) = None
  <2>1. l = h /\ link' = link /\ emptied' = emptied \union {t}
    BY <1>4, <1>5, <1>12, WalkToTheEnd
  <2>2. Cardinality(Chain(link, h)) = 1
    <3>1. Chain(link, h) = {h}
      BY <1>4, <1>5, <2>1, ChainOfOne
    <3> QED BY <3>1, FS_Singleton
  <2>3. target[t] = 0 /\ todo[t] = 1
    <3>1. Needed(target[t]) = 0 /\ todo[t] = 1
      BY <1>1, <1>6, <2>2
    <3> QED BY <1>1, <3>1, NeededGrows
  <2>4. ShrinkOK(t)'
    BY <1>1, <1>2, <2>1, <2>3 DEF ShrinkOK
  <2>5. \A u \in Thread : u # t => /\ GrowOK(u)' /\ ShrinkOK(u)'
                                   /\ New(u)' = New(u) /\ Pending(u)' = Pending(u)
    BY <1>2, <2>1, NoWriteIsSafe, OtherCallsKeep
  <2>6. Start(p)' = None /\ \A g \in Slot : g # p => Start(g)' = Start(g)
    BY <1>3, <2>1 DEF HandlesOK, TypeOK, Start, Owners
  <2>7. OneAnswers'
    <3>1. /\ \A g \in Slot : g # p => Start(g) # h
          /\ \A u \in Thread : New(u) # h /\ Pending(u) # h
      BY <1>4 DEF ChainsOK, OneAnswers
    <3>2. Pending(t)' = h
      BY <1>8, <2>1
    <3> QED BY <1>4, <1>8, <2>5, <2>6, <3>1, <3>2 DEF ChainsOK, OneAnswers
  <2>8. WellFormed(link', Roots')
    <3>1. \A g \in Slot : Start(g)' \in Roots \union {None}
      BY <2>6, RootsAreClusters
    <3>2. \A u \in Thread : /\ New(u)' \in Roots \union {None}
                            /\ Pending(u)' \in Roots \union {None}
      BY <1>8, <2>1, <2>5, RootsAreClusters
    <3>3. Roots' \subseteq Roots
      BY <3>1, <3>2, RootsWithin
    <3> QED BY <1>11, <2>1, <3>3, FewerHeads
  <2>9. ASSUME NEW g \in Slot, g # p PROVE LongEnough(g)'
    BY <1>2, <1>3, <2>1, <2>9, NoWriteIsSafe, SameShrinkers, OtherFilesKeep
  <2>10. PoolStep
    BY <2>1, <2>6, HeadsChange
  <2>11. ExactStep
    <3> SUFFICES ASSUME Exact PROVE Exact'
      BY DEF ExactStep
    <3>1. \A x \in Roots : x \in Roots'
      <4> SUFFICES ASSUME NEW x \in Roots PROVE x \in Roots'
        OBVIOUS
      <4>1. x # None /\ (\/ \E g \in Slot : x = Start(g)
                         \/ \E u \in Thread : x = New(u) \/ x = Pending(u))
        BY RootIs
      <4>2. \/ \E g \in Slot : x = Start(g)'
            \/ \E u \in Thread : x = New(u)' \/ x = Pending(u)'
        BY <1>4, <1>8, <2>1, <2>5, <2>6, <4>1
      <4> QED BY <4>1, <4>2, RootAfter
    <3>2. Covered'
      BY <2>1, <3>1 DEF Exact, Covered
    <3>3. CallExact(t)'
      <4>1. link[l] = EndOfChain
        BY <1>4, <1>5, <1>11, ChainInUse DEF InChain
      <4> QED BY <1>1, <1>4, <1>5, <2>1, <4>1 DEF CallExact, Growing
    <3>4. \A u \in Thread : u # t => CallExact(u)'
      BY <1>2, <2>1, NoWriteIsSafe, OtherCallsKeep DEF Exact
    <3>5. ASSUME NEW g \in Slot, g # p PROVE FileExact(g)'
      BY <1>2, <1>3, <2>1, <3>5, NoWriteIsSafe, OtherFilesExact DEF Exact
    <3> QED BY <1>14, <3>2, <3>3, <3>4, <3>5 DEF Exact
  <2> QED BY <1>9, <1>10, <2>4, <2>5, <2>7, <2>8, <2>9, <2>10, <2>11 DEF ChainsOK
<1>13. CASE PreviousOf(h) # None
  <2>1. PICK q \in Chain(link, h) : q \in Cluster /\ link[q] = l /\ IsData(link[q])
                                  /\ link' = [link EXCEPT ![q] = EndOfChain]
                                  /\ emptied' = emptied
    BY <1>4, <1>5, <1>13, WalkToTheEnd DEF IsData
  <2>2. WellFormed(link', Roots) /\ Detached(link', Roots, l)
    BY <1>11, <2>1, CutKeeps
  <2>3. WellFormed(link', Roots \union {l}) /\ l \notin Roots
    BY <1>11, <2>1, <2>2, CutKeeps, RegisterKeeps DEF Detached
  <2>4. \A c \in Roots : c # h => Safe(c)
    <3>1. \A d \in Cluster : d # q => link'[d] = link[d]
      BY <1>11, <2>1 DEF Table
    <3> QED BY <2>1, <3>1, WriteIsSafe
  <2>5. Chain(link', h) = Chain(link, h) \ {l}
    <3>1. ~IsData(link[link[q]])
      BY <1>5, <2>1
    <3>2. Chain(link', h) = Chain(link, h) \ {link[q]}
      BY <1>11, <2>1, <3>1, ChainShortened
    <3> QED BY <2>1, <3>2
  <2>6. ShrinkOK(t)'
    <3>1. Cardinality(Chain(link', h)) = Cardinality(Chain(link, h)) - 1
      <4>1. Cardinality(Chain(link, h) \ {l}) = Cardinality(Chain(link, h)) - 1
        BY <1>5, <1>6, FS_RemoveElement
      <4> QED BY <2>5, <4>1
    <3>2. ChainOf(handle[t].start)' = Chain(link', h)
      BY <1>4 DEF ChainOf
    <3>3. Cardinality(Chain(link', h)) + 1 >= Needed(target[t]) + todo[t]
      BY <1>6, <3>1
    <3> QED BY <1>1, <1>2, <2>1, <3>2, <3>3 DEF ShrinkOK
  <2>7. \A u \in Thread : u # t => /\ GrowOK(u)' /\ ShrinkOK(u)'
                                   /\ New(u)' = New(u) /\ Pending(u)' = Pending(u)
    BY <1>2, <1>7, <2>4, OtherCallsKeep
  <2>8. \A g \in Slot : Start(g)' = Start(g)
    BY <2>1, StartsKept
  <2>9. OneAnswers'
    BY <1>8, <2>3, <2>7, <2>8, RootsAreClusters DEF ChainsOK, OneAnswers
  <2>10. WellFormed(link', Roots')
    <3>1. \A g \in Slot : Start(g)' \in (Roots \union {l}) \union {None}
      BY <2>8, RootsAreClusters
    <3>2. \A u \in Thread : /\ New(u)' \in (Roots \union {l}) \union {None}
                            /\ Pending(u)' \in (Roots \union {l}) \union {None}
      BY <1>8, <2>7, RootsAreClusters
    <3>3. Roots' \subseteq Roots \union {l}
      BY <3>1, <3>2, RootsWithin
    <3> QED BY <2>3, <3>3, FewerHeads
  <2>11. ASSUME NEW g \in Slot, g # p PROVE LongEnough(g)'
    <3>1. Start(g) # None => Safe(Start(g))
      BY <1>3, <1>4, <2>4, <2>11, RootsAreClusters DEF ChainsOK, OneAnswers
    <3> QED BY <1>2, <1>3, <2>11, <3>1, SameShrinkers, OtherFilesKeep
  <2>12. PoolStep
    BY <2>1, <2>8, PoolCut
  <2>13. ExactStep
    <3> SUFFICES ASSUME Exact PROVE Exact'
      BY DEF ExactStep
    <3>1. l \in Roots' /\ \A x \in Roots : x \in Roots'
      <4>1. l \in Roots'
        BY <1>5, <1>8, RootAfter
      <4>2. ASSUME NEW x \in Roots PROVE x \in Roots'
        <5>1. x # None /\ (\/ \E g \in Slot : x = Start(g)
                           \/ \E u \in Thread : x = New(u) \/ x = Pending(u))
          BY RootIs
        <5>2. \/ \E g \in Slot : x = Start(g)'
              \/ \E u \in Thread : x = New(u)' \/ x = Pending(u)'
          BY <1>8, <2>7, <2>8, <5>1
        <5> QED BY <5>1, <5>2, RootAfter
      <4> QED BY <4>1, <4>2
    <3>2. Covered'
      <4> SUFFICES ASSUME NEW d \in Cluster, InChain(link'[d])
                   PROVE  \E x \in Roots' : d \in Chain(link', x)
        BY DEF Covered
      <4>1. InChain(link[d])
        BY <1>11, <2>1 DEF Table, InChain
      <4>2. PICK x \in Roots : d \in Chain(link, x)
        BY <4>1 DEF Exact, Covered
      <4>3. CASE d = l
        BY <3>1, <4>3, ChainFollows
      <4>4. CASE d # l /\ x = h
        BY <2>5, <3>1, <4>2, <4>4
      <4>5. CASE x # h
        BY <2>4, <3>1, <4>2, <4>5 DEF Safe
      <4> QED BY <4>3, <4>4, <4>5
    <3>3. CallExact(t)'
      <4>1. link'[l] = EndOfChain
        BY <2>2, <1>5, <1>11, <2>1, ChainInUse, <1>4 DEF InChain, Table
      <4>2. Cardinality(Chain(link', h)) = Cardinality(Chain(link, h)) - 1
        <5>1. Cardinality(Chain(link, h) \ {l}) = Cardinality(Chain(link, h)) - 1
          BY <1>5, <1>6, FS_RemoveElement
        <5> QED BY <2>5, <5>1
      <4>3. ChainOf(handle[t].start)' = Chain(link', h) /\ ChainOf(h) = Chain(link, h)
        BY <1>4 DEF ChainOf
      <4>4. Cardinality(Chain(link, h)) + 0 = Needed(target[t]) + todo[t]
        BY <1>2, <1>4, <4>3 DEF Exact, CallExact
      <4>5. Cardinality(Chain(link', h)) + 1 = Needed(target[t]) + todo[t]
        BY <1>6, <4>2, <4>4
      <4> QED BY <1>1, <1>4, <1>5, <2>1, <4>1, <4>3, <4>5 DEF CallExact, Growing
    <3>4. \A u \in Thread : u # t => CallExact(u)'
      BY <1>2, <1>7, <2>4, OtherCallsKeep DEF Exact
    <3>5. ASSUME NEW g \in Slot, g # p PROVE FileExact(g)'
      <4>1. Start(g) # None => Safe(Start(g))
        BY <1>3, <1>4, <2>4, <3>5, RootsAreClusters DEF ChainsOK, OneAnswers
      <4> QED BY <1>2, <1>3, <3>5, <4>1, OtherFilesExact DEF Exact
    <3> QED BY <1>14, <3>2, <3>3, <3>4, <3>5 DEF Exact
  <2> QED BY <1>9, <1>10, <2>6, <2>7, <2>9, <2>10, <2>11, <2>12, <2>13 DEF ChainsOK
<1> QED BY <1>12, <1>13

LEMMA ChainsShrinkRelease ==
    ASSUME HandlesOK, ChainsOK, NEW t \in Thread, ShrinkRelease(t)
    PROVE  ChainsOK' /\ PoolStep /\ ExactStep
<1> USE DEF ShrinkRelease, vars, disk, locals, history, Goto
<1>1. PICK c \in Cluster : c = current[t] /\ c = Pending(t) /\ c # None
  BY NoneIsNoCluster DEF HandlesOK, CallOK, Pending
<1>2. /\ handle[t].place \in Slot /\ handle[t].place # "none"
      /\ handle[t].size \in Nat /\ target[t] \in Nat
      /\ target[t] < handle[t].size /\ todo[t] \in Nat
      /\ pc'[t] = "shrink" /\ todo'[t] = todo[t] - 1
      /\ link' = [link EXCEPT ![c] = Free] /\ link \in Table
  BY <1>1, NeededGrows, FileAssumption DEF HandlesOK, TypeOK, CallOK
<1>3. Others(t) /\ Shrinking(t) /\ Shrinking(t)'
  BY <1>2 DEF HandlesOK, TypeOK, Others, Shrinking
<1>4. /\ c \in Roots /\ Roots \in SUBSET Cluster /\ c \in Chain(link, c) /\ Mine(t, c)
      /\ WellFormed(link, Roots)
  BY <1>1, RootsAreClusters, ChainFollows DEF Mine, ChainsOK
<1>5. \A q \in Roots : q # c => Safe(q)
  <2>1. \A d \in Cluster : d # c => link'[d] = link[d]
    BY <1>2 DEF Table
  <2> QED BY <1>4, <2>1, WriteIsSafe
<1>6. WellFormed(link', Roots \ {c})
  <2>1. WellFormed(link, Roots \ {c}) /\ Detached(link, Roots \ {c}, c)
    BY <1>2, <1>4, DropKeeps
  <2> QED BY <1>2, <1>4, <2>1, ReleaseKeeps
<1>7. \A u \in Thread : u # t => /\ GrowOK(u)' /\ ShrinkOK(u)'
                                 /\ New(u)' = New(u) /\ Pending(u)' = Pending(u)
  BY <1>3, <1>4, <1>5, OtherCallsKeep
<1>8. New(t) = None /\ New(t)' = None /\ Pending(t)' = None /\ GrowOK(t)'
  BY <1>2 DEF New, Pending, GrowOK, Growing
<1>9. \A g \in Slot : Start(g)' = Start(g)
  BY StartsKept
<1>10. OneAnswers'
  BY <1>7, <1>8, <1>9 DEF ChainsOK, OneAnswers
<1>11. WellFormed(link', Roots')
  <2>1. \A g \in Slot : Start(g)' \in (Roots \ {c}) \union {None}
    BY <1>1, <1>9, RootsAreClusters DEF ChainsOK, OneAnswers
  <2>2. \A u \in Thread : /\ New(u)' \in (Roots \ {c}) \union {None}
                          /\ Pending(u)' \in (Roots \ {c}) \union {None}
    BY <1>1, <1>7, <1>8, RootsAreClusters DEF ChainsOK, OneAnswers
  <2>3. Roots' \subseteq Roots \ {c}
    BY <2>1, <2>2, RootsWithin
  <2> QED BY <1>6, <2>3, FewerHeads
<1>12. ShrinkOK(t)'
  <2>1. CASE t \in emptied
    <3>1. target[t] = 0 /\ todo[t] = 1
      BY <2>1 DEF ChainsOK, ShrinkOK
    <3> QED BY <1>2, <1>3, <2>1, <3>1 DEF ShrinkOK
  <2>2. CASE t \notin emptied
    <3>1. /\ handle[t].start \in Cluster /\ handle[t].start # None
          /\ handle[t].start \in Roots /\ handle[t].start = Start(handle[t].place)
      BY <1>2, <2>2, HeldStart, NoneIsNoCluster
    <3>2. Safe(handle[t].start)
      BY <1>1, <1>2, <1>5, <3>1 DEF ChainsOK, OneAnswers
    <3>3. ChainOf(handle[t].start)' = ChainOf(handle[t].start)
      BY <3>2 DEF ChainOf, Safe
    <3>4. Cardinality(ChainOf(handle[t].start)) + 1 >= Needed(target[t]) + todo[t]
      BY <1>3, <2>2 DEF ChainsOK, ShrinkOK
    <3>5. Cardinality(ChainOf(handle[t].start)) \in Nat /\ Needed(target[t]) \in Nat
      BY <1>2, <3>1, ChainLength, NeededGrows DEF ChainOf
    <3>6. Cardinality(ChainOf(handle[t].start)) + 0 >= Needed(target[t]) + todo'[t]
      BY <1>2, <3>4, <3>5
    <3> QED BY <1>2, <2>2, <3>3, <3>6 DEF ShrinkOK
  <2> QED BY <2>1, <2>2
<1>13. ASSUME NEW g \in Slot PROVE LongEnough(g)'
  <2>1. Start(g) # None => Safe(Start(g))
    BY <1>1, <1>5, RootsAreClusters DEF ChainsOK, OneAnswers
  <2> QED BY <1>3, <2>1, SameShrinkers, OtherFilesKeep
<1>14. PoolStep
  <2>1. \A g \in Slot : Start(g) # c
    BY <1>1 DEF ChainsOK, OneAnswers
  <2> QED BY <1>2, <1>4, <1>9, <2>1, PoolRelease
<1>15. ExactStep
  <2> SUFFICES ASSUME Exact PROVE Exact'
    BY DEF ExactStep
  <2>1. Covered'
    <3> SUFFICES ASSUME NEW d \in Cluster, InChain(link'[d])
                 PROVE  \E x \in Roots' : d \in Chain(link', x)
      BY DEF Covered
    <3>1. \A x \in Roots : x # c => x \in Roots'
      <4> SUFFICES ASSUME NEW x \in Roots, x # c PROVE x \in Roots'
        OBVIOUS
      <4>1. x # None /\ (\/ \E g \in Slot : x = Start(g)
                         \/ \E u \in Thread : x = New(u) \/ x = Pending(u))
        BY RootIs
      <4>2. \/ \E g \in Slot : x = Start(g)'
            \/ \E u \in Thread : x = New(u)' \/ x = Pending(u)'
        BY <1>1, <1>7, <1>8, <1>9, <4>1
      <4> QED BY <4>1, <4>2, RootAfter
    <3>2. d # c /\ link'[d] = link[d]
      BY <1>2, MarksAreNotClusters DEF Table, InChain, IsData
    <3>3. PICK x \in Roots : d \in Chain(link, x)
      BY <3>2 DEF Exact, Covered
    <3>4. x # c
      <4>1. link[c] = EndOfChain
        BY <1>1 DEF Exact, CallExact
      <4>2. Chain(link, c) = {c}
        BY <4>1, ChainOfOne, MarksAreNotClusters DEF IsData
      <4> QED BY <3>2, <3>3, <4>2
    <3> QED BY <1>5, <3>1, <3>3, <3>4 DEF Safe
  <2>2. CallExact(t)'
    <3>1. ~Growing(t)' /\ Shrinking(t)'
      BY <1>2, <1>3 DEF Growing
    <3>2. ASSUME t \notin emptied
          PROVE  Cardinality(ChainOf(handle[t].start))' + 0 = Needed(target[t]) + todo'[t]
      <4>1. /\ handle[t].start \in Cluster /\ handle[t].start # None
            /\ handle[t].start \in Roots /\ handle[t].start = Start(handle[t].place)
        BY <1>2, <3>2, HeldStart, NoneIsNoCluster
      <4>2. Safe(handle[t].start)
        BY <1>1, <1>2, <1>5, <4>1 DEF ChainsOK, OneAnswers
      <4>3. ChainOf(handle[t].start)' = ChainOf(handle[t].start)
        BY <4>2 DEF ChainOf, Safe
      <4>4. Cardinality(ChainOf(handle[t].start)) + 1 = Needed(target[t]) + todo[t]
        BY <1>3, <3>2 DEF Exact, CallExact
      <4>5. Cardinality(ChainOf(handle[t].start)) \in Nat /\ Needed(target[t]) \in Nat
        BY <1>2, <4>1, ChainLength, NeededGrows DEF ChainOf
      <4> QED BY <1>2, <4>3, <4>4, <4>5
    <3> QED BY <1>2, <3>1, <3>2 DEF CallExact
  <2>3. \A u \in Thread : u # t => CallExact(u)'
    BY <1>3, <1>4, <1>5, OtherCallsKeep DEF Exact
  <2>4. ASSUME NEW g \in Slot PROVE FileExact(g)'
    <3>1. Start(g) # None => Safe(Start(g))
      BY <1>1, <1>5, RootsAreClusters DEF ChainsOK, OneAnswers
    <3> QED BY <1>3, <3>1, OtherFilesExact DEF Exact, Changing
  <2> QED BY <2>1, <2>2, <2>3, <2>4 DEF Exact
<1> QED BY <1>7, <1>8, <1>10, <1>11, <1>12, <1>13, <1>14, <1>15 DEF ChainsOK

LEMMA ChainsFreeNext ==
    ASSUME HandlesOK, ChainsOK, NEW t \in Thread, FreeNext(t)
    PROVE  ChainsOK' /\ PoolStep /\ ExactStep
<1> USE DEF FreeNext, vars, disk, locals, history, Goto
<1>1. PICK c \in Cluster : c = current[t] /\ c = Pending(t) /\ c # None
  BY NoneIsNoCluster DEF HandlesOK, CallOK, Pending
<1>2. /\ link' = [link EXCEPT ![c] = Free] /\ link \in Table
      /\ IF IsData(link[c]) THEN pc'[t] = "free" /\ current'[t] = link[c]
                            ELSE pc'[t] = "idle"
  BY <1>1 DEF HandlesOK, TypeOK
<1>3. Others(t) /\ ~Shrinking(t) /\ ~Shrinking(t)' /\ t \notin emptied
  BY <1>2 DEF HandlesOK, TypeOK, ChainsOK, ShrinkOK, Others, Shrinking
<1>4. /\ c \in Roots /\ Roots \in SUBSET Cluster /\ c \in Chain(link, c) /\ Mine(t, c)
      /\ WellFormed(link, Roots)
  BY <1>1, RootsAreClusters, ChainFollows DEF Mine, ChainsOK
<1>5. \A q \in Roots : q # c => Safe(q)
  <2>1. \A d \in Cluster : d # c => link'[d] = link[d]
    BY <1>2 DEF Table
  <2> QED BY <1>4, <2>1, WriteIsSafe
<1>6. /\ WellFormed(link', Roots \ {c})
      /\ IsData(link[c]) => Detached(link', Roots \ {c}, link[c])
  <2>1. WellFormed(link, Roots \ {c}) /\ Detached(link, Roots \ {c}, c)
    BY <1>2, <1>4, DropKeeps
  <2> QED BY <1>2, <1>4, <2>1, ReleaseKeeps
<1>7. \A u \in Thread : u # t => /\ GrowOK(u)' /\ ShrinkOK(u)'
                                 /\ New(u)' = New(u) /\ Pending(u)' = Pending(u)
  BY <1>3, <1>4, <1>5, OtherCallsKeep
<1>8. New(t) = None /\ New(t)' = None /\ GrowOK(t)' /\ ShrinkOK(t)'
  BY <1>2, <1>3 DEF New, GrowOK, Growing, ShrinkOK, Shrinking
<1>9. \A g \in Slot : Start(g)' = Start(g)
  BY StartsKept
<1>10. /\ \A g \in Slot : Start(g) \in (Roots \ {c}) \union {None}
       /\ \A u \in Thread : New(u) \in (Roots \ {c}) \union {None}
       /\ \A u \in Thread : u # t => Pending(u) \in (Roots \ {c}) \union {None}
  BY <1>1, RootsAreClusters DEF ChainsOK, OneAnswers
<1>11. ASSUME NEW g \in Slot PROVE LongEnough(g)'
  <2>1. Start(g) # None => Safe(Start(g))
    BY <1>5, <1>10
  <2> QED BY <1>3, <2>1, SameShrinkers, OtherFilesKeep
<1>0. PoolStep
  <2>1. \A g \in Slot : Start(g) # c
    BY <1>1 DEF ChainsOK, OneAnswers
  <2> QED BY <1>2, <1>4, <1>9, <2>1, PoolRelease
<1>14. ExactStep
  <2> SUFFICES ASSUME Exact PROVE Exact'
    BY DEF ExactStep
  <2>1. Covered'
    <3> SUFFICES ASSUME NEW d \in Cluster, InChain(link'[d])
                 PROVE  \E x \in Roots' : d \in Chain(link', x)
      BY DEF Covered
    <3>1. \A x \in Roots : x # c => x \in Roots'
      <4> SUFFICES ASSUME NEW x \in Roots, x # c PROVE x \in Roots'
        OBVIOUS
      <4>1. x # None /\ (\/ \E g \in Slot : x = Start(g)
                         \/ \E u \in Thread : x = New(u) \/ x = Pending(u))
        BY RootIs
      <4>2. \/ \E g \in Slot : x = Start(g)'
            \/ \E u \in Thread : x = New(u)' \/ x = Pending(u)'
        BY <1>1, <1>7, <1>8, <1>9, <4>1
      <4> QED BY <4>1, <4>2, RootAfter
    <3>2. d # c /\ link'[d] = link[d]
      BY <1>2, MarksAreNotClusters DEF Table, InChain, IsData
    <3>3. PICK x \in Roots : d \in Chain(link, x)
      BY <3>2 DEF Exact, Covered
    <3>4. CASE x # c
      BY <1>5, <3>1, <3>3, <3>4 DEF Safe
    <3>5. CASE x = c
      <4>1. IsData(link[c])
        BY <3>2, <3>3, <3>5, ChainOfOne
      <4>2. d \in Chain(link', link[c])
        <5>1. \A e \in Cluster : e # c => link'[e] = link[e]
          BY <1>2 DEF Table
        <5> QED BY <3>2, <3>3, <3>5, <4>1, <5>1, ChainRest
      <4>3. link[c] \in Roots'
        <5>1. link[c] = Pending(t)' /\ link[c] # None
          BY <1>2, <4>1, NoneIsNoCluster DEF Pending, IsData
        <5> QED BY <5>1, RootAfter
      <4> QED BY <4>2, <4>3
    <3> QED BY <3>4, <3>5
  <2>2. CallExact(t)'
    BY <1>2, <1>3 DEF CallExact, Growing
  <2>3. \A u \in Thread : u # t => CallExact(u)'
    BY <1>3, <1>4, <1>5, OtherCallsKeep DEF Exact
  <2>4. ASSUME NEW g \in Slot PROVE FileExact(g)'
    <3>1. Start(g) # None => Safe(Start(g))
      BY <1>5, <1>10
    <3> QED BY <1>3, <3>1, OtherFilesExact DEF Exact, Changing, Growing
  <2> QED BY <2>1, <2>2, <2>3, <2>4 DEF Exact
<1>12. CASE IsData(link[c])
  <2>1. PICK n \in Cluster : n = link[c] /\ n = Pending(t)' /\ n # None
    BY <1>2, <1>12, NoneIsNoCluster DEF IsData, Pending
  <2>2. Detached(link', Roots \ {c}, n) /\ n \notin Roots \ {c}
    BY <1>6, <1>12, <2>1 DEF Detached
  <2>3. OneAnswers'
    BY <1>7, <1>8, <1>9, <1>10, <2>1, <2>2 DEF ChainsOK, OneAnswers
  <2>4. WellFormed(link', (Roots \ {c}) \union {n})
    <3>1. link' \in Table /\ Roots \ {c} \in SUBSET Cluster
      BY <1>2, <1>4 DEF Table, FatValue
    <3> QED BY <1>6, <2>2, <3>1, RegisterKeeps
  <2>5. WellFormed(link', Roots')
    <3>1. \A g \in Slot : Start(g)' \in ((Roots \ {c}) \union {n}) \union {None}
      BY <1>9, <1>10
    <3>2. \A u \in Thread : /\ New(u)' \in ((Roots \ {c}) \union {n}) \union {None}
                            /\ Pending(u)' \in ((Roots \ {c}) \union {n}) \union {None}
      BY <1>7, <1>8, <1>10, <2>1
    <3>3. Roots' \subseteq (Roots \ {c}) \union {n}
      BY <3>1, <3>2, RootsWithin
    <3> QED BY <2>4, <3>3, FewerHeads
  <2> QED BY <1>0, <1>14, <1>7, <1>8, <1>11, <2>3, <2>5 DEF ChainsOK
<1>13. CASE ~IsData(link[c])
  <2>1. Pending(t)' = None
    BY <1>2, <1>13 DEF Pending
  <2>2. OneAnswers'
    BY <1>7, <1>8, <1>9, <2>1 DEF ChainsOK, OneAnswers
  <2>3. WellFormed(link', Roots')
    <3>1. \A g \in Slot : Start(g)' \in (Roots \ {c}) \union {None}
      BY <1>9, <1>10
    <3>2. \A u \in Thread : /\ New(u)' \in (Roots \ {c}) \union {None}
                            /\ Pending(u)' \in (Roots \ {c}) \union {None}
      BY <1>7, <1>8, <1>10, <2>1
    <3>3. Roots' \subseteq Roots \ {c}
      BY <3>1, <3>2, RootsWithin
    <3> QED BY <1>6, <3>3, FewerHeads
  <2> QED BY <1>0, <1>14, <1>7, <1>8, <1>11, <2>2, <2>3 DEF ChainsOK
<1> QED BY <1>12, <1>13

-----------------------------------------------------------------------------
(* FileInv, and what follows from it *)

LEMMA ChainsInit == Init => ChainsOK
<1> SUFFICES ASSUME Init PROVE ChainsOK
  OBVIOUS
<1>1. \A f \in Slot : Start(f) = None
  BY DEF Init, Start, Unused
<1>2. \A t \in Thread : New(t) = None /\ Pending(t) = None
  BY DEF Init, New, Pending
<1>3. Roots = {}
  BY <1>1, <1>2 DEF Roots
<1>4. WellFormed(link, Roots)
  BY <1>3, MarksAreNotClusters DEF Init, WellFormed, LinksInUse, LinksInjective, HeadsInUse,
                                   HeadsUnlinked, IsData
<1>5. OneAnswers
  BY <1>1, <1>2 DEF OneAnswers
<1>6. \A t \in Thread : GrowOK(t) /\ ShrinkOK(t)
  BY DEF Init, GrowOK, ShrinkOK, Growing, Shrinking
<1>7. \A f \in Slot : LongEnough(f)
  BY EmptyChain, NeededGrows DEF Init, LongEnough, ChainOf, Unused
<1> QED BY <1>4, <1>5, <1>6, <1>7 DEF ChainsOK

LEMMA ChainsStutter == ASSUME HandlesOK, ChainsOK, UNCHANGED vars
    PROVE  ChainsOK' /\ PoolStep /\ ExactStep
<1> USE DEF vars, disk, locals, history
<1>1. \A g \in Slot : Start(g)' = Start(g)
  BY StartsKept
<1>2. \A t \in Thread : New(t)' = New(t) /\ Pending(t)' = Pending(t)
  BY DEF New, Pending
<1>3. \A t \in Thread : GrowOK(t)' /\ ShrinkOK(t)'
  BY DEF ChainsOK, GrowOK, ShrinkOK, Grown, Growing, Shrinking, ChainOf
<1>4. \A g \in Slot : LongEnough(g)'
  BY DEF ChainsOK, LongEnough, Shrinking, ChainOf
<1>5. PoolStep
  BY <1>1, HeadsKept DEF PoolStep
<1>6. ExactStep
  <2> SUFFICES ASSUME Exact PROVE Exact'
    BY DEF ExactStep
  <2>1. Covered'
    BY <1>1, <1>2, RootsKept DEF Exact
  <2>2. \A t \in Thread : CallExact(t)'
    BY DEF Exact, CallExact, Grown, Growing, Shrinking, ChainOf
  <2>3. \A g \in Slot : FileExact(g)'
    BY DEF Exact, FileExact, Changing, Growing, Shrinking, ChainOf
  <2> QED BY <2>1, <2>2, <2>3 DEF Exact
<1> QED BY <1>1, <1>2, <1>3, <1>4, <1>5, <1>6, FewerRoots DEF ChainsOK

\* A call that was stopped half way stays stopped.
LEMMA TornStays == HandlesOK /\ [Next]_vars /\ torn => torn'
  BY DEF Next, Step, vars, disk, locals, history, Create, Open, Close, BeginGrow, BeginShrink,
         GrowFirst, GrowTake, GrowLink, GrowNoSpace, GrowDone, ShrinkCut, ShrinkRelease,
         ShrinkDone, Store, Unlink, FreeNext, IoError, Crash

\* Nor is a failure forgotten, and only one stops a call.
LEMMA FailedStays == HandlesOK /\ [Next]_vars => (failed => failed') /\ (torn' => torn \/ failed')
<1> SUFFICES ASSUME HandlesOK, [Next]_vars PROVE failed' \/ UNCHANGED <<torn, failed>>
  OBVIOUS
<1>1. ASSUME NEW t \in Thread, IoError(t) PROVE failed'
  BY <1>1, Zenon DEF IoError
<1>2. CASE Crash
  BY <1>2, Zenon DEF Crash
<1>3. ASSUME ~Crash, \A t \in Thread : ~IoError(t)
      PROVE  failed' \/ UNCHANGED <<torn, failed>>
  BY <1>3 DEF Next, Step, vars, disk, locals, history, Create, Open, Close, BeginGrow, BeginShrink,
         GrowFirst, GrowTake, GrowLink, GrowNoSpace, GrowDone, ShrinkCut, ShrinkRelease,
         ShrinkDone, Store, Unlink, FreeNext
<1> QED BY <1>1, <1>2, <1>3

LEMMA ExactInit == Init => Exact
<1> SUFFICES ASSUME Init PROVE Exact
  OBVIOUS
<1>1. Covered
  BY MarksAreNotClusters DEF Init, Covered, InChain, IsData
<1>2. \A t \in Thread : CallExact(t)
  BY DEF Init, CallExact, Growing, Shrinking
<1>3. \A f \in Slot : FileExact(f)
  BY EmptyChain, NeededGrows DEF Init, FileExact, ChainOf, Unused
<1> QED BY <1>1, <1>2, <1>3 DEF Exact

LEMMA FileInvInit == Init => FileInv
<1>1. Init => (torn => failed)
  BY DEF Init
<1> QED BY <1>1, HandlesInit, ChainsInit, ExactInit DEF FileInv

LEMMA UntornStep == FileInv /\ [Next]_vars /\ ~torn' => ChainsOK' /\ PoolStep /\ ExactStep
<1> SUFFICES ASSUME FileInv, [Next]_vars, ~torn' PROVE ChainsOK' /\ PoolStep /\ ExactStep
  OBVIOUS
<1>1. HandlesOK /\ ChainsOK
  BY TornStays DEF FileInv
<1>2. CASE UNCHANGED vars
  BY <1>1, <1>2, ChainsStutter
<1>3. CASE Next
  BY <1>1, <1>3, ChainsCreate, ChainsOpen, ChainsClose, ChainsBeginGrow, ChainsBeginShrink,
     ChainsGrowFirst, ChainsGrowTake, ChainsGrowLink, ChainsGrowNoSpace, ChainsGrowDone,
     ChainsShrinkCut, ChainsShrinkRelease, ChainsShrinkDone, ChainsStore, ChainsUnlink,
     ChainsFreeNext, ChainsIoError, ChainsCrash
     DEF Next, Step
<1> QED BY <1>2, <1>3

LEMMA FileInvStep == FileInv /\ [Next]_vars => FileInv'
<1> SUFFICES ASSUME FileInv, [Next]_vars PROVE FileInv'
  OBVIOUS
<1>1. HandlesOK'
  BY HandlesStep DEF FileInv
<1>2. torn' => failed'
  BY FailedStays DEF FileInv
<1>3. ~torn' => ChainsOK'
  BY UntornStep
<1>4. ~failed' => Exact'
  BY <1>2, FailedStays, UntornStep DEF FileInv, ExactStep
<1> QED BY <1>1, <1>2, <1>3, <1>4 DEF FileInv

\* No two files share a cluster and every cluster of a file is allocated, for any
\* number of callers and files, after any number of failed calls and crashes that
\* stop no shortening call half way.
THEOREM FilesStayDisjoint == Spec => []FilesDisjoint
<1>1. FileInv => FilesDisjoint
  <2> SUFFICES ASSUME HandlesOK, ChainsOK
               PROVE  /\ WellFormed(link, Heads)
                      /\ \A f, g \in Owners : entry[f].start = entry[g].start => f = g
    BY DEF FileInv, FilesDisjoint
  <2>1. \A f \in Owners : f \in Slot /\ Start(f) = entry[f].start /\ Start(f) # None
    BY DEF Owners, Start
  <2>2. Heads \subseteq Roots
    BY <2>1, RootsAreClusters DEF Heads
  <2>3. WellFormed(link, Heads)
    BY <2>2, FewerHeads DEF ChainsOK
  <2> QED BY <2>1, <2>3 DEF ChainsOK, OneAnswers
<1> QED BY <1>1, FileInvInit, FileInvStep, PTL DEF Spec

\* Under the same condition a file that is not being shortened has the clusters
\* its size takes, also while it grows.
THEOREM SizesStayCovered == Spec => []SizesCovered
<1>1. FileInv => SizesCovered
  BY DEF FileInv, ChainsOK, LongEnough, SizesCovered
<1> QED BY <1>1, FileInvInit, FileInvStep, PTL DEF Spec

\* As long as no call has failed, whenever none is running every allocated cluster
\* belongs to a file and every file has exactly the clusters its size takes: no
\* sequence of interleaved calls loses a cluster.
THEOREM NothingStaysLost == Spec => []NothingLost
<1>1. FileInv => NothingLost
  <2> SUFFICES ASSUME HandlesOK, ChainsOK, Exact, \A t \in Thread : pc[t] = "idle"
               PROVE  /\ {c \in Cluster : InChain(link[c])}
                             = UNION {ChainOf(entry[f].start) : f \in Slot}
                      /\ \A f \in Slot : Cardinality(ChainOf(entry[f].start)) = Needed(entry[f].size)
    BY DEF FileInv, NothingLost
  <2>1. \A t \in Thread : New(t) = None /\ Pending(t) = None /\ ~Changing(t)
    BY DEF New, Pending, Changing, Growing, Shrinking
  <2>2. emptied = {}
    BY DEF HandlesOK, TypeOK, ChainsOK, ShrinkOK, Shrinking
  <2>3. \A f \in Slot : Start(f) = entry[f].start
    BY <2>2 DEF Start, Owners
  <2>4. ASSUME NEW c \in Cluster, InChain(link[c])
        PROVE  \E f \in Slot : c \in ChainOf(entry[f].start)
    <3>1. PICK r \in Roots : c \in Chain(link, r)
      BY <2>4 DEF Exact, Covered
    <3>2. PICK f \in Slot : r = entry[f].start /\ r # None
      BY <2>1, <2>3, RootIs
    <3> QED BY <3>1, <3>2 DEF ChainOf
  <2>5. ASSUME NEW f \in Slot, NEW c \in ChainOf(entry[f].start)
        PROVE  c \in Cluster /\ InChain(link[c])
    <3>1. entry[f].start # None /\ c \in Chain(link, entry[f].start)
      BY <2>5 DEF ChainOf
    <3>2. entry[f].start \in Roots /\ Roots \in SUBSET Cluster
      BY <2>3, <3>1, RootsAreClusters
    <3> QED BY <3>1, <3>2, ChainInUse DEF ChainsOK
  <2>6. \A f \in Slot : Cardinality(ChainOf(entry[f].start)) = Needed(entry[f].size)
    BY <2>1 DEF Exact, FileExact
  <2> QED BY <2>4, <2>5, <2>6
<1> QED BY <1>1, FileInvInit, FileInvStep, PTL DEF Spec

\* create_file, set_len and unlink use the table as the pool of clusters allows:
\* until a shortening call is stopped half way they only take free clusters, append
\* and release clusters nothing refers to, cut chains, and record and drop start
\* clusters.
THEOREM FilesImplementPool == Spec => PoolUntilTorn
<1>1. Init => Pool!Init
  <2> SUFFICES ASSUME Init PROVE Pool!Init
    OBVIOUS
  <2>1. HandlesOK /\ ChainsOK
    BY HandlesInit, ChainsInit
  <2>2. WellFormed(link, Heads) /\ Heads \subseteq Cluster /\ link \in Table
    BY <2>1, HeadsAreRoots, FewerHeads DEF ChainsOK, HandlesOK, TypeOK
  <2> QED BY <2>2, SameTable DEF Pool!Init
<1>2. FileInv /\ [Next]_vars => [torn' \/ Pool!Next]_<<link, Heads>>
  BY UntornStep DEF PoolStep
<1> QED BY <1>1, <1>2, FileInvInit, FileInvStep, PTL DEF Spec, PoolUntilTorn
=============================================================================
