-------------------------- MODULE ClusterAlloc_proofs --------------------------
(***************************************************************************)
(* Proofs about ClusterAlloc for every volume size, number of tables and   *)
(* set of threads, when the callers exclude each other's calls or, with    *)
(* any number of threads in a call, each other's allocations (Excluded).   *)
(* Device faults and crashes are included.                                 *)
(***************************************************************************)
EXTENDS ClusterAlloc, FatTable_proofs, FiniteSetTheorems

\* What ChainsWellFormed says until a call goes by a stale entry.
Formed == WellFormed(fat[0], heads)

Excluded == Locking # "none"
Serial   == Locking = "calls"

(***************************************************************************)
(* The types hold whatever a call goes by: a call works on clusters.       *)
(***************************************************************************)
PointTyped(t) ==
    /\ op[t] \in {"extend", "trim", "free"} => chain[t] \in Cluster
    /\ pc[t] \in {"walk", "assertFree", "putEndOfChain", "assertLast", "putLink", "storeHint"}
                   \union FreePoint => number[t] \in Cluster
    /\ pc[t] \in {"subFree", "ok"} \union FlushPoint /\ op[t] = "alloc" => number[t] \in Cluster
    /\ pc[t] \in {"readLast", "unlink"} => prev[t] \in Cluster
    /\ pc[t] \in AllocSection /\ op[t] = "extend" => prev[t] \in Cluster
    /\ pc[t] = "loadHint" => op[t] = "alloc"
    /\ pc[t] \in {"assertLast", "putLink"} => op[t] = "extend"
    /\ pc[t] \in {"checkFree", "tryNext", "reloadHint"} => start[t] # None
    /\ pc[t] = "scan" => number[t] # None

\* A stale entry is what a failed access or a crash leaves.
Calm == Undisturbed => stale = {} /\ ~torn

TypeInv == TypeOK /\ Calm /\ \A t \in Thread : PointTyped(t)

(***************************************************************************)
(* The inductive invariant: what a thread knows at each of its points      *)
(* about the cluster it works on, whatever the other threads do there.     *)
(***************************************************************************)
Loose(c) == c \in Cluster /\ Detached(fat[0], heads, c)

Last(c) == c \in Cluster /\ Get(c) = EndOfChain

\* The loop of put is in a copy other than the first only at a put.
PutPoint == {"putEndOfChain", "putLink", "unlink", "putFree"}

\* The call is on number[t], which nothing refers to: it has taken it, or it is
\* about to free it.
Holds(t) ==
    \/ pc[t] = "putEndOfChain" /\ fat_index[t] # 0
    \/ pc[t] = "assertLast"
    \/ pc[t] = "putLink" /\ fat_index[t] = 0
    \/ pc[t] \in {"storeHint", "subFree", "ok"} \union FlushPoint /\ op[t] = "alloc"
    \/ pc[t] = "unlink" /\ fat_index[t] # 0
    \/ pc[t] = "readCurrent"
    \/ pc[t] = "putFree" /\ fat_index[t] = 0

\* It has freed number[t], and nothing refers to what followed it.
HoldsRest(t) == \/ pc[t] = "putFree" /\ fat_index[t] # 0
                \/ pc[t] \in {"swapHint", "addFree"}

Held(t) == IF Holds(t) THEN {number[t]}
           ELSE IF HoldsRest(t) /\ IsData(value[t]) THEN {value[t]} ELSE {}

HeldOK(t) == \A c \in Held(t) : Loose(c)

\* The chain of the call still starts where it did, and c is a cluster of it.
OnChain(t, c) == chain[t] \in heads /\ c \in Chain(fat[0], chain[t])

IdleOK(t) == pc[t] = Idle => op[t] = Idle /\ prev[t] = None /\ chain[t] = None

IndexOK(t) == pc[t] \notin PutPoint \union {"ioerr"} => fat_index[t] = 0

\* prev is None or the cluster before number, which the walk starts as the head.
WalkOK(t) == pc[t] = "walk" =>
    /\ op[t] \in {"extend", "trim"}
    /\ OnChain(t, number[t])
    /\ prev[t] = None => number[t] = chain[t]
    /\ prev[t] # None => OnChain(t, prev[t]) /\ Get(prev[t]) = number[t]

\* An extending call is in its chain and, once it excludes other allocations, at its
\* last cluster.
ExtendOK(t) ==
    pc[t] \in {"loadHint", "readLast", "checkFree", "tryNext", "reloadHint",
               "scan", "assertFree"} =>
    /\ op[t] \in {"alloc", "extend"}
    /\ pc[t] = "loadHint" => op[t] = "alloc"
    /\ pc[t] \in {"readLast", "tryNext", "reloadHint"} => op[t] = "extend"
    /\ op[t] = "extend" => OnChain(t, prev[t])
    /\ op[t] = "extend" /\ pc[t] # "readLast" => Last(prev[t])
    /\ pc[t] \notin {"loadHint", "readLast"} =>
         /\ start[t] # None
         /\ op[t] = "extend" => start[t] \in Cluster
    /\ pc[t] = "scan" => number[t] # None
    /\ pc[t] = "assertFree" => number[t] \in Cluster /\ Get(number[t]) = Free

\* The cluster being allocated is free until it is taken, and the chain it will be
\* put behind ends where it did.
TakeOK(t) == pc[t] \in {"putEndOfChain", "assertLast", "putLink"} =>
    /\ op[t] \in {"alloc", "extend"}
    /\ pc[t] # "putEndOfChain" => op[t] = "extend"
    /\ number[t] \in Cluster
    /\ op[t] = "extend" => prev[t] \in Cluster /\ prev[t] # number[t]
    /\ pc[t] # "putLink" \/ fat_index[t] = 0 =>
         /\ op[t] = "extend" => OnChain(t, prev[t]) /\ Last(prev[t])
         /\ Get(number[t]) = IF Holds(t) THEN EndOfChain ELSE Free

KeepOK(t) == pc[t] \in {"storeHint", "subFree", "ok"} \union FlushPoint =>
    /\ op[t] \in Calls
    /\ pc[t] \in {"storeHint", "subFree"} => op[t] \in {"alloc", "extend"} /\ number[t] \in Cluster

\* The cluster to be released still follows prev until it is cut off, and what
\* was read of it stays.
FreeOK(t) == pc[t] \in FreePoint =>
    /\ op[t] \in {"trim", "free"}
    /\ number[t] \in Cluster
    /\ pc[t] = "unlink" => op[t] = "trim" /\ prev[t] \in Cluster
    /\ pc[t] = "unlink" /\ fat_index[t] = 0 => OnChain(t, prev[t]) /\ Get(prev[t]) = number[t]
    /\ pc[t] = "putFree" /\ fat_index[t] = 0 => value[t] = Get(number[t])

CallOK(t) == /\ pc[t] # "panic"
             /\ IdleOK(t) /\ IndexOK(t) /\ WalkOK(t) /\ ExtendOK(t)
             /\ TakeOK(t) /\ KeepOK(t) /\ FreeOK(t)

\* The threads that are in a call, that allocate, that work on a chain and that hold
\* a cluster exclude each other.
OneCall == \A t, u \in Thread : InCall(t) /\ InCall(u) => t = u

OneAllocation == \A t, u \in Thread : Allocating(t) /\ Allocating(u) => t = u

OwnChains == \A t, u \in Thread :
    t # u /\ chain[t] = chain[u] /\ chain[t] # None => op[t] = "extend" /\ op[u] = "extend"

HeldApart == \A t, u \in Thread : t # u => Held(t) \cap Held(u) = {}

IInv == /\ TypeOK
        /\ Formed
        /\ Serial => OneCall
        /\ OneAllocation
        /\ OwnChains
        /\ HeldApart
        /\ \A t \in Thread : CallOK(t) /\ HeldOK(t)

-----------------------------------------------------------------------------
(* What a step of t may not do to the call of another thread u: take its chain *)
(* from it, change a link of it or, while it allocates, its end, make a        *)
(* cluster it holds referred to, or take a free cluster while it allocates.    *)

Others(t) == \A u \in Thread \ {t} :
    /\ pc'[u] = pc[u]
    /\ op'[u] = op[u]
    /\ chain'[u] = chain[u]
    /\ prev'[u] = prev[u]
    /\ start'[u] = start[u]
    /\ number'[u] = number[u]
    /\ value'[u] = value[u]
    /\ fat_index'[u] = fat_index[u]

Spared(u) ==
    /\ chain[u] \in heads =>
         /\ chain[u] \in heads'
         /\ \A d \in Chain(fat[0], chain[u]) :
               /\ d \in Chain(fat'[0], chain[u])
               /\ IsData(fat[0][d]) \/ Allocating(u) => fat'[0][d] = fat[0][d]
    /\ \A c \in Held(u) : Detached(fat'[0], heads', c) /\ fat'[0][c] = fat[0][c]
    /\ Allocating(u) => \A c \in Cluster : fat[0][c] = Free => fat'[0][c] = Free

\* That is enough for it to go on.
LEMMA SparedKeeps ==
    ASSUME IInv, NEW t \in Thread, NEW u \in Thread \ {t}, Others(t), Spared(u)
    PROVE  /\ CallOK(u)' /\ HeldOK(u)'
           /\ Held(u)' = Held(u)
           /\ Allocating(u)' = Allocating(u)
<1>1. /\ pc'[u] = pc[u] /\ op'[u] = op[u] /\ chain'[u] = chain[u] /\ prev'[u] = prev[u]
      /\ start'[u] = start[u] /\ number'[u] = number[u] /\ value'[u] = value[u]
      /\ fat_index'[u] = fat_index[u]
  BY DEF Others
<1>2. Holds(u)' = Holds(u)
  BY <1>1 DEF Holds
<1>3. Held(u)' = Held(u)
  BY <1>1, <1>2 DEF Held, HoldsRest
<1>4. Allocating(u)' = Allocating(u)
  BY <1>1 DEF Allocating
<1>5. CallOK(u) /\ HeldOK(u)
  BY DEF IInv
<1>6. HeldOK(u)'
  BY <1>3, <1>5 DEF HeldOK, Loose, Spared
<1>7. chain[u] \in heads =>
        /\ chain'[u] \in heads'
        /\ \A c \in Chain(fat[0], chain[u]) :
              /\ c \in Chain(fat'[0], chain'[u])
              /\ IsData(fat[0][c]) \/ Allocating(u) => fat'[0][c] = fat[0][c]
  BY <1>1 DEF Spared
<1>8. WalkOK(u)'
  <2> SUFFICES ASSUME pc[u] = "walk" PROVE WalkOK(u)'
    BY <1>1 DEF WalkOK
  <2>1. OnChain(u, number[u])'
    BY <1>1, <1>5, <1>7 DEF CallOK, WalkOK, OnChain
  <2>2. prev[u] # None => IsData(Get(prev[u]))
    BY <1>5 DEF CallOK, WalkOK, OnChain, Chain, IsData
  <2>3. prev[u] # None => OnChain(u, prev[u])' /\ Get(prev[u])' = number[u]
    BY <1>1, <1>5, <1>7, <2>2 DEF CallOK, WalkOK, OnChain, Get
  <2> QED BY <1>1, <1>5, <2>1, <2>3 DEF CallOK, WalkOK, OnChain, Get
<1>9. ExtendOK(u)'
  <2> SUFFICES ASSUME pc[u] \in {"loadHint", "readLast", "checkFree", "tryNext", "reloadHint",
                                 "scan", "assertFree"}
               PROVE  ExtendOK(u)'
    BY <1>1 DEF ExtendOK
  <2>1. op[u] = "extend" => OnChain(u, prev[u])'
    BY <1>1, <1>5, <1>7 DEF CallOK, ExtendOK, OnChain
  <2>2. pc[u] \notin {"loadHint", "readLast"} => Allocating(u)
    BY DEF Allocating, AllocSection
  <2>3. op[u] = "extend" /\ pc[u] # "readLast" => Last(prev[u])'
    BY <1>1, <1>5, <1>7, <2>2 DEF CallOK, ExtendOK, OnChain, Last, Get
  <2>4. pc[u] = "assertFree" => Get(number[u])' = Free
    BY <1>1, <1>5, <2>2 DEF CallOK, ExtendOK, Spared, Get
  <2> QED BY <1>1, <1>5, <2>1, <2>3, <2>4 DEF CallOK, ExtendOK, OnChain, Last, Get
<1>10. TakeOK(u)'
  <2> SUFFICES ASSUME pc[u] \in {"putEndOfChain", "assertLast", "putLink"} PROVE TakeOK(u)'
    BY <1>1 DEF TakeOK
  <2>1. Allocating(u)
    BY DEF Allocating, AllocSection
  <2>2. (pc[u] # "putLink" \/ fat_index[u] = 0) /\ op[u] = "extend" => OnChain(u, prev[u])' /\ Last(prev[u])'
    BY <1>1, <1>5, <1>7, <2>1 DEF CallOK, TakeOK, Holds, OnChain, Last, Get
  <2>3. Holds(u) => number[u] \in Held(u)
    BY DEF Held
  <2>4. pc[u] # "putLink" \/ fat_index[u] = 0 => Get(number[u])' = Get(number[u])
    BY <1>1, <1>5, <2>1, <2>3 DEF CallOK, TakeOK, Spared, Get
  <2> QED BY <1>1, <1>2, <1>5, <2>2, <2>4 DEF CallOK, TakeOK, OnChain, Last, Get
<1>11. FreeOK(u)'
  <2> SUFFICES ASSUME pc[u] \in FreePoint PROVE FreeOK(u)'
    BY <1>1 DEF FreeOK
  <2>1. pc[u] = "unlink" /\ fat_index[u] = 0 => OnChain(u, prev[u])' /\ Get(prev[u])' = number[u]
    BY <1>1, <1>5, <1>7 DEF CallOK, FreeOK, FreePoint, OnChain, IsData, Get
  <2>2. pc[u] = "putFree" /\ fat_index[u] = 0 => Get(number[u])' = Get(number[u])
    BY <1>1 DEF Held, Holds, Spared, Get
  <2> QED BY <1>1, <1>5, <2>1, <2>2 DEF CallOK, FreeOK, OnChain, Get
<1>12. IdleOK(u)' /\ IndexOK(u)' /\ KeepOK(u)'
  BY <1>1, <1>5 DEF CallOK, IdleOK, IndexOK, KeepOK
<1> QED BY <1>1, <1>3, <1>4, <1>5, <1>6, <1>8, <1>9, <1>10, <1>11, <1>12 DEF CallOK

\* So a step of t has to keep what t itself knows, to spare the others, and to come
\* by what it enters or gets hold of in a fair way.
LEMMA Combine ==
    ASSUME IInv, Excluded, NEW t \in Thread, InCall(t) \/ MayCall, Others(t),
           TypeOK', Formed', CallOK(t)', HeldOK(t)', OwnChains',
           \A u \in Thread \ {t} : Spared(u) /\ Held(t)' \cap Held(u) = {},
           Allocating(t)' => Allocating(t) \/ MayAllocate
    PROVE  IInv'
<1>1. \A u \in Thread \ {t} : /\ CallOK(u)' /\ HeldOK(u)'
                              /\ Held(u)' = Held(u) /\ Allocating(u)' = Allocating(u)
  BY SparedKeeps
<1>2. Serial => \A u \in Thread \ {t} : pc[u] = Idle /\ pc'[u] = Idle
  BY DEF IInv, OneCall, InCall, MayCall, Serial, Others
<1>3. Serial => OneCall'
  BY <1>2 DEF OneCall, InCall
<1>4. OneAllocation'
  <2>1. ASSUME NEW u \in Thread \ {t}, Allocating(t)' PROVE ~Allocating(u)
    <3>1. CASE Allocating(t)
      BY <3>1 DEF IInv, OneAllocation
    <3>2. CASE MayAllocate /\ ~Serial
      BY <3>2, ConstantsAssumption DEF MayAllocate, Excluded, Serial
    <3>3. CASE Serial
      BY <1>2, <3>3 DEF Allocating, AllocSection, FlushPoint, Idle
    <3> QED BY <2>1, <3>1, <3>2, <3>3
  <2> QED BY <1>1, <2>1 DEF IInv, OneAllocation
<1>5. HeldApart'
  BY <1>1 DEF IInv, HeldApart
<1> QED BY <1>1, <1>3, <1>4, <1>5 DEF IInv

\* A cluster of a chain is in use, and no call holds it.
LEMMA ChainFacts ==
    ASSUME IInv, NEW t \in Thread, NEW c, OnChain(t, c)
    PROVE  /\ c \in Cluster /\ Get(c) \in FatValue /\ InChain(Get(c))
           /\ \A u \in Thread : c \notin Held(u)
<1>1. fat[0] \in Table /\ heads \in SUBSET Cluster
  BY ConstantsAssumption DEF IInv, TypeOK
<1>2. c \in Cluster /\ InChain(fat[0][c])
  BY <1>1, ChainInUse DEF OnChain, IInv, Formed
<1>3. ASSUME NEW u \in Thread, c \in Held(u) PROVE FALSE
  <2>1. c \notin heads /\ ~Linked(fat[0], c)
    BY <1>3 DEF IInv, HeldOK, Loose, Detached
  <2> QED BY <1>1, <1>2, <2>1, ChainMissesUnlinked DEF OnChain
<1> QED BY <1>1, <1>2, <1>3 DEF Get, Table

\* A held cluster is in use, is no start cluster, and nothing leads to it.
LEMMA HeldFacts ==
    ASSUME IInv, NEW u \in Thread, NEW c \in Held(u)
    PROVE  /\ c \in Cluster /\ Get(c) # Free /\ c \notin heads
           /\ \A d \in Cluster : Get(d) # c
  BY MarksAreNotClusters DEF IInv, HeldOK, Loose, Detached, InChain, IsData, Linked, Get

\* A write to the entry of e spares every call that does not hold e, unless it takes
\* a cluster or writes to the end of a chain while the call allocates.
LEMMA WriteSpares ==
    ASSUME IInv, NEW u \in Thread, NEW e \in Cluster, NEW v \in FatValue,
           fat'[0] = [fat[0] EXCEPT ![e] = v], heads' = heads,
           e \notin Held(u), v \notin Held(u),
           \/ Get(e) = Free /\ ~Allocating(u)
           \/ ~OnChain(u, e) /\ Get(e) # Free
           \/ ~IsData(Get(e)) /\ ~Allocating(u)
    PROVE  Spared(u)
<1>1. fat[0] \in Table /\ heads \in SUBSET Cluster
  BY ConstantsAssumption DEF IInv, TypeOK
<1>2. \A d \in Cluster : fat'[0][d] = IF d = e THEN v ELSE fat[0][d]
  BY <1>1 DEF Table
<1>3. ASSUME chain[u] \in heads
      PROVE  \A d \in Chain(fat[0], chain[u]) :
               /\ d \in Chain(fat'[0], chain[u])
               /\ IsData(fat[0][d]) \/ Allocating(u) => fat'[0][d] = fat[0][d]
  <2>1. chain[u] \in Cluster
    BY <1>1, <1>3
  <2>2. ASSUME NEW d \in Chain(fat[0], chain[u]), IsData(fat[0][d]) \/ Allocating(u)
        PROVE  fat'[0][d] = fat[0][d]
    <3>1. OnChain(u, d)
      BY <1>3 DEF OnChain
    <3>2. d \in Cluster /\ Get(d) # Free
      BY <3>1, ChainFacts, MarksAreNotClusters DEF InChain, IsData
    <3> QED BY <1>2, <2>2, <3>1, <3>2 DEF Get
  <2>3. Chain(fat[0], chain[u]) \subseteq Chain(fat'[0], chain[u])
    BY <2>1, <2>2, ChainSurvives
  <2> QED BY <2>2, <2>3
<1>4. ASSUME NEW c \in Held(u) PROVE Detached(fat'[0], heads', c) /\ fat'[0][c] = fat[0][c]
  <2>1. c \in Cluster /\ c # e /\ v # c /\ Detached(fat[0], heads, c)
    BY <1>4 DEF IInv, HeldOK, Loose
  <2> QED BY <1>2, <2>1 DEF Detached, Linked
<1>5. Allocating(u) => \A c \in Cluster : fat[0][c] = Free => fat'[0][c] = Free
  BY <1>2 DEF Get
<1> QED BY <1>3, <1>4, <1>5 DEF Spared

\* A put changes the first copy of the table in its first round only.
LEMMA PutFirst ==
    ASSUME TypeOK, NEW t \in Thread, NEW c \in Cluster, NEW v \in FatValue,
           NEW next \in Point, RawPut(t, c, v, next)
    PROVE  /\ TypeOK'
           /\ Others(t)
           /\ fat'[0] = IF fat_index[t] = 0 THEN [fat[0] EXCEPT ![c] = v] ELSE fat[0]
           /\ \/ fat_index'[t] = fat_index[t] + 1 /\ pc'[t] = pc[t]
              \/ fat_index'[t] = 0 /\ pc'[t] = next
<1>1. 0 \in 0..(FatCount - 1)
  BY ConstantsAssumption
<1>2. fat' \in [0..(FatCount - 1) -> Table]
  BY DEF TypeOK, RawPut, Table
<1>3. fat'[0] = IF fat_index[t] = 0 THEN [fat[0] EXCEPT ![c] = v] ELSE fat[0]
  BY <1>1 DEF TypeOK, RawPut
<1>4. fat_index' \in [Thread -> 0..(FatCount - 1)] /\ pc' \in [Thread -> Point]
  <2>1. fat_index[t] \in 0..(FatCount - 1)
    BY DEF TypeOK
  <2>2. CASE fat_index[t] + 1 < FatCount
    <3>1. fat_index[t] + 1 \in 0..(FatCount - 1)
      BY <2>1, <2>2, ConstantsAssumption
    <3>2. fat_index' = [fat_index EXCEPT ![t] = fat_index[t] + 1] /\ pc' = pc
      BY <2>2 DEF RawPut
    <3> QED BY <3>1, <3>2 DEF TypeOK
  <2>3. CASE ~(fat_index[t] + 1 < FatCount)
    BY <1>1, <2>3 DEF TypeOK, RawPut, Goto
  <2> QED BY <2>2, <2>3
<1>5. TypeOK'
  BY <1>2, <1>4 DEF TypeOK, RawPut, memory, mishap
<1>6. Others(t)
  BY DEF TypeOK, RawPut, Goto, Others
<1> QED BY <1>3, <1>5, <1>6 DEF TypeOK, RawPut, Goto

-----------------------------------------------------------------------------
(* Steps that leave the first copy of the table and the start clusters alone. *)

\* FatValue::get returns one of the four kinds of value.
LEMMA GetTyped == ASSUME TypeOK PROVE \A c \in Cluster : Get(c) \in FatValue
  BY ConstantsAssumption DEF TypeOK, Get, Table

\* The search stays inside the table, also from cluster 1.
LEMMA SuccTyped == \A c \in Cluster \union {1} : Succ(c) \in Cluster
  BY ClusterCountAssumption DEF Succ, Cluster

\* A step of one call that writes neither the first copy nor a start cluster, stays
\* on its chain and takes hold of nothing new keeps the invariant when it keeps
\* the conditions of that call.
LEMMA QuietStep ==
    ASSUME IInv, Excluded, NEW t \in Thread, InCall(t), fat'[0] = fat[0], heads' = heads,
           Others(t), op'[t] = op[t], chain'[t] = chain[t], TypeOK', CallOK(t)',
           Held(t)' \subseteq Held(t), Allocating(t)' => Allocating(t) \/ MayAllocate
    PROVE  IInv'
<1>1. Formed'
  BY DEF IInv, Formed
<1>2. HeldOK(t)'
  BY DEF IInv, HeldOK, Loose
<1>3. OwnChains'
  BY DEF IInv, OwnChains, Others
<1>4. ASSUME NEW u \in Thread \ {t} PROVE Spared(u) /\ Held(t)' \cap Held(u) = {}
  <2>1. Spared(u)
    BY DEF IInv, HeldOK, Loose, Spared
  <2> QED BY <2>1 DEF IInv, HeldApart
<1> QED BY <1>1, <1>2, <1>3, <1>4, Combine

\* The walk stays inside the chain it started on.
LEMMA WalkOnKeeps ==
    ASSUME IInv, Excluded, NEW t \in Thread, WalkOn(t) PROVE IInv'
<1>1. fat' = fat /\ heads' = heads /\ InCall(t) /\ Others(t)
  BY DEF WalkOn, IInv, TypeOK, Others, Goto, locals, disk, InCall, Idle, DevicePoint
<1>2. CallOK(t)
  BY DEF IInv
<1>3. TypeOK'
  <2>1. pc' \in [Thread -> Point]
    BY <1>2 DEF WalkOn, IInv, TypeOK, Goto, Point, AllocSection, FlushPoint, FreePoint, Result, Found, FlushStart
  <2>2. number[t] \in Cluster /\ Get(number[t]) \in FatValue
    BY <1>2, ChainFacts DEF WalkOn, CallOK, WalkOK
  <2>3. number'[t] \in Cluster \union {None, 1} /\ start'[t] \in Cluster \union {None, 1}
    BY <1>2, <2>2, ConstantsAssumption, ClusterCountAssumption
    DEF WalkOn, IInv, TypeOK, CallOK, WalkOK, ExtendOK, FreeOK, FreePoint, locals, Cluster, IsData, Last, None
  <2> QED
    BY <1>2, <2>1, <2>2, <2>3, ConstantsAssumption
    DEF WalkOn, IInv, TypeOK, CallOK, WalkOK, ExtendOK, disk, memory, locals, mishap
<1>4. /\ pc[t] = "walk" /\ pc'[t] = "walk" /\ op'[t] = op[t]
      /\ chain'[t] = chain[t] /\ prev'[t] = number[t] /\ start'[t] = start[t]
      /\ number'[t] = Get(number[t]) /\ value'[t] = value[t] /\ fat_index'[t] = fat_index[t]
  BY DEF WalkOn, IInv, TypeOK, Goto, locals
<1>5. CallOK(t)'
  <2>1. WalkOK(t)'
    <3>1. OnChain(t, number[t]) /\ number[t] \in Cluster /\ number[t] # None /\ chain[t] \in Cluster
      BY <1>2, <1>4, ChainFacts, MarksAreNotClusters DEF CallOK, WalkOK, OnChain, IInv, TypeOK, None, Free
    <3>2. OnChain(t, Get(number[t]))
      BY <3>1, ChainFollows DEF WalkOn, OnChain, FollowsLinks, Get
    <3> QED BY <1>1, <1>2, <1>4, <3>1, <3>2 DEF CallOK, WalkOK, OnChain, Get
  <2> QED
    BY <1>1, <1>2, <1>4, <2>1 DEF CallOK, IdleOK, IndexOK, WalkOK, ExtendOK, TakeOK,
       KeepOK, FreeOK, PutPoint, FlushPoint, FreePoint, Calls, Idle
<1>6. Held(t)' \subseteq Held(t) /\ (Allocating(t)' => Allocating(t) \/ MayAllocate)
  BY <1>1, <1>2, <1>4 DEF WalkOn, Goto, IInv, TypeOK, CallOK, ExtendOK, KeepOK, FreeOK, IndexOK, Held, Holds,
     HoldsRest, Allocating, AllocSection, FlushPoint, FreePoint, PutPoint, Found, FlushStart, Get
<1> QED BY <1>1, <1>3, <1>4, <1>5, <1>6, QuietStep

\* The walk of an extending call ends at the last cluster of the chain.
LEMMA WalkEndExtendKeeps ==
    ASSUME IInv, Excluded, NEW t \in Thread, WalkEndExtend(t) PROVE IInv'
<1>1. fat' = fat /\ heads' = heads /\ InCall(t) /\ Others(t)
  BY DEF WalkEndExtend, IInv, TypeOK, Others, Goto, locals, disk, InCall, Idle, DevicePoint
<1>2. CallOK(t)
  BY DEF IInv
<1>3. TypeOK'
  <2>1. pc' \in [Thread -> Point]
    BY <1>2 DEF WalkEndExtend, IInv, TypeOK, Goto, Point, AllocSection, FlushPoint, FreePoint, Result, Found, FlushStart
  <2>2. number[t] \in Cluster /\ Get(number[t]) \in FatValue
    BY <1>2, ChainFacts DEF WalkEndExtend, CallOK, WalkOK
  <2>3. number'[t] \in Cluster \union {None, 1} /\ start'[t] \in Cluster \union {None, 1}
    BY <1>2, <2>2, ConstantsAssumption, ClusterCountAssumption
    DEF WalkEndExtend, IInv, TypeOK, CallOK, WalkOK, ExtendOK, FreeOK, FreePoint, locals, Cluster, IsData, Last, None
  <2> QED
    BY <1>2, <2>1, <2>2, <2>3, ConstantsAssumption
    DEF WalkEndExtend, IInv, TypeOK, CallOK, WalkOK, ExtendOK, disk, memory, locals, mishap
<1>4. /\ pc[t] = "walk" /\ pc'[t] = "readLast" /\ op'[t] = op[t]
      /\ chain'[t] = chain[t] /\ prev'[t] = number[t] /\ start'[t] = start[t]
      /\ number'[t] = number[t] /\ value'[t] = value[t] /\ fat_index'[t] = fat_index[t]
  BY DEF WalkEndExtend, IInv, TypeOK, Goto, locals
<1>5. CallOK(t)'
  <2>1. ExtendOK(t)'
    BY <1>1, <1>2, <1>4 DEF WalkEndExtend, CallOK, WalkOK, ExtendOK, OnChain
  <2> QED
    BY <1>1, <1>2, <1>4, <2>1 DEF CallOK, IdleOK, IndexOK, WalkOK, ExtendOK, TakeOK,
       KeepOK, FreeOK, PutPoint, FlushPoint, FreePoint, Calls, Idle
<1>6. Held(t)' \subseteq Held(t) /\ (Allocating(t)' => Allocating(t) \/ MayAllocate)
  BY <1>1, <1>2, <1>4 DEF WalkEndExtend, Goto, IInv, TypeOK, CallOK, ExtendOK, KeepOK, FreeOK, IndexOK, Held, Holds,
     HoldsRest, Allocating, AllocSection, FlushPoint, FreePoint, PutPoint, Found, FlushStart, Get
<1> QED BY <1>1, <1>3, <1>4, <1>5, <1>6, QuietStep

\* A search from no hint starts at cluster 1, never at 0.
LEMMA LoadHintKeeps ==
    ASSUME IInv, Excluded, NEW t \in Thread, LoadHint(t) PROVE IInv'
<1>1. fat' = fat /\ heads' = heads /\ InCall(t) /\ Others(t)
  BY DEF LoadHint, IInv, TypeOK, Others, Goto, locals, disk, InCall, Idle, DevicePoint
<1>2. CallOK(t)
  BY DEF IInv
<1>3. TypeOK'
  <2>1. pc' \in [Thread -> Point]
    BY <1>2 DEF LoadHint, IInv, TypeOK, Goto, Point, AllocSection, FlushPoint, FreePoint, Result, Found, FlushStart
  <2>2. number[t] \in Cluster => Get(number[t]) \in FatValue
    BY GetTyped DEF IInv
  <2>3. number'[t] \in Cluster \union {None, 1} /\ start'[t] \in Cluster \union {None, 1}
    BY <1>2, <2>2, ConstantsAssumption, ClusterCountAssumption
    DEF LoadHint, IInv, TypeOK, CallOK, WalkOK, ExtendOK, FreeOK, FreePoint, locals, Cluster, IsData, Last, None, Unset
  <2> QED
    BY <1>2, <2>1, <2>2, <2>3, ConstantsAssumption
    DEF LoadHint, IInv, TypeOK, CallOK, WalkOK, ExtendOK, disk, memory, locals, mishap
<1>4. /\ pc[t] = "loadHint" /\ pc'[t] = "checkFree" /\ op'[t] = op[t]
      /\ chain'[t] = chain[t] /\ prev'[t] = prev[t] /\ number'[t] = number[t]
      /\ value'[t] = value[t] /\ fat_index'[t] = fat_index[t]
  BY DEF LoadHint, IInv, TypeOK, Goto, locals
<1>5. CallOK(t)'
  <2>1. ExtendOK(t)'
    BY <1>1, <1>2, <1>4, MarksAreNotClusters, ConstantsAssumption, ClusterCountAssumption
    DEF LoadHint, Cluster, IInv, TypeOK, CallOK, ExtendOK, Unset, None, Free
  <2> QED
    BY <1>1, <1>2, <1>4, <2>1 DEF CallOK, IdleOK, IndexOK, WalkOK, ExtendOK, TakeOK,
       KeepOK, FreeOK, PutPoint, FlushPoint, FreePoint, Calls, Idle
<1>6. Held(t)' \subseteq Held(t) /\ (Allocating(t)' => Allocating(t) \/ MayAllocate)
  BY <1>1, <1>2, <1>4 DEF LoadHint, Goto, IInv, TypeOK, CallOK, ExtendOK, KeepOK, FreeOK, IndexOK, Held, Holds,
     HoldsRest, Allocating, AllocSection, FlushPoint, FreePoint, PutPoint, Found, FlushStart, Get
<1> QED BY <1>1, <1>3, <1>4, <1>5, <1>6, QuietStep

\* A chain that has grown since the walk is not written to.
LEMMA ReadLastGrownKeeps ==
    ASSUME IInv, Excluded, NEW t \in Thread, ReadLastGrown(t) PROVE IInv'
<1>1. fat' = fat /\ heads' = heads /\ InCall(t) /\ Others(t)
  BY DEF ReadLastGrown, IInv, TypeOK, Others, Goto, locals, disk, InCall, Idle, DevicePoint
<1>2. CallOK(t)
  BY DEF IInv
<1>3. TypeOK'
  <2>1. pc' \in [Thread -> Point]
    BY <1>2 DEF ReadLastGrown, IInv, TypeOK, Goto, Point, AllocSection, FlushPoint, FreePoint, Result, Found, FlushStart
  <2>2. Get(prev[t]) \in Cluster
    BY DEF ReadLastGrown, IsData
  <2>3. number'[t] \in Cluster \union {None, 1} /\ start'[t] \in Cluster \union {None, 1}
    BY <1>2, <2>2, ConstantsAssumption, ClusterCountAssumption
    DEF ReadLastGrown, IInv, TypeOK, CallOK, WalkOK, ExtendOK, FreeOK, FreePoint, locals, Cluster, IsData, Last, None
  <2> QED
    BY <1>2, <2>1, <2>2, <2>3, ConstantsAssumption
    DEF ReadLastGrown, IInv, TypeOK, CallOK, WalkOK, ExtendOK, disk, memory, locals, mishap
<1>4. /\ pc[t] = "readLast" /\ pc'[t] = "ok" /\ op'[t] = op[t]
      /\ chain'[t] = chain[t] /\ prev'[t] = prev[t] /\ start'[t] = start[t]
      /\ number'[t] = Get(prev[t]) /\ value'[t] = value[t] /\ fat_index'[t] = fat_index[t]
  BY DEF ReadLastGrown, IInv, TypeOK, Goto, locals
<1>5. CallOK(t)'
  <2>1. KeepOK(t)'
    BY <1>2, <1>4 DEF CallOK, ExtendOK, KeepOK, Calls
  <2> QED
    BY <1>1, <1>2, <1>4, <2>1 DEF CallOK, IdleOK, IndexOK, WalkOK, ExtendOK, TakeOK,
       KeepOK, FreeOK, PutPoint, FlushPoint, FreePoint, Calls, Idle
<1>6. Held(t)' \subseteq Held(t) /\ (Allocating(t)' => Allocating(t) \/ MayAllocate)
  BY <1>1, <1>2, <1>4 DEF ReadLastGrown, Goto, IInv, TypeOK, CallOK, ExtendOK, KeepOK, FreeOK, IndexOK, Held, Holds,
     HoldsRest, Allocating, AllocSection, FlushPoint, FreePoint, PutPoint, Found, FlushStart, Get
<1> QED BY <1>1, <1>3, <1>4, <1>5, <1>6, QuietStep

\* The search for the next cluster of a chain starts at its last one.
LEMMA ReadLastEndKeeps ==
    ASSUME IInv, Excluded, NEW t \in Thread, ReadLastEnd(t) PROVE IInv'
<1>1. fat' = fat /\ heads' = heads /\ InCall(t) /\ Others(t)
  BY DEF ReadLastEnd, IInv, TypeOK, Others, Goto, locals, disk, InCall, Idle, DevicePoint
<1>2. CallOK(t)
  BY DEF IInv
<1>3. TypeOK'
  <2>1. pc' \in [Thread -> Point]
    BY <1>2 DEF ReadLastEnd, IInv, TypeOK, Goto, Point, AllocSection, FlushPoint, FreePoint, Result, Found, FlushStart
  <2>2. number[t] \in Cluster => Get(number[t]) \in FatValue
    BY GetTyped DEF IInv
  <2>3. number'[t] \in Cluster \union {None, 1} /\ start'[t] \in Cluster \union {None, 1}
    BY <1>2, <2>2, ConstantsAssumption, ClusterCountAssumption
    DEF ReadLastEnd, IInv, TypeOK, CallOK, WalkOK, ExtendOK, FreeOK, FreePoint, locals, Cluster, IsData, Last, None
  <2> QED
    BY <1>2, <2>1, <2>2, <2>3, ConstantsAssumption
    DEF ReadLastEnd, IInv, TypeOK, CallOK, WalkOK, ExtendOK, disk, memory, locals, mishap
<1>4. /\ pc[t] = "readLast" /\ pc'[t] = "checkFree" /\ op'[t] = op[t]
      /\ chain'[t] = chain[t] /\ prev'[t] = prev[t] /\ start'[t] = prev[t]
      /\ number'[t] = number[t] /\ value'[t] = value[t] /\ fat_index'[t] = fat_index[t]
  BY DEF ReadLastEnd, IInv, TypeOK, Goto, locals
<1>5. CallOK(t)'
  <2>1. OnChain(t, prev[t]) /\ op[t] = "extend"
    BY <1>2, <1>4 DEF CallOK, ExtendOK
  <2>2. prev[t] \in Cluster /\ prev[t] # None /\ Last(prev[t])
    BY <2>1, ChainFacts, MarksAreNotClusters DEF ReadLastEnd, InChain, Last, None, Free
  <2>3. ExtendOK(t)'
    BY <1>1, <1>4, <2>1, <2>2 DEF ExtendOK, OnChain, Last, Get
  <2> QED
    BY <1>1, <1>2, <1>4, <2>3 DEF CallOK, IdleOK, IndexOK, WalkOK, ExtendOK, TakeOK,
       KeepOK, FreeOK, PutPoint, FlushPoint, FreePoint, Calls, Idle
<1>6. Held(t)' \subseteq Held(t) /\ (Allocating(t)' => Allocating(t) \/ MayAllocate)
  BY <1>1, <1>2, <1>4 DEF ReadLastEnd, Goto, IInv, TypeOK, CallOK, ExtendOK, KeepOK, FreeOK, IndexOK, Held, Holds,
     HoldsRest, Allocating, AllocSection, FlushPoint, FreePoint, PutPoint, Found, FlushStart, Get
<1> QED BY <1>1, <1>3, <1>4, <1>5, <1>6, QuietStep

\* The search begins unless the count is zero.
LEMMA CheckFreeKeeps ==
    ASSUME IInv, Excluded, NEW t \in Thread, CheckFree(t) PROVE IInv'
<1>1. fat' = fat /\ heads' = heads /\ InCall(t) /\ Others(t)
  BY DEF CheckFree, IInv, TypeOK, Others, Goto, locals, disk, InCall, Idle, DevicePoint
<1>2. CallOK(t)
  BY DEF IInv
<1>3. TypeOK'
  <2>1. pc' \in [Thread -> Point]
    <3>1. pc \in [Thread -> Point]
      BY DEF IInv, TypeOK
    <3>2. PICK p \in {"nospace", "tryNext", "scan"} : pc' = [pc EXCEPT ![t] = p]
      BY DEF CheckFree, Goto
    <3>3. p \in Point
      BY <3>2 DEF Point, AllocSection, FlushPoint, FreePoint, Result
    <3> QED BY <3>1, <3>2, <3>3
  <2>2. number[t] \in Cluster => Get(number[t]) \in FatValue
    BY GetTyped DEF IInv
  <2>3. number'[t] \in Cluster \union {None, 1} /\ start'[t] \in Cluster \union {None, 1}
    BY <1>2, <2>2, ConstantsAssumption, ClusterCountAssumption
    DEF CheckFree, IInv, TypeOK, CallOK, WalkOK, ExtendOK, FreeOK, FreePoint, locals, Cluster, IsData, Last, None
  <2> QED
    BY <1>2, <2>1, <2>2, <2>3, ConstantsAssumption
    DEF CheckFree, IInv, TypeOK, CallOK, WalkOK, ExtendOK, disk, memory, locals, mishap
<1>4. /\ pc[t] = "checkFree" /\ op'[t] = op[t] /\ chain'[t] = chain[t]
      /\ prev'[t] = prev[t] /\ start'[t] = start[t] /\ value'[t] = value[t]
      /\ fat_index'[t] = fat_index[t]
  BY DEF CheckFree, IInv, TypeOK, Goto, locals
<1>5. CallOK(t)'
  <2>1. ExtendOK(t)'
    BY <1>1, <1>2, <1>4 DEF CheckFree, IInv, TypeOK, Goto, CallOK, ExtendOK, Get, Last, OnChain, Holds
  <2> QED
    BY <1>1, <1>2, <1>4, <2>1 DEF CheckFree, Goto, Found, FlushStart, Result, IInv, TypeOK, CallOK, IdleOK, IndexOK, WalkOK, ExtendOK, TakeOK,
       KeepOK, FreeOK, PutPoint, FlushPoint, FreePoint, Calls, Idle
<1>6. Held(t)' \subseteq Held(t) /\ (Allocating(t)' => Allocating(t) \/ MayAllocate)
  BY <1>1, <1>2, <1>4 DEF CheckFree, Goto, IInv, TypeOK, CallOK, ExtendOK, KeepOK, FreeOK, IndexOK, Held, Holds,
     HoldsRest, Allocating, AllocSection, FlushPoint, FreePoint, PutPoint, Found, FlushStart, Get
<1> QED BY <1>1, <1>3, <1>4, <1>5, <1>6, QuietStep

\* The cluster behind the last one is allocated only when it is free.
LEMMA TryNextKeeps ==
    ASSUME IInv, Excluded, NEW t \in Thread, TryNext(t) PROVE IInv'
<1>1. fat' = fat /\ heads' = heads /\ InCall(t) /\ Others(t)
  BY DEF TryNext, IInv, TypeOK, Others, Goto, locals, disk, InCall, Idle, DevicePoint
<1>2. CallOK(t)
  BY DEF IInv
<1>3. TypeOK'
  <2>1. pc' \in [Thread -> Point]
    BY <1>2 DEF TryNext, IInv, TypeOK, Goto, Point, AllocSection, FlushPoint, FreePoint, Result, Found, FlushStart
  <2>2. number[t] \in Cluster => Get(number[t]) \in FatValue
    BY GetTyped DEF IInv
  <2>3. number'[t] \in Cluster \union {None, 1} /\ start'[t] \in Cluster \union {None, 1}
    BY <1>2, <2>2, ConstantsAssumption, ClusterCountAssumption, SuccTyped
    DEF TryNext, IInv, TypeOK, CallOK, WalkOK, ExtendOK, FreeOK, FreePoint, locals, Cluster, IsData, Last, None
  <2> QED
    BY <1>2, <2>1, <2>2, <2>3, ConstantsAssumption
    DEF TryNext, IInv, TypeOK, CallOK, WalkOK, ExtendOK, disk, memory, locals, mishap
<1>4. /\ pc[t] = "tryNext" /\ op'[t] = op[t] /\ chain'[t] = chain[t]
      /\ prev'[t] = prev[t] /\ start'[t] = start[t] /\ value'[t] = value[t]
      /\ fat_index'[t] = fat_index[t]
  BY DEF TryNext, IInv, TypeOK, Goto, locals
<1>5. CallOK(t)'
  <2>1. ExtendOK(t)' /\ TakeOK(t)'
    BY <1>1, <1>2, <1>4, SuccTyped, MarksAreNotClusters
    DEF TryNext, IInv, TypeOK, Goto, CallOK, ExtendOK, TakeOK, IndexOK, PutPoint, Found, Get, Last, OnChain, Holds
  <2> QED
    BY <1>1, <1>2, <1>4, <2>1 DEF TryNext, Goto, Found, FlushStart, Result, IInv, TypeOK, CallOK, IdleOK, IndexOK, WalkOK, ExtendOK, TakeOK,
       KeepOK, FreeOK, PutPoint, FlushPoint, FreePoint, Calls, Idle
<1>6. Held(t)' \subseteq Held(t) /\ (Allocating(t)' => Allocating(t) \/ MayAllocate)
  BY <1>1, <1>2, <1>4 DEF TryNext, Goto, IInv, TypeOK, CallOK, ExtendOK, KeepOK, FreeOK, IndexOK, Held, Holds,
     HoldsRest, Allocating, AllocSection, FlushPoint, FreePoint, PutPoint, Found, FlushStart, Get
<1> QED BY <1>1, <1>3, <1>4, <1>5, <1>6, QuietStep

\* The search moves to the hint only when the hint is a cluster.
LEMMA ReloadHintKeeps ==
    ASSUME IInv, Excluded, NEW t \in Thread, ReloadHint(t) PROVE IInv'
<1>1. fat' = fat /\ heads' = heads /\ InCall(t) /\ Others(t)
  BY DEF ReloadHint, IInv, TypeOK, Others, Goto, locals, disk, InCall, Idle, DevicePoint
<1>2. CallOK(t)
  BY DEF IInv
<1>3. TypeOK'
  <2>1. pc' \in [Thread -> Point]
    BY <1>2 DEF ReloadHint, IInv, TypeOK, Goto, Point, AllocSection, FlushPoint, FreePoint, Result, Found, FlushStart
  <2>2. number[t] \in Cluster => Get(number[t]) \in FatValue
    BY GetTyped DEF IInv
  <2>3. number'[t] \in Cluster \union {None, 1} /\ start'[t] \in Cluster \union {None, 1}
    BY <1>2, <2>2, ConstantsAssumption, ClusterCountAssumption
    DEF ReloadHint, IInv, TypeOK, CallOK, WalkOK, ExtendOK, FreeOK, FreePoint, locals, Cluster, IsData, Last, None, Unset
  <2> QED
    BY <1>2, <2>1, <2>2, <2>3, ConstantsAssumption
    DEF ReloadHint, IInv, TypeOK, CallOK, WalkOK, ExtendOK, disk, memory, locals, mishap
<1>4. /\ pc[t] = "reloadHint" /\ pc'[t] = "scan" /\ op'[t] = op[t]
      /\ chain'[t] = chain[t] /\ prev'[t] = prev[t] /\ number'[t] = start'[t]
      /\ value'[t] = value[t] /\ fat_index'[t] = fat_index[t]
  BY DEF ReloadHint, IInv, TypeOK, Goto, locals
<1>5. CallOK(t)'
  <2>1. ExtendOK(t)'
    BY <1>1, <1>2, <1>4, MarksAreNotClusters, ConstantsAssumption, ClusterCountAssumption
    DEF ReloadHint, Cluster, IInv, TypeOK, CallOK, ExtendOK, Unset, Get, Last, OnChain, Holds, None, Free
  <2> QED
    BY <1>1, <1>2, <1>4, <2>1 DEF CallOK, IdleOK, IndexOK, WalkOK, ExtendOK, TakeOK,
       KeepOK, FreeOK, PutPoint, FlushPoint, FreePoint, Calls, Idle
<1>6. Held(t)' \subseteq Held(t) /\ (Allocating(t)' => Allocating(t) \/ MayAllocate)
  BY <1>1, <1>2, <1>4 DEF ReloadHint, Goto, IInv, TypeOK, CallOK, ExtendOK, KeepOK, FreeOK, IndexOK, Held, Holds,
     HoldsRest, Allocating, AllocSection, FlushPoint, FreePoint, PutPoint, Found, FlushStart, Get
<1> QED BY <1>1, <1>3, <1>4, <1>5, <1>6, QuietStep

\* The search gives up at the end of the table.
LEMMA ScanWrapKeeps ==
    ASSUME IInv, Excluded, NEW t \in Thread, ScanWrap(t) PROVE IInv'
<1>1. fat' = fat /\ heads' = heads /\ InCall(t) /\ Others(t)
  BY DEF ScanWrap, IInv, TypeOK, Others, Goto, locals, disk, InCall, Idle, DevicePoint
<1>2. CallOK(t)
  BY DEF IInv
<1>3. TypeOK'
  <2>1. pc' \in [Thread -> Point]
    BY <1>2 DEF ScanWrap, IInv, TypeOK, Goto, Point, AllocSection, FlushPoint, FreePoint, Result, Found, FlushStart
  <2>2. number[t] \in Cluster => Get(number[t]) \in FatValue
    BY GetTyped DEF IInv
  <2>3. number'[t] \in Cluster \union {None, 1} /\ start'[t] \in Cluster \union {None, 1}
    BY <1>2, <2>2, ConstantsAssumption, ClusterCountAssumption
    DEF ScanWrap, IInv, TypeOK, CallOK, WalkOK, ExtendOK, FreeOK, FreePoint, locals, Cluster, IsData, Last, None
  <2> QED
    BY <1>2, <2>1, <2>2, <2>3, ConstantsAssumption
    DEF ScanWrap, IInv, TypeOK, CallOK, WalkOK, ExtendOK, disk, memory, locals, mishap
<1>4. /\ pc[t] = "scan" /\ pc'[t] = "nospace" /\ op'[t] = op[t]
      /\ chain'[t] = chain[t] /\ prev'[t] = prev[t] /\ start'[t] = start[t]
      /\ number'[t] = number[t] /\ value'[t] = value[t] /\ fat_index'[t] = fat_index[t]
  BY DEF ScanWrap, IInv, TypeOK, Goto, locals
<1>5. CallOK(t)'
  BY <1>1, <1>2, <1>4 DEF CallOK, IdleOK, IndexOK, WalkOK, ExtendOK, TakeOK, KeepOK, FreeOK,
     PutPoint, FlushPoint, FreePoint, Idle, ScanWrap
<1>6. Held(t)' \subseteq Held(t) /\ (Allocating(t)' => Allocating(t) \/ MayAllocate)
  BY <1>1, <1>2, <1>4 DEF ScanWrap, Goto, IInv, TypeOK, CallOK, ExtendOK, KeepOK, FreeOK, IndexOK, Held, Holds,
     HoldsRest, Allocating, AllocSection, FlushPoint, FreePoint, PutPoint, Found, FlushStart, Get
<1> QED BY <1>1, <1>3, <1>4, <1>5, <1>6, QuietStep

\* The search stops at a free cluster.
LEMMA ScanNextKeeps ==
    ASSUME IInv, Excluded, NEW t \in Thread, ScanNext(t) PROVE IInv'
<1>1. fat' = fat /\ heads' = heads /\ InCall(t) /\ Others(t)
  BY DEF ScanNext, IInv, TypeOK, Others, Goto, locals, disk, InCall, Idle, DevicePoint
<1>2. CallOK(t)
  BY DEF IInv
<1>3. TypeOK'
  <2>1. pc' \in [Thread -> Point]
    BY <1>2 DEF ScanNext, IInv, TypeOK, Goto, Point, AllocSection, FlushPoint, FreePoint, Result, Found, FlushStart
  <2>2. number[t] \in Cluster => Get(number[t]) \in FatValue
    BY GetTyped DEF IInv
  <2>3. number'[t] \in Cluster \union {None, 1} /\ start'[t] \in Cluster \union {None, 1}
    BY <1>2, <2>2, ConstantsAssumption, ClusterCountAssumption, SuccTyped
    DEF ScanNext, IInv, TypeOK, CallOK, WalkOK, ExtendOK, FreeOK, FreePoint, locals, Cluster, IsData, Last, None
  <2> QED
    BY <1>2, <2>1, <2>2, <2>3, ConstantsAssumption
    DEF ScanNext, IInv, TypeOK, CallOK, WalkOK, ExtendOK, disk, memory, locals, mishap
<1>4. /\ pc[t] = "scan" /\ op'[t] = op[t] /\ chain'[t] = chain[t]
      /\ prev'[t] = prev[t] /\ start'[t] = start[t] /\ number'[t] = Succ(number[t])
      /\ value'[t] = value[t] /\ fat_index'[t] = fat_index[t]
  BY DEF ScanNext, IInv, TypeOK, Goto, locals
<1>5. CallOK(t)'
  <2>1. number[t] \in Cluster \union {1} /\ fat_index[t] = 0
    BY <1>2, <1>4 DEF IInv, TypeOK, CallOK, ExtendOK, IndexOK, PutPoint
  <2>2. number'[t] \in Cluster /\ number'[t] # None
    BY <1>4, <2>1, SuccTyped, MarksAreNotClusters DEF None, Free
  <2>3. /\ pc'[t] \in {"assertFree", "putEndOfChain"} => Get(number'[t]) = Free
        /\ pc'[t] \in {"scan", "assertFree", "putEndOfChain", "nospace"}
    BY <1>4 DEF ScanNext, IInv, TypeOK, Goto, Found
  <2>4. /\ number'[t] \in Cluster /\ number'[t] # None /\ ~Holds(t)' /\ fat_index[t] = 0
        /\ pc'[t] \in {"assertFree", "putEndOfChain"} => Get(number'[t]) = Free
        /\ pc'[t] \in {"scan", "assertFree", "putEndOfChain", "nospace"}
    BY <1>4, <2>1, <2>2, <2>3 DEF Holds, FlushPoint
  <2>5. op[t] = "extend" => OnChain(t, prev[t]) /\ Last(prev[t])
    BY <1>2, <1>4 DEF CallOK, ExtendOK
  <2>6. ExtendOK(t)' /\ TakeOK(t)'
    BY <1>1, <1>2, <1>4, <2>4, <2>5, MarksAreNotClusters
    DEF CallOK, ExtendOK, TakeOK, Get, Last, OnChain
  <2> QED
    BY <1>1, <1>2, <1>4, <2>4, <2>6 DEF ScanNext, Goto, Found, FlushStart, Result, IInv, TypeOK, CallOK, IdleOK, IndexOK, WalkOK, ExtendOK, TakeOK,
       KeepOK, FreeOK, PutPoint, FlushPoint, FreePoint, Calls, Idle
<1>6. Held(t)' \subseteq Held(t) /\ (Allocating(t)' => Allocating(t) \/ MayAllocate)
  BY <1>1, <1>2, <1>4 DEF ScanNext, Goto, IInv, TypeOK, CallOK, ExtendOK, KeepOK, FreeOK, IndexOK, Held, Holds,
     HoldsRest, Allocating, AllocSection, FlushPoint, FreePoint, PutPoint, Found, FlushStart, Get
<1> QED BY <1>1, <1>3, <1>4, <1>5, <1>6, QuietStep

\* The assertion finds the cluster still free.
LEMMA AssertFreeKeeps ==
    ASSUME IInv, Excluded, NEW t \in Thread, AssertFree(t) PROVE IInv'
<1>1. fat' = fat /\ heads' = heads /\ InCall(t) /\ Others(t)
  BY DEF AssertFree, IInv, TypeOK, Others, Goto, locals, disk, InCall, Idle, DevicePoint
<1>2. CallOK(t)
  BY DEF IInv
<1>3. TypeOK'
  <2>1. pc' \in [Thread -> Point]
    BY <1>2 DEF AssertFree, IInv, TypeOK, Goto, Point, AllocSection, FlushPoint, FreePoint, Result, Found, FlushStart
  <2>2. number[t] \in Cluster => Get(number[t]) \in FatValue
    BY GetTyped DEF IInv
  <2>3. number'[t] \in Cluster \union {None, 1} /\ start'[t] \in Cluster \union {None, 1}
    BY <1>2, <2>2, ConstantsAssumption, ClusterCountAssumption
    DEF AssertFree, IInv, TypeOK, CallOK, WalkOK, ExtendOK, FreeOK, FreePoint, locals, Cluster, IsData, Last, None
  <2> QED
    BY <1>2, <2>1, <2>2, <2>3, ConstantsAssumption
    DEF AssertFree, IInv, TypeOK, CallOK, WalkOK, ExtendOK, disk, memory, locals, mishap
<1>4. /\ pc[t] = "assertFree" /\ op'[t] = op[t] /\ chain'[t] = chain[t]
      /\ prev'[t] = prev[t] /\ start'[t] = start[t] /\ number'[t] = number[t]
      /\ value'[t] = value[t] /\ fat_index'[t] = fat_index[t]
  BY DEF AssertFree, IInv, TypeOK, Goto, locals
<1>5. CallOK(t)'
  <2>1. number[t] \in Cluster /\ Get(number[t]) = Free /\ fat_index[t] = 0
    BY <1>2, <1>4 DEF CallOK, ExtendOK, IndexOK, PutPoint
  <2>2. op[t] \in {"alloc", "extend"} /\ (op[t] = "extend" => OnChain(t, prev[t]) /\ Last(prev[t]))
    BY <1>2, <1>4 DEF CallOK, ExtendOK
  <2>3. pc'[t] = "putEndOfChain"
    BY <2>1 DEF AssertFree, IInv, TypeOK, Goto
  <2>4. TakeOK(t)'
    BY <1>1, <1>4, <2>1, <2>2, <2>3, MarksAreNotClusters DEF TakeOK, Holds, FlushPoint, OnChain, Last, Get
  <2> QED
    BY <1>1, <1>2, <1>4, <2>3, <2>4 DEF AssertFree, Goto, Found, FlushStart, Result, IInv, TypeOK, CallOK, IdleOK, IndexOK, WalkOK, ExtendOK, TakeOK,
       KeepOK, FreeOK, PutPoint, FlushPoint, FreePoint, Calls, Idle
<1>6. Held(t)' \subseteq Held(t) /\ (Allocating(t)' => Allocating(t) \/ MayAllocate)
  BY <1>1, <1>2, <1>4 DEF AssertFree, Goto, IInv, TypeOK, CallOK, ExtendOK, KeepOK, FreeOK, IndexOK, Held, Holds,
     HoldsRest, Allocating, AllocSection, FlushPoint, FreePoint, PutPoint, Found, FlushStart, Get
<1> QED BY <1>1, <1>3, <1>4, <1>5, <1>6, QuietStep

\* The assertion finds the chain still ending where it did.
LEMMA AssertLastKeeps ==
    ASSUME IInv, Excluded, NEW t \in Thread, AssertLast(t) PROVE IInv'
<1>1. fat' = fat /\ heads' = heads /\ InCall(t) /\ Others(t)
  BY DEF AssertLast, IInv, TypeOK, Others, Goto, locals, disk, InCall, Idle, DevicePoint
<1>2. CallOK(t)
  BY DEF IInv
<1>3. TypeOK'
  <2>1. pc' \in [Thread -> Point]
    BY <1>2 DEF AssertLast, IInv, TypeOK, Goto, Point, AllocSection, FlushPoint, FreePoint, Result, Found, FlushStart
  <2>2. number[t] \in Cluster => Get(number[t]) \in FatValue
    BY GetTyped DEF IInv
  <2>3. number'[t] \in Cluster \union {None, 1} /\ start'[t] \in Cluster \union {None, 1}
    BY <1>2, <2>2, ConstantsAssumption, ClusterCountAssumption
    DEF AssertLast, IInv, TypeOK, CallOK, WalkOK, ExtendOK, FreeOK, FreePoint, locals, Cluster, IsData, Last, None
  <2> QED
    BY <1>2, <2>1, <2>2, <2>3, ConstantsAssumption
    DEF AssertLast, IInv, TypeOK, CallOK, WalkOK, ExtendOK, disk, memory, locals, mishap
<1>4. /\ pc[t] = "assertLast" /\ op'[t] = op[t] /\ chain'[t] = chain[t]
      /\ prev'[t] = prev[t] /\ start'[t] = start[t] /\ number'[t] = number[t]
      /\ value'[t] = value[t] /\ fat_index'[t] = fat_index[t]
  BY DEF AssertLast, IInv, TypeOK, Goto, locals
<1>5. CallOK(t)'
  <2>1. TakeOK(t)' /\ pc'[t] = "putLink"
    BY <1>1, <1>2, <1>4 DEF AssertLast, IInv, TypeOK, Goto, CallOK, TakeOK, IndexOK, PutPoint, Get, Last, OnChain, Holds, Loose
  <2> QED
    BY <1>1, <1>2, <1>4, <2>1 DEF AssertLast, Goto, Found, FlushStart, Result, IInv, TypeOK, CallOK, IdleOK, IndexOK, WalkOK, ExtendOK, TakeOK,
       KeepOK, FreeOK, PutPoint, FlushPoint, FreePoint, Calls, Idle
<1>6. Held(t)' \subseteq Held(t) /\ (Allocating(t)' => Allocating(t) \/ MayAllocate)
  BY <1>1, <1>2, <1>4 DEF AssertLast, Goto, IInv, TypeOK, CallOK, ExtendOK, KeepOK, FreeOK, IndexOK, Held, Holds,
     HoldsRest, Allocating, AllocSection, FlushPoint, FreePoint, PutPoint, Found, FlushStart, Get
<1> QED BY <1>1, <1>3, <1>4, <1>5, <1>6, QuietStep

\* The allocated cluster is a valid hint.
LEMMA StoreHintKeeps ==
    ASSUME IInv, Excluded, NEW t \in Thread, StoreHint(t) PROVE IInv'
<1>1. fat' = fat /\ heads' = heads /\ InCall(t) /\ Others(t)
  BY DEF StoreHint, IInv, TypeOK, Others, Goto, locals, disk, InCall, Idle, DevicePoint
<1>2. CallOK(t)
  BY DEF IInv
<1>3. TypeOK'
  <2>1. pc' \in [Thread -> Point]
    BY <1>2 DEF StoreHint, IInv, TypeOK, Goto, Point, AllocSection, FlushPoint, FreePoint, Result, Found, FlushStart
  <2>2. number[t] \in Cluster => Get(number[t]) \in FatValue
    BY GetTyped DEF IInv
  <2>3. number'[t] \in Cluster \union {None, 1} /\ start'[t] \in Cluster \union {None, 1}
    BY <1>2, <2>2, ConstantsAssumption, ClusterCountAssumption
    DEF StoreHint, IInv, TypeOK, CallOK, WalkOK, ExtendOK, FreeOK, FreePoint, locals, Cluster, IsData, Last, None
  <2> QED
    BY <1>2, <2>1, <2>2, <2>3, ConstantsAssumption
    DEF StoreHint, IInv, TypeOK, CallOK, WalkOK, ExtendOK, disk, memory, locals, mishap, KeepOK
<1>4. /\ pc[t] = "storeHint" /\ pc'[t] = "subFree" /\ op'[t] = op[t]
      /\ chain'[t] = chain[t] /\ prev'[t] = prev[t] /\ start'[t] = start[t]
      /\ number'[t] = number[t] /\ value'[t] = value[t] /\ fat_index'[t] = fat_index[t]
  BY DEF StoreHint, IInv, TypeOK, Goto, locals
<1>5. CallOK(t)'
  <2>1. KeepOK(t)'
    BY <1>1, <1>2, <1>4 DEF StoreHint, CallOK, KeepOK, Loose
  <2> QED
    BY <1>1, <1>2, <1>4, <2>1 DEF CallOK, IdleOK, IndexOK, WalkOK, ExtendOK, TakeOK,
       KeepOK, FreeOK, PutPoint, FlushPoint, FreePoint, Calls, Idle
<1>6. Held(t)' \subseteq Held(t) /\ (Allocating(t)' => Allocating(t) \/ MayAllocate)
  BY <1>1, <1>2, <1>4 DEF StoreHint, Goto, IInv, TypeOK, CallOK, ExtendOK, KeepOK, FreeOK, IndexOK, Held, Holds,
     HoldsRest, Allocating, AllocSection, FlushPoint, FreePoint, PutPoint, Found, FlushStart, Get
<1> QED BY <1>1, <1>3, <1>4, <1>5, <1>6, QuietStep

\* Counting the cluster leaves the table alone.
LEMMA SubFreeKeeps ==
    ASSUME IInv, Excluded, NEW t \in Thread, SubFree(t) PROVE IInv'
<1>1. fat' = fat /\ heads' = heads /\ InCall(t) /\ Others(t)
  BY DEF SubFree, IInv, TypeOK, Others, Goto, locals, disk, InCall, Idle, DevicePoint
<1>2. CallOK(t)
  BY DEF IInv
<1>3. TypeOK'
  <2>1. pc' \in [Thread -> Point]
    BY <1>2 DEF SubFree, IInv, TypeOK, Goto, Point, AllocSection, FlushPoint, FreePoint, Result, Found, FlushStart
  <2>2. number[t] \in Cluster => Get(number[t]) \in FatValue
    BY GetTyped DEF IInv
  <2>3. number'[t] \in Cluster \union {None, 1} /\ start'[t] \in Cluster \union {None, 1}
    BY <1>2, <2>2, ConstantsAssumption, ClusterCountAssumption
    DEF SubFree, IInv, TypeOK, CallOK, WalkOK, ExtendOK, FreeOK, FreePoint, locals, Cluster, IsData, Last, None
  <2> QED
    BY <1>2, <2>1, <2>2, <2>3, ConstantsAssumption
    DEF SubFree, IInv, TypeOK, CallOK, WalkOK, ExtendOK, disk, memory, locals, mishap, Decrement, Word
<1>4. /\ pc[t] = "subFree" /\ pc'[t] = FlushStart /\ op'[t] = op[t]
      /\ chain'[t] = chain[t] /\ prev'[t] = prev[t] /\ start'[t] = start[t]
      /\ number'[t] = number[t] /\ value'[t] = value[t] /\ fat_index'[t] = fat_index[t]
  BY DEF SubFree, IInv, TypeOK, Goto, locals
<1>5. CallOK(t)'
  <2>1. KeepOK(t)'
    BY <1>1, <1>2, <1>4 DEF SubFree, CallOK, KeepOK, Loose
  <2> QED
    BY <1>1, <1>2, <1>4, <2>1 DEF SubFree, Goto, Found, FlushStart, Result, IInv, TypeOK, CallOK, IdleOK, IndexOK, WalkOK, ExtendOK, TakeOK,
       KeepOK, FreeOK, PutPoint, FlushPoint, FreePoint, Calls, Idle
<1>6. Held(t)' \subseteq Held(t) /\ (Allocating(t)' => Allocating(t) \/ MayAllocate)
  BY <1>1, <1>2, <1>4 DEF SubFree, Goto, IInv, TypeOK, CallOK, ExtendOK, KeepOK, FreeOK, IndexOK, Held, Holds,
     HoldsRest, Allocating, AllocSection, FlushPoint, FreePoint, PutPoint, Found, FlushStart, Get
<1> QED BY <1>1, <1>3, <1>4, <1>5, <1>6, QuietStep

\* The first load of flush leaves the table alone.
LEMMA FlushHintKeeps ==
    ASSUME IInv, Excluded, NEW t \in Thread, FlushHint(t) PROVE IInv'
<1>1. fat' = fat /\ heads' = heads /\ InCall(t) /\ Others(t)
  BY DEF FlushHint, IInv, TypeOK, Others, Goto, locals, disk, InCall, Idle, DevicePoint
<1>2. CallOK(t)
  BY DEF IInv
<1>3. TypeOK'
  <2>1. pc' \in [Thread -> Point]
    BY <1>2 DEF FlushHint, IInv, TypeOK, Goto, Point, AllocSection, FlushPoint, FreePoint, Result, Found, FlushStart
  <2>2. number[t] \in Cluster => Get(number[t]) \in FatValue
    BY GetTyped DEF IInv
  <2>3. number'[t] \in Cluster \union {None, 1} /\ start'[t] \in Cluster \union {None, 1}
    BY <1>2, <2>2, ConstantsAssumption, ClusterCountAssumption
    DEF FlushHint, IInv, TypeOK, CallOK, WalkOK, ExtendOK, FreeOK, FreePoint, locals, Cluster, IsData, Last, None
  <2> QED
    BY <1>2, <2>1, <2>2, <2>3, ConstantsAssumption
    DEF FlushHint, IInv, TypeOK, CallOK, WalkOK, ExtendOK, disk, memory, locals, mishap
<1>4. /\ pc[t] = "flushHint" /\ pc'[t] = "flushFree" /\ op'[t] = op[t]
      /\ chain'[t] = chain[t] /\ prev'[t] = prev[t] /\ start'[t] = start[t]
      /\ number'[t] = number[t] /\ value'[t] = value[t] /\ fat_index'[t] = fat_index[t]
  BY DEF FlushHint, IInv, TypeOK, Goto, locals
<1>5. CallOK(t)'
  <2>1. KeepOK(t)'
    BY <1>1, <1>2, <1>4 DEF FlushHint, CallOK, KeepOK, Loose, FlushPoint
  <2> QED
    BY <1>1, <1>2, <1>4, <2>1 DEF CallOK, IdleOK, IndexOK, WalkOK, ExtendOK, TakeOK,
       KeepOK, FreeOK, PutPoint, FlushPoint, FreePoint, Calls, Idle
<1>6. Held(t)' \subseteq Held(t) /\ (Allocating(t)' => Allocating(t) \/ MayAllocate)
  BY <1>1, <1>2, <1>4 DEF FlushHint, Goto, IInv, TypeOK, CallOK, ExtendOK, KeepOK, FreeOK, IndexOK, Held, Holds,
     HoldsRest, Allocating, AllocSection, FlushPoint, FreePoint, PutPoint, Found, FlushStart, Get
<1> QED BY <1>1, <1>3, <1>4, <1>5, <1>6, QuietStep

\* The second load of flush leaves the table alone.
LEMMA FlushFreeKeeps ==
    ASSUME IInv, Excluded, NEW t \in Thread, FlushFree(t) PROVE IInv'
<1>1. fat' = fat /\ heads' = heads /\ InCall(t) /\ Others(t)
  BY DEF FlushFree, IInv, TypeOK, Others, Goto, locals, disk, InCall, Idle, DevicePoint
<1>2. CallOK(t)
  BY DEF IInv
<1>3. TypeOK'
  <2>1. pc' \in [Thread -> Point]
    BY <1>2 DEF FlushFree, IInv, TypeOK, Goto, Point, AllocSection, FlushPoint, FreePoint, Result, Found, FlushStart
  <2>2. number[t] \in Cluster => Get(number[t]) \in FatValue
    BY GetTyped DEF IInv
  <2>3. number'[t] \in Cluster \union {None, 1} /\ start'[t] \in Cluster \union {None, 1}
    BY <1>2, <2>2, ConstantsAssumption, ClusterCountAssumption
    DEF FlushFree, IInv, TypeOK, CallOK, WalkOK, ExtendOK, FreeOK, FreePoint, locals, Cluster, IsData, Last, None
  <2> QED
    BY <1>2, <2>1, <2>2, <2>3, ConstantsAssumption
    DEF FlushFree, IInv, TypeOK, CallOK, WalkOK, ExtendOK, disk, memory, locals, mishap
<1>4. /\ pc[t] = "flushFree" /\ pc'[t] = "flushWrite" /\ op'[t] = op[t]
      /\ chain'[t] = chain[t] /\ prev'[t] = prev[t] /\ start'[t] = start[t]
      /\ number'[t] = number[t] /\ value'[t] = value[t] /\ fat_index'[t] = fat_index[t]
  BY DEF FlushFree, IInv, TypeOK, Goto, locals
<1>5. CallOK(t)'
  <2>1. KeepOK(t)'
    BY <1>1, <1>2, <1>4 DEF FlushFree, CallOK, KeepOK, Loose, FlushPoint
  <2> QED
    BY <1>1, <1>2, <1>4, <2>1 DEF CallOK, IdleOK, IndexOK, WalkOK, ExtendOK, TakeOK,
       KeepOK, FreeOK, PutPoint, FlushPoint, FreePoint, Calls, Idle
<1>6. Held(t)' \subseteq Held(t) /\ (Allocating(t)' => Allocating(t) \/ MayAllocate)
  BY <1>1, <1>2, <1>4 DEF FlushFree, Goto, IInv, TypeOK, CallOK, ExtendOK, KeepOK, FreeOK, IndexOK, Held, Holds,
     HoldsRest, Allocating, AllocSection, FlushPoint, FreePoint, PutPoint, Found, FlushStart, Get
<1> QED BY <1>1, <1>3, <1>4, <1>5, <1>6, QuietStep

\* The information block is not part of the table.
LEMMA FlushWriteKeeps ==
    ASSUME IInv, Excluded, NEW t \in Thread, FlushWrite(t) PROVE IInv'
<1>1. fat' = fat /\ heads' = heads /\ InCall(t) /\ Others(t)
  BY DEF FlushWrite, IInv, TypeOK, Others, Goto, locals, disk, InCall, Idle, DevicePoint
<1>2. CallOK(t)
  BY DEF IInv
<1>3. TypeOK'
  <2>1. pc' \in [Thread -> Point]
    BY <1>2 DEF FlushWrite, IInv, TypeOK, Goto, Point, AllocSection, FlushPoint, FreePoint, Result, Found, FlushStart
  <2>2. number[t] \in Cluster => Get(number[t]) \in FatValue
    BY GetTyped DEF IInv
  <2>3. number'[t] \in Cluster \union {None, 1} /\ start'[t] \in Cluster \union {None, 1}
    BY <1>2, <2>2, ConstantsAssumption, ClusterCountAssumption
    DEF FlushWrite, IInv, TypeOK, CallOK, WalkOK, ExtendOK, FreeOK, FreePoint, locals, Cluster, IsData, Last, None
  <2> QED
    BY <1>2, <2>1, <2>2, <2>3, ConstantsAssumption
    DEF FlushWrite, IInv, TypeOK, CallOK, WalkOK, ExtendOK, disk, memory, locals, mishap
<1>4. /\ pc[t] = "flushWrite" /\ pc'[t] = "ok" /\ op'[t] = op[t]
      /\ chain'[t] = chain[t] /\ prev'[t] = prev[t] /\ start'[t] = start[t]
      /\ number'[t] = number[t] /\ value'[t] = value[t] /\ fat_index'[t] = fat_index[t]
  BY DEF FlushWrite, IInv, TypeOK, Goto, locals
<1>5. CallOK(t)'
  <2>1. KeepOK(t)'
    BY <1>1, <1>2, <1>4 DEF FlushWrite, CallOK, KeepOK, Loose, FlushPoint
  <2> QED
    BY <1>1, <1>2, <1>4, <2>1 DEF CallOK, IdleOK, IndexOK, WalkOK, ExtendOK, TakeOK,
       KeepOK, FreeOK, PutPoint, FlushPoint, FreePoint, Calls, Idle
<1>6. Held(t)' \subseteq Held(t) /\ (Allocating(t)' => Allocating(t) \/ MayAllocate)
  BY <1>1, <1>2, <1>4 DEF FlushWrite, Goto, IInv, TypeOK, CallOK, ExtendOK, KeepOK, FreeOK, IndexOK, Held, Holds,
     HoldsRest, Allocating, AllocSection, FlushPoint, FreePoint, PutPoint, Found, FlushStart, Get
<1> QED BY <1>1, <1>3, <1>4, <1>5, <1>6, QuietStep

\* The entry read is the one the put will overwrite.
LEMMA ReadCurrentKeeps ==
    ASSUME IInv, Excluded, NEW t \in Thread, ReadCurrent(t) PROVE IInv'
<1>1. fat' = fat /\ heads' = heads /\ InCall(t) /\ Others(t)
  BY DEF ReadCurrent, IInv, TypeOK, Others, Goto, locals, disk, InCall, Idle, DevicePoint
<1>2. CallOK(t)
  BY DEF IInv
<1>3. TypeOK'
  <2>1. pc' \in [Thread -> Point]
    BY <1>2 DEF ReadCurrent, IInv, TypeOK, Goto, Point, AllocSection, FlushPoint, FreePoint, Result, Found, FlushStart
  <2>2. number[t] \in Cluster => Get(number[t]) \in FatValue
    BY GetTyped DEF IInv
  <2>3. number'[t] \in Cluster \union {None, 1} /\ start'[t] \in Cluster \union {None, 1}
    BY <1>2, <2>2, ConstantsAssumption, ClusterCountAssumption
    DEF ReadCurrent, IInv, TypeOK, CallOK, WalkOK, ExtendOK, FreeOK, FreePoint, locals, Cluster, IsData, Last, None
  <2> QED
    BY <1>2, <2>1, <2>2, <2>3, ConstantsAssumption
    DEF ReadCurrent, IInv, TypeOK, CallOK, WalkOK, ExtendOK, disk, memory, locals, mishap, FreeOK, FreePoint
<1>4. /\ pc[t] = "readCurrent" /\ op'[t] = op[t] /\ chain'[t] = chain[t]
      /\ prev'[t] = prev[t] /\ start'[t] = start[t] /\ number'[t] = number[t]
      /\ value'[t] = Get(number[t]) /\ fat_index'[t] = fat_index[t]
  BY DEF ReadCurrent, IInv, TypeOK, Goto, locals
<1>5. CallOK(t)'
  <2>1. FreeOK(t)' /\ KeepOK(t)'
    BY <1>1, <1>2, <1>4 DEF ReadCurrent, IInv, TypeOK, Goto, CallOK, IndexOK, FreeOK, KeepOK, FreePoint, FlushStart, FlushPoint, Calls, PutPoint, Get, Loose
  <2> QED
    BY <1>1, <1>2, <1>4, <2>1 DEF ReadCurrent, Goto, Found, FlushStart, Result, IInv, TypeOK, CallOK, IdleOK, IndexOK, WalkOK, ExtendOK, TakeOK,
       KeepOK, FreeOK, PutPoint, FlushPoint, FreePoint, Calls, Idle
<1>6. Held(t)' \subseteq Held(t) /\ (Allocating(t)' => Allocating(t) \/ MayAllocate)
  BY <1>1, <1>2, <1>4 DEF ReadCurrent, Goto, IInv, TypeOK, CallOK, ExtendOK, KeepOK, FreeOK, IndexOK, Held, Holds,
     HoldsRest, Allocating, AllocSection, FlushPoint, FreePoint, PutPoint, Found, FlushStart, Get
<1> QED BY <1>1, <1>3, <1>4, <1>5, <1>6, QuietStep

\* A freed cluster is a valid hint.
LEMMA SwapHintKeeps ==
    ASSUME IInv, Excluded, NEW t \in Thread, SwapHint(t) PROVE IInv'
<1>1. fat' = fat /\ heads' = heads /\ InCall(t) /\ Others(t)
  BY DEF SwapHint, IInv, TypeOK, Others, Goto, locals, disk, InCall, Idle, DevicePoint
<1>2. CallOK(t)
  BY DEF IInv
<1>3. TypeOK'
  <2>1. pc' \in [Thread -> Point]
    BY <1>2 DEF SwapHint, IInv, TypeOK, Goto, Point, AllocSection, FlushPoint, FreePoint, Result, Found, FlushStart
  <2>2. number[t] \in Cluster => Get(number[t]) \in FatValue
    BY GetTyped DEF IInv
  <2>3. number'[t] \in Cluster \union {None, 1} /\ start'[t] \in Cluster \union {None, 1}
    BY <1>2, <2>2, ConstantsAssumption, ClusterCountAssumption
    DEF SwapHint, IInv, TypeOK, CallOK, WalkOK, ExtendOK, FreeOK, FreePoint, locals, Cluster, IsData, Last, None
  <2> QED
    BY <1>2, <2>1, <2>2, <2>3, ConstantsAssumption
    DEF SwapHint, IInv, TypeOK, CallOK, WalkOK, ExtendOK, disk, memory, locals, mishap, FreeOK, FreePoint
<1>4. /\ pc[t] = "swapHint" /\ pc'[t] = "addFree" /\ op'[t] = op[t]
      /\ chain'[t] = chain[t] /\ prev'[t] = prev[t] /\ start'[t] = start[t]
      /\ number'[t] = number[t] /\ value'[t] = value[t] /\ fat_index'[t] = fat_index[t]
  BY DEF SwapHint, IInv, TypeOK, Goto, locals
<1>5. CallOK(t)'
  <2>1. FreeOK(t)'
    BY <1>1, <1>2, <1>4 DEF SwapHint, CallOK, FreeOK, FreePoint, Loose
  <2> QED
    BY <1>1, <1>2, <1>4, <2>1 DEF CallOK, IdleOK, IndexOK, WalkOK, ExtendOK, TakeOK,
       KeepOK, FreeOK, PutPoint, FlushPoint, FreePoint, Calls, Idle
<1>6. Held(t)' \subseteq Held(t) /\ (Allocating(t)' => Allocating(t) \/ MayAllocate)
  BY <1>1, <1>2, <1>4 DEF SwapHint, Goto, IInv, TypeOK, CallOK, ExtendOK, KeepOK, FreeOK, IndexOK, Held, Holds,
     HoldsRest, Allocating, AllocSection, FlushPoint, FreePoint, PutPoint, Found, FlushStart, Get
<1> QED BY <1>1, <1>3, <1>4, <1>5, <1>6, QuietStep

\* The release goes on with what followed the freed cluster.
LEMMA AddFreeKeeps ==
    ASSUME IInv, Excluded, NEW t \in Thread, AddFree(t) PROVE IInv'
<1>1. fat' = fat /\ heads' = heads /\ InCall(t) /\ Others(t)
  BY DEF AddFree, IInv, TypeOK, Others, Goto, locals, disk, InCall, Idle, DevicePoint
<1>2. CallOK(t)
  BY DEF IInv
<1>3. TypeOK'
  <2>1. pc' \in [Thread -> Point]
    BY <1>2 DEF AddFree, IInv, TypeOK, Goto, Point, AllocSection, FlushPoint, FreePoint, Result, Found, FlushStart
  <2>2. number[t] \in Cluster => Get(number[t]) \in FatValue
    BY GetTyped DEF IInv
  <2>3. number'[t] \in Cluster \union {None, 1} /\ start'[t] \in Cluster \union {None, 1}
    BY <1>2, <2>2, ConstantsAssumption, ClusterCountAssumption
    DEF AddFree, IInv, TypeOK, CallOK, WalkOK, ExtendOK, FreeOK, FreePoint, locals, Cluster, IsData, Last, None
  <2>4. free_cluster' \in Word
    BY ConstantsAssumption, ClusterCountAssumption DEF AddFree, Increment, Word, IInv, TypeOK
  <2> QED
    BY <1>2, <2>1, <2>2, <2>3, <2>4, ConstantsAssumption
    DEF AddFree, IInv, TypeOK, CallOK, WalkOK, ExtendOK, disk, memory, locals, mishap, Increment, Word
<1>4. /\ pc[t] = "addFree" /\ op'[t] = op[t] /\ chain'[t] = chain[t]
      /\ prev'[t] = prev[t] /\ start'[t] = start[t] /\ value'[t] = value[t]
      /\ fat_index'[t] = fat_index[t]
  BY DEF AddFree, IInv, TypeOK, Goto, locals
<1>5. CallOK(t)'
  <2>1. FreeOK(t)' /\ KeepOK(t)'
    BY <1>1, <1>2, <1>4 DEF AddFree, IInv, TypeOK, Goto, CallOK, FreeOK, KeepOK, FreePoint, FlushStart, FlushPoint, Calls, IsData
  <2> QED
    BY <1>1, <1>2, <1>4, <2>1 DEF AddFree, Goto, Found, FlushStart, Result, IInv, TypeOK, CallOK, IdleOK, IndexOK, WalkOK, ExtendOK, TakeOK,
       KeepOK, FreeOK, PutPoint, FlushPoint, FreePoint, Calls, Idle
<1>6. Held(t)' \subseteq Held(t) /\ (Allocating(t)' => Allocating(t) \/ MayAllocate)
  BY <1>1, <1>2, <1>4 DEF AddFree, Goto, IInv, TypeOK, CallOK, ExtendOK, KeepOK, FreeOK, IndexOK, Held, Holds,
     HoldsRest, Allocating, AllocSection, FlushPoint, FreePoint, PutPoint, Found, FlushStart, Get
<1> QED BY <1>1, <1>3, <1>4, <1>5, <1>6, QuietStep

\* A failed access changes nothing.
LEMMA IoErrorKeeps ==
    ASSUME IInv, Excluded, NEW t \in Thread, IoError(t), TypeOK' PROVE IInv'
<1>1. fat' = fat /\ heads' = heads /\ InCall(t) /\ Others(t)
  BY DEF IoError, EntryWrite, IInv, TypeOK, Others, Goto, locals, disk, InCall, Idle, DevicePoint
<1>2. CallOK(t)
  BY DEF IInv
<1>3. TypeOK'
  OBVIOUS
<1>4. /\ pc'[t] = "ioerr" /\ op'[t] = op[t] /\ chain'[t] = chain[t]
      /\ prev'[t] = prev[t] /\ start'[t] = start[t] /\ number'[t] = number[t]
      /\ value'[t] = value[t] /\ fat_index'[t] = fat_index[t]
  BY DEF IoError, IInv, TypeOK, Goto, locals
<1>5. CallOK(t)'
  BY <1>1, <1>2, <1>4 DEF CallOK, IdleOK, IndexOK, WalkOK, ExtendOK, TakeOK, KeepOK, FreeOK,
     PutPoint, FlushPoint, FreePoint, Idle
<1>6. Held(t)' \subseteq Held(t) /\ (Allocating(t)' => Allocating(t) \/ MayAllocate)
  BY <1>1, <1>2, <1>4 DEF IoError, Goto, IInv, TypeOK, CallOK, ExtendOK, KeepOK, FreeOK, IndexOK, Held, Holds,
     HoldsRest, Allocating, AllocSection, FlushPoint, FreePoint, PutPoint, Found, FlushStart, Get
<1> QED BY <1>1, <1>3, <1>4, <1>5, <1>6, QuietStep

-----------------------------------------------------------------------------
(* Steps that write the table or change the start clusters. *)

\* A change of the start clusters spares a call whose chain still starts and that
\* holds none of them.
LEMMA HeadsSpare ==
    ASSUME IInv, NEW u \in Thread, fat'[0] = fat[0],
           chain[u] \in heads => chain[u] \in heads', heads' \cap Held(u) = {}
    PROVE  Spared(u)
  BY DEF IInv, HeldOK, Loose, Detached, Spared

\* A call shares its chain with extending calls only, and only if it extends too.
LEMMA OwnChainsKept ==
    ASSUME IInv, NEW t \in Thread, Others(t),
           \A u \in Thread \ {t} : chain'[t] = chain[u] /\ chain[u] # None =>
                                     op'[t] = "extend" /\ op[u] = "extend"
    PROVE  OwnChains'
  BY DEF IInv, OwnChains, Others

\* A write to a cluster that is no cluster of the chain leaves the call on its chain.
LEMMA OwnChainKept ==
    ASSUME IInv, NEW t \in Thread, NEW c, OnChain(t, c), NEW e \in Cluster, NEW v \in FatValue,
           fat'[0] = [fat[0] EXCEPT ![e] = v], ~OnChain(t, e)
    PROVE  c \in Chain(fat'[0], chain[t]) /\ fat'[0][c] = fat[0][c]
<1>1. fat[0] \in Table /\ heads \in SUBSET Cluster
  BY ConstantsAssumption DEF IInv, TypeOK
<1>2. \A d \in Cluster : d # e => fat'[0][d] = fat[0][d]
  BY <1>1 DEF Table
<1>3. chain[t] \in Cluster /\ c \in Chain(fat[0], chain[t])
  BY <1>1 DEF OnChain
<1>4. \A d \in Chain(fat[0], chain[t]) : fat'[0][d] = fat[0][d]
  BY <1>2, <1>3, ChainFollows DEF OnChain
<1>5. Chain(fat[0], chain[t]) \subseteq Chain(fat'[0], chain[t])
  BY <1>3, <1>4, ChainSurvives
<1> QED BY <1>3, <1>4, <1>5

\* The first round of the put takes a free cluster; the later rounds leave the
\* first copy alone.
LEMMA PutEndOfChainKeeps ==
    ASSUME IInv, Excluded, NEW t \in Thread, PutEndOfChain(t) PROVE IInv'
<1>1. CallOK(t) /\ HeldOK(t) /\ pc[t] = "putEndOfChain" /\ InCall(t) /\ Allocating(t)
  BY DEF IInv, PutEndOfChain, InCall, Idle, Allocating, AllocSection
<1>2. /\ AfterPut(t) \in Point /\ EndOfChain \in FatValue /\ number[t] \in Cluster
      /\ AfterPut(t) \in {"storeHint", "assertLast", "putLink"}
  BY <1>1 DEF AfterPut, Point, AllocSection, FatValue, CallOK, TakeOK
<1>3. RawPut(t, number[t], EndOfChain, AfterPut(t))
  BY DEF PutEndOfChain
<1>4. /\ TypeOK' /\ Others(t)
      /\ fat'[0] = IF fat_index[t] = 0 THEN [fat[0] EXCEPT ![number[t]] = EndOfChain] ELSE fat[0]
      /\ \/ fat_index'[t] = fat_index[t] + 1 /\ pc'[t] = pc[t]
         \/ fat_index'[t] = 0 /\ pc'[t] = AfterPut(t)
  BY <1>2, <1>3, PutFirst DEF IInv
<1>5. /\ heads' = heads /\ op' = op /\ chain' = chain /\ prev' = prev /\ number' = number
      /\ value' = value
  BY <1>3 DEF RawPut
<1>6. fat[0] \in Table /\ heads \in SUBSET Cluster /\ fat_index[t] \in Nat
  BY ConstantsAssumption DEF IInv, TypeOK
<1>7. op[t] = "extend" => OnChain(t, prev[t]) /\ Last(prev[t])
  BY <1>1 DEF CallOK, TakeOK
<1>8. fat_index[t] = 0 => ~OnChain(t, number[t]) /\ fat[0][number[t]] = Free
  BY <1>1, ChainFacts, MarksAreNotClusters DEF CallOK, TakeOK, Holds, FlushPoint, InChain, IsData, Get
<1>9. /\ WellFormed(fat'[0], heads')
      /\ Detached(fat'[0], heads', number[t]) /\ fat'[0][number[t]] = EndOfChain
      /\ op[t] = "extend" => OnChain(t, prev[t])' /\ Last(prev[t])'
  <2>1. CASE fat_index[t] = 0
    <3>1. WellFormed(fat'[0], heads') /\ Detached(fat'[0], heads', number[t])
      BY <1>2, <1>4, <1>5, <1>6, <1>8, <2>1, TakeKeeps DEF IInv, Formed
    <3>2. ASSUME op[t] = "extend" PROVE OnChain(t, prev[t])' /\ Last(prev[t])'
      <4>1. prev[t] \in Chain(fat'[0], chain[t]) /\ fat'[0][prev[t]] = fat[0][prev[t]]
        BY <1>2, <1>4, <1>7, <1>8, <2>1, <3>2, OwnChainKept
      <4> QED BY <1>5, <1>7, <3>2, <4>1 DEF OnChain, Last, Get
    <3> QED
      BY <1>2, <1>4, <1>6, <2>1, <3>1, <3>2 DEF Table
  <2>2. CASE fat_index[t] # 0
    <3>1. Holds(t) /\ Loose(number[t]) /\ Get(number[t]) = EndOfChain
      BY <1>1, <2>2 DEF Holds, HeldOK, Held, CallOK, TakeOK
    <3> QED
      BY <1>4, <1>5, <1>7, <2>2, <3>1 DEF IInv, Formed, Loose, OnChain, Last, Get
  <2> QED BY <2>1, <2>2
<1>10. pc'[t] \in {"putEndOfChain", "storeHint", "assertLast", "putLink"} /\ Holds(t)'
  BY <1>1, <1>2, <1>4, <1>5, <1>6 DEF AfterPut, Holds, CallOK, TakeOK
<1>11. CallOK(t)'
  <2>1. TakeOK(t)'
    BY <1>1, <1>2, <1>4, <1>5, <1>9, <1>10 DEF CallOK, TakeOK, AfterPut, Get
  <2> QED
    BY <1>1, <1>2, <1>4, <1>5, <1>6, <1>10, <2>1
    DEF CallOK, IdleOK, IndexOK, WalkOK, ExtendOK, TakeOK, KeepOK, FreeOK, AfterPut,
        PutPoint, FlushPoint, FreePoint, Calls, Idle
<1>12. Held(t)' = {number[t]}
  BY <1>5, <1>10 DEF Held
<1>13. CASE fat_index[t] = 0
  <2>1. ASSUME NEW u \in Thread \ {t} PROVE Spared(u) /\ Held(t)' \cap Held(u) = {}
    <3>1. ~Allocating(u)
      BY <1>1 DEF IInv, OneAllocation
    <3>2. number[t] \notin Held(u) /\ EndOfChain \notin Held(u)
      BY <1>8, <1>13, HeldFacts, MarksAreNotClusters DEF Get
    <3>3. Spared(u)
      BY <1>2, <1>4, <1>5, <1>8, <1>13, <3>1, <3>2, WriteSpares DEF Get
    <3> QED BY <1>12, <3>2, <3>3
  <2>2. HeldOK(t)'
    BY <1>2, <1>9, <1>12 DEF HeldOK, Loose
  <2>3. OwnChains'
    BY <1>4, <1>5, OwnChainsKept DEF IInv, OwnChains
  <2> QED BY <1>1, <1>4, <1>9, <1>11, <2>1, <2>2, <2>3, Combine DEF Formed
<1>14. CASE fat_index[t] # 0
  <2>1. Held(t) = {number[t]}
    BY <1>1, <1>14 DEF Held, Holds
  <2> QED BY <1>1, <1>4, <1>5, <1>11, <1>12, <1>14, <2>1, QuietStep
<1> QED BY <1>13, <1>14

\* The first round of the put appends the cluster taken to the chain.
LEMMA PutLinkKeeps ==
    ASSUME IInv, Excluded, NEW t \in Thread, PutLink(t) PROVE IInv'
<1>1. CallOK(t) /\ HeldOK(t) /\ pc[t] = "putLink" /\ InCall(t) /\ Allocating(t)
  BY DEF IInv, PutLink, InCall, Idle, Allocating, AllocSection
<1>2. /\ "storeHint" \in Point /\ number[t] \in FatValue
      /\ number[t] \in Cluster /\ prev[t] \in Cluster /\ op[t] = "extend" /\ prev[t] # number[t]
  BY <1>1 DEF Point, AllocSection, FatValue, CallOK, TakeOK
<1>3. RawPut(t, prev[t], number[t], "storeHint")
  BY DEF PutLink
<1>4. /\ TypeOK' /\ Others(t)
      /\ fat'[0] = IF fat_index[t] = 0 THEN [fat[0] EXCEPT ![prev[t]] = number[t]] ELSE fat[0]
      /\ \/ fat_index'[t] = fat_index[t] + 1 /\ pc'[t] = pc[t]
         \/ fat_index'[t] = 0 /\ pc'[t] = "storeHint"
  BY <1>2, <1>3, PutFirst DEF IInv
<1>5. heads' = heads /\ op' = op /\ chain' = chain /\ prev' = prev /\ number' = number
  BY <1>3 DEF RawPut
<1>6. fat[0] \in Table /\ heads \in SUBSET Cluster /\ fat_index[t] \in Nat
  BY ConstantsAssumption DEF IInv, TypeOK
<1>7. CallOK(t)'
  BY <1>1, <1>2, <1>4, <1>5, <1>6
  DEF CallOK, IdleOK, IndexOK, WalkOK, ExtendOK, TakeOK, KeepOK, FreeOK,
      PutPoint, FlushPoint, FreePoint, Calls, Idle
<1>8. Held(t)' = {}
  BY <1>1, <1>2, <1>4, <1>5, <1>6 DEF Held, Holds, HoldsRest, FlushPoint
<1>9. CASE fat_index[t] = 0
  <2>1. OnChain(t, prev[t]) /\ Get(prev[t]) = EndOfChain /\ Get(number[t]) = EndOfChain
    BY <1>1, <1>2, <1>9 DEF CallOK, TakeOK, Holds, Last
  <2>2. number[t] \in Held(t) /\ Detached(fat[0], heads, number[t])
    BY <1>1, <1>9 DEF Held, Holds, HeldOK, Loose
  <2>3. WellFormed(fat'[0], heads')
    BY <1>2, <1>4, <1>5, <1>6, <1>9, <2>1, <2>2, AppendKeeps DEF IInv, Formed, Get
  <2>4. ASSUME NEW u \in Thread \ {t} PROVE Spared(u)
    <3>1. ~Allocating(u)
      BY <1>1 DEF IInv, OneAllocation
    <3>2. prev[t] \notin Held(u) /\ number[t] \notin Held(u)
      BY <2>1, <2>2, ChainFacts DEF IInv, HeldApart
    <3> QED
      BY <1>2, <1>4, <1>5, <1>9, <2>1, <3>1, <3>2, MarksAreNotClusters, WriteSpares DEF IsData
  <2>5. HeldOK(t)'
    BY <1>8 DEF HeldOK
  <2>6. OwnChains'
    BY <1>4, <1>5, OwnChainsKept DEF IInv, OwnChains
  <2> QED BY <1>1, <1>4, <1>7, <1>8, <2>3, <2>4, <2>5, <2>6, Combine DEF Formed
<1>10. CASE fat_index[t] # 0
  BY <1>1, <1>4, <1>5, <1>7, <1>8, <1>10, QuietStep
<1> QED BY <1>9, <1>10

\* The first round of the put detaches the cluster to be released.
LEMMA UnlinkPreviousKeeps ==
    ASSUME IInv, Excluded, NEW t \in Thread, UnlinkPrevious(t) PROVE IInv'
<1>1. CallOK(t) /\ HeldOK(t) /\ pc[t] = "unlink" /\ InCall(t)
  BY DEF IInv, UnlinkPrevious, InCall, Idle
<1>2. /\ "readCurrent" \in Point /\ EndOfChain \in FatValue
      /\ number[t] \in Cluster /\ prev[t] \in Cluster /\ op[t] = "trim"
  BY <1>1 DEF Point, FreePoint, FatValue, CallOK, FreeOK
<1>3. RawPut(t, prev[t], EndOfChain, "readCurrent")
  BY DEF UnlinkPrevious
<1>4. /\ TypeOK' /\ Others(t)
      /\ fat'[0] = IF fat_index[t] = 0 THEN [fat[0] EXCEPT ![prev[t]] = EndOfChain] ELSE fat[0]
      /\ \/ fat_index'[t] = fat_index[t] + 1 /\ pc'[t] = pc[t]
         \/ fat_index'[t] = 0 /\ pc'[t] = "readCurrent"
  BY <1>2, <1>3, PutFirst DEF IInv
<1>5. heads' = heads /\ op' = op /\ chain' = chain /\ prev' = prev /\ number' = number
  BY <1>3 DEF RawPut
<1>6. fat[0] \in Table /\ heads \in SUBSET Cluster /\ fat_index[t] \in Nat
  BY ConstantsAssumption DEF IInv, TypeOK
<1>7. CallOK(t)'
  BY <1>1, <1>2, <1>4, <1>5, <1>6
  DEF CallOK, IdleOK, IndexOK, WalkOK, ExtendOK, TakeOK, KeepOK, FreeOK,
      PutPoint, FlushPoint, FreePoint, Idle
<1>8. Held(t)' = {number[t]} /\ ~Allocating(t)'
  BY <1>1, <1>4, <1>5, <1>6 DEF Held, Holds, Allocating, AllocSection, FlushPoint
<1>9. CASE fat_index[t] = 0
  <2>1. OnChain(t, prev[t]) /\ fat[0][prev[t]] = number[t]
    BY <1>1, <1>9 DEF CallOK, FreeOK, FreePoint, Get
  <2>2. WellFormed(fat'[0], heads') /\ Detached(fat'[0], heads', number[t])
    BY <1>2, <1>4, <1>5, <1>6, <1>9, <2>1, CutKeeps DEF IInv, Formed, IsData
  <2>3. ASSUME NEW u \in Thread \ {t} PROVE Spared(u) /\ Held(t)' \cap Held(u) = {}
    <3>1. prev[t] \notin Held(u) /\ EndOfChain \notin Held(u) /\ number[t] \notin Held(u)
      BY <1>2, <2>1, ChainFacts, HeldFacts, MarksAreNotClusters DEF Get
    <3>2. ~OnChain(u, prev[t])
      <4>1. chain[u] # chain[t]
        BY <1>2, <1>6, <2>1, MarksAreNotClusters DEF OnChain, IInv, OwnChains, None, Free
      <4> QED BY <1>6, <2>1, <4>1, ChainsDisjoint DEF OnChain, IInv, Formed
    <3>3. Get(prev[t]) # Free
      BY <1>2, <2>1, MarksAreNotClusters DEF Get
    <3>4. Spared(u)
      BY <1>2, <1>4, <1>5, <1>9, <3>1, <3>2, <3>3, WriteSpares
    <3> QED BY <1>8, <3>1, <3>4
  <2>4. HeldOK(t)'
    BY <1>2, <1>8, <2>2 DEF HeldOK, Loose
  <2>5. OwnChains'
    BY <1>4, <1>5, OwnChainsKept DEF IInv, OwnChains
  <2> QED BY <1>1, <1>4, <1>7, <1>8, <2>2, <2>3, <2>4, <2>5, Combine DEF Formed
<1>10. CASE fat_index[t] # 0
  <2>1. Held(t) = {number[t]}
    BY <1>1, <1>10 DEF Held, Holds
  <2> QED BY <1>1, <1>4, <1>5, <1>7, <1>8, <1>10, <2>1, QuietStep
<1> QED BY <1>9, <1>10

\* The first round of the put frees a cluster nothing refers to and detaches the
\* one that followed it.
LEMMA PutFreeKeeps ==
    ASSUME IInv, Excluded, NEW t \in Thread, PutFree(t) PROVE IInv'
<1>1. CallOK(t) /\ HeldOK(t) /\ pc[t] = "putFree" /\ InCall(t)
  BY DEF IInv, PutFree, InCall, Idle
<1>2. /\ "swapHint" \in Point /\ Free \in FatValue
      /\ number[t] \in Cluster /\ op[t] \in {"trim", "free"}
  BY <1>1 DEF Point, FreePoint, FatValue, CallOK, FreeOK
<1>3. RawPut(t, number[t], Free, "swapHint")
  BY DEF PutFree
<1>4. /\ TypeOK' /\ Others(t)
      /\ fat'[0] = IF fat_index[t] = 0 THEN [fat[0] EXCEPT ![number[t]] = Free] ELSE fat[0]
      /\ \/ fat_index'[t] = fat_index[t] + 1 /\ pc'[t] = pc[t]
         \/ fat_index'[t] = 0 /\ pc'[t] = "swapHint"
  BY <1>2, <1>3, PutFirst DEF IInv
<1>5. /\ heads' = heads /\ op' = op /\ chain' = chain /\ prev' = prev /\ number' = number
      /\ value' = value
  BY <1>3 DEF RawPut
<1>6. fat[0] \in Table /\ heads \in SUBSET Cluster /\ fat_index[t] \in Nat
  BY ConstantsAssumption DEF IInv, TypeOK
<1>7. CallOK(t)'
  BY <1>1, <1>2, <1>4, <1>5, <1>6
  DEF CallOK, IdleOK, IndexOK, WalkOK, ExtendOK, TakeOK, KeepOK, FreeOK,
      PutPoint, FlushPoint, FreePoint, Idle
<1>8. Held(t)' = (IF IsData(value[t]) THEN {value[t]} ELSE {}) /\ ~Allocating(t)'
  BY <1>1, <1>4, <1>5, <1>6 DEF Held, Holds, HoldsRest, IsData, Allocating, AllocSection, FlushPoint
<1>9. CASE fat_index[t] = 0
  <2>1. number[t] \in Held(t) /\ Detached(fat[0], heads, number[t]) /\ value[t] = fat[0][number[t]]
    BY <1>1, <1>9 DEF Held, Holds, HeldOK, Loose, CallOK, FreeOK, FreePoint, Get
  <2>2. WellFormed(fat'[0], heads') /\ (IsData(value[t]) => Detached(fat'[0], heads', value[t]))
    BY <1>2, <1>4, <1>5, <1>6, <1>9, <2>1, ReleaseKeeps DEF IInv, Formed
  <2>3. ASSUME NEW u \in Thread \ {t} PROVE Spared(u) /\ Held(t)' \cap Held(u) = {}
    <3>1. number[t] \notin Held(u) /\ Free \notin Held(u) /\ value[t] \notin Held(u)
      BY <1>2, <2>1, HeldFacts, MarksAreNotClusters DEF IInv, HeldApart, Get
    <3>2. ~OnChain(u, number[t]) /\ Get(number[t]) # Free
      BY <2>1, ChainFacts, HeldFacts
    <3>3. Spared(u)
      BY <1>2, <1>4, <1>5, <1>9, <3>1, <3>2, WriteSpares
    <3> QED BY <1>8, <3>1, <3>3
  <2>4. HeldOK(t)'
    BY <1>8, <2>2 DEF HeldOK, Loose, IsData
  <2>5. OwnChains'
    BY <1>4, <1>5, OwnChainsKept DEF IInv, OwnChains
  <2> QED BY <1>1, <1>4, <1>7, <1>8, <2>2, <2>3, <2>4, <2>5, Combine DEF Formed
<1>10. CASE fat_index[t] # 0
  <2>1. Held(t) = IF IsData(value[t]) THEN {value[t]} ELSE {}
    BY <1>1, <1>10 DEF Held, Holds, HoldsRest, FlushPoint
  <2> QED BY <1>1, <1>4, <1>5, <1>7, <1>8, <1>10, <2>1, QuietStep
<1> QED BY <1>9, <1>10

\* The walk of a shortening call ends at a cluster its predecessor leads to, or at
\* a start cluster that is dropped.
LEMMA WalkEndTrimKeeps ==
    ASSUME IInv, Excluded, NEW t \in Thread, WalkEndTrim(t) PROVE IInv'
<1>1. CallOK(t) /\ pc[t] = "walk" /\ op[t] = "trim" /\ InCall(t)
  BY DEF IInv, WalkEndTrim, InCall, Idle
<1>2. /\ fat' = fat /\ op' = op /\ chain' = chain /\ prev' = prev /\ number' = number
      /\ fat_index' = fat_index /\ value' = value
  BY DEF WalkEndTrim, disk, locals
<1>3. TypeOK'
  BY DEF WalkEndTrim, IInv, TypeOK, Goto, Point, FreePoint, disk, memory, locals, mishap
<1>4. Others(t)
  BY <1>2 DEF WalkEndTrim, IInv, TypeOK, Goto, Others, locals
<1>5. fat[0] \in Table /\ heads \in SUBSET Cluster
  BY ConstantsAssumption DEF IInv, TypeOK
<1>6. OnChain(t, number[t]) /\ number[t] \in Cluster /\ fat_index[t] = 0
  BY <1>1, ChainFacts DEF CallOK, WalkOK, IndexOK, PutPoint
<1>7. CASE prev[t] = None
  <2>1. pc'[t] = "readCurrent" /\ heads' = heads \ {number[t]} /\ number[t] = chain[t]
    BY <1>1, <1>7 DEF WalkEndTrim, IInv, TypeOK, Goto, CallOK, WalkOK
  <2>2. number[t] \in heads
    BY <1>6, <2>1 DEF OnChain
  <2>3. WellFormed(fat'[0], heads') /\ Detached(fat'[0], heads', number[t])
    BY <1>2, <1>5, <2>1, <2>2, DropKeeps DEF IInv, Formed
  <2>4. CallOK(t)'
    BY <1>1, <1>2, <1>6, <2>1
    DEF CallOK, IdleOK, IndexOK, WalkOK, ExtendOK, TakeOK, KeepOK, FreeOK,
        PutPoint, FlushPoint, FreePoint, Idle
  <2>5. Held(t)' = {number[t]} /\ ~Allocating(t)'
    BY <1>2, <2>1 DEF Held, Holds, Allocating, AllocSection, FlushPoint
  <2>6. HeldOK(t)'
    BY <1>6, <2>3, <2>5 DEF HeldOK, Loose
  <2>7. OwnChains'
    BY <1>2, <1>4, OwnChainsKept DEF IInv, OwnChains
  <2>8. ASSUME NEW u \in Thread \ {t} PROVE Spared(u) /\ Held(t)' \cap Held(u) = {}
    <3>1. number[t] \notin Held(u) /\ heads \cap Held(u) = {}
      BY <2>2, HeldFacts
    <3>2. chain[u] # chain[t]
      BY <1>1, <1>6, <2>1, MarksAreNotClusters DEF IInv, OwnChains, None, Free
    <3>3. Spared(u)
      BY <1>2, <2>1, <3>1, <3>2, HeadsSpare
    <3> QED BY <2>5, <3>1, <3>3
  <2> QED BY <1>1, <1>3, <1>4, <2>3, <2>4, <2>5, <2>6, <2>7, <2>8, Combine DEF Formed
<1>8. CASE prev[t] # None
  <2>1. pc'[t] = "unlink" /\ heads' = heads
    BY <1>8 DEF WalkEndTrim, IInv, TypeOK, Goto
  <2>2. prev[t] \in Cluster
    BY <1>8 DEF IInv, TypeOK
  <2>3. OnChain(t, prev[t])' /\ Get(prev[t])' = number[t]
    BY <1>1, <1>2, <1>8, <2>1 DEF CallOK, WalkOK, OnChain, Get
  <2>4. CallOK(t)'
    BY <1>1, <1>2, <1>6, <1>8, <2>1, <2>2, <2>3
    DEF CallOK, IdleOK, IndexOK, WalkOK, ExtendOK, TakeOK, KeepOK, FreeOK, OnChain, Get,
        PutPoint, FlushPoint, FreePoint, Idle
  <2>5. Held(t)' = {} /\ ~Allocating(t)'
    BY <1>2, <1>6, <2>1 DEF Held, Holds, HoldsRest, Allocating, AllocSection, FlushPoint
  <2> QED BY <1>1, <1>2, <1>3, <1>4, <2>1, <2>4, <2>5, QuietStep
<1> QED BY <1>7, <1>8

\* A call starts on a chain a directory refers to, or drops one before it frees it.
LEMMA CallAnyKeeps ==
    ASSUME IInv, Excluded, NEW t \in Thread, CallAny(t), ~torn' PROVE IInv'
<1>1. heads \in SUBSET Cluster /\ fat[0] \in Table
  BY ConstantsAssumption DEF IInv, TypeOK
<1>2. ASSUME NEW name \in Calls, NEW h \in Cluster \union {None},
             NEW p \in {"loadHint", "walk", "readCurrent"}, Call(t, name, h, p), UNCHANGED mishap
      PROVE  /\ MayCall /\ Others(t) /\ fat' = fat
             /\ pc'[t] = p /\ op'[t] = name /\ chain'[t] = h /\ number'[t] = h /\ prev'[t] = None
             /\ fat_index'[t] = 0
             /\ heads' \subseteq heads => TypeOK'
             /\ ~Allocating(t)'
  <2>1. pc[t] = Idle /\ prev[t] = None /\ fat_index[t] = 0
    BY <1>2 DEF Call, InCall, IInv, CallOK, IdleOK, IndexOK, PutPoint, Idle
  <2>2. p \in Point
    BY DEF Point, FreePoint
  <2>3. heads' \subseteq heads => TypeOK'
    BY <1>2, <2>2 DEF Call, IInv, TypeOK, Goto, disk, memory, mishap
  <2>4. ~Allocating(t)'
    BY <1>2 DEF Call, IInv, TypeOK, Goto, Allocating, AllocSection, FlushPoint
  <2> QED
    BY <1>2, <2>1, <2>3, <2>4 DEF Call, IInv, TypeOK, Goto, Others, disk
<1> USE DEF Calls
<1>3. ASSUME fat' = fat, heads' = heads, Formed PROVE Formed'
  BY <1>3 DEF Formed
<1>4. CASE CallAlloc(t)
  <2>1. Call(t, "alloc", None, "loadHint") /\ UNCHANGED mishap /\ heads' = heads
    BY <1>4 DEF CallAlloc
  <2>2. /\ MayCall /\ Others(t) /\ fat' = fat /\ TypeOK' /\ ~Allocating(t)'
        /\ pc'[t] = "loadHint" /\ op'[t] = "alloc" /\ fat_index'[t] = 0 /\ chain'[t] = None
    BY <1>2, <2>1
  <2>3. CallOK(t)'
    BY <2>2 DEF CallOK, IdleOK, IndexOK, WalkOK, ExtendOK, TakeOK, KeepOK, FreeOK,
                PutPoint, FlushPoint, FreePoint, Idle
  <2>4. Held(t)' = {}
    BY <2>2 DEF Held, Holds, HoldsRest, FlushPoint
  <2>5. HeldOK(t)'
    BY <2>4 DEF HeldOK
  <2>6. OwnChains'
    BY <2>2, OwnChainsKept
  <2>7. \A u \in Thread \ {t} : Spared(u)
    BY <2>1, <2>2, HeldFacts, HeadsSpare
  <2> QED BY <1>3, <2>1, <2>2, <2>3, <2>4, <2>5, <2>6, <2>7, Combine DEF IInv
<1>5. ASSUME NEW h \in heads, CallExtend(t, h) \/ CallTrim(t, h) PROVE IInv'
  <2>1. PICK name \in {"extend", "trim"} :
          /\ Call(t, name, h, "walk") /\ UNCHANGED mishap /\ heads' = heads
          /\ \A u \in Thread : chain[u] = h => name = "extend" /\ op[u] = "extend"
    BY <1>5 DEF CallExtend, CallTrim
  <2>2. /\ MayCall /\ Others(t) /\ fat' = fat /\ TypeOK' /\ ~Allocating(t)'
        /\ pc'[t] = "walk" /\ op'[t] = name /\ chain'[t] = h /\ number'[t] = h
        /\ prev'[t] = None /\ fat_index'[t] = 0
    BY <1>1, <1>2, <2>1
  <2>3. h \in Chain(fat'[0], h)
    BY <1>1, ChainFollows
  <2>4. WalkOK(t)'
    BY <2>1, <2>2, <2>3 DEF WalkOK, OnChain
  <2>5. CallOK(t)'
    BY <2>1, <2>2, <2>4
    DEF CallOK, IdleOK, IndexOK, ExtendOK, TakeOK, KeepOK, FreeOK,
        PutPoint, FlushPoint, FreePoint, Idle
  <2>6. Held(t)' = {}
    BY <2>2 DEF Held, Holds, HoldsRest, FlushPoint
  <2>7. HeldOK(t)'
    BY <2>6 DEF HeldOK
  <2>8. OwnChains'
    BY <2>1, <2>2, OwnChainsKept
  <2>9. \A u \in Thread \ {t} : Spared(u)
    BY <2>1, <2>2, HeldFacts, HeadsSpare
  <2> QED BY <1>3, <2>1, <2>2, <2>5, <2>6, <2>7, <2>8, <2>9, Combine DEF IInv
<1>6. ASSUME NEW h \in heads, CallFree(t, h) PROVE IInv'
  <2>1. /\ Call(t, "free", h, "readCurrent") /\ UNCHANGED mishap /\ heads' = heads \ {h}
        /\ \A u \in Thread : chain[u] # h
    BY <1>6 DEF CallFree
  <2>2. /\ MayCall /\ Others(t) /\ fat' = fat /\ TypeOK' /\ ~Allocating(t)'
        /\ pc'[t] = "readCurrent" /\ op'[t] = "free" /\ number'[t] = h /\ fat_index'[t] = 0
        /\ chain'[t] = h
    BY <1>1, <1>2, <2>1
  <2>3. WellFormed(fat'[0], heads') /\ Detached(fat'[0], heads', h)
    BY <1>1, <2>1, <2>2, DropKeeps DEF IInv, Formed
  <2>4. CallOK(t)'
    BY <1>1, <2>2
    DEF CallOK, IdleOK, IndexOK, WalkOK, ExtendOK, TakeOK, KeepOK, FreeOK,
        PutPoint, FlushPoint, FreePoint, Idle
  <2>5. Held(t)' = {h}
    BY <2>2 DEF Held, Holds
  <2>6. HeldOK(t)'
    BY <1>1, <2>3, <2>5 DEF HeldOK, Loose
  <2>7. OwnChains'
    BY <2>1, <2>2, OwnChainsKept
  <2>8. ASSUME NEW u \in Thread \ {t} PROVE Spared(u) /\ Held(t)' \cap Held(u) = {}
    <3>1. heads \cap Held(u) = {}
      BY HeldFacts
    <3>2. Spared(u)
      BY <2>1, <2>2, <3>1, HeadsSpare
    <3> QED BY <2>5, <3>1, <3>2
  <2> QED BY <2>2, <2>3, <2>4, <2>6, <2>7, <2>8, Combine DEF Formed
<1>7. ASSUME NEW h \in stale PROVE ~CallStale(t, h)
  BY DEF CallStale
<1> QED BY <1>4, <1>5, <1>6, <1>7 DEF CallAny

\* A cluster handed to the caller becomes a start cluster while nothing refers to
\* it.
LEMMA ReturnKeeps ==
    ASSUME IInv, Excluded, NEW t \in Thread, Return(t) PROVE IInv'
<1>1. CallOK(t) /\ HeldOK(t) /\ InCall(t)
  BY DEF IInv, Return, InCall, Result, Idle
<1>2. op[t] = "alloc" /\ pc[t] = "ok" => number[t] \in Held(t)
  BY DEF Held, Holds
<1>3. op[t] = "alloc" /\ pc[t] = "ok" => number[t] \in Cluster /\ Detached(fat[0], heads, number[t])
  BY <1>1, <1>2 DEF HeldOK, Loose
<1>4. fat' = fat /\ fat[0] \in Table /\ heads \in SUBSET Cluster
  BY ConstantsAssumption DEF Return, IInv, TypeOK, disk
<1>5. Formed'
  BY <1>3, <1>4, RegisterKeeps DEF Return, IInv, Formed
<1>6. pc'[t] = Idle /\ op'[t] = Idle /\ prev'[t] = None /\ chain'[t] = None /\ fat_index'[t] = 0
  BY DEF Return, IInv, TypeOK, Goto
<1>7. CallOK(t)'
  BY <1>6 DEF CallOK, IdleOK, IndexOK, WalkOK, ExtendOK, TakeOK, KeepOK, FreeOK,
              PutPoint, FlushPoint, FreePoint, Idle
<1>8. TypeOK'
  <2>1. heads' \in SUBSET Cluster
    BY <1>3, <1>4 DEF Return
  <2>2. 0 \in 0..(FatCount - 1) /\ NoSnap \in [last : Cluster \union {Unset}, free : Word]
    BY ConstantsAssumption, ClusterCountAssumption DEF NoSnap, Word, Unset
  <2> QED
    BY <2>1, <2>2 DEF Return, IInv, TypeOK, Goto, Point, FatValue, disk, memory, mishap
<1>9. Others(t)
  BY DEF Return, IInv, TypeOK, Goto, Others
<1>10. Held(t)' = {} /\ ~Allocating(t)'
  BY <1>6 DEF Held, Holds, HoldsRest, Allocating, AllocSection, FlushPoint, Idle
<1>11. HeldOK(t)'
  BY <1>10 DEF HeldOK
<1>12. OwnChains'
  BY <1>6, <1>9, OwnChainsKept
<1>13. ASSUME NEW u \in Thread \ {t} PROVE Spared(u)
  <2>1. heads \cap Held(u) = {}
    BY HeldFacts
  <2>2. heads \subseteq heads' /\ heads' \cap Held(u) = {}
    BY <1>2, <2>1 DEF Return, IInv, HeldApart
  <2> QED BY <1>4, <2>2, HeadsSpare
<1> QED BY <1>1, <1>5, <1>7, <1>8, <1>9, <1>10, <1>11, <1>12, <1>13, Combine

\* The number of free clusters fits the counter.
LEMMA FreeCountTyped ==
    ASSUME NEW F \in Table PROVE Cardinality(FreeClusters(F)) \in 0..(ClusterCount - 2)
<1>1. IsFiniteSet(Cluster) /\ Cardinality(Cluster) = ClusterCount - 2
  BY ClusterCountAssumption, FS_Interval DEF Cluster
<1>2. FreeClusters(F) \in SUBSET Cluster
  BY DEF FreeClusters
<1>3. Cardinality(FreeClusters(F)) <= Cardinality(Cluster)
  BY <1>1, <1>2, FS_Subset
<1>4. Cardinality(FreeClusters(F)) \in Nat
  BY <1>1, <1>2, FS_Subset, FS_CardinalityType
<1> QED BY <1>1, <1>3, <1>4, ClusterCountAssumption

\* A crash loses every call and keeps the disk.
LEMMA CrashKeeps ==
    ASSUME IInv, CrashAndMount, TypeOK' PROVE IInv'
<1>1. fat' = fat /\ heads' = heads
  BY DEF CrashAndMount, disk
<1>2. Formed'
  BY <1>1 DEF IInv, Formed
<1>4. TypeOK'
  OBVIOUS
<1>5. \A t \in Thread : pc'[t] = Idle /\ op'[t] = Idle /\ prev'[t] = None /\ chain'[t] = None
                        /\ fat_index'[t] = 0
  BY DEF CrashAndMount
<1>6. \A t \in Thread : Held(t)' = {} /\ ~InCall(t)' /\ ~Allocating(t)'
  BY <1>5 DEF Held, Holds, HoldsRest, InCall, Allocating, AllocSection, FlushPoint, Idle
<1>7. \A t \in Thread : CallOK(t)'
  BY <1>5 DEF CallOK, IdleOK, IndexOK, WalkOK, ExtendOK, TakeOK, KeepOK, FreeOK,
         PutPoint, FlushPoint, FreePoint, Idle
<1>8. /\ OneCall' /\ OneAllocation' /\ OwnChains' /\ HeldApart'
      /\ \A t \in Thread : HeldOK(t)'
  BY <1>5, <1>6 DEF OneCall, OneAllocation, OwnChains, HeldApart, HeldOK
<1> QED BY <1>2, <1>4, <1>7, <1>8 DEF IInv

-----------------------------------------------------------------------------
(* The types, also when a call goes by a stale entry. *)

\* What t does leaves the others typed.
LEMMA MoveTyped ==
    ASSUME TypeInv, NEW t \in Thread, Others(t), TypeOK', PointTyped(t)', Calm'
    PROVE  TypeInv'
<1>1. ASSUME NEW u \in Thread \ {t} PROVE PointTyped(u)'
  <2>1. PointTyped(u)
    BY DEF TypeInv
  <2>2. /\ pc'[u] = pc[u] /\ op'[u] = op[u] /\ chain'[u] = chain[u] /\ prev'[u] = prev[u]
        /\ start'[u] = start[u] /\ number'[u] = number[u]
    BY DEF Others
  <2> QED BY <2>1, <2>2 DEF PointTyped
<1> QED BY <1>1 DEF TypeInv

\* A step that is no mishap stays calm.
LEMMA StaysCalm == ASSUME Calm, UNCHANGED mishap PROVE Calm'
  BY DEF Calm, Undisturbed, mishap

LEMMA PutTyped ==
    ASSUME TypeInv, NEW t \in Thread,
           PutEndOfChain(t) \/ PutLink(t) \/ UnlinkPrevious(t) \/ PutFree(t)
    PROVE  TypeInv'
<1>1. TypeOK /\ Calm /\ PointTyped(t)
  BY DEF TypeInv
<1>2. PICK c \in Cluster, v \in FatValue, next \in Point :
        /\ RawPut(t, c, v, next)
        /\ \/ /\ pc[t] = "putEndOfChain" /\ next \in {"storeHint", "assertLast", "putLink"}
              /\ next = "storeHint" <=> op[t] # "extend"
           \/ pc[t] = "putLink" /\ next = "storeHint"
           \/ pc[t] = "unlink" /\ next = "readCurrent"
           \/ pc[t] = "putFree" /\ next = "swapHint"
  <2>1. EndOfChain \in FatValue /\ Free \in FatValue /\ Cluster \subseteq FatValue
    BY DEF FatValue
  <2>2. CASE PutEndOfChain(t)
    <3>1. number[t] \in Cluster
      BY <1>1, <2>2 DEF PointTyped, PutEndOfChain
    <3>2. AfterPut(t) \in {"storeHint", "assertLast", "putLink"} /\ AfterPut(t) \in Point
          /\ (AfterPut(t) = "storeHint" <=> op[t] # "extend")
      BY DEF AfterPut, Point, AllocSection
    <3> QED BY <2>1, <2>2, <3>1, <3>2 DEF PutEndOfChain
  <2>3. CASE PutLink(t)
    BY <1>1, <2>1, <2>3 DEF PointTyped, PutLink, AllocSection, Point
  <2>4. CASE UnlinkPrevious(t)
    BY <1>1, <2>1, <2>4 DEF PointTyped, UnlinkPrevious, FreePoint, Point
  <2>5. CASE PutFree(t)
    BY <1>1, <2>1, <2>5 DEF PointTyped, PutFree, FreePoint, Point
  <2> QED BY <2>2, <2>3, <2>4, <2>5
<1>3. TypeOK' /\ Others(t) /\ (pc'[t] = pc[t] \/ pc'[t] = next)
  BY <1>1, <1>2, PutFirst
<1>4. UNCHANGED <<mishap, op, chain, prev, start, number>>
  BY <1>2 DEF RawPut
<1>5. PointTyped(t)'
  BY <1>1, <1>2, <1>3, <1>4 DEF PointTyped, AllocSection, FlushPoint, FreePoint
<1> QED BY <1>1, <1>3, <1>4, <1>5, MoveTyped, StaysCalm

LEMMA AllocTyped ==
    ASSUME TypeInv, NEW t \in Thread, AllocStep(t), ~PutEndOfChain(t), ~PutLink(t)
    PROVE  TypeInv'
<1>1. TypeOK /\ Calm /\ PointTyped(t)
  BY DEF TypeInv
<1>2. UNCHANGED mishap
  BY DEF AllocStep, LoadHint, ReadLastGrown, ReadLastEnd, CheckFree, TryNext, ReloadHint,
     ScanWrap, ScanNext, AssertFree, AssertLast, StoreHint, SubFree
<1>3. CASE LoadHint(t) \/ ReadLastEnd(t)
  <2>1. start'[t] \in Cluster \union {1} /\ start' = [start EXCEPT ![t] = start'[t]]
    BY <1>1, <1>3, ClusterCountAssumption, ConstantsAssumption
    DEF LoadHint, ReadLastEnd, TypeOK, PointTyped, Unset, Cluster
  <2>2. TypeOK' /\ Others(t)
    <3>1. pc' = [pc EXCEPT ![t] = "checkFree"] /\ "checkFree" \in Point
      BY <1>3 DEF LoadHint, ReadLastEnd, Goto, Point, AllocSection
    <3>2. UNCHANGED <<disk, memory, heads, op, chain, prev, number, value, fat_index, snap, mishap>>
      BY <1>3 DEF LoadHint, ReadLastEnd
    <3>3. start' \in [Thread -> Cluster \union {None, 1}]
      BY <1>1, <2>1 DEF TypeOK
    <3> QED BY <1>1, <2>1, <3>1, <3>2, <3>3 DEF TypeOK, Others, disk, memory, mishap
  <2>3. PointTyped(t)'
    BY <1>1, <1>3, <2>1, ClusterCountAssumption
    DEF LoadHint, ReadLastEnd, TypeOK, Goto, PointTyped, AllocSection, FlushPoint, FreePoint, None, Cluster
  <2> QED BY <1>1, <1>2, <2>2, <2>3, MoveTyped, StaysCalm
<1>4. CASE ReadLastGrown(t)
  <2>1. Get(prev[t]) \in Cluster
    BY <1>1, <1>4, GetTyped DEF ReadLastGrown, PointTyped, IsData
  <2>2. TypeOK' /\ Others(t)
    BY <1>1, <1>4, <2>1
    DEF ReadLastGrown, TypeOK, Goto, Point, Result, Others, disk, memory, mishap
  <2>3. PointTyped(t)'
    BY <1>1, <1>4, <2>1
    DEF ReadLastGrown, TypeOK, Goto, PointTyped, AllocSection, FlushPoint, FreePoint
  <2> QED BY <1>1, <1>2, <2>2, <2>3, MoveTyped, StaysCalm
<1>5. CASE CheckFree(t)
  <2>1. TypeOK' /\ Others(t)
    BY <1>1, <1>5
    DEF CheckFree, TypeOK, Goto, Point, Result, AllocSection, Others, disk, memory, mishap
  <2>2. PointTyped(t)'
    BY <1>1, <1>5
    DEF CheckFree, TypeOK, Goto, PointTyped, AllocSection, FlushPoint, FreePoint
  <2> QED BY <1>1, <1>2, <2>1, <2>2, MoveTyped, StaysCalm
<1>6. CASE TryNext(t)
  <2>1. Succ(start[t]) \in Cluster
    BY <1>1, <1>6, SuccTyped DEF TryNext, TypeOK, PointTyped
  <2>2. TypeOK' /\ Others(t)
    BY <1>1, <1>6, <2>1
    DEF TryNext, Found, TypeOK, Goto, Point, AllocSection, Others, disk, memory, mishap
  <2>3. PointTyped(t)'
    BY <1>1, <1>6, <2>1
    DEF TryNext, Found, TypeOK, Goto, PointTyped, AllocSection, FlushPoint, FreePoint
  <2> QED BY <1>1, <1>2, <2>2, <2>3, MoveTyped, StaysCalm
<1>7. CASE ReloadHint(t)
  <2>0. start[t] \in Cluster \union {1} /\ (last_cluster < ClusterCount => last_cluster \in Cluster)
    BY <1>1, <1>7, ConstantsAssumption, ClusterCountAssumption
    DEF ReloadHint, TypeOK, PointTyped, Unset
  <2>1. PICK from \in Cluster \union {1} :
          start' = [start EXCEPT ![t] = from] /\ number' = [number EXCEPT ![t] = from]
    BY <1>7, <2>0 DEF ReloadHint
  <2>2. TypeOK' /\ Others(t)
    BY <1>1, <1>7, <2>1
    DEF ReloadHint, TypeOK, Goto, Point, AllocSection, Others, disk, memory, mishap
  <2>3. PointTyped(t)'
    BY <1>1, <1>7, <2>1, ClusterCountAssumption
    DEF ReloadHint, TypeOK, Goto, PointTyped, AllocSection, FlushPoint, FreePoint, None, Cluster
  <2> QED BY <1>1, <1>2, <2>2, <2>3, MoveTyped, StaysCalm
<1>8. CASE ScanWrap(t)
  <2>1. TypeOK' /\ Others(t)
    BY <1>1, <1>8
    DEF ScanWrap, TypeOK, Goto, Point, Result, Others, disk, memory, mishap, locals
  <2>2. PointTyped(t)'
    BY <1>1, <1>8
    DEF ScanWrap, TypeOK, Goto, PointTyped, AllocSection, FlushPoint, FreePoint, locals
  <2> QED BY <1>1, <1>2, <2>1, <2>2, MoveTyped, StaysCalm
<1>9. CASE ScanNext(t)
  <2>1. Succ(number[t]) \in Cluster
    BY <1>1, <1>9, SuccTyped DEF ScanNext, TypeOK, PointTyped
  <2>2. TypeOK' /\ Others(t)
    BY <1>1, <1>9, <2>1
    DEF ScanNext, Found, TypeOK, Goto, Point, Result, AllocSection, Others, disk, memory, mishap
  <2>3. PointTyped(t)'
    BY <1>1, <1>9, <2>1, ClusterCountAssumption
    DEF ScanNext, Found, TypeOK, Goto, PointTyped, AllocSection, FlushPoint, FreePoint, None, Cluster
  <2> QED BY <1>1, <1>2, <2>2, <2>3, MoveTyped, StaysCalm
<1>10. CASE AssertFree(t) \/ AssertLast(t)
  <2>1. TypeOK' /\ Others(t)
    BY <1>1, <1>10
    DEF AssertFree, AssertLast, TypeOK, Goto, Point, AllocSection, Others, disk, memory, mishap, locals
  <2>2. PointTyped(t)'
    BY <1>1, <1>10
    DEF AssertFree, AssertLast, TypeOK, Goto, PointTyped, AllocSection, FlushPoint, FreePoint, locals
  <2> QED BY <1>1, <1>2, <2>1, <2>2, MoveTyped, StaysCalm
<1>11. CASE StoreHint(t) \/ SubFree(t)
  <2>1. free_cluster' \in Word /\ last_cluster' \in Cluster \union {Unset}
    BY <1>1, <1>11, ConstantsAssumption, ClusterCountAssumption
    DEF StoreHint, SubFree, TypeOK, PointTyped, Decrement, Word
  <2>2. TypeOK' /\ Others(t)
    BY <1>1, <1>11, <2>1
    DEF StoreHint, SubFree, FlushStart, TypeOK, Goto, Point, Result, AllocSection, FlushPoint, Others,
        disk, mishap, locals
  <2>3. PointTyped(t)'
    BY <1>1, <1>11
    DEF StoreHint, SubFree, FlushStart, TypeOK, Goto, PointTyped, AllocSection, FlushPoint, FreePoint,
        locals
  <2> QED BY <1>1, <1>2, <2>2, <2>3, MoveTyped, StaysCalm
<1> QED BY <1>3, <1>4, <1>5, <1>6, <1>7, <1>8, <1>9, <1>10, <1>11 DEF AllocStep

LEMMA FreeTyped ==
    ASSUME TypeInv, NEW t \in Thread, ReadCurrent(t) \/ SwapHint(t) \/ AddFree(t)
    PROVE  TypeInv'
<1>1. TypeOK /\ Calm /\ PointTyped(t)
  BY DEF TypeInv
<1>2. UNCHANGED mishap
  BY DEF ReadCurrent, SwapHint, AddFree, locals
<1>3. number[t] \in Cluster
  BY <1>1 DEF PointTyped, ReadCurrent, SwapHint, AddFree, FreePoint
<1>4. CASE ReadCurrent(t)
  <2>1. Get(number[t]) \in FatValue
    BY <1>1, <1>3, GetTyped
  <2>2. TypeOK' /\ Others(t)
    BY <1>1, <1>4, <2>1
    DEF ReadCurrent, FlushStart, TypeOK, Goto, Point, Result, FlushPoint, FreePoint, Others, disk, memory,
        mishap
  <2>3. PointTyped(t)'
    BY <1>1, <1>3, <1>4
    DEF ReadCurrent, FlushStart, TypeOK, Goto, PointTyped, AllocSection, FlushPoint, FreePoint
  <2> QED BY <1>1, <1>2, <2>2, <2>3, MoveTyped, StaysCalm
<1>5. CASE SwapHint(t)
  <2>1. TypeOK' /\ Others(t)
    BY <1>1, <1>3, <1>5
    DEF SwapHint, TypeOK, Goto, Point, FreePoint, Others, disk, mishap, locals
  <2>2. PointTyped(t)'
    BY <1>1, <1>3, <1>5
    DEF SwapHint, TypeOK, Goto, PointTyped, AllocSection, FlushPoint, FreePoint, locals
  <2> QED BY <1>1, <1>2, <2>1, <2>2, MoveTyped, StaysCalm
<1>6. CASE AddFree(t)
  <2>1. free_cluster' \in Word
    BY <1>1, <1>6, ConstantsAssumption DEF AddFree, TypeOK, Increment, Word
  <2>2. IsData(value[t]) => value[t] \in Cluster
    BY DEF IsData
  <2>3. TypeOK' /\ Others(t)
    BY <1>1, <1>6, <2>1, <2>2
    DEF AddFree, FlushStart, TypeOK, Goto, Point, Result, FlushPoint, FreePoint, Others, disk, mishap
  <2>4. PointTyped(t)'
    BY <1>1, <1>3, <1>6, <2>2
    DEF AddFree, FlushStart, TypeOK, Goto, PointTyped, AllocSection, FlushPoint, FreePoint
  <2> QED BY <1>1, <1>2, <2>3, <2>4, MoveTyped, StaysCalm
<1> QED BY <1>4, <1>5, <1>6

LEMMA WalkTyped ==
    ASSUME TypeInv, NEW t \in Thread, WalkOn(t) \/ WalkEndExtend(t) \/ WalkEndTrim(t)
    PROVE  TypeInv'
<1>1. TypeOK /\ Calm /\ PointTyped(t)
  BY DEF TypeInv
<1>2. UNCHANGED mishap
  BY DEF WalkOn, WalkEndExtend, WalkEndTrim, locals
<1>3. number[t] \in Cluster /\ (IsData(Get(number[t])) => Get(number[t]) \in Cluster)
  BY <1>1 DEF PointTyped, WalkOn, WalkEndExtend, WalkEndTrim, IsData
<1>4. TypeOK' /\ Others(t)
  <2>1. CASE WalkOn(t)
    BY <1>1, <1>3, <2>1 DEF WalkOn, TypeOK, Goto, Point, Others, disk, memory, mishap
  <2>2. CASE WalkEndExtend(t)
    BY <1>1, <1>3, <2>2 DEF WalkEndExtend, TypeOK, Goto, Point, Others, disk, memory, mishap
  <2>3. CASE WalkEndTrim(t)
    BY <1>1, <1>3, <2>3 DEF WalkEndTrim, TypeOK, Goto, Point, FreePoint, Others, disk, memory, mishap, locals
  <2> QED BY <2>1, <2>2, <2>3
<1>5. PointTyped(t)'
  BY <1>1, <1>3 DEF WalkOn, WalkEndExtend, WalkEndTrim, TypeOK, Goto, PointTyped, AllocSection, FlushPoint,
     FreePoint, locals
<1> QED BY <1>1, <1>2, <1>4, <1>5, MoveTyped, StaysCalm

LEMMA EndTyped ==
    ASSUME TypeInv, NEW t \in Thread, FlushHint(t) \/ FlushFree(t) \/ FlushWrite(t) \/ Return(t)
    PROVE  TypeInv'
<1>1. TypeOK /\ Calm /\ PointTyped(t)
  BY DEF TypeInv
<1>2. UNCHANGED mishap
  BY DEF FlushHint, FlushFree, FlushWrite, Return, locals
<1>3. CASE FlushHint(t) \/ FlushFree(t)
  <2>1. TypeOK' /\ Others(t)
    <3>1. /\ UNCHANGED <<disk, memory, heads, op, chain, prev, start, number, value, fat_index, mishap>>
          /\ pc' \in [Thread -> Point] /\ \A u \in Thread \ {t} : pc'[u] = pc[u]
      BY <1>1, <1>3 DEF FlushHint, FlushFree, TypeOK, Goto, Point, FlushPoint
    <3>2. snap' \in [Thread -> [last : Cluster \union {Unset}, free : Word]]
      <4>1. CASE FlushHint(t)
        BY <1>1, <4>1 DEF FlushHint, TypeOK
      <4>2. CASE FlushFree(t)
        BY <1>1, <4>2 DEF FlushFree, TypeOK
      <4> QED BY <1>3, <4>1, <4>2
    <3> QED BY <1>1, <3>1, <3>2 DEF TypeOK, Others, disk, memory, mishap
  <2>2. PointTyped(t)'
    BY <1>1, <1>3 DEF FlushHint, FlushFree, TypeOK, Goto, PointTyped, AllocSection, FlushPoint, FreePoint
  <2> QED BY <1>1, <1>2, <2>1, <2>2, MoveTyped, StaysCalm
<1>4. CASE FlushWrite(t)
  <2>1. TypeOK' /\ Others(t)
    BY <1>1, <1>4 DEF FlushWrite, TypeOK, Goto, Point, Result, Others, memory, mishap, locals
  <2>2. PointTyped(t)'
    BY <1>1, <1>4 DEF FlushWrite, TypeOK, Goto, PointTyped, AllocSection, FlushPoint, FreePoint, locals
  <2> QED BY <1>1, <1>2, <2>1, <2>2, MoveTyped, StaysCalm
<1>5. CASE Return(t)
  <2>1. heads' \in SUBSET Cluster
    BY <1>1, <1>5 DEF Return, TypeOK, PointTyped
  <2>2. 0 \in 0..(FatCount - 1) /\ NoSnap \in [last : Cluster \union {Unset}, free : Word]
    BY ConstantsAssumption, ClusterCountAssumption DEF NoSnap, Word, Unset
  <2>3. TypeOK' /\ Others(t)
    BY <1>1, <1>5, <2>1, <2>2
    DEF Return, TypeOK, Goto, Point, FatValue, Others, disk, memory, mishap
  <2>4. PointTyped(t)'
    BY <1>1, <1>5 DEF Return, TypeOK, Goto, PointTyped, AllocSection, FlushPoint, FreePoint, Idle
  <2> QED BY <1>1, <1>2, <2>3, <2>4, MoveTyped, StaysCalm
<1> QED BY <1>3, <1>4, <1>5

LEMMA OneCallTyped ==
    ASSUME TypeInv, NEW t \in Thread, NEW name \in Calls, NEW h \in Cluster \union {None},
           NEW p \in {"loadHint", "walk", "readCurrent"},
           Call(t, name, h, p), heads' \subseteq heads,
           p = "loadHint" <=> name = "alloc", name # "alloc" => h \in Cluster,
           stale' = stale, faults' = faults, crashes' = crashes,
           torn' = torn \/ (torn' = TRUE /\ stale # {})
    PROVE  TypeInv'
<1>1. TypeOK /\ Calm /\ PointTyped(t)
  BY DEF TypeInv
<1>2. TypeOK' /\ Others(t)
  BY <1>1 DEF Call, TypeOK, Goto, Point, FreePoint, Calls, Others, disk, memory
<1>3. PointTyped(t)'
  BY <1>1 DEF Call, TypeOK, Goto, PointTyped, AllocSection, FlushPoint, FreePoint, Calls
<1>4. Calm'
  BY <1>1 DEF Calm, Undisturbed
<1> QED BY <1>2, <1>3, <1>4, MoveTyped

LEMMA CallTyped == ASSUME TypeInv, NEW t \in Thread, CallAny(t) PROVE TypeInv'
<1>1. heads \subseteq Cluster /\ stale \subseteq Cluster
  BY DEF TypeInv, TypeOK
<1>2. CASE CallAlloc(t)
  <2>1. Call(t, "alloc", None, "loadHint") /\ heads' = heads /\ UNCHANGED <<stale, torn, faults, crashes>>
    BY <1>2 DEF CallAlloc, mishap
  <2>2. "alloc" \in Calls /\ None \in Cluster \union {None}
    BY DEF Calls
  <2> QED BY <2>1, <2>2, OneCallTyped
<1>3. ASSUME NEW h \in heads, CallExtend(t, h) \/ CallTrim(t, h) \/ CallFree(t, h) PROVE TypeInv'
  <2>1. heads' \subseteq heads /\ UNCHANGED <<stale, torn, faults, crashes>>
    BY <1>3 DEF CallExtend, CallTrim, CallFree, mishap
  <2>2. h \in Cluster /\ {"extend", "trim", "free"} \subseteq Calls
    BY <1>1 DEF Calls
  <2>3. CASE Call(t, "extend", h, "walk")
    BY <2>1, <2>2, <2>3, OneCallTyped
  <2>4. CASE Call(t, "trim", h, "walk")
    BY <2>1, <2>2, <2>4, OneCallTyped
  <2>5. CASE Call(t, "free", h, "readCurrent")
    BY <2>1, <2>2, <2>5, OneCallTyped
  <2> QED BY <1>3, <2>3, <2>4, <2>5 DEF CallExtend, CallTrim, CallFree
<1>4. ASSUME NEW h \in stale, CallStale(t, h) PROVE TypeInv'
  <2>1. heads' = heads /\ UNCHANGED <<stale, faults, crashes>> /\ torn' = TRUE /\ stale # {}
    BY <1>4 DEF CallStale
  <2>2. h \in Cluster /\ {"extend", "trim", "free"} \subseteq Calls
    BY <1>1 DEF Calls
  <2>3. CASE Call(t, "extend", h, "walk")
    BY <2>1, <2>2, <2>3, OneCallTyped
  <2>4. CASE Call(t, "trim", h, "walk")
    BY <2>1, <2>2, <2>4, OneCallTyped
  <2>5. CASE Call(t, "free", h, "readCurrent")
    BY <2>1, <2>2, <2>5, OneCallTyped
  <2> QED BY <1>4, <2>3, <2>4, <2>5 DEF CallStale
<1> QED BY <1>2, <1>3, <1>4 DEF CallAny

LEMMA ErrorTyped == ASSUME TypeInv, NEW t \in Thread, IoError(t) PROVE TypeInv'
<1>1. TypeOK /\ Calm /\ PointTyped(t)
  BY DEF TypeInv
<1>2. stale' \subseteq Cluster
  BY <1>1 DEF IoError, Emptying, TypeOK, PointTyped
<1>3. faults' \in 0..MaxFaults /\ faults' # 0
  BY <1>1, ConstantsAssumption DEF IoError, TypeOK
<1>4. TypeOK' /\ Others(t)
  BY <1>1, <1>2, <1>3 DEF IoError, TypeOK, Goto, Point, Result, Others, disk, memory, locals
<1>5. PointTyped(t)'
  BY <1>1 DEF IoError, TypeOK, Goto, PointTyped, AllocSection, FlushPoint, FreePoint, locals
<1>6. Calm'
  BY <1>3 DEF Calm, Undisturbed
<1> QED BY <1>4, <1>5, <1>6, MoveTyped

LEMMA CrashTyped == ASSUME TypeInv, CrashAndMount PROVE TypeInv'
<1>1. TypeOK /\ \A t \in Thread : PointTyped(t)
  BY DEF TypeInv
<1>2. stale' \subseteq Cluster
  BY <1>1 DEF CrashAndMount, Emptying, TypeOK, PointTyped
<1>3. MountedFree \in Word /\ MountedHint \in Cluster \union {Unset}
  <2>1. Cardinality(FreeClusters(fat[0])) \in 0..(ClusterCount - 2)
    BY <1>1, ConstantsAssumption, FreeCountTyped DEF TypeOK
  <2> QED
    BY <1>1, <2>1, ConstantsAssumption, ClusterCountAssumption
    DEF MountedFree, MountedHint, TypeOK, Word
<1>4. crashes' \in 0..MaxCrashes /\ crashes' # 0
  BY <1>1, ConstantsAssumption DEF CrashAndMount, TypeOK
<1>5. 0 \in 0..(FatCount - 1) /\ NoSnap \in [last : Cluster \union {Unset}, free : Word]
  BY ConstantsAssumption, ClusterCountAssumption DEF NoSnap, Word, Unset
<1>6. TypeOK'
  BY <1>1, <1>2, <1>3, <1>4, <1>5 DEF CrashAndMount, TypeOK, Point, FatValue, disk
<1>7. \A t \in Thread : PointTyped(t)'
  BY DEF CrashAndMount, PointTyped, AllocSection, FlushPoint, FreePoint, Idle
<1> QED BY <1>4, <1>6, <1>7 DEF TypeInv, Calm, Undisturbed

\* The types are kept by every step, whatever the callers exclude.
LEMMA TypeStep == TypeInv /\ [Next]_vars => TypeInv'
<1> SUFFICES ASSUME TypeInv, [Next]_vars PROVE TypeInv'
  OBVIOUS
<1>1. ASSUME NEW t \in Thread, Step(t) PROVE TypeInv'
  BY <1>1, WalkTyped, AllocTyped, PutTyped, FreeTyped, EndTyped DEF Step, AllocStep, FreeStep
<1>2. CASE UNCHANGED vars
  BY <1>2 DEF TypeInv, TypeOK, Calm, Undisturbed, PointTyped, vars, disk, memory, locals, mishap
<1> QED BY <1>1, <1>2, CallTyped, ErrorTyped, CrashTyped DEF Next

-----------------------------------------------------------------------------
(* The theorems *)

\* The volume init starts from has only the root directory.
LEMMA InitEstablishes == Init => IInv
<1> SUFFICES ASSUME Init PROVE IInv
  OBVIOUS
<1>1. RootHeads \subseteq Cluster /\ 0 \in 0..(FatCount - 1)
  BY ConstantsAssumption, ClusterCountAssumption DEF RootHeads, Cluster
<1>2. FreshTable \in Table /\ fat[0] = FreshTable
  BY <1>1 DEF Init, FreshTable, Table, FatValue
<1>3. TypeOK
  <2>1. Cardinality(FreeClusters(FreshTable)) \in Word
    BY <1>2, FreeCountTyped, ConstantsAssumption, ClusterCountAssumption DEF Word
  <2>2. NoSnap \in [last : Cluster \union {Unset}, free : Word]
    BY ConstantsAssumption, ClusterCountAssumption DEF NoSnap, Word, Unset
  <2>3. fat \in [0..(FatCount - 1) -> Table] /\ faults \in 0..MaxFaults /\ crashes \in 0..MaxCrashes
    BY <1>2, ConstantsAssumption DEF Init
  <2> QED
    BY <1>1, <2>1, <2>2, <2>3 DEF Init, TypeOK, Point, FatValue
<1>4. Formed
  BY <1>1, <1>2, MarksAreNotClusters, ConstantsAssumption
  DEF Init, Formed, WellFormed, LinksInUse, LinksInjective, HeadsInUse, HeadsUnlinked,
      FreshTable, InChain, IsData, Linked, RootHeads
<1>5. \A t \in Thread : Held(t) = {} /\ ~InCall(t) /\ ~Allocating(t) /\ CallOK(t)
  BY DEF Init, Held, Holds, HoldsRest, InCall, Allocating, AllocSection, CallOK, IdleOK, IndexOK,
         WalkOK, ExtendOK, TakeOK, KeepOK, FreeOK, PutPoint, FlushPoint, FreePoint, Idle
<1>6. OneCall /\ OneAllocation /\ OwnChains /\ HeldApart /\ \A t \in Thread : HeldOK(t)
  BY <1>5 DEF Init, OneCall, OneAllocation, OwnChains, HeldApart, HeldOK
<1> QED BY <1>3, <1>4, <1>5, <1>6 DEF IInv

\* A step that changes nothing keeps the invariant.
LEMMA StutterKeeps == ASSUME IInv, UNCHANGED vars PROVE IInv'
<1>1. /\ fat' = fat /\ heads' = heads /\ pc' = pc /\ op' = op /\ chain' = chain /\ prev' = prev
      /\ start' = start /\ number' = number /\ value' = value /\ fat_index' = fat_index
  BY DEF vars, disk, locals
<1>2. TypeOK' /\ Formed'
  BY <1>1 DEF IInv, TypeOK, Formed, vars, disk, memory, locals, mishap
<1>3. OneCall' = OneCall /\ OneAllocation' = OneAllocation /\ OwnChains' = OwnChains
  BY <1>1 DEF OneCall, OneAllocation, OwnChains, InCall, Allocating
<1>4. \A t \in Thread : CallOK(t)'
  BY <1>1 DEF IInv, CallOK, IdleOK, IndexOK, WalkOK, ExtendOK, TakeOK, KeepOK, FreeOK, Holds,
     OnChain, Last, Get
<1>5. \A t \in Thread : Held(t)' = Held(t)
  BY <1>1 DEF Held, Holds, HoldsRest
<1>6. HeldApart' /\ \A t \in Thread : HeldOK(t)'
  BY <1>1, <1>5 DEF IInv, HeldApart, HeldOK, Loose
<1> QED BY <1>2, <1>3, <1>4, <1>6 DEF IInv

\* The invariant is inductive, as long as no call goes by a stale entry, when the
\* calls or the allocations exclude each other.
LEMMA StepKeeps == Excluded /\ TypeOK' /\ ~torn' /\ IInv /\ [Next]_vars => IInv'
<1> SUFFICES ASSUME Excluded, TypeOK', ~torn', IInv, [Next]_vars PROVE IInv'
  OBVIOUS
<1>1. ASSUME NEW t \in Thread, AllocStep(t) PROVE IInv'
  BY <1>1, LoadHintKeeps, ReadLastGrownKeeps, ReadLastEndKeeps, CheckFreeKeeps, TryNextKeeps,
     ReloadHintKeeps, ScanWrapKeeps, ScanNextKeeps, AssertFreeKeeps, PutEndOfChainKeeps,
     AssertLastKeeps, PutLinkKeeps, StoreHintKeeps, SubFreeKeeps DEF AllocStep
<1>2. ASSUME NEW t \in Thread, FreeStep(t) PROVE IInv'
  BY <1>2, UnlinkPreviousKeeps, ReadCurrentKeeps, PutFreeKeeps, SwapHintKeeps, AddFreeKeeps
  DEF FreeStep
<1>3. ASSUME NEW t \in Thread, Step(t) PROVE IInv'
  BY <1>1, <1>2, <1>3, WalkOnKeeps, WalkEndExtendKeeps, WalkEndTrimKeeps, FlushHintKeeps,
     FlushFreeKeeps, FlushWriteKeeps, ReturnKeeps DEF Step
<1> QED BY <1>3, CallAnyKeeps, IoErrorKeeps, CrashKeeps, StutterKeeps DEF Next

\* A call that has gone by a stale entry is not forgotten.
LEMMA TornStays == ASSUME TypeOK, [Next]_vars PROVE torn => torn'
<1>1. ASSUME NEW t \in Thread, AllocStep(t) \/ FreeStep(t) PROVE torn' = torn
  BY <1>1 DEF AllocStep, LoadHint, ReadLastGrown, ReadLastEnd, CheckFree, TryNext, ReloadHint,
     ScanWrap, ScanNext, AssertFree, PutEndOfChain, AssertLast, PutLink, StoreHint, SubFree,
     FreeStep, UnlinkPrevious, ReadCurrent, PutFree, SwapHint, AddFree, RawPut, mishap
<1>2. ASSUME NEW t \in Thread, Step(t) PROVE torn' = torn
  BY <1>1, <1>2 DEF Step, WalkOn, WalkEndExtend, WalkEndTrim, FlushHint, FlushFree, FlushWrite,
     Return, mishap
<1>3. ASSUME NEW t \in Thread, CallAny(t) PROVE torn => torn'
  BY <1>3 DEF CallAny, CallAlloc, CallExtend, CallTrim, CallFree, CallStale, mishap
<1>4. ASSUME NEW t \in Thread, IoError(t) PROVE torn' = torn
  BY <1>4 DEF IoError
<1>5. CASE CrashAndMount
  BY <1>5 DEF CrashAndMount
<1>6. CASE UNCHANGED vars
  BY <1>6 DEF vars, mishap
<1> QED BY <1>2, <1>3, <1>4, <1>5, <1>6 DEF Next

\* The invariant of the runs: the types always, the rest until a call goes by a stale
\* entry.
SafeInv == TypeInv /\ (torn \/ IInv)

LEMMA SafeInit == Init => SafeInv
<1> SUFFICES ASSUME Init PROVE SafeInv
  OBVIOUS
<1>1. IInv /\ TypeOK
  BY InitEstablishes DEF IInv
<1>2. Calm /\ \A t \in Thread : PointTyped(t)
  BY DEF Init, Calm, PointTyped, AllocSection, FlushPoint, FreePoint, Idle
<1> QED BY <1>1, <1>2 DEF SafeInv, TypeInv

LEMMA SafeStep == Excluded /\ SafeInv /\ [Next]_vars => SafeInv'
  BY TypeStep, StepKeeps, TornStays DEF SafeInv, TypeInv

LEMMA AlwaysSafe == Excluded => (Spec => []SafeInv)
<1> SUFFICES ASSUME Excluded PROVE Spec => []SafeInv
  OBVIOUS
<1>1. SafeInv /\ [Next]_vars => SafeInv'
  BY SafeStep
<1> QED BY <1>1, SafeInit, PTL DEF Spec

\* Type correctness, for every volume, number of tables and set of threads, whatever
\* the callers exclude and whatever they do about a shortening that stopped.
THEOREM Typed == Spec => []TypeOK
<1>1. TypeInv /\ [Next]_vars => TypeInv'
  BY TypeStep
<1>2. TypeInv => TypeOK
  BY DEF TypeInv
<1>3. Init => TypeInv
  BY SafeInit DEF SafeInv
<1> QED BY <1>1, <1>2, <1>3, PTL DEF Spec

\* The order in which alloc_cluster and free_cluster write the table keeps the
\* chains of the files and directories disjoint and allocated between any two device
\* accesses, also when the calls of several threads interleave there and only the
\* allocations exclude each other, whichever accesses fail and whenever the system
\* crashes, until a call goes by the entry of a file that a stopped set_len was
\* emptying: the entry keeps a start cluster that is no longer the file's.
THEOREM AlwaysWellFormed == Excluded => (Spec => []ChainsWellFormed)
<1>1. SafeInv => ChainsWellFormed
  BY DEF SafeInv, IInv, ChainsWellFormed, Formed
<1> QED BY <1>1, AlwaysSafe, PTL

\* Neither debug_assert! of alloc_cluster fires, whatever other threads walk,
\* shorten and free meanwhile, until a call goes by a stale entry.
THEOREM NeverPanics == Excluded => (Spec => []NoPanic)
<1>1. SafeInv => NoPanic
  BY DEF SafeInv, IInv, NoPanic, CallOK
<1> QED BY <1>1, AlwaysSafe, PTL

(***************************************************************************)
(* The books the allocator keeps beside the table - the count of free      *)
(* clusters, the FS information block, the other copies of the table - and *)
(* what a search that found nothing knows, for every volume.  The count,   *)
(* and the last section, which shows that ClusterAlloc implements          *)
(* ClusterPool, allow for calls that interleave as long as the allocations *)
(* exclude each other (Excluded); the rest is true only when the calls do  *)
(* (Serial).                                                               *)
(***************************************************************************)
FreeNow == Cardinality(FreeClusters(fat[0]))

\* A cluster is taken in the table and not yet subtracted from the count.
Taken(t) == \/ pc[t] = "putEndOfChain" /\ fat_index[t] # 0
            \/ pc[t] \in {"assertLast", "putLink", "storeHint", "subFree"}

\* A cluster is free in the table and not yet added to the count.
Freed(t) == \/ pc[t] = "putFree" /\ fat_index[t] # 0
            \/ pc[t] \in {"swapHint", "addFree"}

FreedBy    == {t \in Thread : Freed(t)}
TakenCount == IF \E t \in Thread : Taken(t) THEN 1 ELSE 0

\* The count differs from the table by what the running calls still owe it, and an
\* allocation that has found it above zero keeps it there.
CountOK == /\ IsFiniteSet(FreedBy)
           /\ free_cluster + Cardinality(FreedBy) = FreeNow + TakenCount
           /\ \A t \in Thread : pc[t] \in AllocSection \ {"checkFree"} => free_cluster > 0

Counted == Undisturbed => CountOK

\* The call may have changed the hint or the count since the last flush.
Unflushed(t) == pc[t] \in {"subFree"} \union FreePoint \union FlushPoint

InMemory == [last |-> last_cluster, free |-> free_cluster]

InfoOK == HasFsInfo =>
    /\ (\A t \in Thread : ~Unflushed(t)) => info = InMemory
    /\ \A t \in Thread : pc[t] = "flushFree" => snap[t].last = last_cluster
    /\ \A t \in Thread : pc[t] = "flushWrite" => snap[t] = InMemory

\* The entry that a put writes, and what it writes there.
PutTarget(t) == IF pc[t] \in {"putEndOfChain", "putFree"} THEN number[t] ELSE prev[t]
PutValue(t)  == CASE pc[t] = "putLink" -> number[t]
                  [] pc[t] = "putFree" -> Free
                  [] OTHER -> EndOfChain

\* Once the first copy is written, the put repeats in the others what is there.
PutOK(t) == pc[t] \in PutPoint /\ fat_index[t] # 0 => Get(PutTarget(t)) = PutValue(t)

\* A copy differs from the first one at most where a put has not got to it yet.
Lags(i, c) == \E t \in Thread : /\ pc[t] \in PutPoint
                                /\ 0 < fat_index[t] /\ fat_index[t] <= i
                                /\ c = PutTarget(t)

MirrorOK == \A i \in 0..(FatCount - 1), c \in Cluster : fat[i][c] = fat[0][c] \/ Lags(i, c)

\* What a search that started behind s and has got to n has looked at.
Passed(s, n, c) == IF s <= n THEN s < c /\ c <= n ELSE s < c \/ c <= n

ScanOK(t) == pc[t] = "scan" =>
    \A c \in Cluster : Passed(start[t], number[t], c) => Get(c) # Free

Books == /\ \A t \in Thread : PutOK(t) /\ ScanOK(t)
         /\ Undisturbed => InfoOK /\ MirrorOK /\ NoSpaceLeftMeansFull

-----------------------------------------------------------------------------
(* One thread moves at a time.                                               *)

\* A step of t leaves the others where they are.
LEMMA OneMoves ==
    ASSUME TypeOK, NEW t \in Thread, CallAny(t) \/ Step(t) \/ IoError(t)
    PROVE  \A u \in Thread \ {t} : pc'[u] = pc[u] /\ fat_index'[u] = fat_index[u]
<1>1. CASE CallAny(t)
  BY <1>1 DEF CallAny, CallAlloc, CallExtend, CallTrim, CallFree, CallStale, Call, Goto, TypeOK
<1>2. CASE Step(t)
  <2>1. CASE AllocStep(t)
    BY <2>1 DEF AllocStep, LoadHint, ReadLastGrown, ReadLastEnd, CheckFree, TryNext, ReloadHint,
       ScanWrap, ScanNext, AssertFree, PutEndOfChain, AssertLast, PutLink, StoreHint, SubFree,
       RawPut, Goto, TypeOK, locals
  <2>2. CASE FreeStep(t)
    BY <2>2 DEF FreeStep, UnlinkPrevious, ReadCurrent, PutFree, SwapHint, AddFree, RawPut, Goto,
       TypeOK, locals
  <2>3. CASE WalkOn(t) \/ WalkEndExtend(t) \/ WalkEndTrim(t)
    BY <2>3 DEF WalkOn, WalkEndExtend, WalkEndTrim, Goto, TypeOK, locals
  <2>4. CASE FlushHint(t) \/ FlushFree(t) \/ FlushWrite(t) \/ Return(t)
    BY <2>4 DEF FlushHint, FlushFree, FlushWrite, Return, Goto, TypeOK, locals
  <2> QED BY <1>2, <2>1, <2>2, <2>3, <2>4 DEF Step
<1>3. CASE IoError(t)
  BY <1>3 DEF IoError, Goto, TypeOK, locals
<1> QED BY <1>1, <1>2, <1>3

\* With the calls excluding each other, the others are in no call before and after.
LEMMA OthersIdle ==
    ASSUME Serial, IInv, NEW t \in Thread, CallAny(t) \/ Step(t) \/ IoError(t)
    PROVE  \A u \in Thread \ {t} : pc[u] = Idle /\ pc'[u] = Idle
<1>1. \A u \in Thread \ {t} : pc'[u] = pc[u]
  BY OneMoves DEF IInv
<1>2. CASE CallAny(t)
  BY <1>1, <1>2 DEF CallAny, CallAlloc, CallExtend, CallTrim, CallFree, CallStale, Call, MayCall, Serial, InCall
<1>3. CASE Step(t) \/ IoError(t)
  <2>1. InCall(t)
    BY <1>3 DEF Step, AllocStep, LoadHint, ReadLastGrown, ReadLastEnd, CheckFree, TryNext, ReloadHint,
       ScanWrap, ScanNext, AssertFree, PutEndOfChain, AssertLast, PutLink, StoreHint, SubFree,
       FreeStep, UnlinkPrevious, ReadCurrent, PutFree, SwapHint, AddFree,
       WalkOn, WalkEndExtend, WalkEndTrim, FlushHint, FlushFree, FlushWrite, Return, IoError,
       EntryWrite, InCall, Idle, Result, DevicePoint
  <2> QED BY <1>1, <2>1 DEF IInv, OneCall, InCall
<1> QED BY <1>2, <1>3

\* The steps that write to the table.
PutStep(t) == PutEndOfChain(t) \/ PutLink(t) \/ UnlinkPrevious(t) \/ PutFree(t)

\* All others leave every copy of it alone.
LEMMA OnlyPutsWrite ==
    ASSUME NEW t \in Thread, CallAny(t) \/ Step(t) \/ IoError(t), ~PutStep(t)
    PROVE  fat' = fat
<1>1. CASE CallAny(t)
  BY <1>1 DEF CallAny, CallAlloc, CallExtend, CallTrim, CallFree, CallStale, Call, disk
<1>2. CASE Step(t)
  <2>1. CASE AllocStep(t)
    BY <2>1 DEF AllocStep, PutStep, LoadHint, ReadLastGrown, ReadLastEnd, CheckFree, TryNext,
       ReloadHint, ScanWrap, ScanNext, AssertFree, AssertLast, StoreHint, SubFree, disk
  <2>2. CASE FreeStep(t)
    BY <2>2 DEF FreeStep, PutStep, ReadCurrent, SwapHint, AddFree, disk
  <2>3. CASE WalkOn(t) \/ WalkEndExtend(t) \/ WalkEndTrim(t)
    BY <2>3 DEF WalkOn, WalkEndExtend, WalkEndTrim, disk
  <2>4. CASE FlushHint(t) \/ FlushFree(t) \/ FlushWrite(t) \/ Return(t)
    BY <2>4 DEF FlushHint, FlushFree, FlushWrite, Return, disk
  <2> QED BY <1>2, <2>1, <2>2, <2>3, <2>4 DEF Step
<1>3. CASE IoError(t)
  BY <1>3 DEF IoError, disk
<1> QED BY <1>1, <1>2, <1>3

\* Where the call goes on when all copies are written.
AfterPuts(t) == CASE pc[t] = "putEndOfChain" -> AfterPut(t)
                  [] pc[t] = "putLink" -> "storeHint"
                  [] pc[t] = "unlink" -> "readCurrent"
                  [] pc[t] = "putFree" -> "swapHint"

\* What a put does: one round of its loop writes one copy.
LEMMA PutRound ==
    ASSUME IInv, NEW t \in Thread, PutStep(t)
    PROVE  /\ pc[t] \in PutPoint
           /\ PutTarget(t) \in Cluster /\ PutValue(t) \in FatValue
           /\ fat' = [fat EXCEPT ![fat_index[t]] = [@ EXCEPT ![PutTarget(t)] = PutValue(t)]]
           /\ fat_index[t] \in 0..(FatCount - 1)
           /\ \/ /\ fat_index[t] + 1 < FatCount
                 /\ fat_index'[t] = fat_index[t] + 1 /\ pc'[t] = pc[t]
              \/ /\ ~(fat_index[t] + 1 < FatCount)
                 /\ fat_index'[t] = 0 /\ pc'[t] = AfterPuts(t)
           /\ UNCHANGED <<info, last_cluster, free_cluster, heads, op, prev, number, start, snap,
                          value, faults, crashes>>
<1>1. CallOK(t) /\ TypeOK
  BY DEF IInv
<1>2. ASSUME NEW c, NEW v, NEW next, RawPut(t, c, v, next)
      PROVE  /\ fat' = [fat EXCEPT ![fat_index[t]] = [@ EXCEPT ![c] = v]]
             /\ fat_index[t] \in 0..(FatCount - 1)
             /\ \/ /\ fat_index[t] + 1 < FatCount
                   /\ fat_index'[t] = fat_index[t] + 1 /\ pc'[t] = pc[t]
                \/ /\ ~(fat_index[t] + 1 < FatCount)
                   /\ fat_index'[t] = 0 /\ pc'[t] = next
             /\ UNCHANGED <<info, last_cluster, free_cluster, heads, op, prev, number, start, snap,
                            value, faults, crashes>>
  BY <1>1, <1>2 DEF RawPut, Goto, TypeOK, memory, mishap
<1>3. CASE PutEndOfChain(t)
  <2>1. pc[t] = "putEndOfChain" /\ number[t] \in Cluster
    BY <1>1, <1>3 DEF PutEndOfChain, CallOK, TakeOK
  <2>2. PutTarget(t) = number[t] /\ PutValue(t) = EndOfChain /\ AfterPuts(t) = AfterPut(t)
    BY <2>1 DEF PutTarget, PutValue, AfterPuts
  <2>3. RawPut(t, PutTarget(t), PutValue(t), AfterPuts(t))
    BY <1>3, <2>2 DEF PutEndOfChain
  <2>4. PutTarget(t) \in Cluster /\ PutValue(t) \in FatValue /\ pc[t] \in PutPoint
    BY <2>1, <2>2 DEF PutPoint, FatValue
  <2> QED BY <1>2, <2>3, <2>4
<1>4. CASE PutLink(t)
  <2>1. pc[t] = "putLink" /\ number[t] \in Cluster /\ prev[t] \in Cluster
    BY <1>1, <1>4 DEF PutLink, CallOK, TakeOK
  <2>2. PutTarget(t) = prev[t] /\ PutValue(t) = number[t] /\ AfterPuts(t) = "storeHint"
    BY <2>1 DEF PutTarget, PutValue, AfterPuts
  <2>3. RawPut(t, PutTarget(t), PutValue(t), AfterPuts(t))
    BY <1>4, <2>2 DEF PutLink
  <2>4. PutTarget(t) \in Cluster /\ PutValue(t) \in FatValue /\ pc[t] \in PutPoint
    BY <2>1, <2>2 DEF PutPoint, FatValue
  <2> QED BY <1>2, <2>3, <2>4
<1>5. CASE UnlinkPrevious(t)
  <2>1. pc[t] = "unlink" /\ prev[t] \in Cluster
    BY <1>1, <1>5 DEF UnlinkPrevious, CallOK, FreeOK, FreePoint
  <2>2. PutTarget(t) = prev[t] /\ PutValue(t) = EndOfChain /\ AfterPuts(t) = "readCurrent"
    BY <2>1 DEF PutTarget, PutValue, AfterPuts
  <2>3. RawPut(t, PutTarget(t), PutValue(t), AfterPuts(t))
    BY <1>5, <2>2 DEF UnlinkPrevious
  <2>4. PutTarget(t) \in Cluster /\ PutValue(t) \in FatValue /\ pc[t] \in PutPoint
    BY <2>1, <2>2 DEF PutPoint, FatValue
  <2> QED BY <1>2, <2>3, <2>4
<1>6. CASE PutFree(t)
  <2>1. pc[t] = "putFree" /\ number[t] \in Cluster
    BY <1>1, <1>6 DEF PutFree, CallOK, FreeOK, FreePoint
  <2>2. PutTarget(t) = number[t] /\ PutValue(t) = Free /\ AfterPuts(t) = "swapHint"
    BY <2>1 DEF PutTarget, PutValue, AfterPuts
  <2>3. RawPut(t, PutTarget(t), PutValue(t), AfterPuts(t))
    BY <1>6, <2>2 DEF PutFree
  <2>4. PutTarget(t) \in Cluster /\ PutValue(t) \in FatValue /\ pc[t] \in PutPoint
    BY <2>1, <2>2 DEF PutPoint, FatValue
  <2> QED BY <1>2, <2>3, <2>4
<1> QED BY <1>3, <1>4, <1>5, <1>6 DEF PutStep

\* In its first round a put takes a free cluster, or replaces the entry of one that
\* is in use; which of them is what the count must follow.
LEMMA PutFirstValue ==
    ASSUME IInv, NEW t \in Thread, PutStep(t), fat_index[t] = 0
    PROVE  Get(PutTarget(t)) = Free <=> pc[t] = "putEndOfChain"
<1>1. CallOK(t)
  BY DEF IInv
<1>2. CASE PutEndOfChain(t)
  BY <1>1, <1>2 DEF PutEndOfChain, CallOK, TakeOK, PutTarget, Holds, FlushPoint
<1>3. CASE PutLink(t)
  BY <1>1, <1>3, MarksAreNotClusters DEF PutLink, CallOK, TakeOK, PutTarget, Last
<1>4. CASE UnlinkPrevious(t)
  BY <1>1, <1>4, MarksAreNotClusters DEF UnlinkPrevious, CallOK, FreeOK, FreePoint, PutTarget
<1>5. CASE PutFree(t)
  <2>1. pc[t] = "putFree" /\ number[t] \in Held(t)
    BY <1>5 DEF PutFree, Held, Holds
  <2> QED BY <2>1, HeldFacts DEF PutTarget
<1> QED BY <1>2, <1>3, <1>4, <1>5 DEF PutStep

\* A put begins with the first copy.
LEMMA EnterPut ==
    ASSUME IInv, NEW t \in Thread, CallAny(t) \/ Step(t) \/ IoError(t), ~PutStep(t),
           pc'[t] \in PutPoint
    PROVE  fat_index'[t] = 0 /\ pc[t] \notin PutPoint
<1>1. IndexOK(t) /\ TypeOK
  BY DEF IInv, CallOK
<1> SUFFICES pc[t] \notin PutPoint \union {"ioerr"} /\ fat_index'[t] = fat_index[t]
  BY <1>1 DEF IndexOK
<1>2. CASE CallAny(t)
  BY <1>1, <1>2 DEF CallAny, CallAlloc, CallExtend, CallTrim, CallFree, CallStale, Call, Goto, TypeOK, InCall,
     PutPoint, Idle
<1>3. CASE Step(t)
  <2>1. CASE AllocStep(t)
    BY <1>1, <2>1 DEF AllocStep, PutStep, LoadHint, ReadLastGrown, ReadLastEnd, CheckFree, TryNext,
       ReloadHint, ScanWrap, ScanNext, AssertFree, AssertLast, StoreHint, SubFree, Goto, TypeOK,
       PutPoint, locals
  <2>2. CASE FreeStep(t)
    BY <1>1, <2>2 DEF FreeStep, PutStep, ReadCurrent, SwapHint, AddFree, Goto, TypeOK, PutPoint, locals
  <2>3. CASE WalkOn(t) \/ WalkEndExtend(t) \/ WalkEndTrim(t)
    BY <1>1, <2>3 DEF WalkOn, WalkEndExtend, WalkEndTrim, Goto, TypeOK, PutPoint, locals
  <2>4. CASE FlushHint(t) \/ FlushFree(t) \/ FlushWrite(t) \/ Return(t)
    BY <1>1, <2>4 DEF FlushHint, FlushFree, FlushWrite, Return, Goto, TypeOK, PutPoint, locals, Idle
  <2> QED BY <1>3, <2>1, <2>2, <2>3, <2>4 DEF Step
<1>4. CASE IoError(t)
  BY <1>1, <1>4 DEF IoError, Goto, TypeOK, PutPoint
<1> QED BY <1>2, <1>3, <1>4

\* From inside a put a call only goes on with the put, or fails.
LEMMA AtPut ==
    ASSUME IInv, NEW t \in Thread, CallAny(t) \/ Step(t), pc[t] \in PutPoint
    PROVE  PutStep(t)
  BY DEF CallAny, CallAlloc, CallExtend, CallTrim, CallFree, CallStale, Call, InCall,
     Step, AllocStep, LoadHint, ReadLastGrown, ReadLastEnd, CheckFree, TryNext, ReloadHint,
     ScanWrap, ScanNext, AssertFree, AssertLast, StoreHint, SubFree, FreeStep, ReadCurrent, SwapHint,
     AddFree, WalkOn, WalkEndExtend, WalkEndTrim, FlushHint, FlushFree, FlushWrite, Return,
     PutStep, PutPoint, Idle, Result

\* As long as nothing has failed the step was not a failing access, and nothing had
\* failed before it.
LEMMA StillUndisturbed ==
    ASSUME IInv, NEW t \in Thread, CallAny(t) \/ Step(t) \/ IoError(t), Undisturbed'
    PROVE  Undisturbed /\ (CallAny(t) \/ Step(t))
<1>1. CASE CallAny(t)
  BY <1>1 DEF Undisturbed, CallAny, CallAlloc, CallExtend, CallTrim, CallFree, CallStale, Call, mishap
<1>2. CASE Step(t)
  <2>1. CASE AllocStep(t)
    BY <1>2, <2>1 DEF Undisturbed, AllocStep, LoadHint, ReadLastGrown, ReadLastEnd, CheckFree, TryNext,
       ReloadHint, ScanWrap, ScanNext, AssertFree, PutEndOfChain, AssertLast, PutLink, StoreHint,
       SubFree, RawPut, mishap
  <2>2. CASE FreeStep(t)
    BY <1>2, <2>2 DEF Undisturbed, FreeStep, UnlinkPrevious, ReadCurrent, PutFree, SwapHint, AddFree,
       RawPut, mishap
  <2>3. CASE WalkOn(t) \/ WalkEndExtend(t) \/ WalkEndTrim(t)
    BY <1>2, <2>3 DEF Undisturbed, WalkOn, WalkEndExtend, WalkEndTrim, mishap
  <2>4. CASE FlushHint(t) \/ FlushFree(t) \/ FlushWrite(t) \/ Return(t)
    BY <1>2, <2>4 DEF Undisturbed, FlushHint, FlushFree, FlushWrite, Return, mishap
  <2> QED BY <1>2, <2>1, <2>2, <2>3, <2>4 DEF Step
<1>3. CASE IoError(t)
  BY <1>3, ConstantsAssumption DEF IoError, Undisturbed, IInv, TypeOK
<1> QED BY <1>1, <1>2, <1>3

-----------------------------------------------------------------------------
(* The copies of the table.                                                  *)

LEMMA PutOKKeeps ==
    ASSUME Serial, IInv, Books, NEW t \in Thread, CallAny(t) \/ Step(t) \/ IoError(t)
    PROVE  \A u \in Thread : PutOK(u)'
<1>1. \A u \in Thread \ {t} : PutOK(u)'
  BY OthersIdle DEF PutOK, PutPoint, Idle
<1>2. CASE PutStep(t)
  <2>1. CASE fat_index'[t] = 0
    BY <1>1, <2>1 DEF PutOK
  <2>2. CASE fat_index'[t] # 0
    <3>1. pc'[t] = pc[t] /\ PutTarget(t)' = PutTarget(t) /\ PutValue(t)' = PutValue(t)
      BY <1>2, <2>2, PutRound DEF PutTarget, PutValue
    <3>2. fat'[0][PutTarget(t)] = PutValue(t)
      <4>1. PutTarget(t) \in Cluster /\ fat[0] \in [Cluster -> FatValue]
        BY <1>2, PutRound, ConstantsAssumption DEF IInv, TypeOK, Table
      <4>2. fat' = [fat EXCEPT ![fat_index[t]] = [@ EXCEPT ![PutTarget(t)] = PutValue(t)]]
        BY <1>2, PutRound
      <4>3. CASE fat_index[t] = 0
        BY <4>1, <4>2, <4>3, ConstantsAssumption DEF IInv, TypeOK
      <4>4. CASE fat_index[t] # 0
        <5>1. fat[0][PutTarget(t)] = PutValue(t)
          BY <1>2, <4>4, PutRound DEF Books, PutOK, Get
        <5>2. fat'[0] = fat[0]
          BY <4>2, <4>4, ConstantsAssumption DEF IInv, TypeOK
        <5> QED BY <5>1, <5>2
      <4> QED BY <4>3, <4>4
    <3> QED BY <1>1, <3>1, <3>2 DEF PutOK, Get
  <2> QED BY <2>1, <2>2
<1>3. CASE ~PutStep(t)
  <2>1. pc'[t] \in PutPoint => fat_index'[t] = 0
    BY <1>3, EnterPut
  <2> QED BY <1>1, <2>1 DEF PutOK
<1> QED BY <1>2, <1>3

\* A round of a put makes its copy agree and leaves those behind it to the rounds
\* that follow.
LEMMA MirrorKeeps ==
    ASSUME Serial, IInv, Books, NEW t \in Thread, CallAny(t) \/ Step(t) \/ IoError(t), Undisturbed'
    PROVE  MirrorOK'
<1>1. MirrorOK /\ (CallAny(t) \/ Step(t))
  BY StillUndisturbed DEF Books
<1>2. ASSUME NEW i \in 0..(FatCount - 1), NEW c \in Cluster
      PROVE  /\ Lags(i, c) <=> /\ pc[t] \in PutPoint /\ 0 < fat_index[t] /\ fat_index[t] <= i
                               /\ c = PutTarget(t)
             /\ Lags(i, c)' <=> /\ pc'[t] \in PutPoint /\ 0 < fat_index'[t] /\ fat_index'[t] <= i
                                /\ c = PutTarget(t)'
  BY OthersIdle DEF Lags, PutPoint, Idle
<1>3. CASE ~PutStep(t)
  <2>1. fat' = fat /\ pc[t] \notin PutPoint
    BY <1>1, <1>3, OnlyPutsWrite, AtPut
  <2>2. \A i \in 0..(FatCount - 1), c \in Cluster : ~Lags(i, c)
    BY <1>2, <2>1
  <2> QED BY <1>1, <2>1, <2>2 DEF MirrorOK
<1>4. CASE PutStep(t)
  <2> DEFINE j == fat_index[t]
             e == PutTarget(t)
             v == PutValue(t)
  <2>1. /\ pc[t] \in PutPoint /\ e \in Cluster /\ v \in FatValue /\ j \in 0..(FatCount - 1)
        /\ fat' = [fat EXCEPT ![j] = [@ EXCEPT ![e] = v]]
        /\ \/ j + 1 < FatCount /\ fat_index'[t] = j + 1 /\ pc'[t] = pc[t] /\ PutTarget(t)' = e
           \/ ~(j + 1 < FatCount) /\ fat_index'[t] = 0
    BY <1>4, PutRound DEF PutTarget
  <2>2. j # 0 => fat[0][e] = v
    BY <2>1 DEF Books, PutOK, Get
  <2>3. fat \in [0..(FatCount - 1) -> [Cluster -> FatValue]]
    BY DEF IInv, TypeOK, Table
  <2>4. ASSUME NEW i \in 0..(FatCount - 1), NEW c \in Cluster
        PROVE  fat'[i][c] = IF i = j /\ c = e THEN v ELSE fat[i][c]
    BY <2>1, <2>3
  <2>5. ASSUME NEW i \in 0..(FatCount - 1), NEW c \in Cluster
        PROVE  fat'[i][c] = fat'[0][c] \/ Lags(i, c)'
    <3>1. 0 \in 0..(FatCount - 1)
      BY ConstantsAssumption
    <3>2. fat[i][c] = fat[0][c] \/ Lags(i, c)
      BY <1>1 DEF MirrorOK
    <3> HIDE DEF j, e, v
    <3>3. CASE c # e
      BY <1>2, <2>4, <3>1, <3>2, <3>3 DEF e
    <3>4. CASE c = e /\ i <= j
      <4>1. CASE i = j
        BY <2>2, <2>4, <3>1, <3>4, <4>1, ConstantsAssumption
      <4>2. CASE i < j
        BY <1>2, <2>1, <2>4, <3>1, <3>2, <3>4, <4>2, ConstantsAssumption DEF j
      <4> QED BY <2>1, <3>4, <4>1, <4>2, ConstantsAssumption
    <3>5. CASE c = e /\ j < i
      <4>1. j + 1 < FatCount /\ j + 1 <= i
        BY <2>1, <3>5, ConstantsAssumption
      <4> QED BY <1>2, <2>1, <3>5, <4>1, ConstantsAssumption
    <3> QED BY <2>1, <3>3, <3>4, <3>5, ConstantsAssumption
  <2> QED BY <2>5 DEF MirrorOK
<1> QED BY <1>3, <1>4

-----------------------------------------------------------------------------
(* The search for a free cluster.                                            *)

\* A search is begun by CheckFree or ReloadHint and kept up by ScanNext.
LEMMA EnterScan ==
    ASSUME IInv, NEW t \in Thread, CallAny(t) \/ Step(t) \/ IoError(t), pc'[t] = "scan"
    PROVE  CheckFree(t) \/ ReloadHint(t) \/ ScanNext(t)
<1>1. TypeOK
  BY DEF IInv
<1>2. CASE CallAny(t)
  BY <1>1, <1>2 DEF CallAny, CallAlloc, CallExtend, CallTrim, CallFree, CallStale, Call, Goto, TypeOK
<1>3. CASE Step(t)
  <2>1. CASE AllocStep(t) /\ ~PutStep(t)
    BY <1>1, <2>1 DEF AllocStep, PutStep, LoadHint, ReadLastGrown, ReadLastEnd, TryNext, Found,
       ScanWrap, AssertFree, AssertLast, StoreHint, SubFree, Goto, TypeOK, FlushStart
  <2>2. CASE FreeStep(t) /\ ~PutStep(t)
    BY <1>1, <2>2 DEF FreeStep, PutStep, ReadCurrent, SwapHint, AddFree, Goto, TypeOK, FlushStart
  <2>3. CASE WalkOn(t) \/ WalkEndExtend(t) \/ WalkEndTrim(t)
    BY <1>1, <2>3 DEF WalkOn, WalkEndExtend, WalkEndTrim, Goto, TypeOK
  <2>4. CASE FlushHint(t) \/ FlushFree(t) \/ FlushWrite(t) \/ Return(t)
    BY <1>1, <2>4 DEF FlushHint, FlushFree, FlushWrite, Return, Goto, TypeOK, Idle
  <2>5. CASE PutStep(t)
    BY <2>5, PutRound DEF PutPoint, AfterPuts, AfterPut
  <2> QED BY <1>3, <2>1, <2>2, <2>3, <2>4, <2>5 DEF Step
<1>4. CASE IoError(t)
  BY <1>1, <1>4 DEF IoError, Goto, TypeOK
<1> QED BY <1>2, <1>3, <1>4

\* What one more step of the round looks at.
LEMMA PassedNext ==
    ASSUME NEW s \in Cluster \union {1}, NEW n \in Cluster \union {1}, NEW c \in Cluster,
           n + 1 < ClusterCount \/ s >= 2
    PROVE  /\ ~Passed(s, s, c)
           /\ Succ(n) # s /\ Passed(s, Succ(n), c) => Passed(s, n, c) \/ c = Succ(n)
           /\ Succ(n) = s => Passed(s, n, c) \/ c = s
  BY ClusterCountAssumption DEF Passed, Succ, Cluster

LEMMA ScanKeeps ==
    ASSUME Serial, IInv, Books, NEW t \in Thread, CallAny(t) \/ Step(t) \/ IoError(t)
    PROVE  \A u \in Thread : ScanOK(u)'
<1>1. \A u \in Thread \ {t} : ScanOK(u)'
  BY OthersIdle DEF ScanOK, Idle
<1>2. SUFFICES ASSUME pc'[t] = "scan" PROVE ScanOK(t)'
  BY <1>1 DEF ScanOK
<1>3. ExtendOK(t) /\ ScanOK(t) /\ TypeOK
  BY DEF IInv, CallOK, Books
<1>4. CASE CheckFree(t)
  <2>1. start[t] \in Cluster \union {1} /\ start'[t] = start[t] /\ number'[t] = start[t]
    BY <1>2, <1>3, <1>4 DEF CheckFree, Goto, TypeOK, ExtendOK, None
  <2>2. \A c \in Cluster : ~Passed(start[t], start[t], c)
    BY <2>1 DEF Passed, Cluster
  <2> QED BY <2>1, <2>2 DEF ScanOK
<1>5. CASE ReloadHint(t)
  <2>1. start'[t] = number'[t] /\ start'[t] \in Cluster \union {1}
    BY <1>3, <1>5, ConstantsAssumption, ClusterCountAssumption
    DEF ReloadHint, TypeOK, ExtendOK, None, Cluster, Unset
  <2>2. \A c \in Cluster : ~Passed(start'[t], start'[t], c)
    BY <2>1 DEF Passed, Cluster
  <2> QED BY <2>1, <2>2 DEF ScanOK
<1>6. CASE ScanNext(t)
  <2>1. /\ pc[t] = "scan" /\ start[t] \in Cluster \union {1} /\ number[t] \in Cluster \union {1}
        /\ number[t] + 1 < ClusterCount \/ start[t] >= 2
    BY <1>3, <1>6 DEF ScanNext, ExtendOK, TypeOK, None
  <2>2. /\ start'[t] = start[t] /\ number'[t] = Succ(number[t]) /\ fat' = fat
        /\ Succ(number[t]) # start[t] /\ Get(Succ(number[t])) # Free
    BY <1>2, <1>3, <1>6 DEF ScanNext, Found, Goto, TypeOK, disk
  <2>3. ASSUME NEW c \in Cluster, Passed(start[t], Succ(number[t]), c) PROVE Get(c) # Free
    <3>1. Passed(start[t], number[t], c) \/ c = Succ(number[t])
      BY <2>1, <2>2, <2>3, PassedNext
    <3> QED BY <1>3, <2>1, <2>2, <3>1 DEF ScanOK
  <2> QED BY <2>2, <2>3 DEF ScanOK, Get
<1> QED BY <1>2, <1>4, <1>5, <1>6, EnterScan

\* A call gives up for lack of space after the test of the count or the round of the
\* search.
LEMMA EnterNoSpace ==
    ASSUME IInv, NEW t \in Thread, CallAny(t) \/ Step(t) \/ IoError(t), pc'[t] = "nospace"
    PROVE  CheckFree(t) \/ ScanWrap(t) \/ ScanNext(t)
<1>1. TypeOK
  BY DEF IInv
<1>2. CASE CallAny(t)
  BY <1>1, <1>2 DEF CallAny, CallAlloc, CallExtend, CallTrim, CallFree, CallStale, Call, Goto, TypeOK
<1>3. CASE Step(t)
  <2>1. CASE AllocStep(t) /\ ~PutStep(t)
    BY <1>1, <2>1 DEF AllocStep, PutStep, LoadHint, ReadLastGrown, ReadLastEnd, TryNext, Found,
       ReloadHint, AssertFree, AssertLast, StoreHint, SubFree, Goto, TypeOK, FlushStart
  <2>2. CASE FreeStep(t) /\ ~PutStep(t)
    BY <1>1, <2>2 DEF FreeStep, PutStep, ReadCurrent, SwapHint, AddFree, Goto, TypeOK, FlushStart
  <2>3. CASE WalkOn(t) \/ WalkEndExtend(t) \/ WalkEndTrim(t)
    BY <1>1, <2>3 DEF WalkOn, WalkEndExtend, WalkEndTrim, Goto, TypeOK
  <2>4. CASE FlushHint(t) \/ FlushFree(t) \/ FlushWrite(t) \/ Return(t)
    BY <1>1, <2>4 DEF FlushHint, FlushFree, FlushWrite, Return, Goto, TypeOK, Idle
  <2>5. CASE PutStep(t)
    BY <2>5, PutRound DEF PutPoint, AfterPuts, AfterPut
  <2> QED BY <1>3, <2>1, <2>2, <2>3, <2>4, <2>5 DEF Step
<1>4. CASE IoError(t)
  BY <1>1, <1>4 DEF IoError, Goto, TypeOK
<1> QED BY <1>2, <1>3, <1>4

LEMMA NoSpaceKeeps ==
    ASSUME Serial, IInv, Books, Counted, NEW t \in Thread, CallAny(t) \/ Step(t) \/ IoError(t), Undisturbed'
    PROVE  NoSpaceLeftMeansFull'
<1>1. \A u \in Thread \ {t} : pc[u] = Idle /\ pc'[u] = Idle
  BY OthersIdle
<1> SUFFICES ASSUME pc'[t] = "nospace" PROVE FreeClusters(fat'[0]) = {}
  BY <1>1 DEF NoSpaceLeftMeansFull, Idle
<1>2. ExtendOK(t) /\ ScanOK(t) /\ TypeOK
  BY DEF IInv, CallOK, Books
<1>3. CASE CheckFree(t)
  <2>1. pc[t] = "checkFree" /\ free_cluster = 0 /\ fat' = fat
    BY <1>2, <1>3 DEF CheckFree, Goto, TypeOK, disk
  <2>2. CountOK
    BY StillUndisturbed DEF Counted
  <2>3. FreedBy = {} /\ TakenCount = 0
    BY <1>1, <2>1 DEF FreedBy, TakenCount, Taken, Freed, Idle
  <2>4. FreeClusters(fat[0]) \in SUBSET Cluster /\ IsFiniteSet(Cluster)
    BY ClusterCountAssumption, FS_Interval DEF FreeClusters, Cluster
  <2>5. IsFiniteSet(FreeClusters(fat[0]))
    BY <2>4, FS_Subset
  <2>6. FreeNow = 0
    BY <2>1, <2>2, <2>3, <2>5, FS_EmptySet, FS_CardinalityType DEF CountOK, FreeNow
  <2> QED BY <2>1, <2>5, <2>6, FS_EmptySet DEF FreeNow
<1>4. CASE ScanWrap(t)
  <2>1. /\ pc[t] = "scan" /\ start[t] = 1 /\ number[t] + 1 >= ClusterCount /\ fat' = fat
        /\ number[t] \in Cluster \union {1}
    BY <1>2, <1>4 DEF ScanWrap, ExtendOK, TypeOK, None, Cluster, disk
  <2>2. \A c \in Cluster : Passed(1, number[t], c)
    BY <2>1, ClusterCountAssumption DEF Passed, Cluster
  <2> QED BY <1>2, <2>1, <2>2 DEF ScanOK, Get, FreeClusters
<1>5. CASE ScanNext(t)
  <2>1. /\ pc[t] = "scan" /\ start[t] \in Cluster \union {1} /\ number[t] \in Cluster \union {1}
        /\ number[t] + 1 < ClusterCount \/ start[t] >= 2
        /\ fat' = fat /\ Get(Succ(number[t])) # Free /\ Succ(number[t]) = start[t]
    BY <1>2, <1>5 DEF ScanNext, ExtendOK, TypeOK, None, Found, Goto, disk
  <2>2. \A c \in Cluster : Passed(start[t], number[t], c) \/ c = start[t]
    BY <2>1, PassedNext
  <2> QED BY <1>2, <2>1, <2>2 DEF ScanOK, Get, FreeClusters
<1> QED BY <1>3, <1>4, <1>5, EnterNoSpace

-----------------------------------------------------------------------------
(* The count of free clusters.                                               *)

\* How a write changes the number of free entries.
LEMMA FreeCountAfter ==
    ASSUME NEW F \in Table, NEW c \in Cluster, NEW v \in FatValue,
           NEW G, G = [F EXCEPT ![c] = v]
    PROVE  Cardinality(FreeClusters(G)) =
             IF F[c] = Free /\ v # Free THEN Cardinality(FreeClusters(F)) - 1
             ELSE IF F[c] # Free /\ v = Free THEN Cardinality(FreeClusters(F)) + 1
             ELSE Cardinality(FreeClusters(F))
<1>1. IsFiniteSet(FreeClusters(F))
  <2>1. FreeClusters(F) \in SUBSET Cluster /\ IsFiniteSet(Cluster)
    BY ClusterCountAssumption, FS_Interval DEF FreeClusters, Cluster
  <2> QED BY <2>1, FS_Subset
<1>2. c \in FreeClusters(F) <=> F[c] = Free
  BY DEF FreeClusters
<1>3. CASE v # Free
  <2>1. FreeClusters(G) = FreeClusters(F) \ {c}
    BY <1>3 DEF FreeClusters, Table
  <2> QED BY <1>1, <1>2, <1>3, <2>1, FS_RemoveElement
<1>4. CASE v = Free
  <2>1. FreeClusters(G) = FreeClusters(F) \cup {c}
    BY <1>4 DEF FreeClusters, Table
  <2> QED BY <1>1, <1>2, <1>4, <2>1, FS_AddElement
<1> QED BY <1>3, <1>4

\* Steps that neither put nor count change neither the books nor what they owe.
LEMMA CountUntouched ==
    ASSUME IInv, IInv', NEW t \in Thread, CallAny(t) \/ Step(t), ~PutStep(t), ~SubFree(t), ~AddFree(t)
    PROVE  /\ free_cluster' = free_cluster
           /\ Taken(t)' = Taken(t)
           /\ Freed(t)' = Freed(t)
<1>1. TypeOK /\ pc'[t] # "panic"
  BY DEF IInv, CallOK
<1>2. pc[t] \notin PutPoint
  BY AtPut
<1>3. pc'[t] \in PutPoint => fat_index'[t] = 0
  BY EnterPut
<1>4. CASE CallAny(t)
  BY <1>1, <1>2, <1>4 DEF CallAny, CallAlloc, CallExtend, CallTrim, CallFree, CallStale, Call, Goto, TypeOK, InCall,
     Taken, Freed, Idle, memory
<1>5. CASE Step(t)
  <2>1. CASE LoadHint(t) \/ ReadLastGrown(t) \/ ReadLastEnd(t) \/ CheckFree(t) \/ TryNext(t)
             \/ ReloadHint(t) \/ ScanWrap(t) \/ ScanNext(t) \/ AssertFree(t)
    BY <1>1, <1>3, <2>1 DEF LoadHint, ReadLastGrown, ReadLastEnd, CheckFree, TryNext, Found,
       ReloadHint, ScanWrap, ScanNext, AssertFree, Goto, TypeOK, Taken, Freed, PutPoint, memory
  <2>2. CASE AssertLast(t) \/ StoreHint(t)
    BY <1>1, <2>2 DEF AssertLast, StoreHint, Goto, TypeOK, Taken, Freed, memory
  <2>3. CASE ReadCurrent(t) \/ SwapHint(t)
    BY <1>1, <1>3, <2>3 DEF ReadCurrent, SwapHint, FlushStart, Goto, TypeOK, Taken, Freed, PutPoint, memory
  <2>4. CASE WalkOn(t) \/ WalkEndExtend(t) \/ WalkEndTrim(t)
    BY <1>1, <1>3, <2>4 DEF WalkOn, WalkEndExtend, WalkEndTrim, Goto, TypeOK, Taken, Freed, PutPoint,
       memory
  <2>5. CASE FlushHint(t) \/ FlushFree(t) \/ FlushWrite(t) \/ Return(t)
    BY <1>1, <2>5 DEF FlushHint, FlushFree, FlushWrite, Return, Goto, TypeOK, Taken, Freed, Idle,
       Result, memory
  <2> QED BY <1>5, <2>1, <2>2, <2>3, <2>4, <2>5 DEF Step, AllocStep, FreeStep, PutStep
<1> QED BY <1>4, <1>5

\* What the step of a thread does to what all calls owe the count.
LEMMA OwedAfter ==
    ASSUME IInv, IInv', NEW t \in Thread, CallAny(t) \/ Step(t) \/ IoError(t), IsFiniteSet(FreedBy)
    PROVE  /\ FreedBy' = IF Freed(t)' THEN FreedBy \union {t} ELSE FreedBy \ {t}
           /\ IsFiniteSet(FreedBy')
           /\ Cardinality(FreedBy) \in Nat
           /\ Cardinality(FreedBy') = CASE Freed(t)' /\ ~Freed(t) -> Cardinality(FreedBy) + 1
                                        [] ~Freed(t)' /\ Freed(t) -> Cardinality(FreedBy) - 1
                                        [] OTHER -> Cardinality(FreedBy)
           /\ Taken(t) => TakenCount = 1
           /\ Taken(t)' => TakenCount' = 1
           /\ Taken(t) # Taken(t)' => /\ ~Taken(t) => TakenCount = 0
                                      /\ ~Taken(t)' => TakenCount' = 0
           /\ Taken(t) = Taken(t)' => TakenCount' = TakenCount
<1>1. \A u \in Thread \ {t} : Taken(u)' = Taken(u) /\ Freed(u)' = Freed(u)
  BY OneMoves DEF Taken, Freed, IInv
<1>2. FreedBy' = IF Freed(t)' THEN FreedBy \union {t} ELSE FreedBy \ {t}
  BY <1>1 DEF FreedBy
<1>3. t \in FreedBy <=> Freed(t)
  BY DEF FreedBy
<1>4. /\ IsFiniteSet(FreedBy')
      /\ Cardinality(FreedBy) \in Nat
      /\ Cardinality(FreedBy') = CASE Freed(t)' /\ ~Freed(t) -> Cardinality(FreedBy) + 1
                                   [] ~Freed(t)' /\ Freed(t) -> Cardinality(FreedBy) - 1
                                   [] OTHER -> Cardinality(FreedBy)
  <2>1. CASE Freed(t)'
    BY <1>2, <1>3, <2>1, FS_AddElement, FS_CardinalityType
  <2>2. CASE ~Freed(t)'
    BY <1>2, <1>3, <2>2, FS_RemoveElement, FS_CardinalityType
  <2> QED BY <2>1, <2>2
<1>5. \A u \in Thread : Taken(u) => Allocating(u)
  BY DEF Taken, Allocating, AllocSection
<1>6. \A u \in Thread : Taken(u)' => Allocating(u)'
  BY DEF Taken, Allocating, AllocSection
<1>7. ASSUME Taken(t) \/ Taken(t)', NEW u \in Thread \ {t} PROVE ~Taken(u) /\ ~Taken(u)'
  BY <1>1, <1>5, <1>6, <1>7 DEF IInv, OneAllocation
<1>8. /\ Taken(t) => TakenCount = 1
      /\ Taken(t)' => TakenCount' = 1
  BY DEF TakenCount
<1>9. CASE Taken(t) \/ Taken(t)'
  <2>1. \A u \in Thread \ {t} : ~Taken(u) /\ ~Taken(u)'
    BY <1>7, <1>9
  <2>2. /\ ~Taken(t) => TakenCount = 0
        /\ ~Taken(t)' => TakenCount' = 0
    BY <2>1 DEF TakenCount
  <2> QED BY <1>2, <1>4, <1>8, <2>2
<1>10. CASE ~Taken(t) /\ ~Taken(t)'
  <2>1. (\E u \in Thread : Taken(u))' <=> \E u \in Thread : Taken(u)
    BY <1>1, <1>10
  <2>2. TakenCount' = TakenCount
    BY <2>1 DEF TakenCount
  <2>3. Taken(t) = Taken(t)'
    BY <1>10 DEF Taken
  <2> QED BY <1>2, <1>4, <1>10, <2>2, <2>3
<1> QED BY <1>9, <1>10

\* Only CheckFree leads past the test of the count, and the call that has made it
\* is the only one to subtract.
LEMMA PastTheTest ==
    ASSUME IInv, IInv', NEW t \in Thread, CallAny(t) \/ Step(t),
           pc'[t] \in AllocSection \ {"checkFree"}
    PROVE  pc[t] \in AllocSection \ {"checkFree"} \/ free_cluster # 0
<1>1. TypeOK /\ pc'[t] # "panic"
  BY DEF IInv, CallOK
<1>2. CASE CallAny(t)
  BY <1>1, <1>2 DEF CallAny, CallAlloc, CallExtend, CallTrim, CallFree, CallStale, Call, Goto, TypeOK, AllocSection
<1>3. CASE PutStep(t)
  BY <1>3, PutRound DEF PutPoint, AfterPuts, AllocSection
<1>4. CASE Step(t) /\ ~PutStep(t)
  <2>1. CASE AllocStep(t)
    BY <1>1, <1>4, <2>1 DEF AllocStep, PutStep, LoadHint, ReadLastGrown, ReadLastEnd, CheckFree, TryNext,
       ReloadHint, ScanWrap, ScanNext, AssertFree, AssertLast, StoreHint, SubFree, Goto, TypeOK,
       AllocSection
  <2>2. CASE FreeStep(t)
    BY <1>1, <1>4, <2>2 DEF FreeStep, PutStep, ReadCurrent, SwapHint, AddFree, FlushStart, Goto, TypeOK,
       AllocSection
  <2>3. CASE WalkOn(t) \/ WalkEndExtend(t) \/ WalkEndTrim(t)
    BY <1>1, <2>3 DEF WalkOn, WalkEndExtend, WalkEndTrim, Goto, TypeOK, AllocSection
  <2>4. CASE FlushHint(t) \/ FlushFree(t) \/ FlushWrite(t) \/ Return(t)
    BY <1>1, <2>4 DEF FlushHint, FlushFree, FlushWrite, Return, Goto, TypeOK, AllocSection, Idle
  <2> QED BY <1>4, <2>1, <2>2, <2>3, <2>4 DEF Step
<1> QED BY <1>2, <1>3, <1>4

\* Each call subtracts each cluster it takes and adds each it frees exactly once,
\* and the count wraps around neither end.
LEMMA CountKeeps ==
    ASSUME IInv, IInv', Counted, NEW t \in Thread, CallAny(t) \/ Step(t) \/ IoError(t), Undisturbed'
    PROVE  CountOK'
<1>1. CountOK /\ (CallAny(t) \/ Step(t))
  BY StillUndisturbed DEF Counted
<1>2. /\ IsFiniteSet(FreedBy')
      /\ Cardinality(FreedBy) \in Nat
      /\ Cardinality(FreedBy') = CASE Freed(t)' /\ ~Freed(t) -> Cardinality(FreedBy) + 1
                                   [] ~Freed(t)' /\ Freed(t) -> Cardinality(FreedBy) - 1
                                   [] OTHER -> Cardinality(FreedBy)
      /\ Taken(t) => TakenCount = 1
      /\ Taken(t)' => TakenCount' = 1
      /\ Taken(t) # Taken(t)' => /\ ~Taken(t) => TakenCount = 0
                                 /\ ~Taken(t)' => TakenCount' = 0
      /\ Taken(t) = Taken(t)' => TakenCount' = TakenCount
  BY <1>1, OwedAfter DEF CountOK
<1>3. fat[0] \in Table /\ free_cluster \in Nat /\ FreeNow \in 0..(ClusterCount - 2) /\ TakenCount \in 0..1
  BY FreeCountTyped, ConstantsAssumption DEF IInv, TypeOK, FreeNow, Word, TakenCount
<1>4. free_cluster + Cardinality(FreedBy) = FreeNow + TakenCount
  BY <1>1 DEF CountOK
<1>5. SUFFICES /\ free_cluster' + Cardinality(FreedBy') = FreeNow' + TakenCount'
               /\ \A u \in Thread : pc'[u] \in AllocSection \ {"checkFree"} => free_cluster' > 0
  BY <1>2 DEF CountOK
<1>6. ASSUME free_cluster' = free_cluster
      PROVE  \A u \in Thread : pc'[u] \in AllocSection \ {"checkFree"} => free_cluster' > 0
  BY <1>1, <1>3, <1>6, OneMoves, PastTheTest DEF CountOK, IInv
<1>7. CASE PutStep(t)
  <2> DEFINE e == PutTarget(t)
             v == PutValue(t)
  <2>1. /\ pc[t] \in PutPoint /\ e \in Cluster /\ v \in FatValue
        /\ fat' = [fat EXCEPT ![fat_index[t]] = [@ EXCEPT ![e] = v]]
        /\ free_cluster' = free_cluster
        /\ \/ fat_index'[t] = fat_index[t] + 1 /\ pc'[t] = pc[t]
           \/ fat_index'[t] = 0 /\ pc'[t] = AfterPuts(t)
        /\ fat_index[t] \in Nat
    BY <1>7, PutRound
  <2>2. /\ Taken(t)' <=> pc[t] \in {"putEndOfChain", "putLink"}
        /\ Freed(t)' <=> pc[t] = "putFree"
    <3>1. CASE fat_index'[t] = fat_index[t] + 1 /\ pc'[t] = pc[t]
      BY <2>1, <3>1 DEF Taken, Freed, PutPoint
    <3>2. CASE fat_index'[t] = 0 /\ pc'[t] = AfterPuts(t)
      BY <2>1, <3>2 DEF Taken, Freed, PutPoint, AfterPuts, AfterPut
    <3> QED BY <2>1, <3>1, <3>2
  <2>3. CASE fat_index[t] # 0
    <3>1. fat'[0] = fat[0]
      BY <2>1, <2>3, ConstantsAssumption DEF IInv, TypeOK
    <3>2. /\ Taken(t) <=> pc[t] \in {"putEndOfChain", "putLink"}
          /\ Freed(t) <=> pc[t] = "putFree"
      BY <2>1, <2>3 DEF Taken, Freed, PutPoint
    <3>3. FreeNow' = FreeNow
      BY <3>1 DEF FreeNow
    <3> QED BY <1>2, <1>4, <1>6, <2>1, <2>2, <3>2, <3>3
  <2>4. CASE fat_index[t] = 0
    <3>1. fat'[0] = [fat[0] EXCEPT ![e] = v]
      BY <2>1, <2>4, ConstantsAssumption DEF IInv, TypeOK
    <3>2. fat[0][e] = Free <=> pc[t] = "putEndOfChain"
      BY <1>7, <2>4, PutFirstValue DEF Get
    <3>3. v = Free <=> pc[t] = "putFree"
      <4>1. pc[t] = "putLink" => number[t] \in Cluster
        BY DEF IInv, CallOK, TakeOK
      <4> QED BY <2>1, <4>1, MarksAreNotClusters DEF PutValue, PutPoint
    <3>4. FreeNow' = IF pc[t] = "putEndOfChain" THEN FreeNow - 1
                     ELSE IF pc[t] = "putFree" THEN FreeNow + 1 ELSE FreeNow
      <4> HIDE DEF e, v
      <4> QED BY <1>3, <2>1, <3>1, <3>2, <3>3, FreeCountAfter DEF FreeNow
    <3>5. Taken(t) <=> pc[t] = "putLink"
      BY <2>1, <2>4 DEF Taken, PutPoint
    <3>6. ~Freed(t)
      BY <2>1, <2>4 DEF Freed, PutPoint
    <3>7. free_cluster' + Cardinality(FreedBy') = FreeNow' + TakenCount'
      BY <1>2, <1>3, <1>4, <2>1, <2>2, <3>4, <3>5, <3>6 DEF PutPoint
    <3> QED BY <1>6, <2>1, <3>7
  <2> QED BY <2>3, <2>4
<1>8. CASE SubFree(t)
  <2>1. pc[t] = "subFree" /\ pc'[t] \in {"flushHint", "ok"} /\ fat' = fat
        /\ free_cluster' = Decrement(free_cluster)
    BY <1>8 DEF SubFree, FlushStart, Goto, IInv, TypeOK, disk
  <2>2. Taken(t) /\ ~Taken(t)' /\ ~Freed(t) /\ ~Freed(t)' /\ FreeNow' = FreeNow
    BY <2>1 DEF Taken, Freed, FreeNow
  <2>3. free_cluster > 0
    BY <1>1, <2>1 DEF CountOK, AllocSection
  <2>4. \A u \in Thread : pc'[u] \notin AllocSection
    <3>1. ASSUME NEW u \in Thread \ {t} PROVE pc'[u] = pc[u] /\ pc[u] \notin AllocSection
      <4>1. Allocating(t)
        BY <2>1 DEF Allocating, AllocSection
      <4>2. ~Allocating(u)
        BY <4>1 DEF IInv, OneAllocation
      <4> QED BY <4>2, OneMoves DEF Allocating, IInv
    <3> QED BY <2>1, <3>1 DEF AllocSection
  <2>5. free_cluster' = free_cluster - 1
    BY <1>3, <2>1, <2>3 DEF Decrement
  <2>6. Cardinality(FreedBy') = Cardinality(FreedBy)
    BY <1>2, <2>2
  <2>7. TakenCount = 1 /\ TakenCount' = 0
    BY <1>2, <2>2
  <2>8. free_cluster' + Cardinality(FreedBy') = FreeNow' + TakenCount'
    BY <1>1, <1>2, <1>3, <2>2, <2>5, <2>6, <2>7 DEF CountOK
  <2> QED BY <1>2, <2>4, <2>8 DEF CountOK
<1>9. CASE AddFree(t)
  <2>1. pc[t] = "addFree" /\ pc'[t] \in {"readCurrent", "flushHint", "ok"} /\ fat' = fat
        /\ free_cluster' = Increment(free_cluster)
    BY <1>9 DEF AddFree, FlushStart, Goto, IInv, TypeOK, disk
  <2>2. Freed(t) /\ ~Freed(t)' /\ ~Taken(t) /\ ~Taken(t)' /\ FreeNow' = FreeNow
    BY <2>1 DEF Taken, Freed, FreeNow
  <2>3. free_cluster' = free_cluster + 1
    <3>1. Cardinality(FreedBy) >= 1
      BY <1>2, <2>2, FS_CardinalityType
    <3> QED BY <1>2, <1>3, <1>4, <2>1, <3>1, ClusterCountAssumption, ConstantsAssumption DEF Increment
  <2> QED BY <1>2, <1>3, <1>4, <2>2, <2>3
<1>10. CASE ~PutStep(t) /\ ~SubFree(t) /\ ~AddFree(t)
  BY <1>1, <1>2, <1>4, <1>6, <1>10, CountUntouched, OnlyPutsWrite DEF FreeNow
<1> QED BY <1>7, <1>8, <1>9, <1>10

-----------------------------------------------------------------------------
(* The FS information block.                                                 *)

\* A step changes hint, count or block only where the call owes a flush.
LEMMA InfoUntouched ==
    ASSUME IInv, HasFsInfo, NEW t \in Thread, CallAny(t) \/ Step(t),
           ~FlushHint(t), ~FlushFree(t), ~FlushWrite(t)
    PROVE  /\ pc'[t] \notin {"flushFree", "flushWrite"}
           /\ ~Unflushed(t)' => /\ ~Unflushed(t)
                                /\ UNCHANGED <<info, last_cluster, free_cluster>>
<1>1. TypeOK
  BY DEF IInv
<1>2. CASE CallAny(t)
  BY <1>1, <1>2 DEF CallAny, CallAlloc, CallExtend, CallTrim, CallFree, CallStale, Call, Goto, TypeOK, InCall,
     Unflushed, FreePoint, FlushPoint, Idle, memory, disk
<1>3. CASE PutStep(t)
  <2>1. /\ UNCHANGED <<info, last_cluster, free_cluster>>
        /\ pc[t] \in PutPoint
        /\ pc'[t] = pc[t] \/ pc'[t] = AfterPuts(t)
    BY <1>3, PutRound
  <2> QED BY <2>1 DEF PutPoint, AfterPuts, AfterPut, Unflushed, FreePoint, FlushPoint
<1>4. CASE Step(t) /\ ~PutStep(t)
  <2>1. CASE LoadHint(t) \/ ReadLastGrown(t) \/ ReadLastEnd(t) \/ CheckFree(t) \/ TryNext(t)
             \/ ReloadHint(t) \/ ScanWrap(t) \/ ScanNext(t) \/ AssertFree(t) \/ AssertLast(t)
    BY <1>1, <2>1 DEF LoadHint, ReadLastGrown, ReadLastEnd, CheckFree, TryNext, Found,
       ReloadHint, ScanWrap, ScanNext, AssertFree, AssertLast, Goto, TypeOK, Unflushed, FreePoint,
       FlushPoint, memory, disk
  <2>2. CASE StoreHint(t) \/ SubFree(t) \/ ReadCurrent(t) \/ SwapHint(t) \/ AddFree(t)
    BY <1>1, <2>2 DEF StoreHint, SubFree, ReadCurrent, SwapHint, AddFree, FlushStart, Goto, TypeOK,
       Unflushed, FreePoint, FlushPoint
  <2>3. CASE WalkOn(t) \/ WalkEndExtend(t) \/ WalkEndTrim(t)
    BY <1>1, <2>3 DEF WalkOn, WalkEndExtend, WalkEndTrim, Goto, TypeOK, Unflushed, FreePoint,
       FlushPoint, memory, disk
  <2>4. CASE Return(t)
    BY <1>1, <2>4 DEF Return, Goto, TypeOK, Unflushed, FreePoint, FlushPoint, Idle, Result, memory, disk
  <2> QED BY <1>4, <2>1, <2>2, <2>3, <2>4 DEF Step, AllocStep, FreeStep, PutStep
<1> QED BY <1>2, <1>3, <1>4

LEMMA InfoKeeps ==
    ASSUME Serial, IInv, Books, NEW t \in Thread, CallAny(t) \/ Step(t) \/ IoError(t), Undisturbed'
    PROVE  InfoOK'
<1> SUFFICES ASSUME HasFsInfo PROVE InfoOK'
  BY DEF InfoOK
<1>1. InfoOK /\ TypeOK /\ (CallAny(t) \/ Step(t))
  BY StillUndisturbed DEF Books, IInv
<1>2. \A u \in Thread \ {t} : ~Unflushed(u) /\ ~Unflushed(u)' /\ pc'[u] = Idle
  BY OthersIdle DEF Unflushed, FreePoint, FlushPoint, Idle
<1>3. SUFFICES /\ ~Unflushed(t)' => info' = InMemory'
               /\ pc'[t] = "flushFree" => snap'[t].last = last_cluster'
               /\ pc'[t] = "flushWrite" => snap'[t] = InMemory'
  BY <1>2 DEF InfoOK, Idle
<1>4. CASE FlushHint(t)
  BY <1>1, <1>4 DEF FlushHint, Goto, TypeOK, Unflushed, FlushPoint, memory
<1>5. CASE FlushFree(t)
  <2>1. pc'[t] = "flushWrite" /\ snap'[t] = [snap[t] EXCEPT !.free = free_cluster]
        /\ last_cluster' = last_cluster /\ free_cluster' = free_cluster
    BY <1>1, <1>5 DEF FlushFree, Goto, TypeOK, memory
  <2>2. snap[t].last = last_cluster /\ snap[t] \in [last : Cluster \union {Unset}, free : Word]
    BY <1>1, <1>5 DEF InfoOK, FlushFree, TypeOK
  <2>3. snap'[t] = [last |-> last_cluster, free |-> free_cluster]
    BY <2>1, <2>2
  <2> QED BY <2>1, <2>3 DEF InMemory, Unflushed, FlushPoint
<1>6. CASE FlushWrite(t)
  BY <1>1, <1>6 DEF InfoOK, FlushWrite, Goto, TypeOK, memory, InMemory
<1>7. CASE ~FlushHint(t) /\ ~FlushFree(t) /\ ~FlushWrite(t)
  <2>1. /\ pc'[t] \notin {"flushFree", "flushWrite"}
        /\ ~Unflushed(t)' => /\ ~Unflushed(t)
                             /\ UNCHANGED <<info, last_cluster, free_cluster>>
    BY <1>1, <1>7, InfoUntouched
  <2> QED BY <1>1, <1>2, <2>1 DEF InfoOK, InMemory
<1> QED BY <1>4, <1>5, <1>6, <1>7

-----------------------------------------------------------------------------
(* The theorems                                                              *)

\* A freshly mounted volume keeps its books.
LEMMA BooksInit == Init => Counted /\ Books
<1> SUFFICES ASSUME Init PROVE Counted /\ Books
  OBVIOUS
<1>1. \A t \in Thread : pc[t] = Idle
  BY DEF Init
<1>2. \A t \in Thread : PutOK(t) /\ ScanOK(t)
  BY <1>1 DEF PutOK, ScanOK, PutPoint, Idle
<1>3. CountOK
  <2>1. FreedBy = {} /\ TakenCount = 0 /\ \A t \in Thread : pc[t] \notin AllocSection
    BY <1>1 DEF FreedBy, TakenCount, Taken, Freed, Idle, AllocSection
  <2>2. free_cluster = FreeNow /\ FreeNow \in Nat
    BY InitEstablishes, ConstantsAssumption DEF Init, FreeNow, IInv, TypeOK, Word
  <2> QED BY <2>1, <2>2, FS_EmptySet DEF CountOK
<1>4. InfoOK
  BY <1>1 DEF Init, InfoOK, InMemory, Idle
<1>5. MirrorOK
  BY ConstantsAssumption DEF Init, MirrorOK
<1>6. NoSpaceLeftMeansFull
  BY <1>1 DEF NoSpaceLeftMeansFull, Idle
<1> QED BY <1>2, <1>3, <1>4, <1>5, <1>6 DEF Counted, Books

\* A crash is a disturbance.
LEMMA CrashDisturbs == ASSUME IInv, CrashAndMount PROVE ~Undisturbed'
  BY ConstantsAssumption DEF CrashAndMount, Undisturbed, IInv, TypeOK

\* The count is inductive relative to IInv,
LEMMA CountStep == IInv /\ IInv' /\ Counted /\ [Next]_vars => Counted'
<1> SUFFICES ASSUME IInv, IInv', Counted, [Next]_vars PROVE Counted'
  OBVIOUS
<1>1. CASE UNCHANGED vars
  <2>1. /\ fat' = fat /\ pc' = pc /\ fat_index' = fat_index /\ free_cluster' = free_cluster
        /\ Undisturbed' = Undisturbed
    BY <1>1 DEF vars, disk, memory, locals, mishap, Undisturbed
  <2>2. FreedBy' = FreedBy /\ TakenCount' = TakenCount /\ FreeNow' = FreeNow
    BY <2>1 DEF FreedBy, TakenCount, Taken, Freed, FreeNow
  <2> QED BY <2>1, <2>2 DEF Counted, CountOK
<1> QED BY <1>1, CountKeeps, CrashDisturbs DEF Next, Counted

\* and so are the other books, when the calls exclude each other.
LEMMA BooksStep == Serial /\ IInv /\ IInv' /\ Counted /\ Books /\ [Next]_vars => Books'
<1> SUFFICES ASSUME Serial, IInv, IInv', Counted, Books, [Next]_vars PROVE Books'
  OBVIOUS
<1>1. ASSUME NEW t \in Thread, CallAny(t) \/ Step(t) \/ IoError(t) PROVE Books'
  BY <1>1, PutOKKeeps, ScanKeeps, InfoKeeps, MirrorKeeps, NoSpaceKeeps, StillUndisturbed DEF Books
<1>2. CASE CrashAndMount
  <2>1. \A t \in Thread : pc'[t] = Idle
    BY <1>2 DEF CrashAndMount
  <2> QED BY <1>2, <2>1, CrashDisturbs DEF Books, PutOK, ScanOK, PutPoint, Idle
<1>3. CASE UNCHANGED vars
  BY <1>3 DEF vars, disk, memory, locals, mishap, Books, PutOK, PutTarget, PutValue, ScanOK, Get,
     Undisturbed, InfoOK, Unflushed, InMemory, MirrorOK, Lags, NoSpaceLeftMeansFull
<1> QED BY <1>1, <1>2, <1>3 DEF Next

LEMMA CountAlways == Excluded => (Spec => [](SafeInv /\ Counted))
<1> SUFFICES ASSUME Excluded PROVE Spec => [](SafeInv /\ Counted)
  OBVIOUS
<1>1. SafeInv /\ [Next]_vars => SafeInv'
  BY SafeStep
<1>2. SafeInv /\ SafeInv' /\ Counted /\ [Next]_vars => Counted'
  <2>1. SafeInv' /\ torn' => Counted'
    BY DEF SafeInv, TypeInv, Calm, Counted
  <2>2. SafeInv /\ SafeInv' /\ [Next]_vars /\ ~torn' => IInv /\ IInv'
    BY TornStays DEF SafeInv, TypeInv
  <2> QED BY <2>1, <2>2, CountStep
<1> QED BY <1>1, <1>2, SafeInit, BooksInit, PTL DEF Spec

LEMMA BooksAlways == Serial => (Spec => [](SafeInv /\ (torn \/ Books)))
<1> SUFFICES ASSUME Serial PROVE Spec => [](SafeInv /\ (torn \/ Books))
  OBVIOUS
<1>1. Excluded
  BY DEF Serial, Excluded
<1>2. SafeInv /\ SafeInv' /\ Counted /\ (torn \/ Books) /\ [Next]_vars => (torn \/ Books)'
  <2>1. SafeInv /\ SafeInv' /\ [Next]_vars /\ ~torn' => IInv /\ IInv' /\ ~torn
    BY TornStays DEF SafeInv, TypeInv
  <2> QED BY <2>1, BooksStep
<1>3. Spec => [](SafeInv /\ Counted)
  BY <1>1, CountAlways
<1> QED BY <1>2, <1>3, BooksInit, PTL DEF Spec

\* An undisturbed run has no stale entries to go by.
LEMMA CalmBooks == ASSUME SafeInv, torn \/ Books, Undisturbed PROVE IInv /\ Books
  BY DEF SafeInv, TypeInv, Calm

\* As long as nothing failed, the count in memory is, whenever no call is running,
\* the number of free clusters a mount would find: each call counts each cluster
\* it takes or frees exactly once, however the calls interleave.
THEOREM CountStaysExact == Excluded => (Spec => []FreeCountExact)
<1>1. SafeInv /\ Counted => FreeCountExact
  <2> SUFFICES ASSUME IInv, CountOK, Quiet PROVE free_cluster = Cardinality(FreeClusters(fat[0]))
    BY DEF SafeInv, TypeInv, Calm, Counted, FreeCountExact
  <2>1. FreedBy = {} /\ TakenCount = 0
    BY DEF Quiet, InCall, FreedBy, TakenCount, Taken, Freed, Idle
  <2>2. free_cluster \in Nat /\ FreeNow \in Nat
    BY FreeCountTyped, ConstantsAssumption DEF IInv, TypeOK, FreeNow, Word
  <2> QED BY <2>1, <2>2, FS_EmptySet DEF CountOK, FreeNow
<1> QED BY <1>1, CountAlways, PTL

\* As long as nothing failed, the information block holds between calls the hint
\* and the count of the running system: no call ends without a flush of what it
\* changed.
THEOREM InfoStaysCurrent == Serial => (Spec => []InfoCurrent)
<1>1. SafeInv /\ (torn \/ Books) => InfoCurrent
  BY CalmBooks DEF Books, InfoCurrent, InfoOK, InMemory, Quiet, InCall, Unflushed, FreePoint, FlushPoint, Idle
<1> QED BY <1>1, BooksAlways, PTL

\* As long as nothing failed, the copies of the table are equal between calls.
THEOREM MirrorsStayEqual == Serial => (Spec => []MirrorsAgree)
<1>1. SafeInv /\ (torn \/ Books) => MirrorsAgree
  <2> SUFFICES ASSUME IInv, Books, Undisturbed, Quiet, NEW i \in 0..(FatCount - 1)
               PROVE  fat[i] = fat[0]
    BY CalmBooks DEF MirrorsAgree
  <2>1. \A c \in Cluster : fat[i][c] = fat[0][c]
    BY DEF Books, MirrorOK, Lags, Quiet, InCall, PutPoint, Idle
  <2>2. fat[i] \in [Cluster -> FatValue] /\ fat[0] \in [Cluster -> FatValue]
    BY ConstantsAssumption DEF IInv, TypeOK, Table
  <2> QED BY <2>1, <2>2
<1> QED BY <1>1, BooksAlways, PTL

\* As long as nothing failed, a call that returns NoSpaceLeft does so on a full
\* volume: the count is exact and the round of the search leaves no cluster out.
THEOREM NoSpaceStaysRight == Serial => (Spec => []NoSpaceLeftIsRight)
<1>1. SafeInv /\ (torn \/ Books) => NoSpaceLeftIsRight
  BY CalmBooks DEF Books, NoSpaceLeftIsRight
<1> QED BY <1>1, BooksAlways, PTL

-----------------------------------------------------------------------------
(* The refinement: every step is one step of the pool or none.               *)

\* The pool reads the table as ClusterAlloc does.
LEMMA SameTable ==
    /\ Pool!Free = Free /\ Pool!EndOfChain = EndOfChain /\ Pool!Cluster = Cluster
    /\ Pool!Table = Table
    /\ \A v : Pool!IsData(v) = IsData(v)
    /\ \A F, H, c : Pool!Detached(F, H, c) = Detached(F, H, c)
    /\ \A F, H : Pool!WellFormed(F, H) = WellFormed(F, H)
<1> USE DEF Pool!Free, Free, Pool!EndOfChain, EndOfChain, Pool!Cluster, Cluster, Pool!IsData, IsData,
        Pool!InChain, InChain, Pool!Linked, Linked
<1>1. Pool!Table = Table
  BY DEF Pool!Table, Table, Pool!FatValue, FatValue, Pool!Bad, Bad
<1>2. \A F, H, c : Pool!Detached(F, H, c) = Detached(F, H, c)
  BY DEF Pool!Detached, Detached
<1>3. \A F, H : Pool!WellFormed(F, H) = WellFormed(F, H)
  BY DEF Pool!WellFormed, WellFormed, Pool!LinksInUse, LinksInUse, Pool!LinksInjective, LinksInjective,
     Pool!HeadsInUse, HeadsInUse, Pool!HeadsUnlinked, HeadsUnlinked
<1> QED BY <1>1, <1>2, <1>3

\* The steps that change which start clusters are recorded.
LEMMA OnlyThreeRecord ==
    ASSUME NEW t \in Thread, CallAny(t) \/ Step(t) \/ IoError(t), ~WalkEndTrim(t), ~Return(t),
           heads' # heads
    PROVE  \E h \in heads : CallFree(t, h)
<1>1. CASE CallAny(t)
  BY <1>1 DEF CallAny, CallAlloc, CallExtend, CallTrim, CallStale
<1>2. CASE Step(t)
  <2>1. CASE AllocStep(t)
    BY <2>1 DEF AllocStep, LoadHint, ReadLastGrown, ReadLastEnd, CheckFree, TryNext, ReloadHint,
       ScanWrap, ScanNext, AssertFree, PutEndOfChain, AssertLast, PutLink, StoreHint, SubFree, RawPut
  <2>2. CASE FreeStep(t)
    BY <2>2 DEF FreeStep, UnlinkPrevious, ReadCurrent, PutFree, SwapHint, AddFree, RawPut
  <2>3. CASE WalkOn(t) \/ WalkEndExtend(t) \/ FlushHint(t) \/ FlushFree(t) \/ FlushWrite(t)
    BY <2>3 DEF WalkOn, WalkEndExtend, FlushHint, FlushFree, FlushWrite
  <2> QED BY <1>2, <2>1, <2>2, <2>3 DEF Step
<1>3. CASE IoError(t)
  BY <1>3 DEF IoError
<1> QED BY <1>1, <1>2, <1>3

\* The first round of a put is the step of the pool whose guard the call has
\* established; the others do not touch the copy that is read.
LEMMA PutRefines ==
    ASSUME IInv, NEW t \in Thread, PutStep(t)
    PROVE  Pool!Next \/ UNCHANGED <<fat[0], heads>>
<1>1. CallOK(t) /\ HeldOK(t) /\ TypeOK
  BY DEF IInv
<1>2. /\ PutTarget(t) \in Cluster /\ heads' = heads
      /\ fat' = [fat EXCEPT ![fat_index[t]] = [@ EXCEPT ![PutTarget(t)] = PutValue(t)]]
  BY PutRound
<1>3. CASE fat_index[t] # 0
  BY <1>1, <1>2, <1>3, ConstantsAssumption DEF TypeOK
<1>4. CASE fat_index[t] = 0
  <2>1. fat'[0] = [fat[0] EXCEPT ![PutTarget(t)] = PutValue(t)]
    BY <1>1, <1>2, <1>4, ConstantsAssumption DEF TypeOK
  <2>2. CASE PutEndOfChain(t)
    <3>1. pc[t] = "putEndOfChain"
      BY <2>2 DEF PutEndOfChain
    <3>2. fat[0][PutTarget(t)] = Free /\ PutValue(t) = EndOfChain
      BY <1>1, <1>4, <3>1 DEF CallOK, TakeOK, Holds, FlushPoint, PutTarget, PutValue, Get
    <3>3. Pool!Take(PutTarget(t))
      BY <1>2, <2>1, <3>2, SameTable DEF Pool!Take
    <3> QED BY <1>2, <3>3, SameTable DEF Pool!Next
  <2>3. CASE PutLink(t)
    <3>1. pc[t] = "putLink"
      BY <2>3 DEF PutLink
    <3>2. /\ number[t] \in Cluster /\ prev[t] \in Cluster /\ prev[t] # number[t]
          /\ fat[0][prev[t]] = EndOfChain /\ fat[0][number[t]] = EndOfChain
          /\ Detached(fat[0], heads, number[t])
          /\ PutTarget(t) = prev[t] /\ PutValue(t) = number[t]
      BY <1>1, <1>4, <3>1 DEF CallOK, TakeOK, Last, HeldOK, Held, Holds, Loose, PutTarget, PutValue, Get
    <3>3. Pool!Append(prev[t], number[t])
      BY <1>2, <2>1, <3>2, SameTable DEF Pool!Append
    <3> QED BY <3>2, <3>3, SameTable DEF Pool!Next
  <2>4. CASE UnlinkPrevious(t)
    <3>1. pc[t] = "unlink"
      BY <2>4 DEF UnlinkPrevious
    <3>2. IsData(fat[0][PutTarget(t)]) /\ PutValue(t) = EndOfChain
      BY <1>1, <1>4, <3>1 DEF CallOK, FreeOK, FreePoint, PutTarget, PutValue, Get, IsData
    <3>3. Pool!Cut(PutTarget(t))
      BY <1>2, <2>1, <3>2, SameTable DEF Pool!Cut
    <3> QED BY <1>2, <3>3, SameTable DEF Pool!Next
  <2>5. CASE PutFree(t)
    <3>1. pc[t] = "putFree"
      BY <2>5 DEF PutFree
    <3>2. Detached(fat[0], heads, PutTarget(t)) /\ PutValue(t) = Free
      BY <1>1, <1>4, <3>1 DEF HeldOK, Held, Holds, Loose, PutTarget, PutValue
    <3>3. Pool!Release(PutTarget(t))
      BY <1>2, <2>1, <3>2, SameTable DEF Pool!Release
    <3> QED BY <1>2, <3>3, SameTable DEF Pool!Next
  <2> QED BY <2>2, <2>3, <2>4, <2>5 DEF PutStep
<1> QED BY <1>3, <1>4

\* Recording and dropping start clusters.
LEMMA RecordRefines ==
    ASSUME IInv, NEW t \in Thread, CallAny(t) \/ Step(t) \/ IoError(t), ~PutStep(t)
    PROVE  Pool!Next \/ UNCHANGED <<fat[0], heads>>
<1>1. fat' = fat /\ heads \subseteq Cluster
  BY OnlyPutsWrite DEF IInv, TypeOK
<1>2. ASSUME NEW h \in heads, heads' = heads \ {h} PROVE Pool!Next
  <2>1. Pool!Drop(h)
    BY <1>1, <1>2, SameTable DEF Pool!Drop
  <2> QED BY <1>1, <2>1, SameTable DEF Pool!Next
<1>3. CASE WalkEndTrim(t)
  <2>1. chain[t] \in heads
    BY <1>3 DEF WalkEndTrim, IInv, CallOK, WalkOK, OnChain
  <2> QED BY <1>1, <1>2, <1>3, <2>1 DEF WalkEndTrim
<1>4. CASE Return(t)
  <2>1. CASE op[t] = "alloc" /\ pc[t] = "ok"
    <3>1. number[t] \in Cluster /\ Detached(fat[0], heads, number[t])
      BY <2>1 DEF IInv, HeldOK, Held, Holds, Loose
    <3>2. Pool!Register(number[t])
      BY <1>1, <1>4, <2>1, <3>1, SameTable DEF Return, Pool!Register
    <3> QED BY <3>1, <3>2, SameTable DEF Pool!Next
  <2>2. CASE ~(op[t] = "alloc" /\ pc[t] = "ok")
    BY <1>1, <1>4, <2>2 DEF Return
  <2> QED BY <2>1, <2>2
<1>5. CASE \E h \in heads : CallFree(t, h)
  BY <1>2, <1>5 DEF CallFree
<1> QED BY <1>1, <1>3, <1>4, <1>5, OnlyThreeRecord

\* ClusterAlloc implements ClusterPool: however the calls interleave between
\* allocations that exclude each other, whatever fails and whenever the system
\* crashes, the table that is read only ever changes by taking a free cluster,
\* appending or releasing one that nothing refers to, or cutting a chain, until a
\* call goes by a stale entry.
THEOREM ImplementsPool == Excluded => (Spec => PoolUntilTorn)
<1> SUFFICES ASSUME Excluded PROVE Spec => PoolUntilTorn
  OBVIOUS
<1>1. Init => Pool!Init
  BY InitEstablishes, SameTable, ConstantsAssumption DEF IInv, TypeOK, Formed, Pool!Init
<1>2. SafeInv /\ [Next]_vars => [torn' \/ Pool!Next]_<<fat[0], heads>>
  <2> SUFFICES ASSUME SafeInv, [Next]_vars, ~torn' PROVE Pool!Next \/ UNCHANGED <<fat[0], heads>>
    OBVIOUS
  <2>1. CASE CrashAndMount \/ UNCHANGED vars
    BY <2>1 DEF CrashAndMount, vars, disk
  <2>2. IInv
    BY TornStays DEF SafeInv, TypeInv
  <2> QED BY <2>1, <2>2, PutRefines, RecordRefines DEF Next
<1>3. Spec => []SafeInv
  BY AlwaysSafe
<1> QED BY <1>1, <1>2, <1>3, PTL DEF Spec, PoolUntilTorn
=============================================================================
