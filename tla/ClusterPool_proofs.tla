--------------------------- MODULE ClusterPool_proofs ---------------------------
(* The pool keeps what it promises, for every number of clusters. *)
EXTENDS ClusterPool, FatTable_proofs

\* Type correctness and well-formedness of the chains are inductive together.
PoolInv == TypeOK /\ WellFormed(link, heads)

\* Each of the six steps of the pool keeps the chains well formed.
LEMMA PoolStep == PoolInv /\ [Next]_poolVars => PoolInv'
<1> SUFFICES ASSUME PoolInv, [Next]_poolVars PROVE PoolInv'
  OBVIOUS
<1> USE DEF PoolInv, TypeOK
<1>1. ASSUME NEW c \in Cluster, Take(c) PROVE PoolInv'
  BY <1>1, TakeKeeps DEF Take
<1>2. ASSUME NEW c \in Cluster, NEW l \in Cluster, Append(l, c) PROVE PoolInv'
  BY <1>2, AppendKeeps DEF Append
<1>3. ASSUME NEW c \in Cluster, Cut(c) PROVE PoolInv'
  BY <1>3, CutKeeps DEF Cut
<1>4. ASSUME NEW c \in Cluster, Release(c) PROVE PoolInv'
  BY <1>4, ReleaseKeeps DEF Release
<1>5. ASSUME NEW c \in Cluster, Register(c) PROVE PoolInv'
  BY <1>5, RegisterKeeps DEF Register
<1>6. ASSUME NEW c \in Cluster, Drop(c) PROVE PoolInv'
  BY <1>6, DropKeeps DEF Drop
<1>7. CASE UNCHANGED poolVars
  BY <1>7 DEF poolVars, WellFormed, LinksInUse, LinksInjective, HeadsInUse, HeadsUnlinked, Linked
<1> QED BY <1>1, <1>2, <1>3, <1>4, <1>5, <1>6, <1>7 DEF Next

\* The chains the directories refer to are disjoint lists of allocated clusters
\* in every state of the pool.
THEOREM PoolWellFormed == Spec => []PoolInv
<1>1. Init => PoolInv
  BY DEF Init, PoolInv, TypeOK
<1> QED BY <1>1, PoolStep, PTL DEF Spec
=============================================================================
