------------------------------- MODULE FatTable -------------------------------
(***************************************************************************)
(* The file allocation table: what one copy of it holds and what it means  *)
(* for it to be well formed (libfat/src/table.rs).  A table is a function  *)
(* from data clusters to values.  A value is a cluster number (the chain   *)
(* goes on there) or one of three marks, so a chain is a linked list laid  *)
(* out in an array.                                                        *)
(***************************************************************************)
EXTENDS Integers, FiniteSets

CONSTANT ClusterCount   \* boot_record.cluster_count: one past the last cluster

\* initialize_cache adds the two reserved entries to the count of data clusters,
\* and a volume has at least one data cluster.
ASSUME ClusterCountAssumption == ClusterCount \in Nat /\ ClusterCount >= 3

Cluster == 2..(ClusterCount - 1)

Free       == 0
EndOfChain == -1
Bad        == -2

FatValue == Cluster \union {Free, EndOfChain, Bad}

Table == [Cluster -> FatValue]

\* FatValue::Data(n)
IsData(v) == v \in Cluster

\* An entry that belongs to a chain: it continues it or ends it.
InChain(v) == IsData(v) \/ v = EndOfChain

\* get_free_cluster_count
FreeClusters(F) == {c \in Cluster : F[c] = Free}

\* S loses no cluster when a link is followed.
FollowsLinks(F, S) == \A c \in S : IsData(F[c]) => F[c] \in S

\* The clusters FatClusterIter comes to from c: c, and whatever a link of one of
\* them leads to.
Chain(F, c) == {d \in Cluster : \A S \in SUBSET Cluster :
                                    c \in S /\ FollowsLinks(F, S) => d \in S}

\* Some entry of F continues at c.
Linked(F, c) == \E d \in Cluster : F[d] = c

(***************************************************************************)
(* The four conditions under which the chains that start at the clusters H *)
(* (the start clusters of the directory entries) are disjoint lists of     *)
(* allocated clusters.                                                     *)
(***************************************************************************)
LinksInUse(F)       == \A c \in Cluster : IsData(F[c]) => InChain(F[F[c]])
LinksInjective(F)   == \A c, d \in Cluster : IsData(F[c]) /\ F[c] = F[d] => c = d
HeadsInUse(F, H)    == \A h \in H : InChain(F[h])
HeadsUnlinked(F, H) == \A h \in H : ~Linked(F, h)

WellFormed(F, H) == /\ LinksInUse(F)
                    /\ LinksInjective(F)
                    /\ HeadsInUse(F, H)
                    /\ HeadsUnlinked(F, H)

\* In use, but in no chain that starts at a cluster of H.
Detached(F, H, c) == InChain(F[c]) /\ c \notin H /\ ~Linked(F, c)
=============================================================================
