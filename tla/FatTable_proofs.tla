---------------------------- MODULE FatTable_proofs ----------------------------
(***************************************************************************)
(* What each of the five legal writes to a table, and the two changes of   *)
(* the set of start clusters, do to well-formedness and to the chains: the *)
(* lemmas on which the proofs about ClusterPool, ClusterAlloc and FatFile  *)
(* rest.                                                                   *)
(***************************************************************************)
EXTENDS FatTable, TLAPS

\* The marks are not cluster numbers: cluster numbers start at 2.
LEMMA MarksAreNotClusters ==
    /\ Free \notin Cluster /\ EndOfChain \notin Cluster /\ Bad \notin Cluster
    /\ Free # EndOfChain /\ Free # Bad /\ EndOfChain # Bad
  BY ClusterCountAssumption DEF Cluster, Free, EndOfChain, Bad

\* Marking a free cluster as the end of a chain (the first write of alloc_cluster)
\* keeps the chains well formed, and nothing refers to the cluster taken.
LEMMA TakeKeeps ==
    ASSUME NEW F \in Table, NEW H \in SUBSET Cluster, WellFormed(F, H),
           NEW c \in Cluster, F[c] = Free,
           NEW G, G = [F EXCEPT ![c] = EndOfChain]
    PROVE  G \in Table /\ WellFormed(G, H) /\ Detached(G, H, c)
<1>1. G \in Table
  BY DEF Table, FatValue
<1>2. \A d \in Cluster : G[d] = IF d = c THEN EndOfChain ELSE F[d]
  BY DEF Table
<1>3. ~InChain(F[c])
  BY MarksAreNotClusters DEF InChain, IsData
<1>4. ~Linked(F, c)
  BY <1>3 DEF WellFormed, LinksInUse, Linked, IsData
<1>5. LinksInUse(G)
  BY <1>2, MarksAreNotClusters DEF WellFormed, LinksInUse, InChain, IsData
<1>6. LinksInjective(G)
  BY <1>2, MarksAreNotClusters DEF WellFormed, LinksInjective, IsData
<1>7. HeadsInUse(G, H)
  BY <1>2 DEF WellFormed, HeadsInUse, InChain
<1>8. \A d \in Cluster : Linked(G, d) => Linked(F, d)
  BY <1>2, MarksAreNotClusters DEF Linked
<1>9. HeadsUnlinked(G, H)
  BY <1>8 DEF WellFormed, HeadsUnlinked
<1>10. c \notin H
  BY <1>3 DEF WellFormed, HeadsInUse
<1>11. Detached(G, H, c)
  BY <1>2, <1>4, <1>8, <1>10 DEF Detached, InChain
<1> QED BY <1>1, <1>5, <1>6, <1>7, <1>9, <1>11 DEF WellFormed

\* Linking the last cluster of a chain to a detached last cluster (the second
\* write of an extending alloc_cluster) keeps the chains well formed.
LEMMA AppendKeeps ==
    ASSUME NEW F \in Table, NEW H \in SUBSET Cluster, WellFormed(F, H),
           NEW l \in Cluster, NEW c \in Cluster, l # c,
           F[l] = EndOfChain, F[c] = EndOfChain, Detached(F, H, c),
           NEW G, G = [F EXCEPT ![l] = c]
    PROVE  G \in Table /\ WellFormed(G, H)
<1>1. G \in Table
  BY DEF Table, FatValue
<1>2. \A d \in Cluster : G[d] = IF d = l THEN c ELSE F[d]
  BY DEF Table
<1>3. LinksInUse(G)
  BY <1>2 DEF WellFormed, LinksInUse, InChain, IsData
<1>4. LinksInjective(G)
  BY <1>2 DEF WellFormed, LinksInjective, Detached, Linked, IsData
<1>5. HeadsInUse(G, H)
  BY <1>2 DEF WellFormed, HeadsInUse, InChain, IsData
<1>6. HeadsUnlinked(G, H)
  BY <1>2 DEF WellFormed, HeadsUnlinked, Detached, Linked
<1> QED BY <1>1, <1>3, <1>4, <1>5, <1>6 DEF WellFormed

\* Ending a chain at one of its clusters (the first write of free_cluster with a
\* previous cluster) detaches what followed.
LEMMA CutKeeps ==
    ASSUME NEW F \in Table, NEW H \in SUBSET Cluster, WellFormed(F, H),
           NEW p \in Cluster, IsData(F[p]),
           NEW G, G = [F EXCEPT ![p] = EndOfChain]
    PROVE  G \in Table /\ WellFormed(G, H) /\ Detached(G, H, F[p])
<1>1. G \in Table
  BY DEF Table, FatValue
<1>2. \A d \in Cluster : G[d] = IF d = p THEN EndOfChain ELSE F[d]
  BY DEF Table
<1>3. LinksInUse(G)
  BY <1>2, MarksAreNotClusters DEF WellFormed, LinksInUse, InChain, IsData
<1>4. LinksInjective(G)
  BY <1>2, MarksAreNotClusters DEF WellFormed, LinksInjective, IsData
<1>5. HeadsInUse(G, H)
  BY <1>2 DEF WellFormed, HeadsInUse, InChain
<1>6. HeadsUnlinked(G, H)
  BY <1>2, MarksAreNotClusters DEF WellFormed, HeadsUnlinked, Linked
<1>7. InChain(G[F[p]])
  BY <1>2 DEF WellFormed, LinksInUse, InChain, IsData
<1>8. F[p] \notin H
  BY DEF WellFormed, HeadsUnlinked, Linked, IsData
<1>9. ~Linked(G, F[p])
  BY <1>2, MarksAreNotClusters DEF WellFormed, LinksInjective, Linked, IsData
<1> QED BY <1>1, <1>3, <1>4, <1>5, <1>6, <1>7, <1>8, <1>9 DEF WellFormed, Detached

\* Freeing a detached cluster (the loop of free_cluster) keeps the chains well
\* formed and detaches the cluster that followed it.
LEMMA ReleaseKeeps ==
    ASSUME NEW F \in Table, NEW H \in SUBSET Cluster, WellFormed(F, H),
           NEW c \in Cluster, Detached(F, H, c),
           NEW G, G = [F EXCEPT ![c] = Free]
    PROVE  /\ G \in Table
           /\ WellFormed(G, H)
           /\ IsData(F[c]) => Detached(G, H, F[c])
<1>1. G \in Table
  BY DEF Table, FatValue
<1>2. \A d \in Cluster : G[d] = IF d = c THEN Free ELSE F[d]
  BY DEF Table
<1>3. LinksInUse(G)
  BY <1>2, MarksAreNotClusters DEF WellFormed, LinksInUse, Detached, Linked, InChain, IsData
<1>4. LinksInjective(G)
  BY <1>2, MarksAreNotClusters DEF WellFormed, LinksInjective, IsData
<1>5. HeadsInUse(G, H)
  BY <1>2 DEF WellFormed, HeadsInUse, Detached
<1>6. HeadsUnlinked(G, H)
  BY <1>2, MarksAreNotClusters DEF WellFormed, HeadsUnlinked, Linked
<1>7. ASSUME IsData(F[c]) PROVE Detached(G, H, F[c])
  <2>1. F[c] # c
    BY <1>7 DEF Detached, Linked
  <2>2. InChain(G[F[c]])
    BY <1>2, <1>7, <2>1 DEF WellFormed, LinksInUse, IsData
  <2>3. F[c] \notin H
    BY <1>7 DEF WellFormed, HeadsUnlinked, Linked, IsData
  <2>4. ~Linked(G, F[c])
    BY <1>2, <1>7, MarksAreNotClusters DEF WellFormed, LinksInjective, Linked, IsData
  <2> QED BY <2>2, <2>3, <2>4 DEF Detached
<1> QED BY <1>1, <1>3, <1>4, <1>5, <1>6, <1>7 DEF WellFormed

\* Recording a detached cluster as a start cluster keeps the chains well formed.
LEMMA RegisterKeeps ==
    ASSUME NEW F \in Table, NEW H \in SUBSET Cluster, WellFormed(F, H),
           NEW c \in Cluster, Detached(F, H, c)
    PROVE  WellFormed(F, H \union {c})
  BY DEF WellFormed, HeadsInUse, HeadsUnlinked, Detached

\* Dropping a start cluster keeps the chains well formed and detaches it.
LEMMA DropKeeps ==
    ASSUME NEW F \in Table, NEW H \in SUBSET Cluster, WellFormed(F, H), NEW h \in H
    PROVE  WellFormed(F, H \ {h}) /\ Detached(F, H \ {h}, h)
  BY DEF WellFormed, HeadsInUse, HeadsUnlinked, Detached
\* With fewer start clusters there is less to show.
LEMMA FewerHeads ==
    ASSUME NEW F, NEW H, NEW J \in SUBSET H, WellFormed(F, H)
    PROVE  WellFormed(F, J)
  BY DEF WellFormed, HeadsInUse, HeadsUnlinked

-----------------------------------------------------------------------------
(* Chains *)

\* A chain begins at its start and loses nothing when a link is followed,
LEMMA ChainFollows ==
    ASSUME NEW F, NEW c \in Cluster
    PROVE  /\ c \in Chain(F, c)
           /\ Chain(F, c) \subseteq Cluster
           /\ FollowsLinks(F, Chain(F, c))
  BY DEF Chain, FollowsLinks, IsData

\* and it is the least such set.
LEMMA ChainLeast ==
    ASSUME NEW F, NEW c \in Cluster, NEW S \in SUBSET Cluster, c \in S, FollowsLinks(F, S)
    PROVE  Chain(F, c) \subseteq S
  BY DEF Chain

\* Each cluster of a chain but the first is linked by another one of it.
LEMMA ChainPredecessor ==
    ASSUME NEW F, NEW c \in Cluster, NEW d \in Chain(F, c), d # c
    PROVE  \E e \in Chain(F, c) : F[e] = d
<1> SUFFICES ASSUME \A e \in Chain(F, c) : F[e] # d PROVE FALSE
  OBVIOUS
<1> DEFINE S == Chain(F, c) \ {d}
<1>1. c \in S /\ S \in SUBSET Cluster
  BY ChainFollows
<1>2. FollowsLinks(F, S)
  BY ChainFollows DEF FollowsLinks
<1>3. Chain(F, c) \subseteq S
  <2> HIDE DEF S
  <2> QED BY <1>1, <1>2, ChainLeast
<1> QED BY <1>3

\* No chain comes to a cluster that nothing links, unless it starts there.
LEMMA ChainMissesUnlinked ==
    ASSUME NEW F, NEW c \in Cluster, NEW r \in Cluster, ~Linked(F, r), c # r
    PROVE  r \notin Chain(F, c)
  BY ChainPredecessor, ChainFollows DEF Linked

\* A chain with one cluster.
LEMMA ChainOfOne ==
    ASSUME NEW F, NEW c \in Cluster, ~IsData(F[c])
    PROVE  Chain(F, c) = {c}
<1>1. FollowsLinks(F, {c})
  BY DEF FollowsLinks
<1> QED BY <1>1, ChainLeast, ChainFollows

\* The clusters of a well-formed chain are in use,
LEMMA ChainInUse ==
    ASSUME NEW F, NEW H \in SUBSET Cluster, WellFormed(F, H), NEW h \in H
    PROVE  \A d \in Chain(F, h) : d \in Cluster /\ InChain(F[d])
<1> DEFINE S == {d \in Cluster : InChain(F[d])}
<1>1. h \in S /\ S \in SUBSET Cluster
  BY DEF WellFormed, HeadsInUse
<1>2. FollowsLinks(F, S)
  BY DEF WellFormed, LinksInUse, FollowsLinks, IsData
<1>3. Chain(F, h) \subseteq S
  <2> HIDE DEF S
  <2> QED BY <1>1, <1>2, ChainLeast
<1> QED BY <1>3

\* and two of them share no cluster.
LEMMA ChainsDisjoint ==
    ASSUME NEW F, NEW H \in SUBSET Cluster, WellFormed(F, H), NEW g \in H, NEW h \in H, g # h
    PROVE  Chain(F, g) \cap Chain(F, h) = {}
<1> DEFINE S == Chain(F, g) \ Chain(F, h)
<1>1. ~Linked(F, g) /\ ~Linked(F, h)
  BY DEF WellFormed, HeadsUnlinked
<1>2. g \in S /\ S \in SUBSET Cluster
  BY <1>1, ChainFollows, ChainMissesUnlinked
<1>3. ASSUME NEW e \in S, IsData(F[e]) PROVE F[e] \in S
  <2>1. F[e] \in Chain(F, g) /\ e \in Cluster
    BY <1>3, ChainFollows DEF FollowsLinks
  <2>2. ASSUME F[e] \in Chain(F, h) PROVE FALSE
    <3>1. F[e] # h
      BY <1>1, <2>1 DEF Linked
    <3>2. PICK d \in Chain(F, h) : F[d] = F[e]
      BY <2>2, <3>1, ChainPredecessor
    <3>3. d = e
      BY <1>3, <2>1, <3>2, ChainFollows DEF WellFormed, LinksInjective
    <3> QED BY <3>3
  <2> QED BY <2>1, <2>2
<1>4. FollowsLinks(F, S)
  BY <1>3 DEF FollowsLinks
<1>5. Chain(F, g) \subseteq S
  <2> HIDE DEF S
  <2> QED BY <1>2, <1>4, ChainLeast
<1> QED BY <1>5

\* A write outside a chain leaves it as it was.
LEMMA ChainKept ==
    ASSUME NEW F, NEW G, NEW c \in Cluster, \A d \in Chain(F, c) : G[d] = F[d]
    PROVE  Chain(G, c) = Chain(F, c)
<1>1. Chain(G, c) \subseteq Chain(F, c)
  <2>1. FollowsLinks(G, Chain(F, c))
    BY ChainFollows DEF FollowsLinks
  <2> QED BY <2>1, ChainFollows, ChainLeast
<1>2. Chain(F, c) \subseteq Chain(G, c)
  <2>1. FollowsLinks(F, Chain(G, c))
    BY <1>1, ChainFollows DEF FollowsLinks
  <2> QED BY <2>1, ChainFollows, ChainLeast
<1> QED BY <1>1, <1>2

\* While its links stay, a chain loses nothing.
LEMMA ChainSurvives ==
    ASSUME NEW F, NEW G, NEW c \in Cluster,
           \A d \in Chain(F, c) : IsData(F[d]) => G[d] = F[d]
    PROVE  Chain(F, c) \subseteq Chain(G, c)
<1> DEFINE S == Chain(F, c) \cap Chain(G, c)
<1>1. c \in S /\ S \in SUBSET Cluster
  BY ChainFollows
<1>2. FollowsLinks(F, S)
  BY ChainFollows DEF FollowsLinks
<1> QED BY <1>1, <1>2, ChainLeast

\* Linking the last cluster of a chain to a last cluster makes it longer by that
\* one.
LEMMA ChainAppended ==
    ASSUME NEW F, NEW r \in Cluster, NEW l \in Chain(F, r), ~IsData(F[l]),
           NEW c \in Cluster, c # l, ~IsData(F[c]),
           NEW G, G[l] = c, \A d \in Cluster : d # l => G[d] = F[d]
    PROVE  Chain(G, r) = Chain(F, r) \union {c}
<1>1. l \in Cluster /\ \A d \in Cluster : G[d] = IF d = l THEN c ELSE F[d]
  BY ChainFollows
<1>2. Chain(G, r) \subseteq Chain(F, r) \union {c}
  <2> DEFINE S == Chain(F, r) \union {c}
  <2>1. r \in S /\ S \in SUBSET Cluster
    BY ChainFollows
  <2>2. FollowsLinks(G, S)
    BY <1>1, ChainFollows DEF FollowsLinks
  <2> HIDE DEF S
  <2>3. Chain(G, r) \subseteq S
    BY <2>1, <2>2, ChainLeast
  <2> QED BY <2>3 DEF S
<1>3. Chain(F, r) \subseteq Chain(G, r)
  <2>1. FollowsLinks(F, Chain(G, r))
    BY <1>1, ChainFollows DEF FollowsLinks
  <2> QED BY <2>1, ChainFollows, ChainLeast
<1>4. c \in Chain(G, r)
  BY <1>1, <1>3, ChainFollows DEF FollowsLinks, IsData
<1> QED BY <1>2, <1>3, <1>4

\* Ending a chain before its last cluster makes it shorter by that one.
LEMMA ChainShortened ==
    ASSUME NEW F \in Table, NEW H \in SUBSET Cluster, WellFormed(F, H), NEW r \in H,
           NEW p \in Chain(F, r), IsData(F[p]), ~IsData(F[F[p]]),
           NEW G, G = [F EXCEPT ![p] = EndOfChain]
    PROVE  Chain(G, r) = Chain(F, r) \ {F[p]}
<1>1. p \in Cluster /\ \A d \in Cluster : G[d] = IF d = p THEN EndOfChain ELSE F[d]
  BY ChainFollows DEF Table
<1>2. Chain(G, r) \subseteq Chain(F, r) \ {F[p]}
  <2> DEFINE S == Chain(F, r) \ {F[p]}
  <2>1. r # F[p]
    BY <1>1 DEF WellFormed, HeadsUnlinked, Linked
  <2>2. r \in S /\ S \in SUBSET Cluster
    BY <2>1, ChainFollows
  <2>3. ASSUME NEW e \in S, IsData(G[e]) PROVE G[e] \in S
    <3>1. e \in Cluster /\ e # p /\ G[e] = F[e]
      BY <1>1, <2>2, <2>3, MarksAreNotClusters DEF IsData
    <3>2. F[e] # F[p]
      BY <1>1, <2>3, <3>1 DEF WellFormed, LinksInjective
    <3> QED BY <2>3, <3>1, <3>2, ChainFollows DEF FollowsLinks
  <2>4. FollowsLinks(G, S)
    BY <2>3 DEF FollowsLinks
  <2> HIDE DEF S
  <2>5. Chain(G, r) \subseteq S
    BY <2>2, <2>4, ChainLeast
  <2> QED BY <2>5 DEF S
<1>3. Chain(F, r) \subseteq Chain(G, r) \union {F[p]}
  <2> DEFINE S == Chain(G, r) \union {F[p]}
  <2>1. r \in S /\ S \in SUBSET Cluster
    BY ChainFollows DEF IsData
  <2>2. FollowsLinks(F, S)
    BY <1>1, ChainFollows DEF FollowsLinks
  <2> HIDE DEF S
  <2>3. Chain(F, r) \subseteq S
    BY <2>1, <2>2, ChainLeast
  <2> QED BY <2>3 DEF S
<1> QED BY <1>2, <1>3
\* Behind its first cluster a chain is the chain of the next one, whatever is
\* written to the first.
LEMMA ChainRest ==
    ASSUME NEW F, NEW c \in Cluster, IsData(F[c]),
           NEW G, \A d \in Cluster : d # c => G[d] = F[d]
    PROVE  Chain(F, c) \subseteq {c} \union Chain(G, F[c])
<1> DEFINE S == {c} \union Chain(G, F[c])
<1>1. c \in S /\ S \in SUBSET Cluster
  BY ChainFollows DEF IsData
<1>2. FollowsLinks(F, S)
  BY ChainFollows DEF FollowsLinks, IsData
<1> HIDE DEF S
<1>3. Chain(F, c) \subseteq S
  BY <1>1, <1>2, ChainLeast
<1> QED BY <1>3 DEF S
\* Freeing the last cluster of a chain, after the end of the chain was put before it.
LEMMA FreeLastKeeps ==
    ASSUME NEW F \in Table, NEW H \in SUBSET Cluster, WellFormed(F, H), NEW r \in H,
           NEW f \in Chain(F, r), f # r, F[f] = EndOfChain,
           NEW G, G = [x \in Cluster |-> IF x = f THEN Free ELSE IF F[x] = f THEN EndOfChain ELSE F[x]]
    PROVE  /\ G \in Table /\ WellFormed(G, H)
           /\ Chain(G, r) = Chain(F, r) \ {f}
           /\ \A h \in H : h # r => Chain(G, h) = Chain(F, h) /\ \A x \in Chain(F, h) : G[x] = F[x]
           /\ G[f] = Free /\ \A x \in Cluster : G[x] = Free => x = f \/ F[x] = Free
<1>1. r \in Cluster /\ f \in Cluster /\ ~IsData(F[f])
  BY ChainFollows, MarksAreNotClusters DEF IsData
<1>2. PICK e \in Chain(F, r) : F[e] = f
  BY <1>1, ChainPredecessor
<1>3. e \in Cluster /\ IsData(F[e]) /\ e # f
  BY <1>1, <1>2, ChainFollows DEF IsData
<1> DEFINE G1 == [F EXCEPT ![e] = EndOfChain]
<1>4. G1 \in Table /\ WellFormed(G1, H) /\ Detached(G1, H, f)
  BY <1>2, <1>3, CutKeeps
<1>5. Chain(G1, r) = Chain(F, r) \ {f}
  BY <1>1, <1>2, <1>3, ChainShortened
<1>6. G = [G1 EXCEPT ![f] = Free]
  <2>1. ASSUME NEW x \in Cluster PROVE F[x] = f <=> x = e
    BY <1>1, <1>2, <1>3 DEF WellFormed, LinksInjective
  <2>2. G = [x \in Cluster |-> IF x = f THEN Free ELSE IF x = e THEN EndOfChain ELSE F[x]]
    BY <2>1
  <2>3. F \in [Cluster -> FatValue]
    BY DEF Table
  <2>4. [G1 EXCEPT ![f] = Free] = [x \in Cluster |-> IF x = f THEN Free ELSE IF x = e THEN EndOfChain ELSE F[x]]
    BY <1>1, <1>3, <2>3
  <2> QED BY <2>2, <2>4
<1>7. \A x \in Cluster : G[x] = IF x = f THEN Free ELSE IF x = e THEN EndOfChain ELSE F[x]
  BY <1>3, <1>6 DEF Table
<1>8. G1 \in [Cluster -> FatValue] /\ \A x \in Cluster : x # f => G[x] = G1[x]
  BY <1>4, <1>6 DEF Table
<1> HIDE DEF G1
<1>9. G \in Table /\ WellFormed(G, H)
  BY <1>1, <1>4, <1>6, ReleaseKeeps
<1>10. Chain(G, r) = Chain(F, r) \ {f}
  <2>1. \A x \in Chain(G1, r) : G[x] = G1[x]
    BY <1>1, <1>5, <1>8, ChainFollows
  <2> QED BY <1>1, <1>5, <2>1, ChainKept
<1>11. ASSUME NEW h \in H, h # r PROVE Chain(G, h) = Chain(F, h) /\ \A x \in Chain(F, h) : G[x] = F[x]
  <2>1. Chain(F, h) \cap Chain(F, r) = {} /\ h \in Cluster
    BY <1>11, ChainsDisjoint
  <2>2. \A x \in Chain(F, h) : G[x] = F[x]
    BY <1>2, <1>7, <2>1, ChainFollows
  <2> QED BY <2>1, <2>2, ChainKept
<1> QED BY <1>1, <1>7, <1>9, <1>10, <1>11, MarksAreNotClusters

\* Freeing a whole chain whose start is dropped leaves the other chains alone.
LEMMA FreeChainKeeps ==
    ASSUME NEW F \in Table, NEW H \in SUBSET Cluster, WellFormed(F, H), NEW r \in H,
           NEW G, G = [x \in Cluster |-> IF x \in Chain(F, r) THEN Free ELSE F[x]]
    PROVE  /\ G \in Table /\ WellFormed(G, H \ {r})
           /\ \A h \in H \ {r} : Chain(G, h) = Chain(F, h) /\ Chain(F, h) \cap Chain(F, r) = {}
           /\ \A x \in Cluster : G[x] = Free <=> x \in Chain(F, r) \/ F[x] = Free
<1> DEFINE C == Chain(F, r)
<1>1. r \in Cluster /\ C \subseteq Cluster /\ \A x \in Cluster : G[x] = IF x \in C THEN Free ELSE F[x]
  BY ChainFollows
<1>2. G \in Table
  BY DEF Table, FatValue
<1>3. ASSUME NEW x \in Cluster, x \notin C, IsData(F[x]) PROVE F[x] \notin C
  <2> SUFFICES ASSUME F[x] \in C PROVE FALSE
    OBVIOUS
  <2>1. F[x] # r
    BY DEF WellFormed, HeadsUnlinked, Linked
  <2>2. PICK e \in C : F[e] = F[x]
    BY <1>1, <2>1, ChainPredecessor
  <2>3. e = x
    BY <1>1, <1>3, <2>2 DEF WellFormed, LinksInjective
  <2> QED BY <1>3, <2>2, <2>3
<1>4. ASSUME NEW h \in H \ {r} PROVE h \in Cluster /\ Chain(F, h) \cap C = {} /\ h \notin C /\ Chain(G, h) = Chain(F, h)
  <2>1. h \in Cluster /\ Chain(F, h) \cap C = {}
    BY ChainsDisjoint
  <2>2. \A x \in Chain(F, h) : G[x] = F[x]
    BY <1>1, <2>1, ChainFollows
  <2> QED BY <2>1, <2>2, ChainFollows, ChainKept
<1> HIDE DEF C
<1>5. ASSUME NEW x \in Cluster, IsData(G[x]) PROVE x \notin C /\ G[x] = F[x] /\ F[x] \in Cluster /\ G[F[x]] = F[F[x]]
  <2>1. x \notin C /\ G[x] = F[x]
    BY <1>1, <1>5, MarksAreNotClusters DEF IsData
  <2> QED BY <1>1, <1>3, <1>5, <2>1 DEF IsData
<1>6. LinksInUse(G) /\ LinksInjective(G)
  BY <1>5 DEF WellFormed, LinksInUse, LinksInjective
<1>7. HeadsInUse(G, H \ {r})
  BY <1>1, <1>4 DEF WellFormed, HeadsInUse
<1>8. HeadsUnlinked(G, H \ {r})
  BY <1>4, <1>5 DEF WellFormed, HeadsUnlinked, Linked, IsData
<1>9. \A x \in Cluster : G[x] = Free <=> x \in C \/ F[x] = Free
  BY <1>1
<1> QED BY <1>2, <1>4, <1>6, <1>7, <1>8, <1>9 DEF WellFormed, C

-----------------------------------------------------------------------------
(* Numbers *)

LEMMA DivMod ==
    ASSUME NEW a \in Nat, NEW d \in Nat \ {0}
    PROVE  a \div d \in Nat /\ a % d \in Nat /\ a % d < d /\ a = (d * (a \div d)) + (a % d)
  BY SMT

\* A quotient and a remainder are the only ones.
LEMMA OneQuotient ==
    ASSUME NEW d \in Nat \ {0}, NEW q \in Nat, NEW r \in Nat, r < d
    PROVE  ((d * q) + r) \div d = q /\ ((d * q) + r) % d = r
<1>1. PICK a \in Nat : a = (d * q) + r
  BY SMT
<1>2. PICK p \in Nat, s \in Nat : s < d /\ a = (d * p) + s /\ p = a \div d /\ s = a % d
  BY DivMod
<1>3. ~(q < p)
  <2> SUFFICES ASSUME q < p PROVE FALSE
    OBVIOUS
  <2>1. (d * q) + d <= d * p
    BY SMT
  <2> QED BY <1>1, <1>2, <2>1, SMT
<1>4. ~(p < q)
  <2> SUFFICES ASSUME p < q PROVE FALSE
    OBVIOUS
  <2>1. (d * p) + d <= d * q
    BY SMT
  <2> QED BY <1>1, <1>2, <2>1, SMT
<1>5. p = q
  BY <1>3, <1>4, SMT
<1> QED BY <1>1, <1>2, <1>5, SMT
=============================================================================
