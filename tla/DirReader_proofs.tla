--------------------------- MODULE DirReader_proofs ---------------------------
(***************************************************************************)
(* Proofs about DirSlots and DirReader.                                    *)
(***************************************************************************)
EXTENDS DirReader, FatTable_proofs, FiniteSetTheorems, SequenceTheorems, WellFoundedInduction

(***************************************************************************)
(* Induction over numbers                                                  *)
(***************************************************************************)
\* A set of numbers that is not empty has a least member.
LEMMA Least == ASSUME NEW T \in SUBSET Nat, T # {} PROVE \E m \in T : \A n \in T : m <= n
<1> DEFINE R == {ss \in Nat \X Nat : ss[1] < ss[2]}
<1>1. IsWellFoundedOn(R, Nat)
  BY NatLessThanWellFounded, Zenon DEF OpToRel
<1> HIDE DEF R
<1>2. PICK m \in T : \A n \in T : ~(<<n, m>> \in R)
  BY <1>1, WFMin
<1>3. ASSUME NEW n \in T PROVE m <= n
  <2>1. <<n, m>> \in Nat \X Nat /\ <<n, m>>[1] = n /\ <<n, m>>[2] = m
    OBVIOUS
  <2>2. ~(n < m)
    BY <1>2, <2>1 DEF R
  <2> QED BY <2>2, SMT
<1> QED BY <1>3

\* What holds of 0 and with a number of the next holds of all up to N.
LEMMA InductUpTo ==
    ASSUME NEW N \in Nat, NEW S, 0 \in S, \A n \in 0..N : n # N /\ n \in S => n + 1 \in S
    PROVE  0..N \subseteq S
<1> DEFINE T == (0..N) \ S
<1> SUFFICES ASSUME T # {} PROVE FALSE
  OBVIOUS
<1>1. PICK m \in T : \A n \in T : m <= n
  <2>1. T \in SUBSET Nat
    OBVIOUS
  <2> HIDE DEF T
  <2> QED BY <2>1, Least
<1>2. m - 1 \in 0..N /\ m - 1 \notin T /\ m - 1 # N
  BY <1>1, SMT
<1> QED BY <1>1, <1>2, SMT

\* Min of a set of numbers is its least member.
LEMMA MinOf == ASSUME NEW T \in SUBSET Nat, T # {} PROVE Min(T) \in T /\ \A n \in T : Min(T) <= n
  BY Least DEF Min

\* What is computed step by step, the n-th step from the number n and what is there.
StepsOf(N, V) == [(1..N) \X V -> V]

IsRun(N, V, v0, Step, f) ==
    f \in [0..N -> V] /\ f[0] = v0 /\ \A n \in 1..N : f[n] = Step[<<n, f[n - 1]>>]

\* A function that is defined step by step exists.
LEMMA RunExists ==
    ASSUME NEW N \in Nat, NEW V, NEW v0 \in V, NEW Step \in StepsOf(N, V)
    PROVE  \E f : IsRun(N, V, v0, Step, f)
<1>0. Step \in [(1..N) \X V -> V]
  BY DEF StepsOf
<1> DEFINE S == {n \in Nat : n <= N => \E f \in [0..n -> V] : f[0] = v0 /\ \A k \in 1..n : f[k] = Step[<<k, f[k - 1]>>]}
<1>1. 0 \in S
  <2> DEFINE g == [n \in 0..0 |-> v0]
  <2>1. g \in [0..0 -> V] /\ g[0] = v0 /\ \A k \in 1..0 : g[k] = Step[<<k, g[k - 1]>>]
    OBVIOUS
  <2> HIDE DEF g
  <2> QED BY <2>1
<1>2. ASSUME NEW n \in S, n < N PROVE n + 1 \in S
  <2>1. PICK f \in [0..n -> V] : f[0] = v0 /\ \A k \in 1..n : f[k] = Step[<<k, f[k - 1]>>]
    BY <1>2
  <2> DEFINE g == [k \in 0..(n + 1) |-> IF k = n + 1 THEN Step[<<n + 1, f[n]>>] ELSE f[k]]
  <2>2. n \in Nat /\ f[n] \in V /\ n + 1 \in 1..N
    BY <1>2
  <2>3. g \in [0..(n + 1) -> V] /\ g[0] = v0
    BY <1>0, <2>1, <2>2
  <2>4. ASSUME NEW k \in 1..(n + 1) PROVE g[k] = Step[<<k, g[k - 1]>>]
    <3>1. CASE k = n + 1
      <4>1. k - 1 = n /\ n \in 0..(n + 1) /\ n # n + 1 /\ n + 1 \in 0..(n + 1)
        BY <2>2, <3>1
      <4>2. g[n] = f[n] /\ g[n + 1] = Step[<<n + 1, f[n]>>]
        BY <4>1
      <4> HIDE DEF g
      <4> QED BY <3>1, <4>1, <4>2
    <3>2. CASE k # n + 1
      <4>1. k \in 1..n /\ k \in 0..(n + 1) /\ k - 1 \in 0..(n + 1) /\ k - 1 # n + 1
        BY <2>2, <3>2
      <4>2. g[k] = f[k] /\ g[k - 1] = f[k - 1]
        BY <3>2, <4>1
      <4> HIDE DEF g
      <4> QED BY <2>1, <4>1, <4>2
    <3> QED BY <3>1, <3>2
  <2> HIDE DEF g
  <2> QED BY <2>2, <2>3, <2>4
<1> HIDE DEF S
<1>3. 0..N \subseteq S
  <2>1. \A n \in 0..N : n # N /\ n \in S => n + 1 \in S
    BY <1>2
  <2> QED BY <1>1, <2>1, InductUpTo
<1>4. N \in S
  BY <1>3
<1>5. \E f \in [0..N -> V] : f[0] = v0 /\ \A n \in 1..N : f[n] = Step[<<n, f[n - 1]>>]
  BY <1>4 DEF S
<1> QED BY <1>5 DEF IsRun

(***************************************************************************)
(* The clusters of a directory                                             *)
(***************************************************************************)

\* There are ClusterCount - 2 clusters.
LEMMA ClustersFinite ==
    IsFiniteSet(Cluster) /\ Cardinality(Cluster) = ClusterCount - 2 /\ Cardinality(Cluster) \in Nat \ {0}
  BY ClusterCountAssumption, FS_Interval, SMTT(60) DEF Cluster

\* cs is the chain from c in table F, and F links no other clusters.
IsChain(F, c, cs) ==
    /\ cs \in Seq(Cluster) /\ Len(cs) >= 1 /\ cs[1] = c
    /\ \A i, j \in 1..Len(cs) : cs[i] = cs[j] => i = j
    /\ \A i \in 1..(Len(cs) - 1) : F[cs[i]] = cs[i + 1]
    /\ F[cs[Len(cs)]] = EndOfChain
    /\ \A d \in Cluster : (\A i \in 1..Len(cs) : cs[i] # d) => F[d] \in {Free, EndOfChain}

\* A chain has no more clusters than there are.
LEMMA ChainFits == ASSUME NEW F, NEW c, NEW cs, IsChain(F, c, cs) PROVE Len(cs) <= Cardinality(Cluster)
<1>1. cs \in Seq(Cluster) /\ Len(cs) \in Nat \ {0} /\ \A i, j \in 1..Len(cs) : cs[i] = cs[j] => i = j
  BY DEF IsChain
<1> DEFINE n == Len(cs)
<1>2. cs \in [1..n -> Cluster] /\ IsFiniteSet(1..n) /\ Cardinality(1..n) = n
  <2>1. ASSUME NEW u \in Seq(Cluster) PROVE u \in [1..Len(u) -> Cluster]
    OBVIOUS
  <2>2. ASSUME NEW m \in Nat \ {0} PROVE IsFiniteSet(1..m) /\ Cardinality(1..m) = m
    BY FS_Interval
  <2> QED BY <1>1, <2>1, <2>2
<1> HIDE DEF n
<1>3. cs \in Injection(1..n, Cluster)
  BY <1>1, <1>2 DEF Injection, IsInjective, n
<1>4. Cardinality(1..n) <= Cardinality(Cluster)
  BY <1>2, <1>3, ClustersFinite, FS_Injection
<1> QED BY <1>2, <1>4 DEF n

Follow(s) == IF Last(s) \in Cluster /\ IsData(fat[Last(s)]) THEN Append(s, fat[Last(s)]) ELSE s

\* Following the links from a cluster of the chain gives the rest of the chain.
LEMMA ChainFromIs ==
    ASSUME fat \in Table, NEW c, NEW cs, IsChain(fat, c, cs), NEW k \in 1..Len(cs)
    PROVE  ChainFrom(cs[k]) = SubSeq(cs, k, Len(cs))
<1> DEFINE N == Cardinality(Cluster)
           m == Len(cs)
           Rec(x) == x = [n \in 1..N |->
                            IF n = 1 THEN <<cs[k]>>
                            ELSE LET s == x[n - 1] IN
                                 IF Last(s) \in Cluster /\ IsData(fat[Last(s)])
                                   THEN Append(s, fat[Last(s)]) ELSE s]
           End(n) == IF k + n - 1 <= m THEN k + n - 1 ELSE m
           w == [n \in 1..N |-> SubSeq(cs, k, End(n))]
<1>1. N \in Nat \ {0} /\ m \in Nat \ {0} /\ m <= N /\ cs \in Seq(Cluster) /\ k \in 1..m
  BY ClustersFinite, ChainFits DEF IsChain
<1>2. ASSUME NEW n \in 1..N PROVE w[n] = SubSeq(cs, k, End(n)) /\ End(n) \in k..m
  <2>1. n \in Nat /\ n >= 1 /\ k \in Nat
    BY <1>1
  <2>2. End(n) \in k..m
    BY <1>1, <2>1
  <2> HIDE DEF End
  <2> QED BY <2>2
<1>3. w[1] = <<cs[k]>>
  <2>1. w[1] = SubSeq(cs, k, k)
    BY <1>1, <1>2
  <2>2. SubSeq(cs, k, k) = <<cs[k]>>
    <3> DEFINE s == SubSeq(cs, k, k)
               t == <<cs[k]>>
    <3>1. s \in Seq(Cluster) /\ Len(s) = 1 /\ s[1] = cs[k]
      BY <1>1
    <3>2. t \in Seq(Cluster) /\ Len(t) = 1 /\ t[1] = cs[k]
      BY <1>1
    <3>3. \A i \in 1..Len(s) : s[i] = t[i]
      BY <3>1, <3>2
    <3> HIDE DEF s, t
    <3>4. s = t
      BY <3>1, <3>2, <3>3, SeqEqual
    <3> QED BY <3>4 DEF s, t
  <2> QED BY <2>1, <2>2
<1>4. ASSUME NEW n \in 1..N, n # 1 PROVE w[n] = Follow(w[n - 1])
  <2> DEFINE s == w[n - 1]
             e == End(n - 1)
  <2>1. n - 1 \in 1..N /\ s = SubSeq(cs, k, e) /\ e \in k..m
    BY <1>1, <1>2, <1>4
  <2> HIDE DEF w
  <2>2. s \in Seq(Cluster) /\ Len(s) = e - k + 1 /\ Len(s) \in Nat \ {0} /\ Last(s) = cs[e] /\ cs[e] \in Cluster
    BY <1>1, <2>1 DEF Last
  <2>3. CASE e = m
    <3>1. ~IsData(fat[cs[e]])
      BY <2>3, MarksAreNotClusters DEF IsChain, IsData
    <3>2. End(n) = m
      BY <1>1, <1>4, <2>3
    <3> HIDE DEF End
    <3> QED BY <1>2, <2>1, <2>2, <2>3, <3>1, <3>2 DEF Follow
  <2>4. CASE e # m
    <3>1. e \in 1..(m - 1) /\ e + 1 \in 1..m /\ End(n) = e + 1
      <4>1. n \in Nat /\ n >= 2 /\ k \in Nat /\ k >= 1 /\ m \in Nat
        BY <1>1, <1>4
      <4> HIDE DEF m
      <4>2. e = k + (n - 1) - 1 /\ e < m
        BY <2>4, <4>1
      <4>3. End(n) = e + 1
        BY <4>1, <4>2
      <4> HIDE DEF e, End
      <4> QED BY <4>1, <4>2, <4>3
    <3>2. fat[cs[e]] = cs[e + 1] /\ cs[e + 1] \in Cluster
      BY <1>1, <3>1 DEF IsChain
    <3> HIDE DEF e, End
    <3>3. SubSeq(cs, k, e + 1) = Append(SubSeq(cs, k, e), cs[e + 1])
      BY <1>1, <2>1, <3>1
    <3> QED BY <1>2, <2>1, <2>2, <3>1, <3>2, <3>3 DEF Follow, IsData
  <2> QED BY <2>3, <2>4
<1>5. Rec(w)
  <2>1. w = [n \in 1..N |-> IF n = 1 THEN <<cs[k]>> ELSE Follow(w[n - 1])]
    BY <1>1, <1>3, <1>4
  <2> QED BY <2>1 DEF Follow
<1> DEFINE W == CHOOSE x : Rec(x)
<1>6. Rec(W)
  BY <1>5
<1>7. ChainFrom(cs[k]) = W[N]
  BY DEF ChainFrom
<1> HIDE DEF W, w
<1>8. W[1] = <<cs[k]>> /\ \A n \in 2..N : W[n] = Follow(W[n - 1])
  <2>1. 1 \in 1..N /\ \A n \in 2..N : n \in 1..N /\ n # 1
    BY <1>1
  <2>2. W = [n \in 1..N |-> IF n = 1 THEN <<cs[k]>> ELSE Follow(W[n - 1])]
    BY <1>6 DEF Follow
  <2> QED BY <2>1, <2>2
<1> HIDE DEF N
<1> DEFINE S == {n \in Nat : n + 1 <= N => W[n + 1] = w[n + 1]}
<1>9. 0..(N - 1) \subseteq S
  <2>1. 0 \in S
    BY <1>3, <1>8
  <2>2. ASSUME NEW n \in 0..(N - 1), n # N - 1, n \in S PROVE n + 1 \in S
    <3>1. n + 1 \in 1..N /\ n + 2 \in 2..N /\ n + 2 \in 1..N /\ n + 2 # 1 /\ (n + 2) - 1 = n + 1 /\ (n + 1) + 1 = n + 2
      BY <1>1, <2>2
    <3>2. W[n + 2] = Follow(W[n + 1]) /\ w[n + 2] = Follow(w[n + 1])
      BY <1>4, <1>8, <3>1
    <3>3. W[n + 1] = w[n + 1]
      BY <2>2, <3>1
    <3> QED BY <2>2, <3>1, <3>2, <3>3
  <2> HIDE DEF S
  <2> QED BY <1>1, <2>1, <2>2, InductUpTo
<1>10. W[N] = w[N]
  <2>1. N - 1 \in 0..(N - 1) /\ (N - 1) + 1 = N
    BY <1>1
  <2>2. N - 1 \in S
    BY <1>9, <2>1
  <2> QED BY <1>1, <2>1, <2>2
<1>11. End(N) = m
  BY <1>1
<1>12. N \in 1..N
  BY <1>1
<1> QED BY <1>2, <1>7, <1>10, <1>11, <1>12 DEF N

(***************************************************************************)
(* The places of a directory                                               *)
(***************************************************************************)

\* Dividing twice.
LEMMA Nested ==
    ASSUME NEW a \in Nat, NEW e \in Nat \ {0}, NEW b \in Nat \ {0}
    PROVE  /\ (a \div e) \div b = a \div (b * e)
           /\ (((a \div e) % b) * e) + (a % e) = a % (b * e)
<1> DEFINE n == a \div e
           u == a % e
           q == n \div b
           t == n % b
           d == b * e
           r == (t * e) + u
<1>1. n \in Nat /\ u \in Nat /\ u < e /\ a = (e * n) + u
  BY DivMod
<1>2. q \in Nat /\ t \in Nat /\ t < b /\ n = (b * q) + t
  BY <1>1, DivMod
<1>3. d \in Nat \ {0} /\ t * e \in Nat
  BY <1>2, SMT
<1> HIDE DEF n, u, q, t
<1>4. r \in Nat /\ r < d
  <2>1. (t + 1) * e <= b * e
    BY <1>2, SMT
  <2>2. (t + 1) * e = t * e + e
    BY <1>2, SMT
  <2>3. t * e + u < b * e
    <3>1. t * e \in Nat /\ b * e \in Nat
      BY <1>2, <1>3, SMT
    <3> QED BY <1>1, <2>1, <2>2, <3>1
  <2> QED BY <1>1, <1>3, <2>3
<1>5. a = (d * q) + r
  <2>1. a = (e * ((b * q) + t)) + u
    BY <1>1, <1>2
  <2>2. e * ((b * q) + t) = ((b * e) * q) + t * e
    BY <1>2, SMT
  <2>3. t * e \in Nat /\ (b * e) * q \in Nat
    BY <1>2, SMT
  <2>4. ASSUME NEW x \in Nat, NEW y \in Nat, NEW z, z = x + y, a = z + u PROVE a = x + (y + u)
    BY <1>1, <2>4
  <2>5. a = ((b * e) * q) + (t * e + u)
    BY <2>1, <2>2, <2>3, <2>4
  <2> QED BY <2>5, Zenon
<1> HIDE DEF d, r
<1>6. a \div d = q /\ a % d = r
  BY <1>2, <1>3, <1>4, <1>5, OneQuotient
<1> QED BY <1>6 DEF n, u, q, t, d, r

\* The volume is one that a volume can be, and the directory a chain in its table.
VolumeOK ==
    /\ old_root \in BOOLEAN
    /\ blocks_per_cluster \in ClusterSizes
    /\ old_root => start = 0
    /\ ~old_root => start \in Cluster /\ \E cs : IsChain(fat, start, cs)
    /\ fat \in Table

\* Sizes are numbers, and a cluster is as large as its blocks.
LEMMA Sizes ==
    ASSUME VolumeOK
    PROVE  /\ EntriesPerBlock \in Nat \ {0} /\ blocks_per_cluster \in Nat \ {0}
           /\ RootBlocks \in Nat \ {0}
           /\ ClusterSlots \in Nat \ {0} /\ EntriesPerBlock <= ClusterSlots
           /\ ClusterSlots = blocks_per_cluster * EntriesPerBlock
           /\ RootSlots \in Nat /\ (~old_root => RootSlots = 0)
           /\ RootBlocks * EntriesPerBlock \in Nat \ {0}
           /\ old_root => RootSlots = RootBlocks * EntriesPerBlock
           /\ Cardinality(Cluster) * ClusterSlots \in Nat
           /\ ClusterSlots <= Cardinality(Cluster) * ClusterSlots
<1>1. EntriesPerBlock \in Nat \ {0} /\ blocks_per_cluster \in Nat \ {0} /\ RootBlocks \in Nat \ {0}
  BY DirectoryAssumption DEF VolumeOK
<1>2. ClusterSlots \in Nat \ {0} /\ EntriesPerBlock <= ClusterSlots
  BY <1>1, SMT DEF ClusterSlots
<1>3. RootBlocks * EntriesPerBlock \in Nat \ {0}
  BY <1>1, SMT
<1>4. Cardinality(Cluster) * ClusterSlots \in Nat /\ ClusterSlots <= Cardinality(Cluster) * ClusterSlots
  <2>1. ASSUME NEW a \in Nat \ {0}, NEW b \in Nat \ {0} PROVE a * b \in Nat /\ b <= a * b
    BY SMT
  <2> QED BY <1>2, <2>1, ClustersFinite
<1> QED BY <1>1, <1>2, <1>3, <1>4 DEF VolumeOK, RootSlots, ClusterSlots

\* The r-th place of a cluster, from zero.
SlotOf(c, r) == FirstPlace(c) + r

\* A place of a cluster is of that cluster and at its offset.
LEMMA SlotIs ==
    ASSUME VolumeOK, NEW c \in Cluster, NEW r \in 0..(ClusterSlots - 1)
    PROVE  /\ SlotOf(c, r) \in Place /\ SlotOf(c, r) >= RootSlots
           /\ ClusterOf(SlotOf(c, r)) = c
           /\ (SlotOf(c, r) - RootSlots) % ClusterSlots = r
<1> DEFINE CS == ClusterSlots
           N  == Cardinality(Cluster)
           q  == c - 2
<1>1. CS \in Nat \ {0} /\ RootSlots \in Nat /\ N * CS \in Nat
  BY Sizes
<1>2. q \in Nat /\ q + 1 <= N /\ N \in Nat /\ c = q + 2 /\ r \in Nat /\ r < CS
  BY <1>1, ClustersFinite, ClusterCountAssumption DEF Cluster
<1>3. SlotOf(c, r) = RootSlots + (q * CS) + r
  BY DEF SlotOf, FirstPlace
<1> HIDE DEF CS, N, q
<1>4. q * CS \in Nat /\ (q + 1) * CS <= N * CS /\ (q + 1) * CS = q * CS + CS /\ q * CS = CS * q
  BY <1>1, <1>2, SMT
<1>5. SlotOf(c, r) - RootSlots = (CS * q) + r
  BY <1>1, <1>2, <1>3, <1>4
<1>6. ((CS * q) + r) \div CS = q /\ ((CS * q) + r) % CS = r
  BY <1>1, <1>2, OneQuotient
<1>7. SlotOf(c, r) \in 0..(RootSlots + N * CS - 1) /\ SlotOf(c, r) >= RootSlots
  BY <1>1, <1>2, <1>3, <1>4
<1>8. ClusterOf(SlotOf(c, r)) = 2 + q
  BY <1>5, <1>6 DEF ClusterOf, CS
<1>9. 2 + q = c
  BY <1>2
<1> QED BY <1>5, <1>6, <1>7, <1>8, <1>9 DEF Place, CS, N

\* Two clusters have no place in common.
LEMMA SlotsApart ==
    ASSUME VolumeOK, NEW c \in Cluster, NEW r \in 0..(ClusterSlots - 1),
           NEW d \in Cluster, NEW s \in 0..(ClusterSlots - 1), SlotOf(c, r) = SlotOf(d, s)
    PROVE  c = d /\ r = s
  BY SlotIs

\* Every place behind the root directory is one of a cluster.
LEMMA PlaceSplit ==
    ASSUME VolumeOK, NEW p \in Place, p >= RootSlots
    PROVE  ClusterOf(p) \in Cluster /\ \E r \in 0..(ClusterSlots - 1) : p = SlotOf(ClusterOf(p), r)
<1> DEFINE CS == ClusterSlots
           N  == Cardinality(Cluster)
           a  == p - RootSlots
           q  == a \div CS
           r  == a % CS
<1>1. CS \in Nat \ {0} /\ RootSlots \in Nat /\ N * CS \in Nat /\ N \in Nat /\ N = ClusterCount - 2
  BY Sizes, ClustersFinite
<1>2. a \in Nat /\ a < N * CS /\ p \in Nat
  BY <1>1 DEF Place
<1> HIDE DEF N, CS, a
<1>3. q \in Nat /\ r \in Nat /\ r < CS /\ a = (CS * q) + r
  BY <1>1, <1>2, DivMod
<1> HIDE DEF q, r
<1>4. q < N
  <2> SUFFICES ASSUME N <= q PROVE FALSE
    BY <1>1, <1>3
  <2>1. N * CS <= CS * q
    BY <1>1, <1>3, SMT
  <2>2. CS * q \in Nat
    BY <1>1, <1>3, SMT
  <2> QED BY <1>1, <1>2, <1>3, <2>1, <2>2
<1>5. ClusterOf(p) = 2 + q
  BY DEF ClusterOf, CS, q, a
<1>6. 2 + q \in Cluster
  BY <1>1, <1>3, <1>4, ClusterCountAssumption DEF Cluster
<1>7. p = SlotOf(2 + q, r)
  <2>1. SlotOf(2 + q, r) = RootSlots + (q * CS) + r
    BY <1>3 DEF SlotOf, FirstPlace, CS
  <2>2. q * CS = CS * q /\ CS * q \in Nat
    BY <1>1, <1>3, SMT
  <2>3. p = RootSlots + a
    BY <1>1, <1>2 DEF a
  <2> QED BY <1>1, <1>3, <2>1, <2>2, <2>3
<1>8. r \in 0..(CS - 1)
  BY <1>1, <1>3
<1> QED BY <1>5, <1>6, <1>7, <1>8 DEF CS

\* The i-th place of the clusters cs.
PlaceIn(cs, i) == SlotOf(cs[((i - 1) \div ClusterSlots) + 1], (i - 1) % ClusterSlots)

\* What an iterator that begins with a cluster of the chain comes to.
LEMMA StraightWalk ==
    ASSUME VolumeOK, ~old_root, NEW cs, IsChain(fat, start, cs), NEW k \in 1..Len(cs)
    PROVE  ClusterWalk(cs[k], 0) =
               [i \in 1..((Len(cs) - k + 1) * ClusterSlots) |-> PlaceIn(SubSeq(cs, k, Len(cs)), i)]
<1> DEFINE b  == blocks_per_cluster
           e  == EntriesPerBlock
           ds == SubSeq(cs, k, Len(cs))
           n  == Len(cs) - k + 1
           Val(i) == BlockPlaces(ds[((0 + ((i - 1) \div e)) \div b) + 1],
                                 (0 + ((i - 1) \div e)) % b)[((i - 1) % e) + 1]
<1>1. b \in Nat \ {0} /\ e \in Nat \ {0} /\ ClusterSlots = b * e /\ ClusterSlots \in Nat \ {0}
  BY Sizes
<1>2. cs \in Seq(Cluster) /\ n \in Nat \ {0} /\ Len(ds) = n
  BY DEF IsChain
<1>3. ChainFrom(cs[k] + ((0 * e) \div b)) = ds /\ (0 * e) % b = 0
  <2>1. 0 * e = 0 /\ 0 \div b = 0 /\ 0 % b = 0
    <3>1. 0 * e = 0
      BY <1>1, SMT
    <3>2. ((b * 0) + 0) \div b = 0 /\ ((b * 0) + 0) % b = 0
      BY <1>1, OneQuotient
    <3>3. (b * 0) + 0 = 0
      BY <1>1, SMT
    <3> QED BY <3>1, <3>2, <3>3
  <2>2. cs[k] \in Cluster /\ cs[k] + 0 = cs[k]
    <3>1. cs[k] \in Cluster
      BY <1>2
    <3>2. \A c \in Cluster : c + 0 = c
      BY DEF Cluster
    <3> QED BY <3>1, <3>2
  <2>3. ChainFrom(cs[k]) = ds
    BY ChainFromIs DEF VolumeOK
  <2> QED BY <2>1, <2>2, <2>3
<1> HIDE DEF ds
<1>4. ClusterWalk(cs[k], 0) = [i \in 1..((Len(ds) * b - 0) * e) |-> Val(i)]
  BY <1>3 DEF ClusterWalk
<1>5. (Len(ds) * b - 0) * e = n * ClusterSlots
  <2>1. n * b \in Nat /\ n * b - 0 = n * b
    BY <1>1, <1>2, SMT
  <2>2. (n * b) * e = n * (b * e)
    BY <1>1, <1>2, SMT
  <2> QED BY <1>1, <1>2, <2>1, <2>2
<1>6. ASSUME NEW i \in 1..(n * ClusterSlots) PROVE Val(i) = PlaceIn(ds, i)
  <2> DEFINE a == i - 1
  <2>1. a \in Nat
    <3>1. n * ClusterSlots \in Nat
      BY <1>1, <1>2, SMT
    <3> QED BY <3>1
  <2> HIDE DEF a
  <2> DEFINE m == a \div e
             u == a % e
             c == ds[(m \div b) + 1]
  <2>2. m \in Nat /\ u \in Nat /\ u < e /\ 0 + m = m
    BY <1>1, <2>1, DivMod
  <2>3. m \div b = a \div ClusterSlots /\ ((m % b) * e) + u = a % ClusterSlots
    BY <1>1, <2>1, Nested
  <2>4. m % b \in Nat /\ (m % b) * e \in Nat
    <3>1. m % b \in Nat
      BY <1>1, <2>2, DivMod
    <3> QED BY <1>1, <3>1, SMT
  <2>5. BlockPlaces(c, m % b)[u + 1] = FirstPlace(c) + (m % b) * e + (u + 1) - 1
    <3>1. u + 1 \in 1..e
      BY <1>1, <2>2
    <3> HIDE DEF u, c, m
    <3> QED BY <3>1 DEF BlockPlaces
  <2>6. FirstPlace(c) \in Int
    <3>1. m \div b \in Nat /\ m \div b < n
      <4> DEFINE q == a \div ClusterSlots
      <4>1. q \in Nat /\ a = (ClusterSlots * q) + (a % ClusterSlots) /\ a % ClusterSlots \in Nat
        BY <1>1, <2>1, DivMod
      <4>2. a < n * ClusterSlots
        <5>1. n * ClusterSlots \in Nat
          BY <1>1, <1>2, SMT
        <5> QED BY <5>1 DEF a
      <4> HIDE DEF q
      <4>3. ~(n <= q)
        <5> HIDE DEF n
        <5> SUFFICES ASSUME n <= q PROVE FALSE
          OBVIOUS
        <5>1. n * ClusterSlots <= ClusterSlots * q
          BY <1>1, <1>2, <4>1, SMT
        <5>2. ClusterSlots * q \in Nat /\ n * ClusterSlots \in Nat
          BY <1>1, <1>2, <4>1, SMT
        <5> QED BY <4>1, <4>2, <5>1, <5>2
      <4>4. q < n
        BY <1>2, <4>1, <4>3
      <4> QED BY <2>3, <4>1, <4>4 DEF q
    <3>2. ds \in Seq(Cluster)
      BY <1>2 DEF ds
    <3> HIDE DEF m
    <3>3. (m \div b) + 1 \in 1..n
      BY <1>2, <3>1
    <3>4. c \in Cluster
      BY <1>2, <3>2, <3>3
    <3> HIDE DEF c
    <3>5. (c - 2) * ClusterSlots \in Int
      <4>1. c - 2 \in Int
        BY <3>4 DEF Cluster
      <4> QED BY <1>1, <4>1, SMT
    <3> QED BY <3>5, Sizes DEF FirstPlace
  <2>7. Val(i) = BlockPlaces(c, m % b)[u + 1]
    <3>1. Val(i) = BlockPlaces(ds[((0 + m) \div b) + 1], (0 + m) % b)[u + 1]
      BY DEF a
    <3> HIDE DEF m, u, Val
    <3> QED BY <2>2, <3>1
  <2>8. PlaceIn(ds, i) = FirstPlace(c) + (((m % b) * e) + u)
    <3> HIDE DEF u
    <3> QED BY <2>3 DEF PlaceIn, SlotOf, a
  <2> HIDE DEF m, u, c, Val
  <2> QED BY <2>2, <2>4, <2>5, <2>6, <2>7, <2>8
<1> HIDE DEF Val, n
<1>7. ClusterWalk(cs[k], 0) = [i \in 1..(n * ClusterSlots) |-> PlaceIn(ds, i)]
  BY <1>4, <1>5, <1>6
<1> QED BY <1>7 DEF n, ds

\* A position in n clusters is one of one of them, and the other way round.
LEMMA InCluster ==
    ASSUME NEW CS \in Nat \ {0}, NEW n \in Nat, NEW i \in 1..(n * CS)
    PROVE  /\ (i - 1) \div CS \in 0..(n - 1) /\ (i - 1) % CS \in 0..(CS - 1)
           /\ i = (((i - 1) \div CS) * CS) + ((i - 1) % CS) + 1
<1> DEFINE a == i - 1
           q == a \div CS
           r == a % CS
<1>1. n * CS \in Nat
  BY SMT
<1>2. a \in Nat /\ a < n * CS /\ i = a + 1
  BY <1>1
<1> HIDE DEF a
<1>3. q \in Nat /\ r \in Nat /\ r < CS /\ a = (CS * q) + r
  BY <1>2, DivMod
<1> HIDE DEF q, r
<1>4. q * CS = CS * q /\ CS * q \in Nat
  BY <1>3, SMT
<1>5. ~(n <= q)
  <2> SUFFICES ASSUME n <= q PROVE FALSE
    OBVIOUS
  <2>1. n * CS <= q * CS
    BY <1>3, SMT
  <2> QED BY <1>1, <1>2, <1>3, <1>4, <2>1
<1>6. q \in 0..(n - 1) /\ r \in 0..(CS - 1) /\ i = (q * CS) + r + 1
  BY <1>2, <1>3, <1>4, <1>5
<1> QED BY <1>6 DEF a, q, r

\* A place behind the root directory is one of its cluster.
LEMMA OfCluster ==
    ASSUME NEW CS \in Nat \ {0}, NEW n \in Nat, NEW q \in 0..(n - 1), NEW r \in 0..(CS - 1),
           NEW i, i = (q * CS) + r + 1
    PROVE  i \in 1..(n * CS) /\ (i - 1) \div CS = q /\ (i - 1) % CS = r
<1>1. q \in Nat /\ r \in Nat /\ r < CS /\ q + 1 <= n
  OBVIOUS
<1>2. q * CS \in Nat /\ n * CS \in Nat /\ (q + 1) * CS <= n * CS /\ (q + 1) * CS = q * CS + CS /\ CS * q = q * CS
  BY <1>1, SMT
<1>3. i \in 1..(n * CS) /\ i - 1 = (CS * q) + r
  BY <1>1, <1>2
<1>4. ((CS * q) + r) \div CS = q /\ ((CS * q) + r) % CS = r
  BY <1>1, OneQuotient
<1> QED BY <1>3, <1>4

\* The directory as a walk of the clusters of its chain.
LEMMA ChainWalk ==
    ASSUME VolumeOK, ~old_root, NEW cs, IsChain(fat, start, cs)
    PROVE  /\ DirectoryWalk = [i \in 1..(Len(cs) * ClusterSlots) |-> PlaceIn(cs, i)]
           /\ DirectoryPlaces = DirectoryWalk
<1>1. cs \in Seq(Cluster) /\ 1 \in 1..Len(cs) /\ cs[1] = start /\ Len(cs) - 1 + 1 = Len(cs)
  BY DEF IsChain
<1>2. SubSeq(cs, 1, Len(cs)) = cs
  BY <1>1, SubSeqFull
<1>3. ClusterWalk(cs[1], 0) = [i \in 1..((Len(cs) - 1 + 1) * ClusterSlots) |-> PlaceIn(SubSeq(cs, 1, Len(cs)), i)]
  BY <1>1, StraightWalk
<1> QED BY <1>1, <1>2, <1>3 DEF DirectoryWalk, DirectoryPlaces

\* The i-th place of a chain.
LEMMA PlaceInIs ==
    ASSUME VolumeOK, NEW cs \in Seq(Cluster), NEW i \in 1..(Len(cs) * ClusterSlots)
    PROVE  /\ (i - 1) \div ClusterSlots \in 0..(Len(cs) - 1)
           /\ (i - 1) % ClusterSlots \in 0..(ClusterSlots - 1)
           /\ cs[((i - 1) \div ClusterSlots) + 1] \in Cluster
           /\ PlaceIn(cs, i) \in Place /\ PlaceIn(cs, i) >= RootSlots
           /\ ClusterOf(PlaceIn(cs, i)) = cs[((i - 1) \div ClusterSlots) + 1]
           /\ (PlaceIn(cs, i) - RootSlots) % ClusterSlots = (i - 1) % ClusterSlots
<1> DEFINE q == (i - 1) \div ClusterSlots
           r == (i - 1) % ClusterSlots
<1>1. q \in 0..(Len(cs) - 1) /\ r \in 0..(ClusterSlots - 1)
  <2>1. Len(cs) \in Nat /\ ClusterSlots \in Nat \ {0}
    BY Sizes
  <2> HIDE DEF q, r
  <2> QED BY <2>1, InCluster DEF q, r
<1> HIDE DEF q, r
<1>2. q + 1 \in 1..Len(cs)
  BY <1>1
<1>3. cs[q + 1] \in Cluster
  BY <1>2
<1>4. PlaceIn(cs, i) = SlotOf(cs[q + 1], r)
  BY DEF PlaceIn, q, r
<1>5. /\ SlotOf(cs[q + 1], r) \in Place /\ SlotOf(cs[q + 1], r) >= RootSlots
      /\ ClusterOf(SlotOf(cs[q + 1], r)) = cs[q + 1]
      /\ (SlotOf(cs[q + 1], r) - RootSlots) % ClusterSlots = r
  BY <1>1, <1>3, SlotIs
<1> QED BY <1>1, <1>3, <1>4, <1>5 DEF q, r

\* A directory has every place once.
LEMMA WalkIs ==
    ASSUME VolumeOK
    PROVE  /\ DirectoryWalk \in Seq(Place) /\ Len(DirectoryWalk) \in Nat \ {0}
           /\ \A i, j \in 1..Len(DirectoryWalk) : DirectoryWalk[i] = DirectoryWalk[j] => i = j
           /\ Len(DirectoryPlaces) \in 1..Len(DirectoryWalk)
           /\ \A i \in 1..Len(DirectoryPlaces) : DirectoryPlaces[i] = DirectoryWalk[i]
<1>1. CASE old_root
  <2> DEFINE n == (RootBlocks + 1) * EntriesPerBlock
  <2>1. EntriesPerBlock \in Nat \ {0} /\ RootBlocks \in Nat \ {0} /\ RootSlots = RootBlocks * EntriesPerBlock
        /\ RootSlots \in Nat \ {0} /\ n = RootSlots + EntriesPerBlock /\ n - 0 = n
        /\ EntriesPerBlock <= Cardinality(Cluster) * ClusterSlots
        /\ Cardinality(Cluster) * ClusterSlots \in Nat
    <3>1. EntriesPerBlock \in Nat \ {0} /\ RootBlocks \in Nat \ {0} /\ RootSlots = RootBlocks * EntriesPerBlock
          /\ RootSlots \in Nat \ {0} /\ EntriesPerBlock <= ClusterSlots /\ ClusterSlots \in Nat
          /\ ClusterSlots <= Cardinality(Cluster) * ClusterSlots
          /\ Cardinality(Cluster) * ClusterSlots \in Nat
      BY <1>1, Sizes
    <3>2. n = RootBlocks * EntriesPerBlock + EntriesPerBlock
      BY <3>1, SMT
    <3> QED BY <3>1, <3>2
  <2>2. DirectoryWalk = [i \in 1..(n - 0) |-> 0 + i - 1]
    BY <1>1 DEF DirectoryWalk, RootWalk
  <2>3. DirectoryPlaces = [i \in 1..RootSlots |-> i - 1]
    BY <1>1 DEF DirectoryPlaces
  <2> HIDE DEF n
  <2>4. \A i \in 1..n : 0 + i - 1 \in Place
    BY <2>1 DEF Place
  <2>5. DirectoryWalk \in Seq(Place) /\ Len(DirectoryWalk) = n /\ \A i \in 1..n : DirectoryWalk[i] = i - 1
    <3>1. DirectoryWalk \in [1..n -> Place] /\ n \in Nat
      BY <2>1, <2>2, <2>4
    <3>2. \A i \in 1..n : DirectoryWalk[i] = i - 1
      BY <2>1, <2>2
    <3> QED BY <3>1, <3>2
  <2>6. Len(DirectoryPlaces) = RootSlots /\ \A i \in 1..RootSlots : DirectoryPlaces[i] = i - 1
    BY <2>1, <2>3
  <2> QED BY <2>1, <2>5, <2>6
<1>2. CASE ~old_root
  <2>1. PICK cs : IsChain(fat, start, cs)
    BY <1>2 DEF VolumeOK
  <2> DEFINE n == Len(cs) * ClusterSlots
  <2>2. DirectoryWalk = [i \in 1..n |-> PlaceIn(cs, i)] /\ DirectoryPlaces = DirectoryWalk
    BY <1>2, <2>1, ChainWalk
  <2>3. cs \in Seq(Cluster) /\ Len(cs) \in Nat \ {0} /\ \A i, j \in 1..Len(cs) : cs[i] = cs[j] => i = j
    BY <2>1 DEF IsChain
  <2>4. n \in Nat \ {0}
    <3>1. ASSUME NEW a \in Nat \ {0}, NEW b \in Nat \ {0} PROVE a * b \in Nat \ {0}
      BY SMT
    <3> QED BY <2>3, <3>1, Sizes
  <2>5. \A i \in 1..n : PlaceIn(cs, i) \in Place
    BY <2>3, PlaceInIs
  <2>6. ASSUME NEW i \in 1..n, NEW j \in 1..n, PlaceIn(cs, i) = PlaceIn(cs, j) PROVE i = j
    <3> DEFINE q(k) == (k - 1) \div ClusterSlots
               r(k) == (k - 1) % ClusterSlots
    <3>1. q(i) \in 0..(Len(cs) - 1) /\ q(j) \in 0..(Len(cs) - 1) /\ r(i) = r(j) /\ cs[q(i) + 1] = cs[q(j) + 1]
      BY <2>3, <2>6, PlaceInIs
    <3>2. q(i) + 1 \in 1..Len(cs) /\ q(j) + 1 \in 1..Len(cs)
      <4> HIDE DEF q
      <4> QED BY <2>3, <3>1
    <3>3. q(i) + 1 = q(j) + 1
      <4> HIDE DEF q
      <4> QED BY <2>3, <3>1, <3>2
    <3>4. i = (q(i) * ClusterSlots) + r(i) + 1 /\ j = (q(j) * ClusterSlots) + r(j) + 1
      BY <2>3, Sizes, InCluster
    <3>5. q(i) = q(j)
      <4> HIDE DEF q
      <4> QED BY <3>1, <3>3
    <3> HIDE DEF q, r
    <3> QED BY <3>1, <3>4, <3>5
  <2> HIDE DEF n
  <2>7. DirectoryWalk \in Seq(Place) /\ Len(DirectoryWalk) = n /\ \A i \in 1..n : DirectoryWalk[i] = PlaceIn(cs, i)
    <3>1. DirectoryWalk \in [1..n -> Place]
      BY <2>2, <2>4, <2>5
    <3>2. \A i \in 1..n : DirectoryWalk[i] = PlaceIn(cs, i)
      BY <2>2
    <3> QED BY <2>4, <3>1, <3>2
  <2> QED BY <2>2, <2>4, <2>6, <2>7
<1> QED BY <1>1, <1>2

\* A part of a sequence.
LEMMA SubSeqIs ==
    ASSUME NEW S, NEW s \in Seq(S), NEW a \in 1..(Len(s) + 1), NEW b \in 0..Len(s), a <= b + 1
    PROVE  /\ SubSeq(s, a, b) \in Seq(S) /\ Len(SubSeq(s, a, b)) = b - a + 1
           /\ \A j \in 1..(b - a + 1) : SubSeq(s, a, b)[j] = s[a + j - 1]
           /\ a <= b => /\ SubSeq(s, a, b) # <<>> /\ Head(SubSeq(s, a, b)) = s[a]
                        /\ Tail(SubSeq(s, a, b)) = SubSeq(s, a + 1, b)
<1> DEFINE t == SubSeq(s, a, b)
<1>1. t \in Seq(S) /\ Len(t) = b - a + 1
  OBVIOUS
<1>2. ASSUME NEW j \in 1..(b - a + 1) PROVE t[j] = s[a + j - 1]
  OBVIOUS
<1>3. ASSUME a <= b PROVE t # <<>> /\ Head(t) = s[a] /\ Tail(t) = SubSeq(s, a + 1, b)
  <2>1. a \in 1..Len(s) /\ b \in a..Len(s)
    BY <1>3
  <2>2. Head(t) = s[a] /\ Tail(t) = SubSeq(s, a + 1, b)
    BY <2>1, HeadTailOfSubSeq
  <2>3. Len(t) >= 1
    BY <1>1, <1>3
  <2>4. t # <<>>
    <3> HIDE DEF t
    <3> QED BY <1>1, <2>3
  <2> QED BY <2>2, <2>4
<1> QED BY <1>1, <1>2, <1>3

\* Places are numbers.
LEMMA PlaceNumbers == Place \in SUBSET Nat
  BY DEF Place

\* What is left of a directory from position k on.
Rest(k) == SubSeq(DirectoryWalk, k, Len(DirectoryWalk))

\* What is left of the way through the directory.
LEMMA RestIs ==
    ASSUME VolumeOK, NEW k \in 1..(Len(DirectoryWalk) + 1)
    PROVE  /\ Rest(k) \in Seq(Place) /\ Len(Rest(k)) = Len(DirectoryWalk) - k + 1
           /\ \A j \in 1..(Len(DirectoryWalk) - k + 1) : Rest(k)[j] = DirectoryWalk[k + j - 1]
           /\ k <= Len(DirectoryWalk) => /\ Rest(k) # <<>> /\ Head(Rest(k)) = DirectoryWalk[k]
                                         /\ Tail(Rest(k)) = Rest(k + 1)
<1> DEFINE W == DirectoryWalk
<1>1. W \in Seq(Place) /\ Len(W) \in Nat /\ k \in 1..(Len(W) + 1)
  BY WalkIs
<1> HIDE DEF W
<1>2. Len(W) \in 0..Len(W) /\ k <= Len(W) + 1
  BY <1>1
<1> DEFINE s == SubSeq(W, k, Len(W))
<1>3. /\ s \in Seq(Place) /\ Len(s) = Len(W) - k + 1
      /\ \A j \in 1..(Len(W) - k + 1) : s[j] = W[k + j - 1]
  BY <1>1, <1>2, SubSeqIs
<1>4. ASSUME k <= Len(W) PROVE s # <<>> /\ Head(s) = W[k] /\ Tail(s) = SubSeq(W, k + 1, Len(W))
  <2>1. k \in 1..Len(W) /\ Len(W) \in k..Len(W) /\ Len(s) >= 1
    BY <1>1, <1>3, <1>4
  <2>2. Head(s) = W[k] /\ Tail(s) = SubSeq(W, k + 1, Len(W))
    BY <1>1, <2>1, HeadTailOfSubSeq
  <2> HIDE DEF s
  <2> QED BY <1>3, <2>1, <2>2
<1> QED BY <1>3, <1>4 DEF W, Rest

\* An iterator made for a place where one begins goes on with the rest of the directory.
LEMMA IterIs ==
    ASSUME VolumeOK, NEW k \in 1..Len(DirectoryWalk), Straight(DirectoryWalk[k])
    PROVE  IterFrom(DirectoryWalk[k]) = Rest(k)
<1> DEFINE W == DirectoryWalk
           p == W[k]
<1>1. k \in 1..(Len(W) + 1) /\ W \in Seq(Place) /\ Len(W) \in Nat \ {0} /\ p \in Place /\ p \in Nat
  <2>1. W \in Seq(Place) /\ Len(W) \in Nat \ {0}
    BY WalkIs
  <2> HIDE DEF W
  <2>2. k \in 1..Len(W)
    BY DEF W
  <2>3. W[k] \in Place /\ k \in 1..(Len(W) + 1)
    BY <2>1, <2>2
  <2> QED BY <2>1, <2>3, PlaceNumbers
<1>2. Rest(k) \in Seq(Place) /\ Len(Rest(k)) = Len(W) - k + 1
      /\ \A j \in 1..(Len(W) - k + 1) : Rest(k)[j] = W[k + j - 1]
  BY <1>1, RestIs
<1>3. CASE old_root
  <2> DEFINE n == (RootBlocks + 1) * EntriesPerBlock
  <2>1. n \in Nat
    <3>1. RootBlocks \in Nat \ {0} /\ EntriesPerBlock \in Nat \ {0}
      BY Sizes
    <3> QED BY <3>1, SMT
  <2>2. W = [i \in 1..(n - 0) |-> 0 + i - 1]
    BY <1>3 DEF DirectoryWalk, RootWalk
  <2> HIDE DEF n
  <2>3. Len(W) = n /\ \A i \in 1..n : W[i] = i - 1
    BY <2>1, <2>2
  <2> HIDE DEF W
  <2>4. p = k - 1 /\ k \in 1..n
    BY <2>3 DEF W
  <2> HIDE DEF p
  <2> DEFINE t == RootWalk(p)
  <2>5. t = [i \in 1..(n - p) |-> p + i - 1]
    BY DEF RootWalk, n
  <2>6. n - p = n - k + 1 /\ n - p \in Nat
    BY <2>1, <2>4
  <2> HIDE DEF t
  <2>7. Len(t) = n - k + 1 /\ \A j \in 1..(n - k + 1) : t[j] = k + j - 2
    <3>1. Len(t) = n - p
      BY <2>5, <2>6
    <3>2. ASSUME NEW j \in 1..(n - k + 1) PROVE t[j] = k + j - 2
      <4>1. j \in 1..(n - p)
        BY <2>6
      <4>2. t[j] = p + j - 1
        BY <2>5, <4>1
      <4> QED BY <2>1, <2>4, <4>2
    <3> QED BY <2>6, <3>1, <3>2
  <2>8. \A j \in 1..(n - k + 1) : Rest(k)[j] = t[j]
    <3> SUFFICES ASSUME NEW j \in 1..(n - k + 1) PROVE Rest(k)[j] = t[j]
      OBVIOUS
    <3>1. Rest(k)[j] = W[k + j - 1] /\ k + j - 1 \in 1..n
      BY <1>2, <2>1, <2>3, <2>4
    <3>2. W[k + j - 1] = (k + j - 1) - 1
      BY <2>3, <3>1
    <3> QED BY <2>1, <2>4, <2>7, <3>1, <3>2
  <2>9. t \in Seq(Place)
    <3>1. \A j \in 1..(n - k + 1) : t[j] \in Place
      BY <1>2, <2>3, <2>8
    <3>2. t \in [1..(n - p) -> Place]
      BY <2>5, <2>6, <3>1
    <3> QED BY <2>6, <3>2
  <2>10. Rest(k) = t
    BY <1>2, <2>3, <2>7, <2>8, <2>9, SeqEqual
  <2> QED BY <1>3, <2>10 DEF IterFrom, t, p, W
<1>4. CASE ~old_root
  <2>1. PICK cs : IsChain(fat, start, cs)
    BY <1>4 DEF VolumeOK
  <2> DEFINE CS == ClusterSlots
             m == Len(cs)
             q == (k - 1) \div CS
             r == (k - 1) % CS
             v == SubSeq(cs, q + 1, m)
             w == ClusterWalk(cs[q + 1], 0)
  <2>2. W = [i \in 1..(m * CS) |-> PlaceIn(cs, i)]
    BY <1>4, <2>1, ChainWalk
  <2>3. cs \in Seq(Cluster) /\ m \in Nat \ {0} /\ CS \in Nat \ {0} /\ EntriesPerBlock \in Nat \ {0} /\ RootSlots = 0
        /\ CS = blocks_per_cluster * EntriesPerBlock
    BY <1>4, <2>1, Sizes DEF IsChain
  <2>4. m * CS \in Nat
    <3> HIDE DEF m, CS
    <3> QED BY <2>3, SMT
  <2>5. Len(W) = m * CS /\ k \in 1..(m * CS)
    <3>1. Len(W) = m * CS
      <4> HIDE DEF W, m, CS
      <4> QED BY <2>2, <2>4
    <3> QED BY <3>1
  <2>6. p = PlaceIn(cs, k)
    <3> HIDE DEF m, CS
    <3> QED BY <2>2, <2>5
  <2>7. q \in 0..(m - 1) /\ r \in 0..(CS - 1) /\ k = (q * CS) + r + 1
    <3> HIDE DEF m, CS
    <3> QED BY <2>3, <2>5, InCluster
  <2>8. ClusterOf(p) = cs[q + 1] /\ p % CS = r /\ p - RootSlots = p
    <3>1. ClusterOf(p) = cs[q + 1] /\ (p - RootSlots) % CS = r
      BY <2>3, <2>5, <2>6, PlaceInIs
    <3>2. p - RootSlots = p
      BY <1>1, <2>3
    <3> QED BY <3>1, <3>2
  <2>9. r < EntriesPerBlock
    <3>1. BlockOf(p) = 0 /\ BlockOf(p) = r \div EntriesPerBlock
      BY <1>4, <2>8 DEF Straight, BlockOf
    <3> HIDE DEF r
    <3>2. r = (EntriesPerBlock * (r \div EntriesPerBlock)) + (r % EntriesPerBlock) /\ r % EntriesPerBlock < EntriesPerBlock
          /\ r % EntriesPerBlock \in Nat
      BY <2>3, <2>7, DivMod, SMTT(30)
    <3>3. EntriesPerBlock * 0 = 0
      BY <2>3, SMT
    <3> QED BY <3>1, <3>2, <3>3
  <2>10. p % EntriesPerBlock = r
    <3>1. ((p \div EntriesPerBlock) % blocks_per_cluster) * EntriesPerBlock + (p % EntriesPerBlock) = p % (blocks_per_cluster * EntriesPerBlock)
      BY <1>1, Sizes, Nested
    <3>2. (p \div EntriesPerBlock) % blocks_per_cluster \in Nat /\ p % EntriesPerBlock \in Nat
      <4>1. p \div EntriesPerBlock \in Nat /\ p % EntriesPerBlock \in Nat
        BY <1>1, <2>3, DivMod
      <4>2. blocks_per_cluster \in Nat \ {0}
        BY Sizes
      <4> QED BY <4>1, <4>2, DivMod
    <3> DEFINE x == (p \div EntriesPerBlock) % blocks_per_cluster
               y == p % EntriesPerBlock
    <3>3. x * EntriesPerBlock + y = r /\ x \in Nat /\ y \in Nat
      BY <2>3, <2>8, <3>1, <3>2
    <3> HIDE DEF x, y, r, CS
    <3>7. r \in Nat /\ r < EntriesPerBlock
      BY <2>3, <2>7, <2>9
    <3>4. x * EntriesPerBlock \in Nat /\ (x = 0 \/ EntriesPerBlock <= x * EntriesPerBlock) /\ 0 * EntriesPerBlock = 0
      BY <2>3, <3>3, SMT
    <3>5. x = 0
      BY <2>3, <3>3, <3>4, <3>7
    <3>6. y = r
      BY <3>3, <3>4, <3>5
    <3> QED BY <3>6 DEF y
  <2>11. IterFrom(p) = SubSeq(w, r + 1, Len(w))
    <3>1. BlockOf(p) = 0
      BY <1>4 DEF Straight
    <3> QED BY <1>4, <2>8, <2>10, <3>1 DEF IterFrom
  <2>12. w = [i \in 1..((m - q) * CS) |-> PlaceIn(v, i)] /\ v \in Seq(Cluster) /\ Len(v) = m - q
         /\ \A j \in 1..(m - q) : v[j] = cs[q + j]
    <3>1. q + 1 \in 1..m /\ m - (q + 1) + 1 = m - q /\ q \in Nat
      <4> HIDE DEF q, m
      <4> QED BY <2>3, <2>7
    <3>2. w = [i \in 1..((m - (q + 1) + 1) * CS) |-> PlaceIn(v, i)]
      BY <1>4, <2>1, <3>1, StraightWalk
    <3> HIDE DEF q, m, CS
    <3>5. v \in Seq(Cluster) /\ Len(v) = m - (q + 1) + 1 /\ \A j \in 1..(m - (q + 1) + 1) : v[j] = cs[(q + 1) + j - 1]
      <4>1. q + 1 \in 1..(Len(cs) + 1) /\ m \in 0..Len(cs) /\ q + 1 <= m + 1
        BY <2>3, <3>1 DEF m
      <4> QED BY <2>3, <4>1, SubSeqIs, SMTT(30)
    <3> HIDE DEF v
    <3>3. v \in Seq(Cluster) /\ Len(v) = m - q
      BY <3>1, <3>5
    <3>4. ASSUME NEW j \in 1..(m - q) PROVE v[j] = cs[q + j]
      <4>1. v[j] = cs[(q + 1) + j - 1]
        BY <3>1, <3>5
      <4>2. (q + 1) + j - 1 = q + j
        BY <3>1
      <4> QED BY <4>1, <4>2
    <3> HIDE DEF v, w
    <3> QED BY <3>1, <3>2, <3>3, <3>4
  <2> HIDE DEF w, v, q, r, m, CS, W, p
  <2>13. (m - q) * CS \in Nat /\ m * CS = (q * CS) + ((m - q) * CS) /\ q * CS \in Nat /\ m - q \in Nat
    <3>1. PICK d \in Nat : d = m - q /\ m = q + d
      BY <2>3, <2>7
    <3>2. q \in Nat
      BY <2>3, <2>7
    <3>3. (q + d) * CS = (q * CS) + (d * CS) /\ d * CS \in Nat /\ q * CS \in Nat
      BY <2>3, <3>1, <3>2, SMT
    <3> QED BY <3>1, <3>3
  <2>14. ASSUME NEW i \in 1..((m - q) * CS) PROVE w[i] = W[(q * CS) + i] /\ w[i] \in Place
    <3>1. (i - 1) \div CS \in 0..(m - q - 1) /\ (i - 1) % CS \in 0..(CS - 1)
          /\ i = (((i - 1) \div CS) * CS) + ((i - 1) % CS) + 1
      BY <2>3, <2>13, InCluster, ZenonT(120)
    <3> DEFINE a == (i - 1) \div CS
               b == (i - 1) % CS
               z == ((q + a) * CS) + b + 1
    <3>2. a \in 0..(m - q - 1) /\ b \in 0..(CS - 1) /\ i = (a * CS) + b + 1
      BY <3>1
    <3> HIDE DEF a, b
    <3>3. z = (q * CS) + i /\ q + a \in 0..(m - 1)
      <4>1. a \in Nat /\ q \in Nat /\ b \in Nat
        BY <2>3, <2>7, <3>2
      <4>2. (q + a) * CS = (q * CS) + (a * CS) /\ q * CS \in Nat /\ a * CS \in Nat
        BY <2>3, <4>1, SMTT(60)
      <4>3. z = (q * CS) + i
        BY <3>2, <4>1, <4>2
      <4> HIDE DEF z
      <4> QED BY <2>3, <2>7, <3>2, <4>1, <4>3
    <3>4. z \in 1..(m * CS) /\ (z - 1) \div CS = q + a /\ (z - 1) % CS = b
      <4>1. m \in Nat /\ z = ((q + a) * CS) + b + 1
        BY <2>3
      <4> HIDE DEF z
      <4> DEFINE x == q + a
      <4>2. x \in 0..(m - 1) /\ z = (x * CS) + b + 1 /\ CS \in Nat \ {0} /\ b \in 0..(CS - 1)
        BY <2>3, <3>2, <3>3, <4>1
      <4> HIDE DEF x
      <4>3. z \in 1..(m * CS) /\ (z - 1) \div CS = x /\ (z - 1) % CS = b
        <5>1. z \in 1..(m * CS)
          BY <4>1, <4>2, OfCluster
        <5>2. x \in Nat /\ b \in Nat /\ b < CS /\ x * CS = CS * x /\ x * CS \in Nat
          <6>1. x \in Nat /\ b \in Nat /\ b < CS
            BY <4>1, <4>2
          <6> QED BY <4>2, <6>1, SMT
        <5>3. z - 1 = (CS * x) + b
          BY <4>2, <5>2
        <5>4. ((CS * x) + b) \div CS = x /\ ((CS * x) + b) % CS = b
          BY <4>2, <5>2, OneQuotient
        <5> QED BY <5>1, <5>3, <5>4
      <4> QED BY <4>3 DEF x
    <3> HIDE DEF z
    <3>5. W[z] = SlotOf(cs[(q + a) + 1], b)
      BY <2>2, <3>4 DEF PlaceIn, CS
    <3>6. w[i] = SlotOf(v[a + 1], b)
      BY <2>12 DEF PlaceIn, CS, a, b
    <3>7. v[a + 1] = cs[q + (a + 1)] /\ q + (a + 1) = (q + a) + 1
      <4>1. a + 1 \in 1..(m - q)
        BY <2>3, <2>7, <3>2
      <4>2. q + (a + 1) = (q + a) + 1
        BY <2>3, <2>7, <3>2
      <4> QED BY <2>12, <4>1, <4>2
    <3>8. W[z] \in Place
      BY <1>1, <2>5, <3>4
    <3> QED BY <3>3, <3>5, <3>6, <3>7, <3>8
  <2>15. Len(w) = (m - q) * CS /\ w \in Seq(Place)
    <3>1. w \in [1..((m - q) * CS) -> Place]
      BY <2>12, <2>14
    <3> QED BY <2>13, <3>1
  <2> DEFINE t == SubSeq(w, r + 1, Len(w))
  <2>16. r + 1 \in 1..((m - q) * CS) /\ ((m - q) * CS) - (r + 1) + 1 = (m * CS) - k + 1
    <3>1. q + 1 <= m /\ r + 1 <= CS
      BY <2>3, <2>7
    <3>2. 1 <= m - q
      BY <2>3, <2>7
    <3>3. CS <= (m - q) * CS
      <4>1. ASSUME NEW d \in Nat, 1 <= d PROVE CS <= d * CS
        BY <2>3, <4>1, SMT
      <4> QED BY <2>13, <3>2, <4>1
    <3> DEFINE x == (m - q) * CS
               y == q * CS
    <3>4. r + 1 <= CS /\ CS <= x /\ r \in Nat /\ x \in Nat /\ y \in Nat /\ k = y + r + 1 /\ m * CS = y + x
      BY <2>3, <2>7, <2>13, <3>1, <3>3
    <3> HIDE DEF x, y
    <3>5. r + 1 \in 1..x /\ x - (r + 1) + 1 = (m * CS) - k + 1
      BY <2>3, <3>4
    <3> QED BY <3>5 DEF x
  <2>17. t \in Seq(Place) /\ Len(t) = (m * CS) - k + 1 /\ \A j \in 1..((m * CS) - k + 1) : t[j] = w[r + j]
    <3>2. /\ t \in Seq(Place)
          /\ Len(t) = Len(w) - (r + 1) + 1
          /\ \A j \in 1..(Len(w) - (r + 1) + 1) : t[j] = w[(r + 1) + j - 1]
      <4>1. r + 1 \in 1..(Len(w) + 1) /\ Len(w) \in 0..Len(w) /\ r + 1 <= Len(w) + 1
        BY <2>13, <2>15, <2>16, <2>7, SMTT(30)
      <4> QED BY <2>15, <4>1, SubSeqIs
    <3> HIDE DEF t
    <3>3. Len(t) = (m * CS) - k + 1
      BY <3>2, <2>15, <2>16
    <3>4. ASSUME NEW j \in 1..((m * CS) - k + 1) PROVE t[j] = w[r + j]
      <4>1. t[j] = w[(r + 1) + j - 1]
        <5>1. 1..((m * CS) - k + 1) = 1..(Len(w) - (r + 1) + 1)
          BY ONLY <3>2, <3>3, Zenon
        <5>2. j \in 1..(Len(w) - (r + 1) + 1)
          BY <5>1, Zenon
        <5> QED BY <3>2, <5>2, Zenon
      <4>2. (r + 1) + j - 1 = r + j
        BY <2>7
      <4> QED BY <4>1, <4>2
    <3> QED BY <3>2, <3>3, <3>4
  <2>18. ASSUME NEW j \in 1..((m * CS) - k + 1) PROVE Rest(k)[j] = t[j]
    <3>1. Rest(k)[j] = W[k + j - 1]
      BY <1>2, <2>5
    <3> DEFINE x == (m - q) * CS
               y == q * CS
    <3>2. r \in Nat /\ x \in Nat /\ y \in Nat /\ k = y + r + 1
      BY <2>7, <2>13
    <3>3. j \in 1..(x - (r + 1) + 1)
      <4>1. 1..(x - (r + 1) + 1) = 1..((m * CS) - k + 1)
        BY ONLY <2>16, Zenon
      <4> QED BY <4>1, Zenon
    <3> HIDE DEF x, y
    <3>4. j \in Nat /\ r + j \in 1..x /\ y + (r + j) = k + j - 1
      BY ONLY <3>2, <3>3
    <3>5. w[r + j] = W[y + (r + j)]
      BY <2>14, <3>4 DEF x, y
    <3> QED BY <2>17, <3>1, <3>4, <3>5
  <2>19. Rest(k) = t
    <3> HIDE DEF t
    <3> QED BY <1>2, <2>5, <2>17, <2>18, SeqEqual
  <2> QED BY <2>11, <2>19 DEF W, p
<1> QED BY <1>3, <1>4

(***************************************************************************)
(* What the iterator over a directory returns                              *)
(***************************************************************************)
Content == {FreeSlot, Deleted} \union LfnEntry \union SfnEntry

DiskOK == disk \in [Place -> Content]

\* What the parts of names are.
Word == STRING \union {"short", ".", "old"}

\* A name has at least one part.
LEMMA NamesAre == ASSUME NEW n \in Name PROVE n \in Seq(Word) /\ Len(n) \in Nat \ {0}
<1>1. n \in Seq(STRING) /\ n # <<>>
  BY DirectoryAssumption
<1>2. ASSUME NEW S, NEW T, S \subseteq T, NEW s \in Seq(S) PROVE s \in Seq(T)
  BY <1>2
<1>3. STRING \subseteq Word
  BY DEF Word
<1>4. Len(n) \in Nat \ {0}
  BY <1>1
<1> QED BY <1>1, <1>2, <1>3, <1>4

\* Sequences of one element.
LEMMA OneSeq == ASSUME NEW S, NEW x \in S PROVE <<x>> \in Seq(S)
  OBVIOUS

\* What a place may hold.
LEMMA Contents ==
    ASSUME NEW e \in Content
    PROVE  \/ e = FreeSlot /\ e.kind = "free"
           \/ e = Deleted /\ e.kind = "deleted"
           \/ /\ e \in LfnEntry /\ e.kind = "lfn" /\ e.order \in Nat \ {0} /\ e.first \in BOOLEAN
              /\ e.part \in Word
           \/ /\ e \in SfnEntry /\ e.kind = "sfn" /\ e.short \in Seq(Word)
              /\ e.file \in File \union {Old, Dot, "none"}
<1>1. CASE e \in {FreeSlot, Deleted}
  BY <1>1 DEF FreeSlot, Deleted
<1>2. CASE e \in LfnEntry
  <2>1. e.kind = "lfn" /\ e.first \in BOOLEAN
        /\ e.order \in UNION {1..Len(n) : n \in Name} /\ e.part \in UNION {ToSet(n) : n \in Name}
    BY <1>2 DEF LfnEntry
  <2>2. e.order \in Nat \ {0}
    BY <2>1
  <2>3. PICK n \in Name : e.part \in ToSet(n)
    BY <2>1
  <2>4. n \in Seq(Word)
    BY NamesAre
  <2>5. \A i \in DOMAIN n : n[i] \in Word
    BY <2>4
  <2>6. e.part \in Word
    BY <2>3, <2>5 DEF ToSet
  <2> QED BY <1>2, <2>1, <2>2, <2>6
<1>3. CASE e \in SfnEntry
  <2>1. e.kind = "sfn" /\ e.file \in File \union {Old, Dot, "none"}
        /\ e.short \in {ShortName(n) : n \in Name \union {<<".">>, <<"old">>}}
    BY <1>3 DEF SfnEntry
  <2>2. PICK n \in Name \union {<<".">>, <<"old">>} : e.short = ShortName(n)
    BY <2>1
  <2>3. n \in Seq(Word)
    <3>1. <<".">> \in Seq(Word) /\ <<"old">> \in Seq(Word)
      BY OneSeq DEF Word
    <3>2. \A k \in Name : k \in Seq(Word)
      BY NamesAre
    <3> QED BY <3>1, <3>2
  <2>4. e.short \in Seq(Word)
    <3>1. <<"short">> \in Seq(Word)
      BY OneSeq DEF Word
    <3>2. <<"short">> \o n \in Seq(Word)
      BY <2>3, <3>1, ConcatProperties
    <3> QED BY <2>2, <3>2 DEF ShortName
  <2> QED BY <1>3, <2>1, <2>4
<1> QED BY <1>1, <1>2, <1>3 DEF Content

Finding == [name : Seq(Word), first : Place, count : Nat, file : File \union {Old, Dot, "none"}]

ScanState == [name : Seq(Word), places : Seq(Place), lfn_index : Int, next_is_end_entry : BOOLEAN,
              found : Seq(Finding), over : BOOLEAN]

\* The iterator begins with nothing read.
LEMMA StartIs == ScanStart \in ScanState
  BY DEF ScanStart, ScanState

\* What one entry does to the state of the iterator.
LEMMA ScanIs ==
    ASSUME DiskOK, NEW s \in ScanState, NEW p \in Place
    PROVE  LET e == disk[p]
               u == ScanEntry(s, p)
           IN  /\ u \in ScanState
               /\ s.over => u = s
               /\ ~s.over /\ e.kind = "free" => u.over /\ u.found = s.found
               /\ ~s.over /\ e.kind = "deleted" =>
                     ~u.over /\ u.name = <<>> /\ u.places = <<>> /\ u.found = s.found
               /\ ~s.over /\ e.kind = "lfn" =>
                     /\ ~u.over /\ u.name = <<e.part>> \o s.name /\ u.places = Append(s.places, p)
                     /\ u.lfn_index = (IF e.first THEN e.order ELSE s.lfn_index) - 1
                     /\ u.next_is_end_entry = (s.next_is_end_entry \/ u.lfn_index <= 1)
                     /\ u.found = s.found
               /\ ~s.over /\ e.kind = "sfn" =>
                     /\ ~u.over /\ u.name = <<>> /\ u.places = <<>>
                     /\ u.found = Append(s.found,
                           [name  |-> IF s.next_is_end_entry THEN s.name ELSE e.short,
                            first |-> Head(Append(s.places, p)), count |-> Len(s.places) + 1,
                            file  |-> e.file])
<1> DEFINE e == disk[p]
           u == ScanEntry(s, p)
           pl == Append(s.places, p)
<1>1. e \in Content
  BY DEF DiskOK
<1>2. /\ s.name \in Seq(Word) /\ s.places \in Seq(Place) /\ s.lfn_index \in Int /\ s.next_is_end_entry \in BOOLEAN
      /\ s.found \in Seq(Finding) /\ s.over \in BOOLEAN
  BY DEF ScanState
<1>3. pl \in Seq(Place) /\ Len(pl) = Len(s.places) + 1 /\ Len(pl) \in Nat /\ Head(pl) \in Place
  <2>1. pl \in Seq(Place) /\ Len(pl) = Len(s.places) + 1 /\ Len(s.places) \in Nat
    BY <1>2
  <2>2. pl[1] \in Place /\ Head(pl) = pl[1]
    <3> HIDE DEF pl
    <3> QED BY <2>1
  <2> QED BY <2>1, <2>2
<1> DEFINE t == [s EXCEPT !.places = pl]
<1>4. t \in ScanState /\ t.places = pl /\ t.name = s.name /\ t.lfn_index = s.lfn_index
      /\ t.next_is_end_entry = s.next_is_end_entry /\ t.found = s.found /\ t.over = s.over
  <2> HIDE DEF pl
  <2> QED BY <1>3 DEF ScanState
<1>5. CASE s.over
  <2>1. u = s
    BY <1>5 DEF ScanEntry
  <2> HIDE DEF u
  <2> QED BY <1>5, <2>1 DEF u
<1>6. CASE ~s.over /\ e.kind = "free"
  <2>1. u = [s EXCEPT !.over = TRUE]
    BY <1>6 DEF ScanEntry
  <2> HIDE DEF u
  <2>2. u \in ScanState /\ u.over /\ u.found = s.found
    BY <1>2, <2>1 DEF ScanState
  <2> QED BY <1>6, <2>2 DEF u
<1>7. CASE ~s.over /\ e.kind = "deleted"
  <2>1. u = [s EXCEPT !.name = <<>>, !.places = <<>>, !.lfn_index = 0]
    BY <1>7 DEF ScanEntry
  <2> HIDE DEF u
  <2> DEFINE nn == <<>>
  <2>2. nn \in Seq(Word) /\ nn \in Seq(Place)
    OBVIOUS
  <2>3. u = [s EXCEPT !.name = nn, !.places = nn, !.lfn_index = 0]
    BY <2>1
  <2> HIDE DEF nn
  <2>4. u \in ScanState /\ u.name = nn /\ u.places = nn /\ u.found = s.found /\ u.over = s.over
    <3>1. u \in ScanState
      <4>1. s \in ScanState /\ nn \in Seq(Word) /\ nn \in Seq(Place) /\ 0 \in Int
        BY <2>2
      <4> DEFINE s1 == [s EXCEPT !.name = nn]
                 s2 == [s1 EXCEPT !.places = nn]
                 s3 == [s2 EXCEPT !.lfn_index = 0]
      <4>2. s1 \in ScanState
        BY <4>1 DEF ScanState
      <4>3. s2 \in ScanState
        <5> HIDE DEF s1
        <5> QED BY <4>1, <4>2 DEF ScanState
      <4>4. s3 \in ScanState
        <5> HIDE DEF s2
        <5> QED BY <4>1, <4>3 DEF ScanState
      <4>5. u = s3
        BY <2>3 DEF ScanState
      <4> QED BY <4>4, <4>5
    <3>2. u.name = nn /\ u.places = nn
      BY <2>3 DEF ScanState
    <3>3. u.found = s.found /\ u.over = s.over
      BY <2>3 DEF ScanState
    <3> QED BY <3>1, <3>2, <3>3
  <2> QED BY <1>7, <2>4 DEF u, nn
<1>8. CASE ~s.over /\ e.kind = "lfn"
  <2> DEFINE index == IF e.first THEN e.order ELSE s.lfn_index
  <2>1. e.order \in Nat \ {0} /\ e.part \in Word /\ e.first \in BOOLEAN
    BY <1>1, <1>8, Contents
  <2>2. u = [t EXCEPT !.name = <<e.part>> \o @, !.lfn_index = index - 1,
                      !.next_is_end_entry = @ \/ index - 1 <= 1]
    BY <1>8 DEF ScanEntry
  <2>3. index - 1 \in Int
    BY <1>2, <2>1
  <2>4. <<e.part>> \o s.name \in Seq(Word)
    BY <1>2, <2>1
  <2>5. (s.next_is_end_entry \/ index - 1 <= 1) \in BOOLEAN
    BY <1>2
  <2> HIDE DEF index, u, t
  <2>6. u = [t EXCEPT !.name = <<e.part>> \o t.name, !.lfn_index = index - 1,
                      !.next_is_end_entry = t.next_is_end_entry \/ index - 1 <= 1]
    BY <1>4, <2>2 DEF ScanState
  <2> DEFINE nm == <<e.part>> \o s.name
             bo == s.next_is_end_entry \/ index - 1 <= 1
             ix == index - 1
  <2>7. u = [t EXCEPT !.name = nm, !.lfn_index = ix, !.next_is_end_entry = bo]
    BY <1>4, <2>6
  <2>8. nm \in Seq(Word) /\ bo \in BOOLEAN /\ ix \in Int
    BY <2>3, <2>4, <2>5
  <2> HIDE DEF nm, bo, ix
  <2>9. u \in ScanState /\ u.name = nm /\ u.lfn_index = ix /\ u.next_is_end_entry = bo
        /\ u.places = t.places /\ u.found = t.found /\ u.over = t.over
    BY <1>4, <2>7, <2>8 DEF ScanState
  <2> QED BY <1>4, <1>8, <2>9 DEF nm, bo, ix, index, pl, u
<1>9. CASE ~s.over /\ e.kind = "sfn"
  <2> DEFINE f == [name  |-> IF s.next_is_end_entry THEN s.name ELSE e.short,
                   first |-> Head(pl), count |-> Len(pl), file |-> e.file]
  <2>1. e.short \in Seq(Word) /\ e.file \in File \union {Old, Dot, "none"}
    BY <1>1, <1>9, Contents
  <2>2. f \in Finding
    <3> HIDE DEF pl
    <3> QED BY <1>2, <1>3, <2>1 DEF Finding
  <2>3. u = [ScanStart EXCEPT !.found = Append(s.found, [name  |-> IF s.next_is_end_entry THEN s.name ELSE e.short,
                     first |-> Head(t.places), count |-> Len(t.places), file |-> e.file])]
    BY <1>9 DEF ScanEntry
  <2> HIDE DEF u, t
  <2>4. u = [ScanStart EXCEPT !.found = Append(s.found, f)]
    BY <1>4, <2>3
  <2>5. Append(s.found, f) \in Seq(Finding)
    <3> HIDE DEF f
    <3> QED BY <1>2, <2>2
  <2> DEFINE fd == Append(s.found, f)
  <2>6. fd \in Seq(Finding) /\ u = [ScanStart EXCEPT !.found = fd]
    BY <2>4, <2>5
  <2> HIDE DEF fd
  <2> DEFINE z == ScanStart
  <2>9. z \in ScanState /\ z.name = <<>> /\ z.places = <<>> /\ ~z.over
    BY StartIs DEF ScanStart
  <2> HIDE DEF z
  <2>10. u = [z EXCEPT !.found = fd]
    BY <2>6 DEF z
  <2>7. u \in ScanState /\ u.found = fd /\ u.name = <<>> /\ u.places = <<>> /\ ~u.over
    BY <2>6, <2>9, <2>10 DEF ScanState
  <2>8. f = [name  |-> IF s.next_is_end_entry THEN s.name ELSE e.short,
             first |-> Head(Append(s.places, p)), count |-> Len(s.places) + 1, file  |-> e.file]
    BY <1>3
  <2> QED BY <1>9, <2>7, <2>8 DEF fd, u
<1> QED BY <1>1, <1>5, <1>6, <1>7, <1>8, <1>9, Contents

\* The entries of the directory in their order.
View == [i \in 1..Len(DirectoryWalk) |-> disk[DirectoryWalk[i]]]

\* Nothing up to position i ends a listing.
NoFree(D, i) == \A j \in 1..i : D[j].kind # "free"

\* The entries of name n end at position p, with nothing before them that would be
\* taken for a part of the name.
CleanAt(D, n, p) ==
    /\ Len(n) < p
    /\ \A m \in 1..Len(n) : D[p - Len(n) - 1 + m] = Lfn(Len(n) + 1 - m, m = 1, n[Len(n) + 1 - m])
    /\ p = Len(n) + 1 \/ D[p - Len(n) - 1].kind # "lfn"

\* e is the entry of the directory that ends at position p.
FoundAt(D, e, p) ==
    /\ D[p].kind = "sfn" /\ NoFree(D, p)
    /\ e.file = D[p].file
    /\ e.count \in 1..p
    /\ e.first = DirectoryWalk[p - e.count + 1]
    /\ \A j \in (p - e.count + 1)..(p - 1) : D[j].kind = "lfn"
    /\ p = e.count \/ D[p - e.count].kind # "lfn"
    /\ \A n \in Seq(Word) : n # <<>> /\ CleanAt(D, n, p) => e.name = n

\* The iterator after i entries: the parts before it,
RunIs(D, s, i) ==
    LET m == Len(s.places) IN
    /\ m <= i /\ Len(s.name) = m
    /\ \A j \in 1..m : /\ s.places[j] = DirectoryWalk[i - m + j]
                       /\ D[i - m + j].kind = "lfn"
                       /\ s.name[m + 1 - j] = D[i - m + j].part
    /\ m = i \/ D[i - m].kind # "lfn"
    /\ \A n \in Seq(Word) :
          /\ m \in 1..Len(n)
          /\ \A j \in 1..m : D[i - m + j] = Lfn(Len(n) + 1 - j, j = 1, n[Len(n) + 1 - j])
          => s.lfn_index = Len(n) - m /\ (m = Len(n) => s.next_is_end_entry)

\* and the names found.
FoundIs(D, found, i) ==
    \E pos \in [1..Len(found) -> 1..i] :
        /\ \A x, y \in 1..Len(found) : pos[x] = pos[y] => x = y
        /\ \A x \in 1..Len(found) : FoundAt(D, found[x], pos[x])
        /\ \A p \in 1..i : D[p].kind = "sfn" /\ NoFree(D, p) => \E x \in 1..Len(found) : pos[x] = p

\* Every position of the directory holds something.
LEMMA ViewIs ==
    ASSUME VolumeOK, DiskOK
    PROVE  /\ View \in [1..Len(DirectoryWalk) -> Content]
           /\ \A i \in 1..Len(DirectoryWalk) : View[i] = disk[DirectoryWalk[i]]
           /\ Len(DirectoryWalk) \in Nat \ {0}
<1>1. DirectoryWalk \in Seq(Place) /\ Len(DirectoryWalk) \in Nat \ {0}
  BY WalkIs
<1>2. \A i \in 1..Len(DirectoryWalk) : disk[DirectoryWalk[i]] \in Content
  BY <1>1 DEF DiskOK
<1> QED BY <1>1, <1>2 DEF View

\* One more part.
LEMMA RunLfn ==
    ASSUME NEW i \in Nat, NEW D, NEW s \in ScanState, NEW u \in ScanState, NEW e, RunIs(D, s, i),
           e = D[i + 1], e.kind = "lfn", e.part \in Word, e.first \in BOOLEAN, e.order \in Nat,
           NEW p \in Place, p = DirectoryWalk[i + 1],
           u.name = <<e.part>> \o s.name, u.places = Append(s.places, p),
           u.lfn_index = (IF e.first THEN e.order ELSE s.lfn_index) - 1,
           u.next_is_end_entry = (s.next_is_end_entry \/ u.lfn_index <= 1)
    PROVE  RunIs(D, u, i + 1)
<1> DEFINE m == Len(s.places)
           k == Len(u.places)
<1>1. /\ s.name \in Seq(Word) /\ s.places \in Seq(Place) /\ s.lfn_index \in Int /\ s.next_is_end_entry \in BOOLEAN
      /\ u.name \in Seq(Word) /\ u.places \in Seq(Place)
  BY DEF ScanState
<1>2. m \in Nat /\ m <= i /\ Len(s.name) = m /\ k = m + 1 /\ k \in Nat
  BY <1>1 DEF RunIs
<1>3. Len(u.name) = k /\ u.name[1] = e.part /\ \A j \in 1..m : u.name[j + 1] = s.name[j]
  <2>1. <<e.part>> \in Seq(Word) /\ Len(<<e.part>>) = 1 /\ <<e.part>>[1] = e.part
    OBVIOUS
  <2> DEFINE a == <<e.part>>
  <2>2. /\ Len(a \o s.name) = 1 + m
        /\ \A j \in 1..(1 + m) : (a \o s.name)[j] = IF j <= 1 THEN a[j] ELSE s.name[j - 1]
    <3> HIDE DEF a
    <3> QED BY <1>1, <1>2, <2>1, ConcatProperties DEF a
  <2>3. u.name[1] = e.part
    BY <1>2, <2>1, <2>2
  <2>4. ASSUME NEW j \in 1..m PROVE u.name[j + 1] = s.name[j]
    <3>1. j + 1 \in 1..(1 + m) /\ ~(j + 1 <= 1) /\ (j + 1) - 1 = j
      BY <1>2
    <3> HIDE DEF a, m
    <3> QED BY <2>2, <3>1 DEF a
  <2> QED BY <1>2, <2>2, <2>3, <2>4
<1>4. u.places[k] = p /\ \A j \in 1..m : u.places[j] = s.places[j]
  BY <1>1, <1>2
<1> DEFINE w == DirectoryWalk
<1>5. \A j \in 1..m : s.places[j] = w[i - m + j] /\ D[i - m + j].kind = "lfn" /\ s.name[m + 1 - j] = D[i - m + j].part
  BY DEF RunIs
<1>6. m = i \/ D[i - m].kind # "lfn"
  BY DEF RunIs
<1>7. \A n \in Seq(Word) :
          m \in 1..Len(n) /\ (\A j \in 1..m : D[i - m + j] = Lfn(Len(n) + 1 - j, j = 1, n[Len(n) + 1 - j]))
          => s.lfn_index = Len(n) - m /\ (m = Len(n) => s.next_is_end_entry)
  BY DEF RunIs
<1> HIDE DEF m, k, w
<1>8. (i + 1) - k = i - m
  BY <1>2
<1>9. ASSUME NEW j \in 1..k
      PROVE u.places[j] = w[(i + 1) - k + j] /\ D[(i + 1) - k + j].kind = "lfn" /\ u.name[k + 1 - j] = D[(i + 1) - k + j].part
  <2>1. CASE j = k
    <3>1. (i + 1) - k + j = i + 1 /\ k + 1 - j = 1
      BY <1>2, <2>1
    <3> QED BY <1>3, <1>4, <2>1, <3>1 DEF w
  <2>2. CASE j # k
    <3>1. j \in 1..m /\ (i + 1) - k + j = i - m + j /\ k + 1 - j = (m + 1 - j) + 1 /\ m + 1 - j \in 1..m
      BY <1>2, <2>2
    <3>2. u.places[j] = w[(i + 1) - k + j]
      BY <1>4, <1>5, <3>1
    <3>3. D[(i + 1) - k + j].kind = "lfn"
      BY <1>5, <3>1
    <3>4. u.name[k + 1 - j] = s.name[m + 1 - j]
      BY <1>3, <3>1
    <3>5. s.name[m + 1 - j] = D[i - m + j].part
      BY <1>5, <3>1
    <3> QED BY <3>1, <3>2, <3>3, <3>4, <3>5
  <2> QED BY <2>1, <2>2
<1>10. ASSUME NEW n \in Seq(Word), k \in 1..Len(n),
              \A j \in 1..k : D[(i + 1) - k + j] = Lfn(Len(n) + 1 - j, j = 1, n[Len(n) + 1 - j])
       PROVE u.lfn_index = Len(n) - k /\ (k = Len(n) => u.next_is_end_entry)
  <2>1. Len(n) \in Nat /\ k \in 1..k
    BY <1>2, <1>10
  <2>2. e = Lfn(Len(n) + 1 - k, k = 1, n[Len(n) + 1 - k])
    <3>1. (i + 1) - k + k = i + 1
      BY <1>2
    <3> QED BY <1>10, <2>1, <3>1
  <2>3. e.order = Len(n) + 1 - k /\ e.first = (k = 1)
    BY <2>2 DEF Lfn
  <2>4. u.lfn_index = Len(n) - k
    <3>1. CASE k = 1
      <4>1. e.first /\ e.order = Len(n)
        <5>1. e.order = Len(n)
          BY <2>1, <2>3, <3>1
        <5>2. e.first = (k = 1)
          BY <2>3
        <5>3. e.first
          BY ONLY <3>1, <5>2, Zenon
        <5> QED BY <5>1, <5>3
      <4>2. u.lfn_index = e.order - 1
        BY <4>1
      <4> QED BY <3>1, <4>1, <4>2
    <3>2. CASE k # 1
      <4>1. m \in 1..Len(n)
        BY <1>2, <1>10, <2>1, <3>2
      <4>2. \A j \in 1..m : D[i - m + j] = Lfn(Len(n) + 1 - j, j = 1, n[Len(n) + 1 - j])
        <5> SUFFICES ASSUME NEW j \in 1..m PROVE D[i - m + j] = Lfn(Len(n) + 1 - j, j = 1, n[Len(n) + 1 - j])
          OBVIOUS
        <5>1. j \in 1..k /\ (i + 1) - k + j = i - m + j
          BY <1>2
        <5> QED BY <1>10, <5>1
      <4>3. s.lfn_index = Len(n) - m
        BY <1>7, <4>1, <4>2
      <4> QED BY <1>2, <2>1, <2>3, <3>2, <4>3
    <3> QED BY <3>1, <3>2
  <2>5. ASSUME k = Len(n) PROVE u.next_is_end_entry
    <3>1. u.lfn_index <= 1
      BY <2>1, <2>4, <2>5
    <3> QED BY <3>1
  <2> QED BY <2>4, <2>5
<1>11. k <= i + 1 /\ (k = i + 1 \/ D[(i + 1) - k].kind # "lfn")
  BY <1>2, <1>6, <1>8
<1> HIDE DEF RunIs
<1>12. Len(u.name) = k
  BY <1>3
<1> QED BY <1>9, <1>10, <1>11, <1>12 DEF RunIs, k, w

\* The iterator is between two names.
LEMMA RunEmpty ==
    ASSUME NEW i \in Nat, NEW D, NEW s, s.name = <<>>, s.places = <<>>, i = 0 \/ D[i].kind # "lfn"
    PROVE  RunIs(D, s, i)
<1>1. Len(s.places) = 0 /\ Len(s.name) = 0 /\ i - 0 = i
  OBVIOUS
<1>2. \A j \in 1..0 : FALSE
  OBVIOUS
<1>3. \A n \in Seq(Word) : ~(0 \in 1..Len(n))
  OBVIOUS
<1> QED BY <1>1, <1>2, <1>3 DEF RunIs

\* A short entry completes a name.
LEMMA RunSfn ==
    ASSUME NEW i \in Nat, NEW D, NEW s \in ScanState, RunIs(D, s, i), NoFree(D, i),
           D[i + 1].kind = "sfn", NEW p \in Place, p = DirectoryWalk[i + 1],
           NEW f, f = [name  |-> IF s.next_is_end_entry THEN s.name ELSE D[i + 1].short,
                       first |-> Head(Append(s.places, p)), count |-> Len(s.places) + 1,
                       file  |-> D[i + 1].file]
    PROVE  FoundAt(D, f, i + 1)
<1> DEFINE m == Len(s.places)
           w == DirectoryWalk
           pl == Append(s.places, p)
<1>1. s.name \in Seq(Word) /\ s.places \in Seq(Place) /\ s.next_is_end_entry \in BOOLEAN
  BY DEF ScanState
<1>2. m \in Nat /\ m <= i /\ Len(s.name) = m
  BY <1>1 DEF RunIs
<1>3. /\ f.name = IF s.next_is_end_entry THEN s.name ELSE D[i + 1].short
      /\ f.first = Head(pl) /\ f.count = m + 1 /\ f.file = D[i + 1].file
  OBVIOUS
<1>4. \A j \in 1..m : s.places[j] = w[i - m + j] /\ D[i - m + j].kind = "lfn" /\ s.name[m + 1 - j] = D[i - m + j].part
  BY DEF RunIs
<1>5. m = i \/ D[i - m].kind # "lfn"
  BY DEF RunIs
<1>6. \A n \in Seq(Word) :
          m \in 1..Len(n) /\ (\A j \in 1..m : D[i - m + j] = Lfn(Len(n) + 1 - j, j = 1, n[Len(n) + 1 - j]))
          => s.lfn_index = Len(n) - m /\ (m = Len(n) => s.next_is_end_entry)
  BY DEF RunIs
<1>7. Head(pl) = pl[1] /\ (m = 0 => pl[1] = p) /\ (m # 0 => pl[1] = s.places[1])
  <2>1. pl \in Seq(Place) /\ Len(pl) = m + 1
    BY <1>1
  <2>2. Head(pl) = pl[1]
    <3> HIDE DEF pl
    <3> QED BY <1>2, <2>1
  <2>3. (m = 0 => pl[1] = p) /\ (m # 0 => pl[1] = s.places[1])
    BY <1>1, <1>2
  <2> QED BY <2>2, <2>3
<1> HIDE DEF m, w, pl
<1>8. f.first = w[(i + 1) - f.count + 1]
  <2>1. CASE m = 0
    <3>1. (i + 1) - f.count + 1 = i + 1
      BY <1>2, <1>3, <2>1
    <3> QED BY <1>3, <1>7, <2>1, <3>1 DEF w
  <2>2. CASE m # 0
    <3>1. 1 \in 1..m /\ (i + 1) - f.count + 1 = i - m + 1
      BY <1>2, <1>3, <2>2
    <3>2. s.places[1] = w[i - m + 1]
      BY <1>4, <3>1
    <3> QED BY <1>3, <1>7, <2>2, <3>1, <3>2
  <2> QED BY <2>1, <2>2
<1>9. NoFree(D, i + 1)
  <2> SUFFICES ASSUME NEW j \in 1..(i + 1) PROVE D[j].kind # "free"
    BY DEF NoFree
  <2>1. CASE j = i + 1
    BY <2>1
  <2>2. CASE j # i + 1
    <3>1. j \in 1..i
      BY <2>2
    <3> QED BY <3>1 DEF NoFree
  <2> QED BY <2>1, <2>2
<1>10. f.count \in 1..(i + 1)
  BY <1>2, <1>3
<1>11. ASSUME NEW j \in ((i + 1) - f.count + 1)..((i + 1) - 1) PROVE D[j].kind = "lfn"
  <2> DEFINE c == f.count
  <2>2. c = m + 1 /\ j \in ((i + 1) - c + 1)..((i + 1) - 1)
    BY <1>3
  <2> HIDE DEF c
  <2>4. (i + 1) - c + 1 = i - m + 1 /\ (i + 1) - 1 = i
    BY ONLY i \in Nat, <1>2, <2>2
  <2>3. j \in (i - m + 1)..i
    BY ONLY <2>2, <2>4
  <2>1. (j - i) + m \in 1..m /\ i - m + ((j - i) + m) = j
    BY <1>2, <2>3
  <2> QED BY <1>4, <2>1
<1>12. i + 1 = f.count \/ D[(i + 1) - f.count].kind # "lfn"
  <2>1. (i + 1) - f.count = i - m
    BY <1>2, <1>3
  <2> QED BY <1>2, <1>3, <1>5, <2>1
<1>13. ASSUME NEW n \in Seq(Word), n # <<>>, CleanAt(D, n, i + 1) PROVE f.name = n
  <2> DEFINE l == Len(n)
  <2>1. l \in Nat \ {0}
    BY <1>13
  <2>2. /\ l < i + 1
        /\ \A j \in 1..l : D[(i + 1) - l - 1 + j] = Lfn(l + 1 - j, j = 1, n[l + 1 - j])
        /\ i + 1 = l + 1 \/ D[(i + 1) - l - 1].kind # "lfn"
    BY <1>13 DEF CleanAt
  <2> HIDE DEF l
  <2>3. l <= i /\ (i + 1) - l - 1 = i - l
    BY <2>1, <2>2
  <2>4. ~(l < m)
    <3> SUFFICES ASSUME l < m PROVE FALSE
      OBVIOUS
    <3>1. m - l \in 1..m /\ i - m + (m - l) = i - l
      BY <1>2, <2>1, <2>3
    <3>2. D[i - l].kind = "lfn"
      BY <1>4, <3>1
    <3>3. ~(i + 1 = l + 1)
      BY <1>2, <2>1
    <3> QED BY <2>2, <2>3, <3>2, <3>3
  <2>5. ~(m < l)
    <3> SUFFICES ASSUME m < l PROVE FALSE
      OBVIOUS
    <3>1. l - m \in 1..l /\ (i - l) + (l - m) = i - m
      BY <1>2, <2>1, <2>3
    <3>2. D[i - m] = Lfn(l + 1 - (l - m), l - m = 1, n[l + 1 - (l - m)])
      BY <2>2, <2>3, <3>1
    <3>3. D[i - m].kind = "lfn"
      BY <3>2 DEF Lfn
    <3>4. m # i
      BY <1>2, <2>1, <2>3
    <3> QED BY <1>5, <3>3, <3>4
  <2>6. m = l
    BY <1>2, <2>1, <2>4, <2>5
  <2>7. \A j \in 1..m : D[i - m + j] = Lfn(l + 1 - j, j = 1, n[l + 1 - j])
    BY <2>2, <2>3, <2>6
  <2>8. s.next_is_end_entry
    <3>1. m \in 1..Len(n) /\ m = Len(n)
      BY <2>1, <2>6 DEF l
    <3> QED BY <1>6, <2>7, <3>1 DEF l
  <2>9. ASSUME NEW j \in 1..Len(s.name) PROVE s.name[j] = n[j]
    <3>1. j \in 1..m /\ m + 1 - j \in 1..m /\ m + 1 - (m + 1 - j) = j
      BY <1>2, SMTT(60)
    <3>2. s.name[j] = D[i - m + (m + 1 - j)].part
      BY <1>4, <3>1
    <3>3. D[i - m + (m + 1 - j)] = Lfn(l + 1 - (m + 1 - j), (m + 1 - j) = 1, n[l + 1 - (m + 1 - j)])
      BY <2>7, <3>1
    <3>4. l + 1 - (m + 1 - j) = j
      BY <1>2, <2>6, <3>1
    <3>5. D[i - m + (m + 1 - j)].part = n[j]
      BY <3>3, <3>4 DEF Lfn
    <3> QED BY <3>2, <3>5
  <2>10. s.name = n
    BY <1>1, <1>2, <2>6, <2>9, SeqEqual DEF l
  <2> QED BY <1>3, <2>8, <2>10
<1> QED BY <1>3, <1>8, <1>9, <1>10, <1>11, <1>12, <1>13 DEF FoundAt, w

\* Nothing is found at an entry that is not a short one, or behind a free one,
LEMMA FoundSame ==
    ASSUME NEW i \in Nat, NEW D, NEW found \in Seq(Finding), FoundIs(D, found, i),
           D[i + 1].kind # "sfn" \/ ~NoFree(D, i + 1)
    PROVE  FoundIs(D, found, i + 1)
<1>1. PICK pos \in [1..Len(found) -> 1..i] :
        /\ \A x, y \in 1..Len(found) : pos[x] = pos[y] => x = y
        /\ \A x \in 1..Len(found) : FoundAt(D, found[x], pos[x])
        /\ \A p \in 1..i : D[p].kind = "sfn" /\ NoFree(D, p) => \E x \in 1..Len(found) : pos[x] = p
  BY DEF FoundIs
<1>2. pos \in [1..Len(found) -> 1..(i + 1)]
  <2>1. 1..i \subseteq 1..(i + 1)
    OBVIOUS
  <2> QED BY <2>1
<1>3. ASSUME NEW p \in 1..(i + 1), D[p].kind = "sfn" /\ NoFree(D, p) PROVE \E x \in 1..Len(found) : pos[x] = p
  <2>1. p # i + 1
    BY <1>3
  <2>2. p \in 1..i
    BY <2>1
  <2> QED BY <1>1, <1>3, <2>2
<1> QED BY <1>1, <1>2, <1>3 DEF FoundIs

\* and one more at a short entry.
LEMMA FoundOne ==
    ASSUME NEW i \in Nat, NEW D, NEW found \in Seq(Finding), FoundIs(D, found, i),
           NEW f \in Finding, FoundAt(D, f, i + 1)
    PROVE  FoundIs(D, Append(found, f), i + 1)
<1>1. PICK pos \in [1..Len(found) -> 1..i] :
        /\ \A x, y \in 1..Len(found) : pos[x] = pos[y] => x = y
        /\ \A x \in 1..Len(found) : FoundAt(D, found[x], pos[x])
        /\ \A p \in 1..i : D[p].kind = "sfn" /\ NoFree(D, p) => \E x \in 1..Len(found) : pos[x] = p
  BY DEF FoundIs
<1> DEFINE l == Len(found)
           found2 == Append(found, f)
           pos2 == [x \in 1..(l + 1) |-> IF x = l + 1 THEN i + 1 ELSE pos[x]]
<1>2. l \in Nat /\ Len(found2) = l + 1 /\ found2[l + 1] = f /\ \A x \in 1..l : found2[x] = found[x]
  OBVIOUS
<1> HIDE DEF found2, l
<1>3. pos2[l + 1] = i + 1 /\ \A x \in 1..l : pos2[x] = pos[x] /\ pos[x] \in 1..i
  BY <1>1, <1>2 DEF l
<1>4. pos2 \in [1..(l + 1) -> 1..(i + 1)]
  <2>1. \A x \in 1..(l + 1) : x # l + 1 => x \in 1..l
    BY <1>2
  <2>2. ASSUME NEW x \in 1..(l + 1) PROVE (IF x = l + 1 THEN i + 1 ELSE pos[x]) \in 1..(i + 1)
    <3>1. CASE x = l + 1
      BY <3>1
    <3>2. CASE x # l + 1
      <4>1. pos[x] \in 1..i
        BY <1>3, <2>1, <3>2
      <4> QED BY <3>2, <4>1
    <3> QED BY <3>1, <3>2
  <2> QED BY <2>2
<1> HIDE DEF pos2
<1>5. \A x \in 1..(l + 1) : x = l + 1 \/ x \in 1..l
  BY <1>2
<1>6. ASSUME NEW x \in 1..(l + 1), NEW y \in 1..(l + 1), pos2[x] = pos2[y] PROVE x = y
  <2>1. CASE x = l + 1 /\ y = l + 1
    BY <2>1
  <2>2. CASE x \in 1..l /\ y \in 1..l
    BY <1>1, <1>3, <1>6, <2>2 DEF l
  <2>3. CASE x = l + 1 /\ y \in 1..l
    BY <1>3, <1>6, <2>3
  <2>4. CASE x \in 1..l /\ y = l + 1
    BY <1>3, <1>6, <2>4
  <2> QED BY <1>5, <2>1, <2>2, <2>3, <2>4
<1>7. ASSUME NEW x \in 1..(l + 1) PROVE FoundAt(D, found2[x], pos2[x])
  <2>1. CASE x = l + 1
    BY <1>2, <1>3, <2>1
  <2>2. CASE x \in 1..l
    BY <1>1, <1>2, <1>3, <2>2 DEF l
  <2> QED BY <1>5, <2>1, <2>2
<1>8. ASSUME NEW p \in 1..(i + 1), D[p].kind = "sfn" /\ NoFree(D, p) PROVE \E x \in 1..(l + 1) : pos2[x] = p
  <2>1. CASE p = i + 1
    <3>1. l + 1 \in 1..(l + 1)
      BY <1>2
    <3> QED BY <1>3, <2>1, <3>1
  <2>2. CASE p # i + 1
    <3>1. p \in 1..i
      BY <2>2
    <3>2. PICK x \in 1..l : pos[x] = p
      BY <1>1, <1>8, <3>1 DEF l
    <3>3. x \in 1..(l + 1)
      BY <1>2
    <3> QED BY <1>3, <3>2, <3>3
  <2> QED BY <2>1, <2>2
<1>9. /\ \A x, y \in 1..Len(found2) : pos2[x] = pos2[y] => x = y
      /\ \A x \in 1..Len(found2) : FoundAt(D, found2[x], pos2[x])
      /\ \A p \in 1..(i + 1) : D[p].kind = "sfn" /\ NoFree(D, p) => \E x \in 1..Len(found2) : pos2[x] = p
      /\ pos2 \in [1..Len(found2) -> 1..(i + 1)]
  BY <1>2, <1>4, <1>6, <1>7, <1>8
<1>10. FoundIs(D, found2, i + 1)
  BY <1>9 DEF FoundIs
<1> QED BY <1>10 DEF found2

\* f is the state of the iterator after each number of entries.
Scans(f) ==
    /\ f \in [0..Len(DirectoryWalk) -> ScanState]
    /\ f[0] = ScanStart
    /\ \A n \in 1..Len(DirectoryWalk) : f[n] = ScanEntry(f[n - 1], DirectoryWalk[n])
    /\ Listing = f[Len(DirectoryWalk)].found

\* A listing has a state for each number of entries read.
LEMMA ScanSteps == ASSUME VolumeOK, DiskOK PROVE \E f : Scans(f)
<1> DEFINE w == DirectoryWalk
           N == Len(w)
           V == ScanState
           Step == [x \in (1..N) \X V |-> ScanEntry(x[2], w[x[1]])]
           Rec(x) == x = [i \in 0..N |-> IF i = 0 THEN ScanStart ELSE ScanEntry(x[i - 1], w[i])]
<1>1. w \in Seq(Place) /\ N \in Nat \ {0}
  BY WalkIs
<1>2. ScanStart \in V
  BY StartIs
<1>3. ASSUME NEW n \in 1..N, NEW v \in V PROVE Step[<<n, v>>] = ScanEntry(v, w[n]) /\ ScanEntry(v, w[n]) \in V
  <2>1. w[n] \in Place
    BY <1>1
  <2>2. ScanEntry(v, w[n]) \in V
    BY <2>1, ScanIs
  <2>3. Step[<<n, v>>] = ScanEntry(<<n, v>>[2], w[<<n, v>>[1]])
    <3> HIDE DEF w, N, V
    <3> QED OBVIOUS
  <2> QED BY <2>2, <2>3
<1>4. Step \in [(1..N) \X V -> V]
  <2>1. ASSUME NEW x \in (1..N) \X V PROVE ScanEntry(x[2], w[x[1]]) \in V
    <3>1. x[1] \in 1..N /\ x[2] \in V
      <4> HIDE DEF N, V
      <4> QED OBVIOUS
    <3> QED BY <1>3, <3>1
  <2> HIDE DEF w, N, V
  <2> QED BY <2>1
<1>5. PICK g \in [0..N -> V] : g[0] = ScanStart /\ \A n \in 1..N : g[n] = Step[<<n, g[n - 1]>>]
  <2> HIDE DEF Step, V, N, w
  <2>1. N \in Nat
    BY <1>1
  <2>2. Step \in StepsOf(N, V)
    BY <1>4 DEF StepsOf
  <2>3. \E h : IsRun(N, V, ScanStart, Step, h)
    BY <1>2, <2>1, <2>2, RunExists
  <2> QED BY <2>3 DEF IsRun
<1> HIDE DEF Step
<1>6. ASSUME NEW n \in 1..N PROVE g[n] = ScanEntry(g[n - 1], w[n])
  <2>1. n - 1 \in 0..N
    <3> HIDE DEF N
    <3> QED BY <1>1
  <2>2. g[n - 1] \in V
    BY <1>5, <2>1
  <2> QED BY <1>3, <1>5, <2>2
<1>7. Rec(g)
  <2> HIDE DEF w, N, V
  <2>1. \A i \in 0..N : i # 0 => i \in 1..N
    BY <1>1
  <2>2. \A i \in 0..N : g[i] = IF i = 0 THEN ScanStart ELSE ScanEntry(g[i - 1], w[i])
    BY <1>5, <1>6, <2>1
  <2> QED BY <1>5, <2>2
<1> DEFINE f == CHOOSE x : Rec(x)
<1>8. Rec(f)
  <2> HIDE DEF Rec
  <2> QED BY <1>7 DEF Rec
<1>9. Listing = f[N].found
  BY DEF Listing
<1> HIDE DEF f
<1>10. f[0] = ScanStart /\ \A n \in 1..N : f[n] = ScanEntry(f[n - 1], w[n])
  <2> HIDE DEF w, N
  <2>1. 0 \in 0..N /\ \A n \in 1..N : n \in 0..N /\ n # 0
    BY <1>1
  <2> QED BY <1>8, <2>1
<1>11. 0..N \subseteq {i \in 0..N : f[i] \in V}
  <2> DEFINE S == {i \in 0..N : f[i] \in V}
  <2> HIDE DEF w, N, V
  <2>1. 0 \in S
    BY <1>1, <1>2, <1>10
  <2>2. ASSUME NEW n \in 0..N, n # N, n \in S PROVE n + 1 \in S
    <3>1. n + 1 \in 1..N /\ n + 1 \in 0..N /\ (n + 1) - 1 = n
      BY <1>1, <2>2
    <3>2. f[n + 1] = ScanEntry(f[n], w[n + 1])
      BY <1>10, <3>1
    <3>3. f[n] \in V
      BY <2>2
    <3> QED BY <1>3, <3>1, <3>2, <3>3
  <2> HIDE DEF S
  <2>3. N \in Nat
    BY <1>1
  <2>4. \A n \in 0..N : n # N /\ n \in S => n + 1 \in S
    BY <2>2
  <2>5. 0..N \subseteq S
    BY <2>1, <2>3, <2>4, InductUpTo
  <2> QED BY <2>5 DEF S
<1>12. f \in [0..N -> V]
  <2> HIDE DEF w, N, V
  <2> QED BY <1>8, <1>11
<1> QED BY <1>9, <1>10, <1>12 DEF Scans

\* The state of the iterator after i entries.
ScanInv(s, i) ==
    /\ s.over = ~NoFree(View, i)
    /\ ~s.over => RunIs(View, s, i)
    /\ FoundIs(View, s.found, i)

\* What is known of an iterator holds after each of them.
LEMMA ScanAll ==
    ASSUME VolumeOK, DiskOK, NEW f, Scans(f), NEW k \in 0..Len(DirectoryWalk)
    PROVE  ScanInv(f[k], k)
<1> DEFINE w == DirectoryWalk
           N == Len(w)
           S == {i \in 0..N : ScanInv(f[i], i)}
<1>1. w \in Seq(Place) /\ N = Len(w) /\ N \in Nat \ {0} /\ N \in Nat
  BY WalkIs
<1>2. /\ f \in [0..N -> ScanState] /\ f[0] = ScanStart
      /\ \A n \in 1..N : f[n] = ScanEntry(f[n - 1], w[n])
  BY DEF Scans
<1>3. /\ View \in [1..N -> Content]
      /\ \A i \in 1..N : View[i] = disk[w[i]]
  BY ViewIs
<1>4. 0 \in S
  <2>1. ScanStart.name = <<>> /\ ScanStart.places = <<>> /\ ScanStart.found = <<>> /\ ScanStart.over = FALSE
    BY DEF ScanStart
  <2>2. RunIs(View, ScanStart, 0)
    BY <2>1, RunEmpty
  <2>3. NoFree(View, 0)
    BY DEF NoFree
  <2>4. FoundIs(View, <<>>, 0)
    <3> DEFINE pos == [x \in {} |-> 0]
    <3>1. Len(<<>>) = 0 /\ 1..0 = {}
      OBVIOUS
    <3>2. pos \in [{} -> {}]
      OBVIOUS
    <3> QED BY <3>1, <3>2 DEF FoundIs
  <2>5. 0 \in 0..N
    <3> HIDE DEF N
    <3> QED BY <1>1
  <2> QED BY <1>2, <2>1, <2>2, <2>3, <2>4, <2>5 DEF ScanInv
<1>5. ASSUME NEW n \in 0..N, n # N, n \in S PROVE n + 1 \in S
  <2> HIDE DEF N, w
  <2> DEFINE s == f[n]
             u == f[n + 1]
             p == w[n + 1]
             e == disk[p]
  <2>1. n \in Nat /\ n + 1 \in 1..N /\ n + 1 \in 0..N /\ (n + 1) - 1 = n
    BY <1>1, <1>5
  <2>2. s \in ScanState /\ p \in Place /\ u = ScanEntry(s, p) /\ u \in ScanState /\ e = View[n + 1] /\ e \in Content
    <3> HIDE DEF S
    <3>1. n \in 0..N
      BY <1>5
    <3>2. s \in ScanState /\ u \in ScanState
      BY <1>2, <2>1, <3>1
    <3>3. p \in Place
      BY <1>1, <2>1
    <3>4. u = ScanEntry(s, p)
      <4>1. f[n + 1] = ScanEntry(f[(n + 1) - 1], w[n + 1])
        BY <1>2, <2>1
      <4> QED BY <2>1, <4>1
    <3>5. e = View[n + 1] /\ View[n + 1] \in Content
      BY <1>3, <2>1
    <3> QED BY <3>2, <3>3, <3>4, <3>5
  <2>3. ScanInv(s, n)
    BY <1>5
  <2>9. s.found \in Seq(Finding) /\ s.over \in BOOLEAN
    BY <2>2 DEF ScanState
  <2> HIDE DEF s, u, p, e
  <2>4. ASSUME ~NoFree(View, n) PROVE ~NoFree(View, n + 1)
    <3>1. PICK j \in 1..n : View[j].kind = "free"
      BY <2>4 DEF NoFree
    <3>2. j \in 1..(n + 1)
      BY <2>1
    <3> QED BY <3>1, <3>2 DEF NoFree
  <2>5. ASSUME NoFree(View, n), e.kind # "free" PROVE NoFree(View, n + 1)
    <3> SUFFICES ASSUME NEW j \in 1..(n + 1) PROVE View[j].kind # "free"
      BY DEF NoFree
    <3>1. CASE j = n + 1
      BY <2>2, <2>5, <3>1
    <3>2. CASE j # n + 1
      <4>1. j \in 1..n
        BY <2>1, <3>2
      <4> QED BY <2>5, <4>1 DEF NoFree
    <3> QED BY <3>1, <3>2
  <2>6. CASE s.over
    <3>1. u = s
      BY <2>2, <2>6, ScanIs DEF DiskOK
    <3>2. ~NoFree(View, n + 1)
      BY <2>3, <2>4, <2>6 DEF ScanInv
    <3>3. FoundIs(View, s.found, n + 1)
      BY <2>1, <2>3, <2>9, <3>2, FoundSame DEF ScanInv
    <3>4. ScanInv(u, n + 1)
      BY <2>6, <2>9, <3>1, <3>2, <3>3 DEF ScanInv
    <3> QED BY <2>1, <3>4 DEF u
  <2>7. CASE ~s.over /\ e.kind = "free"
    <3>1. u.over /\ u.found = s.found
      BY <2>2, <2>7, ScanIs DEF e
    <3>2. ~NoFree(View, n + 1)
      <4>1. n + 1 \in 1..(n + 1)
        BY <2>1
      <4> QED BY <2>2, <2>7, <4>1 DEF NoFree
    <3>3. FoundIs(View, s.found, n + 1)
      BY <2>1, <2>3, <2>9, <3>2, FoundSame DEF ScanInv
    <3>5. u.over \in BOOLEAN
      BY <2>2 DEF ScanState
    <3>4. ScanInv(u, n + 1)
      BY <3>1, <3>2, <3>3, <3>5 DEF ScanInv
    <3> QED BY <2>1, <3>4 DEF u
  <2>8. CASE ~s.over /\ e.kind # "free"
    <3>1. NoFree(View, n) /\ NoFree(View, n + 1) /\ RunIs(View, s, n) /\ FoundIs(View, s.found, n)
      BY <2>3, <2>5, <2>8, <2>9 DEF ScanInv
    <3>2. CASE e.kind = "deleted"
      <4>1. ~u.over /\ u.name = <<>> /\ u.places = <<>> /\ u.found = s.found
        BY <2>2, <2>8, <3>2, ScanIs DEF e
      <4>2. RunIs(View, u, n + 1)
        BY <2>1, <2>2, <3>2, <4>1, RunEmpty
      <4>3. FoundIs(View, u.found, n + 1)
        BY <2>1, <2>2, <2>9, <3>1, <3>2, <4>1, FoundSame
      <4>5. u.over \in BOOLEAN
        BY <2>2 DEF ScanState
      <4>4. ScanInv(u, n + 1)
        BY <3>1, <4>1, <4>2, <4>3, <4>5 DEF ScanInv
      <4> QED BY <2>1, <4>4 DEF u
    <3>3. CASE e.kind = "lfn"
      <4>1. /\ ~u.over /\ u.name = <<e.part>> \o s.name /\ u.places = Append(s.places, p)
            /\ u.lfn_index = (IF e.first THEN e.order ELSE s.lfn_index) - 1
            /\ u.next_is_end_entry = (s.next_is_end_entry \/ u.lfn_index <= 1)
            /\ u.found = s.found
        BY <2>2, <2>8, <3>3, ScanIs DEF e
      <4>6. e.part \in Word /\ e.first \in BOOLEAN /\ e.order \in Nat
        BY <2>2, <3>3, Contents
      <4>2. RunIs(View, u, n + 1)
        BY <2>1, <2>2, <3>1, <3>3, <4>1, <4>6, RunLfn DEF p, w
      <4>3. FoundIs(View, u.found, n + 1)
        BY <2>1, <2>2, <2>9, <3>1, <3>3, <4>1, FoundSame
      <4>5. u.over \in BOOLEAN
        BY <2>2 DEF ScanState
      <4>4. ScanInv(u, n + 1)
        BY <3>1, <4>1, <4>2, <4>3, <4>5 DEF ScanInv
      <4> QED BY <2>1, <4>4 DEF u
    <3>4. CASE e.kind = "sfn"
      <4> DEFINE g == [name  |-> IF s.next_is_end_entry THEN s.name ELSE e.short,
                       first |-> Head(Append(s.places, p)), count |-> Len(s.places) + 1,
                       file  |-> e.file]
      <4>1. ~u.over /\ u.name = <<>> /\ u.places = <<>> /\ u.found = Append(s.found, g)
        BY <2>2, <2>8, <3>4, ScanIs DEF e
      <4>2. RunIs(View, u, n + 1)
        BY <2>1, <2>2, <3>4, <4>1, RunEmpty
      <4>6. g \in Finding
        <5>1. e.short \in Seq(Word) /\ e.file \in File \union {Old, Dot, "none"}
          BY <2>2, <3>4, Contents
        <5>2. s.name \in Seq(Word) /\ s.places \in Seq(Place)
          BY <2>2 DEF ScanState
        <5> DEFINE pl == Append(s.places, p)
        <5>3. pl \in Seq(Place) /\ Len(pl) = Len(s.places) + 1 /\ Len(s.places) \in Nat
          BY <2>2, <5>2
        <5>4. Head(pl) \in Place /\ Len(s.places) + 1 \in Nat
          <6> HIDE DEF pl
          <6> QED BY <5>3
        <5> HIDE DEF pl
        <5>5. g = [name  |-> IF s.next_is_end_entry THEN s.name ELSE e.short,
                   first |-> Head(pl), count |-> Len(s.places) + 1, file  |-> e.file]
          BY DEF pl
        <5>6. (IF s.next_is_end_entry THEN s.name ELSE e.short) \in Seq(Word)
          BY <5>1, <5>2
        <5> HIDE DEF g
        <5> QED BY <5>1, <5>4, <5>5, <5>6 DEF Finding
      <4>7. FoundAt(View, g, n + 1)
        BY <2>1, <2>2, <3>1, <3>4, RunSfn DEF p, w
      <4> HIDE DEF g
      <4>3. FoundIs(View, u.found, n + 1)
        BY <2>1, <2>9, <3>1, <4>1, <4>6, <4>7, FoundOne
      <4>5. u.over \in BOOLEAN
        BY <2>2 DEF ScanState
      <4>4. ScanInv(u, n + 1)
        BY <3>1, <4>1, <4>2, <4>3, <4>5 DEF ScanInv
      <4> QED BY <2>1, <4>4 DEF u
    <3> QED BY <2>2, <2>8, <3>2, <3>3, <3>4, Contents
  <2> QED BY <2>6, <2>7, <2>8
<1> HIDE DEF S, N, w
<1>6. 0..N \subseteq S
  BY <1>1, <1>4, <1>5, InductUpTo
<1> QED BY <1>6 DEF S, N, w

\* A listing is what stands in the directory before its first free entry.
LEMMA ListingIs ==
    ASSUME VolumeOK, DiskOK
    PROVE  Listing \in Seq(Finding) /\ FoundIs(View, Listing, Len(DirectoryWalk))
<1>1. PICK f : Scans(f)
  BY ScanSteps
<1> DEFINE N == Len(DirectoryWalk)
<1>2. N \in 0..N
  BY WalkIs
<1>3. ScanInv(f[N], N) /\ f[N] \in ScanState /\ Listing = f[N].found
  BY <1>1, <1>2, ScanAll DEF Scans
<1> HIDE DEF N
<1> QED BY <1>3 DEF ScanInv, ScanState, N

(***************************************************************************)
(* What a directory holds between two steps                                *)
(***************************************************************************)
\* Position i holds a short entry of f.
Stands(D, f, i) == D[i].kind = "sfn" /\ D[i].file = f

\* The m entries of a name of f end with its short entry in position p.
NameAt(D, m, p, f) ==
    /\ m \in 1..p /\ p \in 1..Len(DirectoryWalk)
    /\ Stands(D, f, p)
    /\ \A j \in (p - m + 1)..(p - 1) : D[j].kind = "lfn"

\* Position j belongs to no name that ends in position i.
Outside(D, j, i) == \A a \in 1..i : (\A y \in a..(i - 1) : D[y].kind = "lfn") => j \notin a..i

\* f stands in one position and has the name n there, or stands nowhere if it has none.
KeptIn(D, L, n, f) ==
    IF n = <<>> THEN \A i \in 1..L : ~Stands(D, f, i)
    ELSE \E i \in 1..L : /\ Stands(D, f, i) /\ CleanAt(D, n, i)
                         /\ \A j \in 1..L : Stands(D, f, j) => j = i

KeptAs(D, n, f) == KeptIn(D, Len(DirectoryWalk), n, f)

\* Clusters of the directory; the position of the last place before the last of them.
Clusters == ChainFrom(start)
Before   == Len(DirectoryWalk) - ClusterSlots

FreshOf(c) == [i \in 1..blocks_per_cluster |-> <<c, i % blocks_per_cluster>>]

\* Blocks are cleared in a cluster that has just become the last one.
FreshOK ==
    fresh # <<>> =>
        /\ op \in {"create", "copy"} /\ ~old_root /\ Len(Clusters) >= 2
        /\ todo = EntriesOf(name, file)
        /\ \E m \in 1..blocks_per_cluster :
              fresh = SubSeq(FreshOf(Clusters[Len(Clusters)]), m, blocks_per_cluster)

\* The variables of a call.
CallOK ==
    /\ op \in {"create", "copy", "rewrite"} => name \in Name
    /\ op = "create" => file \in File
    /\ op = "copy" => entry \in Finding
    /\ file \in File \union {Old, Dot, "none"}
    /\ todo \in Seq(Content \ {FreeSlot})

-----------------------------------------------------------------------------
(* As long as every call began at a place that suits it: *)

\* no other place holds a file,
Loose ==
    \A p \in Place : (\A i \in 1..Len(DirectoryWalk) : DirectoryWalk[i] # p) =>
        disk[p].kind = "free" \/ (disk[p].kind = "sfn" /\ disk[p].file = Old)

KnownFiles ==
    /\ \A i \in 1..Len(DirectoryWalk) : View[i].kind = "sfn" => View[i].file \in File \union {Old, Dot}
    /\ op # "none" => file \in File \union {Old, Dot}

\* a file stands before the first free entry,
Visible ==
    \A i \in 1..Len(DirectoryWalk) : View[i].kind = "sfn" /\ View[i].file \in File => NoFree(View, i)

\* a file has its name, unless a call that stopped or goes on is about it,
Resting(f) == f # file \/ op = "none" \/ (op \in {"create", "copy"} /\ todo # <<>>)

Settled == \A f \in File \ suspect : Resting(f) => KeptAs(View, names[f], f)

\* and is not lost.
Somewhere ==
    \A f \in File : names[f] # <<>> /\ ~(op = "delete" /\ f = file) =>
        \E i \in 1..Len(DirectoryWalk) : Stands(View, f, i)

\* What a name is copied from is still there, apart from the positions s to t that
\* the copy takes.
Source(s, t) ==
    /\ op = "create" => \A i \in 1..Len(DirectoryWalk) : Stands(View, file, i) => i = t
    /\ op = "copy" => \E p \in 1..Len(DirectoryWalk) :
          /\ NameAt(View, entry.count, p, file)
          /\ entry.first = DirectoryWalk[p - entry.count + 1]
          /\ \A i \in (p - entry.count + 1)..p : i \notin s..t
          /\ file \in File \ suspect =>
                \A i \in 1..Len(DirectoryWalk) : Stands(View, file, i) => i = p \/ i = t

\* A name is written to positions s to t and has come to k.
WritingAt(s, k, t) ==
    /\ s \in Nat /\ s >= 1 /\ k \in Nat /\ s <= k /\ k <= t + 1 /\ t = s + Len(name)
    /\ t <= Len(DirectoryPlaces)
    /\ iter = Rest(k) /\ todo = SubSeq(EntriesOf(name, file), k - s + 1, Len(name) + 1)
    /\ NoFree(View, s - 1)
    /\ \A j \in 1..(k - s) : View[s + j - 1] = EntriesOf(name, file)[j]
    /\ \A i \in k..t : IsHole(View[i])
    /\ file \notin suspect => s = 1 \/ View[s - 1].kind # "lfn"
    /\ Source(s, t)

Writing == op \in {"create", "copy"} /\ fresh = <<>> => \E s, k, t \in Nat : WritingAt(s, k, t)

\* The last cluster is cleared for the name.
Clearing ==
    fresh # <<>> =>
        /\ Len(todo) <= ClusterSlots
        /\ NoFree(View, Before)
        /\ \A i \in (Before + 1)..Len(DirectoryWalk) :
              \/ View[i].kind = "free"
              \/ /\ Stands(View, Old, i)
                 /\ \E j \in 1..Len(fresh) : BlockOf(DirectoryWalk[i]) = fresh[j][2]
        /\ file \notin suspect => View[Before].kind # "lfn"
        /\ Source(Before + 1, Len(DirectoryWalk))

\* A name is deleted and has come to k; its short entry stands in q.  The others of
\* the file:
Others(q) == {i \in 1..Len(DirectoryWalk) : Stands(View, file, i) /\ (todo # <<>> => i # q)}

DeletingAt(k, q) ==
    /\ k \in Nat /\ k >= 1 /\ q = k + Len(todo) - 1 /\ q <= Len(DirectoryWalk)
    /\ iter = Rest(k) /\ fresh = <<>>
    /\ \A i \in 1..Len(todo) : todo[i] = Deleted
    /\ todo # <<>> => NameAt(View, Len(todo), q, file)
    /\ file \in File /\ names[file] # <<>> => Others(q) # {}
    /\ file \in File \ suspect =>
          /\ \A i \in Others(q) : names[file] # <<>> /\ CleanAt(View, names[file], i)
          /\ \A i, j \in Others(q) : i = j

Deleting == op = "delete" => \E k, q \in Int : DeletingAt(k, q)

\* A name is overwritten in positions s to t and has come to k.
RewritingAt(s, k, t) ==
    /\ s \in Nat /\ s >= 1 /\ k \in Nat /\ s <= k /\ k <= t + 1 /\ t = s + Len(name)
    /\ t <= Len(DirectoryWalk)
    /\ iter = Rest(k) /\ todo = SubSeq(EntriesOf(name, file), k - s + 1, Len(name) + 1)
    /\ ~old_root /\ fresh = <<>>
    /\ \A j \in 1..(k - s) : j <= Len(name) => View[s + j - 1] = EntriesOf(name, file)[j]
    /\ NameAt(View, Len(name) + 1, t, file)
    /\ s = 1 \/ View[s - 1].kind # "lfn"
    /\ file \in File \ suspect =>
          names[file] # <<>> /\ \A i \in 1..Len(DirectoryWalk) : Stands(View, file, i) => i = t

Rewriting == op = "rewrite" => \E s, k, t \in Nat : RewritingAt(s, k, t)

\* What was left by another owner is neither listed nor copied.
OldPlaces ==
    /\ ~old_root /\ Old \notin suspect =>
          /\ \A i \in 1..Len(DirectoryWalk) : Stands(View, Old, i) => fresh # <<>> /\ i > Before
          /\ op # "none" => file # Old
    /\ old_root /\ ~Overrun =>
          /\ \A p \in Place : p < RootSlots => ~(disk[p].kind = "sfn" /\ disk[p].file = Old)
          /\ op # "none" => file # Old

PlacedOK ==
    /\ Loose /\ KnownFiles /\ Visible /\ Settled /\ Somewhere
    /\ Writing /\ Clearing /\ Deleting /\ Rewriting /\ OldPlaces

DirInv == VolumeOK /\ TypeOK /\ FreshOK /\ CallOK /\ (~misplaced => PlacedOK)

\* Steps that leave the volume and the table alone leave the way through the directory.
LEMMA SameWalk ==
    ASSUME UNCHANGED <<volume, fat>>
    PROVE  /\ DirectoryWalk' = DirectoryWalk /\ DirectoryPlaces' = DirectoryPlaces
           /\ Place' = Place /\ ClusterSlots' = ClusterSlots /\ RootSlots' = RootSlots
           /\ ChainFrom(start)' = ChainFrom(start)
           /\ \A k : Rest(k)' = Rest(k)
           /\ \A p : BlockOf(p)' = BlockOf(p)
<1>1. old_root' = old_root /\ blocks_per_cluster' = blocks_per_cluster /\ start' = start /\ fat' = fat
  BY DEF volume
<1>2. ClusterSlots' = ClusterSlots /\ RootSlots' = RootSlots
  BY <1>1 DEF ClusterSlots, RootSlots
<1>3. Place' = Place /\ \A p : BlockOf(p)' = BlockOf(p)
  BY <1>2 DEF Place, BlockOf
<1>4. ChainFrom(start)' = ChainFrom(start)
  BY <1>1 DEF ChainFrom
<1>5. DirectoryWalk' = DirectoryWalk
  BY <1>1, <1>2 DEF DirectoryWalk, RootWalk, ClusterWalk, BlockPlaces, FirstPlace, ChainFrom, RootSlots, ClusterSlots
<1>6. DirectoryPlaces' = DirectoryPlaces
  BY <1>1, <1>2, <1>5 DEF DirectoryPlaces
<1>7. \A k : Rest(k)' = Rest(k)
  BY <1>5 DEF Rest
<1> QED BY <1>2, <1>3, <1>4, <1>5, <1>6, <1>7

\* Steps that leave the places alone leave what the directory holds.
LEMMA SameView ==
    ASSUME UNCHANGED <<volume, fat, disk>>
    PROVE  View' = View
<1>1. DirectoryWalk' = DirectoryWalk
  BY SameWalk
<1> QED BY <1>1 DEF View

\* A write to position k of the directory changes that position and no other.
LEMMA WriteView ==
    ASSUME VolumeOK, DiskOK, UNCHANGED <<volume, fat>>, NEW k \in 1..Len(DirectoryWalk),
           NEW x \in Content, disk' = [disk EXCEPT ![DirectoryWalk[k]] = x]
    PROVE  /\ View' = [View EXCEPT ![k] = x]
           /\ View'[k] = x /\ \A i \in 1..Len(DirectoryWalk) : i # k => View'[i] = View[i]
           /\ disk' \in [Place -> Content]
<1> DEFINE w == DirectoryWalk
<1>1. DirectoryWalk' = DirectoryWalk
  BY SameWalk
<1>2. w \in Seq(Place) /\ \A i, j \in 1..Len(w) : w[i] = w[j] => i = j
  BY WalkIs
<1>3. View' = [i \in 1..Len(w) |-> disk'[w[i]]] /\ View = [i \in 1..Len(w) |-> disk[w[i]]]
  BY <1>1 DEF View
<1>4. disk \in [Place -> Content] /\ w[k] \in Place
  BY <1>2 DEF DiskOK
<1> HIDE DEF w
<1>5. \A i \in 1..Len(w) : w[i] \in Place
  BY <1>2
<1>6. \A i \in 1..Len(w) : View'[i] = IF i = k THEN x ELSE View[i]
  <2> SUFFICES ASSUME NEW i \in 1..Len(w) PROVE View'[i] = IF i = k THEN x ELSE View[i]
    OBVIOUS
  <2>1. View'[i] = disk'[w[i]] /\ View[i] = disk[w[i]]
    BY <1>3
  <2>2. disk'[w[i]] = IF w[i] = w[k] THEN x ELSE disk[w[i]]
    BY <1>4, <1>5 DEF w
  <2>3. w[i] = w[k] <=> i = k
    BY <1>2 DEF w
  <2> QED BY <2>1, <2>2, <2>3
<1>7. View' = [View EXCEPT ![k] = x]
  <2> HIDE <1>3
  <2>1. [View EXCEPT ![k] = x] = [i \in 1..Len(w) |-> IF i = k THEN x ELSE View[i]]
    BY <1>3
  <2>2. View' = [i \in 1..Len(w) |-> View'[i]]
    BY <1>3
  <2> HIDE DEF View
  <2> QED BY <1>6, <2>1, <2>2
<1>8. disk' \in [Place -> Content]
  BY <1>4
<1> QED BY <1>6, <1>7, <1>8 DEF w

\* The entries of a name.
LEMMA EntriesAre ==
    ASSUME NEW n \in Name, NEW f \in File \union {Old, Dot, "none"}
    PROVE  LET E == EntriesOf(n, f) IN
           /\ E \in Seq(Content \ {FreeSlot}) /\ Len(E) = Len(n) + 1 /\ Len(n) \in Nat \ {0}
           /\ \A j \in 1..Len(n) : E[j] = Lfn(Len(n) + 1 - j, j = 1, n[Len(n) + 1 - j]) /\ E[j].kind = "lfn"
           /\ E[Len(n) + 1] = Sfn(ShortName(n), f) /\ E[Len(n) + 1].kind = "sfn" /\ E[Len(n) + 1].file = f
           /\ \A j \in 1..(Len(n) + 1) : E[j] \in Content \ {FreeSlot} /\ E[j].kind \in {"lfn", "sfn"}
<1> DEFINE l == Len(n)
           A == [i \in 1..l |-> Lfn(l + 1 - i, i = 1, n[l + 1 - i])]
           z == Sfn(ShortName(n), f)
           E == A \o <<z>>
           C == Content \ {FreeSlot}
<1>1. l \in Nat \ {0} /\ n \in Seq(Word)
  BY NamesAre
<1>2. EntriesOf(n, f) = E
  BY DEF EntriesOf
<1>3. ASSUME NEW i \in 1..l PROVE Lfn(l + 1 - i, i = 1, n[l + 1 - i]) \in C /\ Lfn(l + 1 - i, i = 1, n[l + 1 - i]).kind = "lfn"
  <2>1. l + 1 - i \in 1..l
    BY <1>1
  <2>2. n[l + 1 - i] \in ToSet(n)
    BY <1>1, <2>1 DEF ToSet
  <2>3. Lfn(l + 1 - i, i = 1, n[l + 1 - i]) \in LfnEntry
    BY <2>1, <2>2 DEF LfnEntry, Lfn
  <2>4. Lfn(l + 1 - i, i = 1, n[l + 1 - i]).kind = "lfn" /\ FreeSlot.kind = "free"
    BY DEF Lfn, FreeSlot
  <2>5. Lfn(l + 1 - i, i = 1, n[l + 1 - i]) # FreeSlot
    BY <2>4
  <2> QED BY <2>3, <2>4, <2>5 DEF Content
<1>4. z \in C /\ z.kind = "sfn" /\ z.file = f
  <2>1. z \in SfnEntry
    BY DEF SfnEntry, Sfn
  <2>2. z.kind = "sfn" /\ z.file = f /\ FreeSlot.kind = "free"
    BY DEF Sfn, FreeSlot
  <2>3. z # FreeSlot
    BY <2>2
  <2> QED BY <2>1, <2>2, <2>3 DEF Content
<1> HIDE DEF C, z, l
<1>5. A \in Seq(C) /\ Len(A) = l /\ \A i \in 1..l : A[i] = Lfn(l + 1 - i, i = 1, n[l + 1 - i])
  <2>1. A \in [1..l -> C]
    BY <1>3
  <2> QED BY <1>1, <2>1
<1> HIDE DEF A
<1>6. <<z>> \in Seq(C) /\ Len(<<z>>) = 1 /\ <<z>>[1] = z
  BY <1>4
<1>7. E \in Seq(C) /\ Len(E) = l + 1 /\ E[l + 1] = z /\ \A i \in 1..l : E[i] = A[i]
  BY <1>1, <1>5, <1>6
<1> HIDE DEF E
<1>8. \A j \in 1..l : E[j] = Lfn(l + 1 - j, j = 1, n[l + 1 - j]) /\ E[j].kind = "lfn"
  BY <1>3, <1>5, <1>7
<1>9. ASSUME NEW j \in 1..(l + 1) PROVE E[j] \in C /\ E[j].kind \in {"lfn", "sfn"}
  <2>1. CASE j = l + 1
    BY <1>4, <1>7, <2>1
  <2>2. CASE j # l + 1
    <3>1. j \in 1..l
      BY <1>1, <2>2
    <3> QED BY <1>3, <1>8, <3>1
  <2> QED BY <2>1, <2>2
<1>10. E[l + 1].kind = "sfn" /\ E[l + 1].file = f /\ E[l + 1] = Sfn(ShortName(n), f)
  BY <1>4, <1>7 DEF z
<1> QED BY <1>1, <1>2, <1>7, <1>8, <1>9, <1>10 DEF C, l

(***************************************************************************)
(* Names that stand beside a position that is written                      *)
(***************************************************************************)
\* A hole belongs to no name, and an entry of one name to no other.
LEMMA HoleOutside ==
    ASSUME NEW D, NEW i \in Nat, NEW j \in Nat, D[i].kind = "sfn", D[j].kind \notin {"lfn", "sfn"}
    PROVE  Outside(D, j, i)
<1> SUFFICES ASSUME NEW a \in 1..i, \A y \in a..(i - 1) : D[y].kind = "lfn", j \in a..i PROVE FALSE
  BY DEF Outside
<1>1. j = i \/ j \in a..(i - 1)
  OBVIOUS
<1> QED BY <1>1

\* An entry of one name is in no other.
LEMMA NameOutside ==
    ASSUME NEW D, NEW i \in Nat, D[i].kind = "sfn", NEW b \in Nat, NEW q \in Nat, D[q].kind = "sfn",
           \A y \in b..(q - 1) : D[y].kind = "lfn", i # q, NEW j \in b..q
    PROVE  Outside(D, j, i)
<1> SUFFICES ASSUME NEW a \in 1..i, \A y \in a..(i - 1) : D[y].kind = "lfn", j \in a..i PROVE FALSE
  BY DEF Outside
<1>1. CASE i < q
  <2>1. i \in b..(q - 1)
    BY <1>1
  <2> QED BY <2>1
<1>2. CASE q < i
  <2>1. q \in a..(i - 1)
    BY <1>2
  <2> QED BY <2>1
<1> QED BY <1>1, <1>2

\* What a name has before its short entry.
LEMMA CleanParts ==
    ASSUME NEW D, NEW n \in Name, NEW i \in Nat, CleanAt(D, n, i)
    PROVE  i - Len(n) \in 1..i /\ \A y \in (i - Len(n))..(i - 1) : D[y].kind = "lfn"
<1>1. Len(n) \in Nat \ {0} /\ Len(n) < i
  BY NamesAre DEF CleanAt
<1>2. ASSUME NEW y \in (i - Len(n))..(i - 1) PROVE D[y].kind = "lfn"
  <2> DEFINE m == y - i + Len(n) + 1
  <2>1. m \in 1..Len(n) /\ i - Len(n) - 1 + m = y
    BY <1>1
  <2>2. D[i - Len(n) - 1 + m] = Lfn(Len(n) + 1 - m, m = 1, n[Len(n) + 1 - m])
    BY <2>1 DEF CleanAt
  <2> HIDE DEF m
  <2> QED BY <2>1, <2>2 DEF Lfn
<1> QED BY <1>1, <1>2

\* A write beside a name leaves it.
LEMMA CleanSurvives ==
    ASSUME NEW D, NEW n \in Name, NEW i \in Nat, CleanAt(D, n, i), NEW E, NEW k \in Nat,
           \A y \in 1..i : y # k => E[y] = D[y],
           Outside(D, k, i), E[k].kind = "lfn" => Outside(D, k + 1, i)
    PROVE  CleanAt(E, n, i)
<1> DEFINE l == Len(n)
<1>1. l \in Nat \ {0} /\ l < i
  BY NamesAre DEF CleanAt
<1>2. i - l \in 1..i /\ \A y \in (i - l)..(i - 1) : D[y].kind = "lfn"
  BY CleanParts
<1>3. k \notin (i - l)..i /\ (E[k].kind = "lfn" => k + 1 \notin (i - l)..i)
  BY <1>2 DEF Outside
<1>4. ASSUME NEW m \in 1..l PROVE E[i - l - 1 + m] = Lfn(l + 1 - m, m = 1, n[l + 1 - m])
  <2> HIDE DEF l
  <2>1. i - l - 1 + m \in 1..i /\ i - l - 1 + m \in (i - l)..i
    BY <1>1
  <2>2. E[i - l - 1 + m] = D[i - l - 1 + m]
    BY <1>3, <2>1
  <2> QED BY <2>2 DEF CleanAt, l
<1>5. i = l + 1 \/ E[i - l - 1].kind # "lfn"
  <2>1. CASE i = l + 1
    BY <2>1
  <2>2. CASE i # l + 1 /\ k = i - l - 1
    <3>1. k + 1 \in (i - l)..i
      BY <1>1, <2>2
    <3> QED BY <1>3, <2>2, <3>1
  <2>3. CASE i # l + 1 /\ k # i - l - 1
    <3>1. i - l - 1 \in 1..i
      BY <1>1, <2>3
    <3>2. E[i - l - 1] = D[i - l - 1]
      BY <2>3, <3>1
    <3> QED BY <2>3, <3>2 DEF CleanAt
  <2> QED BY <2>1, <2>2, <2>3
<1> QED BY <1>1, <1>4, <1>5 DEF CleanAt

\* and the file keeps its name.
LEMMA KeptSurvives ==
    ASSUME VolumeOK, NEW f, NEW n \in Name \union {<<>>}, NEW D, KeptAs(D, n, f),
           NEW E, NEW k \in 1..Len(DirectoryWalk),
           \A y \in 1..Len(DirectoryWalk) : y # k => E[y] = D[y],
           \A i \in 1..Len(DirectoryWalk) : Stands(D, f, i) =>
              Outside(D, k, i) /\ (E[k].kind = "lfn" => Outside(D, k + 1, i)),
           ~Stands(E, f, k)
    PROVE  KeptAs(E, n, f)
<1> DEFINE L == Len(DirectoryWalk)
<1>1. L \in Nat
  BY WalkIs
<1>2. ~Stands(D, f, k)
  <2> SUFFICES ASSUME Stands(D, f, k) PROVE FALSE
    OBVIOUS
  <2>1. Outside(D, k, k)
    OBVIOUS
  <2>2. k \in 1..k /\ k \in k..k /\ \A y \in k..(k - 1) : D[y].kind = "lfn"
    BY <1>1
  <2> QED BY <2>1, <2>2 DEF Outside
<1>3. \A i \in 1..L : Stands(E, f, i) <=> Stands(D, f, i)
  <2> SUFFICES ASSUME NEW i \in 1..L PROVE Stands(E, f, i) <=> Stands(D, f, i)
    OBVIOUS
  <2>1. CASE i = k
    BY <1>2, <2>1
  <2>2. CASE i # k
    <3>1. E[i] = D[i]
      BY <2>2
    <3> QED BY <3>1 DEF Stands
  <2> QED BY <2>1, <2>2
<1>4. CASE n = <<>>
  BY <1>3, <1>4 DEF KeptAs, KeptIn
<1>5. CASE n # <<>>
  <2>1. PICK i \in 1..L : /\ Stands(D, f, i) /\ CleanAt(D, n, i)
                          /\ \A j \in 1..L : Stands(D, f, j) => j = i
    BY <1>5 DEF KeptAs, KeptIn
  <2>2. Outside(D, k, i) /\ (E[k].kind = "lfn" => Outside(D, k + 1, i))
    BY <2>1
  <2>3. \A y \in 1..i : y # k => E[y] = D[y]
    BY <1>1
  <2>4. CleanAt(E, n, i)
    <3>1. i \in Nat /\ k \in Nat /\ n \in Name
      BY <1>1, <1>5
    <3> QED BY <2>1, <2>2, <2>3, <3>1, CleanSurvives
  <2> QED BY <1>3, <1>5, <2>1, <2>4 DEF KeptAs, KeptIn
<1> QED BY <1>4, <1>5


(***************************************************************************)
(* What a call begins with                                                 *)
(***************************************************************************)
\* find_entry returns a name of the directory.
LEMMA FindIs ==
    ASSUME VolumeOK, DiskOK, NEW n, Find(n) # NoEntry
    PROVE  /\ Find(n) \in Finding
           /\ \E p \in 1..Len(DirectoryWalk) : FoundAt(View, Find(n), p)
<1> DEFINE found == Listing
           S == {i \in 1..Len(found) : found[i].name = n}
           i == IF S # {} THEN Min(S) ELSE 0
<1>1. found \in Seq(Finding) /\ FoundIs(View, found, Len(DirectoryWalk))
  BY ListingIs
<1>2. Find(n) = IF i = 0 THEN NoEntry ELSE found[i]
  BY DEF Find, SelectInSeq
<1> HIDE DEF found
<1>3. i # 0
  <2> HIDE DEF i
  <2> QED BY <1>2
<1>4. i \in 1..Len(found)
  <2>1. S # {} /\ S \in SUBSET Nat /\ i = Min(S)
    BY <1>1, <1>3
  <2>2. i \in S
    <3> HIDE DEF S, i
    <3> QED BY <2>1, MinOf
  <2> QED BY <2>2
<1> HIDE DEF i
<1>5. PICK pos \in [1..Len(found) -> 1..Len(DirectoryWalk)] :
        \A x \in 1..Len(found) : FoundAt(View, found[x], pos[x])
  BY <1>1 DEF FoundIs
<1>6. Find(n) = found[i]
  BY <1>2, <1>3
<1>7. found[i] \in Finding /\ pos[i] \in 1..Len(DirectoryWalk) /\ FoundAt(View, found[i], pos[i])
  BY <1>1, <1>4, <1>5
<1> QED BY <1>6, <1>7

\* allocate_entries takes the first hole.
LEMMA HoleIs ==
    ASSUME VolumeOK, DiskOK
    PROVE  /\ FirstHole # 0 => /\ FirstHole \in 1..Len(DirectoryWalk) /\ IsHole(View[FirstHole])
                               /\ NoFree(View, FirstHole - 1)
           /\ FirstHole = 0 => \A i \in 1..Len(DirectoryWalk) : ~IsHole(View[i])
<1> DEFINE w == DirectoryWalk
           S == {i \in 1..Len(w) : w[i] \in Place /\ IsHole(disk[w[i]])}
           h == IF S # {} THEN Min(S) ELSE 0
<1>1. w \in Seq(Place) /\ Len(w) \in Nat
  BY WalkIs
<1>2. FirstHole = h
  BY DEF FirstHole, SelectInSeq
<1>3. \A i \in 1..Len(w) : View[i] = disk[w[i]]
  BY ViewIs
<1> HIDE DEF w
<1>4. \A i \in 1..Len(w) : i \in S <=> IsHole(View[i])
  BY <1>1, <1>3
<1>5. S \in SUBSET Nat /\ \A i \in S : i \in 1..Len(w)
  BY <1>1
<1> HIDE DEF S
<1>6. CASE S # {}
  <2>1. h \in S /\ \A i \in S : h <= i
    BY <1>5, <1>6, MinOf
  <2> HIDE DEF h
  <2>2. h \in 1..Len(w) /\ h # 0
    BY <1>5, <2>1
  <2>3. ASSUME NEW j \in 1..(h - 1) PROVE View[j].kind # "free"
    <3>1. j \in 1..Len(w) /\ ~(h <= j)
      BY <1>1, <2>2
    <3>2. ~IsHole(View[j])
      BY <1>4, <2>1, <3>1
    <3> QED BY <3>2 DEF IsHole
  <2>4. NoFree(View, h - 1)
    BY <2>3 DEF NoFree
  <2> QED BY <1>2, <1>4, <2>1, <2>2, <2>4 DEF w
<1>7. CASE S = {}
  BY <1>2, <1>4, <1>7 DEF w
<1> QED BY <1>6, <1>7

(***************************************************************************)
(* The directory grows by a cluster and loses it again                     *)
(***************************************************************************)
ChainOK == /\ IsChain(fat, start, Clusters) /\ Clusters \in Seq(Cluster) /\ Len(Clusters) \in Nat \ {0}
           /\ DirectoryWalk = [i \in 1..(Len(Clusters) * ClusterSlots) |-> PlaceIn(Clusters, i)]
           /\ Len(DirectoryWalk) = Len(Clusters) * ClusterSlots
           /\ DirectoryPlaces = DirectoryWalk
           /\ \A ds : IsChain(fat, start, ds) => Clusters = ds

\* The clusters of a directory are a chain.
LEMMA ChainIs == VolumeOK /\ ~old_root => ChainOK
<1> SUFFICES ASSUME VolumeOK, ~old_root PROVE ChainOK
  OBVIOUS
<1>1. PICK cs : IsChain(fat, start, cs)
  BY DEF VolumeOK
<1>2. cs \in Seq(Cluster) /\ Len(cs) \in Nat \ {0} /\ cs[1] = start /\ fat \in Table
  BY <1>1 DEF IsChain, VolumeOK
<1>3. ASSUME NEW ds, IsChain(fat, start, ds) PROVE Clusters = ds
  <2>1. ds \in Seq(Cluster) /\ Len(ds) \in Nat \ {0} /\ ds[1] = start
    BY <1>3 DEF IsChain
  <2>2. Clusters = SubSeq(ds, 1, Len(ds))
    BY <1>2, <1>3, <2>1, ChainFromIs DEF Clusters
  <2> QED BY <2>1, <2>2
<1>4. Clusters = cs
  BY <1>1, <1>3
<1>5. ClusterSlots \in Nat
  BY Sizes
<1>6. DirectoryWalk = [i \in 1..(Len(cs) * ClusterSlots) |-> PlaceIn(cs, i)] /\ DirectoryPlaces = DirectoryWalk
  BY <1>1, ChainWalk
<1>7. Len(cs) * ClusterSlots \in Nat
  BY <1>2, <1>5
<1>8. Len(DirectoryWalk) = Len(cs) * ClusterSlots
  <2> DEFINE N == Len(cs) * ClusterSlots
  <2> HIDE DEF N
  <2>1. DirectoryWalk = [i \in 1..N |-> PlaceIn(cs, i)] /\ N \in Nat
    BY <1>6, <1>7 DEF N
  <2> QED BY <2>1 DEF N
<1> QED BY <1>1, <1>2, <1>3, <1>4, <1>6, <1>8 DEF ChainOK


\* A cluster that is linked comes behind all others.
LEMMA ChainGrows ==
    ASSUME NEW F \in Table, NEW c, NEW cs, IsChain(F, c, cs), NEW d \in Cluster, F[d] = Free,
           NEW G, G = [F EXCEPT ![cs[Len(cs)]] = d, ![d] = EndOfChain]
    PROVE  G \in Table /\ IsChain(G, c, Append(cs, d))
<1> DEFINE l == Len(cs)
           ds == Append(cs, d)
<1>1. cs \in Seq(Cluster) /\ l \in Nat \ {0} /\ l >= 1 /\ cs[1] = c
  BY DEF IsChain
<1>2. /\ \A i, j \in 1..l : cs[i] = cs[j] => i = j
      /\ \A i \in 1..(l - 1) : F[cs[i]] = cs[i + 1]
      /\ F[cs[l]] = EndOfChain
      /\ \A e \in Cluster : (\A i \in 1..l : cs[i] # e) => F[e] \in {Free, EndOfChain}
  BY DEF IsChain
<1>3. ds \in Seq(Cluster) /\ Len(ds) = l + 1 /\ ds[l + 1] = d /\ \A i \in 1..l : ds[i] = cs[i]
  BY <1>1
<1>4. cs[l] \in Cluster /\ \A i \in 1..l : cs[i] \in Cluster
  BY <1>1
<1> HIDE DEF l, ds
<1>5. ASSUME NEW i \in 1..l PROVE cs[i] # d
  <2>1. CASE i = l
    BY <1>2, <2>1, MarksAreNotClusters
  <2>2. CASE i # l
    <3>1. i \in 1..(l - 1) /\ i + 1 \in 1..l
      BY <1>1, <2>2
    <3> QED BY <1>2, <1>4, <3>1, MarksAreNotClusters
  <2> QED BY <2>1, <2>2
<1>6. \A e \in Cluster : G[e] = IF e = d THEN EndOfChain ELSE IF e = cs[l] THEN d ELSE F[e]
  BY <1>4, <1>5 DEF Table, l
<1>7. G \in Table
  BY <1>4 DEF Table, FatValue, l
<1>8. ASSUME NEW i \in 1..(l + 1), NEW j \in 1..(l + 1), ds[i] = ds[j] PROVE i = j
  <2>1. i = l + 1 \/ i \in 1..l
    BY <1>1
  <2>2. j = l + 1 \/ j \in 1..l
    BY <1>1
  <2> QED BY <1>2, <1>3, <1>5, <1>8, <2>1, <2>2
<1>9. ASSUME NEW i \in 1..l PROVE G[ds[i]] = ds[i + 1]
  <2>1. CASE i = l
    BY <1>3, <1>4, <1>5, <1>6, <2>1
  <2>2. CASE i # l
    <3>1. i \in 1..(l - 1) /\ i + 1 \in 1..l /\ l \in 1..l
      BY <1>1, <2>2
    <3>2. cs[i] # cs[l] /\ cs[i] # d /\ cs[i] \in Cluster
      BY <1>2, <1>4, <1>5, <2>2, <3>1
    <3> QED BY <1>2, <1>3, <1>6, <3>1, <3>2, ZenonT(60)
  <2> QED BY <2>1, <2>2
<1>10. G[ds[l + 1]] = EndOfChain
  BY <1>3, <1>6
<1>11. ASSUME NEW e \in Cluster, \A i \in 1..(l + 1) : ds[i] # e PROVE G[e] \in {Free, EndOfChain}
  <2>1. e # d /\ \A i \in 1..l : cs[i] # e
    <3>1. l + 1 \in 1..(l + 1) /\ \A i \in 1..l : i \in 1..(l + 1)
      BY <1>1
    <3> QED BY <1>3, <1>11, <3>1
  <2>2. l \in 1..l
    BY <1>1
  <2> QED BY <1>2, <1>6, <2>1, <2>2
<1>12. ds[1] = c /\ (l + 1) - 1 = l /\ l + 1 >= 1
  BY <1>1, <1>3
<1>13. IsChain(G, c, ds)
  BY <1>3, <1>8, <1>9, <1>10, <1>11, <1>12 DEF IsChain
<1> QED BY <1>7, <1>13 DEF ds

\* A last cluster that is freed was behind all others.
LEMMA ChainShrinks ==
    ASSUME NEW F \in Table, NEW c, NEW cs, IsChain(F, c, cs), Len(cs) >= 2,
           NEW d, d = cs[Len(cs)],
           NEW G, G = [e \in Cluster |-> IF e = d THEN Free ELSE IF F[e] = d THEN EndOfChain ELSE F[e]]
    PROVE  G \in Table /\ IsChain(G, c, SubSeq(cs, 1, Len(cs) - 1))
<1> DEFINE l == Len(cs)
           ds == SubSeq(cs, 1, l - 1)
<1>1. cs \in Seq(Cluster) /\ l \in Nat \ {0} /\ l >= 2 /\ cs[1] = c
  BY DEF IsChain
<1>2. /\ \A i, j \in 1..l : cs[i] = cs[j] => i = j
      /\ \A i \in 1..(l - 1) : F[cs[i]] = cs[i + 1]
      /\ F[cs[l]] = EndOfChain
      /\ \A e \in Cluster : (\A i \in 1..l : cs[i] # e) => F[e] \in {Free, EndOfChain}
  BY DEF IsChain
<1>3. ds \in Seq(Cluster) /\ Len(ds) = l - 1 /\ \A i \in 1..(l - 1) : ds[i] = cs[i]
  BY <1>1
<1>4. \A i \in 1..l : cs[i] \in Cluster
  BY <1>1
<1>0. d = cs[l]
  OBVIOUS
<1> HIDE DEF l, ds
<1>5. \A e \in Cluster : G[e] = IF e = d THEN Free ELSE IF F[e] = d THEN EndOfChain ELSE F[e]
  OBVIOUS
<1>6. G \in Table
  <2>1. \A e \in Cluster : F[e] \in FatValue
    BY DEF Table
  <2> QED BY <2>1 DEF Table, FatValue
<1>7. ASSUME NEW i \in 1..((l - 1) - 1) PROVE G[ds[i]] = ds[i + 1]
  <2>1. i \in 1..(l - 1) /\ i + 1 \in 1..(l - 1) /\ i \in 1..l /\ i + 1 \in 1..l /\ l \in 1..l /\ i # l /\ i + 1 # l
    BY <1>1
  <2>2. cs[i] # d /\ cs[i + 1] # d /\ F[cs[i]] = cs[i + 1] /\ cs[i] \in Cluster
    BY <1>0, <1>2, <1>4, <2>1
  <2> QED BY <1>3, <1>5, <2>1, <2>2
<1>8. G[ds[l - 1]] = EndOfChain
  <2>1. l - 1 \in 1..(l - 1) /\ l - 1 \in 1..l /\ l \in 1..l /\ l - 1 # l /\ (l - 1) + 1 = l
    BY <1>1
  <2>2. cs[l - 1] # d /\ F[cs[l - 1]] = d /\ cs[l - 1] \in Cluster
    BY <1>0, <1>2, <1>4, <2>1
  <2> QED BY <1>3, <1>5, <2>1, <2>2
<1>9. ASSUME NEW e \in Cluster, \A i \in 1..(l - 1) : ds[i] # e PROVE G[e] \in {Free, EndOfChain}
  <2>1. CASE e = d
    BY <1>5, <2>1
  <2>2. CASE e # d
    <3>1. \A i \in 1..l : cs[i] # e
      <4>1. \A i \in 1..l : i = l \/ i \in 1..(l - 1)
        BY <1>1
      <4> QED BY <1>0, <1>3, <1>9, <2>2, <4>1
    <3> QED BY <1>2, <1>5, <2>2, <3>1
  <2> QED BY <2>1, <2>2
<1>10. ASSUME NEW i \in 1..(l - 1), NEW j \in 1..(l - 1), ds[i] = ds[j] PROVE i = j
  <2>1. i \in 1..l /\ j \in 1..l
    BY <1>1
  <2> QED BY <1>2, <1>3, <1>10, <2>1
<1>11. ds[1] = c /\ l - 1 >= 1
  <2>1. 1 \in 1..(l - 1)
    BY <1>1
  <2> QED BY <1>1, <1>3, <2>1
<1>12. IsChain(G, c, ds)
  BY <1>3, <1>7, <1>8, <1>9, <1>10, <1>11 DEF IsChain
<1> QED BY <1>6, <1>12 DEF ds, l

\* The places of a directory with a cluster more are those it had and those of the cluster.
LEMMA PlacesGrow ==
    ASSUME VolumeOK, NEW cs \in Seq(Cluster), NEW l, l = Len(cs), NEW ds, ds \in Seq(Cluster),
           Len(ds) = l + 1, \A i \in 1..l : ds[i] = cs[i]
    PROVE  /\ (l + 1) * ClusterSlots = (l * ClusterSlots) + ClusterSlots
           /\ \A i \in 1..(l * ClusterSlots) : PlaceIn(ds, i) = PlaceIn(cs, i)
           /\ \A r \in 0..(ClusterSlots - 1) : PlaceIn(ds, (l * ClusterSlots) + r + 1) = SlotOf(ds[l + 1], r)
<1> DEFINE CS == ClusterSlots
<1>1. CS \in Nat \ {0} /\ l \in Nat
  BY Sizes
<1> HIDE DEF CS
<1>2. (l + 1) * CS = (l * CS) + CS
  BY <1>1
<1>3. ASSUME NEW i \in 1..(l * CS) PROVE PlaceIn(ds, i) = PlaceIn(cs, i)
  <2>1. (i - 1) \div CS \in 0..(l - 1)
    BY <1>1, InCluster
  <2> DEFINE q == (i - 1) \div CS
  <2> HIDE DEF q
  <2>2. q + 1 \in 1..l
    BY <1>1, <2>1 DEF q
  <2>3. ds[q + 1] = cs[q + 1]
    BY <2>2
  <2> QED BY <2>3 DEF PlaceIn, q, CS
<1>4. ASSUME NEW r \in 0..(CS - 1) PROVE PlaceIn(ds, (l * CS) + r + 1) = SlotOf(ds[l + 1], r)
  <2> DEFINE i == (l * CS) + r + 1
  <2>1. (i - 1) \div CS = l /\ (i - 1) % CS = r
    <3>1. r \in Nat /\ r < CS
      BY <1>1
    <3>2. l * CS = CS * l
      BY <1>1
    <3>3. ((CS * l) + r) \div CS = l /\ ((CS * l) + r) % CS = r
      BY <1>1, <3>1, OneQuotient
    <3>4. i - 1 = (CS * l) + r
      BY <1>1, <3>1, <3>2
    <3> HIDE DEF i
    <3> QED BY <3>3, <3>4
  <2> HIDE DEF i
  <2> QED BY <2>1 DEF PlaceIn, i, CS
<1> QED BY <1>2, <1>3, <1>4 DEF CS

WalkOK ==
    /\ DirectoryWalk \in Seq(Place)
    /\ \A i, j \in 1..Len(DirectoryWalk) : DirectoryWalk[i] = DirectoryWalk[j] => i = j

\* The way through the directory of this state.
LEMMA WalkIsNow == VolumeOK => WalkOK
  BY WalkIs DEF WalkOK

\* allocate_entries has linked a cluster.
LEMMA Grown ==
    ASSUME VolumeOK, ~old_root, NEW c \in Cluster, fat[c] = Free, UNCHANGED volume,
           fat' = [fat EXCEPT ![Last(ChainFrom(start))] = c, ![c] = EndOfChain]
    PROVE  /\ VolumeOK' /\ Clusters' = Append(Clusters, c) /\ Len(Clusters') = Len(Clusters) + 1
           /\ Clusters'[Len(Clusters) + 1] = c /\ Len(Clusters) >= 1
           /\ DirectoryPlaces' = DirectoryWalk' /\ DirectoryWalk' \in Seq(Place)
           /\ Len(DirectoryWalk') = Len(DirectoryWalk) + ClusterSlots
           /\ \A i \in 1..Len(DirectoryWalk) : DirectoryWalk'[i] = DirectoryWalk[i]
           /\ \A r \in 0..(ClusterSlots - 1) : DirectoryWalk'[Len(DirectoryWalk) + r + 1] = SlotOf(c, r)
           /\ \A i \in (Len(DirectoryWalk) + 1)..Len(DirectoryWalk'), j \in 1..Len(DirectoryWalk) :
                 DirectoryWalk[j] # DirectoryWalk'[i]
           /\ ClusterSlots' = ClusterSlots /\ Place' = Place /\ RootSlots' = RootSlots
<1> DEFINE cs == Clusters
           l == Len(cs)
           ds == Append(cs, c)
           CS == ClusterSlots
           w == DirectoryWalk
<1>1. /\ IsChain(fat, start, cs) /\ cs \in Seq(Cluster) /\ l \in Nat \ {0}
      /\ w = [i \in 1..(l * CS) |-> PlaceIn(cs, i)] /\ Len(w) = l * CS
  BY ChainIs DEF ChainOK
<1>2. fat \in Table /\ fat' = [fat EXCEPT ![cs[l]] = c, ![c] = EndOfChain]
  BY DEF VolumeOK, Clusters, Last
<1>3. fat' \in Table /\ IsChain(fat', start, ds)
  BY <1>1, <1>2, ChainGrows
<1>4. old_root' = old_root /\ blocks_per_cluster' = blocks_per_cluster /\ start' = start
  BY DEF volume
<1>5. CS' = CS /\ Place' = Place /\ RootSlots' = RootSlots
  BY <1>4 DEF ClusterSlots, Place, RootSlots
<1>6. VolumeOK'
  <2>1. start \in Cluster /\ blocks_per_cluster \in ClusterSizes
    BY DEF VolumeOK
  <2> QED BY <1>3, <1>4, <2>1 DEF VolumeOK
<1>7. /\ IsChain(fat', start', Clusters') /\ DirectoryPlaces' = w'
      /\ w' = [i \in 1..(Len(Clusters') * CS') |-> (PlaceIn(Clusters, i))'] /\ Len(w') = Len(Clusters') * CS'
      /\ \A x : IsChain(fat', start', x) => Clusters' = x
  <2>1. VolumeOK' /\ ~old_root' => ChainOK'
    BY ChainIs, PTL
  <2> QED BY <1>4, <1>6, <2>1 DEF ChainOK
<1>8. ds \in Seq(Cluster) /\ Len(ds) = l + 1 /\ ds[l + 1] = c /\ \A i \in 1..l : ds[i] = cs[i]
  BY <1>1
<1>9. Clusters' = ds
  BY <1>3, <1>4, <1>7
<1>10. \A i : (PlaceIn(Clusters, i))' = PlaceIn(ds, i)
  BY <1>5, <1>9 DEF PlaceIn, SlotOf, FirstPlace
<1> HIDE DEF ds
<1>11. w' = [i \in 1..((l + 1) * CS) |-> PlaceIn(ds, i)] /\ Len(w') = (l + 1) * CS
  BY <1>5, <1>7, <1>8, <1>9, <1>10
<1>12. /\ (l + 1) * CS = (l * CS) + CS
       /\ \A i \in 1..(l * CS) : PlaceIn(ds, i) = PlaceIn(cs, i)
       /\ \A r \in 0..(CS - 1) : PlaceIn(ds, (l * CS) + r + 1) = SlotOf(ds[l + 1], r)
  <2>1. VolumeOK /\ cs \in Seq(Cluster) /\ l = Len(cs)
    BY <1>1
  <2> HIDE DEF cs, l
  <2> QED BY ONLY <2>1, <1>8, PlacesGrow, SMTT(40)
<1>13. CS \in Nat \ {0} /\ l * CS \in Nat
  <2>1. CS \in Nat \ {0}
    BY Sizes
  <2> QED BY <1>1, <2>1
<1> DEFINE N == l * CS
           M == (l + 1) * CS
<1>14. w = [i \in 1..N |-> PlaceIn(cs, i)] /\ Len(w) = N /\ w' = [i \in 1..M |-> PlaceIn(ds, i)] /\ Len(w') = M
       /\ N \in Nat /\ M = N + CS
  BY <1>1, <1>11, <1>12, <1>13
<1>15. \A i \in 1..N : PlaceIn(ds, i) = PlaceIn(cs, i)
  BY <1>12
<1>16. \A r \in 0..(CS - 1) : PlaceIn(ds, N + r + 1) = SlotOf(c, r)
  BY <1>8, <1>12
<1>17. w' \in Seq(Place') /\ \A i, j \in 1..Len(w') : w'[i] = w'[j] => i = j
  <2>1. VolumeOK' => WalkOK'
    BY WalkIsNow, PTL
  <2> QED BY <1>6, <2>1 DEF WalkOK
<1> HIDE DEF N, M, w, CS
<1>18. \A i \in 1..N : w'[i] = w[i]
  <2>1. \A i \in 1..N : i \in 1..M
    BY <1>13, <1>14
  <2> QED BY <1>14, <1>15, <2>1
<1>19. ASSUME NEW r \in 0..(CS - 1) PROVE w'[N + r + 1] = SlotOf(c, r)
  <2>1. N + r + 1 \in 1..M
    BY <1>13, <1>14
  <2> QED BY <1>14, <1>16, <2>1
<1>20. ASSUME NEW i \in (N + 1)..M, NEW j \in 1..N PROVE w[j] # w'[i]
  <2>1. i \in 1..M /\ j \in 1..M /\ i # j
    BY <1>13, <1>14
  <2>2. w'[j] # w'[i]
    BY <1>14, <1>17, <2>1
  <2> QED BY <1>18, <2>2
<1>21. w' \in Seq(Place) /\ DirectoryPlaces' = w'
  BY <1>5, <1>7, <1>17
<1>22. Clusters' = Append(Clusters, c) /\ Len(Clusters') = l + 1 /\ Clusters'[l + 1] = c /\ l >= 1
  BY <1>1, <1>8, <1>9 DEF ds
<1> QED BY <1>5, <1>6, <1>14, <1>18, <1>19, <1>20, <1>21, <1>22 DEF w, CS

\* The places of the last cluster come last.
LEMMA LastPlaces ==
    ASSUME VolumeOK, ~old_root, Len(Clusters) >= 2
    PROVE  /\ Clusters[Len(Clusters)] \in Cluster
           /\ Before \in Nat /\ Before >= 1 /\ Before + ClusterSlots = Len(DirectoryWalk)
           /\ \A i \in (Before + 1)..Len(DirectoryWalk) :
                 ClusterOf(DirectoryWalk[i]) = Clusters[Len(Clusters)]
           /\ \A i \in 1..Before : ClusterOf(DirectoryWalk[i]) # Clusters[Len(Clusters)]
           /\ DirectoryWalk[Before + 1] = FirstPlace(Clusters[Len(Clusters)])
<1> DEFINE cs == Clusters
           l == Len(cs) - 1
           bs == SubSeq(cs, 1, l)
           CS == ClusterSlots
           w == DirectoryWalk
           N == l * CS
           c == cs[Len(cs)]
<1>1. /\ IsChain(fat, start, cs) /\ cs \in Seq(Cluster) /\ Len(cs) \in Nat \ {0}
      /\ w = [i \in 1..(Len(cs) * CS) |-> PlaceIn(cs, i)] /\ Len(w) = Len(cs) * CS
  BY ChainIs DEF ChainOK
<1>0. cs \in Seq(Cluster) /\ Len(cs) \in Nat /\ Len(cs) >= 2
  BY <1>1
<1>2. l \in Nat \ {0} /\ Len(cs) = l + 1
  BY <1>0
<1>3. bs \in Seq(Cluster) /\ Len(bs) = l /\ \A i \in 1..l : cs[i] = bs[i]
  BY <1>1, <1>2
<1>4. CS \in Nat \ {0}
  BY Sizes
<1> HIDE DEF bs, cs, l
<1>5. /\ (l + 1) * CS = (l * CS) + CS
      /\ \A i \in 1..(l * CS) : PlaceIn(cs, i) = PlaceIn(bs, i)
      /\ \A r \in 0..(CS - 1) : PlaceIn(cs, (l * CS) + r + 1) = SlotOf(cs[l + 1], r)
  BY <1>1, <1>2, <1>3, PlacesGrow, SMTT(30)
<1>6. N \in Nat /\ N >= 1 /\ Len(w) = N + CS
  <2>1. l * CS \in Nat /\ l * CS >= 1
    BY <1>2, <1>4
  <2> QED BY <1>1, <1>2, <1>5, <2>1
<1>7. Before = N
  BY <1>4, <1>6 DEF Before
<1>8. \A i \in 1..Len(w) : w[i] = PlaceIn(cs, i)
  <2> DEFINE M == Len(cs) * CS
  <2>1. w = [i \in 1..M |-> PlaceIn(cs, i)] /\ Len(w) = M
    BY <1>1
  <2> HIDE DEF M, w
  <2> QED BY <2>1
<1>9. \A r \in 0..(CS - 1) : PlaceIn(cs, N + r + 1) = SlotOf(c, r)
  BY <1>2, <1>5
<1>10. c \in Cluster
  BY <1>1, <1>2
<1>11. \A i \in 1..(l * CS) : (i - 1) \div CS \in 0..(l - 1)
  BY <1>2, <1>4, InCluster
<1>12. ASSUME NEW i \in 1..N PROVE ClusterOf(w[i]) # c
  <2> DEFINE q == (i - 1) \div CS
  <2>1. q \in 0..(l - 1)
    BY <1>11
  <2>2. i \in 1..Len(w)
    <3> HIDE DEF N, w, CS
    <3> QED BY <1>4, <1>6
  <2>3. ClusterOf(PlaceIn(cs, i)) = cs[q + 1]
    <3>1. i \in 1..(Len(cs) * CS)
      BY <1>1, <2>2
    <3> QED BY <1>1, <3>1, PlaceInIs
  <2> HIDE DEF q
  <2>4. q + 1 \in 1..Len(cs) /\ q + 1 # Len(cs) /\ Len(cs) \in 1..Len(cs)
    BY <1>2, <2>1
  <2>5. cs[q + 1] # c
    BY <1>1, <2>4 DEF IsChain
  <2> QED BY <1>8, <2>2, <2>3, <2>5
<1> HIDE DEF N, w, CS, c
<1>13. ASSUME NEW i \in (N + 1)..Len(w) PROVE ClusterOf(w[i]) = c
  <2> DEFINE r == i - N - 1
  <2>1. r \in 0..(CS - 1) /\ i = N + r + 1 /\ i \in 1..Len(w)
    BY <1>4, <1>6
  <2> HIDE DEF r
  <2>2. w[i] = SlotOf(c, r)
    BY <1>8, <1>9, <2>1
  <2>3. ClusterOf(SlotOf(c, r)) = c
    BY <1>10, <2>1, SlotIs DEF CS
  <2> QED BY <2>2, <2>3
<1>14. w[N + 1] = FirstPlace(c)
  <2>1. 0 \in 0..(CS - 1) /\ N + 0 + 1 = N + 1 /\ N + 1 \in 1..Len(w)
    BY <1>4, <1>6
  <2>2. w[N + 1] = SlotOf(c, 0)
    <3>1. PlaceIn(cs, N + 0 + 1) = SlotOf(c, 0)
      BY <1>9, <2>1
    <3> QED BY <1>8, <2>1, <3>1
  <2>3. FirstPlace(c) \in Int
    <3>1. c \in Int /\ RootSlots \in Nat /\ ClusterSlots \in Nat
      BY <1>10, Sizes, ClusterCountAssumption DEF Cluster
    <3>2. (c - 2) * ClusterSlots \in Int
      BY <3>1
    <3> QED BY <3>1, <3>2 DEF FirstPlace
  <2> QED BY <2>2, <2>3 DEF SlotOf
<1> QED BY <1>6, <1>7, <1>10, <1>12, <1>13, <1>14 DEF w, CS, c, cs

\* The places of a block.
LEMMA BlockIs ==
    ASSUME VolumeOK, NEW c \in Cluster, NEW b \in 0..(blocks_per_cluster - 1), NEW p \in Place, p >= RootSlots
    PROVE  Contains(BlockPlaces(c, b), p) <=> ClusterOf(p) = c /\ BlockOf(p) = b
<1> DEFINE e == EntriesPerBlock
           CS == ClusterSlots
<1>1. e \in Nat \ {0} /\ CS \in Nat \ {0} /\ CS = blocks_per_cluster * e /\ blocks_per_cluster \in Nat \ {0}
  BY Sizes
<1>2. PICK r \in 0..(CS - 1) : p = SlotOf(ClusterOf(p), r) /\ ClusterOf(p) \in Cluster
  BY PlaceSplit
<1>3. BlockOf(p) = r \div e
  BY <1>2, SlotIs DEF BlockOf
<1>4. FirstPlace(c) \in Int
  <2>1. c \in Int /\ RootSlots \in Nat
    BY Sizes, ClusterCountAssumption DEF Cluster
  <2>2. (c - 2) * CS \in Int
    BY <1>1, <2>1
  <2> QED BY <2>1, <2>2 DEF FirstPlace
<1>5. b \in Nat /\ b * e \in Nat /\ b * e = e * b
  BY <1>1
<1>6. Len(BlockPlaces(c, b)) = e /\ \A i \in 1..e : BlockPlaces(c, b)[i] = FirstPlace(c) + ((b * e) + (i - 1))
  <2>1. Len(BlockPlaces(c, b)) = e /\ \A i \in 1..e : BlockPlaces(c, b)[i] = FirstPlace(c) + b * e + i - 1
    BY <1>1 DEF BlockPlaces
  <2> DEFINE z == b * e
  <2>2. z \in Nat /\ \A i \in 1..e : BlockPlaces(c, b)[i] = FirstPlace(c) + z + i - 1
    BY <1>5, <2>1
  <2> HIDE DEF z
  <2>3. \A i \in 1..e : BlockPlaces(c, b)[i] = FirstPlace(c) + (z + (i - 1))
    BY <1>1, <1>4, <2>2
  <2> QED BY <2>1, <2>3 DEF z
<1> HIDE DEF e, CS
<1>7. ASSUME ClusterOf(p) = c, BlockOf(p) = b PROVE Contains(BlockPlaces(c, b), p)
  <2>1. r \in Nat
    BY <1>1
  <2>2. PICK q \in Nat, s \in Nat : s < e /\ r = (e * q) + s /\ q = r \div e /\ s = r % e
    BY <1>1, <2>1, DivMod
  <2>3. q = b
    BY <1>3, <1>7, <2>2
  <2>4. r = (b * e) + ((s + 1) - 1) /\ s + 1 \in 1..e
    <3>1. r = (e * b) + s
      BY <2>2, <2>3
    <3> QED BY <1>1, <1>5, <2>2, <3>1
  <2>5. p = FirstPlace(c) + r
    BY <1>2, <1>7 DEF SlotOf
  <2>6. BlockPlaces(c, b)[s + 1] = p
    BY <1>6, <2>4, <2>5
  <2> QED BY <1>6, <2>4, <2>6 DEF Contains
<1>8. ASSUME Contains(BlockPlaces(c, b), p) PROVE ClusterOf(p) = c /\ BlockOf(p) = b
  <2>1. PICK i \in 1..e : p = FirstPlace(c) + ((b * e) + (i - 1))
    BY <1>6, <1>8 DEF Contains
  <2> DEFINE t == (b * e) + (i - 1)
  <2>2. t \in 0..(CS - 1)
    <3>1. (b + 1) * e <= blocks_per_cluster * e /\ (b + 1) * e = (b * e) + e
      BY <1>1, <1>5
    <3> DEFINE z == b * e
               y == blocks_per_cluster * e
    <3>2. z \in Nat /\ z + e <= y /\ y = CS /\ t = z + (i - 1)
      BY <1>1, <1>5, <3>1
    <3> HIDE DEF z, y, t
    <3> QED BY <1>1, <3>2
  <2>3. p = SlotOf(c, t)
    BY <2>1 DEF SlotOf
  <2>4. t \div e = b
    <3>1. i - 1 \in Nat /\ i - 1 < e
      BY <1>1
    <3>2. ((e * b) + (i - 1)) \div e = b
      BY <1>1, <1>5, <3>1, OneQuotient
    <3>3. t = (e * b) + (i - 1)
      BY <1>5
    <3> HIDE DEF t
    <3> QED BY <3>2, <3>3
  <2> HIDE DEF t
  <2>5. ClusterOf(p) = c
    BY <2>2, <2>3, SlotIs DEF CS
  <2>6. (p - RootSlots) % ClusterSlots = t
    BY <2>2, <2>3, SlotIs DEF CS
  <2> QED BY <2>4, <2>5, <2>6 DEF BlockOf, e
<1> QED BY <1>7, <1>8

\* clean_cluster_data clears a block of the last cluster.
LEMMA Cleared ==
    ASSUME VolumeOK, DiskOK, ~old_root, Len(Clusters) >= 2, UNCHANGED <<volume, fat>>,
           NEW b \in 0..(blocks_per_cluster - 1),
           disk' = [p \in Place |-> IF Contains(BlockPlaces(Clusters[Len(Clusters)], b), p)
                                    THEN FreeSlot ELSE disk[p]]
    PROVE  /\ disk' \in [Place -> Content]
           /\ \A i \in 1..Before : View'[i] = View[i]
           /\ \A i \in (Before + 1)..Len(DirectoryWalk) :
                 View'[i] = IF BlockOf(DirectoryWalk[i]) = b THEN FreeSlot ELSE View[i]
           /\ \A p \in Place : disk'[p] = FreeSlot \/ disk'[p] = disk[p]
<1> DEFINE c == Clusters[Len(Clusters)]
           w == DirectoryWalk
<1>1. /\ c \in Cluster /\ Before \in Nat /\ Before + ClusterSlots = Len(w) /\ ClusterSlots \in Nat
      /\ \A i \in (Before + 1)..Len(w) : ClusterOf(w[i]) = c
      /\ \A i \in 1..Before : ClusterOf(w[i]) # c
  BY LastPlaces, Sizes
<1>2. w \in Seq(Place) /\ w' = w
  BY WalkIs, SameWalk
<1>3. \A p \in Place : p >= RootSlots
  BY PlaceNumbers, Sizes
<1> HIDE DEF c
<1>4. \A p \in Place : disk'[p] = IF ClusterOf(p) = c /\ BlockOf(p) = b THEN FreeSlot ELSE disk[p]
  BY <1>1, <1>3, BlockIs DEF c
<1>5. disk' \in [Place -> Content]
  <2>1. FreeSlot \in Content
    BY DEF Content
  <2> QED BY <2>1 DEF DiskOK
<1>6. View' = [i \in 1..Len(w) |-> disk'[w[i]]] /\ View = [i \in 1..Len(w) |-> disk[w[i]]]
  BY <1>2 DEF View
<1> HIDE DEF w
<1>7. \A i \in 1..Len(w) : View'[i] = disk'[w[i]] /\ View[i] = disk[w[i]] /\ w[i] \in Place
  BY <1>2, <1>6
<1>8. \A i \in 1..Before : i \in 1..Len(w)
  BY <1>1
<1>9. \A i \in (Before + 1)..Len(w) : i \in 1..Len(w)
  BY <1>1
<1>10. \A i \in 1..Before : View'[i] = View[i]
  BY <1>1, <1>4, <1>7, <1>8
<1>11. \A i \in (Before + 1)..Len(w) : View'[i] = IF BlockOf(w[i]) = b THEN FreeSlot ELSE View[i]
  BY <1>1, <1>4, <1>7, <1>9
<1> QED BY <1>4, <1>5, <1>10, <1>11 DEF w

\* clean_cluster_data fails and the last cluster is freed.
LEMMA Shrunk ==
    ASSUME VolumeOK, ~old_root, Len(Clusters) >= 2, UNCHANGED volume,
           NEW c, c = Clusters[Len(Clusters)],
           fat' = [d \in Cluster |-> IF d = c THEN Free ELSE IF fat[d] = c THEN EndOfChain ELSE fat[d]]
    PROVE  /\ VolumeOK' /\ Place' = Place
           /\ Len(DirectoryWalk') = Before
           /\ \A i \in 1..Before : DirectoryWalk'[i] = DirectoryWalk[i]
<1> DEFINE cs == Clusters
           l == Len(cs) - 1
           bs == SubSeq(cs, 1, l)
           CS == ClusterSlots
           w == DirectoryWalk
<1>1. /\ IsChain(fat, start, cs) /\ cs \in Seq(Cluster) /\ Len(cs) \in Nat \ {0}
      /\ w = [i \in 1..(Len(cs) * CS) |-> PlaceIn(cs, i)] /\ Len(w) = Len(cs) * CS
  BY ChainIs DEF ChainOK
<1>0. cs \in Seq(Cluster) /\ Len(cs) \in Nat /\ Len(cs) >= 2
  BY <1>1
<1>2. l \in Nat \ {0} /\ Len(cs) = l + 1
  BY <1>0
<1>3. bs \in Seq(Cluster) /\ Len(bs) = l /\ \A i \in 1..l : cs[i] = bs[i]
  BY <1>1, <1>2
<1>4. CS \in Nat \ {0}
  BY Sizes
<1>5. fat' \in Table /\ IsChain(fat', start, bs)
  <2>1. fat \in Table
    BY DEF VolumeOK
  <2> QED BY <1>1, <2>1, ChainShrinks
<1>6. old_root' = old_root /\ blocks_per_cluster' = blocks_per_cluster /\ start' = start
  BY DEF volume
<1>7. CS' = CS /\ Place' = Place /\ RootSlots' = RootSlots
  BY <1>6 DEF ClusterSlots, Place, RootSlots
<1>8. VolumeOK'
  <2>1. start \in Cluster /\ blocks_per_cluster \in ClusterSizes
    BY DEF VolumeOK
  <2> QED BY <1>5, <1>6, <2>1 DEF VolumeOK
<1>9. /\ w' = [i \in 1..(Len(Clusters') * CS') |-> (PlaceIn(Clusters, i))'] /\ Len(w') = Len(Clusters') * CS'
      /\ \A x : IsChain(fat', start', x) => Clusters' = x
  <2>1. VolumeOK' /\ ~old_root' => ChainOK'
    BY ChainIs, PTL
  <2> QED BY <1>6, <1>8, <2>1 DEF ChainOK
<1>10. Clusters' = bs
  BY <1>5, <1>6, <1>9
<1>11. \A i : (PlaceIn(Clusters, i))' = PlaceIn(bs, i)
  BY <1>7, <1>10 DEF PlaceIn, SlotOf, FirstPlace
<1> HIDE DEF bs, cs, l
<1>12. w' = [i \in 1..(l * CS) |-> PlaceIn(bs, i)] /\ Len(w') = l * CS
  BY <1>3, <1>7, <1>9, <1>10, <1>11
<1>13. /\ (l + 1) * CS = (l * CS) + CS
       /\ \A i \in 1..(l * CS) : PlaceIn(cs, i) = PlaceIn(bs, i)
  BY ONLY VolumeOK, <1>0, <1>2, <1>3, PlacesGrow
<1> DEFINE N == l * CS
           M == Len(cs) * CS
<1>14. N \in Nat /\ M = N + CS /\ w = [i \in 1..M |-> PlaceIn(cs, i)] /\ Len(w) = M
  <2>1. l * CS \in Nat
    BY <1>2, <1>4
  <2> QED BY <1>1, <1>2, <1>13, <2>1
<1>15. w' = [i \in 1..N |-> PlaceIn(bs, i)] /\ Len(w') = N /\ \A i \in 1..N : PlaceIn(cs, i) = PlaceIn(bs, i)
  BY <1>12, <1>13
<1> HIDE DEF N, M, w, CS
<1>16. \A i \in 1..N : i \in 1..M
  BY <1>4, <1>14
<1>17. \A i \in 1..N : w'[i] = w[i]
  BY <1>14, <1>15, <1>16
<1>18. Before = N
  BY <1>4, <1>14 DEF Before, w, CS
<1> QED BY <1>7, <1>8, <1>15, <1>17, <1>18 DEF w

(***************************************************************************)
(* Steps that leave the directory as it is                                 *)
(***************************************************************************)
LEMMA SameDirectory ==
    ASSUME UNCHANGED <<volume, fat, disk>>
    PROVE  /\ DirectoryWalk' = DirectoryWalk /\ DirectoryPlaces' = DirectoryPlaces /\ View' = View
           /\ Clusters' = Clusters /\ Before' = Before
           /\ VolumeOK' = VolumeOK /\ Loose' = Loose /\ Visible' = Visible /\ Overrun' = Overrun
           /\ old_root' = old_root /\ RootSlots' = RootSlots /\ Place' = Place /\ disk' = disk
           /\ ClusterSlots' = ClusterSlots /\ blocks_per_cluster' = blocks_per_cluster
           /\ \A k : Rest(k)' = Rest(k)
           /\ \A p : BlockOf(p)' = BlockOf(p)
<1>1. /\ DirectoryWalk' = DirectoryWalk /\ DirectoryPlaces' = DirectoryPlaces
      /\ Place' = Place /\ ClusterSlots' = ClusterSlots /\ RootSlots' = RootSlots
      /\ ChainFrom(start)' = ChainFrom(start)
      /\ \A k : Rest(k)' = Rest(k)
      /\ \A p : BlockOf(p)' = BlockOf(p)
  BY SameWalk
<1>2. View' = View
  BY SameView
<1>3. /\ old_root' = old_root /\ blocks_per_cluster' = blocks_per_cluster /\ start' = start
      /\ fat' = fat /\ disk' = disk
  BY DEF volume
<1>4. VolumeOK' = VolumeOK
  BY <1>3 DEF VolumeOK
<1>5. Clusters' = Clusters /\ Before' = Before
  BY <1>1 DEF Clusters, Before
<1>6. Loose' = Loose /\ Visible' = Visible
  BY <1>1, <1>2, <1>3 DEF Loose, Visible
<1>7. Overrun' = Overrun
  BY <1>1, <1>3 DEF Overrun
<1> QED BY <1>1, <1>2, <1>3, <1>4, <1>5, <1>6, <1>7

\* A short entry in the directory is one on the device.
LEMMA StandsOnDisk ==
    ASSUME VolumeOK, DiskOK, NEW f, NEW i \in 1..Len(DirectoryWalk), Stands(View, f, i)
    PROVE  OnDisk(f)
<1>1. DirectoryWalk[i] \in Place /\ View[i] = disk[DirectoryWalk[i]]
  BY WalkIs, ViewIs
<1> QED BY <1>1 DEF OnDisk, Stands

\* and a file on the device is in the directory.
LEMMA OnDiskStands ==
    ASSUME VolumeOK, DiskOK, Loose, NEW f \in File, OnDisk(f)
    PROVE  \E i \in 1..Len(DirectoryWalk) : Stands(View, f, i)
<1>1. PICK p \in Place : disk[p].kind = "sfn" /\ disk[p].file = f
  BY DEF OnDisk
<1>2. PICK i \in 1..Len(DirectoryWalk) : DirectoryWalk[i] = p
  BY <1>1, DirectoryAssumption DEF Loose
<1>3. View[i] = disk[p]
  BY <1>2, ViewIs
<1> QED BY <1>1, <1>2, <1>3 DEF Stands

\* Types of what is on the device.
LEMMA DiskTyped == ASSUME TypeOK PROVE DiskOK
  BY DEF TypeOK, DiskOK, Content

\* Nothing is said of the variables of a call when it has ended.
LEMMA CallEnds ==
    ASSUME EndCall
    PROVE  /\ FreshOK' /\ CallOK' /\ Writing' /\ Clearing' /\ Deleting' /\ Rewriting'
           /\ op' = "none" /\ iter' = <<>> /\ todo' = <<>> /\ fresh' = <<>> /\ file' = "none"
<1>1. op' = "none" /\ iter' = <<>> /\ todo' = <<>> /\ fresh' = <<>> /\ file' = "none"
  BY DEF EndCall
<1>2. FreshOK' /\ Writing' /\ Clearing' /\ Deleting' /\ Rewriting'
  BY <1>1 DEF FreshOK, Writing, Clearing, Deleting, Rewriting
<1>3. <<>> \in Seq(Content \ {FreeSlot})
  OBVIOUS
<1>4. CallOK'
  BY <1>1, <1>3 DEF CallOK
<1> QED BY <1>1, <1>2, <1>4

\* While nothing was misplaced an entry to be written comes.
LEMMA Comes ==
    ASSUME DirInv, ~misplaced, fresh = <<>>, todo # <<>>
    PROVE  /\ EntryComes
           /\ \E k \in 1..Len(DirectoryWalk) : iter = Rest(k) /\ Head(iter) = DirectoryWalk[k] /\ Tail(iter) = Rest(k + 1)
<1>1. VolumeOK /\ TypeOK /\ CallOK /\ PlacedOK
  BY DEF DirInv
<1>2. op # "none" /\ todo \in Seq(Content \ {FreeSlot})
  BY <1>1 DEF TypeOK, CallOK
<1>3. Len(todo) \in Nat \ {0}
  BY <1>2
<1>4. Len(DirectoryWalk) \in Nat \ {0} /\ Len(DirectoryPlaces) \in 1..Len(DirectoryWalk) /\ DirectoryWalk \in Seq(Place)
  BY <1>1, WalkIs
<1>5. op \in {"create", "copy", "rewrite"} => Len(name) \in Nat \ {0} /\ Len(EntriesOf(name, file)) = Len(name) + 1
                                              /\ EntriesOf(name, file) \in Seq(Content \ {FreeSlot})
  BY <1>1, EntriesAre DEF CallOK
<1>6. \E k \in 1..Len(DirectoryWalk) : iter = Rest(k)
  <2>1. CASE op \in {"create", "copy"}
    <3>1. PICK s \in Nat, k \in Nat, t \in Nat : WritingAt(s, k, t)
      BY <1>1, <2>1 DEF PlacedOK, Writing
    <3>2. /\ s >= 1 /\ s <= k /\ k <= t + 1 /\ t = s + Len(name) /\ t <= Len(DirectoryPlaces)
          /\ iter = Rest(k) /\ todo = SubSeq(EntriesOf(name, file), k - s + 1, Len(name) + 1)
      BY <3>1 DEF WritingAt
    <3>3. k # t + 1
      <4> SUFFICES ASSUME k = t + 1 PROVE FALSE
        OBVIOUS
      <4>1. k - s + 1 = Len(name) + 2
        BY <1>5, <2>1, <3>2
      <4>2. todo = <<>>
        BY <1>5, <2>1, <3>2, <4>1
      <4> QED BY <4>2
    <3>4. k \in 1..Len(DirectoryWalk)
      BY <1>4, <3>2, <3>3
    <3> QED BY <3>2, <3>4
  <2>2. CASE op = "rewrite"
    <3>1. PICK s \in Nat, k \in Nat, t \in Nat : RewritingAt(s, k, t)
      BY <1>1, <2>2 DEF PlacedOK, Rewriting
    <3>2. /\ s >= 1 /\ s <= k /\ k <= t + 1 /\ t = s + Len(name) /\ t <= Len(DirectoryWalk)
          /\ iter = Rest(k) /\ todo = SubSeq(EntriesOf(name, file), k - s + 1, Len(name) + 1)
      BY <3>1 DEF RewritingAt
    <3>3. k # t + 1
      <4> SUFFICES ASSUME k = t + 1 PROVE FALSE
        OBVIOUS
      <4>1. k - s + 1 = Len(name) + 2
        BY <1>5, <2>2, <3>2
      <4>2. todo = <<>>
        BY <1>5, <2>2, <3>2, <4>1
      <4> QED BY <4>2
    <3>4. k \in 1..Len(DirectoryWalk)
      BY <1>4, <3>2, <3>3
    <3> QED BY <3>2, <3>4
  <2>3. CASE op = "delete"
    <3>1. PICK k \in Int, q \in Int : DeletingAt(k, q)
      BY <1>1, <2>3 DEF PlacedOK, Deleting
    <3>2. k >= 1 /\ q = k + Len(todo) - 1 /\ q <= Len(DirectoryWalk) /\ iter = Rest(k)
      BY <3>1 DEF DeletingAt
    <3>3. k \in 1..Len(DirectoryWalk)
      BY <1>3, <1>4, <3>2
    <3> QED BY <3>2, <3>3
  <2> QED BY <1>1, <1>2, <2>1, <2>2, <2>3 DEF TypeOK
<1>7. PICK k \in 1..Len(DirectoryWalk) : iter = Rest(k)
  BY <1>6
<1>8. Rest(k) # <<>> /\ Head(Rest(k)) = DirectoryWalk[k] /\ Tail(Rest(k)) = Rest(k + 1)
  <2>1. k \in 1..(Len(DirectoryWalk) + 1) /\ k <= Len(DirectoryWalk)
    BY <1>4
  <2> QED BY <1>1, <2>1, RestIs
<1>9. DirectoryWalk[k] \in Place
  BY <1>4
<1> QED BY <1>7, <1>8, <1>9 DEF EntryComes

\* next() is None
LEMMA NoNextEntryKeeps == ASSUME DirInv, NoNextEntry PROVE DirInv'
<1>1. /\ fresh = <<>> /\ todo # <<>> /\ ~EntryComes /\ EndCall
      /\ suspect' = suspect \union Remains
      /\ UNCHANGED <<volume, fat, disk, names, misplaced>>
  BY DEF NoNextEntry
<1>2. misplaced
  BY <1>1, Comes
<1>3. VolumeOK' = VolumeOK /\ disk' = disk /\ Place' = Place
  BY <1>1, SameDirectory
<1>4. TypeOK'
  <2>1. Remains \subseteq File \union {Old, Dot, "none"}
    BY DEF DirInv, CallOK, Remains
  <2> QED BY <1>1, <1>3, <2>1, CallEnds DEF DirInv, TypeOK
<1> QED BY <1>1, <1>2, <1>3, <1>4, CallEnds DEF DirInv

\* A call stops half way: a write fails, the system crashes or the iterator cannot go on.
LEMMA Stopped ==
    ASSUME DirInv, todo # <<>>, EndCall,
           suspect' = suspect \union Remains \union (IF fresh = <<>> THEN {} ELSE {Old}),
           UNCHANGED <<volume, fat, disk, names, misplaced>>
    PROVE  DirInv'
<1>1. /\ todo # <<>> /\ EndCall
      /\ suspect' = suspect \union Remains \union (IF fresh = <<>> THEN {} ELSE {Old})
      /\ UNCHANGED <<volume, fat, disk>> /\ names' = names /\ misplaced' = misplaced
  OBVIOUS
<1>2. /\ FreshOK' /\ CallOK' /\ Writing' /\ Clearing' /\ Deleting' /\ Rewriting'
      /\ op' = "none" /\ iter' = <<>> /\ todo' = <<>> /\ fresh' = <<>> /\ file' = "none"
  BY <1>1, CallEnds
<1>3. /\ DirectoryWalk' = DirectoryWalk /\ View' = View /\ VolumeOK' = VolumeOK /\ Loose' = Loose
      /\ Visible' = Visible /\ Overrun' = Overrun /\ old_root' = old_root /\ RootSlots' = RootSlots
      /\ Place' = Place /\ disk' = disk /\ fat' = fat
  BY <1>1, SameDirectory
<1>4. VolumeOK /\ TypeOK /\ CallOK /\ FreshOK /\ (~misplaced => PlacedOK) /\ DiskOK
  BY DiskTyped DEF DirInv
<1>5. TypeOK'
  <2>1. Remains \subseteq File \union {Old, Dot, "none"}
    BY <1>4 DEF CallOK, Remains
  <2> QED BY <1>1, <1>2, <1>3, <1>4, <2>1 DEF TypeOK
<1>6. ASSUME ~misplaced' PROVE PlacedOK'
  <2>1. PlacedOK
    BY <1>1, <1>4, <1>6
  <2>2. KnownFiles'
    BY <1>2, <1>3, <2>1 DEF PlacedOK, KnownFiles
  <2>3. Settled'
    <3> SUFFICES ASSUME NEW f \in File, f \notin suspect' PROVE KeptAs(View, names[f], f)
      BY <1>1, <1>3 DEF Settled, KeptAs, KeptIn
    <3>1. f \in File \ suspect
      BY <1>1
    <3>2. CASE Resting(f)
      BY <2>1, <3>1, <3>2 DEF PlacedOK, Settled
    <3>3. CASE ~Resting(f)
      <4>1. f = file /\ ~OnDisk(f) /\ op \in {"delete", "rewrite"}
        BY <1>1, <1>4, <3>3 DEF Resting, Remains, TypeOK
      <4>2. \A i \in 1..Len(DirectoryWalk) : ~Stands(View, f, i)
        BY <1>4, <4>1, StandsOnDisk
      <4>3. CASE op = "delete"
        <5>1. PICK k \in Int, q \in Int : DeletingAt(k, q)
          BY <2>1, <4>3 DEF PlacedOK, Deleting
        <5>2. q \in 1..Len(DirectoryWalk) /\ Stands(View, f, q)
          BY <1>1, <4>1, <5>1 DEF DeletingAt, NameAt
        <5> QED BY <4>2, <5>2
      <4>4. CASE op = "rewrite"
        <5>1. PICK s \in Nat, k \in Nat, t \in Nat : RewritingAt(s, k, t)
          BY <2>1, <4>4 DEF PlacedOK, Rewriting
        <5>2. t \in 1..Len(DirectoryWalk) /\ Stands(View, f, t)
          BY <4>1, <5>1 DEF RewritingAt, NameAt
        <5> QED BY <4>2, <5>2
      <4> QED BY <4>1, <4>3, <4>4
    <3> QED BY <3>2, <3>3
  <2>4. Somewhere'
    <3> SUFFICES ASSUME NEW f \in File, names[f] # <<>>
                 PROVE  \E i \in 1..Len(DirectoryWalk) : Stands(View, f, i)
      BY <1>1, <1>3 DEF Somewhere
    <3>1. CASE op = "delete" /\ f = file
      <4>1. PICK k \in Int, q \in Int : DeletingAt(k, q)
        BY <2>1, <3>1 DEF PlacedOK, Deleting
      <4>2. Others(q) # {}
        BY <3>1, <4>1 DEF DeletingAt
      <4> QED BY <3>1, <4>2 DEF Others
    <3>2. CASE ~(op = "delete" /\ f = file)
      BY <2>1, <3>2 DEF PlacedOK, Somewhere
    <3> QED BY <3>1, <3>2
  <2>5. OldPlaces'
    <3>1. Old \notin suspect' => fresh = <<>> /\ Old \notin suspect
      BY <1>1
    <3> QED BY <1>2, <1>3, <2>1, <3>1 DEF PlacedOK, OldPlaces
  <2> QED BY <1>2, <1>3, <2>1, <2>2, <2>3, <2>4, <2>5 DEF PlacedOK
<1> QED BY <1>2, <1>3, <1>4, <1>5, <1>6 DEF DirInv

LEMMA StopKeeps == ASSUME DirInv, Stop PROVE DirInv'
<1>1. /\ todo # <<>> /\ EndCall /\ UNCHANGED <<volume, fat, disk, names, misplaced>>
      /\ suspect' = suspect \union Remains \union (IF fresh = <<>> THEN {} ELSE {Old})
  BY DEF Stop
<1> QED BY <1>1, Stopped

LEMMA LinkUnreadKeeps == ASSUME DirInv, LinkUnread PROVE DirInv'
<1>1. /\ todo # <<>> /\ EndCall /\ UNCHANGED <<volume, fat, disk, names, misplaced>>
      /\ fresh = <<>> /\ suspect' = suspect \union Remains
  BY DEF LinkUnread
<1>2. suspect' = suspect \union Remains \union (IF fresh = <<>> THEN {} ELSE {Old})
  BY <1>1
<1> QED BY <1>1, <1>2, Stopped

\* A name that has been written.
LEMMA WrittenName ==
    ASSUME VolumeOK, name \in Name, file \in File \union {Old, Dot, "none"}, todo = <<>>,
           NEW s \in Nat, NEW k \in Nat, NEW t \in Nat, s >= 1, k <= t + 1, s <= k, t = s + Len(name),
           t <= Len(DirectoryWalk),
           todo = SubSeq(EntriesOf(name, file), k - s + 1, Len(name) + 1)
    PROVE  /\ k = t + 1 /\ t \in 1..Len(DirectoryWalk) /\ Len(name) \in Nat \ {0}
           /\ (\A j \in 1..Len(name) : View[s + j - 1] = EntriesOf(name, file)[j])
              /\ (s = 1 \/ View[s - 1].kind # "lfn")
              => CleanAt(View, name, t)
<1> DEFINE n == Len(name)
           E == EntriesOf(name, file)
<1>1. /\ E \in Seq(Content \ {FreeSlot}) /\ Len(E) = n + 1 /\ n \in Nat \ {0}
      /\ \A j \in 1..n : E[j] = Lfn(n + 1 - j, j = 1, name[n + 1 - j])
  BY EntriesAre
<1> HIDE DEF n, E
<1>2. k = t + 1
  <2> SUFFICES ASSUME k <= t PROVE FALSE
    OBVIOUS
  <2>1. k - s + 1 \in 1..(Len(E) + 1) /\ n + 1 \in 0..Len(E) /\ k - s + 1 <= n + 1
    BY <1>1 DEF n
  <2> DEFINE a == k - s + 1
             b == n + 1
  <2>2. E \in Seq(Content \ {FreeSlot}) /\ a \in 1..(Len(E) + 1) /\ b \in 0..Len(E) /\ a <= b /\ a <= b + 1
    BY <1>1, <2>1
  <2> HIDE DEF a, b
  <2>3. Len(SubSeq(E, a, b)) = b - a + 1
    BY <2>2, SubSeqIs
  <2>4. Len(todo) = 0 /\ b - a + 1 # 0
    BY <2>2
  <2> QED BY <2>3, <2>4 DEF a, b, n, E
<1>3. t \in 1..Len(DirectoryWalk)
  BY <1>1, WalkIs DEF n
<1>4. ASSUME \A j \in 1..n : View[s + j - 1] = E[j], s = 1 \/ View[s - 1].kind # "lfn"
      PROVE  CleanAt(View, name, t)
  <2>1. t - n = s /\ t - n - 1 = s - 1 /\ n < t /\ (s = 1 => t = n + 1)
    BY <1>1 DEF n
  <2>2. ASSUME NEW m \in 1..n PROVE View[t - n - 1 + m] = Lfn(n + 1 - m, m = 1, name[n + 1 - m])
    <3>1. t - n - 1 + m = s + m - 1
      BY <1>1 DEF n
    <3> QED BY <1>1, <1>4, <3>1, ZenonT(30)
  <2> QED BY <1>4, <2>1, <2>2 DEF CleanAt, n
<1> QED BY <1>1, <1>2, <1>3, <1>4 DEF n, E

\* What a call that goes on has done when nothing is left to be written.
LEMMA Finished ==
    ASSUME DirInv, todo = <<>>
    PROVE  fresh = <<>>
<1> SUFFICES ASSUME fresh # <<>> PROVE FALSE
  OBVIOUS
<1>1. todo = EntriesOf(name, file) /\ name \in Name /\ file \in File \union {Old, Dot, "none"}
  BY DEF DirInv, FreshOK, CallOK
<1>2. Len(todo) = Len(name) + 1 /\ Len(name) \in Nat
  BY <1>1, EntriesAre
<1> QED BY <1>2

\* Everything was written: the name stands in its positions.
LEMMA FinishedWriting ==
    ASSUME DirInv, ~misplaced, todo = <<>>, op \in {"create", "copy"}
    PROVE  /\ name \in Name /\ fresh = <<>>
           /\ \E s \in Nat, t \in 1..Len(DirectoryWalk) :
                 /\ s >= 1 /\ s <= t /\ t <= Len(DirectoryPlaces)
                 /\ Stands(View, file, t) /\ Source(s, t)
                 /\ file \notin suspect => CleanAt(View, name, t)
<1>1. VolumeOK /\ CallOK /\ PlacedOK
  BY DEF DirInv
<1>2. fresh = <<>>
  BY Finished
<1>3. name \in Name /\ file \in File \union {Old, Dot, "none"}
  BY <1>1 DEF CallOK
<1>4. PICK s \in Nat, k \in Nat, t \in Nat : WritingAt(s, k, t)
  BY <1>1, <1>2 DEF PlacedOK, Writing
<1> DEFINE n == Len(name)
           E == EntriesOf(name, file)
<1>5. /\ s >= 1 /\ s <= k /\ k <= t + 1 /\ t = s + n /\ t <= Len(DirectoryPlaces)
      /\ todo = SubSeq(E, k - s + 1, n + 1)
      /\ \A j \in 1..(k - s) : View[s + j - 1] = E[j]
      /\ file \notin suspect => s = 1 \/ View[s - 1].kind # "lfn"
      /\ Source(s, t)
  BY <1>4 DEF WritingAt
<1>6. Len(DirectoryPlaces) <= Len(DirectoryWalk) /\ Len(DirectoryWalk) \in Nat /\ Len(DirectoryPlaces) \in Nat
  BY <1>1, WalkIs
<1>7. /\ k = t + 1 /\ t \in 1..Len(DirectoryWalk) /\ n \in Nat \ {0}
      /\ (\A j \in 1..n : View[s + j - 1] = E[j]) /\ (s = 1 \/ View[s - 1].kind # "lfn") => CleanAt(View, name, t)
  <2>1. t <= Len(DirectoryWalk)
    BY <1>5, <1>6
  <2> QED BY <1>1, <1>3, <1>5, <2>1, WrittenName
<1>8. E[n + 1].kind = "sfn" /\ E[n + 1].file = file
  BY <1>3, EntriesAre
<1> HIDE DEF E, n
<1>9. n + 1 \in 1..(k - s) /\ s + (n + 1) - 1 = t /\ \A j \in 1..n : j \in 1..(k - s)
  BY <1>5, <1>7
<1>10. Stands(View, file, t)
  BY <1>5, <1>8, <1>9 DEF Stands
<1>11. file \notin suspect => CleanAt(View, name, t)
  BY <1>5, <1>7, <1>9
<1>12. s <= t
  BY <1>5, <1>7
<1> QED BY <1>2, <1>3, <1>5, <1>7, <1>10, <1>11, <1>12

\* create_file returns.
LEMMA CreateDoneKeeps == ASSUME DirInv, CreateDone PROVE DirInv'
<1>1. /\ op = "create" /\ todo = <<>> /\ EndCall
      /\ names' = [names EXCEPT ![file] = name]
      /\ UNCHANGED <<volume, fat, disk>> /\ suspect' = suspect /\ misplaced' = misplaced
  BY DEF CreateDone
<1>2. /\ FreshOK' /\ CallOK' /\ Writing' /\ Clearing' /\ Deleting' /\ Rewriting'
      /\ op' = "none" /\ iter' = <<>> /\ todo' = <<>> /\ fresh' = <<>> /\ file' = "none"
  BY <1>1, CallEnds
<1>3. /\ DirectoryWalk' = DirectoryWalk /\ View' = View /\ VolumeOK' = VolumeOK /\ Loose' = Loose
      /\ Visible' = Visible /\ Overrun' = Overrun /\ old_root' = old_root /\ RootSlots' = RootSlots
      /\ Place' = Place /\ disk' = disk /\ fat' = fat
  BY <1>1, SameDirectory
<1>4. VolumeOK /\ TypeOK /\ CallOK /\ FreshOK /\ (~misplaced => PlacedOK)
  BY DEF DirInv
<1>5. file \in File /\ name \in Name /\ names \in [File -> Name \union {<<>>}]
  BY <1>1, <1>4 DEF CallOK, TypeOK
<1>6. names'[file] = name /\ \A f \in File : f # file => names'[f] = names[f]
  BY <1>1, <1>5
<1>7. TypeOK'
  <2>1. names' \in [File -> Name \union {<<>>}]
    BY <1>1, <1>5
  <2> QED BY <1>1, <1>2, <1>3, <1>4, <2>1 DEF TypeOK
<1>8. ASSUME ~misplaced' PROVE PlacedOK'
  <2>1. PlacedOK /\ ~misplaced
    BY <1>1, <1>4, <1>8
  <2>2. PICK s \in Nat, t \in 1..Len(DirectoryWalk) :
            /\ Stands(View, file, t) /\ Source(s, t)
            /\ file \notin suspect => CleanAt(View, name, t)
    BY <1>1, <2>1, FinishedWriting
  <2>3. \A i \in 1..Len(DirectoryWalk) : Stands(View, file, i) => i = t
    BY <1>1, <2>2 DEF Source
  <2>4. KnownFiles'
    BY <1>2, <1>3, <2>1 DEF PlacedOK, KnownFiles
  <2>5. Settled'
    <3> SUFFICES ASSUME NEW f \in File, f \notin suspect PROVE KeptAs(View, names'[f], f)
      BY <1>1, <1>3 DEF Settled, KeptAs, KeptIn
    <3>1. CASE f = file
      <4>1. name # <<>>
        BY <1>5, DirectoryAssumption
      <4> QED BY <1>6, <2>2, <2>3, <3>1, <4>1 DEF KeptAs, KeptIn
    <3>2. CASE f # file
      BY <1>6, <2>1, <3>2 DEF PlacedOK, Settled, Resting
    <3> QED BY <3>1, <3>2
  <2>6. Somewhere'
    <3> SUFFICES ASSUME NEW f \in File, names'[f] # <<>>
                 PROVE  \E i \in 1..Len(DirectoryWalk) : Stands(View, f, i)
      BY <1>3 DEF Somewhere
    <3>1. CASE f = file
      BY <2>2, <3>1
    <3>2. CASE f # file
      BY <1>6, <2>1, <3>2 DEF PlacedOK, Somewhere
    <3> QED BY <3>1, <3>2
  <2>7. OldPlaces'
    <3>1. fresh = <<>>
      BY <1>1, Finished
    <3> QED BY <1>1, <1>2, <1>3, <2>1, <3>1 DEF PlacedOK, OldPlaces
  <2> QED BY <1>2, <1>3, <2>1, <2>4, <2>5, <2>6, <2>7 DEF PlacedOK
<1> QED BY <1>2, <1>3, <1>4, <1>7, <1>8 DEF DirInv

\* A name has been overwritten.
LEMMA RewriteDoneKeeps == ASSUME DirInv, RewriteDone PROVE DirInv'
<1>1. /\ op = "rewrite" /\ todo = <<>> /\ EndCall
      /\ names' = [f \in File |-> IF f = file THEN name ELSE names[f]]
      /\ UNCHANGED <<volume, fat, disk>> /\ suspect' = suspect /\ misplaced' = misplaced
  BY DEF RewriteDone
<1>2. /\ FreshOK' /\ CallOK' /\ Writing' /\ Clearing' /\ Deleting' /\ Rewriting'
      /\ op' = "none" /\ iter' = <<>> /\ todo' = <<>> /\ fresh' = <<>> /\ file' = "none"
  BY <1>1, CallEnds
<1>3. /\ DirectoryWalk' = DirectoryWalk /\ View' = View /\ VolumeOK' = VolumeOK /\ Loose' = Loose
      /\ Visible' = Visible /\ Overrun' = Overrun /\ old_root' = old_root /\ RootSlots' = RootSlots
      /\ Place' = Place /\ disk' = disk /\ fat' = fat
  BY <1>1, SameDirectory
<1>4. VolumeOK /\ TypeOK /\ CallOK /\ FreshOK /\ (~misplaced => PlacedOK)
  BY DEF DirInv
<1>5. name \in Name /\ file \in File \union {Old, Dot, "none"} /\ names \in [File -> Name \union {<<>>}]
  BY <1>1, <1>4 DEF CallOK, TypeOK
<1>6. \A f \in File : names'[f] = IF f = file THEN name ELSE names[f]
  BY <1>1
<1>7. TypeOK'
  <2>1. names' \in [File -> Name \union {<<>>}]
    BY <1>1, <1>5
  <2> QED BY <1>1, <1>2, <1>3, <1>4, <2>1 DEF TypeOK
<1>8. ASSUME ~misplaced' PROVE PlacedOK'
  <2>1. PlacedOK /\ ~misplaced
    BY <1>1, <1>4, <1>8
  <2>2. PICK s \in Nat, k \in Nat, t \in Nat : RewritingAt(s, k, t)
    BY <1>1, <2>1 DEF PlacedOK, Rewriting
  <2>3. /\ s >= 1 /\ s <= k /\ k <= t + 1 /\ t = s + Len(name) /\ t <= Len(DirectoryWalk)
        /\ todo = SubSeq(EntriesOf(name, file), k - s + 1, Len(name) + 1) /\ fresh = <<>>
        /\ \A j \in 1..(k - s) : j <= Len(name) => View[s + j - 1] = EntriesOf(name, file)[j]
        /\ NameAt(View, Len(name) + 1, t, file)
        /\ s = 1 \/ View[s - 1].kind # "lfn"
        /\ file \in File \ suspect => \A i \in 1..Len(DirectoryWalk) : Stands(View, file, i) => i = t
    BY <2>2 DEF RewritingAt
  <2>4. /\ k = t + 1 /\ t \in 1..Len(DirectoryWalk) /\ Len(name) \in Nat \ {0}
        /\ (\A j \in 1..Len(name) : View[s + j - 1] = EntriesOf(name, file)[j])
           /\ (s = 1 \/ View[s - 1].kind # "lfn") => CleanAt(View, name, t)
    BY <1>1, <1>4, <1>5, <2>3, WrittenName
  <2>5. \A j \in 1..Len(name) : j \in 1..(k - s) /\ j <= Len(name)
    BY <2>3, <2>4
  <2>6. CleanAt(View, name, t) /\ Stands(View, file, t)
    BY <2>3, <2>4, <2>5 DEF NameAt
  <2>7. KnownFiles'
    BY <1>2, <1>3, <2>1 DEF PlacedOK, KnownFiles
  <2>8. Settled'
    <3> SUFFICES ASSUME NEW f \in File, f \notin suspect PROVE KeptAs(View, names'[f], f)
      BY <1>1, <1>3 DEF Settled, KeptAs, KeptIn
    <3>1. CASE f = file
      <4>1. name # <<>>
        BY <1>5, DirectoryAssumption
      <4> QED BY <1>6, <2>3, <2>4, <2>6, <3>1, <4>1 DEF KeptAs, KeptIn
    <3>2. CASE f # file
      BY <1>6, <2>1, <3>2 DEF PlacedOK, Settled, Resting
    <3> QED BY <3>1, <3>2
  <2>9. Somewhere'
    <3> SUFFICES ASSUME NEW f \in File, names'[f] # <<>>
                 PROVE  \E i \in 1..Len(DirectoryWalk) : Stands(View, f, i)
      BY <1>3 DEF Somewhere
    <3>1. CASE f = file
      BY <2>4, <2>6, <3>1
    <3>2. CASE f # file
      BY <1>6, <2>1, <3>2 DEF PlacedOK, Somewhere
    <3> QED BY <3>1, <3>2
  <2>10. OldPlaces'
    BY <1>1, <1>2, <1>3, <2>1, <2>3 DEF PlacedOK, OldPlaces
  <2> QED BY <1>2, <1>3, <2>1, <2>7, <2>8, <2>9, <2>10 DEF PlacedOK
<1> QED BY <1>2, <1>3, <1>4, <1>7, <1>8 DEF DirInv

\* A name has been copied: the one it was copied from is to be deleted.
LEMMA CopyDoneKeeps == ASSUME DirInv, CopyDone PROVE DirInv'
<1>1. /\ op = "copy" /\ todo = <<>>
      /\ names' = [f \in File |-> IF f = file THEN name ELSE names[f]]
      /\ op' = "delete" /\ iter' = IterFrom(entry.first) /\ todo' = DeletionOf(entry)
      /\ misplaced' = (misplaced \/ ~Straight(entry.first))
      /\ UNCHANGED <<volume, fat, disk>> /\ suspect' = suspect
      /\ name' = name /\ entry' = entry /\ file' = file /\ fresh' = fresh
  BY DEF CopyDone
<1>2. /\ DirectoryWalk' = DirectoryWalk /\ View' = View /\ VolumeOK' = VolumeOK /\ Loose' = Loose
      /\ Visible' = Visible /\ Overrun' = Overrun /\ old_root' = old_root /\ RootSlots' = RootSlots
      /\ Place' = Place /\ disk' = disk /\ fat' = fat /\ Clusters' = Clusters
      /\ blocks_per_cluster' = blocks_per_cluster /\ Before' = Before
      /\ \A k : Rest(k)' = Rest(k)
  BY <1>1, SameDirectory
<1>3. VolumeOK /\ TypeOK /\ CallOK /\ FreshOK /\ (~misplaced => PlacedOK)
  BY DEF DirInv
<1>4. /\ name \in Name /\ entry \in Finding /\ file \in File \union {Old, Dot, "none"}
      /\ names \in [File -> Name \union {<<>>}]
  BY <1>1, <1>3 DEF CallOK, TypeOK
<1>5. \A f \in File : names'[f] = IF f = file THEN name ELSE names[f]
  BY <1>1
<1>6. entry.count \in Nat
  BY <1>4 DEF Finding
<1>7. /\ todo' \in Seq(Content \ {FreeSlot}) /\ Len(todo') = entry.count
      /\ \A i \in 1..Len(todo') : todo'[i] = Deleted
  <2> DEFINE d == [i \in 1..entry.count |-> Deleted]
  <2>1. todo' = d
    BY <1>1 DEF DeletionOf
  <2>2. Deleted \in Content \ {FreeSlot}
    BY DEF Content, Deleted, FreeSlot
  <2>3. d \in Seq(Content \ {FreeSlot}) /\ Len(d) = entry.count /\ \A i \in 1..Len(d) : d[i] = Deleted
    BY <1>6, <2>2
  <2> HIDE DEF d
  <2> QED BY <2>1, <2>3
<1>8. TypeOK'
  <2>1. names' \in [File -> Name \union {<<>>}]
    BY <1>1, <1>4
  <2> QED BY <1>1, <1>2, <1>3, <2>1 DEF TypeOK
<1>9. CallOK'
  BY <1>1, <1>4, <1>7 DEF CallOK
<1>10. fresh = <<>> /\ FreshOK'
  BY <1>1, Finished DEF FreshOK
<1>11. ASSUME ~misplaced' PROVE PlacedOK'
  <2>1. PlacedOK /\ ~misplaced /\ Straight(entry.first)
    BY <1>1, <1>3, <1>11
  <2>2. PICK s \in Nat, t \in 1..Len(DirectoryWalk) :
            /\ s >= 1 /\ s <= t /\ Stands(View, file, t) /\ Source(s, t)
            /\ file \notin suspect => CleanAt(View, name, t)
    BY <1>1, <2>1, FinishedWriting
  <2>3. PICK p \in 1..Len(DirectoryWalk) :
            /\ NameAt(View, entry.count, p, file)
            /\ entry.first = DirectoryWalk[p - entry.count + 1]
            /\ \A i \in (p - entry.count + 1)..p : i \notin s..t
            /\ file \in File \ suspect =>
                  \A i \in 1..Len(DirectoryWalk) : Stands(View, file, i) => i = p \/ i = t
    BY <1>1, <2>2 DEF Source
  <2>0. PICK k \in Int : k = p - entry.count + 1
    BY <1>6
  <2>4. entry.count \in 1..p /\ k \in 1..Len(DirectoryWalk) /\ p = k + entry.count - 1 /\ t # p
    <3>1. entry.count \in 1..p
      BY <2>3 DEF NameAt
    <3>2. p \in k..p
      BY <1>6, <2>0, <3>1
    <3>3. Len(DirectoryWalk) \in Nat
      BY <1>3, WalkIs
    <3> QED BY <1>6, <2>0, <2>2, <2>3, <3>1, <3>2, <3>3
  <2>5. iter' = Rest(k)
    BY <1>1, <1>3, <2>0, <2>1, <2>3, <2>4, IterIs
  <2>6. todo' # <<>> /\ Len(todo') = entry.count
    BY <1>7, <2>4
  <2>7. Deleting'
    <3>1. \A i : i \in Others(p)' <=> i \in 1..Len(DirectoryWalk) /\ Stands(View, file, i) /\ i # p
      BY <1>1, <1>2, <2>6 DEF Others
    <3>2. NameAt(View, Len(todo), p, file)'
      BY <1>1, <1>2, <2>3, <2>6 DEF NameAt
    <3>3. t \in Others(p)'
      BY <2>2, <2>4, <3>1
    <3>4. ASSUME file \in File \ suspect, NEW i \in Others(p)' PROVE i = t
      BY <2>3, <3>1, <3>4
    <3>5. file \in File \ suspect => \A i \in Others(p)' : names'[file] # <<>> /\ CleanAt(View, names'[file], i)
      <4>1. name # <<>>
        BY <1>4, DirectoryAssumption
      <4> QED BY <1>5, <2>2, <3>4, <4>1
    <3>6. k \in Nat /\ k >= 1 /\ p = k + Len(todo') - 1 /\ p <= Len(DirectoryWalk) /\ k \in Int /\ p \in Int
      BY <2>4, <2>6, WalkIs, <1>3
    <3>7. DeletingAt(k, p)'
      <4> QED BY <1>1, <1>2, <1>7, <1>10, <2>5, <3>2, <3>3, <3>4, <3>5, <3>6 DEF DeletingAt
    <3> QED BY <3>6, <3>7 DEF Deleting
  <2>8. KnownFiles'
    BY <1>1, <1>2, <2>1 DEF PlacedOK, KnownFiles
  <2>9. Settled'
    <3> SUFFICES ASSUME NEW f \in File, f \notin suspect, Resting(f)' PROVE KeptAs(View, names'[f], f)
      BY <1>1, <1>2 DEF Settled, KeptAs, KeptIn
    <3>1. f # file
      BY <1>1 DEF Resting
    <3> QED BY <1>5, <2>1, <3>1 DEF PlacedOK, Settled, Resting
  <2>10. Somewhere'
    <3> SUFFICES ASSUME NEW f \in File, names'[f] # <<>>, f # file
                 PROVE  \E i \in 1..Len(DirectoryWalk) : Stands(View, f, i)
      BY <1>1, <1>2 DEF Somewhere
    <3> QED BY <1>5, <2>1 DEF PlacedOK, Somewhere
  <2>11. OldPlaces'
    BY <1>1, <1>2, <2>1 DEF PlacedOK, OldPlaces
  <2>12. Writing' /\ Clearing' /\ Rewriting'
    BY <1>1, <1>10 DEF Writing, Clearing, Rewriting
  <2> QED BY <1>2, <2>1, <2>7, <2>8, <2>9, <2>10, <2>11, <2>12 DEF PlacedOK
<1> QED BY <1>2, <1>3, <1>8, <1>9, <1>10, <1>11 DEF DirInv

\* A name has been deleted.
LEMMA DeleteDoneKeeps == ASSUME DirInv, DeleteDone PROVE DirInv'
<1>1. /\ op = "delete" /\ todo = <<>> /\ EndCall
      /\ suspect' = IF OnDisk(file) THEN suspect ELSE suspect \ {file}
      /\ UNCHANGED <<volume, fat, disk>> /\ names' = names /\ misplaced' = misplaced
  BY DEF DeleteDone
<1>2. /\ FreshOK' /\ CallOK' /\ Writing' /\ Clearing' /\ Deleting' /\ Rewriting'
      /\ op' = "none" /\ iter' = <<>> /\ todo' = <<>> /\ fresh' = <<>> /\ file' = "none"
  BY <1>1, CallEnds
<1>3. /\ DirectoryWalk' = DirectoryWalk /\ View' = View /\ VolumeOK' = VolumeOK /\ Loose' = Loose
      /\ Visible' = Visible /\ Overrun' = Overrun /\ old_root' = old_root /\ RootSlots' = RootSlots
      /\ Place' = Place /\ disk' = disk /\ fat' = fat
  BY <1>1, SameDirectory
<1>4. VolumeOK /\ TypeOK /\ CallOK /\ FreshOK /\ (~misplaced => PlacedOK) /\ DiskOK
  BY DiskTyped DEF DirInv
<1>5. TypeOK'
  BY <1>1, <1>2, <1>3, <1>4 DEF TypeOK
<1>6. ASSUME ~misplaced' PROVE PlacedOK'
  <2>1. PlacedOK
    BY <1>1, <1>4, <1>6
  <2>2. PICK k \in Int, q \in Int : DeletingAt(k, q)
    BY <1>1, <2>1 DEF PlacedOK, Deleting
  <2>3. \A i : i \in Others(q) <=> i \in 1..Len(DirectoryWalk) /\ Stands(View, file, i)
    BY <1>1 DEF Others
  <2>4. /\ file \in File /\ names[file] # <<>> => Others(q) # {}
        /\ file \in File \ suspect =>
             /\ \A i \in Others(q) : names[file] # <<>> /\ CleanAt(View, names[file], i)
             /\ \A i, j \in Others(q) : i = j
        /\ fresh = <<>>
    BY <2>2 DEF DeletingAt
  <2>5. ASSUME ~OnDisk(file) PROVE \A i \in 1..Len(DirectoryWalk) : ~Stands(View, file, i)
    BY <1>4, <2>5, StandsOnDisk
  <2>6. KnownFiles'
    BY <1>2, <1>3, <2>1 DEF PlacedOK, KnownFiles
  <2>7. Settled'
    <3> SUFFICES ASSUME NEW f \in File, f \notin suspect' PROVE KeptAs(View, names[f], f)
      BY <1>1, <1>3 DEF Settled, KeptAs, KeptIn
    <3>1. CASE f # file
      <4>1. f \in File \ suspect
        BY <1>1, <3>1
      <4> QED BY <2>1, <3>1, <4>1 DEF PlacedOK, Settled, Resting
    <3>2. CASE f = file /\ ~OnDisk(file)
      <4>1. \A i \in 1..Len(DirectoryWalk) : ~Stands(View, f, i)
        BY <2>5, <3>2
      <4>2. names[f] = <<>>
        BY <2>3, <2>4, <3>2, <4>1
      <4> QED BY <4>1, <4>2 DEF KeptAs, KeptIn
    <3>3. CASE f = file /\ OnDisk(file)
      <4>1. file \in File \ suspect
        BY <1>1, <3>3
      <4>2. CASE names[f] = <<>>
        BY <2>3, <2>4, <3>3, <4>1, <4>2 DEF KeptAs, KeptIn
      <4>3. CASE names[f] # <<>>
        <5>1. PICK i : i \in Others(q)
          BY <2>4, <3>3, <4>3
        <5>2. i \in 1..Len(DirectoryWalk) /\ Stands(View, f, i) /\ CleanAt(View, names[f], i)
          BY <2>3, <2>4, <3>3, <4>1, <5>1
        <5>3. \A j \in 1..Len(DirectoryWalk) : Stands(View, f, j) => j = i
          BY <2>3, <2>4, <3>3, <4>1, <5>1
        <5> QED BY <4>3, <5>2, <5>3 DEF KeptAs, KeptIn
      <4> QED BY <4>2, <4>3
    <3> QED BY <3>1, <3>2, <3>3
  <2>8. Somewhere'
    <3> SUFFICES ASSUME NEW f \in File, names[f] # <<>>
                 PROVE  \E i \in 1..Len(DirectoryWalk) : Stands(View, f, i)
      BY <1>1, <1>3 DEF Somewhere
    <3>1. CASE f = file
      BY <2>3, <2>4, <3>1
    <3>2. CASE f # file
      BY <2>1, <3>2 DEF PlacedOK, Somewhere
    <3> QED BY <3>1, <3>2
  <2>9. OldPlaces'
    <3>1. ASSUME ~old_root, Old \notin suspect', NEW i \in 1..Len(DirectoryWalk) PROVE ~Stands(View, Old, i)
      <4>1. CASE Old \notin suspect
        BY <2>1, <2>4, <3>1, <4>1 DEF PlacedOK, OldPlaces
      <4>2. CASE Old \in suspect
        <5>1. file = Old /\ ~OnDisk(file)
          BY <1>1, <3>1, <4>2
        <5> QED BY <2>5, <5>1
      <4> QED BY <4>1, <4>2
    <3> QED BY <1>2, <1>3, <2>1, <3>1 DEF PlacedOK, OldPlaces
  <2> QED BY <1>2, <1>3, <2>1, <2>6, <2>7, <2>8, <2>9 DEF PlacedOK
<1> QED BY <1>2, <1>3, <1>4, <1>5, <1>6 DEF DirInv

(***************************************************************************)
(* Calls begin                                                             *)
(***************************************************************************)
\* No call: every file that no call was stopped about has its name.
LEMMA AtRest ==
    ASSUME DirInv, op = "none"
    PROVE  /\ iter = <<>> /\ todo = <<>> /\ fresh = <<>>
           /\ ~misplaced => \A f \in File \ suspect : KeptAs(View, names[f], f)
           /\ ~misplaced /\ ~old_root /\ Old \notin suspect =>
                 \A i \in 1..Len(DirectoryWalk) : ~Stands(View, Old, i)
<1>1. iter = <<>> /\ todo = <<>> /\ fresh = <<>>
  BY DEF DirInv, TypeOK
<1>2. ~misplaced => \A f \in File \ suspect : KeptAs(View, names[f], f)
  BY DEF DirInv, PlacedOK, Settled, Resting
<1>3. ~misplaced /\ ~old_root /\ Old \notin suspect => \A i \in 1..Len(DirectoryWalk) : ~Stands(View, Old, i)
  BY <1>1 DEF DirInv, PlacedOK, OldPlaces
<1> QED BY <1>1, <1>2, <1>3

\* The name that a call is about is in the directory.
LEMMA FoundName ==
    ASSUME VolumeOK, DiskOK, NEW n, Find(n) # NoEntry
    PROVE  LET e == Find(n) IN
           /\ e \in Finding /\ e.file \in File \union {Old, Dot, "none"} /\ e.count \in Nat \ {0}
           /\ \E p \in 1..Len(DirectoryWalk) :
                 /\ NameAt(View, e.count, p, e.file) /\ NoFree(View, p)
                 /\ p - e.count + 1 \in 1..p
                 /\ e.first = DirectoryWalk[p - e.count + 1]
                 /\ p = e.count \/ View[p - e.count].kind # "lfn"
<1> DEFINE e == Find(n)
<1>1. e \in Finding /\ \E p \in 1..Len(DirectoryWalk) : FoundAt(View, e, p)
  BY FindIs
<1> HIDE DEF e
<1>2. PICK p \in 1..Len(DirectoryWalk) : FoundAt(View, e, p)
  BY <1>1
<1>3. /\ View[p].kind = "sfn" /\ NoFree(View, p)
      /\ e.file = View[p].file
      /\ e.count \in 1..p
      /\ e.first = DirectoryWalk[p - e.count + 1]
      /\ \A j \in (p - e.count + 1)..(p - 1) : View[j].kind = "lfn"
      /\ p = e.count \/ View[p - e.count].kind # "lfn"
  BY <1>2 DEF FoundAt
<1>4. e.file \in File \union {Old, Dot, "none"}
  BY <1>1 DEF Finding
<1>5. Len(DirectoryWalk) \in Nat
  BY WalkIs
<1>6. e.count \in Nat \ {0} /\ p - e.count + 1 \in 1..p
  BY <1>3, <1>5
<1>7. NameAt(View, e.count, p, e.file)
  BY <1>3 DEF NameAt, Stands
<1> QED BY <1>1, <1>3, <1>4, <1>6, <1>7 DEF e

\* A listing of a root directory of FAT12/FAT16 with a free entry ends before its end.
LEMMA OldUnseen ==
    ASSUME VolumeOK, DiskOK, OldPlaces, old_root, ~Overrun,
           NEW p \in 1..Len(DirectoryWalk), NoFree(View, p)
    PROVE  ~Stands(View, Old, p)
<1>1. \A x \in Place : x < RootSlots => ~(disk[x].kind = "sfn" /\ disk[x].file = Old)
  BY DEF OldPlaces
<1>2. PICK x \in 0..(RootSlots - 1) : disk[x].kind = "free"
  BY DEF Overrun
<1> DEFINE w == DirectoryWalk
<1>3. RootSlots = RootBlocks * EntriesPerBlock /\ EntriesPerBlock \in Nat \ {0} /\ RootBlocks \in Nat \ {0}
      /\ RootSlots \in Nat
  BY Sizes
<1>4. (RootBlocks + 1) * EntriesPerBlock = RootSlots + EntriesPerBlock
  BY <1>3
<1>5. Len(w) = RootSlots + EntriesPerBlock /\ \A i \in 1..Len(w) : w[i] = i - 1
  <2> DEFINE N == (RootBlocks + 1) * EntriesPerBlock
  <2>1. w = [i \in 1..(N - 0) |-> 0 + i - 1]
    BY DEF DirectoryWalk, RootWalk
  <2>2. N \in Nat /\ N = RootSlots + EntriesPerBlock
    BY <1>3, <1>4
  <2> HIDE DEF N, w
  <2>3. Len(w) = N /\ \A i \in 1..N : w[i] = i - 1
    BY <2>1, <2>2
  <2> QED BY <2>2, <2>3
<1>6. \A i \in 1..Len(w) : View[i] = disk[w[i]] /\ w[i] \in Place
  <2>1. w \in Seq(Place)
    BY WalkIs
  <2> HIDE DEF w
  <2>2. \A i \in 1..Len(DirectoryWalk) : View[i] = disk[DirectoryWalk[i]]
    BY ViewIs
  <2> QED BY <2>1, <2>2 DEF w
<1>7. x + 1 \in 1..Len(w) /\ w[x + 1] = x
  <2> HIDE DEF w
  <2>1. x + 1 \in 1..Len(w) /\ (x + 1) - 1 = x
    BY <1>3, <1>5
  <2> QED BY <1>5, <2>1
<1>8. View[x + 1].kind = "free"
  BY <1>2, <1>6, <1>7
<1>9. ~(x + 1 <= p)
  <2> SUFFICES ASSUME x + 1 <= p PROVE FALSE
    OBVIOUS
  <2>1. x + 1 \in 1..p
    BY <1>7
  <2> QED BY <1>8, <2>1 DEF NoFree
<1>10. w[p] < RootSlots /\ w[p] \in Place /\ View[p] = disk[w[p]]
  <2>1. w[p] = p - 1
    BY <1>5
  <2>2. p - 1 < RootSlots
    BY <1>3, <1>9
  <2> QED BY <1>6, <2>1, <2>2
<1> QED BY <1>1, <1>10 DEF Stands

\* If it is one that no call has begun with, the listing of it is no slip.
LEMMA FoundFile ==
    ASSUME DirInv, op = "none", ~misplaced, NEW f, NEW p \in 1..Len(DirectoryWalk),
           Stands(View, f, p), NoFree(View, p)
    PROVE  /\ f \in File \union {Old, Dot}
           /\ ~old_root /\ Old \notin suspect => f # Old
           /\ old_root /\ ~Overrun => f # Old
           /\ f \in File \ suspect =>
                 names[f] # <<>> /\ \A i \in 1..Len(DirectoryWalk) : Stands(View, f, i) => i = p
<1>1. VolumeOK /\ TypeOK /\ PlacedOK /\ DiskOK
  BY DiskTyped DEF DirInv
<1>2. f \in File \union {Old, Dot}
  BY <1>1 DEF PlacedOK, KnownFiles, Stands
<1>3. ~old_root /\ Old \notin suspect => f # Old
  BY AtRest
<1>4. old_root /\ ~Overrun => f # Old
  BY <1>1, OldUnseen DEF PlacedOK
<1>5. ASSUME f \in File \ suspect
      PROVE  names[f] # <<>> /\ \A i \in 1..Len(DirectoryWalk) : Stands(View, f, i) => i = p
  <2>1. KeptAs(View, names[f], f)
    BY <1>5, AtRest
  <2> QED BY <2>1 DEF KeptAs, KeptIn
<1> QED BY <1>2, <1>3, <1>4, <1>5

\* delete_dir_entry
LEMMA DeletionIs ==
    ASSUME NEW e, e.count \in Nat
    PROVE  /\ DeletionOf(e) \in Seq(Content \ {FreeSlot}) /\ Len(DeletionOf(e)) = e.count
           /\ \A i \in 1..Len(DeletionOf(e)) : DeletionOf(e)[i] = Deleted
<1> DEFINE d == [i \in 1..e.count |-> Deleted]
<1>1. DeletionOf(e) = d
  BY DEF DeletionOf
<1>2. Deleted \in Content \ {FreeSlot}
  BY DEF Content, Deleted, FreeSlot
<1>3. d \in Seq(Content \ {FreeSlot}) /\ Len(d) = e.count /\ \A i \in 1..Len(d) : d[i] = Deleted
  BY <1>2
<1> HIDE DEF d
<1> QED BY <1>1, <1>3

\* The beginning of a call changes nothing about what was left by another owner.
LEMMA OldKept ==
    ASSUME DirInv, op = "none", ~misplaced, UNCHANGED <<volume, fat, disk>>, suspect \subseteq suspect',
           ~old_root /\ Old \notin suspect => file' # Old,
           old_root /\ ~Overrun => file' # Old
    PROVE  OldPlaces'
<1>1. /\ DirectoryWalk' = DirectoryWalk /\ View' = View /\ Overrun' = Overrun /\ old_root' = old_root
      /\ RootSlots' = RootSlots /\ Place' = Place /\ disk' = disk
  BY SameDirectory
<1>2. PlacedOK
  BY DEF DirInv
<1>3. ~old_root /\ Old \notin suspect => \A i \in 1..Len(DirectoryWalk) : ~Stands(View, Old, i)
  BY AtRest
<1>4. old_root /\ ~Overrun => \A x \in Place : x < RootSlots => ~(disk[x].kind = "sfn" /\ disk[x].file = Old)
  BY <1>2 DEF PlacedOK, OldPlaces
<1>5. (~old_root /\ Old \notin suspect)' =>
         /\ (\A i \in 1..Len(DirectoryWalk) : Stands(View, Old, i) => fresh # <<>> /\ i > Before)'
         /\ file' # Old
  BY <1>1, <1>3
<1>6. (old_root /\ ~Overrun)' =>
         /\ \A x \in Place' : x < RootSlots' => ~(disk'[x].kind = "sfn" /\ disk'[x].file = Old)
         /\ file' # Old
  BY <1>1, <1>4
<1> QED BY <1>5, <1>6 DEF OldPlaces

\* unlink begins.
LEMMA BeginDeleteKeeps == ASSUME DirInv, NEW n \in Name, BeginDelete(n) PROVE DirInv'
<1> DEFINE e == Find(n)
<1>1. /\ op = "none" /\ e # NoEntry /\ entry' = e /\ file' = e.file
      /\ iter' = IterFrom(e.first) /\ todo' = DeletionOf(e)
      /\ names' = [f \in File |-> IF f = e.file THEN <<>> ELSE names[f]]
      /\ misplaced' = (misplaced \/ ~Straight(e.first))
      /\ op' = "delete"
      /\ UNCHANGED <<volume, fat, disk>> /\ name' = name /\ fresh' = fresh /\ suspect' = suspect
  BY DEF BeginDelete
<1>2. /\ DirectoryWalk' = DirectoryWalk /\ View' = View /\ VolumeOK' = VolumeOK /\ Loose' = Loose
      /\ Visible' = Visible /\ Overrun' = Overrun /\ old_root' = old_root /\ RootSlots' = RootSlots
      /\ Place' = Place /\ disk' = disk /\ fat' = fat
      /\ \A k : Rest(k)' = Rest(k)
  BY <1>1, SameDirectory
<1>3. VolumeOK /\ TypeOK /\ CallOK /\ FreshOK /\ (~misplaced => PlacedOK) /\ DiskOK
  BY DiskTyped DEF DirInv
<1>4. /\ e \in Finding /\ e.file \in File \union {Old, Dot, "none"} /\ e.count \in Nat \ {0}
      /\ \E p \in 1..Len(DirectoryWalk) :
            /\ NameAt(View, e.count, p, e.file) /\ NoFree(View, p)
            /\ p - e.count + 1 \in 1..p
            /\ e.first = DirectoryWalk[p - e.count + 1]
  BY <1>1, <1>3, FoundName
<1> HIDE DEF e
<1>5. PICK p \in 1..Len(DirectoryWalk) :
            /\ NameAt(View, e.count, p, e.file) /\ NoFree(View, p)
            /\ p - e.count + 1 \in 1..p
            /\ e.first = DirectoryWalk[p - e.count + 1]
  BY <1>4
<1>6. /\ todo' \in Seq(Content \ {FreeSlot}) /\ Len(todo') = e.count
      /\ \A i \in 1..Len(todo') : todo'[i] = Deleted
  BY <1>1, <1>4, DeletionIs
<1>7. names \in [File -> Name \union {<<>>}] /\ \A f \in File : names'[f] = IF f = e.file THEN <<>> ELSE names[f]
  BY <1>1, <1>3 DEF TypeOK
<1>8. fresh = <<>>
  BY <1>1, AtRest
<1>9. TypeOK'
  <2>1. names' \in [File -> Name \union {<<>>}]
    BY <1>1, <1>7
  <2> QED BY <1>1, <1>2, <1>3, <2>1 DEF TypeOK
<1>10. CallOK'
  BY <1>1, <1>4, <1>6 DEF CallOK
<1>11. FreshOK'
  BY <1>1, <1>8 DEF FreshOK
<1>12. ASSUME ~misplaced' PROVE PlacedOK'
  <2>1. PlacedOK /\ ~misplaced /\ Straight(e.first)
    BY <1>1, <1>3, <1>12
  <2>2. Stands(View, e.file, p)
    BY <1>5 DEF NameAt
  <2>3. /\ e.file \in File \union {Old, Dot}
        /\ ~old_root /\ Old \notin suspect => e.file # Old
        /\ old_root /\ ~Overrun => e.file # Old
        /\ e.file \in File \ suspect =>
              \A i \in 1..Len(DirectoryWalk) : Stands(View, e.file, i) => i = p
    BY <1>1, <1>5, <2>1, <2>2, FoundFile
  <2>4. PICK k \in Int : k = p - e.count + 1
    BY <1>4, <1>5
  <2>5. k \in 1..Len(DirectoryWalk) /\ p = k + e.count - 1
    <3>1. Len(DirectoryWalk) \in Nat
      BY <1>3, WalkIs
    <3> QED BY <1>4, <1>5, <2>4, <3>1
  <2>6. iter' = Rest(k)
    BY <1>1, <1>3, <1>5, <2>1, <2>4, <2>5, IterIs
  <2>7. todo' # <<>> /\ Len(todo') = e.count
    BY <1>4, <1>6
  <2>8. Deleting'
    <3>1. \A i : i \in Others(p)' <=> i \in 1..Len(DirectoryWalk) /\ Stands(View, e.file, i) /\ i # p
      BY <1>1, <1>2, <2>7 DEF Others
    <3>2. NameAt(View, Len(todo), p, file)'
      BY <1>1, <1>2, <1>5, <2>7 DEF NameAt
    <3>3. e.file \in File \ suspect => \A i : i \notin Others(p)'
      BY <2>3, <3>1
    <3>4. k \in Nat /\ k >= 1 /\ p = k + Len(todo') - 1 /\ p <= Len(DirectoryWalk) /\ k \in Int /\ p \in Int
      BY <2>5, <2>7, WalkIs, <1>3
    <3>5. e.file \in File => names'[e.file] = <<>>
      BY <1>7
    <3>6. DeletingAt(k, p)'
      BY <1>1, <1>2, <1>6, <1>8, <2>6, <3>2, <3>3, <3>4, <3>5 DEF DeletingAt
    <3> QED BY <3>4, <3>6 DEF Deleting
  <2>9. KnownFiles'
    BY <1>1, <1>2, <2>1, <2>3 DEF PlacedOK, KnownFiles
  <2>10. Settled'
    <3> SUFFICES ASSUME NEW f \in File, f \notin suspect, Resting(f)' PROVE KeptAs(View, names'[f], f)
      BY <1>1, <1>2 DEF Settled, KeptAs, KeptIn
    <3>1. f # e.file
      BY <1>1 DEF Resting
    <3> QED BY <1>1, <1>7, <2>1, <3>1, AtRest
  <2>11. Somewhere'
    <3> SUFFICES ASSUME NEW f \in File, names'[f] # <<>>, f # e.file
                 PROVE  \E i \in 1..Len(DirectoryWalk) : Stands(View, f, i)
      BY <1>1, <1>2 DEF Somewhere
    <3> QED BY <1>1, <1>7, <2>1 DEF PlacedOK, Somewhere
  <2>12. OldPlaces'
    BY <1>1, <2>1, <2>3, OldKept
  <2>13. Writing' /\ Clearing' /\ Rewriting'
    BY <1>1, <1>8 DEF Writing, Clearing, Rewriting
  <2> QED BY <1>2, <2>1, <2>8, <2>9, <2>10, <2>11, <2>12, <2>13 DEF PlacedOK
<1> QED BY <1>2, <1>3, <1>9, <1>10, <1>11, <1>12 DEF DirInv

\* A rename that overwrites the name begins.
LEMMA BeginRewriteKeeps ==
    ASSUME DirInv, NEW o \in Name, NEW n \in Name, op = "none", Find(o) # NoEntry,
           entry' = Find(o), file' = Find(o).file, todo' = EntriesOf(n, Find(o).file),
           InPlace(Find(o), n), op' = "rewrite", iter' = IterFrom(Find(o).first),
           misplaced' = (misplaced \/ ~Straight(Find(o).first)),
           UNCHANGED <<fat, fresh, suspect>>, name' = n, UNCHANGED <<volume, disk, panicked, names>>
    PROVE  DirInv'
<1> DEFINE e == Find(o)
<1>1. /\ op = "none" /\ e # NoEntry /\ entry' = e /\ file' = e.file
      /\ iter' = IterFrom(e.first) /\ todo' = EntriesOf(n, e.file) /\ op' = "rewrite"
      /\ misplaced' = (misplaced \/ ~Straight(e.first))
      /\ e.count = Len(n) + 1 /\ ~old_root
      /\ UNCHANGED <<volume, fat, disk>> /\ name' = n /\ fresh' = fresh /\ suspect' = suspect
      /\ names' = names
  BY DEF InPlace
<1>2. /\ DirectoryWalk' = DirectoryWalk /\ View' = View /\ VolumeOK' = VolumeOK /\ Loose' = Loose
      /\ Visible' = Visible /\ Overrun' = Overrun /\ old_root' = old_root /\ RootSlots' = RootSlots
      /\ Place' = Place /\ disk' = disk /\ fat' = fat
      /\ \A k : Rest(k)' = Rest(k)
  BY <1>1, SameDirectory
<1>3. VolumeOK /\ TypeOK /\ CallOK /\ FreshOK /\ (~misplaced => PlacedOK) /\ DiskOK
  BY DiskTyped DEF DirInv
<1>4. /\ e \in Finding /\ e.file \in File \union {Old, Dot, "none"} /\ e.count \in Nat \ {0}
      /\ \E p \in 1..Len(DirectoryWalk) :
            /\ NameAt(View, e.count, p, e.file) /\ NoFree(View, p)
            /\ p - e.count + 1 \in 1..p
            /\ e.first = DirectoryWalk[p - e.count + 1]
            /\ p = e.count \/ View[p - e.count].kind # "lfn"
  BY <1>1, <1>3, FoundName
<1> HIDE DEF e
<1>5. PICK p \in 1..Len(DirectoryWalk) :
            /\ NameAt(View, e.count, p, e.file) /\ NoFree(View, p)
            /\ p - e.count + 1 \in 1..p
            /\ e.first = DirectoryWalk[p - e.count + 1]
            /\ p = e.count \/ View[p - e.count].kind # "lfn"
  BY <1>4
<1> DEFINE E == EntriesOf(n, e.file)
<1>6. E \in Seq(Content \ {FreeSlot}) /\ Len(E) = Len(n) + 1 /\ Len(n) \in Nat \ {0} /\ todo' = E
  BY <1>1, <1>4, EntriesAre
<1> HIDE DEF E
<1>8. fresh = <<>>
  BY <1>1, AtRest
<1>9. TypeOK'
  BY <1>1, <1>2, <1>3 DEF TypeOK
<1>10. CallOK'
  BY <1>1, <1>4, <1>6 DEF CallOK
<1>11. FreshOK'
  BY <1>1, <1>8 DEF FreshOK
<1>12. ASSUME ~misplaced' PROVE PlacedOK'
  <2>1. PlacedOK /\ ~misplaced /\ Straight(e.first)
    BY <1>1, <1>3, <1>12
  <2>2. Stands(View, e.file, p)
    BY <1>5 DEF NameAt
  <2>3. /\ e.file \in File \union {Old, Dot}
        /\ ~old_root /\ Old \notin suspect => e.file # Old
        /\ old_root /\ ~Overrun => e.file # Old
        /\ e.file \in File \ suspect =>
              names[e.file] # <<>> /\ \A i \in 1..Len(DirectoryWalk) : Stands(View, e.file, i) => i = p
    BY <1>1, <1>5, <2>1, <2>2, FoundFile
  <2>4. PICK s \in Int : s = p - e.count + 1
    BY <1>4, <1>5
  <2>5. s \in 1..Len(DirectoryWalk) /\ s \in Nat /\ p = s + Len(n) /\ p \in Nat /\ p <= Len(DirectoryWalk) /\ s - 1 = p - e.count
        /\ (p = e.count => s = 1)
    <3>1. Len(DirectoryWalk) \in Nat
      BY <1>3, WalkIs
    <3> QED BY <1>1, <1>4, <1>5, <1>6, <2>4, <3>1
  <2>6. iter' = Rest(s)
    BY <1>1, <1>3, <1>5, <2>1, <2>4, <2>5, IterIs
  <2>7. SubSeq(E, s - s + 1, Len(n) + 1) = E
    <3>1. s - s + 1 = 1
      BY <2>5
    <3> QED BY <1>6, <3>1
  <2>8. Rewriting'
    <3>1. NameAt(View, Len(name) + 1, p, file)'
      BY <1>1, <1>2, <1>5 DEF NameAt
    <3>2. 1..(s - s) = {}
      BY <2>5
    <3>3. s >= 1 /\ s <= s /\ s <= p + 1
      BY <1>6, <2>5
    <3>4. todo' = SubSeq(EntriesOf(name', file'), s - s + 1, Len(name') + 1)
      BY <1>1, <1>6, <2>7 DEF E
    <3>5. s = 1 \/ View[s - 1].kind # "lfn"
      BY <1>5, <2>5
    <3>6. RewritingAt(s, s, p)'
      BY <1>1, <1>2, <1>8, <2>3, <2>5, <2>6, <3>1, <3>2, <3>3, <3>4, <3>5 DEF RewritingAt
    <3> QED BY <2>5, <3>6 DEF Rewriting
  <2>9. KnownFiles'
    BY <1>1, <1>2, <2>1, <2>3 DEF PlacedOK, KnownFiles
  <2>10. Settled'
    <3> SUFFICES ASSUME NEW f \in File, f \notin suspect PROVE KeptAs(View, names[f], f)
      BY <1>1, <1>2 DEF Settled, KeptAs, KeptIn
    <3> QED BY <1>1, <2>1, AtRest
  <2>11. Somewhere'
    BY <1>1, <1>2, <2>1 DEF PlacedOK, Somewhere
  <2>12. OldPlaces'
    BY <1>1, <2>1, <2>3, OldKept
  <2>13. Writing' /\ Clearing' /\ Deleting'
    BY <1>1, <1>8 DEF Writing, Clearing, Deleting
  <2> QED BY <1>2, <2>1, <2>8, <2>9, <2>10, <2>11, <2>12, <2>13 DEF PlacedOK
<1> QED BY <1>2, <1>3, <1>9, <1>10, <1>11, <1>12 DEF DirInv

(***************************************************************************)
(* A name is to be made                                                    *)
(***************************************************************************)
\* create_file, and a rename that cannot overwrite the name, begin.
BeginsName(n) ==
    /\ op = "none" /\ op' \in {"create", "copy"} /\ name' = n
    /\ todo' = EntriesOf(n, file')
    /\ \/ op' = "create" /\ file' \in File /\ names[file'] = <<>> /\ ~OnDisk(file')
       \/ /\ op' = "copy"
          /\ \E o \in Name : Find(o) # NoEntry /\ entry' = Find(o) /\ file' = Find(o).file
    /\ UNCHANGED <<volume, disk, names>>

\* What a call that writes a name begins with.
LEMMA BegunCall ==
    ASSUME DirInv, NEW n \in Name, BeginsName(n)
    PROVE  CallOK' /\ file' \in File \union {Old, Dot, "none"} /\ Len(todo') = Len(n) + 1 /\ Len(n) \in Nat \ {0}
<1>1. VolumeOK /\ TypeOK /\ DiskOK
  BY DiskTyped DEF DirInv
<1>2. file' \in File \union {Old, Dot, "none"} /\ (op' = "create" => file' \in File) /\ (op' = "copy" => entry' \in Finding)
  <2>1. CASE op' = "create" /\ file' \in File
    BY <2>1
  <2>2. CASE op' = "copy" /\ \E o \in Name : Find(o) # NoEntry /\ entry' = Find(o) /\ file' = Find(o).file
    <3>1. PICK o \in Name : Find(o) # NoEntry /\ entry' = Find(o) /\ file' = Find(o).file
      BY <2>2
    <3>2. Find(o) \in Finding /\ Find(o).file \in File \union {Old, Dot, "none"}
      BY <1>1, <3>1, FoundName
    <3> QED BY <2>2, <3>1, <3>2
  <2> QED BY <2>1, <2>2 DEF BeginsName
<1>3. todo' \in Seq(Content \ {FreeSlot}) /\ Len(todo') = Len(n) + 1 /\ Len(n) \in Nat \ {0}
  <2>1. todo' = EntriesOf(n, file')
    BY DEF BeginsName
  <2> QED BY <1>2, <2>1, EntriesAre
<1>4. op' # "rewrite" /\ name' \in Name
  BY DEF BeginsName
<1>5. CallOK'
  <2>1. todo' \in Seq(Content \ {FreeSlot})
    BY <1>3
  <2>2. Finding' = Finding
    <3>1. old_root' = old_root /\ blocks_per_cluster' = blocks_per_cluster
      BY DEF BeginsName, volume
    <3> QED BY <3>1 DEF Finding, Place, RootSlots, ClusterSlots
  <2> HIDE <1>3
  <2> QED BY <1>2, <1>4, <2>1, <2>2 DEF CallOK
<1> QED BY <1>2, <1>3, <1>5

\* What the name is about stands nowhere, or in the one name that it is copied from.
LEMMA BegunFile ==
    ASSUME DirInv, ~misplaced, NEW n \in Name, BeginsName(n)
    PROVE  /\ file' \in File \union {Old, Dot}
           /\ ~old_root /\ Old \notin suspect => file' # Old
           /\ old_root /\ ~Overrun => file' # Old
           /\ op' = "create" => \A i \in 1..Len(DirectoryWalk) : ~Stands(View, file', i)
           /\ op' = "copy" => \E p \in 1..Len(DirectoryWalk) :
                 /\ NameAt(View, entry'.count, p, file') /\ NoFree(View, p)
                 /\ p - entry'.count + 1 \in 1..p
                 /\ entry'.first = DirectoryWalk[p - entry'.count + 1]
                 /\ file' \in File \ suspect =>
                       \A i \in 1..Len(DirectoryWalk) : Stands(View, file', i) => i = p
<1>1. VolumeOK /\ TypeOK /\ DiskOK
  BY DiskTyped DEF DirInv
<1>2. CASE op' = "create"
  <2>1. file' \in File /\ ~OnDisk(file')
    BY <1>2 DEF BeginsName
  <2>2. \A i \in 1..Len(DirectoryWalk) : ~Stands(View, file', i)
    BY <1>1, <2>1, StandsOnDisk
  <2> QED BY <1>2, <2>1, <2>2, DirectoryAssumption
<1>3. CASE op' = "copy"
  <2>1. PICK o \in Name : Find(o) # NoEntry /\ entry' = Find(o) /\ file' = Find(o).file
    BY <1>3 DEF BeginsName
  <2>2. PICK p \in 1..Len(DirectoryWalk) :
                 /\ NameAt(View, entry'.count, p, file') /\ NoFree(View, p)
                 /\ p - entry'.count + 1 \in 1..p
                 /\ entry'.first = DirectoryWalk[p - entry'.count + 1]
    BY <1>1, <2>1, FoundName
  <2>3. Stands(View, file', p) /\ op = "none"
    BY <2>2 DEF NameAt, BeginsName
  <2>4. /\ file' \in File \union {Old, Dot}
        /\ ~old_root /\ Old \notin suspect => file' # Old
        /\ old_root /\ ~Overrun => file' # Old
        /\ file' \in File \ suspect =>
              \A i \in 1..Len(DirectoryWalk) : Stands(View, file', i) => i = p
    <3>1. ASSUME NEW g, g = file'
          PROVE /\ g \in File \union {Old, Dot}
                /\ ~old_root /\ Old \notin suspect => g # Old
                /\ old_root /\ ~Overrun => g # Old
                /\ g \in File \ suspect =>
                      \A i \in 1..Len(DirectoryWalk) : Stands(View, g, i) => i = p
      <4>1. Stands(View, g, p)
        BY <2>3, <3>1
      <4> QED BY <2>2, <2>3, <4>1, FoundFile
    <3> QED BY <3>1
  <2> QED BY <1>3, <2>2, <2>4
<1> QED BY <1>2, <1>3 DEF BeginsName

\* allocate_entries finds a hole.
LEMMA TakeHoleKeeps ==
    ASSUME DirInv, NEW n \in Name, BeginsName(n), TakeHole(file')
    PROVE  DirInv'
<1>1. /\ op = "none" /\ op' \in {"create", "copy"} /\ name' = n /\ todo' = EntriesOf(n, file')
      /\ UNCHANGED <<volume, fat, disk>> /\ names' = names /\ fresh' = fresh
      /\ FirstHole # 0 /\ iter' = IterFrom(DirectoryWalk[FirstHole])
      /\ misplaced' = (misplaced \/ ~Suits(FirstHole, Len(todo')))
      /\ suspect' = IF BehindRemains(FirstHole) THEN suspect \union {file'} ELSE suspect
  BY DEF BeginsName, TakeHole
<1>2. /\ DirectoryWalk' = DirectoryWalk /\ View' = View /\ VolumeOK' = VolumeOK /\ Loose' = Loose
      /\ Visible' = Visible /\ DirectoryPlaces' = DirectoryPlaces
      /\ Place' = Place /\ disk' = disk /\ fat' = fat
      /\ \A k : Rest(k)' = Rest(k)
  BY <1>1, SameDirectory
<1>3. VolumeOK /\ TypeOK /\ CallOK /\ FreshOK /\ (~misplaced => PlacedOK) /\ DiskOK
  BY DiskTyped DEF DirInv
<1>4. CallOK' /\ file' \in File \union {Old, Dot, "none"} /\ Len(todo') = Len(n) + 1 /\ Len(n) \in Nat \ {0}
  BY BegunCall
<1>5. fresh = <<>> /\ suspect \subseteq suspect'
  BY <1>1, AtRest
<1>6. TypeOK'
  BY <1>1, <1>2, <1>3, <1>4 DEF TypeOK
<1>7. FreshOK'
  BY <1>1, <1>5 DEF FreshOK
<1>8. ASSUME ~misplaced' PROVE PlacedOK'
  <2>1. PlacedOK /\ ~misplaced /\ Suits(FirstHole, Len(n) + 1)
    BY <1>1, <1>3, <1>4, <1>8
  <2>2. /\ file' \in File \union {Old, Dot}
        /\ ~old_root /\ Old \notin suspect => file' # Old
        /\ old_root /\ ~Overrun => file' # Old
        /\ op' = "create" => \A i \in 1..Len(DirectoryWalk) : ~Stands(View, file', i)
        /\ op' = "copy" => \E p \in 1..Len(DirectoryWalk) :
              /\ NameAt(View, entry'.count, p, file') /\ NoFree(View, p)
              /\ p - entry'.count + 1 \in 1..p
              /\ entry'.first = DirectoryWalk[p - entry'.count + 1]
              /\ file' \in File \ suspect =>
                    \A i \in 1..Len(DirectoryWalk) : Stands(View, file', i) => i = p
    BY <2>1, BegunFile
  <2>3. PICK h \in 1..Len(DirectoryWalk) : h = FirstHole /\ NoFree(View, h - 1)
    BY <1>1, <1>3, HoleIs
  <2>4. /\ Len(DirectoryPlaces) \in 1..Len(DirectoryWalk) /\ Len(DirectoryWalk) \in Nat
        /\ \A i \in 1..Len(DirectoryPlaces) : DirectoryPlaces[i] = DirectoryWalk[i]
    BY <1>3, WalkIs
  <2>5. PICK t \in Nat : t = h + Len(n) /\ t <= Len(DirectoryPlaces) /\ t <= Len(DirectoryWalk)
    <3>1. h + (Len(n) + 1) - 1 <= Len(DirectoryPlaces)
      BY <2>1, <2>3 DEF Suits
    <3> QED BY <1>4, <2>4, <3>1
  <2>6. \A i \in h..t : IsHole(View[i])
    <3> SUFFICES ASSUME NEW i \in h..t PROVE IsHole(View[i])
      OBVIOUS
    <3>1. i \in h..(h + (Len(n) + 1) - 1) /\ i \in 1..Len(DirectoryPlaces) /\ i \in 1..Len(DirectoryWalk)
      BY <1>4, <2>4, <2>5
    <3>2. IsHole(disk[DirectoryPlaces[i]])
      BY <2>1, <2>3, <3>1 DEF Suits
    <3>3. View[i] = disk[DirectoryWalk[i]]
      BY <1>3, <3>1, ViewIs
    <3> QED BY <2>4, <3>1, <3>2, <3>3
  <2>7. iter' = Rest(h)
    <3>1. h \in 1..Len(DirectoryPlaces)
      BY <1>4, <2>4, <2>5
    <3>2. Straight(DirectoryWalk[h])
      BY <2>1, <2>3, <2>4, <3>1 DEF Suits
    <3> QED BY <1>1, <1>3, <2>3, <3>2, IterIs
  <2>8. file' \notin suspect' => h = 1 \/ View[h - 1].kind # "lfn"
    <3>1. h # 1 => View[h - 1] = disk[DirectoryWalk[h - 1]]
      <4>1. h # 1 => h - 1 \in 1..Len(DirectoryWalk)
        BY <2>4
      <4> QED BY <1>3, <4>1, ViewIs
    <3>2. file' \notin suspect' => ~BehindRemains(h)
      BY <1>1, <2>3
    <3> QED BY <2>4, <3>1, <3>2 DEF BehindRemains
  <2>9. Source(h, t)'
    <3>1. op' = "create" => \A i \in 1..Len(DirectoryWalk) : Stands(View, file', i) => i = t
      BY <2>2
    <3>2. ASSUME op' = "copy"
          PROVE  \E p \in 1..Len(DirectoryWalk) :
                    /\ NameAt(View, entry'.count, p, file')
                    /\ entry'.first = DirectoryWalk[p - entry'.count + 1]
                    /\ \A i \in (p - entry'.count + 1)..p : i \notin h..t
                    /\ file' \in File \ suspect' =>
                          \A i \in 1..Len(DirectoryWalk) : Stands(View, file', i) => i = p \/ i = t
      <4>1. PICK p \in 1..Len(DirectoryWalk) :
              /\ NameAt(View, entry'.count, p, file') /\ NoFree(View, p)
              /\ p - entry'.count + 1 \in 1..p
              /\ entry'.first = DirectoryWalk[p - entry'.count + 1]
              /\ file' \in File \ suspect =>
                    \A i \in 1..Len(DirectoryWalk) : Stands(View, file', i) => i = p
        BY <2>2, <3>2
      <4>2. ASSUME NEW i \in (p - entry'.count + 1)..p PROVE i \notin h..t
        <5>1. i = p \/ i \in (p - entry'.count + 1)..(p - 1)
          BY <2>4, <4>1
        <5>2. View[i].kind \in {"sfn", "lfn"}
          BY <4>1, <5>1 DEF NameAt, Stands
        <5> QED BY <2>6, <5>2 DEF IsHole
      <4> QED BY <1>5, <4>1, <4>2
    <3> QED BY <1>2, <3>1, <3>2 DEF Source, NameAt
  <2>10. Writing'
    <3>1. 1..(h - h) = {} /\ h >= 1 /\ h <= t + 1 /\ h \in Nat /\ h <= h
      BY <1>4, <2>5
    <3>2. todo' = SubSeq(EntriesOf(n, file'), h - h + 1, Len(n) + 1)
      <4> DEFINE E == EntriesOf(n, file')
      <4>1. E \in Seq(Content \ {FreeSlot}) /\ Len(E) = Len(n) + 1
        BY <1>4, EntriesAre
      <4>2. h - h + 1 = 1
        BY <2>3
      <4> HIDE DEF E
      <4>3. SubSeq(E, 1, Len(n) + 1) = E
        BY <1>4, <4>1
      <4> QED BY <1>1, <4>2, <4>3 DEF E
    <3>3. WritingAt(h, h, t)'
      BY <1>1, <1>2, <2>3, <2>5, <2>6, <2>7, <2>8, <2>9, <3>1, <3>2 DEF WritingAt
    <3> QED BY <3>1, <3>3 DEF Writing
  <2>11. KnownFiles'
    BY <1>1, <1>2, <2>1, <2>2 DEF PlacedOK, KnownFiles
  <2>12. Settled'
    <3> SUFFICES ASSUME NEW f \in File, f \notin suspect' PROVE KeptAs(View, names[f], f)
      BY <1>1, <1>2 DEF Settled, KeptAs, KeptIn
    <3> QED BY <1>1, <1>5, <2>1, AtRest
  <2>13. Somewhere'
    BY <1>1, <1>2, <2>1 DEF PlacedOK, Somewhere
  <2>14. OldPlaces'
    BY <1>1, <1>5, <2>1, <2>2, OldKept
  <2>15. Clearing' /\ Deleting' /\ Rewriting'
    BY <1>1, <1>5 DEF Clearing, Deleting, Rewriting
  <2> QED BY <1>2, <2>1, <2>10, <2>11, <2>12, <2>13, <2>14, <2>15 DEF PlacedOK
<1> QED BY <1>2, <1>3, <1>4, <1>6, <1>7, <1>8 DEF DirInv

\* A directory that grows or shrinks behind all of a file's entries keeps its name.
LEMMA KeptOn ==
    ASSUME NEW L \in Nat, NEW M \in Nat, NEW B \in Nat, B <= L, B <= M, NEW f, NEW n \in Name \union {<<>>},
           NEW D, NEW E, \A i \in 1..B : E[i] = D[i],
           \A i \in (B + 1)..L : ~Stands(D, f, i), \A i \in (B + 1)..M : ~Stands(E, f, i),
           KeptIn(D, L, n, f)
    PROVE  KeptIn(E, M, n, f)
<1>1. \A i \in 1..M : Stands(E, f, i) => i \in 1..B /\ i \in 1..L /\ Stands(D, f, i)
  <2> SUFFICES ASSUME NEW i \in 1..M, Stands(E, f, i) PROVE i \in 1..B /\ i \in 1..L /\ Stands(D, f, i)
    OBVIOUS
  <2>1. i \in 1..B
    <3> SUFFICES ASSUME i \notin 1..B PROVE FALSE
      OBVIOUS
    <3>1. i \in (B + 1)..M
      OBVIOUS
    <3> QED BY <3>1
  <2>2. i \in 1..L
    BY <2>1
  <2>3. E[i] = D[i]
    BY <2>1
  <2> QED BY <2>1, <2>2, <2>3 DEF Stands
<1>2. CASE n = <<>>
  BY <1>1, <1>2 DEF KeptIn
<1>3. CASE n # <<>>
  <2>1. PICK i \in 1..L : /\ Stands(D, f, i) /\ CleanAt(D, n, i)
                          /\ \A j \in 1..L : Stands(D, f, j) => j = i
    BY <1>3 DEF KeptIn
  <2>2. i \in 1..B
    <3> SUFFICES ASSUME i \notin 1..B PROVE FALSE
      OBVIOUS
    <3>1. i \in (B + 1)..L
      OBVIOUS
    <3> QED BY <2>1, <3>1
  <2>3. i \in 1..M /\ E[i] = D[i] /\ \A j \in 1..i : E[j] = D[j]
    BY <2>2
  <2>4. Len(n) \in Nat \ {0} /\ Len(n) < i
    BY <1>3, <2>1, NamesAre DEF CleanAt
  <2>5. CleanAt(E, n, i)
    <3> DEFINE l == Len(n)
    <3>1. l \in Nat \ {0} /\ l < i /\ i \in Nat
      BY <2>4
    <3>2. \A m \in 1..l : D[i - l - 1 + m] = Lfn(l + 1 - m, m = 1, n[l + 1 - m])
      BY <2>1 DEF CleanAt
    <3>3. i = l + 1 \/ D[i - l - 1].kind # "lfn"
      BY <2>1 DEF CleanAt
    <3> HIDE DEF l
    <3>4. \A m \in 1..l : i - l - 1 + m \in 1..i
      BY <3>1
    <3>5. i # l + 1 => i - l - 1 \in 1..i
      BY <3>1
    <3>6. \A m \in 1..l : E[i - l - 1 + m] = Lfn(l + 1 - m, m = 1, n[l + 1 - m])
      BY <2>3, <3>2, <3>4
    <3>7. i = l + 1 \/ E[i - l - 1].kind # "lfn"
      BY <2>3, <3>3, <3>5
    <3> QED BY <3>1, <3>6, <3>7 DEF CleanAt, l
  <2>6. Stands(E, f, i)
    BY <2>1, <2>3 DEF Stands
  <2> QED BY <1>1, <1>3, <2>1, <2>3, <2>5, <2>6 DEF KeptIn
<1> QED BY <1>2, <1>3

\* A place of the data area is in one of the blocks of its cluster,
LEMMA BlockRange ==
    ASSUME VolumeOK, NEW p \in Place, p >= RootSlots
    PROVE  BlockOf(p) \in 0..(blocks_per_cluster - 1)
<1>1. PICK r \in 0..(ClusterSlots - 1) : p = SlotOf(ClusterOf(p), r) /\ ClusterOf(p) \in Cluster
  BY PlaceSplit
<1>2. (p - RootSlots) % ClusterSlots = r
  BY <1>1, SlotIs
<1>3. EntriesPerBlock \in Nat \ {0} /\ blocks_per_cluster \in Nat \ {0}
      /\ ClusterSlots = blocks_per_cluster * EntriesPerBlock
  BY Sizes
<1>4. BlockOf(p) = r \div EntriesPerBlock
  BY <1>2 DEF BlockOf
<1> DEFINE i == r + 1
           N == blocks_per_cluster * EntriesPerBlock
<1>5. N \in Nat
  BY <1>3
<1>6. i \in 1..N /\ i - 1 = r
  <2>1. r \in 0..(N - 1)
    BY <1>3
  <2> HIDE DEF N
  <2> QED BY <1>5, <2>1
<1>7. \A x \in 1..(blocks_per_cluster * EntriesPerBlock) : (x - 1) \div EntriesPerBlock \in 0..(blocks_per_cluster - 1)
  BY <1>3, InCluster
<1> HIDE DEF i
<1>8. (i - 1) \div EntriesPerBlock \in 0..(blocks_per_cluster - 1)
  BY <1>6, <1>7 DEF N
<1> QED BY <1>4, <1>6, <1>8

\* and each block of a new cluster is to be cleared.
LEMMA FreshIs ==
    ASSUME NEW c, blocks_per_cluster \in Nat \ {0}
    PROVE  /\ Len(FreshOf(c)) = blocks_per_cluster /\ FreshOf(c) # <<>>
           /\ FreshOf(c) \in Seq({c} \X (0..(blocks_per_cluster - 1)))
           /\ \A i \in 1..blocks_per_cluster : FreshOf(c)[i] = <<c, i % blocks_per_cluster>>
           /\ \A b \in 0..(blocks_per_cluster - 1) : \E j \in 1..blocks_per_cluster : b = FreshOf(c)[j][2]
<1> DEFINE N == blocks_per_cluster
           F == [i \in 1..N |-> <<c, i % N>>]
<1>1. FreshOf(c) = F
  BY DEF FreshOf
<1>2. \A i \in 1..N : i % N \in 0..(N - 1)
  OBVIOUS
<1>3. F \in Seq({c} \X (0..(N - 1))) /\ Len(F) = N /\ \A i \in 1..N : F[i] = <<c, i % N>>
  BY <1>2
<1> HIDE DEF F
<1>4. ASSUME NEW b \in 0..(N - 1) PROVE \E j \in 1..N : b = F[j][2]
  <2>1. CASE b = 0
    <3>1. N % N = 0 /\ N \in 1..N
      OBVIOUS
    <3>2. F[N] = <<c, N % N>>
      BY <1>3, <3>1
    <3> QED BY <2>1, <3>1, <3>2
  <2>2. CASE b # 0
    <3>1. b % N = b /\ b \in 1..N
      BY <2>2
    <3>2. F[b] = <<c, b % N>>
      BY <1>3, <3>1
    <3> QED BY <3>1, <3>2
  <2> QED BY <2>1, <2>2
<1>5. F # <<>>
  BY <1>3
<1> QED BY <1>1, <1>3, <1>4, <1>5, ZenonT(30)

\* allocate_entries finds none and links a cluster.
LEMMA TakeClusterKeeps ==
    ASSUME DirInv, NEW n \in Name, BeginsName(n), TakeCluster(file')
    PROVE  DirInv'
<1>1. /\ op = "none" /\ op' \in {"create", "copy"} /\ name' = n /\ todo' = EntriesOf(n, file')
      /\ UNCHANGED <<volume, disk>> /\ names' = names /\ ~old_root /\ iter' = iter
      /\ misplaced' = \/ misplaced \/ Len(todo') > ClusterSlots
                      \/ \E p \in ToSet(DirectoryWalk) : disk[p].kind = "free"
      /\ suspect' = IF BehindRemains(Len(DirectoryWalk) + 1) THEN suspect \union {file'} ELSE suspect
  BY DEF BeginsName, TakeCluster
<1>2. PICK c \in FreeClusters(fat) :
          /\ fat' = [fat EXCEPT ![Last(ChainFrom(start))] = c, ![c] = EndOfChain]
          /\ fresh' = FreshOf(c)
  BY DEF TakeCluster, FreshOf
<1>3. VolumeOK /\ TypeOK /\ CallOK /\ FreshOK /\ (~misplaced => PlacedOK) /\ DiskOK
  BY DiskTyped DEF DirInv
<1>4. CallOK' /\ file' \in File \union {Old, Dot, "none"} /\ Len(todo') = Len(n) + 1 /\ Len(n) \in Nat \ {0}
  BY BegunCall
<1> DEFINE L == Len(DirectoryWalk)
<1>5. c \in Cluster /\ fat[c] = Free
  BY DEF FreeClusters
<1>6. /\ VolumeOK' /\ Len(Clusters') = Len(Clusters) + 1 /\ Clusters'[Len(Clusters')] = c
      /\ Len(Clusters) >= 1 /\ Clusters' = Append(Clusters, c)
      /\ Len(DirectoryWalk') = L + ClusterSlots /\ DirectoryWalk' \in Seq(Place)
      /\ \A i \in 1..L : DirectoryWalk'[i] = DirectoryWalk[i]
      /\ \A r \in 0..(ClusterSlots - 1) : DirectoryWalk'[L + r + 1] = SlotOf(c, r)
      /\ \A i \in (L + 1)..Len(DirectoryWalk'), j \in 1..L : DirectoryWalk[j] # DirectoryWalk'[i]
      /\ ClusterSlots' = ClusterSlots /\ Place' = Place /\ RootSlots' = RootSlots
  BY <1>1, <1>2, <1>3, <1>5, Grown
<1>7. blocks_per_cluster' = blocks_per_cluster /\ old_root' = old_root /\ start' = start /\ disk' = disk
  BY <1>1 DEF volume
<1>8. fat' \in Table
  BY <1>6 DEF VolumeOK
<1>9. TypeOK'
  BY <1>1, <1>3, <1>4, <1>6, <1>7, <1>8 DEF TypeOK
<1>10. L \in Nat \ {0} /\ ClusterSlots \in Nat \ {0} /\ blocks_per_cluster \in Nat \ {0} /\ Len(Clusters) \in Nat
  <2>1. ClusterSlots \in Nat \ {0} /\ blocks_per_cluster \in Nat \ {0}
    BY <1>3, Sizes
  <2>2. Len(Clusters) \in Nat
    BY <1>1, <1>3, ChainIs DEF ChainOK
  <2> QED BY <1>3, <2>1, <2>2, WalkIs
<1>11. /\ Len(FreshOf(c)) = blocks_per_cluster /\ FreshOf(c) # <<>>
       /\ FreshOf(c) \in Seq({c} \X (0..(blocks_per_cluster - 1)))
       /\ \A b \in 0..(blocks_per_cluster - 1) : \E j \in 1..blocks_per_cluster : b = FreshOf(c)[j][2]
  BY <1>10, FreshIs
<1>12. FreshOK'
  <2>1. FreshOf(c)' = FreshOf(c)
    BY <1>7 DEF FreshOf
  <2>2. SubSeq(FreshOf(c), 1, blocks_per_cluster) = FreshOf(c)
    <3> DEFINE F == FreshOf(c)
    <3>1. F \in Seq({c} \X (0..(blocks_per_cluster - 1))) /\ Len(F) = blocks_per_cluster
      BY <1>11
    <3> HIDE DEF F
    <3>2. SubSeq(F, 1, blocks_per_cluster) = F
      BY <1>10, <3>1
    <3> QED BY <3>2 DEF F
  <2>3. 1 \in 1..blocks_per_cluster
    BY <1>10
  <2>4. (FreshOf(Clusters[Len(Clusters)]))' = FreshOf(c)
    BY <1>6, <1>7 DEF FreshOf
  <2>5. Len(Clusters') >= 2
    BY <1>6, <1>10
  <2>6. fresh' = SubSeq((FreshOf(Clusters[Len(Clusters)]))', 1, blocks_per_cluster')
    BY <1>2, <1>7, <2>2, <2>4
  <2> QED BY <1>1, <1>7, <2>3, <2>5, <2>6 DEF FreshOK
<1>13. ASSUME ~misplaced' PROVE PlacedOK'
  <2>1. PlacedOK /\ ~misplaced /\ Len(n) + 1 <= ClusterSlots
    <3>1. ~misplaced /\ ~(Len(todo') > ClusterSlots)
      BY <1>1, <1>13
    <3>2. PlacedOK
      BY <1>3, <3>1
    <3>3. Len(n) + 1 <= ClusterSlots
      BY <1>4, <1>10, <3>1
    <3> QED BY <3>1, <3>2, <3>3
  <2>2. suspect \subseteq suspect' /\ (file' \notin suspect' => ~BehindRemains(L + 1))
    BY <1>1
  <2>3. /\ file' \in File \union {Old, Dot}
        /\ Old \notin suspect => file' # Old
        /\ op' = "create" => file' \in File /\ \A i \in 1..L : ~Stands(View, file', i)
        /\ op' = "copy" => \E p \in 1..L :
              /\ NameAt(View, entry'.count, p, file') /\ NoFree(View, p)
              /\ p - entry'.count + 1 \in 1..p
              /\ entry'.first = DirectoryWalk[p - entry'.count + 1]
              /\ file' \in File \ suspect =>
                    \A i \in 1..L : Stands(View, file', i) => i = p
    BY <1>1, <1>4, <2>1, BegunFile DEF CallOK
  <2>4. \A i \in 1..Len(DirectoryWalk') : View'[i] = disk[DirectoryWalk'[i]]
    BY <1>7 DEF View
  <2>5. \A i \in 1..L : View'[i] = View[i] /\ i \in 1..Len(DirectoryWalk')
    <3>1. \A i \in 1..L : View[i] = disk[DirectoryWalk[i]]
      BY <1>3, ViewIs
    <3> HIDE DEF L
    <3>2. \A i \in 1..L : i \in 1..Len(DirectoryWalk')
      BY <1>6, <1>10
    <3> QED BY <1>6, <2>4, <3>1, <3>2 DEF L
  <2>6. ASSUME NEW i \in (L + 1)..Len(DirectoryWalk')
        PROVE  /\ View'[i].kind = "free" \/ Stands(View', Old, i)
               /\ \E j \in 1..blocks_per_cluster : BlockOf(DirectoryWalk'[i]) = FreshOf(c)[j][2]
    <3> HIDE DEF L
    <3>1. i \in 1..Len(DirectoryWalk') /\ i - L - 1 \in 0..(ClusterSlots - 1) /\ i = L + (i - L - 1) + 1
      BY <1>6, <1>10
    <3>2. DirectoryWalk'[i] = SlotOf(c, i - L - 1)
      BY <1>6, <3>1 DEF L
    <3>3. DirectoryWalk'[i] \in Place /\ DirectoryWalk'[i] >= RootSlots
      BY <1>3, <1>5, <3>1, <3>2, SlotIs
    <3>4. BlockOf(DirectoryWalk'[i]) \in 0..(blocks_per_cluster - 1)
      BY <1>3, <3>3, BlockRange
    <3>5. \A j \in 1..Len(DirectoryWalk) : DirectoryWalk[j] # DirectoryWalk'[i]
      BY <1>6 DEF L
    <3>6. disk[DirectoryWalk'[i]].kind = "free" \/ (disk[DirectoryWalk'[i]].kind = "sfn" /\ disk[DirectoryWalk'[i]].file = Old)
      BY <2>1, <3>3, <3>5 DEF PlacedOK, Loose
    <3>7. View'[i] = disk[DirectoryWalk'[i]]
      BY <2>4, <3>1
    <3> QED BY <1>11, <3>4, <3>6, <3>7 DEF Stands
  <2>7. \A i \in 1..Len(DirectoryWalk') : i \in 1..L \/ i \in (L + 1)..Len(DirectoryWalk')
    <3> HIDE DEF L
    <3> QED BY <1>6, <1>10
  <2>8. \A f : f # Old => \A i \in (L + 1)..Len(DirectoryWalk') : ~Stands(View', f, i)
    BY <2>6 DEF Stands
  <2>9. NoFree(View, L)
    <3> SUFFICES ASSUME NEW i \in 1..Len(DirectoryWalk) PROVE View[i].kind # "free"
      BY DEF NoFree
    <3>1. View[i] = disk[DirectoryWalk[i]]
      BY <1>3, ViewIs
    <3>2. DirectoryWalk[i] \in ToSet(DirectoryWalk)
      <4>1. DirectoryWalk \in Seq(Place)
        BY <1>3, WalkIs
      <4>2. \A q : \A w \in Seq(q) : \A x \in 1..Len(w) : w[x] \in ToSet(w)
        BY DEF ToSet
      <4> QED BY <4>1, <4>2
    <3> QED BY <1>1, <1>13, <3>1, <3>2
  <2>10. Loose'
    <3> SUFFICES ASSUME NEW p \in Place, \A i \in 1..Len(DirectoryWalk') : DirectoryWalk'[i] # p
                 PROVE  disk[p].kind = "free" \/ (disk[p].kind = "sfn" /\ disk[p].file = Old)
      BY <1>6, <1>7 DEF Loose
    <3>1. \A i \in 1..L : DirectoryWalk[i] # p
      BY <1>6, <2>5
    <3> QED BY <2>1, <3>1 DEF PlacedOK, Loose
  <2>11. KnownFiles'
    <3> SUFFICES ASSUME NEW i \in 1..Len(DirectoryWalk'), View'[i].kind = "sfn" PROVE View'[i].file \in File \union {Old, Dot}
      BY <2>3 DEF KnownFiles
    <3>1. CASE i \in 1..L
      BY <2>1, <2>5, <3>1 DEF PlacedOK, KnownFiles
    <3>2. CASE i \in (L + 1)..Len(DirectoryWalk')
      BY <2>6, <3>2 DEF Stands
    <3> QED BY <2>7, <3>1, <3>2
  <2>12. Visible'
    <3> SUFFICES ASSUME NEW i \in 1..Len(DirectoryWalk'), View'[i].kind = "sfn", View'[i].file \in File PROVE NoFree(View', i)
      BY DEF Visible
    <3>1. CASE i \in 1..L
      <4>1. \A j \in 1..i : j \in 1..L
        BY <1>10, <3>1
      <4>2. NoFree(View, i)
        BY <2>1, <2>5, <3>1 DEF PlacedOK, Visible
      <4> QED BY <2>5, <4>1, <4>2 DEF NoFree
    <3>2. CASE i \in (L + 1)..Len(DirectoryWalk')
      BY <2>6, <3>2, DirectoryAssumption DEF Stands
    <3> QED BY <2>7, <3>1, <3>2
  <2>13. Settled'
    <3> SUFFICES ASSUME NEW f \in File, f \notin suspect' PROVE KeptIn(View', Len(DirectoryWalk'), names[f], f)
      BY <1>1 DEF Settled, KeptAs, KeptIn
    <3>1. KeptIn(View, L, names[f], f)
      BY <1>1, <2>1, <2>2, AtRest DEF KeptAs
    <3>2. names[f] \in Name \union {<<>>} /\ f # Old
      BY <1>3, DirectoryAssumption DEF TypeOK
    <3>3. \A i \in (L + 1)..Len(DirectoryWalk') : ~Stands(View', f, i)
      BY <2>8, <3>2
    <3>4. L <= Len(DirectoryWalk') /\ Len(DirectoryWalk') \in Nat /\ L \in Nat /\ L <= L /\ (L + 1)..L = {}
      <4> HIDE DEF L
      <4> QED BY <1>6, <1>10
    <3>5. \A i \in 1..L : View'[i] = View[i]
      BY <2>5
    <3>6. \A i \in (L + 1)..L : ~Stands(View, f, i)
      BY <3>4
    <3> HIDE DEF L
    <3>7. ASSUME NEW M \in Nat, M = Len(DirectoryWalk'), NEW E, E = View' PROVE KeptIn(E, M, names[f], f)
      BY <3>1, <3>2, <3>3, <3>4, <3>5, <3>6, <3>7, KeptOn
    <3> QED BY <3>4, <3>7
  <2>14. Somewhere'
    <3> SUFFICES ASSUME NEW f \in File, names[f] # <<>> PROVE \E i \in 1..Len(DirectoryWalk') : Stands(View', f, i)
      BY <1>1 DEF Somewhere
    <3>1. PICK i \in 1..L : Stands(View, f, i)
      BY <1>1, <2>1 DEF PlacedOK, Somewhere
    <3> QED BY <2>5, <3>1 DEF Stands
  <2>15. Before' = L
    <3> HIDE DEF L
    <3>1. Before' = Len(DirectoryWalk') - ClusterSlots
      BY <1>6 DEF Before
    <3> QED BY <1>6, <1>10, <3>1
  <2>16. OldPlaces'
    <3> SUFFICES ASSUME Old \notin suspect'
                 PROVE  (\A i \in 1..Len(DirectoryWalk') : Stands(View', Old, i) => i > L) /\ file' # Old
      BY <1>1, <1>2, <1>7, <1>11, <2>15 DEF OldPlaces
    <3>1. Old \notin suspect
      BY <2>2
    <3>2. \A i \in 1..L : ~Stands(View, Old, i)
      BY <1>1, <2>1, <3>1, AtRest
    <3>3. \A i \in 1..L : ~Stands(View', Old, i)
      BY <2>5, <3>2 DEF Stands
    <3>4. \A i \in (L + 1)..Len(DirectoryWalk') : i > L
      <4> HIDE DEF L
      <4> QED BY <1>10
    <3> QED BY <2>3, <2>7, <3>1, <3>3, <3>4
  <2>20. PICK a \in Nat, t \in Nat : a = L + 1 /\ t = Len(DirectoryWalk')
    <3>1. L \in Nat /\ Len(n) \in Nat
      BY <1>4, <1>10
    <3> HIDE DEF L
    <3>2. L + 1 \in Nat /\ Len(DirectoryWalk') \in Nat
      BY <1>6, <1>10, <3>1
    <3> QED BY <3>2
  <2>17. Source(a, t)'
    <3>1. op' = "create" => \A i \in 1..Len(DirectoryWalk') : ~Stands(View', file', i)
      <4> SUFFICES ASSUME op' = "create", NEW i \in 1..Len(DirectoryWalk') PROVE ~Stands(View', file', i)
        OBVIOUS
      <4>1. CASE i \in 1..L
        BY <2>3, <2>5, <4>1 DEF Stands
      <4>2. CASE i \in (L + 1)..Len(DirectoryWalk')
        BY <2>3, <2>8, <4>2, DirectoryAssumption
      <4> QED BY <2>7, <4>1, <4>2
    <3>2. ASSUME op' = "copy"
          PROVE  \E p \in 1..Len(DirectoryWalk') :
                    /\ NameAt(View, entry.count, p, file)'
                    /\ entry'.first = DirectoryWalk'[p - entry'.count + 1]
                    /\ \A i \in (p - entry'.count + 1)..p : i \notin a..t
                    /\ file' \in File \ suspect' => \A i \in 1..Len(DirectoryWalk') : Stands(View', file', i) => i = p
      <4>1. PICK p \in 1..L :
              /\ NameAt(View, entry'.count, p, file') /\ NoFree(View, p)
              /\ p - entry'.count + 1 \in 1..p
              /\ entry'.first = DirectoryWalk[p - entry'.count + 1]
              /\ file' \in File \ suspect => \A i \in 1..L : Stands(View, file', i) => i = p
        BY <2>3, <3>2
      <4>2. p \in 1..Len(DirectoryWalk')
        BY <2>5
      <4>3. p - entry'.count + 1 \in 1..L /\ \A i \in (p - entry'.count + 1)..p : i \in 1..L
        <5> HIDE DEF L
        <5> QED BY <1>10, <4>1
      <4>4. entry'.first = DirectoryWalk'[p - entry'.count + 1]
        BY <1>6, <4>1, <4>3
      <4>5. NameAt(View, entry.count, p, file)'
        <5>1. entry'.count \in 1..p /\ Stands(View, file', p) /\ \A j \in (p - entry'.count + 1)..(p - 1) : View[j].kind = "lfn"
          BY <4>1 DEF NameAt
        <5>2. Stands(View', file', p)
          BY <2>5, <5>1 DEF Stands
        <5>3. \A j \in (p - entry'.count + 1)..(p - 1) : View'[j].kind = "lfn"
          <6>1. \A j \in (p - entry'.count + 1)..(p - 1) : j \in 1..L
            <7> HIDE DEF L
            <7> QED BY <1>10, <4>1
          <6> QED BY <2>5, <5>1, <6>1
        <5> QED BY <4>2, <5>1, <5>2, <5>3 DEF NameAt
      <4>6. \A i \in (p - entry'.count + 1)..p : i \notin a..t
        <5>1. \A i \in 1..L : i \notin a..t
          <6> HIDE DEF L
          <6> QED BY <1>10, <2>20
        <5> QED BY <4>3, <5>1
      <4>7. ASSUME file' \in File \ suspect', NEW i \in 1..Len(DirectoryWalk'), Stands(View', file', i) PROVE i = p
        <5>1. i \in 1..L
          BY <2>7, <2>8, <4>7, DirectoryAssumption
        <5>2. Stands(View, file', i)
          BY <2>5, <4>7, <5>1 DEF Stands
        <5> QED BY <2>2, <4>1, <4>7, <5>1, <5>2
      <4> QED BY <4>2, <4>4, <4>5, <4>6, <4>7
    <3> QED BY <1>1, <3>1, <3>2 DEF Source
  <2>18. Clearing'
    <3>1. NoFree(View', L)
      BY <2>5, <2>9 DEF NoFree
    <3>2. file' \notin suspect' => View'[L].kind # "lfn"
      <4>1. L \in 1..L /\ L + 1 > 1 /\ (L + 1) - 1 = L
        <5> HIDE DEF L
        <5> QED BY <1>10
      <4>2. file' \notin suspect' => disk[DirectoryWalk[L]].kind # "lfn"
        BY <2>2, <4>1 DEF BehindRemains
      <4>3. View'[L] = disk[DirectoryWalk[L]]
        BY <1>3, <2>5, <4>1, ViewIs
      <4> QED BY <4>2, <4>3
    <3>3. Len(todo') <= ClusterSlots'
      BY <1>4, <1>6, <2>1
    <3>4. \A p : BlockOf(p)' = BlockOf(p)
      BY <1>6 DEF BlockOf
    <3>5. \A i \in (L + 1)..Len(DirectoryWalk') :
              \/ View'[i].kind = "free"
              \/ /\ Stands(View', Old, i)
                 /\ \E j \in 1..Len(fresh') : (BlockOf(DirectoryWalk[i]))' = fresh'[j][2]
      BY <1>2, <1>6, <1>11, <2>6 DEF BlockOf
    <3> HIDE DEF L
    <3>6. Source(Before + 1, Len(DirectoryWalk))'
      <4>1. Before' + 1 = a /\ Len(DirectoryWalk') = t
        BY <2>15, <2>20
      <4> QED BY <4>1, <2>17 DEF Source
    <3>7. NoFree(View, Before)' /\ (file' \notin suspect' => View'[Before'].kind # "lfn")
      BY <2>15, <3>1, <3>2
    <3>8. (\A i \in (Before + 1)..Len(DirectoryWalk) :
              \/ View[i].kind = "free"
              \/ /\ Stands(View, Old, i)
                 /\ \E j \in 1..Len(fresh) : BlockOf(DirectoryWalk[i]) = fresh[j][2])'
      BY <2>15, <3>5
    <3> QED BY <3>3, <3>6, <3>7, <3>8 DEF Clearing
  <2>19. Writing' /\ Deleting' /\ Rewriting'
    BY <1>1, <1>2, <1>11 DEF Writing, Deleting, Rewriting
  <2> QED BY <2>10, <2>11, <2>12, <2>13, <2>14, <2>16, <2>18, <2>19 DEF PlacedOK
<1> QED BY <1>6, <1>9, <1>4, <1>12, <1>13 DEF DirInv

\* create_file begins.
LEMMA BeginCreateKeeps == ASSUME DirInv, NEW n \in Name, BeginCreate(n) PROVE DirInv'
<1>1. BeginsName(n) /\ \E k \in {0, 1} : AllocateEntries(file', k)
  BY DEF BeginCreate, BeginsName
<1> QED BY <1>1, TakeHoleKeeps, TakeClusterKeeps DEF AllocateEntries

\* rename begins, in place or by copy.
LEMMA BeginRenameKeeps == ASSUME DirInv, NEW o \in Name, NEW n \in Name, BeginRename(o, n) PROVE DirInv'
<1>1. CASE InPlace(Find(o), n)
  BY <1>1, BeginRewriteKeeps DEF BeginRename
<1>2. CASE ~InPlace(Find(o), n)
  <2>1. BeginsName(n) /\ \E k \in {0, 1} : AllocateEntries(file', k)
    BY <1>2 DEF BeginRename, BeginsName
  <2> QED BY <2>1, TakeHoleKeeps, TakeClusterKeeps DEF AllocateEntries
<1> QED BY <1>1, <1>2

(***************************************************************************)
(* A cluster is cleared                                                    *)
(***************************************************************************)
\* The blocks to be cleared are the last ones of the list.
LEMMA FreshFrom ==
    ASSUME NEW c, blocks_per_cluster \in Nat \ {0}, NEW m \in 1..blocks_per_cluster,
           NEW q, q = SubSeq(FreshOf(c), m, blocks_per_cluster)
    PROVE  /\ Len(q) = blocks_per_cluster - m + 1 /\ q # <<>>
           /\ Head(q) = <<c, m % blocks_per_cluster>> /\ m % blocks_per_cluster \in 0..(blocks_per_cluster - 1)
           /\ m = blocks_per_cluster => Tail(q) = <<>>
           /\ m # blocks_per_cluster =>
                 /\ m + 1 \in 1..blocks_per_cluster
                 /\ Tail(q) = SubSeq(FreshOf(c), m + 1, blocks_per_cluster)
           /\ Len(Tail(q)) = Len(q) - 1 /\ Len(q) \in Nat \ {0}
           /\ \A j \in 1..(Len(q) - 1) : Tail(q)[j] = q[j + 1]
           /\ q[1] = Head(q)
<1> DEFINE N == blocks_per_cluster
           F == FreshOf(c)
           S == {c} \X (0..(N - 1))
<1>1. F \in Seq(S) /\ Len(F) = N /\ \A i \in 1..N : F[i] = <<c, i % N>>
  BY FreshIs
<1> HIDE DEF F, S
<1>2. q \in Seq(S) /\ Len(q) = N - m + 1 /\ Head(q) = F[m] /\ Tail(q) = SubSeq(F, m + 1, N) /\ q # <<>>
  <2>1. m \in 1..(Len(F) + 1) /\ N \in 0..Len(F) /\ m <= N + 1 /\ m <= N
    BY <1>1
  <2>2. q = SubSeq(F, m, N)
    BY DEF F
  <2> HIDE DEF F
  <2>3. F \in Seq(S) /\ m \in 1..(Len(F) + 1) /\ N \in 0..Len(F) /\ m <= N + 1 /\ m <= N /\ N \in Nat
    BY <1>1, <2>1
  <2> HIDE DEF N
  <2>4. /\ SubSeq(F, m, N) \in Seq(S) /\ Len(SubSeq(F, m, N)) = N - m + 1
        /\ SubSeq(F, m, N) # <<>> /\ Head(SubSeq(F, m, N)) = F[m]
        /\ Tail(SubSeq(F, m, N)) = SubSeq(F, m + 1, N)
    BY ONLY <2>3, SubSeqIs
  <2> QED BY <2>2, <2>4
<1>3. m % N \in 0..(N - 1)
  OBVIOUS
<1>4. Len(q) \in Nat \ {0} /\ Len(Tail(q)) = Len(q) - 1 /\ \A j \in 1..(Len(q) - 1) : Tail(q)[j] = q[j + 1]
  BY <1>2
<1>5. q[1] = Head(q)
  BY <1>2
<1>6. m = N => Tail(q) = <<>>
  <2>1. m = N => Len(Tail(q)) = 0 /\ Tail(q) \in Seq(S)
    BY <1>2, <1>4
  <2> QED BY <2>1
<1>7. m # N => m + 1 \in 1..N
  OBVIOUS
<1> QED BY <1>1, <1>2, <1>3, <1>4, <1>5, <1>6, <1>7 DEF F

\* clean_cluster_data clears a block.
LEMMA CleanKeeps == ASSUME DirInv, Clean PROVE DirInv'
<1> DEFINE L == Len(DirectoryWalk)
           B == Before
           c == Clusters[Len(Clusters)]
<1>1. /\ fresh # <<>> /\ fresh' = Tail(fresh)
      /\ iter' = IF Len(fresh) = 1 THEN IterFrom(FirstPlace(Head(fresh)[1])) ELSE iter
      /\ disk' = [p \in Place |-> IF Contains(BlockPlaces(Head(fresh)[1], Head(fresh)[2]), p) THEN FreeSlot ELSE disk[p]]
      /\ UNCHANGED <<volume, fat>> /\ op' = op /\ name' = name /\ entry' = entry /\ file' = file /\ todo' = todo
      /\ names' = names /\ suspect' = suspect /\ misplaced' = misplaced
  BY DEF Clean, history
<1>2. VolumeOK /\ TypeOK /\ CallOK /\ FreshOK /\ (~misplaced => PlacedOK) /\ DiskOK
  BY DiskTyped DEF DirInv
<1>3. /\ DirectoryWalk' = DirectoryWalk /\ DirectoryPlaces' = DirectoryPlaces
      /\ Place' = Place /\ ClusterSlots' = ClusterSlots /\ RootSlots' = RootSlots
      /\ Clusters' = Clusters /\ Before' = Before
      /\ \A k : Rest(k)' = Rest(k)
      /\ \A p : BlockOf(p)' = BlockOf(p)
      /\ old_root' = old_root /\ start' = start /\ blocks_per_cluster' = blocks_per_cluster /\ fat' = fat
  BY <1>1, SameWalk DEF volume, Clusters, Before
<1>4. VolumeOK'
  BY <1>2, <1>3 DEF VolumeOK
<1>5. /\ op \in {"create", "copy"} /\ ~old_root /\ Len(Clusters) >= 2 /\ todo = EntriesOf(name, file)
      /\ \E m \in 1..blocks_per_cluster : fresh = SubSeq(FreshOf(c), m, blocks_per_cluster)
  BY <1>1, <1>2 DEF FreshOK
<1>6. blocks_per_cluster \in Nat \ {0} /\ ClusterSlots \in Nat \ {0}
  BY <1>2, Sizes
<1>7. PICK m \in 1..blocks_per_cluster : fresh = SubSeq(FreshOf(c), m, blocks_per_cluster)
  BY <1>5
<1>8. /\ c \in Cluster /\ B \in Nat /\ B >= 1 /\ B + ClusterSlots = L /\ DirectoryWalk[B + 1] = FirstPlace(c)
  BY <1>2, <1>5, LastPlaces
<1> HIDE DEF L, B, c
<1>9. /\ Head(fresh) = <<c, m % blocks_per_cluster>> /\ m % blocks_per_cluster \in 0..(blocks_per_cluster - 1)
      /\ Len(fresh) = blocks_per_cluster - m + 1
      /\ m = blocks_per_cluster => fresh' = <<>>
      /\ m # blocks_per_cluster =>
            /\ m + 1 \in 1..blocks_per_cluster
            /\ fresh' = SubSeq(FreshOf(c), m + 1, blocks_per_cluster)
      /\ Len(fresh') = Len(fresh) - 1 /\ Len(fresh) \in Nat \ {0}
      /\ \A j \in 1..(Len(fresh) - 1) : fresh'[j] = fresh[j + 1]
      /\ fresh[1] = <<c, m % blocks_per_cluster>>
  BY <1>1, <1>6, <1>7, FreshFrom
<1>10. PICK b \in 0..(blocks_per_cluster - 1) : b = m % blocks_per_cluster
  BY <1>9
<1>11. /\ disk' \in [Place -> Content]
       /\ \A i \in 1..B : View'[i] = View[i]
       /\ \A i \in (B + 1)..L : View'[i] = IF BlockOf(DirectoryWalk[i]) = b THEN FreeSlot ELSE View[i]
       /\ \A p \in Place : disk'[p] = FreeSlot \/ disk'[p] = disk[p]
  <2>1. Head(fresh)[1] = Clusters[Len(Clusters)] /\ Head(fresh)[2] = b
    BY <1>9, <1>10 DEF c
  <2>2. disk' = [p \in Place |-> IF Contains(BlockPlaces(Clusters[Len(Clusters)], b), p) THEN FreeSlot ELSE disk[p]]
    BY <1>1, <2>1
  <2> QED BY <1>1, <1>2, <1>5, <2>2, Cleared DEF L, B
<1>12. TypeOK'
  <2>1. disk' \in [Place' -> {FreeSlot, Deleted} \union LfnEntry \union SfnEntry]
    BY <1>3, <1>11 DEF Content
  <2> QED BY <1>1, <1>2, <1>3, <1>5, <2>1 DEF TypeOK
<1>13. CallOK'
  <2>1. Finding' = Finding
    BY <1>3 DEF Finding
  <2> QED BY <1>1, <1>2, <2>1 DEF CallOK
<1>14. fresh' # <<>> => m # blocks_per_cluster
  BY <1>9
<1>15. FreshOK'
  <2>1. (FreshOf(Clusters[Len(Clusters)]))' = FreshOf(c)
    BY <1>3 DEF FreshOf, c
  <2> QED BY <1>1, <1>3, <1>5, <1>9, <1>14, <2>1 DEF FreshOK
<1>16. ASSUME ~misplaced' PROVE PlacedOK'
  <2>1. PlacedOK
    BY <1>1, <1>2, <1>16
  <2>2. /\ Len(todo) <= ClusterSlots /\ NoFree(View, B)
        /\ \A i \in (B + 1)..L :
              \/ View[i].kind = "free"
              \/ /\ Stands(View, Old, i)
                 /\ \E j \in 1..Len(fresh) : BlockOf(DirectoryWalk[i]) = fresh[j][2]
        /\ file \notin suspect => View[B].kind # "lfn"
        /\ Source(B + 1, L)
    BY <1>1, <2>1 DEF PlacedOK, Clearing, B, L
  <2>3. FreeSlot.kind = "free"
    BY DEF FreeSlot
  <2>4. \A i \in (B + 1)..L :
              \/ View'[i].kind = "free"
              \/ /\ Stands(View', Old, i) /\ Stands(View, Old, i)
                 /\ \E j \in 1..Len(fresh') : BlockOf(DirectoryWalk[i]) = fresh'[j][2]
    <3> SUFFICES ASSUME NEW i \in (B + 1)..L, View'[i].kind # "free"
                 PROVE  /\ Stands(View', Old, i) /\ Stands(View, Old, i)
                        /\ \E j \in 1..Len(fresh') : BlockOf(DirectoryWalk[i]) = fresh'[j][2]
      OBVIOUS
    <3>1. BlockOf(DirectoryWalk[i]) # b /\ View'[i] = View[i]
      BY <1>11, <2>3
    <3>2. Stands(View, Old, i) /\ \E j \in 1..Len(fresh) : BlockOf(DirectoryWalk[i]) = fresh[j][2]
      BY <2>2, <3>1
    <3>3. PICK j \in 1..Len(fresh) : BlockOf(DirectoryWalk[i]) = fresh[j][2]
      BY <3>2
    <3>4. j # 1
      BY <1>9, <1>10, <3>1, <3>3
    <3>5. j - 1 \in 1..(Len(fresh) - 1) /\ (j - 1) + 1 = j
      BY <1>9, <3>4
    <3>6. fresh'[j - 1] = fresh[j] /\ j - 1 \in 1..Len(fresh')
      BY <1>9, <3>5
    <3> QED BY <3>1, <3>2, <3>3, <3>6 DEF Stands
  <2>5. \A i \in 1..L : i \in 1..B \/ i \in (B + 1)..L
    BY <1>6, <1>8
  <2>6. \A i \in 1..B : i \in 1..L
    BY <1>6, <1>8
  <2>7. \A f : f # Old => \A i \in (B + 1)..L : ~Stands(View', f, i) /\ ~Stands(View, f, i)
    BY <2>2, <2>4 DEF Stands
  <2>8. Loose'
    BY <1>3, <1>11, <2>1, <2>3 DEF PlacedOK, Loose
  <2>9. KnownFiles'
    <3> SUFFICES ASSUME NEW i \in 1..L, View'[i].kind = "sfn" PROVE View'[i].file \in File \union {Old, Dot}
      BY <1>1, <1>3, <2>1 DEF PlacedOK, KnownFiles, L
    <3>1. CASE i \in 1..B
      BY <1>11, <2>1, <3>1 DEF PlacedOK, KnownFiles, L
    <3>2. CASE i \in (B + 1)..L
      BY <2>4, <3>2 DEF Stands
    <3> QED BY <2>5, <3>1, <3>2
  <2>10. Visible'
    <3> SUFFICES ASSUME NEW i \in 1..L, View'[i].kind = "sfn", View'[i].file \in File PROVE NoFree(View', i)
      BY <1>3 DEF Visible, L
    <3>1. CASE i \in 1..B
      <4>1. \A j \in 1..i : j \in 1..B
        BY <1>8, <3>1
      <4>2. NoFree(View, i)
        BY <1>11, <2>1, <3>1 DEF PlacedOK, Visible, L
      <4> QED BY <1>11, <4>1, <4>2 DEF NoFree
    <3>2. CASE i \in (B + 1)..L
      BY <2>4, <3>2, DirectoryAssumption DEF Stands
    <3> QED BY <2>5, <3>1, <3>2
  <2>11. Settled'
    <3> SUFFICES ASSUME NEW f \in File, f \notin suspect, Resting(f) PROVE KeptIn(View', L, names[f], f)
      BY <1>1, <1>3 DEF Settled, KeptAs, KeptIn, Resting, L
    <3>1. KeptIn(View, L, names[f], f)
      BY <2>1 DEF PlacedOK, Settled, KeptAs, L
    <3>2. names[f] \in Name \union {<<>>} /\ f # Old
      BY <1>2, DirectoryAssumption DEF TypeOK
    <3>3. B \in Nat /\ L \in Nat /\ B <= L
      BY <1>6, <1>8
    <3>4. (\A i \in (B + 1)..L : ~Stands(View', f, i)) /\ (\A i \in (B + 1)..L : ~Stands(View, f, i))
      BY <2>7, <3>2
    <3>5. ASSUME NEW E, E = View' PROVE KeptIn(E, L, names[f], f)
      BY <1>11, <3>1, <3>2, <3>3, <3>4, <3>5, KeptOn
    <3> QED BY <3>5
  <2>12. Somewhere'
    <3> SUFFICES ASSUME NEW f \in File, names[f] # <<>>, ~(op = "delete" /\ f = file) PROVE \E i \in 1..L : Stands(View', f, i)
      BY <1>1, <1>3 DEF Somewhere, L
    <3>1. PICK i \in 1..L : Stands(View, f, i)
      BY <2>1 DEF PlacedOK, Somewhere, L
    <3>2. i \in 1..B
      BY <2>5, <2>7, <3>1, DirectoryAssumption
    <3> QED BY <1>11, <3>1, <3>2 DEF Stands
  <2>13. ASSUME fresh' = <<>>, NEW i \in (B + 1)..L PROVE View'[i].kind = "free"
    <3>1. Len(fresh') = 0
      BY <2>13
    <3>2. 1..Len(fresh') = {}
      BY <3>1
    <3> QED BY <2>4, <3>2
  <2>14. OldPlaces'
    <3> SUFFICES ASSUME Old \notin suspect
                 PROVE  (\A i \in 1..L : Stands(View', Old, i) => fresh' # <<>> /\ i > B) /\ (op # "none" => file # Old)
      BY <1>1, <1>3, <1>5 DEF OldPlaces, L, B
    <3>1. (\A i \in 1..L : Stands(View, Old, i) => i > B) /\ (op # "none" => file # Old)
      BY <1>5, <2>1 DEF PlacedOK, OldPlaces, L, B
    <3>2. ASSUME NEW i \in 1..L, Stands(View', Old, i) PROVE fresh' # <<>> /\ i > B
      <4>1. CASE i \in 1..B
        <5>1. Stands(View, Old, i)
          BY <1>11, <3>2, <4>1 DEF Stands
        <5> QED BY <1>8, <3>1, <4>1, <5>1
      <4>2. CASE i \in (B + 1)..L
        BY <1>8, <2>13, <3>2, <4>2 DEF Stands
      <4> QED BY <2>5, <4>1, <4>2
    <3> QED BY <3>1, <3>2
  <2>15. ASSUME NEW a \in Nat, NEW t \in Nat, a = B + 1, t \in (B + 1)..L PROVE Source(a, t)'
    <3>1. op = "create" => \A i \in 1..L : Stands(View', file, i) => i = t
      <4> SUFFICES ASSUME op = "create", NEW i \in 1..L, Stands(View', file, i) PROVE FALSE
        OBVIOUS
      <4>1. file # Old
        BY <1>2, DirectoryAssumption DEF CallOK
      <4>2. i \in 1..B
        BY <2>5, <2>7, <4>1
      <4>3. Stands(View, file, i)
        BY <1>11, <4>2 DEF Stands
      <4>4. i = L
        BY <2>2, <4>3 DEF Source, L
      <4> QED BY <1>6, <1>8, <4>2, <4>4
    <3>2. ASSUME op = "copy"
          PROVE  \E p \in 1..L :
                    /\ NameAt(View, entry.count, p, file)'
                    /\ entry.first = DirectoryWalk[p - entry.count + 1]
                    /\ \A i \in (p - entry.count + 1)..p : i \notin a..t
                    /\ file \in File \ suspect => \A i \in 1..L : Stands(View', file, i) => i = p \/ i = t
      <4>1. PICK p \in 1..L :
              /\ NameAt(View, entry.count, p, file)
              /\ entry.first = DirectoryWalk[p - entry.count + 1]
              /\ \A i \in (p - entry.count + 1)..p : i \notin (B + 1)..L
              /\ file \in File \ suspect => \A i \in 1..L : Stands(View, file, i) => i = p \/ i = L
        BY <2>2, <3>2 DEF Source, L
      <4>2. entry.count \in 1..p /\ Stands(View, file, p) /\ \A j \in (p - entry.count + 1)..(p - 1) : View[j].kind = "lfn"
        BY <4>1 DEF NameAt
      <4>3. p \in 1..B /\ \A i \in (p - entry.count + 1)..p : i \in 1..B
        <5>1. p \in (p - entry.count + 1)..p
          BY <1>6, <1>8, <4>2
        <5>2. p \in 1..B
          BY <2>5, <4>1, <5>1
        <5> QED BY <1>8, <4>2, <5>2
      <4>4. NameAt(View, entry.count, p, file)'
        <5>1. Stands(View', file, p)
          BY <1>11, <4>2, <4>3 DEF Stands
        <5>2. \A j \in (p - entry.count + 1)..(p - 1) : j \in (p - entry.count + 1)..p
          BY <1>8, <4>2
        <5>3. \A j \in (p - entry.count + 1)..(p - 1) : View'[j].kind = "lfn"
          BY <1>11, <4>2, <4>3, <5>2
        <5> QED BY <1>1, <1>3, <4>1, <4>2, <5>1, <5>3 DEF NameAt
      <4>5. \A i \in (p - entry.count + 1)..p : i \notin a..t
        <5>1. \A i \in 1..B : i \notin a..t
          BY <1>8, <2>15
        <5> QED BY <4>3, <5>1
      <4>6. ASSUME file \in File \ suspect, NEW i \in 1..L, Stands(View', file, i) PROVE i = p
        <5>1. i \in 1..B
          BY <2>5, <2>7, <4>6, DirectoryAssumption
        <5>2. Stands(View, file, i)
          BY <1>11, <4>6, <5>1 DEF Stands
        <5>3. i # L
          BY <1>6, <1>8, <5>1
        <5> QED BY <4>1, <4>6, <5>2, <5>3
      <4> QED BY <4>1, <4>4, <4>5, <4>6
    <3> QED BY <1>1, <1>3, <3>1, <3>2 DEF Source, L
  <2>16. Clearing'
    <3>1. L \in (B + 1)..L /\ B + 1 \in Nat /\ L \in Nat
      BY <1>6, <1>8
    <3>2. PICK a \in Nat, t \in Nat : a = B + 1 /\ t = L
      BY <3>1
    <3>3. Source(a, t)'
      BY <2>15, <3>1, <3>2
    <3>4. Source(Before + 1, Len(DirectoryWalk))'
      <4>1. Before' + 1 = a /\ Len(DirectoryWalk') = t
        BY <1>3, <3>2 DEF B, L
      <4> QED BY <3>3, <4>1 DEF Source
    <3>5. NoFree(View', B) /\ (file \notin suspect => View'[B].kind # "lfn")
      <4>1. B \in 1..B
        BY <1>8
      <4> QED BY <1>11, <2>2, <4>1 DEF NoFree
    <3>6. NoFree(View, Before)' /\ (file' \notin suspect' => View'[Before'].kind # "lfn")
      BY <1>1, <1>3, <3>5 DEF B
    <3>7. (\A i \in (Before + 1)..Len(DirectoryWalk) :
              \/ View[i].kind = "free"
              \/ /\ Stands(View, Old, i)
                 /\ \E j \in 1..Len(fresh) : BlockOf(DirectoryWalk[i]) = fresh[j][2])'
      BY <1>3, <2>4 DEF B, L
    <3>8. Len(todo') <= ClusterSlots'
      BY <1>1, <1>3, <2>2
    <3> QED BY <3>4, <3>6, <3>7, <3>8 DEF Clearing
  <2>17. Writing'
    <3> SUFFICES ASSUME fresh' = <<>> PROVE \E s, k, t \in Nat : WritingAt(s, k, t)'
      BY DEF Writing
    <3>1. m = blocks_per_cluster
      <4> SUFFICES ASSUME m # blocks_per_cluster PROVE FALSE
        OBVIOUS
      <4>1. Len(fresh') = blocks_per_cluster - m /\ m < blocks_per_cluster
        BY <1>6, <1>9, SMTT(60)
      <4>2. Len(fresh') = 0
        OBVIOUS
      <4> QED BY <1>6, <4>1, <4>2
    <3>2. Len(fresh) = 1 /\ Head(fresh)[1] = c
      BY <1>6, <1>9, <3>1
    <3>3. iter' = Rest(B + 1)
      <4>1. B + 1 \in 1..L
        BY <1>6, <1>8
      <4>2. Straight(DirectoryWalk[B + 1])
        <5>1. EntriesPerBlock \in Nat \ {0}
          BY <1>2, Sizes
        <5>2. 0 \in 0..(ClusterSlots - 1) /\ SlotOf(c, 0) = FirstPlace(c)
          <6>1. RootSlots \in Int /\ (c - 2) * ClusterSlots \in Int
            <7>1. c \in Int
              BY <1>8 DEF Cluster
            <7>2. c - 2 \in Int
              BY <7>1
            <7> QED BY <1>2, <1>6, <7>2, Sizes
          <6>2. FirstPlace(c) \in Int
            BY <6>1 DEF FirstPlace
          <6> QED BY <1>6, <6>2 DEF SlotOf
        <5>3. (FirstPlace(c) - RootSlots) % ClusterSlots = 0
          BY <1>2, <1>8, <5>2, SlotIs
        <5>4. BlockOf(FirstPlace(c)) = 0
          BY <5>1, <5>3 DEF BlockOf
        <5> QED BY <1>5, <1>8, <5>4 DEF Straight
      <4>3. IterFrom(DirectoryWalk[B + 1]) = Rest(B + 1)
        BY <1>2, <4>1, <4>2, IterIs DEF L
      <4> QED BY <1>1, <1>8, <3>2, <4>3
    <3> DEFINE E == EntriesOf(name, file)
    <3>4. E \in Seq(Content \ {FreeSlot}) /\ Len(E) = Len(name) + 1 /\ Len(name) \in Nat \ {0} /\ todo = E
      BY <1>2, <1>5, EntriesAre DEF CallOK
    <3> HIDE DEF E
    <3>5. PICK s \in Nat, t \in Nat : s = B + 1 /\ t = s + Len(name) /\ t <= L
      <4>1. B + 1 \in Nat /\ B + 1 + Len(name) \in Nat /\ B + 1 + Len(name) <= L
        BY <1>6, <1>8, <2>2, <3>4
      <4> QED BY <4>1
    <3>6. t \in (B + 1)..L /\ s <= t + 1 /\ s >= 1 /\ 1..(s - s) = {} /\ s - s + 1 = 1 /\ s - 1 = B
      BY <1>8, <3>4, <3>5
    <3>7. todo' = SubSeq(EntriesOf(name', file'), s - s + 1, Len(name') + 1)
      <4>1. SubSeq(E, 1, Len(name) + 1) = E
        BY <3>4
      <4> QED BY <1>1, <3>4, <3>6, <4>1 DEF E
    <3>8. \A i \in s..t : IsHole(View'[i])
      <4>1. \A i \in s..t : i \in (B + 1)..L
        BY <1>6, <1>8, <3>5
      <4> QED BY <2>13, <4>1 DEF IsHole
    <3>9. NoFree(View', s - 1) /\ (file \notin suspect => View'[s - 1].kind # "lfn")
      <4>1. B \in 1..B
        BY <1>8
      <4> QED BY <1>11, <2>2, <3>6, <4>1 DEF NoFree
    <3>10. Source(s, t)'
      BY <2>15, <3>5, <3>6
    <3>11. t <= Len(DirectoryPlaces')
      BY <1>3, <1>5, <3>5 DEF DirectoryPlaces, L
    <3>12. WritingAt(s, s, t)'
      <4>1. t = s + Len(name') /\ iter' = Rest(s)'
        BY <1>1, <1>3, <3>3, <3>5
      <4>2. \A j \in 1..(s - s) : View'[s + j - 1] = EntriesOf(name', file')[j]
        BY <3>6
      <4>3. NoFree(View', s - 1) /\ (file' \notin suspect' => s = 1 \/ View'[s - 1].kind # "lfn")
        BY <1>1, <3>9
      <4> QED BY <3>6, <3>7, <3>8, <3>10, <3>11, <4>1, <4>2, <4>3 DEF WritingAt
    <3> QED BY <3>12
  <2>18. Deleting' /\ Rewriting'
    BY <1>1, <1>5 DEF Deleting, Rewriting
  <2> QED BY <2>8, <2>9, <2>10, <2>11, <2>12, <2>14, <2>16, <2>17, <2>18 DEF PlacedOK
<1> QED BY <1>4, <1>12, <1>13, <1>15, <1>16 DEF DirInv

\* clean_cluster_data fails.
LEMMA CleanFailsKeeps == ASSUME DirInv, CleanFails PROVE DirInv'
<1> DEFINE L == Len(DirectoryWalk)
           B == Before
           c == Clusters[Len(Clusters)]
<1>1. /\ fresh # <<>> /\ EndCall
      /\ fat' = [d \in Cluster |-> IF d = Head(fresh)[1] THEN Free
                                   ELSE IF fat[d] = Head(fresh)[1] THEN EndOfChain ELSE fat[d]]
      /\ UNCHANGED volume /\ disk' = disk
      /\ names' = names /\ suspect' = suspect /\ misplaced' = misplaced
  BY DEF CleanFails, history
<1>2. VolumeOK /\ TypeOK /\ CallOK /\ FreshOK /\ (~misplaced => PlacedOK) /\ DiskOK
  BY DiskTyped DEF DirInv
<1>3. /\ FreshOK' /\ CallOK' /\ Writing' /\ Clearing' /\ Deleting' /\ Rewriting'
      /\ op' = "none" /\ iter' = <<>> /\ todo' = <<>> /\ fresh' = <<>> /\ file' = "none"
  BY <1>1, CallEnds
<1>4. /\ op \in {"create", "copy"} /\ ~old_root /\ Len(Clusters) >= 2 /\ todo = EntriesOf(name, file)
      /\ \E m \in 1..blocks_per_cluster : fresh = SubSeq(FreshOf(c), m, blocks_per_cluster)
  BY <1>1, <1>2 DEF FreshOK
<1>5. blocks_per_cluster \in Nat \ {0} /\ ClusterSlots \in Nat \ {0}
  BY <1>2, Sizes
<1>6. Head(fresh)[1] = c
  <2>1. PICK m \in 1..blocks_per_cluster : fresh = SubSeq(FreshOf(c), m, blocks_per_cluster)
    BY <1>4
  <2> HIDE DEF c
  <2>2. Head(fresh) = <<c, m % blocks_per_cluster>>
    BY <1>5, <2>1, FreshFrom
  <2> QED BY <2>2
<1>7. todo # <<>>
  <2> DEFINE E == EntriesOf(name, file)
  <2>1. E \in Seq(Content \ {FreeSlot}) /\ Len(E) = Len(name) + 1 /\ Len(name) \in Nat \ {0} /\ todo = E
    BY <1>2, <1>4, EntriesAre DEF CallOK
  <2> HIDE DEF E
  <2> QED BY <2>1
<1>8. /\ VolumeOK' /\ Place' = Place /\ Len(DirectoryWalk') = B
      /\ \A i \in 1..B : DirectoryWalk'[i] = DirectoryWalk[i]
  <2>1. fat' = [d \in Cluster |-> IF d = c THEN Free ELSE IF fat[d] = c THEN EndOfChain ELSE fat[d]]
    BY <1>1, <1>6
  <2>2. PICK x : x = Clusters[Len(Clusters)]
    OBVIOUS
  <2>3. fat' = [d \in Cluster |-> IF d = x THEN Free ELSE IF fat[d] = x THEN EndOfChain ELSE fat[d]]
    BY <2>1, <2>2
  <2>4. VolumeOK /\ ~old_root /\ Len(Clusters) >= 2 /\ UNCHANGED volume
    BY <1>1, <1>2, <1>4
  <2> QED BY ONLY <2>2, <2>3, <2>4, Shrunk
<1>9. B \in Nat /\ B >= 1 /\ B + ClusterSlots = L
  BY <1>2, <1>4, LastPlaces
<1> HIDE DEF L, B
<1>10. old_root' = old_root /\ fat' \in Table
  BY <1>1, <1>8 DEF volume, VolumeOK
<1>11. TypeOK'
  BY <1>1, <1>2, <1>3, <1>8, <1>10 DEF TypeOK
<1>12. ASSUME ~misplaced' PROVE PlacedOK'
  <2>1. PlacedOK
    BY <1>1, <1>2, <1>12
  <2>2. \A i \in (B + 1)..L : View[i].kind = "free" \/ Stands(View, Old, i)
    BY <1>1, <2>1 DEF PlacedOK, Clearing, B, L
  <2>3. \A i \in 1..L : i \in 1..B \/ i \in (B + 1)..L
    BY <1>5, <1>9
  <2>4. \A i \in 1..B : i \in 1..L
    BY <1>5, <1>9
  <2>5. \A i \in 1..B : View'[i] = View[i]
    <3>1. \A i \in 1..B : View'[i] = disk[DirectoryWalk'[i]]
      BY <1>1, <1>8 DEF View
    <3>2. \A i \in 1..L : View[i] = disk[DirectoryWalk[i]]
      BY <1>2, ViewIs DEF L
    <3> QED BY <1>8, <2>4, <3>1, <3>2
  <2>6. Loose'
    <3> SUFFICES ASSUME NEW p \in Place, \A i \in 1..B : DirectoryWalk'[i] # p
                 PROVE  disk[p].kind = "free" \/ (disk[p].kind = "sfn" /\ disk[p].file = Old)
      BY <1>1, <1>8 DEF Loose
    <3>1. CASE \E i \in 1..L : DirectoryWalk[i] = p
      <4>1. PICK i \in 1..L : DirectoryWalk[i] = p
        BY <3>1
      <4>2. i \in (B + 1)..L
        BY <1>8, <2>3, <4>1
      <4>3. View[i] = disk[p]
        BY <1>2, <4>1, ViewIs DEF L
      <4> QED BY <2>2, <4>2, <4>3 DEF Stands
    <3>2. CASE \A i \in 1..L : DirectoryWalk[i] # p
      BY <2>1, <3>2 DEF PlacedOK, Loose, L
    <3> QED BY <3>1, <3>2
  <2>7. KnownFiles'
    BY <1>3, <1>8, <2>1, <2>4, <2>5 DEF PlacedOK, KnownFiles, L
  <2>8. Visible'
    <3> SUFFICES ASSUME NEW i \in 1..B, View'[i].kind = "sfn", View'[i].file \in File PROVE NoFree(View', i)
      BY <1>8 DEF Visible
    <3>1. \A j \in 1..i : j \in 1..B
      BY <1>9
    <3>2. NoFree(View, i)
      BY <2>1, <2>4, <2>5 DEF PlacedOK, Visible, L
    <3> QED BY <2>5, <3>1, <3>2 DEF NoFree
  <2>9. Settled'
    <3> SUFFICES ASSUME NEW f \in File, f \notin suspect PROVE KeptIn(View', B, names[f], f)
      BY <1>1, <1>8 DEF Settled, KeptAs, KeptIn
    <3>1. KeptIn(View, L, names[f], f)
      BY <1>4, <1>7, <2>1 DEF PlacedOK, Settled, Resting, KeptAs, L
    <3>2. names[f] \in Name \union {<<>>} /\ f # Old
      BY <1>2, DirectoryAssumption DEF TypeOK
    <3>3. B \in Nat /\ L \in Nat /\ B <= L /\ B <= B /\ (B + 1)..B = {}
      BY <1>5, <1>9
    <3>4. \A i \in (B + 1)..L : ~Stands(View, f, i)
      BY <2>2, <3>2 DEF Stands
    <3>5. ASSUME NEW E, E = View' PROVE KeptIn(E, B, names[f], f)
      <4>1. \A i \in (B + 1)..B : ~Stands(E, f, i)
        BY <3>3
      <4> QED BY <2>5, <3>1, <3>2, <3>3, <3>4, <3>5, <4>1, KeptOn
    <3> QED BY <3>5
  <2>10. Somewhere'
    <3> SUFFICES ASSUME NEW f \in File, names[f] # <<>> PROVE \E i \in 1..B : Stands(View', f, i)
      BY <1>1, <1>8 DEF Somewhere
    <3>1. PICK i \in 1..L : Stands(View, f, i)
      BY <1>4, <2>1 DEF PlacedOK, Somewhere, L
    <3>2. i \in 1..B
      BY <2>2, <2>3, <3>1, DirectoryAssumption DEF Stands
    <3> QED BY <2>5, <3>1, <3>2 DEF Stands
  <2>11. OldPlaces'
    <3> SUFFICES ASSUME Old \notin suspect, NEW i \in 1..B, Stands(View', Old, i) PROVE FALSE
      BY <1>1, <1>3, <1>4, <1>8, <1>10 DEF OldPlaces
    <3>1. Stands(View, Old, i)
      BY <2>5 DEF Stands
    <3>2. i > B
      BY <1>4, <2>1, <2>4, <3>1 DEF PlacedOK, OldPlaces, L, B
    <3> QED BY <1>9, <3>2
  <2> QED BY <1>3, <2>6, <2>7, <2>8, <2>9, <2>10, <2>11 DEF PlacedOK
<1> QED BY <1>3, <1>8, <1>11, <1>12 DEF DirInv

(***************************************************************************)
(* An entry is written                                                     *)
(***************************************************************************)
\* The entry is one that a directory can hold, and none that ends a listing.
LEMMA WrittenIs ==
    ASSUME DirInv, todo # <<>>, NEW p \in Place
    PROVE  LET x == Written(Head(todo), p) IN
           /\ x \in Content /\ x.kind # "free"
           /\ op # "rewrite" => x = Head(todo)
           /\ Head(todo).kind # "sfn" => x = Head(todo)
           /\ op = "rewrite" /\ Head(todo).kind = "sfn" =>
                 x.kind = "sfn" /\ (disk[p].kind = "sfn" => x.file = disk[p].file)
           /\ Head(todo) \in Content \ {FreeSlot} /\ Tail(todo) \in Seq(Content \ {FreeSlot})
<1> DEFINE e == Head(todo)
           g == IF disk[p].kind = "sfn" THEN disk[p].file ELSE "none"
<1>1. todo \in Seq(Content \ {FreeSlot}) /\ DiskOK
  BY DiskTyped DEF DirInv, CallOK
<1>2. e \in Content \ {FreeSlot} /\ Tail(todo) \in Seq(Content \ {FreeSlot})
  BY <1>1
<1> HIDE DEF e
<1>3. e.kind # "free"
  BY <1>2, Contents DEF FreeSlot
<1>4. g \in File \union {Old, Dot, "none"}
  <2>1. disk[p] \in Content
    BY <1>1 DEF DiskOK
  <2>2. disk[p].kind = "sfn" => disk[p].file \in File \union {Old, Dot, "none"}
    BY <2>1, Contents
  <2> QED BY <2>2
<1>5. ASSUME e.kind = "sfn" PROVE Sfn(e.short, g) \in Content /\ Sfn(e.short, g).kind = "sfn" /\ Sfn(e.short, g).file = g
  <2>1. e \in SfnEntry
    BY <1>2, <1>5, Contents
  <2>2. e.short \in {ShortName(n) : n \in Name \union {<<".">>, <<"old">>}}
    BY <2>1 DEF SfnEntry
  <2> HIDE DEF g
  <2>3. Sfn(e.short, g) \in SfnEntry
    BY <1>4, <2>2 DEF SfnEntry, Sfn
  <2> QED BY <2>3 DEF Content, Sfn
<1>6. Written(e, p) = IF op = "rewrite" /\ e.kind = "sfn" THEN Sfn(e.short, g) ELSE e
  BY DEF Written
<1>7. disk[p].kind = "sfn" => g = disk[p].file
  OBVIOUS
<1> HIDE DEF g
<1>8. CASE op = "rewrite" /\ e.kind = "sfn"
  <2>1. Written(e, p) = Sfn(e.short, g)
    BY <1>6, <1>8
  <2> QED BY <1>2, <1>5, <1>7, <1>8, <2>1 DEF e
<1>9. CASE ~(op = "rewrite" /\ e.kind = "sfn")
  <2>1. Written(e, p) = e
    BY <1>6, <1>9
  <2> QED BY <1>2, <1>3, <1>9, <2>1 DEF e
<1> QED BY <1>8, <1>9

\* Position k is written for a call.
WritesAt(k, x) ==
    /\ UNCHANGED <<volume, fat>> /\ disk' = [disk EXCEPT ![DirectoryWalk[k]] = x]
    /\ op' = op /\ name' = name /\ entry' = entry /\ file' = file /\ names' = names
    /\ suspect' = suspect /\ misplaced' = misplaced /\ fresh' = fresh

\* It takes no name but that of the call.
LEMMA OthersKept ==
    ASSUME DirInv, ~misplaced, op # "none", fresh = <<>>, todo # <<>>,
           NEW k \in 1..Len(DirectoryWalk), NEW x \in Content, WritesAt(k, x),
           x.kind # "free", x.kind = "sfn" => x.file = file /\ (file \in File => NoFree(View, k - 1)),
           op \in {"create", "copy"} /\ todo' # <<>> => x.kind = "lfn",
           \A f \in File : f # file \/ (op \in {"create", "copy"} /\ x.kind = "lfn") =>
              \A i \in 1..Len(DirectoryWalk) : Stands(View, f, i) =>
                 Outside(View, k, i) /\ (x.kind = "lfn" => Outside(View, k + 1, i)),
           View[k].kind = "sfn" => View[k].file = file /\ (op = "delete" \/ x.kind = "sfn")
    PROVE  Loose' /\ KnownFiles' /\ Visible' /\ Settled' /\ Somewhere' /\ OldPlaces' /\ Clearing'
<1> DEFINE L == Len(DirectoryWalk)
<1>1. /\ UNCHANGED <<volume, fat>> /\ disk' = [disk EXCEPT ![DirectoryWalk[k]] = x]
      /\ op' = op /\ file' = file /\ names' = names /\ suspect' = suspect /\ fresh' = fresh
  BY DEF WritesAt
<1>2. VolumeOK /\ TypeOK /\ CallOK /\ PlacedOK /\ DiskOK
  BY DiskTyped DEF DirInv
<1>3. /\ DirectoryWalk' = DirectoryWalk /\ Place' = Place /\ RootSlots' = RootSlots
      /\ old_root' = old_root
  BY <1>1, SameWalk DEF volume
<1>4. /\ View'[k] = x /\ \A i \in 1..L : i # k => View'[i] = View[i]
  BY <1>1, <1>2, WriteView
<1>5. L \in Nat \ {0} /\ DirectoryWalk[k] \in Place /\ View[k] = disk[DirectoryWalk[k]]
  BY <1>2, WalkIs, ViewIs
<1>6. \A p \in Place : disk'[p] = IF p = DirectoryWalk[k] THEN x ELSE disk[p]
  BY <1>1, <1>2 DEF DiskOK
<1> HIDE DEF L
<1>7. Loose'
  <2> SUFFICES ASSUME NEW p \in Place, \A i \in 1..L : DirectoryWalk[i] # p
               PROVE  disk'[p].kind = "free" \/ (disk'[p].kind = "sfn" /\ disk'[p].file = Old)
    BY <1>3 DEF Loose, L
  <2>1. disk'[p] = disk[p]
    BY <1>6 DEF L
  <2> QED BY <1>2, <2>1 DEF PlacedOK, Loose, L
<1>8. file \in File \union {Old, Dot}
  BY <1>2 DEF PlacedOK, KnownFiles
<1>9. KnownFiles'
  <2> SUFFICES ASSUME NEW i \in 1..L, View'[i].kind = "sfn" PROVE View'[i].file \in File \union {Old, Dot}
    BY <1>1, <1>3, <1>8 DEF KnownFiles, L
  <2>1. CASE i = k
    BY <1>4, <1>8, <2>1
  <2>2. CASE i # k
    BY <1>2, <1>4, <2>2 DEF PlacedOK, KnownFiles, L
  <2> QED BY <2>1, <2>2
<1>10. Visible'
  <2> SUFFICES ASSUME NEW i \in 1..L, View'[i].kind = "sfn", View'[i].file \in File PROVE NoFree(View', i)
    BY <1>3 DEF Visible, L
  <2>1. CASE i = k
    <3>1. NoFree(View, k - 1)
      BY <1>4, <2>1
    <3>2. \A j \in 1..k : j \in 1..L /\ (j # k => j \in 1..(k - 1))
      BY <1>5 DEF L
    <3> QED BY <1>4, <2>1, <3>1, <3>2 DEF NoFree
  <2>2. CASE i # k
    <3>1. NoFree(View, i)
      BY <1>2, <1>4, <2>2 DEF PlacedOK, Visible, L
    <3>2. \A j \in 1..i : j \in 1..L
      BY <1>5
    <3> QED BY <1>4, <3>1, <3>2 DEF NoFree
  <2> QED BY <2>1, <2>2
<1>11. Settled'
  <2> SUFFICES ASSUME NEW f \in File, f \notin suspect, Resting(f)' PROVE KeptAs(View', names[f], f)
    BY <1>1, <1>3 DEF Settled, KeptAs, KeptIn
  <2>1. f # file \/ (op \in {"create", "copy"} /\ x.kind = "lfn")
    BY <1>1 DEF Resting
  <2>2. \A i \in 1..L : Stands(View, f, i) => Outside(View, k, i) /\ (x.kind = "lfn" => Outside(View, k + 1, i))
    BY <2>1 DEF L
  <2>3. ~Stands(View', f, k)
    BY <1>4, <2>1 DEF Stands
  <2>4. KeptAs(View, names[f], f)
    <3>1. Resting(f)
      BY <2>1 DEF Resting
    <3> QED BY <1>2, <3>1 DEF PlacedOK, Settled
  <2>5. names[f] \in Name \union {<<>>}
    BY <1>2 DEF TypeOK
  <2>6. ASSUME NEW E, E = View' PROVE KeptAs(E, names[f], f)
    <3>1. \A y \in 1..Len(DirectoryWalk) : y # k => E[y] = View[y]
      BY <1>4, <2>6 DEF L
    <3>2. \A i \in 1..Len(DirectoryWalk) : Stands(View, f, i) =>
              Outside(View, k, i) /\ (E[k].kind = "lfn" => Outside(View, k + 1, i))
      BY <1>4, <2>2, <2>6 DEF L
    <3>3. ~Stands(E, f, k)
      BY <2>3, <2>6
    <3> QED BY <1>2, <2>4, <2>5, <3>1, <3>2, <3>3, KeptSurvives
  <2> QED BY <2>6
<1>12. Somewhere'
  <2> SUFFICES ASSUME NEW f \in File, names[f] # <<>>, ~(op = "delete" /\ f = file) PROVE \E i \in 1..L : Stands(View', f, i)
    BY <1>1, <1>3 DEF Somewhere, L
  <2>1. PICK i \in 1..L : Stands(View, f, i)
    BY <1>2 DEF PlacedOK, Somewhere, L
  <2>2. CASE i # k
    BY <1>4, <2>1, <2>2 DEF Stands
  <2>3. CASE i = k
    BY <1>4, <2>1, <2>3 DEF Stands, L
  <2> QED BY <2>2, <2>3
<1>13. OldPlaces'
  <2>1. ASSUME ~old_root, Old \notin suspect
        PROVE  (\A i \in 1..L : ~Stands(View', Old, i)) /\ file # Old
    <3>1. (\A i \in 1..L : ~Stands(View, Old, i)) /\ file # Old
      BY <1>2, <2>1 DEF PlacedOK, OldPlaces, L
    <3> QED BY <1>4, <3>1 DEF Stands
  <2>2. ASSUME old_root, ~Overrun'
        PROVE  (\A p \in Place : p < RootSlots => ~(disk'[p].kind = "sfn" /\ disk'[p].file = Old)) /\ file # Old
    <3>1. ~Overrun
      <4>1. PICK p \in 0..(RootSlots - 1) : disk'[p].kind = "free"
        BY <1>3, <2>2 DEF Overrun
      <4>2. p # DirectoryWalk[k]
        BY <1>5, <1>6, <4>1
      <4>3. disk'[p] = disk[p]
        BY <1>1, <4>2
      <4> QED BY <4>1, <4>3 DEF Overrun
    <3>2. (\A p \in Place : p < RootSlots => ~(disk[p].kind = "sfn" /\ disk[p].file = Old)) /\ file # Old
      BY <1>2, <2>2, <3>1 DEF PlacedOK, OldPlaces
    <3> QED BY <1>6, <3>2
  <2>3. (~old_root /\ Old \notin suspect)' =>
             /\ (\A i \in 1..Len(DirectoryWalk) : Stands(View, Old, i) => fresh # <<>> /\ i > Before)'
             /\ file' # Old
    BY <1>1, <1>3, <2>1 DEF L
  <2>4. (old_root /\ ~Overrun)' =>
             /\ \A p \in Place' : p < RootSlots' => ~(disk'[p].kind = "sfn" /\ disk'[p].file = Old)
             /\ file' # Old
    BY <1>1, <1>3, <2>2
  <2> QED BY <2>3, <2>4 DEF OldPlaces
<1>14. Clearing'
  BY <1>1 DEF Clearing
<1> QED BY <1>7, <1>9, <1>10, <1>11, <1>12, <1>13, <1>14

\* next() and flush() write one entry to the position the call has come to.
LEMMA WriteAtIs ==
    ASSUME DirInv, WriteEntry, NEW k \in 1..Len(DirectoryWalk), iter = Rest(k)
    PROVE  LET x == Written(Head(todo), DirectoryWalk[k]) IN
           /\ WritesAt(k, x) /\ iter' = Rest(k + 1) /\ todo' = Tail(todo) /\ todo # <<>> /\ fresh = <<>>
           /\ x \in Content /\ x.kind # "free" /\ op # "none"
           /\ View'[k] = x /\ \A i \in 1..Len(DirectoryWalk) : i # k => View'[i] = View[i]
           /\ DirectoryWalk' = DirectoryWalk /\ DirectoryPlaces' = DirectoryPlaces
           /\ \A j : Rest(j)' = Rest(j)
           /\ View[k] = disk[DirectoryWalk[k]] /\ DirectoryWalk[k] \in Place
           /\ Len(todo) \in Nat \ {0} /\ Len(todo') = Len(todo) - 1 /\ todo \in Seq(Content \ {FreeSlot})
<1> DEFINE x == Written(Head(todo), DirectoryWalk[k])
<1>1. /\ fresh = <<>> /\ todo # <<>>
      /\ disk' = [disk EXCEPT ![Head(iter)] = Written(Head(todo), Head(iter))]
      /\ iter' = Tail(iter) /\ todo' = Tail(todo)
      /\ UNCHANGED <<volume, fat>> /\ op' = op /\ name' = name /\ entry' = entry /\ file' = file
      /\ names' = names /\ suspect' = suspect /\ misplaced' = misplaced /\ fresh' = fresh
  BY DEF WriteEntry, history
<1>2. VolumeOK /\ TypeOK /\ CallOK /\ DiskOK
  BY DiskTyped DEF DirInv
<1>3. Head(iter) = DirectoryWalk[k] /\ Tail(iter) = Rest(k + 1)
  <2>1. k \in 1..(Len(DirectoryWalk) + 1) /\ k <= Len(DirectoryWalk)
    BY <1>2, WalkIs
  <2> QED BY <1>2, <2>1, RestIs
<1>4. DirectoryWalk[k] \in Place /\ View[k] = disk[DirectoryWalk[k]]
  BY <1>2, WalkIs, ViewIs
<1>5. x \in Content /\ x.kind # "free"
  BY <1>1, <1>4, WrittenIs
<1> HIDE DEF x
<1>6. disk' = [disk EXCEPT ![DirectoryWalk[k]] = x]
  BY <1>1, <1>3 DEF x
<1>7. View'[k] = x /\ \A i \in 1..Len(DirectoryWalk) : i # k => View'[i] = View[i]
  BY <1>1, <1>2, <1>5, <1>6, WriteView
<1>8. op # "none"
  BY <1>1, <1>2 DEF TypeOK
<1>9. WritesAt(k, x)
  BY <1>1, <1>6 DEF WritesAt
<1>10. todo \in Seq(Content \ {FreeSlot})
  BY <1>2 DEF CallOK
<1>11. Len(todo) \in Nat \ {0} /\ Len(todo') = Len(todo) - 1
  BY <1>1, <1>10
<1>12. DirectoryWalk' = DirectoryWalk /\ DirectoryPlaces' = DirectoryPlaces /\ \A j : Rest(j)' = Rest(j)
  BY <1>1, SameWalk
<1> QED BY <1>1, <1>3, <1>4, <1>5, <1>7, <1>8, <1>9, <1>10, <1>11, <1>12 DEF x

\* of a name that is made,
LEMMA WriteNameKeeps ==
    ASSUME DirInv, WriteEntry, ~misplaced, op \in {"create", "copy"}
    PROVE  PlacedOK'
<1> DEFINE L == Len(DirectoryWalk)
           E == EntriesOf(name, file)
           l == Len(name)
<1>1. VolumeOK /\ TypeOK /\ CallOK /\ PlacedOK /\ DiskOK /\ fresh = <<>>
  BY DiskTyped DEF DirInv, WriteEntry
<1>2. PICK s \in Nat, k \in Nat, t \in Nat : WritingAt(s, k, t)
  BY <1>1 DEF PlacedOK, Writing
<1>3. /\ E \in Seq(Content \ {FreeSlot}) /\ Len(E) = l + 1 /\ l \in Nat \ {0}
      /\ \A j \in 1..l : E[j].kind = "lfn"
      /\ E[l + 1].kind = "sfn" /\ E[l + 1].file = file
  BY <1>1, EntriesAre DEF CallOK
<1>4. L \in Nat \ {0} /\ Len(DirectoryPlaces) \in 1..L
  BY <1>1, WalkIs
<1> HIDE DEF L, E, l
<1>5. /\ s >= 1 /\ s <= k /\ k <= t + 1 /\ t = s + l /\ t <= Len(DirectoryPlaces)
      /\ iter = Rest(k) /\ todo = SubSeq(E, k - s + 1, l + 1)
      /\ NoFree(View, s - 1)
      /\ \A j \in 1..(k - s) : View[s + j - 1] = E[j]
      /\ \A i \in k..t : IsHole(View[i])
      /\ file \notin suspect => s = 1 \/ View[s - 1].kind # "lfn"
      /\ Source(s, t)
  BY <1>2 DEF WritingAt, E, l
<1>6. k # t + 1
  <2> SUFFICES ASSUME k = t + 1 PROVE FALSE
    OBVIOUS
  <2>1. k - s + 1 = l + 2
    BY <1>3, <1>5
  <2>2. todo = <<>>
    BY <1>3, <1>5, <2>1
  <2> QED BY <2>2 DEF WriteEntry
<1>7. k \in 1..L /\ k <= t /\ t \in 1..L /\ s \in 1..L
  BY <1>3, <1>4, <1>5, <1>6
<1>8. PICK y : y = k - s + 1
  OBVIOUS
<1>9. y \in 1..(l + 1) /\ s + y - 1 = k /\ (k = t <=> y = l + 1) /\ y + 1 = (k + 1) - s + 1
  BY <1>3, <1>5, <1>7, <1>8
<1>10. Head(todo) = E[y] /\ Tail(todo) = SubSeq(E, y + 1, l + 1)
  <2>1. y \in 1..(Len(E) + 1) /\ l + 1 \in 0..Len(E) /\ y <= l + 1 /\ y <= (l + 1) + 1
    BY <1>3, <1>9
  <2>2. todo = SubSeq(E, y, l + 1)
    BY <1>5, <1>8
  <2>3. E \in Seq(Content \ {FreeSlot})
    BY <1>3
  <2>4. PICK z \in Nat : z = l + 1
    BY <1>3
  <2>5. y \in 1..(Len(E) + 1) /\ z \in 0..Len(E) /\ y <= z /\ y <= z + 1
    BY <2>1, <2>4
  <2>6. Head(SubSeq(E, y, z)) = E[y] /\ Tail(SubSeq(E, y, z)) = SubSeq(E, y + 1, z)
    <3>1. PICK S : S = Content \ {FreeSlot}
      OBVIOUS
    <3>2. E \in Seq(S)
      BY <2>3, <3>1
    <3> QED BY ONLY <2>5, <3>2, SubSeqIs, SMTT(40)
  <2> QED BY <2>2, <2>4, <2>6
<1> DEFINE x == Written(Head(todo), DirectoryWalk[k])
<1>11. /\ WritesAt(k, x) /\ iter' = Rest(k + 1) /\ todo' = Tail(todo) /\ todo # <<>>
       /\ x \in Content /\ x.kind # "free"
       /\ View'[k] = x /\ \A i \in 1..L : i # k => View'[i] = View[i]
       /\ DirectoryWalk' = DirectoryWalk /\ DirectoryPlaces' = DirectoryPlaces
       /\ \A j : Rest(j)' = Rest(j)
       /\ DirectoryWalk[k] \in Place
  BY <1>5, <1>7, WriteAtIs DEF L
<1>12. x = E[y]
  BY <1>10, <1>11, WrittenIs
<1> HIDE DEF x
<1>13. (y # l + 1 => x.kind = "lfn") /\ (y = l + 1 => x.kind = "sfn" /\ x.file = file)
  BY <1>3, <1>9, <1>12
<1>14. NoFree(View, k - 1)
  <2> SUFFICES ASSUME NEW j \in 1..(k - 1) PROVE View[j].kind # "free"
    BY DEF NoFree
  <2>1. CASE j <= s - 1
    <3>1. j \in 1..(s - 1)
      BY <1>5, <2>1
    <3> QED BY <1>5, <3>1 DEF NoFree
  <2>2. CASE j > s - 1
    <3>1. j - s + 1 \in 1..(k - s) /\ s + (j - s + 1) - 1 = j
      BY <1>5, <2>2
    <3>2. j - s + 1 \in 1..l \/ j - s + 1 = l + 1
      BY <1>3, <1>7, <1>5, <3>1
    <3>3. E[j - s + 1].kind \in {"lfn", "sfn"}
      BY <1>3, <3>2
    <3>4. View[j] = E[j - s + 1]
      BY <1>5, <3>1
    <3> QED BY <3>3, <3>4
  <2> QED BY <1>5, <2>1, <2>2
<1>15. IsHole(View[k]) /\ (x.kind = "lfn" => k + 1 \in k..t /\ IsHole(View[k + 1]))
  <2>1. k \in k..t /\ (y # l + 1 => k + 1 \in k..t)
    BY <1>7, <1>9
  <2>2. x.kind = "lfn" => y # l + 1
    BY <1>13
  <2> QED BY <1>5, <2>1, <2>2
<1>16. View[k].kind # "sfn"
  BY <1>15 DEF IsHole
<1>17. \A f : \A i \in 1..L : Stands(View, f, i) =>
          Outside(View, k, i) /\ (x.kind = "lfn" => Outside(View, k + 1, i))
  <2> SUFFICES ASSUME NEW i \in 1..L, View[i].kind = "sfn"
               PROVE  Outside(View, k, i) /\ (x.kind = "lfn" => Outside(View, k + 1, i))
    BY DEF Stands
  <2>1. i \in Nat
    BY <1>4
  <2>2. Outside(View, k, i)
    BY <1>15, <2>1, HoleOutside DEF IsHole
  <2>3. ASSUME x.kind = "lfn" PROVE Outside(View, k + 1, i)
    <3>1. k + 1 \in Nat /\ View[k + 1].kind \notin {"lfn", "sfn"}
      BY <1>15, <2>3 DEF IsHole
    <3> QED BY <2>1, <3>1, HoleOutside
  <2> QED BY <2>2, <2>3
<1>18. todo' # <<>> => x.kind = "lfn"
  <2>1. y = l + 1 => todo' = <<>>
    <3> SUFFICES ASSUME y = l + 1 PROVE todo' = <<>>
      OBVIOUS
    <3>1. todo' = SubSeq(E, l + 2, l + 1)
      BY <1>3, <1>10, <1>11
    <3> QED BY <1>3, <3>1
  <2> QED BY <1>13, <2>1
<1>19. Loose' /\ KnownFiles' /\ Visible' /\ Settled' /\ Somewhere' /\ OldPlaces' /\ Clearing'
  <2>1. x.kind = "sfn" => x.file = file /\ (file \in File => NoFree(View, k - 1))
    BY <1>13, <1>14
  <2>2. op # "none"
    OBVIOUS
  <2>3. \A f \in File : f # file \/ (op \in {"create", "copy"} /\ x.kind = "lfn") =>
              \A i \in 1..Len(DirectoryWalk) : Stands(View, f, i) =>
                 Outside(View, k, i) /\ (x.kind = "lfn" => Outside(View, k + 1, i))
    BY <1>17 DEF L
  <2>4. k \in 1..Len(DirectoryWalk)
    BY <1>7 DEF L
  <2> QED BY <1>1, <1>11, <1>16, <1>18, <2>1, <2>2, <2>3, <2>4, OthersKept
<1>20. /\ op' = op /\ file' = file /\ name' = name /\ entry' = entry /\ suspect' = suspect /\ fresh' = fresh
  BY <1>11 DEF WritesAt
<1>21. Source(s, t)'
  <2>1. op = "create" => \A i \in 1..L : Stands(View', file, i) => i = t
    <3> SUFFICES ASSUME op = "create", NEW i \in 1..L, Stands(View', file, i), i # t PROVE FALSE
      OBVIOUS
    <3>1. i # k
      BY <1>9, <1>11, <1>13 DEF Stands
    <3>2. Stands(View, file, i)
      BY <1>11, <3>1 DEF Stands
    <3> QED BY <1>5, <3>2 DEF Source, L
  <2>2. ASSUME op = "copy"
        PROVE  \E p \in 1..L :
                    /\ NameAt(View, entry.count, p, file)'
                    /\ entry.first = DirectoryWalk[p - entry.count + 1]
                    /\ \A i \in (p - entry.count + 1)..p : i \notin s..t
                    /\ file \in File \ suspect => \A i \in 1..L : Stands(View', file, i) => i = p \/ i = t
    <3>1. PICK p \in 1..L :
              /\ NameAt(View, entry.count, p, file)
              /\ entry.first = DirectoryWalk[p - entry.count + 1]
              /\ \A i \in (p - entry.count + 1)..p : i \notin s..t
              /\ file \in File \ suspect => \A i \in 1..L : Stands(View, file, i) => i = p \/ i = t
      BY <1>5, <2>2 DEF Source, L
    <3>2. entry.count \in 1..p /\ Stands(View, file, p) /\ \A j \in (p - entry.count + 1)..(p - 1) : View[j].kind = "lfn"
      BY <3>1 DEF NameAt
    <3>3. \A i \in (p - entry.count + 1)..p : i \in 1..L /\ i # k
      <4>1. k \in s..t
        BY <1>5, <1>7
      <4>2. \A i \in (p - entry.count + 1)..p : i \in 1..L
        BY <1>4, <3>2
      <4> QED BY <3>1, <4>1, <4>2
    <3>4. p \in (p - entry.count + 1)..p /\ \A j \in (p - entry.count + 1)..(p - 1) : j \in (p - entry.count + 1)..p
      BY <1>4, <3>2
    <3>5. NameAt(View, entry.count, p, file)'
      <4>1. Stands(View', file, p)
        BY <1>11, <3>2, <3>3, <3>4 DEF Stands
      <4>2. \A j \in (p - entry.count + 1)..(p - 1) : View'[j].kind = "lfn"
        BY <1>11, <3>2, <3>3, <3>4
      <4> QED BY <1>11, <1>20, <3>2, <4>1, <4>2 DEF NameAt, L
    <3>6. ASSUME file \in File \ suspect, NEW i \in 1..L, Stands(View', file, i), i # t PROVE i = p
      <4>1. i # k
        BY <1>9, <1>11, <1>13, <3>6 DEF Stands
      <4>2. Stands(View, file, i)
        BY <1>11, <3>6, <4>1 DEF Stands
      <4> QED BY <3>1, <3>6, <4>2
    <3> QED BY <3>1, <3>5, <3>6
  <2> QED BY <1>11, <1>20, <2>1, <2>2 DEF Source, L
<1>22. Writing'
  <2>1. PICK m \in Nat : m = k + 1
    OBVIOUS
  <2>2. s <= m /\ m <= t + 1 /\ m - s + 1 = y + 1 /\ m - s = y
    BY <1>5, <1>7, <1>9, <2>1
  <2>3. todo' = SubSeq(EntriesOf(name', file'), m - s + 1, Len(name') + 1)
    BY <1>10, <1>11, <1>20, <2>2 DEF E, l
  <2>4. iter' = Rest(m)'
    BY <1>11, <2>1
  <2>5. NoFree(View', s - 1) /\ (s = 1 \/ View'[s - 1] = View[s - 1])
    <3>1. \A j \in 1..(s - 1) : j # k /\ j \in 1..L
      BY <1>4, <1>5, <1>7
    <3>2. s = 1 \/ s - 1 \in 1..(s - 1)
      BY <1>5
    <3> QED BY <1>5, <1>11, <3>1, <3>2 DEF NoFree
  <2>6. \A j \in 1..(m - s) : View'[s + j - 1] = E[j]
    <3> SUFFICES ASSUME NEW j \in 1..y PROVE View'[s + j - 1] = E[j]
      BY <2>2
    <3>1. CASE j = y
      BY <1>9, <1>11, <1>12, <3>1
    <3>2. CASE j # y
      <4>1. j \in 1..(k - s) /\ s + j - 1 # k /\ s + j - 1 \in 1..L
        BY <1>4, <1>5, <1>7, <1>9, <3>2
      <4> QED BY <1>5, <1>11, <4>1
    <3> QED BY <3>1, <3>2
  <2>7. \A i \in m..t : IsHole(View'[i])
    <3>1. \A i \in m..t : i \in k..t /\ i # k /\ i \in 1..L
      BY <1>4, <1>7, <2>1
    <3> QED BY <1>5, <1>11, <3>1
  <2>8. WritingAt(s, m, t)'
    <3>1. t = s + Len(name') /\ t <= Len(DirectoryPlaces')
      BY <1>5, <1>11, <1>20 DEF l
    <3>2. file' \notin suspect' => s = 1 \/ View'[s - 1].kind # "lfn"
      BY <1>5, <1>20, <2>5
    <3>3. \A j \in 1..(m - s) : View'[s + j - 1] = EntriesOf(name', file')[j]
      BY <1>20, <2>6 DEF E
    <3> QED BY <1>5, <1>21, <2>2, <2>3, <2>4, <2>5, <2>7, <3>1, <3>2, <3>3 DEF WritingAt
  <2> QED BY <2>8 DEF Writing
<1>23. Deleting' /\ Rewriting'
  BY <1>20 DEF Deleting, Rewriting
<1> QED BY <1>19, <1>22, <1>23 DEF PlacedOK

\* of one that is deleted,
LEMMA WriteDeletedKeeps ==
    ASSUME DirInv, WriteEntry, ~misplaced, op = "delete"
    PROVE  PlacedOK'
<1> DEFINE L == Len(DirectoryWalk)
<1>1. VolumeOK /\ TypeOK /\ CallOK /\ PlacedOK /\ DiskOK /\ fresh = <<>> /\ todo # <<>>
  BY DiskTyped DEF DirInv, WriteEntry
<1>2. PICK k \in Int, q \in Int : DeletingAt(k, q)
  BY <1>1 DEF PlacedOK, Deleting
<1>3. L \in Nat \ {0} /\ Len(todo) \in Nat \ {0} /\ Deleted.kind = "deleted"
  <2>1. Len(todo) \in Nat \ {0}
    BY <1>1 DEF CallOK
  <2> QED BY <1>1, <2>1, WalkIs DEF Deleted
<1> HIDE DEF L
<1>4. /\ k >= 1 /\ q = k + Len(todo) - 1 /\ q <= L
      /\ iter = Rest(k)
      /\ \A i \in 1..Len(todo) : todo[i] = Deleted
      /\ NameAt(View, Len(todo), q, file)
      /\ file \in File /\ names[file] # <<>> => Others(q) # {}
      /\ file \in File \ suspect =>
            /\ \A i \in Others(q) : names[file] # <<>> /\ CleanAt(View, names[file], i)
            /\ \A i, j \in Others(q) : i = j
  BY <1>1, <1>2 DEF DeletingAt, L
<1>5. k \in 1..L /\ q \in 1..L /\ k <= q /\ (k = q <=> Len(todo) = 1) /\ q - Len(todo) + 1 = k
  <2>1. PICK z \in Nat \ {0} : z = Len(todo)
    BY <1>3
  <2>2. q = k + z - 1 /\ k >= 1 /\ q <= L
    BY <1>4, <2>1
  <2>3. k \in 1..L /\ q \in 1..L /\ k <= q /\ (k = q <=> z = 1) /\ q - z + 1 = k
    BY <1>3, <2>2
  <2> QED BY <2>1, <2>3
<1> DEFINE x == Written(Head(todo), DirectoryWalk[k])
<1>6. /\ WritesAt(k, x) /\ iter' = Rest(k + 1) /\ todo' = Tail(todo)
      /\ x \in Content /\ x.kind # "free"
      /\ View'[k] = x /\ \A i \in 1..L : i # k => View'[i] = View[i]
      /\ DirectoryWalk' = DirectoryWalk
      /\ \A j : Rest(j)' = Rest(j)
      /\ DirectoryWalk[k] \in Place
      /\ Len(todo') = Len(todo) - 1 /\ todo \in Seq(Content \ {FreeSlot})
  BY <1>4, <1>5, WriteAtIs DEF L
<1>7. x = Deleted
  <2>1. x = Head(todo)
    BY <1>1, <1>6, WrittenIs
  <2> QED BY <1>3, <1>4, <1>6, <2>1
<1> HIDE DEF x
<1>8. Stands(View, file, q) /\ \A j \in k..(q - 1) : View[j].kind = "lfn"
  BY <1>4, <1>5 DEF NameAt
<1>9. \A i \in 1..L : View[i].kind = "sfn" /\ i # q => Outside(View, k, i)
  <2> SUFFICES ASSUME NEW i \in 1..L, View[i].kind = "sfn", i # q PROVE Outside(View, k, i)
    OBVIOUS
  <2>1. i \in Nat /\ k \in Nat /\ q \in Nat /\ k \in k..q /\ View[q].kind = "sfn"
    BY <1>3, <1>5, <1>8 DEF Stands
  <2> QED BY <1>8, <2>1, NameOutside
<1>10. Loose' /\ KnownFiles' /\ Visible' /\ Settled' /\ Somewhere' /\ OldPlaces' /\ Clearing'
  <2>1. \A f \in File : f # file \/ (op \in {"create", "copy"} /\ x.kind = "lfn") =>
              \A i \in 1..Len(DirectoryWalk) : Stands(View, f, i) =>
                 Outside(View, k, i) /\ (x.kind = "lfn" => Outside(View, k + 1, i))
    BY <1>3, <1>7, <1>8, <1>9 DEF Stands, L
  <2>2. View[k].kind = "sfn" => View[k].file = file
    <3>1. CASE k = q
      BY <1>8, <3>1 DEF Stands
    <3>2. CASE k # q
      <4>1. k \in k..(q - 1)
        BY <1>5, <3>2
      <4> QED BY <1>8, <4>1
    <3> QED BY <3>1, <3>2
  <2>3. k \in 1..Len(DirectoryWalk)
    BY <1>5 DEF L
  <2> QED BY <1>1, <1>3, <1>6, <1>7, <2>1, <2>2, <2>3, OthersKept
<1>11. /\ op' = op /\ file' = file /\ names' = names /\ suspect' = suspect /\ fresh' = fresh
  BY <1>6 DEF WritesAt
<1>12. todo' # <<>> <=> k # q
  <2>1. todo' \in Seq(Content \ {FreeSlot})
    BY <1>1, <1>6
  <2>2. todo' = <<>> <=> Len(todo') = 0
    BY <2>1
  <2> QED BY <1>3, <1>5, <1>6, <2>2
<1>13. \A i : i \in Others(q)' <=> i \in Others(q)
  <2> SUFFICES ASSUME NEW i \in 1..L
               PROVE  Stands(View', file, i) /\ (todo' # <<>> => i # q) <=> Stands(View, file, i) /\ i # q
    BY <1>1, <1>6, <1>11 DEF Others, L
  <2>1. CASE i = k
    <3>1. ~Stands(View', file, i)
      BY <1>3, <1>6, <1>7, <2>1 DEF Stands
    <3>2. k # q => ~Stands(View, file, k)
      <4>1. k # q => k \in k..(q - 1)
        BY <1>5
      <4> QED BY <1>8, <4>1 DEF Stands
    <3> QED BY <2>1, <3>1, <3>2
  <2>2. CASE i # k
    <3>1. Stands(View', file, i) <=> Stands(View, file, i)
      BY <1>6, <2>2 DEF Stands
    <3> QED BY <1>12, <2>2, <3>1
  <2> QED BY <2>1, <2>2
<1>14. Deleting'
  <2>1. PICK m \in Nat : m = k + 1
    BY <1>5
  <2>2. m \in Int /\ m >= 1 /\ q = m + Len(todo') - 1 /\ q <= Len(DirectoryWalk')
    BY <1>3, <1>4, <1>5, <1>6, <2>1 DEF L
  <2>3. iter' = Rest(m)' /\ fresh' = <<>>
    BY <1>1, <1>6, <1>11, <2>1
  <2>4. \A i \in 1..Len(todo') : todo'[i] = Deleted
    <3> SUFFICES ASSUME NEW i \in 1..Len(todo') PROVE todo'[i] = Deleted
      OBVIOUS
    <3>1. i + 1 \in 1..Len(todo) /\ i \in 1..(Len(todo) - 1)
      BY <1>3, <1>6
    <3>2. Tail(todo)[i] = todo[i + 1]
      BY <1>1, <1>6, <3>1
    <3> QED BY <1>4, <1>6, <3>1, <3>2
  <2>5. ASSUME todo' # <<>> PROVE NameAt(View, Len(todo), q, file)'
    <3>1. k # q
      BY <1>12, <2>5
    <3>2. Stands(View', file, q)
      BY <1>5, <1>6, <1>8, <3>1 DEF Stands
    <3>3. Len(todo') \in 1..q /\ q - Len(todo') + 1 = k + 1
      BY <1>3, <1>5, <1>6, <3>1
    <3>4. \A j \in (k + 1)..(q - 1) : j \in k..(q - 1) /\ j \in 1..L /\ j # k
      BY <1>3, <1>5
    <3>5. \A j \in (q - Len(todo') + 1)..(q - 1) : View'[j].kind = "lfn"
      BY <1>6, <1>8, <3>3, <3>4
    <3> QED BY <1>5, <1>6, <1>11, <3>2, <3>3, <3>5 DEF NameAt, L
  <2>6. file \in File /\ names[file] # <<>> => Others(q)' # {}
    BY <1>4, <1>13
  <2>7. ASSUME file \in File \ suspect
        PROVE  /\ \A i \in Others(q)' : names[file] # <<>> /\ CleanAt(View', names[file], i)
               /\ \A i, j \in Others(q)' : i = j
    <3>1. \A i, j \in Others(q)' : i = j
      BY <1>4, <1>13, <2>7
    <3>2. ASSUME NEW i \in Others(q) PROVE names[file] # <<>> /\ CleanAt(View', names[file], i)
      <4>1. names[file] # <<>> /\ CleanAt(View, names[file], i)
        BY <1>4, <2>7, <3>2
      <4>2. i \in 1..L /\ i # q /\ View[i].kind = "sfn"
        BY <1>1, <3>2 DEF Others, Stands, L
      <4>3. names[file] \in Name
        BY <1>1, <2>7, <4>1 DEF TypeOK
      <4>4. Outside(View, k, i)
        BY <1>9, <4>2
      <4>5. ASSUME NEW E, E = View' PROVE CleanAt(E, names[file], i)
        <5>1. \A y \in 1..i : y # k => E[y] = View[y]
          <6>1. \A y \in 1..i : y \in 1..L
            BY <1>3, <4>2
          <6> QED BY <1>6, <4>5, <6>1
        <5>2. E[k].kind # "lfn"
          BY <1>3, <1>6, <1>7, <4>5
        <5>3. i \in Nat /\ k \in Nat
          BY <1>3, <1>5, <4>2
        <5> QED BY <4>1, <4>3, <4>4, <5>1, <5>2, <5>3, CleanSurvives
      <4> QED BY <4>1, <4>5
    <3> QED BY <1>13, <3>1, <3>2
  <2>8. DeletingAt(m, q)'
    BY <1>11, <2>2, <2>3, <2>4, <2>5, <2>6, <2>7 DEF DeletingAt
  <2> QED BY <2>2, <2>8 DEF Deleting
<1>15. Writing' /\ Rewriting'
  BY <1>11 DEF Writing, Rewriting
<1> QED BY <1>10, <1>14, <1>15 DEF PlacedOK

\* and of one that is overwritten.
LEMMA WriteOverKeeps ==
    ASSUME DirInv, WriteEntry, ~misplaced, op = "rewrite"
    PROVE  PlacedOK'
<1> DEFINE L == Len(DirectoryWalk)
           E == EntriesOf(name, file)
           l == Len(name)
<1>1. VolumeOK /\ TypeOK /\ CallOK /\ PlacedOK /\ DiskOK /\ fresh = <<>> /\ todo # <<>>
  BY DiskTyped DEF DirInv, WriteEntry
<1>2. PICK s \in Nat, k \in Nat, t \in Nat : RewritingAt(s, k, t)
  BY <1>1 DEF PlacedOK, Rewriting
<1>3. /\ E \in Seq(Content \ {FreeSlot}) /\ Len(E) = l + 1 /\ l \in Nat \ {0}
      /\ \A j \in 1..l : E[j].kind = "lfn"
      /\ E[l + 1].kind = "sfn" /\ E[l + 1].file = file
  BY <1>1, EntriesAre DEF CallOK
<1>4. L \in Nat \ {0}
  BY <1>1, WalkIs
<1> HIDE DEF L, E, l
<1>5. /\ s >= 1 /\ s <= k /\ k <= t + 1 /\ t = s + l /\ t <= L
      /\ iter = Rest(k) /\ todo = SubSeq(E, k - s + 1, l + 1)
      /\ ~old_root
      /\ \A j \in 1..(k - s) : j <= l => View[s + j - 1] = E[j]
      /\ NameAt(View, l + 1, t, file)
      /\ s = 1 \/ View[s - 1].kind # "lfn"
      /\ file \in File \ suspect =>
            names[file] # <<>> /\ \A i \in 1..L : Stands(View, file, i) => i = t
  BY <1>2 DEF RewritingAt, E, l, L
<1>6. k # t + 1
  <2> SUFFICES ASSUME k = t + 1 PROVE FALSE
    OBVIOUS
  <2>1. k - s + 1 = l + 2
    BY <1>3, <1>5
  <2>2. todo = <<>>
    BY <1>3, <1>5, <2>1
  <2> QED BY <1>1, <2>2
<1>7. k \in 1..L /\ k <= t /\ t \in 1..L /\ s \in 1..L /\ t - (l + 1) + 1 = s
  BY <1>3, <1>4, <1>5, <1>6
<1>8. PICK y : y = k - s + 1
  OBVIOUS
<1>9. y \in 1..(l + 1) /\ s + y - 1 = k /\ (k = t <=> y = l + 1) /\ y + 1 = (k + 1) - s + 1
  BY <1>3, <1>5, <1>7, <1>8
<1>10. Head(todo) = E[y] /\ Tail(todo) = SubSeq(E, y + 1, l + 1)
  <2>1. y \in 1..(Len(E) + 1) /\ l + 1 \in 0..Len(E) /\ y <= l + 1 /\ y <= (l + 1) + 1
    BY <1>3, <1>9
  <2>2. todo = SubSeq(E, y, l + 1)
    BY <1>5, <1>8
  <2>3. E \in Seq(Content \ {FreeSlot})
    BY <1>3
  <2>4. PICK z \in Nat : z = l + 1
    BY <1>3
  <2>5. y \in 1..(Len(E) + 1) /\ z \in 0..Len(E) /\ y <= z /\ y <= z + 1
    BY <2>1, <2>4
  <2>6. Head(SubSeq(E, y, z)) = E[y] /\ Tail(SubSeq(E, y, z)) = SubSeq(E, y + 1, z)
    <3>1. PICK S : S = Content \ {FreeSlot}
      OBVIOUS
    <3>2. E \in Seq(S)
      BY <2>3, <3>1
    <3> QED BY ONLY <2>5, <3>2, SubSeqIs, SMTT(40)
  <2> QED BY <2>2, <2>4, <2>6
<1> DEFINE x == Written(Head(todo), DirectoryWalk[k])
<1>11. /\ WritesAt(k, x) /\ iter' = Rest(k + 1) /\ todo' = Tail(todo)
       /\ x \in Content /\ x.kind # "free"
       /\ View'[k] = x /\ \A i \in 1..L : i # k => View'[i] = View[i]
       /\ DirectoryWalk' = DirectoryWalk
       /\ \A j : Rest(j)' = Rest(j)
       /\ DirectoryWalk[k] \in Place /\ View[k] = disk[DirectoryWalk[k]]
  BY <1>5, <1>7, WriteAtIs DEF L
<1>12. Stands(View, file, t) /\ \A j \in s..(t - 1) : View[j].kind = "lfn"
  BY <1>5, <1>7 DEF NameAt
<1>13. /\ y # l + 1 => x = E[y] /\ x.kind = "lfn"
       /\ y = l + 1 => x.kind = "sfn" /\ x.file = file
  <2>1. CASE y # l + 1
    <3>1. E[y].kind = "lfn"
      BY <1>3, <1>9, <2>1
    <3>2. x = Head(todo)
      BY <1>1, <1>10, <1>11, <3>1, WrittenIs
    <3> QED BY <1>10, <2>1, <3>1, <3>2
  <2>2. CASE y = l + 1
    <3>1. Head(todo).kind = "sfn"
      BY <1>3, <1>10, <2>2
    <3>2. disk[DirectoryWalk[k]].kind = "sfn" /\ disk[DirectoryWalk[k]].file = file
      BY <1>9, <1>11, <1>12, <2>2 DEF Stands
    <3> QED BY <1>1, <1>11, <2>2, <3>1, <3>2, WrittenIs
  <2> QED BY <2>1, <2>2
<1> HIDE DEF x
<1>14. \A i \in 1..L, j \in s..t : View[i].kind = "sfn" /\ i # t => Outside(View, j, i)
  <2> SUFFICES ASSUME NEW i \in 1..L, NEW j \in s..t, View[i].kind = "sfn", i # t PROVE Outside(View, j, i)
    OBVIOUS
  <2>1. i \in Nat /\ View[t].kind = "sfn"
    BY <1>4, <1>12 DEF Stands
  <2> QED BY <1>12, <2>1, NameOutside
<1>15. x.kind = "sfn" => x.file = file /\ (file \in File => NoFree(View, k - 1))
  <2> SUFFICES ASSUME x.kind = "sfn" PROVE x.file = file /\ (file \in File => NoFree(View, k - 1))
    OBVIOUS
  <2>1. y = l + 1 /\ k = t
    BY <1>9, <1>13
  <2>2. file \in File => NoFree(View, t)
    BY <1>1, <1>7, <1>12 DEF PlacedOK, Visible, Stands, L
  <2>3. \A j \in 1..(k - 1) : j \in 1..t
    BY <1>7, <2>1
  <2> QED BY <1>13, <2>1, <2>2, <2>3 DEF NoFree
<1>16. Loose' /\ KnownFiles' /\ Visible' /\ Settled' /\ Somewhere' /\ OldPlaces' /\ Clearing'
  <2>1. k \in s..t /\ (x.kind = "lfn" => k + 1 \in s..t)
    <3>1. x.kind = "lfn" => k # t
      BY <1>9, <1>13
    <3> QED BY <1>5, <1>7, <3>1
  <2>2. \A f \in File : f # file \/ (op \in {"create", "copy"} /\ x.kind = "lfn") =>
              \A i \in 1..Len(DirectoryWalk) : Stands(View, f, i) =>
                 Outside(View, k, i) /\ (x.kind = "lfn" => Outside(View, k + 1, i))
    <3> SUFFICES ASSUME NEW f, f # file, NEW i \in 1..L, Stands(View, f, i)
                 PROVE  Outside(View, k, i) /\ (x.kind = "lfn" => Outside(View, k + 1, i))
      BY DEF L
    <3>1. i # t /\ View[i].kind = "sfn"
      BY <1>12 DEF Stands
    <3> QED BY <1>14, <2>1, <3>1
  <2>3. View[k].kind = "sfn" => View[k].file = file /\ x.kind = "sfn"
    <3>1. CASE k = t
      BY <1>9, <1>12, <1>13, <3>1 DEF Stands
    <3>2. CASE k # t
      <4>1. k \in s..(t - 1)
        BY <1>5, <1>7, <3>2
      <4> QED BY <1>12, <4>1
    <3> QED BY <3>1, <3>2
  <2>4. k \in 1..Len(DirectoryWalk)
    BY <1>7 DEF L
  <2> QED BY <1>1, <1>11, <1>15, <2>2, <2>3, <2>4, OthersKept
<1>17. /\ op' = op /\ file' = file /\ name' = name /\ names' = names /\ suspect' = suspect /\ fresh' = fresh
       /\ old_root' = old_root
  BY <1>11 DEF WritesAt, volume
<1>18. Rewriting'
  <2>1. PICK m \in Nat : m = k + 1
    OBVIOUS
  <2>2. s <= m /\ m <= t + 1 /\ m - s + 1 = y + 1 /\ m - s = y
    BY <1>5, <1>7, <1>9, <2>1
  <2>3. todo' = SubSeq(EntriesOf(name', file'), m - s + 1, Len(name') + 1)
    BY <1>10, <1>11, <1>17, <2>2 DEF E, l
  <2>4. iter' = Rest(m)'
    BY <1>11, <2>1
  <2>5. s = 1 \/ View'[s - 1].kind # "lfn"
    <3>1. s = 1 \/ (s - 1 \in 1..L /\ s - 1 # k)
      BY <1>4, <1>5, <1>7
    <3> QED BY <1>5, <1>11, <3>1
  <2>6. \A j \in 1..(m - s) : j <= l => View'[s + j - 1] = E[j]
    <3> SUFFICES ASSUME NEW j \in 1..y, j <= l PROVE View'[s + j - 1] = E[j]
      BY <2>2
    <3>1. CASE j = y
      <4>1. y # l + 1
        BY <1>3, <3>1
      <4> QED BY <1>9, <1>11, <1>13, <3>1, <4>1
    <3>2. CASE j # y
      <4>1. j \in 1..(k - s) /\ s + j - 1 # k /\ s + j - 1 \in 1..L
        BY <1>4, <1>5, <1>7, <1>9, <3>2
      <4> QED BY <1>5, <1>11, <4>1
    <3> QED BY <3>1, <3>2
  <2>7. NameAt(View, Len(name) + 1, t, file)'
    <3>1. Stands(View', file, t)
      BY <1>7, <1>9, <1>11, <1>12, <1>13 DEF Stands
    <3>2. ASSUME NEW j \in s..(t - 1) PROVE View'[j].kind = "lfn"
      <4>1. j \in 1..L /\ j # t
        BY <1>4, <1>7
      <4> QED BY <1>9, <1>11, <1>12, <1>13, <4>1
    <3>3. l + 1 \in 1..t
      BY <1>3, <1>5
    <3>4. \A j \in (t - (l + 1) + 1)..(t - 1) : View'[j].kind = "lfn"
      BY <1>7, <3>2
    <3> QED BY <1>7, <1>11, <1>17, <3>1, <3>3, <3>4 DEF NameAt, L, l
  <2>8. file \in File \ suspect => names[file] # <<>> /\ \A i \in 1..L : Stands(View', file, i) => i = t
    <3> SUFFICES ASSUME file \in File \ suspect, NEW i \in 1..L, Stands(View', file, i) PROVE i = t
      BY <1>5
    <3>1. CASE i = k
      BY <1>9, <1>11, <1>13, <3>1 DEF Stands
    <3>2. CASE i # k
      <4>1. Stands(View, file, i)
        BY <1>11, <3>2 DEF Stands
      <4> QED BY <1>5, <4>1
    <3> QED BY <3>1, <3>2
  <2>9. RewritingAt(s, m, t)'
    <3>1. t = s + Len(name') /\ t <= Len(DirectoryWalk') /\ fresh' = <<>> /\ ~old_root'
      BY <1>1, <1>5, <1>11, <1>17 DEF l, L
    <3>2. \A j \in 1..(m - s) : j <= Len(name') => View'[s + j - 1] = EntriesOf(name', file')[j]
      BY <1>17, <2>6 DEF E, l
    <3>3. file' \in File \ suspect' =>
             names'[file'] # <<>> /\ \A i \in 1..Len(DirectoryWalk') : Stands(View', file', i) => i = t
      BY <1>11, <1>17, <2>8 DEF L
    <3> QED BY <1>5, <2>2, <2>3, <2>4, <2>5, <2>7, <3>1, <3>2, <3>3 DEF RewritingAt
  <2> QED BY <2>9 DEF Rewriting
<1>19. Writing' /\ Deleting'
  BY <1>17 DEF Writing, Deleting
<1> QED BY <1>16, <1>18, <1>19 DEF PlacedOK

\* An entry is written, of a new name, over an old one, or as a deleted one.
LEMMA WriteEntryKeeps == ASSUME DirInv, WriteEntry PROVE DirInv'
<1>1. /\ fresh = <<>> /\ todo # <<>> /\ EntryComes
      /\ disk' = [disk EXCEPT ![Head(iter)] = Written(Head(todo), Head(iter))]
      /\ iter' = Tail(iter) /\ todo' = Tail(todo)
      /\ UNCHANGED <<volume, fat>> /\ op' = op /\ name' = name /\ entry' = entry /\ file' = file
      /\ names' = names /\ suspect' = suspect /\ misplaced' = misplaced /\ fresh' = fresh
  BY DEF WriteEntry, history
<1>2. VolumeOK /\ TypeOK /\ CallOK /\ DiskOK /\ (~misplaced => PlacedOK)
  BY DiskTyped DEF DirInv
<1>3. old_root' = old_root /\ blocks_per_cluster' = blocks_per_cluster /\ start' = start /\ fat' = fat
  BY <1>1 DEF volume
<1>4. VolumeOK' /\ Place' = Place
  BY <1>1, <1>2, <1>3, SameWalk DEF VolumeOK
<1>5. Head(iter) \in Place
  BY <1>1 DEF EntryComes
<1> DEFINE x == Written(Head(todo), Head(iter))
<1>6. x \in Content /\ Tail(todo) \in Seq(Content \ {FreeSlot})
  BY <1>1, <1>5, WrittenIs
<1> HIDE DEF x
<1>7. op # "none"
  BY <1>1, <1>2 DEF TypeOK
<1>8. TypeOK'
  <2>1. disk' = [disk EXCEPT ![Head(iter)] = x]
    BY <1>1 DEF x
  <2>2. disk' \in [Place' -> {FreeSlot, Deleted} \union LfnEntry \union SfnEntry]
    BY <1>2, <1>4, <1>6, <2>1 DEF DiskOK, Content
  <2> QED BY <1>1, <1>2, <1>3, <1>7, <2>2 DEF TypeOK
<1>9. CallOK'
  <2>1. Finding' = Finding
    BY <1>4 DEF Finding
  <2> QED BY <1>1, <1>2, <1>6, <2>1 DEF CallOK
<1>10. FreshOK'
  BY <1>1 DEF FreshOK
<1>11. ASSUME ~misplaced' PROVE PlacedOK'
  <2>1. ~misplaced
    BY <1>1, <1>11
  <2>2. op \in {"create", "copy", "delete", "rewrite"}
    BY <1>2, <1>7 DEF TypeOK
  <2> QED BY <2>1, <2>2, WriteNameKeeps, WriteDeletedKeeps, WriteOverKeeps
<1> QED BY <1>4, <1>8, <1>9, <1>10, <1>11 DEF DirInv

(***************************************************************************)
(* The directory in every state                                            *)
(***************************************************************************)
\* A new directory: free entries, and behind it those of other owners.
LEMMA InitKeeps == ASSUME Init PROVE DirInv
<1>1. /\ old_root \in BOOLEAN /\ blocks_per_cluster \in ClusterSizes
      /\ start \in IF old_root THEN {0} ELSE Cluster
      /\ op = "none" /\ file = "none" /\ iter = <<>> /\ todo = <<>> /\ fresh = <<>>
      /\ names = [f \in File |-> <<>>] /\ suspect = {}
  BY DEF Init
<1>2. PICK free \in SUBSET (Cluster \ {start}) : fat = [c \in Cluster |-> IF c \in free THEN Free ELSE EndOfChain]
  BY DEF Init
<1>3. PICK dots \in {0, 2} :
          disk = [p \in Place |->
                        IF old_root /\ p < RootSlots THEN FreeSlot
                        ELSE IF ClusterOf(p) # start THEN Sfn(ShortName(<<"old">>), Old)
                        ELSE IF p - FirstPlace(start) < dots THEN Sfn(ShortName(<<".">>), Dot)
                        ELSE FreeSlot]
  BY DEF Init
<1>4. fat \in Table
  BY <1>2 DEF Table, FatValue
<1>5. ~old_root => IsChain(fat, start, <<start>>) /\ start \in Cluster
  <2> SUFFICES ASSUME ~old_root PROVE IsChain(fat, start, <<start>>) /\ start \in Cluster
    OBVIOUS
  <2>1. start \in Cluster
    BY <1>1
  <2>2. <<start>> \in Seq(Cluster) /\ Len(<<start>>) = 1 /\ <<start>>[1] = start
    BY <2>1
  <2>3. fat[start] = EndOfChain
    BY <1>2, <2>1
  <2>4. \A d \in Cluster : fat[d] \in {Free, EndOfChain}
    BY <1>2
  <2> QED BY <2>1, <2>2, <2>3, <2>4 DEF IsChain
<1>6. VolumeOK
  BY <1>1, <1>4, <1>5 DEF VolumeOK
<1>7. /\ FreeSlot \in Content /\ FreeSlot.kind = "free"
      /\ Sfn(ShortName(<<"old">>), Old) \in Content /\ Sfn(ShortName(<<"old">>), Old).kind = "sfn"
      /\ Sfn(ShortName(<<"old">>), Old).file = Old
      /\ Sfn(ShortName(<<".">>), Dot) \in Content /\ Sfn(ShortName(<<".">>), Dot).kind = "sfn"
      /\ Sfn(ShortName(<<".">>), Dot).file = Dot
  <2>1. Sfn(ShortName(<<"old">>), Old) \in SfnEntry /\ Sfn(ShortName(<<".">>), Dot) \in SfnEntry
    BY DEF Sfn, SfnEntry
  <2> QED BY <2>1 DEF Content, Sfn, FreeSlot
<1>8. ASSUME NEW p \in Place
      PROVE  /\ disk[p] \in Content
             /\ disk[p].kind = "free" \/ (disk[p].kind = "sfn" /\ disk[p].file \in {Old, Dot})
             /\ old_root /\ p < RootSlots => disk[p].kind = "free"
             /\ ~(old_root /\ p < RootSlots) /\ ClusterOf(p) # start => disk[p].kind = "sfn" /\ disk[p].file = Old
             /\ ClusterOf(p) = start => ~(disk[p].kind = "sfn" /\ disk[p].file = Old)
  <2>1. disk[p] = IF old_root /\ p < RootSlots THEN FreeSlot
                  ELSE IF ClusterOf(p) # start THEN Sfn(ShortName(<<"old">>), Old)
                  ELSE IF p - FirstPlace(start) < dots THEN Sfn(ShortName(<<".">>), Dot)
                  ELSE FreeSlot
    BY <1>3
  <2>2. Old # Dot
    BY DirectoryAssumption
  <2> QED BY <1>7, <2>1, <2>2
<1>9. disk \in [Place -> Content]
  <2>1. disk = [p \in Place |-> disk[p]]
    BY <1>3
  <2> QED BY <1>8, <2>1
<1>10. TypeOK
  <2>1. names \in [File -> Name \union {<<>>}]
    BY <1>1
  <2> QED BY <1>1, <1>4, <1>9, <2>1 DEF TypeOK, Content
<1>11. FreshOK /\ CallOK
  <2>1. <<>> \in Seq(Content \ {FreeSlot})
    OBVIOUS
  <2> QED BY <1>1, <2>1 DEF FreshOK, CallOK
<1> DEFINE L == Len(DirectoryWalk)
<1>12. /\ DirectoryWalk \in Seq(Place)
       /\ \A i \in 1..L : View[i] = disk[DirectoryWalk[i]] /\ DirectoryWalk[i] \in Place
  <2>1. DirectoryWalk \in Seq(Place)
    BY <1>6, WalkIs
  <2>2. \A i \in 1..L : View[i] = disk[DirectoryWalk[i]]
    BY <1>6, <1>9, ViewIs DEF DiskOK
  <2>3. \A i \in 1..L : DirectoryWalk[i] \in Place
    <3>1. \A S : \A s \in Seq(S) : \A i \in 1..Len(s) : s[i] \in S
      OBVIOUS
    <3> QED BY <2>1, <3>1
  <2> QED BY <2>1, <2>2, <2>3
<1>13. \A f \in File : \A i \in 1..L : ~Stands(View, f, i)
  <2> SUFFICES ASSUME NEW f \in File, NEW i \in 1..L PROVE ~Stands(View, f, i)
    OBVIOUS
  <2>1. f # Old /\ f # Dot
    BY DirectoryAssumption
  <2> HIDE DEF L
  <2>2. View[i].kind = "free" \/ View[i].file \in {Old, Dot}
    BY <1>8, <1>12
  <2> QED BY <2>1, <2>2 DEF Stands
<1>14. ~old_root =>
          /\ \A p \in Place : (\A i \in 1..L : DirectoryWalk[i] # p) => ClusterOf(p) # start
          /\ \A i \in 1..L : ClusterOf(DirectoryWalk[i]) = start
  <2> SUFFICES ASSUME ~old_root
               PROVE  /\ \A p \in Place : (\A i \in 1..L : DirectoryWalk[i] # p) => ClusterOf(p) # start
                      /\ \A i \in 1..L : ClusterOf(DirectoryWalk[i]) = start
    OBVIOUS
  <2> DEFINE cs == <<start>>
  <2>1. DirectoryWalk = [i \in 1..(Len(cs) * ClusterSlots) |-> PlaceIn(cs, i)]
    BY <1>5, <1>6, ChainWalk
  <2>2. cs \in Seq(Cluster) /\ Len(cs) = 1 /\ \A q : q \in 0..0 => cs[q + 1] = start
    BY <1>5
  <2>3. ClusterSlots \in Nat \ {0} /\ RootSlots = 0
    BY <1>6, Sizes
  <2> HIDE DEF cs
  <2>4. Len(cs) * ClusterSlots = ClusterSlots
    BY <2>2, <2>3
  <2>5. Len(DirectoryWalk) = ClusterSlots /\ \A i \in 1..ClusterSlots : DirectoryWalk[i] = PlaceIn(cs, i)
    BY <2>1, <2>3, <2>4
  <2>6. ASSUME NEW i \in 1..ClusterSlots
        PROVE  (i - 1) \div ClusterSlots = 0 /\ (i - 1) % ClusterSlots = i - 1
    <3>1. i = (0 * ClusterSlots) + (i - 1) + 1 /\ i - 1 \in 0..(ClusterSlots - 1) /\ 0 \in 0..(1 - 1)
      BY <2>3
    <3> QED BY <2>3, <3>1, OfCluster
  <2>7. ASSUME NEW i \in 1..ClusterSlots PROVE ClusterOf(DirectoryWalk[i]) = start
    <3>1. ClusterOf(PlaceIn(cs, i)) = cs[((i - 1) \div ClusterSlots) + 1]
      BY <1>6, <2>2, <2>4, PlaceInIs
    <3> QED BY <2>2, <2>5, <2>6, <3>1
  <2>8. ASSUME NEW p \in Place, ClusterOf(p) = start PROVE \E i \in 1..ClusterSlots : DirectoryWalk[i] = p
    <3>1. p >= RootSlots
      BY <2>3 DEF Place
    <3>2. PICK r \in 0..(ClusterSlots - 1) : p = SlotOf(start, r)
      BY <1>6, <2>8, <3>1, PlaceSplit
    <3>3. r + 1 \in 1..ClusterSlots /\ (r + 1) - 1 = r
      BY <2>3
    <3>4. DirectoryWalk[r + 1] = SlotOf(cs[(((r + 1) - 1) \div ClusterSlots) + 1], ((r + 1) - 1) % ClusterSlots)
      BY <2>5, <3>3 DEF PlaceIn
    <3>5. ((r + 1) - 1) \div ClusterSlots = 0 /\ ((r + 1) - 1) % ClusterSlots = r
      BY <2>6, <3>3
    <3>6. DirectoryWalk[r + 1] = SlotOf(start, r)
      BY <2>2, <3>4, <3>5
    <3> QED BY <3>2, <3>3, <3>6
  <2> QED BY <2>5, <2>7, <2>8
<1>15. Loose
  <2> SUFFICES ASSUME NEW p \in Place, \A i \in 1..L : DirectoryWalk[i] # p
               PROVE  disk[p].kind = "free" \/ (disk[p].kind = "sfn" /\ disk[p].file = Old)
    BY DEF Loose
  <2>1. CASE ~old_root
    BY <1>8, <1>14, <2>1
  <2>2. CASE old_root /\ p < RootSlots
    BY <1>8, <2>2
  <2>3. CASE old_root /\ ~(p < RootSlots)
    <3>1. p >= RootSlots
      <4>1. RootSlots \in Nat /\ p \in Nat
        BY <1>6, Sizes, PlaceNumbers
      <4> QED BY <2>3, <4>1
    <3>2. ClusterOf(p) \in Cluster
      BY <1>6, <3>1, PlaceSplit
    <3>3. ClusterOf(p) # start
      BY <1>1, <2>3, <3>2 DEF Cluster
    <3> QED BY <1>8, <2>3, <3>3
  <2> QED BY <2>1, <2>2, <2>3
<1> HIDE DEF L
<1>16. KnownFiles /\ Visible
  <2>1. KnownFiles
    BY <1>1, <1>8, <1>12 DEF KnownFiles, L
  <2>2. Visible
    BY <1>13 DEF Visible, Stands, L
  <2> QED BY <2>1, <2>2
<1>17. Settled /\ Somewhere
  <2>1. \A f \in File : names[f] = <<>>
    BY <1>1
  <2> QED BY <1>13, <2>1 DEF Settled, Somewhere, KeptAs, KeptIn, L
<1>18. OldPlaces
  <2>1. ~old_root => \A i \in 1..L : ~Stands(View, Old, i)
    BY <1>8, <1>12, <1>14 DEF Stands
  <2>2. old_root => \A p \in Place : p < RootSlots => ~(disk[p].kind = "sfn" /\ disk[p].file = Old)
    BY <1>8
  <2> QED BY <1>1, <2>1, <2>2 DEF OldPlaces, L
<1>19. Writing /\ Clearing /\ Deleting /\ Rewriting
  BY <1>1 DEF Writing, Clearing, Deleting, Rewriting
<1> QED BY <1>6, <1>10, <1>11, <1>15, <1>16, <1>17, <1>18, <1>19 DEF DirInv, PlacedOK

\* Steps of others.
LEMMA FrameKeeps == ASSUME DirInv, UNCHANGED <<volume, fat, disk, call, history>> PROVE DirInv'
<1>1. /\ UNCHANGED <<volume, fat, disk>> /\ op' = op /\ name' = name /\ entry' = entry /\ file' = file
      /\ iter' = iter /\ todo' = todo /\ fresh' = fresh
      /\ names' = names /\ suspect' = suspect /\ misplaced' = misplaced
  BY DEF call, history
<1>2. /\ DirectoryWalk' = DirectoryWalk /\ DirectoryPlaces' = DirectoryPlaces /\ View' = View
      /\ Clusters' = Clusters /\ Before' = Before
      /\ VolumeOK' = VolumeOK /\ Loose' = Loose /\ Visible' = Visible /\ Overrun' = Overrun
      /\ old_root' = old_root /\ RootSlots' = RootSlots /\ Place' = Place /\ disk' = disk
      /\ ClusterSlots' = ClusterSlots /\ blocks_per_cluster' = blocks_per_cluster
      /\ \A k : Rest(k)' = Rest(k)
      /\ \A p : BlockOf(p)' = BlockOf(p)
  BY <1>1, SameDirectory
<1>3. fat' = fat
  BY <1>1
<1>4. TypeOK' = TypeOK
  BY <1>1, <1>2, <1>3 DEF TypeOK
<1>5. FreshOK' = FreshOK
  <2>1. \A c : FreshOf(c)' = FreshOf(c)
    BY <1>2 DEF FreshOf
  <2>2. (FreshOf(Clusters[Len(Clusters)]))' = FreshOf(Clusters[Len(Clusters)])
    BY <1>2 DEF FreshOf
  <2> QED BY <1>1, <1>2, <2>2 DEF FreshOK
<1>6. CallOK' = CallOK
  <2>1. Finding' = Finding
    BY <1>2 DEF Finding
  <2> QED BY <1>1, <2>1 DEF CallOK
<1>7. KnownFiles' = KnownFiles /\ Somewhere' = Somewhere /\ OldPlaces' = OldPlaces
  BY <1>1, <1>2 DEF KnownFiles, Somewhere, OldPlaces
<1>8. Settled' = Settled
  BY <1>1, <1>2 DEF Settled, Resting, KeptAs
<1>9. \A s, t : Source(s, t)' = Source(s, t)
  BY <1>1, <1>2 DEF Source, NameAt
<1>10. Writing' = Writing
  BY <1>1, <1>2, <1>9, SMTT(120) DEF Writing, WritingAt
<1>11. Clearing' = Clearing
  <2>1. (Source(Before + 1, Len(DirectoryWalk)))' = Source(Before + 1, Len(DirectoryWalk))
    BY <1>1, <1>2 DEF Source, NameAt
  <2> QED BY <1>1, <1>2, <2>1 DEF Clearing
<1>12. Deleting' = Deleting
  BY <1>1, <1>2 DEF Deleting, DeletingAt, Others, NameAt
<1>13. Rewriting' = Rewriting
  <2>1. \A s, k, t : RewritingAt(s, k, t)' = RewritingAt(s, k, t)
    <3> SUFFICES ASSUME NEW s, NEW k, NEW t PROVE RewritingAt(s, k, t)' = RewritingAt(s, k, t)
      OBVIOUS
    <3>1. NameAt(View, Len(name) + 1, t, file)' = NameAt(View, Len(name) + 1, t, file)
      BY <1>1, <1>2 DEF NameAt
    <3> QED BY <1>1, <1>2, <3>1 DEF RewritingAt
  <2> QED BY <1>1, <2>1 DEF Rewriting
<1> QED BY <1>1, <1>2, <1>4, <1>5, <1>6, <1>7, <1>8, <1>10, <1>11, <1>12, <1>13 DEF DirInv, PlacedOK

\* Every step of a call keeps what is known of the directory.
LEMMA NextKeeps == ASSUME DirInv, Next PROVE DirInv'
<1>1. ASSUME NEW n \in Name, BeginCreate(n) PROVE DirInv'
  BY <1>1, BeginCreateKeeps
<1>2. ASSUME NEW n \in Name, BeginDelete(n) PROVE DirInv'
  BY <1>2, BeginDeleteKeeps
<1>3. ASSUME NEW o \in Name, NEW n \in Name, BeginRename(o, n) PROVE DirInv'
  BY <1>3, BeginRenameKeeps
<1>4. CASE Clean
  BY <1>4, CleanKeeps
<1>5. CASE WriteEntry
  BY <1>5, WriteEntryKeeps
<1>6. CASE NoNextEntry
  BY <1>6, NoNextEntryKeeps
<1>7. CASE CreateDone
  BY <1>7, CreateDoneKeeps
<1>8. CASE RewriteDone
  BY <1>8, RewriteDoneKeeps
<1>9. CASE CopyDone
  BY <1>9, CopyDoneKeeps
<1>10. CASE DeleteDone
  BY <1>10, DeleteDoneKeeps
<1>11. CASE Stop
  BY <1>11, StopKeeps
<1>12. CASE CleanFails
  BY <1>12, CleanFailsKeeps
<1>13. CASE LinkUnread
  BY <1>13, LinkUnreadKeeps
<1> QED BY <1>1, <1>2, <1>3, <1>4, <1>5, <1>6, <1>7, <1>8, <1>9, <1>10, <1>11, <1>12, <1>13 DEF Next

(***************************************************************************)
(* Behaviours                                                              *)
(***************************************************************************)
\* A step is one of the caller that writes, or leaves the directory alone.
LEMMA ReaderSteps ==
    ASSUME ReaderNext \/ UNCHANGED <<dvars, reader>>
    PROVE  Next \/ UNCHANGED <<volume, fat, disk, call, panicked, history>>
<1>1. ASSUME UNCHANGED dvars PROVE UNCHANGED <<volume, fat, disk, call, panicked, history>>
  BY <1>1 DEF dvars
<1>2. CASE Open \/ Take \/ FreeEnd \/ ChainEnd \/ ReadOn \/ UNCHANGED <<dvars, reader>>
  <2>1. UNCHANGED dvars
    BY <1>2 DEF Open, Take, FreeEnd, ChainEnd, ReadOn
  <2> QED BY <1>1, <2>1
<1>3. CASE EntryFails \/ LinkFails
  BY <1>3 DEF EntryFails, LinkFails
<1>4. CASE Write
  BY <1>4 DEF Write
<1> QED BY <1>2, <1>3, <1>4 DEF ReaderNext

\* So does every step, of readers too.
LEMMA DirInvStep == ASSUME DirInv, ReaderNext \/ UNCHANGED <<dvars, reader>> PROVE DirInv'
<1>1. CASE Next
  BY <1>1, NextKeeps
<1>2. CASE UNCHANGED <<volume, fat, disk, call, panicked, history>>
  BY <1>2, FrameKeeps
<1> QED BY <1>1, <1>2, ReaderSteps

\* What a directory holds between two writes, for every directory, every caller and every
\* number of failures: create_file, unlink and rename of directory/mod.rs keep it.
THEOREM DirInvHolds == ReaderSpec => []DirInv
<1>1. InitReader => DirInv
  BY InitKeeps DEF InitReader
<1>2. DirInv /\ [ReaderNext]_<<dvars, reader>> => DirInv'
  BY DirInvStep
<1> QED BY <1>1, <1>2, PTL DEF ReaderSpec

\* next().unwrap() panics only when next() returns None: in NoNextEntry, and in LinkUnread.
LEMMA UnwrapStep ==
    ASSUME DirInv, UnwrapSafe, ReaderNext \/ UNCHANGED <<dvars, reader>>
    PROVE  UnwrapSafe'
<1> DEFINE Quiet == panicked' = panicked /\ unread' = unread /\ (misplaced => misplaced')
<1>1. CASE NoNextEntry
  <2>1. misplaced
    <3>1. fresh = <<>> /\ todo # <<>> /\ ~EntryComes
      BY <1>1 DEF NoNextEntry
    <3> QED BY <3>1, Comes
  <2>2. misplaced' = misplaced
    BY <1>1 DEF NoNextEntry
  <2> QED BY <2>1, <2>2 DEF UnwrapSafe
<1>2. ASSUME Quiet PROVE UnwrapSafe'
  BY <1>2 DEF UnwrapSafe
<1>3. ASSUME NEW f, NEW k, AllocateEntries(f, k) PROVE misplaced => misplaced'
  BY <1>3 DEF AllocateEntries, TakeHole, TakeCluster
<1>4. ASSUME NEW n \in Name, BeginCreate(n) PROVE Quiet
  BY <1>3, <1>4 DEF BeginCreate
<1>5. ASSUME NEW n \in Name, BeginDelete(n) PROVE Quiet
  BY <1>5 DEF BeginDelete
<1>6. ASSUME NEW o \in Name, NEW n \in Name, BeginRename(o, n) PROVE Quiet
  BY <1>3, <1>6 DEF BeginRename
<1>7. CASE Clean \/ WriteEntry \/ CreateDone \/ RewriteDone \/ CopyDone \/ DeleteDone \/ Stop \/ CleanFails
  <2>1. CASE Clean \/ WriteEntry \/ CleanFails
    <3>1. Quiet
      BY <2>1 DEF Clean, WriteEntry, CleanFails, history
    <3> QED BY <1>2, <3>1
  <2>2. CASE CreateDone \/ RewriteDone \/ DeleteDone \/ Stop
    <3>1. Quiet
      BY <2>2 DEF CreateDone, RewriteDone, DeleteDone, Stop
    <3> QED BY <1>2, <3>1
  <2>3. CASE CopyDone
    <3>1. Quiet
      BY <2>3 DEF CopyDone
    <3> QED BY <1>2, <3>1
  <2> QED BY <1>7, <2>1, <2>2, <2>3
<1>8. CASE UNCHANGED <<volume, fat, disk, call, panicked, history>>
  BY <1>2, <1>8 DEF history
<1>9. CASE LinkUnread
  BY <1>9 DEF LinkUnread, UnwrapSafe
<1> QED BY <1>1, <1>2, <1>4, <1>5, <1>6, <1>7, <1>8, <1>9, ReaderSteps DEF Next

\* The unwraps of create_dir_entry and rename are safe when the call began at a place that
\* suits it and every table entry on the iterator's way was read: the iterator does not end
\* before the last entry is written.
THEOREM UnwrapSafeHolds == ReaderSpec => []UnwrapSafe
<1>1. InitReader => DirInv /\ UnwrapSafe
  BY InitKeeps DEF InitReader, Init, UnwrapSafe
<1>2. DirInv /\ UnwrapSafe /\ [ReaderNext]_<<dvars, reader>> => (DirInv /\ UnwrapSafe)'
  BY DirInvStep, UnwrapStep
<1> QED BY <1>1, <1>2, PTL DEF ReaderSpec

\* What stands before the first free entry is found.
LEMMA Found ==
    ASSUME DirInv
    PROVE  /\ Listing \in Seq(Finding) /\ Len(Listing) \in Nat
           /\ \E pos \in [1..Len(Listing) -> 1..Len(DirectoryWalk)] :
                 /\ \A x, y \in 1..Len(Listing) : pos[x] = pos[y] => x = y
                 /\ \A x \in 1..Len(Listing) : FoundAt(View, Listing[x], pos[x])
                 /\ \A p \in 1..Len(DirectoryWalk) : View[p].kind = "sfn" /\ NoFree(View, p) =>
                       \E x \in 1..Len(Listing) : pos[x] = p
<1>1. VolumeOK /\ DiskOK
  BY DiskTyped DEF DirInv
<1>2. Listing \in Seq(Finding) /\ FoundIs(View, Listing, Len(DirectoryWalk))
  BY <1>1, ListingIs
<1>3. Len(Listing) \in Nat
  BY <1>2
<1> QED BY <1>2, <1>3 DEF FoundIs

\* Every file stands before the first free entry.
LEMMA Listed == ASSUME DirInv PROVE FilesListed
<1> SUFFICES ASSUME ~misplaced, NEW f \in File, names[f] # <<>>
             PROVE  \E e \in ToSet(Listing) : e.file = f
  BY DEF FilesListed
<1>1. PlacedOK /\ TypeOK
  BY DEF DirInv
<1>2. PICK i \in 1..Len(DirectoryWalk) : Stands(View, f, i)
  <2>1. CASE op = "delete" /\ f = file
    <3>1. PICK k \in Int, q \in Int : DeletingAt(k, q)
      BY <1>1, <2>1 DEF PlacedOK, Deleting
    <3>2. Others(q) # {}
      BY <2>1, <3>1 DEF DeletingAt
    <3> QED BY <2>1, <3>2 DEF Others
  <2>2. CASE ~(op = "delete" /\ f = file)
    BY <1>1, <2>2 DEF PlacedOK, Somewhere
  <2> QED BY <2>1, <2>2
<1>3. View[i].kind = "sfn" /\ View[i].file = f /\ NoFree(View, i)
  BY <1>1, <1>2 DEF PlacedOK, Visible, Stands
<1>4. PICK pos \in [1..Len(Listing) -> 1..Len(DirectoryWalk)] :
         /\ \A x \in 1..Len(Listing) : FoundAt(View, Listing[x], pos[x])
         /\ \A p \in 1..Len(DirectoryWalk) : View[p].kind = "sfn" /\ NoFree(View, p) =>
               \E x \in 1..Len(Listing) : pos[x] = p
  BY Found
<1>5. PICK x \in 1..Len(Listing) : pos[x] = i
  BY <1>3, <1>4
<1>6. Listing[x].file = f
  BY <1>3, <1>4, <1>5 DEF FoundAt
<1>7. Listing[x] \in ToSet(Listing)
  BY <1>5, Found DEF ToSet
<1> QED BY <1>6, <1>7

\* An entry that is returned and that no call is about stands for a file under its name.
LEMMA Exact == ASSUME DirInv PROVE ListingExact
<1> SUFFICES ASSUME ~misplaced, ~Overrun PROVE ListingExact
  BY DEF ListingExact
<1>1. PlacedOK /\ TypeOK /\ VolumeOK /\ DiskOK
  BY DiskTyped DEF DirInv
<1> DEFINE found == Listing
           settled == {i \in 1..Len(found) : found[i].file \notin Unsettled}
<1>2. PICK pos \in [1..Len(Listing) -> 1..Len(DirectoryWalk)] :
         /\ \A x, y \in 1..Len(Listing) : pos[x] = pos[y] => x = y
         /\ \A x \in 1..Len(Listing) : FoundAt(View, Listing[x], pos[x])
         /\ \A p \in 1..Len(DirectoryWalk) : View[p].kind = "sfn" /\ NoFree(View, p) =>
               \E x \in 1..Len(Listing) : pos[x] = p
  BY Found
<1>3. ASSUME NEW g \in File \ Unsettled PROVE KeptAs(View, names[g], g)
  <2>1. g \notin suspect /\ Resting(g)
    BY <1>3 DEF Unsettled, Resting
  <2> QED BY <1>1, <2>1 DEF PlacedOK, Settled
<1>4. ASSUME NEW x \in 1..Len(Listing), Listing[x].file \notin Unsettled
      PROVE  /\ Stands(View, Listing[x].file, pos[x]) /\ NoFree(View, pos[x])
             /\ pos[x] \in 1..Len(DirectoryWalk)
             /\ Listing[x].file \in File
  <2>1. /\ View[pos[x]].kind = "sfn" /\ NoFree(View, pos[x]) /\ Listing[x].file = View[pos[x]].file
        /\ pos[x] \in 1..Len(DirectoryWalk)
    BY <1>2, <1>4 DEF FoundAt
  <2>2. Stands(View, Listing[x].file, pos[x])
    BY <2>1 DEF Stands
  <2>3. Listing[x].file \in File \union {Old, Dot} /\ Listing[x].file # Dot
    BY <1>1, <1>4, <2>1 DEF PlacedOK, KnownFiles, Unsettled
  <2>4. Listing[x].file # Old
    <3> SUFFICES ASSUME Listing[x].file = Old PROVE FALSE
      OBVIOUS
    <3>1. Old \notin suspect /\ fresh = <<>>
      BY <1>4 DEF Unsettled
    <3>2. CASE old_root
      <4>1. OldPlaces
        BY <1>1 DEF PlacedOK
      <4>2. ~Stands(View, Old, pos[x])
        BY <1>1, <2>1, <3>2, <4>1, OldUnseen
      <4> QED BY <2>2, <4>2
    <3>3. CASE ~old_root
      BY <1>1, <2>1, <2>2, <3>1, <3>3 DEF PlacedOK, OldPlaces
    <3> QED BY <3>2, <3>3
  <2> QED BY <2>1, <2>2, <2>3, <2>4
<1>5. ASSUME NEW x \in 1..Len(Listing), Listing[x].file \notin Unsettled
      PROVE  /\ names[Listing[x].file] # <<>> /\ Listing[x].name = names[Listing[x].file]
             /\ \A j \in 1..Len(DirectoryWalk) : Stands(View, Listing[x].file, j) => j = pos[x]
  <2> DEFINE g == Listing[x].file
  <2>1. g \in File \ Unsettled /\ Stands(View, g, pos[x]) /\ pos[x] \in 1..Len(DirectoryWalk)
    BY <1>4, <1>5
  <2>2. KeptAs(View, names[g], g)
    BY <1>3, <2>1
  <2>3. /\ names[g] # <<>> /\ CleanAt(View, names[g], pos[x])
        /\ \A j \in 1..Len(DirectoryWalk) : Stands(View, g, j) => j = pos[x]
    <3> HIDE DEF g
    <3> QED BY <2>1, <2>2 DEF KeptAs, KeptIn
  <2>4. names[g] \in Name
    <3> HIDE DEF g
    <3> QED BY <1>1, <2>1, <2>3 DEF TypeOK
  <2>5. names[g] \in Seq(Word)
    BY <2>4, NamesAre
  <2>6. FoundAt(View, Listing[x], pos[x])
    BY <1>2
  <2>7. Listing[x].name = names[g]
    <3> HIDE DEF g
    <3> QED BY <2>3, <2>5, <2>6 DEF FoundAt
  <2> QED BY <2>3, <2>7
<1>6. ASSUME NEW g \in File \ Unsettled, names[g] # <<>>
      PROVE  \E x \in 1..Len(Listing) : Listing[x].file = g
  <2>1. KeptAs(View, names[g], g)
    BY <1>3, <1>6
  <2>2. PICK i \in 1..Len(DirectoryWalk) : Stands(View, g, i)
    BY <1>6, <2>1 DEF KeptAs, KeptIn
  <2>3. View[i].kind = "sfn" /\ View[i].file = g /\ NoFree(View, i)
    BY <1>1, <2>2 DEF PlacedOK, Visible, Stands
  <2>4. PICK x \in 1..Len(Listing) : pos[x] = i
    BY <1>2, <2>3
  <2>5. Listing[x].file = g
    BY <1>2, <2>3, <2>4 DEF FoundAt
  <2> QED BY <2>5
<1>7. \A i, j \in settled : found[i].file = found[j].file => i = j
  <2> SUFFICES ASSUME NEW i \in settled, NEW j \in settled, found[i].file = found[j].file PROVE i = j
    OBVIOUS
  <2>1. pos[j] \in 1..Len(DirectoryWalk) /\ Stands(View, Listing[i].file, pos[j])
    BY <1>4
  <2>2. pos[j] = pos[i]
    BY <1>5, <2>1
  <2> QED BY <1>2, <2>2
<1>8. {<<found[i].file, found[i].name>> : i \in settled}
        = {<<f, names[f]>> : f \in {g \in File \ Unsettled : names[g] # <<>>}}
  <2> DEFINE S == {<<found[i].file, found[i].name>> : i \in settled}
             T == {<<f, names[f]>> : f \in {g \in File \ Unsettled : names[g] # <<>>}}
  <2>1. ASSUME NEW i \in settled PROVE <<found[i].file, found[i].name>> \in T
    <3>1. found[i].file \in File \ Unsettled /\ names[found[i].file] # <<>> /\ found[i].name = names[found[i].file]
      BY <1>4, <1>5
    <3> QED BY <3>1
  <2>2. ASSUME NEW g \in File \ Unsettled, names[g] # <<>> PROVE <<g, names[g]>> \in S
    <3>1. PICK x \in 1..Len(Listing) : Listing[x].file = g
      BY <1>6, <2>2
    <3>2. x \in settled /\ found[x].name = names[g]
      BY <1>5, <3>1
    <3> QED BY <3>1, <3>2
  <2> QED BY <2>1, <2>2
<1> QED BY <1>7, <1>8 DEF ListingExact

\* No file is lost: create_file, unlink and rename, at every write, and stopped there.
THEOREM FilesListedHolds == ReaderSpec => []FilesListed
<1>1. DirInv => FilesListed
  BY Listed
<1> QED BY <1>1, DirInvHolds, PTL

\* A listing returns what was created, renamed and not deleted, under its name and once.
THEOREM ListingExactHolds == ReaderSpec => []ListingExact
<1>1. DirInv => ListingExact
  BY Exact
<1> QED BY <1>1, DirInvHolds, PTL

(***************************************************************************)
(* The reader                                                              *)
(***************************************************************************)
Returning == [file : File \union {Old, Dot, "none"}, name : Seq(Word)]

\* When there is no cluster to go on with nothing is known of one behind it.
Readers == {r \in
           [state : {"none", "waits", "open"}, filter : SUBSET (File \union {Old}),
            places : Seq(Place), next : Cluster \union {0}, link : FatValue, scan : ScanState,
            count : Nat, got : Seq(Returning), some : BOOLEAN, ended : BOOLEAN,
            touched : SUBSET (File \union {Old, Dot, "none"}), calls : Nat,
            failed : SUBSET {"entry", "link"}] : r.next = 0 => ~IsData(r.link)}

\* A reader that is put at another place is a reader.
LEMMA RecordMoves ==
    ASSUME NEW A, NEW B, NEW C, NEW D, NEW E, NEW F, NEW G, NEW H, NEW I, NEW J, NEW K, NEW L, NEW M,
           NEW r \in [state : A, filter : B, places : C, next : D, link : E, scan : F, count : G, got : H,
                      some : I, ended : J, touched : K, calls : L, failed : M],
           NEW c \in C, NEW d \in D, NEW e \in E
    PROVE  [r EXCEPT !.places = c, !.next = d, !.link = e]
              \in [state : A, filter : B, places : C, next : D, link : E, scan : F, count : G, got : H,
                   some : I, ended : J, touched : K, calls : L, failed : M]
OBVIOUS

\* The reader returns what it was asked for.
ReaderOK ==
    /\ reader \in Readers
    /\ reader.state # "open" => reader.got = <<>>
    /\ \A i \in DOMAIN reader.got : reader.got[i].file \in reader.filter

\* The places of a cluster.
LEMMA ClusterPlacesAre ==
    ASSUME VolumeOK, NEW c \in Cluster
    PROVE  /\ ClusterPlaces(c) \in Seq(Place) /\ Len(ClusterPlaces(c)) = ClusterSlots
           /\ ClusterSlots \in Nat \ {0}
           /\ \A i \in 1..ClusterSlots : ClusterPlaces(c)[i] = SlotOf(c, i - 1)
<1>1. ClusterSlots \in Nat \ {0}
  BY Sizes
<1>2. RootSlots \in Nat /\ FirstPlace(c) \in Int
  BY Sizes, <1>1, ClusterCountAssumption, SMT DEF FirstPlace, Cluster
<1>3. ASSUME NEW i \in 1..ClusterSlots PROVE FirstPlace(c) + i - 1 = SlotOf(c, i - 1) /\ SlotOf(c, i - 1) \in Place
  <2>1. i - 1 \in 0..(ClusterSlots - 1)
    BY <1>1
  <2> QED BY <1>2, <2>1, SlotIs DEF SlotOf
<1>4. ClusterPlaces(c) \in [1..ClusterSlots -> Place]
  BY <1>3 DEF ClusterPlaces
<1>5. \A i \in 1..ClusterSlots : ClusterPlaces(c)[i] = SlotOf(c, i - 1)
  BY <1>3 DEF ClusterPlaces
<1> QED BY <1>1, <1>4, <1>5

\* FatClusterIter::next
LEMMA Entered ==
    ASSUME VolumeOK, reader \in Readers, ~AtEnd(reader)
    PROVE  LET r == EnterCluster(reader) IN
           /\ r \in Readers /\ r.places # <<>> /\ Head(r.places) \in Place
           /\ Passed(r) \in Readers /\ Passed(r).places = Tail(r.places) /\ Passed(r).scan = r.scan
           /\ r.state = reader.state /\ r.filter = reader.filter /\ r.scan = reader.scan
           /\ r.count = reader.count /\ r.got = reader.got /\ r.some = reader.some /\ r.ended = reader.ended
           /\ r.touched = reader.touched /\ r.calls = reader.calls /\ r.failed = reader.failed
<1> DEFINE r == EnterCluster(reader)
<1>1. reader.places \in Seq(Place) /\ reader.next \in Cluster \union {0} /\ reader.link \in FatValue
      /\ fat \in [Cluster -> FatValue]
  BY DEF Readers, VolumeOK, Table
<1>2. /\ r \in Readers /\ r.places # <<>>
      /\ r.state = reader.state /\ r.filter = reader.filter /\ r.scan = reader.scan
      /\ r.count = reader.count /\ r.got = reader.got /\ r.some = reader.some /\ r.ended = reader.ended
      /\ r.touched = reader.touched /\ r.calls = reader.calls /\ r.failed = reader.failed
  <2>1. CASE reader.places # <<>>
    BY <2>1 DEF EnterCluster
  <2>2. CASE reader.places = <<>>
    <3> DEFINE ps == ClusterPlaces(reader.next)
               x  == IF IsData(reader.link) THEN reader.link ELSE 0
               l  == IF IsData(reader.link) THEN fat[reader.link] ELSE Free
    <3>1. reader.next \in Cluster
      BY <1>1, <2>2 DEF AtEnd
    <3>2. ps \in Seq(Place) /\ ps # <<>>
      <4>1. ps \in Seq(Place) /\ Len(ps) \in Nat \ {0}
        BY <3>1, ClusterPlacesAre
      <4> HIDE DEF ps
      <4> QED BY <4>1
    <3>3. x \in Cluster \union {0} /\ l \in FatValue /\ (x = 0 => ~IsData(l))
      BY <1>1, ClusterCountAssumption DEF IsData, FatValue, Free, Cluster
    <3>4. r = [reader EXCEPT !.places = ps, !.next = x, !.link = l]
      BY <2>2 DEF EnterCluster
    <3> HIDE DEF ps, x, l, r
    <3> QED BY <3>2, <3>3, <3>4 DEF Readers
  <2> QED BY <2>1, <2>2
<1> HIDE DEF r
<1>3. r.places \in Seq(Place)
  BY <1>2 DEF Readers
<1>4. Head(r.places) \in Place /\ Tail(r.places) \in Seq(Place)
  BY <1>2, <1>3
<1>5. Passed(r) \in Readers /\ Passed(r).places = Tail(r.places) /\ Passed(r).scan = r.scan
  BY <1>2, <1>4 DEF Passed, Readers
<1> QED BY <1>2, <1>4, <1>5 DEF r

\* open_directory
LEMMA OpenedIs ==
    ASSUME DirInv, reader \in Readers, NEW w \in Filters, NEW d \in SUBSET {"entry", "link"}
    PROVE  /\ Opened(w) \in Readers /\ Opened(w).got = reader.got /\ Opened(w).state = "open"
           /\ [Opened(w) EXCEPT !.link = Free, !.failed = d] \in Readers
           /\ [Opened(w) EXCEPT !.link = Free, !.failed = d].got = reader.got
           /\ [Opened(w) EXCEPT !.link = Free, !.failed = d].state = "open"
<1>1. VolumeOK /\ DiskOK /\ CallOK
  BY DiskTyped DEF DirInv
<1> DEFINE n == Cardinality({i \in DOMAIN Listing : Accepted(w, Listing[i].file)})
           t == IF op = "none" THEN {} ELSE {file}
           r == [reader EXCEPT !.state = "open", !.filter = w, !.count = n, !.touched = t]
<1>2. n \in Nat
  <2>1. Listing \in Seq(Finding)
    BY <1>1, ListingIs
  <2>2. DOMAIN Listing = 1..Len(Listing) /\ Len(Listing) \in Nat
    BY <2>1
  <2>3. IsFiniteSet(1..Len(Listing))
    BY <2>2, FS_Interval
  <2>4. IsFiniteSet({i \in DOMAIN Listing : Accepted(w, Listing[i].file)})
    BY <2>2, <2>3, FS_Subset
  <2> QED BY <2>4, FS_CardinalityType
<1>3. w \in SUBSET (File \union {Old}) /\ t \in SUBSET (File \union {Old, Dot, "none"})
  BY <1>1, ReaderAssumption DEF CallOK
<1>4. r \in Readers /\ r.got = reader.got /\ r.state = "open"
  <2> HIDE DEF n, t
  <2> QED BY <1>2, <1>3 DEF Readers
<1>5. Opened(w) = AtStart(r)
  BY DEF Opened
<1> HIDE DEF r
<1>6. \E ps \in Seq(Place), x \in Cluster \union {0}, k \in FatValue : (x = 0 => ~IsData(k)) /\
         AtStart(r) = [r EXCEPT !.places = ps, !.next = x, !.link = k]
  <2>1. CASE old_root
    <3>1. RootWalk(0) \in Seq(Place)
      BY <1>1, <2>1, WalkIs DEF DirectoryWalk
    <3>2. 0 \in Cluster \union {0} /\ Free \in FatValue /\ ~IsData(Free)
      BY ClusterCountAssumption DEF FatValue, IsData, Free, Cluster
    <3>3. AtStart(r) = [r EXCEPT !.places = RootWalk(0), !.next = 0, !.link = Free]
      BY <2>1 DEF AtStart
    <3> QED BY <3>1, <3>2, <3>3
  <2>2. CASE ~old_root
    <3>1. start \in Cluster /\ start # 0 /\ fat[start] \in FatValue
      BY <1>1, <2>2, ClusterCountAssumption DEF VolumeOK, Table, Cluster
    <3>2. <<>> \in Seq(Place)
      OBVIOUS
    <3>3. AtStart(r) = [r EXCEPT !.places = <<>>, !.next = start, !.link = fat[start]]
      BY <2>2 DEF AtStart
    <3> QED BY <3>1, <3>2, <3>3
  <2> QED BY <2>1, <2>2
<1>7. PICK ps \in Seq(Place), x \in Cluster \union {0}, k \in FatValue : (x = 0 => ~IsData(k)) /\
         AtStart(r) = [r EXCEPT !.places = ps, !.next = x, !.link = k]
  BY <1>6
<1>8. AtStart(r) \in Readers /\ AtStart(r).got = reader.got /\ AtStart(r).state = "open"
  <2> DEFINE z == [r EXCEPT !.places = ps, !.next = x, !.link = k]
  <2>1. z \in Readers
    <3>1. ps \in Seq(Place) /\ x \in Cluster \union {0} /\ k \in FatValue /\ (x = 0 => ~IsData(k))
      BY <1>7
    <3>2. z \in [state : {"none", "waits", "open"}, filter : SUBSET (File \union {Old}),
            places : Seq(Place), next : Cluster \union {0}, link : FatValue, scan : ScanState,
            count : Nat, got : Seq(Returning), some : BOOLEAN, ended : BOOLEAN,
            touched : SUBSET (File \union {Old, Dot, "none"}), calls : Nat,
            failed : SUBSET {"entry", "link"}]
      BY ONLY <1>4, <3>1, RecordMoves DEF Readers
    <3>3. z.next = x /\ z.link = k
      BY ONLY <1>4 DEF Readers
    <3> QED BY ONLY <3>1, <3>2, <3>3 DEF Readers
  <2>2. z.got = r.got /\ z.state = r.state
    BY <1>4 DEF Readers
  <2> QED BY <1>4, <1>7, <2>1, <2>2
<1>9. /\ [AtStart(r) EXCEPT !.link = Free, !.failed = d] \in Readers
      /\ [AtStart(r) EXCEPT !.link = Free, !.failed = d].got = reader.got
      /\ [AtStart(r) EXCEPT !.link = Free, !.failed = d].state = "open"
  <2> DEFINE z == AtStart(r)
  <2>1. Free \in FatValue /\ ~IsData(Free)
    BY ClusterCountAssumption DEF FatValue, IsData, Free, Cluster
  <2>2. z \in Readers /\ z.got = reader.got /\ z.state = "open"
    BY <1>8
  <2> HIDE DEF z
  <2>3. /\ [z EXCEPT !.link = Free, !.failed = d] \in Readers
        /\ [z EXCEPT !.link = Free, !.failed = d].got = reader.got
        /\ [z EXCEPT !.link = Free, !.failed = d].state = "open"
    BY <2>1, <2>2 DEF Readers
  <2> QED BY <2>3 DEF z
<1> QED BY <1>5, <1>8, <1>9

\* Which directory it is does not change.
LEMMA VolumeStays == ASSUME Next PROVE UNCHANGED volume
<1>1. ASSUME NEW n \in Name, BeginCreate(n) \/ BeginDelete(n) PROVE UNCHANGED volume
  BY <1>1 DEF BeginCreate, BeginDelete
<1>2. ASSUME NEW o \in Name, NEW n \in Name, BeginRename(o, n) PROVE UNCHANGED volume
  BY <1>2 DEF BeginRename
<1>3. CASE Clean \/ WriteEntry \/ NoNextEntry \/ CreateDone \/ RewriteDone \/ CopyDone \/ DeleteDone
           \/ Stop \/ LinkUnread \/ CleanFails
  BY <1>3 DEF Clean, WriteEntry, NoNextEntry, CreateDone, RewriteDone, CopyDone, DeleteDone, Stop, LinkUnread,
              CleanFails
<1> QED BY <1>1, <1>2, <1>3 DEF Next

\* Nor do the types of a reader.
LEMMA ReadersStay == ASSUME UNCHANGED volume PROVE Readers' = Readers
<1>1. Place' = Place
  BY DEF volume, Place, RootSlots, ClusterSlots
<1>2. Finding' = Finding
  BY <1>1 DEF Finding
<1>3. ScanState' = ScanState
  BY <1>1, <1>2 DEF ScanState
<1> QED BY <1>1, <1>3 DEF Readers, Returning

\* One entry for DirectoryEntryIterator::next
LEMMA TakeReads == ASSUME DirInv, ReaderOK, Take PROVE ReaderOK'
<1> DEFINE r == EnterCluster(reader)
           s == ScanEntry(r.scan, Head(r.places))
           q == Passed(r)
<1>1. VolumeOK /\ DiskOK /\ reader \in Readers
  BY DiskTyped DEF DirInv, ReaderOK
<1>2. /\ reader.state = "open" /\ ~AtEnd(reader) /\ UNCHANGED dvars
      /\ reader' = IF s.found = <<>> THEN [q EXCEPT !.scan = [s EXCEPT !.places = <<>>]]
                   ELSE [Returned(q, Last(s.found)) EXCEPT !.scan = ScanStart]
  BY DEF Take, Reading
<1>3. /\ r \in Readers /\ Head(r.places) \in Place /\ q \in Readers
      /\ r.filter = reader.filter /\ r.got = reader.got /\ r.state = reader.state
  BY <1>1, <1>2, Entered
<1>4. q.filter = reader.filter /\ q.got = reader.got /\ q.state = "open"
  <2>1. q.filter = r.filter /\ q.got = r.got /\ q.state = r.state
    <3> HIDE DEF r
    <3> QED BY <1>3 DEF Passed, Readers
  <2> QED BY <1>2, <1>3, <2>1
<1>5. s \in ScanState
  <2>1. r.scan \in ScanState
    <3> HIDE DEF r
    <3> QED BY <1>3 DEF Readers
  <2> QED BY <1>1, <1>3, <2>1, ScanIs
<1> HIDE DEF r, s, q
<1>6. Readers' = Readers
  BY <1>2, ReadersStay DEF dvars
<1>7. CASE s.found = <<>>
  <2>1. reader' = [q EXCEPT !.scan = [s EXCEPT !.places = <<>>]]
    BY <1>2, <1>7
  <2>2. <<>> \in Seq(Place)
    OBVIOUS
  <2>3. [s EXCEPT !.places = <<>>] \in ScanState
    BY <1>5, <2>2 DEF ScanState
  <2>4. reader' \in Readers /\ reader'.got = q.got /\ reader'.filter = q.filter /\ reader'.state = q.state
    BY <1>3, <2>1, <2>3 DEF Readers
  <2> QED BY <1>4, <1>6, <2>4 DEF ReaderOK
<1>8. CASE s.found # <<>>
  <2> DEFINE e == Last(s.found)
             z == Returned(q, e)
  <2>1. e \in Finding
    <3>1. s.found \in Seq(Finding)
      BY <1>5 DEF ScanState
    <3> QED BY <1>8, <3>1 DEF Last
  <2> HIDE DEF e
  <2>2. [file |-> e.file, name |-> e.name] \in Returning
    BY <2>1 DEF Finding, Returning
  <2>3. /\ z \in Readers /\ z.filter = q.filter /\ z.state = q.state
        /\ z.got = q.got \/ (e.file \in q.filter /\ z.got = Append(q.got, [file |-> e.file, name |-> e.name]))
    <3>1. CASE Accepted(q.filter, e.file)
      <4>1. z = [q EXCEPT !.got = Append(@, [file |-> e.file, name |-> e.name]), !.some = TRUE]
        BY <3>1 DEF Returned
      <4>2. q.got \in Seq(Returning)
        BY <1>3 DEF Readers
      <4>3. Append(q.got, [file |-> e.file, name |-> e.name]) \in Seq(Returning)
        BY <2>2, <4>2
      <4> HIDE DEF z
      <4> QED BY <1>3, <3>1, <4>1, <4>3 DEF Readers, Accepted
    <3>2. CASE ~Accepted(q.filter, e.file)
      BY <1>3, <3>2 DEF Returned
    <3> QED BY <3>1, <3>2
  <2> HIDE DEF z
  <2>4. reader' = [z EXCEPT !.scan = ScanStart]
    BY <1>2, <1>8 DEF z, e
  <2>5. reader' \in Readers /\ reader'.got = z.got /\ reader'.filter = z.filter /\ reader'.state = z.state
    BY <2>3, <2>4, StartIs DEF Readers
  <2>6. \A i \in DOMAIN reader'.got : reader'.got[i].file \in reader'.filter
    <3>1. \A i \in DOMAIN q.got : q.got[i].file \in q.filter
      BY <1>4 DEF ReaderOK
    <3>2. q.got \in Seq(Returning)
      BY <1>3 DEF Readers
    <3>3. CASE z.got = q.got
      BY <2>3, <2>5, <3>1, <3>3
    <3>4. CASE e.file \in q.filter /\ z.got = Append(q.got, [file |-> e.file, name |-> e.name])
      <4> DEFINE g == q.got
                 a == [file |-> e.file, name |-> e.name]
      <4>1. a.file = e.file
        OBVIOUS
      <4> HIDE DEF g, a
      <4>2. ASSUME NEW i \in DOMAIN Append(g, a) PROVE Append(g, a)[i].file \in q.filter
        <5>1. g \in Seq(Returning) /\ Len(g) \in Nat
          BY <3>2 DEF g
        <5>2. i \in 1..(Len(g) + 1)
          BY <5>1
        <5>3. CASE i = Len(g) + 1
          BY <3>4, <4>1, <5>1, <5>3
        <5>4. CASE i # Len(g) + 1
          <6>1. i \in DOMAIN g /\ Append(g, a)[i] = g[i]
            BY <5>1, <5>2, <5>4
          <6> QED BY <3>1, <6>1 DEF g
        <5> QED BY <5>3, <5>4
      <4>3. reader'.got = Append(g, a) /\ reader'.filter = q.filter
        BY <2>3, <2>5, <3>4 DEF g, a
      <4> QED BY <4>2, <4>3
    <3> QED BY <2>3, <3>3, <3>4
  <2>7. reader'.state = "open"
    BY <1>4, <2>3, <2>5
  <2> QED BY <1>6, <2>5, <2>6, <2>7 DEF ReaderOK
<1> QED BY <1>7, <1>8

\* Every step keeps what is known of the reader.
LEMMA ReaderStep ==
    ASSUME DirInv, DirInv', ReaderOK, ReaderNext \/ UNCHANGED <<dvars, reader>>
    PROVE  ReaderOK'
<1>1. reader \in Readers /\ VolumeOK
  BY DEF ReaderOK, DirInv
<1>2. Readers' = Readers
  <2>1. UNCHANGED volume
    BY ReaderSteps, VolumeStays
  <2> QED BY <2>1, ReadersStay
<1>3. ASSUME reader' \in Readers, reader'.got = reader.got, reader'.filter = reader.filter,
             reader'.state = reader.state
      PROVE  ReaderOK'
  BY <1>2, <1>3 DEF ReaderOK
<1>4. ASSUME NEW w \in Filters, reader.state = "waits", NEW r \in Readers, reader' = r, r.got = reader.got, r.state = "open"
      PROVE  ReaderOK'
  <2>1. reader.got = <<>>
    BY <1>4 DEF ReaderOK
  <2>2. DOMAIN reader'.got = {}
    BY <1>4, <2>1
  <2> QED BY <1>2, <1>4, <2>2 DEF ReaderOK
<1>5. Free \in FatValue /\ fat \in Table /\ ~IsData(Free)
  BY <1>1, ClusterCountAssumption DEF FatValue, VolumeOK, IsData, Free, Cluster
<1>6. CASE Open
  <2>1. reader.state = "waits" /\ \E w \in Filters : reader' = Opened(w)
    BY <1>6 DEF Open
  <2>2. PICK w \in Filters : reader' = Opened(w)
    BY <2>1
  <2>3. Opened(w) \in Readers /\ Opened(w).got = reader.got /\ Opened(w).state = "open"
    BY <1>1, <1>5, OpenedIs
  <2> QED BY <1>4, <2>1, <2>2, <2>3
<1>7. CASE FreeEnd
  <2> DEFINE r == EnterCluster(reader)
  <2>1. ~AtEnd(reader) /\ reader' = [Passed(r) EXCEPT !.ended = TRUE, !.scan = ScanStart]
    BY <1>7 DEF FreeEnd
  <2>2. /\ r \in Readers /\ Passed(r) \in Readers /\ r.state = reader.state /\ r.filter = reader.filter
        /\ r.got = reader.got
    BY <1>1, <2>1, Entered
  <2> HIDE DEF r
  <2>3. Passed(r).got = r.got /\ Passed(r).state = r.state /\ Passed(r).filter = r.filter
    BY <2>2 DEF Passed, Readers
  <2>4. /\ reader' \in Readers /\ reader'.got = reader.got /\ reader'.filter = reader.filter
        /\ reader'.state = reader.state
    BY <2>1, <2>2, <2>3, StartIs DEF Readers
  <2> QED BY <1>3, <2>4
<1>8. CASE ChainEnd \/ ReadOn
  <2>1. /\ reader' \in Readers /\ reader'.got = reader.got /\ reader'.filter = reader.filter
        /\ reader'.state = reader.state
    BY <1>1, <1>8, StartIs DEF ChainEnd, ReadOn, Readers
  <2> QED BY <1>3, <2>1
<1>9. CASE EntryFails
  <2> DEFINE r == EnterCluster(reader)
  <2>1. ~AtEnd(reader) /\ reader' = [r EXCEPT !.scan = ScanStart, !.failed = @ \union {"entry"}]
    BY <1>9 DEF EntryFails
  <2>2. r \in Readers /\ r.state = reader.state /\ r.filter = reader.filter /\ r.got = reader.got
    BY <1>1, <2>1, Entered
  <2> HIDE DEF r
  <2>3. r.failed \union {"entry"} \in SUBSET {"entry", "link"}
    BY <2>2 DEF Readers
  <2>4. /\ reader' \in Readers /\ reader'.got = reader.got /\ reader'.filter = reader.filter
        /\ reader'.state = reader.state
    BY <2>1, <2>2, <2>3, StartIs DEF Readers
  <2> QED BY <1>3, <2>4
<1>10. CASE LinkFails
  <2>1. CASE reader.state = "waits" /\ \E w \in Filters : reader' = [Opened(w) EXCEPT !.link = Free, !.failed = {"link"}]
    <3>1. PICK w \in Filters : reader' = [Opened(w) EXCEPT !.link = Free, !.failed = {"link"}]
      BY <2>1
    <3>2. {"link"} \in SUBSET {"entry", "link"}
      OBVIOUS
    <3> DEFINE r == [Opened(w) EXCEPT !.link = Free, !.failed = {"link"}]
    <3>3. r \in Readers /\ r.got = reader.got /\ r.state = "open"
      BY <1>1, <1>5, <3>2, OpenedIs
    <3> QED BY <1>4, <2>1, <3>1, <3>3
  <2>2. CASE /\ Reading /\ reader.places = <<>> /\ IsData(reader.link)
             /\ reader' = [EnterCluster(reader) EXCEPT !.link = Free, !.failed = @ \union {"link"}]
    <3> DEFINE r == EnterCluster(reader)
    <3>1. CASE AtEnd(reader)
      <4>1. reader.next = 0 /\ IsData(reader.link)
        BY <2>2, <3>1 DEF AtEnd
      <4> QED BY <1>1, <4>1 DEF Readers
    <3>2. CASE ~AtEnd(reader)
      <4>1. reader' = [r EXCEPT !.link = Free, !.failed = @ \union {"link"}]
        BY <2>2
      <4>2. r \in Readers /\ r.state = reader.state /\ r.filter = reader.filter /\ r.got = reader.got
        BY <1>1, <3>2, Entered
      <4> HIDE DEF r
      <4>3. r.failed \union {"link"} \in SUBSET {"entry", "link"}
        BY <4>2 DEF Readers
      <4>4. /\ reader' \in Readers /\ reader'.got = reader.got /\ reader'.filter = reader.filter
            /\ reader'.state = reader.state
        BY <1>5, <4>1, <4>2, <4>3 DEF Readers
      <4> QED BY <1>3, <4>4
    <3> QED BY <3>1, <3>2
  <2> QED BY <1>10, <2>1, <2>2 DEF LinkFails
<1>11. CASE Write
  <2> DEFINE t == IF reader.state = "open" THEN reader.touched \union {file'} ELSE reader.touched
  <2>1. reader' = IF reader.state = "none" \/ op # "none" THEN reader
                  ELSE [reader EXCEPT !.calls = @ + 1, !.touched = t]
    BY <1>11 DEF Write
  <2>2. t \in SUBSET (File \union {Old, Dot, "none"}) /\ reader.calls \in Nat
    BY <1>1 DEF Readers, DirInv, CallOK
  <2>3. /\ reader' \in Readers /\ reader'.got = reader.got /\ reader'.filter = reader.filter
        /\ reader'.state = reader.state
    <3> HIDE DEF t
    <3>1. CASE reader' = reader
      BY <1>1, <3>1
    <3>2. CASE reader' = [reader EXCEPT !.calls = @ + 1, !.touched = t]
      <4> DEFINE n == reader.calls + 1
      <4>1. n \in Nat
        BY <2>2
      <4>2. reader' = [reader EXCEPT !.calls = n, !.touched = t]
        BY <3>2
      <4> HIDE DEF n
      <4> QED BY <1>1, <2>2, <4>1, <4>2 DEF Readers
    <3> QED BY <2>1, <3>1, <3>2 DEF t
  <2> QED BY <1>3, <2>3
<1>12. CASE Take
  BY <1>12, TakeReads
<1>13. CASE UNCHANGED <<dvars, reader>>
  <2>1. reader' = reader
    BY <1>13
  <2> QED BY <1>1, <1>3, <2>1
<1> QED BY <1>6, <1>7, <1>8, <1>9, <1>10, <1>11, <1>12, <1>13 DEF ReaderNext

\* Before a directory is opened nothing was returned.
LEMMA ReaderBegins == ASSUME InitReader PROVE ReaderOK
<1>1. DirInv
  BY InitKeeps DEF InitReader
<1> DEFINE q == [NoReader EXCEPT !.state = "waits"]
<1>2. Free \in FatValue /\ ~IsData(Free)
  BY ClusterCountAssumption DEF FatValue, IsData, Free, Cluster
<1>3. /\ <<>> \in Seq(Place) /\ <<>> \in Seq(Returning) /\ 0 \in Nat
      /\ {} \in SUBSET (File \union {Old}) /\ {} \in SUBSET (File \union {Old, Dot, "none"})
  OBVIOUS
<1>4. NoReader \in Readers /\ NoReader.got = <<>> /\ NoReader.state = "none"
  BY <1>2, <1>3, StartIs DEF NoReader, Readers
<1>5. q \in Readers /\ q.got = <<>> /\ q.state = "waits"
  BY <1>2, <1>3, StartIs DEF NoReader, Readers
<1>6. reader = NoReader \/ reader = q
  BY DEF InitReader, NoReader
<1> HIDE DEF q
<1>7. reader.got = <<>> /\ reader.state # "open" /\ reader \in Readers
  BY <1>4, <1>5, <1>6
<1>8. DOMAIN reader.got = {}
  BY <1>7
<1> QED BY <1>7, <1>8 DEF ReaderOK

\* The variables have their types, and read returns what open_directory was asked for: no
\* entry that the filter does not accept comes through, also after accesses that failed.
THEOREM ReaderTypeHolds == ReaderSpec => []ReaderTypeOK
<1>1. InitReader => DirInv /\ ReaderOK
  BY InitKeeps, ReaderBegins DEF InitReader
<1>2. DirInv /\ ReaderOK /\ [ReaderNext]_<<dvars, reader>> => (DirInv /\ ReaderOK)'
  BY DirInvStep, ReaderStep
<1>3. DirInv /\ ReaderOK => ReaderTypeOK
  BY DEF DirInv, ReaderOK, Readers, ReaderTypeOK
<1> QED BY <1>1, <1>2, <1>3, PTL DEF ReaderSpec

(***************************************************************************)
(* The other caller, beside a reader                                       *)
(***************************************************************************)
\* The directory keeps its places and may get more behind them.
Longer ==
    /\ Len(DirectoryWalk') \in Nat /\ Len(DirectoryWalk) <= Len(DirectoryWalk')
    /\ \A i \in 1..Len(DirectoryWalk) : DirectoryWalk'[i] = DirectoryWalk[i]
    /\ ClusterSlots' = ClusterSlots /\ old_root' = old_root
    /\ old_root => DirectoryWalk' = DirectoryWalk
    /\ ~old_root => /\ Len(Clusters) <= Len(Clusters')
                    /\ \A i \in 1..Len(Clusters) : Clusters'[i] = Clusters[i]

\* A step that is not about f leaves it where it is.
Spares(f) ==
    /\ names'[f] = names[f] /\ f \notin suspect
    /\ \A i \in 1..Len(DirectoryWalk') : Stands(View, f, i)' => i \in 1..Len(DirectoryWalk) /\ Stands(View, f, i)

\* The way through the directory is as long as the table makes it.
LEMMA SameLonger == ASSUME VolumeOK, UNCHANGED <<volume, fat>> PROVE Longer
<1>1. DirectoryWalk' = DirectoryWalk /\ Clusters' = Clusters /\ ClusterSlots' = ClusterSlots /\ old_root' = old_root
  BY SameWalk DEF Clusters, volume
<1>2. Len(DirectoryWalk) \in Nat /\ (~old_root => Len(Clusters) \in Nat)
  BY WalkIs, ChainIs DEF ChainOK
<1> QED BY <1>1, <1>2 DEF Longer

\* Where no entry of f is written, none stands that did not.
LEMMA StillStands ==
    ASSUME VolumeOK, UNCHANGED <<volume, fat>>, NEW f,
           \A x \in Place : disk'[x].kind = "sfn" /\ disk'[x].file = f => disk[x].kind = "sfn" /\ disk[x].file = f
    PROVE  \A i \in 1..Len(DirectoryWalk') :
              Stands(View, f, i)' => i \in 1..Len(DirectoryWalk) /\ Stands(View, f, i)
<1>1. DirectoryWalk' = DirectoryWalk
  BY SameWalk
<1>2. DirectoryWalk \in Seq(Place) /\ Len(DirectoryWalk) \in Nat
  BY WalkIs
<1>3. ASSUME NEW i \in 1..Len(DirectoryWalk'), Stands(View, f, i)' PROVE i \in 1..Len(DirectoryWalk) /\ Stands(View, f, i)
  <2>1. i \in 1..Len(DirectoryWalk) /\ DirectoryWalk[i] \in Place
    BY <1>1, <1>2, <1>3
  <2>2. View[i] = disk[DirectoryWalk[i]] /\ View'[i] = disk'[DirectoryWalk[i]]
    BY <1>1, <2>1 DEF View
  <2>3. View'[i].kind = "sfn" /\ View'[i].file = f
    BY <1>3 DEF Stands
  <2> QED BY <2>1, <2>2, <2>3 DEF Stands
<1> QED BY <1>3

\* A step that writes nothing spares the files that keep their names.
LEMMA QuietSpares ==
    ASSUME DirInv, UNCHANGED <<volume, fat, disk>>, NEW f, names'[f] = names[f], f \notin suspect
    PROVE  Spares(f)
<1>1. VolumeOK
  BY DEF DirInv
<1>2. \A x \in Place : disk'[x].kind = "sfn" /\ disk'[x].file = f => disk[x].kind = "sfn" /\ disk[x].file = f
  OBVIOUS
<1> QED BY <1>1, <1>2, StillStands DEF Spares

\* clean_cluster_data spares every file.
LEMMA CleanSpares ==
    ASSUME DirInv, Clean, NEW f \in File, f \notin suspect
    PROVE  Spares(f)
<1>1. VolumeOK /\ UNCHANGED <<volume, fat>> /\ names' = names
  BY DEF DirInv, Clean, history
<1>2. ASSUME NEW x \in Place PROVE disk'[x] = FreeSlot \/ disk'[x] = disk[x]
  BY DEF Clean
<1>3. FreeSlot.kind # "sfn"
  BY DEF FreeSlot
<1>4. \A x \in Place : disk'[x].kind = "sfn" /\ disk'[x].file = f => disk[x].kind = "sfn" /\ disk[x].file = f
  BY <1>2, <1>3
<1> QED BY <1>1, <1>4, StillStands DEF Spares

\* An entry that is written stands for the file of its call.
LEMMA WriteSpares ==
    ASSUME DirInv, ~misplaced, WriteEntry, NEW f \in File, f \notin suspect, f # file
    PROVE  Spares(f)
<1>1. VolumeOK /\ UNCHANGED <<volume, fat>> /\ names' = names /\ fresh = <<>> /\ todo # <<>> /\ CallOK /\ PlacedOK /\ TypeOK
  BY DEF DirInv, WriteEntry, history
<1>2. PICK k \in 1..Len(DirectoryWalk) : iter = Rest(k)
  BY <1>1, Comes
<1> DEFINE p == DirectoryWalk[k]
           x == Written(Head(todo), p)
<1>3. disk' = [disk EXCEPT ![p] = x] /\ p \in Place /\ todo \in Seq(Content \ {FreeSlot})
  BY <1>2, WriteAtIs DEF WritesAt
<1>4. disk \in [Place -> Content]
  BY <1>1, DiskTyped DEF DiskOK
<1>5. /\ op # "rewrite" => x = Head(todo)
      /\ Head(todo).kind # "sfn" => x = Head(todo)
      /\ op = "rewrite" /\ Head(todo).kind = "sfn" => x.kind = "sfn" /\ (disk[p].kind = "sfn" => x.file = disk[p].file)
  BY <1>1, <1>3, WrittenIs
<1>6. Head(todo).kind = "sfn" => op # "delete" /\ Head(todo).file = file
  <2>1. op # "none"
    BY <1>1 DEF TypeOK
  <2>2. CASE op = "delete"
    <3>1. PICK i \in Int, q \in Int : DeletingAt(i, q)
      BY <1>1, <2>2 DEF PlacedOK, Deleting
    <3>2. todo[1] = Deleted
      BY <1>1, <1>3, <3>1 DEF DeletingAt
    <3> QED BY <1>1, <1>3, <3>2 DEF Deleted
  <2>3. ASSUME op # "delete", NEW a \in Nat, a >= 1, todo = SubSeq(EntriesOf(name, file), a, Len(name) + 1)
        PROVE  Head(todo).kind = "sfn" => Head(todo).file = file
    <3> DEFINE E == EntriesOf(name, file)
               N == Len(name)
    <3>1. name \in Name /\ file \in File \union {Old, Dot, "none"}
      BY <1>1, <2>1, <2>3 DEF CallOK, TypeOK
    <3>2. E \in Seq(Content \ {FreeSlot}) /\ Len(E) = N + 1 /\ N \in Nat \ {0}
          /\ (\A j \in 1..N : E[j].kind = "lfn") /\ E[N + 1].file = file
      BY <3>1, EntriesAre
    <3> HIDE DEF E, N
    <3>3. a <= N + 1 /\ Head(todo) = E[a]
      <4>1. todo = SubSeq(E, a, N + 1)
        BY <2>3 DEF E, N
      <4> QED BY <1>1, <2>3, <3>2, <4>1
    <3>4. CASE a = N + 1
      BY <3>2, <3>3, <3>4
    <3>5. CASE a # N + 1
      <4>1. a \in 1..N
        BY <2>3, <3>2, <3>3, <3>5
      <4> QED BY <3>2, <3>3, <4>1
    <3> QED BY <3>4, <3>5
  <2>4. CASE op \in {"create", "copy"}
    <3>1. PICK s \in Nat, i \in Nat, t \in Nat : WritingAt(s, i, t)
      BY <1>1, <2>4 DEF PlacedOK, Writing
    <3>2. s <= i /\ todo = SubSeq(EntriesOf(name, file), i - s + 1, Len(name) + 1)
      BY <3>1 DEF WritingAt
    <3>3. i - s + 1 \in Nat /\ i - s + 1 >= 1
      BY <3>2
    <3> QED BY <2>3, <2>4, <3>2, <3>3
  <2>5. CASE op = "rewrite"
    <3>1. PICK s \in Nat, i \in Nat, t \in Nat : RewritingAt(s, i, t)
      BY <1>1, <2>5 DEF PlacedOK, Rewriting
    <3>2. s <= i /\ todo = SubSeq(EntriesOf(name, file), i - s + 1, Len(name) + 1)
      BY <3>1 DEF RewritingAt
    <3>3. i - s + 1 \in Nat /\ i - s + 1 >= 1
      BY <3>2
    <3> QED BY <2>3, <2>5, <3>2, <3>3
  <2> QED BY <1>1, <2>1, <2>2, <2>4, <2>5 DEF TypeOK
<1>7. op = "rewrite" /\ Head(todo).kind = "sfn" => disk[p].kind = "sfn"
  <2> SUFFICES ASSUME op = "rewrite", Head(todo).kind = "sfn" PROVE disk[p].kind = "sfn"
    OBVIOUS
  <2>1. PICK s \in Nat, i \in Nat, t \in Nat : RewritingAt(s, i, t)
    BY <1>1 DEF PlacedOK, Rewriting
  <2>2. /\ s >= 1 /\ s <= i /\ i <= t + 1 /\ t = s + Len(name) /\ t <= Len(DirectoryWalk)
        /\ iter = Rest(i) /\ todo = SubSeq(EntriesOf(name, file), i - s + 1, Len(name) + 1)
        /\ NameAt(View, Len(name) + 1, t, file)
    BY <2>1 DEF RewritingAt
  <2> DEFINE E == EntriesOf(name, file)
             N == Len(name)
  <2>3. E \in Seq(Content \ {FreeSlot}) /\ Len(E) = N + 1 /\ N \in Nat \ {0} /\ (\A j \in 1..N : E[j].kind = "lfn")
    BY <1>1, EntriesAre DEF CallOK
  <2>4. i - s + 1 = N + 1
    <3> HIDE DEF E, N
    <3>1. todo = SubSeq(E, i - s + 1, N + 1) /\ t = s + N
      BY <2>2 DEF E, N
    <3>2. i - s + 1 <= N + 1 /\ Head(todo) = E[i - s + 1]
      <4>1. ASSUME NEW S, NEW z \in Seq(S), NEW l \in Nat, Len(z) = l, NEW y \in Nat \ {0},
                   NEW q, q = SubSeq(z, y, l), q # <<>>
            PROVE  y <= l /\ Head(q) = z[y]
        BY ONLY <4>1
      <4>2. i - s + 1 \in Nat \ {0} /\ N + 1 \in Nat
        BY <2>2, <2>3
      <4> QED BY <1>1, <2>3, <3>1, <4>1, <4>2
    <3>3. i - s + 1 \notin 1..N
      BY <2>3, <3>2
    <3>4. PICK y \in Nat : y = i - s + 1 /\ y >= 1
      BY <2>2
    <3>5. y <= N + 1 /\ y \notin 1..N /\ N \in Nat
      BY <2>3, <3>2, <3>3, <3>4
    <3> QED BY ONLY <3>4, <3>5
  <2>5. i = t
    BY <2>2, <2>3, <2>4
  <2>6. Len(DirectoryWalk) \in Nat
    BY <1>1, WalkIs
  <2>7. k = i
    <3>1. Len(Rest(k)) = Len(DirectoryWalk) - k + 1 /\ Len(Rest(i)) = Len(DirectoryWalk) - i + 1
      <4>1. k \in 1..(Len(DirectoryWalk) + 1) /\ i \in 1..(Len(DirectoryWalk) + 1)
        BY <2>2, <2>5, <2>6
      <4> QED BY <1>1, <4>1, RestIs
    <3> QED BY <1>2, <2>2, <2>6, <3>1
  <2>8. View[k].kind = "sfn" /\ View[k] = disk[p]
    <3>1. View[t].kind = "sfn"
      BY <2>2 DEF NameAt, Stands
    <3>2. View[k] = disk[p]
      BY <1>1, DiskTyped, ViewIs
    <3> QED BY <2>5, <2>7, <3>1, <3>2
  <2> QED BY <2>8
<1> HIDE DEF x, p
<1>8. \A y \in Place : disk'[y].kind = "sfn" /\ disk'[y].file = f => disk[y].kind = "sfn" /\ disk[y].file = f
  <2> SUFFICES ASSUME NEW y \in Place, disk'[y].kind = "sfn", disk'[y].file = f PROVE disk[y].kind = "sfn" /\ disk[y].file = f
    OBVIOUS
  <2>1. CASE y # p
    BY <1>3, <1>4, <2>1
  <2>2. CASE y = p
    <3>1. x.kind = "sfn" /\ x.file = f
      BY <1>3, <1>4, <2>2
    <3>2. Head(todo).kind = "sfn"
      BY <1>5, <3>1
    <3>3. op = "rewrite"
      BY <1>5, <1>6, <3>1, <3>2
    <3> QED BY <1>5, <1>7, <2>2, <3>1, <3>2, <3>3
  <2> QED BY <2>1, <2>2
<1> QED BY <1>1, <1>8, StillStands DEF Spares

(***************************************************************************)
(* What a reader knows                                                     *)
(***************************************************************************)
\* Files that no call was about since the directory was opened, and what was returned of f.
Watched(r)   == (File \intersect r.filter) \ (r.touched \union suspect)
ReadOf(r, f) == {i \in DOMAIN r.got : r.got[i].file = f}

\* The reader stands behind position c, in a cluster that ends at position e, and knows
\* the next clusters.
Cursor(r, c, e) ==
    /\ c \in Nat /\ e \in Nat /\ c <= e /\ e <= Len(DirectoryWalk)
    /\ Len(r.places) = e - c
    /\ \A i \in 1..(e - c) : r.places[i] = DirectoryWalk[c + i]
    /\ old_root => e = Len(DirectoryWalk) /\ r.next = 0
    /\ ~old_root => \E q \in 0..Len(Clusters) :
          /\ e = q * ClusterSlots
          /\ r.next # 0 => q + 1 <= Len(Clusters) /\ r.next = Clusters[q + 1]
          /\ IsData(r.link) => q + 2 <= Len(Clusters) /\ r.link = Clusters[q + 2]

\* The end of what it knows: f does not stand behind it.
Known(r, e) == IF r.next = 0 THEN e ELSE e + ClusterSlots

Nears(r, f, e) ==
    ~IsData(r.link) /\ "link" \notin r.failed =>
        \A p \in 1..Len(DirectoryWalk) : Stands(View, f, p) => p <= Known(r, e)

\* The last m entries read are the first ones of name n.
RunFor(n, s, m) ==
    /\ Len(s.name) = m /\ \A j \in 1..m : s.name[j] = n[Len(n) - m + j]
    /\ m >= 1 => s.lfn_index = Len(n) - m /\ (m = Len(n) => s.next_is_end_entry)

\* A file that stands before the reader was not returned, one behind it once.
Ahead(r, f, c, p) ==
    /\ ReadOf(r, f) = {} /\ (r.ended => "link" \in r.failed)
    /\ r.failed = {} /\ p <= c + Len(names[f]) + 1 => RunFor(names[f], r.scan, c + Len(names[f]) + 1 - p)

Passing(r, f) ==
    \E i \in DOMAIN r.got : ReadOf(r, f) = {i} /\ (r.failed = {} => r.got[i].name = names[f])

FileRead(r, f, c) ==
    /\ names[f] = <<>> => ReadOf(r, f) = {}
    /\ names[f] # <<>> => \E p \in 1..Len(DirectoryWalk) :
          /\ Stands(View, f, p)
          /\ c < p => Ahead(r, f, c, p)
          /\ p <= c => Passing(r, f)

Inside(r, c, e) == Cursor(r, c, e) /\ \A f \in Watched(r) : Nears(r, f, e) /\ FileRead(r, f, c)

\* A reader that was not opened has read nothing; one that was knows of the call.
Waiting == reader.state # "open" => reader = [NoReader EXCEPT !.state = reader.state, !.calls = reader.calls]

Calling ==
    reader.state = "open" =>
        /\ op # "none" => file \in reader.touched
        /\ reader.scan.found = <<>> /\ reader.scan.places = <<>> /\ ~reader.scan.over

ReaderInv ==
    /\ faults \in Nat /\ Waiting /\ Calling
    /\ reader.state = "open" /\ ~misplaced => \E c, e \in Nat : Inside(reader, c, e)

\* A file that is watched stands in one position, under its name.
LEMMA WatchedFile ==
    ASSUME DirInv, ~misplaced, NEW f \in File, f \notin suspect, f # file \/ op = "none"
    PROVE  /\ names[f] \in Name \union {<<>>}
           /\ names[f] = <<>> => \A i \in 1..Len(DirectoryWalk) : ~Stands(View, f, i)
           /\ names[f] # <<>> => \E p \in 1..Len(DirectoryWalk) :
                 /\ Stands(View, f, p) /\ CleanAt(View, names[f], p) /\ NoFree(View, p)
                 /\ \A i \in 1..Len(DirectoryWalk) : Stands(View, f, i) => i = p
<1>1. KeptAs(View, names[f], f)
  BY DEF DirInv, PlacedOK, Settled, Resting
<1>2. names[f] \in Name \union {<<>>}
  BY DEF DirInv, TypeOK
<1>3. Visible
  BY DEF DirInv, PlacedOK
<1>4. \A i \in 1..Len(DirectoryWalk) : Stands(View, f, i) => NoFree(View, i)
  BY <1>3 DEF Visible, Stands
<1> QED BY <1>1, <1>2, <1>4 DEF KeptAs, KeptIn

\* Nobody works on the files that are watched.
LEMMA WatchedApart ==
    ASSUME Calling, reader.state = "open", NEW f \in Watched(reader)
    PROVE  f \in File /\ f \notin suspect /\ (f # file \/ op = "none") /\ f \in reader.filter
BY DEF Watched, Calling

(***************************************************************************)
(* Steps of the reader                                                     *)
(***************************************************************************)
\* FatClusterIter::next takes the reader to the next cluster, if it stands at its end.
LEMMA EnterInside ==
    ASSUME DirInv, reader \in Readers, ~AtEnd(reader), NEW c, NEW e, Inside(reader, c, e)
    PROVE  \E d \in Nat : c < d /\ Inside(EnterCluster(reader), c, d)
<1> DEFINE r == EnterCluster(reader)
           CS == ClusterSlots
           cs == Clusters
           L == Len(DirectoryWalk)
<1>1. VolumeOK /\ L \in Nat \ {0} /\ CS \in Nat \ {0}
  <2>1. VolumeOK
    BY DEF DirInv
  <2> QED BY <2>1, WalkIs, Sizes
<1>2. Cursor(reader, c, e)
  BY DEF Inside
<1>3. c \in Nat /\ e \in Nat /\ c <= e /\ e <= L /\ Len(reader.places) = e - c
  BY <1>2 DEF Cursor
<1>4. /\ r.filter = reader.filter /\ r.touched = reader.touched /\ r.got = reader.got /\ r.failed = reader.failed
      /\ r.ended = reader.ended /\ r.scan = reader.scan
  BY <1>1, Entered
<1>5. CASE reader.places # <<>>
  <2>1. r = reader
    BY <1>5 DEF EnterCluster
  <2>2. c < e
    <3>1. reader.places \in Seq(Place)
      BY DEF Readers
    <3>2. Len(reader.places) \in Nat \ {0}
      BY <1>5, <3>1
    <3> QED BY <1>3, <3>2
  <2> QED BY <1>3, <2>1, <2>2
<1>6. CASE reader.places = <<>>
  <2>1. c = e
    <3>1. Len(reader.places) = 0
      BY <1>6
    <3> QED BY <1>3, <3>1
  <2>2. reader.next # 0
    BY <1>6 DEF AtEnd
  <2>3. ~old_root
    BY <1>2, <2>2 DEF Cursor
  <2>4. ChainOK
    BY <1>1, <2>3, ChainIs
  <2>5. /\ cs \in Seq(Cluster) /\ Len(cs) \in Nat \ {0} /\ L = Len(cs) * CS
        /\ DirectoryWalk = [i \in 1..(Len(cs) * CS) |-> PlaceIn(cs, i)]
        /\ \A i \in 1..(Len(cs) - 1) : fat[cs[i]] = cs[i + 1]
        /\ fat[cs[Len(cs)]] = EndOfChain
    BY <2>4 DEF ChainOK, IsChain
  <2>6. PICK q \in 0..Len(cs) :
          /\ e = q * CS
          /\ q + 1 <= Len(cs) /\ reader.next = cs[q + 1]
          /\ IsData(reader.link) => q + 2 <= Len(cs) /\ reader.link = cs[q + 2]
    BY <1>2, <2>2, <2>3 DEF Cursor
  <2>7. r.places = ClusterPlaces(cs[q + 1])
        /\ r.next = (IF IsData(reader.link) THEN reader.link ELSE 0)
        /\ r.link = (IF IsData(reader.link) THEN fat[reader.link] ELSE Free)
    <3>1. r = [reader EXCEPT !.places = ClusterPlaces(reader.next),
                   !.next = IF IsData(reader.link) THEN reader.link ELSE 0,
                   !.link = IF IsData(reader.link) THEN fat[reader.link] ELSE Free]
      BY <1>6 DEF EnterCluster
    <3> DEFINE a == ClusterPlaces(reader.next)
               b == IF IsData(reader.link) THEN reader.link ELSE 0
               g == IF IsData(reader.link) THEN fat[reader.link] ELSE Free
    <3>2. a = ClusterPlaces(cs[q + 1])
      BY <2>6
    <3>3. r = [reader EXCEPT !.places = a, !.next = b, !.link = g]
      BY <3>1
    <3> HIDE DEF a, b, g, r
    <3>4. r.places = a /\ r.next = b /\ r.link = g
      BY <3>3 DEF Readers
    <3> QED BY <3>2, <3>4 DEF b, g
  <2>8. q \in Nat /\ Len(cs) \in Nat /\ q + 1 \in 1..Len(cs) /\ cs[q + 1] \in Cluster
    BY <2>5, <2>6
  <2> DEFINE d == e + CS
  <2> HIDE DEF cs, CS, L, r
  <2>9. d = (q + 1) * CS /\ d \in Nat /\ c < d
    <3>1. (q + 1) * CS = (q * CS) + CS
      BY <1>1, <2>8
    <3>2. d = (q * CS) + CS
      BY <2>6
    <3>3. d \in Nat /\ c < d
      BY <1>1, <1>3, <2>1
    <3> QED BY ONLY <3>1, <3>2, <3>3
  <2>10. d <= L
    <3>1. PICK m \in Nat : Len(cs) = (q + 1) + m
      <4>1. PICK n \in Nat : n = Len(cs)
        BY <2>8
      <4>2. n - (q + 1) \in Nat /\ n = (q + 1) + (n - (q + 1))
        BY <2>8, <4>1
      <4> QED BY <4>1, <4>2
    <3>2. L = ((q + 1) * CS) + (m * CS) /\ m * CS \in Nat
      BY <1>1, <2>5, <2>8, <3>1
    <3> QED BY <1>1, <2>9, <3>2
  <2>11. Len(r.places) = d - c /\ d - c = CS
    <3>1. Len(r.places) = CS
      BY <1>1, <2>7, <2>8, ClusterPlacesAre DEF CS
    <3> QED BY <1>1, <1>3, <2>1, <3>1
  <2>12. ASSUME NEW i \in 1..CS PROVE r.places[i] = DirectoryWalk[c + i]
    <3>1. r.places[i] = SlotOf(cs[q + 1], i - 1)
      BY <1>1, <2>7, <2>8, ClusterPlacesAre DEF CS
    <3>2. c + i \in 1..(Len(cs) * CS)
      BY <1>1, <1>3, <2>1, <2>5, <2>10 
    <3>3. DirectoryWalk[c + i] = PlaceIn(cs, c + i)
      BY <2>5, <3>2
    <3>4. i - 1 \in 0..(CS - 1) /\ c + i = (q * CS) + (i - 1) + 1 /\ q \in 0..(Len(cs) - 1)
      BY <1>1, <1>3, <2>1, <2>6, <2>8
    <3>5. ((c + i) - 1) \div CS = q /\ ((c + i) - 1) % CS = i - 1
      <4>1. PICK j : j = c + i
        OBVIOUS
      <4>2. PICK y \in 0..(CS - 1) : y = i - 1
        BY <3>4
      <4>3. PICK n \in Nat : n = Len(cs)
        BY <2>8
      <4>4. q \in 0..(n - 1) /\ j = (q * CS) + y + 1
        BY <3>4, <4>1, <4>2, <4>3
      <4>5. (j - 1) \div CS = q /\ (j - 1) % CS = y
        BY ONLY <1>1, <4>4, OfCluster
      <4> QED BY <4>1, <4>2, <4>5
    <3> QED BY <3>1, <3>3, <3>5 DEF PlaceIn, CS
  <2>13. r.next # 0 => q + 2 <= Len(cs) /\ r.next = cs[q + 2]
    BY <2>6, <2>7
  <2>14. IsData(r.link) => q + 3 <= Len(cs) /\ r.link = cs[q + 3]
    <3> SUFFICES ASSUME IsData(r.link) PROVE q + 3 <= Len(cs) /\ r.link = cs[q + 3]
      OBVIOUS
    <3>1. IsData(reader.link) /\ r.link = fat[reader.link]
      <4>1. ~IsData(Free)
        BY ClusterCountAssumption DEF IsData, Free, Cluster
      <4> QED BY <2>7, <4>1
    <3>2. q + 2 <= Len(cs) /\ r.link = fat[cs[q + 2]]
      BY <2>6, <3>1
    <3>3. ~IsData(EndOfChain)
      BY ClusterCountAssumption DEF IsData, EndOfChain, Cluster
    <3>4. q + 2 # Len(cs)
      BY <2>5, <3>2, <3>3
    <3>5. q + 2 \in 1..(Len(cs) - 1) /\ (q + 2) + 1 = q + 3
      BY <2>8, <3>2, <3>4
    <3> QED BY <2>5, <3>2, <3>5
  <2>15. Cursor(r, c, d)
    <3>1. q + 1 \in 0..Len(cs) /\ (q + 1) + 1 = q + 2 /\ (q + 1) + 2 = q + 3
      BY <2>8
    <3>2. \E y \in 0..Len(cs) :
             /\ d = y * CS
             /\ r.next # 0 => y + 1 <= Len(cs) /\ r.next = cs[y + 1]
             /\ IsData(r.link) => y + 2 <= Len(cs) /\ r.link = cs[y + 2]
      BY <2>9, <2>13, <2>14, <3>1
    <3>3. c \in Nat /\ d \in Nat /\ c <= d /\ d <= L
      BY <1>3, <2>9, <2>10
    <3> HIDE DEF d
    <3> QED BY <2>3, <2>11, <2>12, <3>2, <3>3 DEF Cursor, L, cs, CS
  <2>16. ASSUME NEW f \in Watched(r) PROVE Nears(r, f, d) /\ FileRead(r, f, c)
    <3>1. f \in Watched(reader)
      BY <1>4 DEF Watched
    <3>2. Nears(reader, f, e) /\ FileRead(reader, f, c)
      BY <3>1 DEF Inside
    <3>3. FileRead(r, f, c)
      BY <1>4, <3>2 DEF FileRead, ReadOf, Ahead, Passing
    <3>4. Nears(r, f, d)
      <4> SUFFICES ASSUME ~IsData(r.link), "link" \notin r.failed,
                          NEW p \in 1..Len(DirectoryWalk), Stands(View, f, p)
                   PROVE  p <= Known(r, d)
        BY DEF Nears
      <4>1. CASE IsData(reader.link)
        <5>1. q + 2 <= Len(cs) /\ r.next = cs[q + 2] /\ r.link = fat[cs[q + 2]]
          BY <2>6, <2>7, <4>1
        <5>2. q + 2 = Len(cs)
          <6> SUFFICES ASSUME q + 2 # Len(cs) PROVE FALSE
            OBVIOUS
          <6>1. q + 2 \in 1..(Len(cs) - 1) /\ (q + 2) + 1 \in 1..Len(cs)
            BY <2>8, <5>1
          <6>2. r.link \in Cluster
            BY <2>5, <5>1, <6>1
          <6> QED BY <6>2 DEF IsData
        <5>3. r.next # 0
          <6>1. r.next \in Cluster
            BY <4>1, <2>7 DEF IsData
          <6> QED BY <6>1, ClusterCountAssumption DEF Cluster
        <5>4. Known(r, d) = d + CS
          BY <5>3 DEF Known, CS
        <5>5. d + CS = L
          <6>1. ((q + 1) * CS) + CS = (q + 2) * CS
            BY <1>1, <2>8
          <6> QED BY <2>5, <2>9, <5>2, <6>1
        <5> QED BY <1>1, <5>4, <5>5 DEF L
      <4>2. CASE ~IsData(reader.link)
        <5>1. r.next = 0
          BY <2>7, <4>2
        <5>2. Known(r, d) = d /\ Known(reader, e) = d
          BY <2>2, <5>1 DEF Known, CS, d
        <5>3. p <= Known(reader, e)
          BY <1>4, <3>2, <4>2 DEF Nears
        <5> QED BY <5>2, <5>3
      <4> QED BY <4>1, <4>2
    <3> QED BY <3>3, <3>4
  <2> HIDE DEF d
  <2>17. Inside(r, c, d)
    BY <2>15, <2>16 DEF Inside
  <2> QED BY <2>9, <2>17 DEF r
<1> QED BY <1>5, <1>6

\* An entry is passed.
LEMMA CursorPasses ==
    ASSUME VolumeOK, NEW r \in Readers, NEW u, NEW c, NEW e, Cursor(r, c, e), c < e,
           u.places = Tail(r.places), u.next = r.next, u.link = r.link
    PROVE  /\ Cursor(u, c + 1, e) /\ c + 1 \in 1..Len(DirectoryWalk)
           /\ Head(r.places) = DirectoryWalk[c + 1]
<1> DEFINE ps == r.places
<1>1. Len(DirectoryWalk) \in Nat
  BY WalkIs
<1>2. /\ c \in Nat /\ e \in Nat /\ c + 1 <= e /\ e <= Len(DirectoryWalk) /\ Len(ps) = e - c
      /\ \A i \in 1..(e - c) : ps[i] = DirectoryWalk[c + i]
  BY DEF Cursor
<1>3. ps \in Seq(Place)
  BY DEF Readers
<1> HIDE DEF ps
<1>4. Len(ps) \in Nat \ {0} /\ Head(ps) = ps[1] /\ Len(Tail(ps)) = Len(ps) - 1
      /\ \A i \in 1..(Len(ps) - 1) : Tail(ps)[i] = ps[i + 1]
  BY <1>2, <1>3
<1>5. Head(ps) = DirectoryWalk[c + 1] /\ c + 1 \in 1..Len(DirectoryWalk)
  BY <1>1, <1>2, <1>4
<1>6. Len(Tail(ps)) = e - (c + 1)
  BY <1>2, <1>4
<1>7. ASSUME NEW i \in 1..(e - (c + 1)) PROVE Tail(ps)[i] = DirectoryWalk[(c + 1) + i]
  <2>1. i \in 1..(Len(ps) - 1) /\ i + 1 \in 1..(e - c) /\ c + (i + 1) = (c + 1) + i
    BY <1>2, <1>7
  <2> QED BY <1>2, <1>4, <2>1
<1>8. c + 1 \in Nat
  BY <1>2
<1> QED BY <1>2, <1>5, <1>6, <1>7, <1>8 DEF Cursor, ps

\* One entry for DirectoryEntryIterator::next: what it does to the reader.
LEMMA TakeIs ==
    ASSUME DirInv, reader \in Readers, Calling, Take, NEW u, u = reader'
    PROVE  LET r == EnterCluster(reader)
               x == disk[Head(r.places)]
           IN  /\ x.kind # "free"
               /\ u.places = Tail(r.places) /\ u.next = r.next /\ u.link = r.link /\ u.state = "open"
               /\ u.filter = r.filter /\ u.touched = r.touched /\ u.failed = r.failed /\ ~u.ended
               /\ u.scan \in ScanState /\ u.scan.places = <<>> /\ u.scan.found = <<>> /\ ~u.scan.over
               /\ x.kind = "deleted" => u.scan.name = <<>> /\ u.got = r.got
               /\ x.kind = "lfn" =>
                     /\ u.got = r.got /\ u.scan.name = <<x.part>> \o r.scan.name
                     /\ u.scan.lfn_index = (IF x.first THEN x.order ELSE r.scan.lfn_index) - 1
                     /\ u.scan.next_is_end_entry = (r.scan.next_is_end_entry \/ u.scan.lfn_index <= 1)
               /\ x.kind = "sfn" =>
                     /\ u.scan.name = <<>>
                     /\ u.got = IF Accepted(r.filter, x.file)
                                  THEN Append(r.got, [file |-> x.file,
                                          name |-> IF r.scan.next_is_end_entry THEN r.scan.name ELSE x.short])
                                  ELSE r.got
<1> DEFINE r == EnterCluster(reader)
           p == Head(r.places)
           x == disk[p]
           s == ScanEntry(r.scan, p)
           q == Passed(r)
<1>1. VolumeOK /\ DiskOK
  BY DiskTyped DEF DirInv
<1>2. /\ reader.state = "open" /\ ~AtEnd(reader) /\ ~reader.ended /\ x.kind # "free"
      /\ u = IF s.found = <<>> THEN [q EXCEPT !.scan = [s EXCEPT !.places = <<>>]]
             ELSE [Returned(q, Last(s.found)) EXCEPT !.scan = ScanStart]
  BY DEF Take, Reading
<1>3. /\ r \in Readers /\ p \in Place /\ q \in Readers /\ q.places = Tail(r.places)
      /\ r.scan = reader.scan /\ r.state = reader.state /\ r.ended = reader.ended
  BY <1>1, <1>2, Entered
<1>4. r.scan \in ScanState /\ r.scan.found = <<>> /\ r.scan.places = <<>> /\ ~r.scan.over
  <2>1. r.scan \in ScanState
    <3> HIDE DEF r
    <3> QED BY <1>3 DEF Readers
  <2> QED BY <1>2, <1>3, <2>1 DEF Calling
<1>5. x \in Content
  BY <1>1, <1>3 DEF DiskOK
<1>6. /\ s \in ScanState
      /\ x.kind = "deleted" => ~s.over /\ s.name = <<>> /\ s.found = <<>>
      /\ x.kind = "lfn" =>
            /\ ~s.over /\ s.name = <<x.part>> \o r.scan.name /\ s.found = <<>>
            /\ s.lfn_index = (IF x.first THEN x.order ELSE r.scan.lfn_index) - 1
            /\ s.next_is_end_entry = (r.scan.next_is_end_entry \/ s.lfn_index <= 1)
      /\ x.kind = "sfn" =>
            s.found = Append(r.scan.found,
                        [name  |-> IF r.scan.next_is_end_entry THEN r.scan.name ELSE x.short,
                         first |-> Head(Append(r.scan.places, p)), count |-> Len(r.scan.places) + 1,
                         file  |-> x.file])
  BY <1>1, <1>3, <1>4, ScanIs
<1>7. /\ q.next = r.next /\ q.link = r.link /\ q.state = r.state /\ q.filter = r.filter /\ q.got = r.got
      /\ q.touched = r.touched /\ q.failed = r.failed /\ q.ended = r.ended
  <2> HIDE DEF r
  <2> QED BY <1>3 DEF Passed, Readers
<1>8. x.kind \in {"free", "deleted", "lfn", "sfn"}
  BY <1>5, Contents
<1>9. q.got \in Seq(Returning)
  BY <1>3 DEF Readers
<1> HIDE DEF r, p, x, s, q
<1>10. CASE x.kind \in {"deleted", "lfn"}
  <2> DEFINE z == [s EXCEPT !.places = <<>>]
  <2>1. s.found = <<>> /\ ~s.over
    BY <1>6, <1>10
  <2>2. <<>> \in Seq(Place)
    OBVIOUS
  <2>3. /\ z \in ScanState /\ z.places = <<>> /\ z.name = s.name /\ z.found = s.found /\ z.over = s.over
        /\ z.lfn_index = s.lfn_index /\ z.next_is_end_entry = s.next_is_end_entry
    BY <1>6, <2>2 DEF ScanState
  <2>4. u = [q EXCEPT !.scan = z]
    BY <1>2, <2>1
  <2> HIDE DEF z
  <2>5. /\ u.scan = z /\ u.places = q.places /\ u.next = q.next /\ u.link = q.link /\ u.state = q.state
        /\ u.filter = q.filter /\ u.touched = q.touched /\ u.failed = q.failed /\ u.ended = q.ended /\ u.got = q.got
    BY <1>3, <2>4 DEF Readers
  <2>6. x.kind # "sfn"
    BY <1>10
  <2> HIDE DEF r
  <2> QED BY <1>2, <1>3, <1>6, <1>7, <2>1, <2>3, <2>5, <2>6 DEF r, p, x
<1>11. CASE x.kind = "sfn"
  <2> DEFINE n == IF r.scan.next_is_end_entry THEN r.scan.name ELSE x.short
             g == [name |-> n, first |-> Head(Append(r.scan.places, p)), count |-> Len(r.scan.places) + 1,
                   file |-> x.file]
             z == Returned(q, g)
  <2>1. s.found = <<g>>
    <3>1. s.found = Append(<<>>, g)
      BY <1>4, <1>6, <1>11
    <3> HIDE DEF g
    <3> QED BY <3>1
  <2>2. s.found # <<>> /\ Last(s.found) = g
    <3> HIDE DEF g
    <3> QED BY <2>1 DEF Last
  <2>3. u = [z EXCEPT !.scan = ScanStart]
    BY <1>2, <2>2
  <2>4. g.file = x.file /\ g.name = n
    OBVIOUS
  <2> HIDE DEF n, g
  <2>5. z.got = IF Accepted(q.filter, x.file) THEN Append(q.got, [file |-> x.file, name |-> n]) ELSE q.got
    <3> DEFINE a == Append(q.got, [file |-> g.file, name |-> g.name])
    <3>1. z = IF Accepted(q.filter, g.file) THEN [q EXCEPT !.got = a, !.some = TRUE] ELSE q
      BY DEF Returned
    <3>2. a = Append(q.got, [file |-> x.file, name |-> n])
      BY <2>4
    <3> HIDE DEF a, z
    <3>3. z.got = IF Accepted(q.filter, g.file) THEN a ELSE q.got
      BY <1>3, <3>1 DEF Readers
    <3> QED BY <2>4, <3>2, <3>3
  <2>6. /\ z.places = q.places /\ z.next = q.next /\ z.link = q.link /\ z.state = q.state
        /\ z.filter = q.filter /\ z.touched = q.touched /\ z.failed = q.failed /\ z.ended = q.ended
        /\ z.scan = q.scan
    <3> DEFINE a == Append(q.got, [file |-> g.file, name |-> g.name])
    <3>1. z = IF Accepted(q.filter, g.file) THEN [q EXCEPT !.got = a, !.some = TRUE] ELSE q
      BY DEF Returned
    <3> HIDE DEF a, z
    <3> QED BY <1>3, <3>1 DEF Readers
  <2>7. DOMAIN z = DOMAIN q
    <3> DEFINE a == Append(q.got, [file |-> g.file, name |-> g.name])
    <3>1. z = IF Accepted(q.filter, g.file) THEN [q EXCEPT !.got = a, !.some = TRUE] ELSE q
      BY DEF Returned
    <3> HIDE DEF a, z
    <3> QED BY <1>3, <3>1 DEF Readers
  <2> HIDE DEF z
  <2>8. "scan" \in DOMAIN q
    BY <1>3 DEF Readers
  <2>9. /\ u.scan = ScanStart /\ u.places = q.places /\ u.next = q.next /\ u.link = q.link /\ u.state = q.state
        /\ u.filter = q.filter /\ u.touched = q.touched /\ u.failed = q.failed /\ u.ended = q.ended /\ u.got = z.got
    <3>1. DOMAIN z = {"state", "filter", "places", "next", "link", "scan", "count", "got", "some", "ended",
                      "touched", "calls", "failed"}
      BY <1>3, <2>7 DEF Readers
    <3> QED BY <2>3, <2>6, <3>1
  <2>10. ScanStart.places = <<>> /\ ScanStart.found = <<>> /\ ~ScanStart.over /\ ScanStart.name = <<>>
    BY DEF ScanStart
  <2>11. u.got = IF Accepted(r.filter, x.file) THEN Append(r.got, [file |-> x.file, name |-> n]) ELSE r.got
    BY <1>7, <2>5, <2>9
  <2>12. u.got = IF Accepted(r.filter, x.file)
                   THEN Append(r.got, [file |-> x.file,
                           name |-> IF r.scan.next_is_end_entry THEN r.scan.name ELSE x.short])
                   ELSE r.got
    BY <2>11 DEF n
  <2>13. /\ u.places = Tail(r.places) /\ u.next = r.next /\ u.link = r.link /\ u.state = "open"
         /\ u.filter = r.filter /\ u.touched = r.touched /\ u.failed = r.failed /\ ~u.ended
         /\ u.scan \in ScanState /\ u.scan.places = <<>> /\ u.scan.found = <<>> /\ ~u.scan.over
         /\ u.scan.name = <<>>
    <3>1. u.places = Tail(r.places) /\ u.next = r.next /\ u.link = r.link /\ u.failed = r.failed
      <4> HIDE DEF r, q
      <4> QED BY <1>3, <1>7, <2>9
    <3>2. u.state = "open" /\ u.filter = r.filter /\ u.touched = r.touched /\ ~u.ended
      BY <1>2, <1>3, <1>7, <2>9
    <3>3. u.scan = ScanStart
      BY <1>7, <2>9
    <3> QED BY <2>10, <3>1, <3>2, <3>3, StartIs
  <2>14. x.kind # "free" /\ x.kind # "deleted" /\ x.kind # "lfn"
    BY <1>11
  <2> QED BY <2>12, <2>13, <2>14 DEF r, p, x
<1> QED BY <1>2, <1>8, <1>10, <1>11 DEF x, p, r

\* What was read of f stays as an entry of another file is passed.
LEMMA ReadKept ==
    ASSUME NEW f, NEW r, NEW u, r.got \in Seq(Returning), NEW g, g.file # f,
           u.got = r.got \/ u.got = Append(r.got, g)
    PROVE  ReadOf(u, f) = ReadOf(r, f) /\ \A i \in ReadOf(r, f) : i \in DOMAIN u.got /\ u.got[i] = r.got[i]
<1> DEFINE a == r.got
           b == u.got
<1>1. a \in Seq(Returning) /\ Len(a) \in Nat /\ DOMAIN a = 1..Len(a)
  OBVIOUS
<1>2. CASE b = a
  BY <1>2 DEF ReadOf
<1>3. CASE b = Append(a, g)
  <2> HIDE DEF a, b
  <2>1. DOMAIN b = 1..(Len(a) + 1) /\ b[Len(a) + 1] = g /\ \A i \in 1..Len(a) : b[i] = a[i]
    BY <1>1, <1>3
  <2>2. {i \in DOMAIN b : b[i].file = f} = {i \in DOMAIN a : a[i].file = f}
    BY <1>1, <2>1
  <2>3. \A i \in {j \in DOMAIN a : a[j].file = f} : i \in DOMAIN b /\ b[i] = a[i]
    BY <1>1, <2>1
  <2> QED BY <2>2, <2>3 DEF ReadOf, a, b
<1> QED BY <1>2, <1>3

\* The name of f is read to its end, an entry at a time.
LEMMA RunGoesOn ==
    ASSUME NEW n \in Name, NEW D, NEW p \in Nat, CleanAt(D, n, p), NEW c \in Nat, c + 1 < p, p <= (c + 1) + Len(n) + 1,
           NEW s \in ScanState, NEW w \in ScanState, NEW x, x = D[c + 1],
           p <= c + Len(n) + 1 => RunFor(n, s, c + Len(n) + 1 - p),
           x.kind \in {"deleted", "lfn", "sfn"}, x.kind # "lfn" => w.name = <<>>,
           x.kind = "lfn" => /\ w.name = <<x.part>> \o s.name
                             /\ w.lfn_index = (IF x.first THEN x.order ELSE s.lfn_index) - 1
                             /\ w.next_is_end_entry = (s.next_is_end_entry \/ w.lfn_index <= 1)
    PROVE  RunFor(n, w, (c + 1) + Len(n) + 1 - p)
<1> DEFINE N == Len(n)
<1>1. N \in Nat \ {0} /\ n \in Seq(Word)
  BY NamesAre
<1>2. PICK m \in Nat : m = (c + 1) + N + 1 - p
  BY <1>1
<1> HIDE DEF N
<1>3. m <= N /\ c + 1 = p - N - 1 + m
  BY <1>1, <1>2
<1>4. CASE m = 0
  <2>1. D[p - N - 1].kind # "lfn"
    <3>1. p # N + 1
      BY <1>1, <1>3, <1>4
    <3> QED BY <3>1 DEF CleanAt, N
  <2>2. c + 1 = p - N - 1
    BY <1>1, <1>3, <1>4
  <2>3. w.name = <<>>
    BY <2>1, <2>2
  <2>4. RunFor(n, w, 0)
    BY <2>3 DEF RunFor
  <2> QED BY <1>2, <1>4, <2>4 DEF N
<1>5. CASE m # 0
  <2>1. m \in 1..N
    BY <1>1, <1>3, <1>5
  <2>2. x = Lfn(N + 1 - m, m = 1, n[N + 1 - m])
    <3>1. \A j \in 1..N : D[p - N - 1 + j] = Lfn(N + 1 - j, j = 1, n[N + 1 - j])
      BY DEF CleanAt, N
    <3> QED BY <1>3, <2>1, <3>1
  <2>3. x.kind = "lfn" /\ x.order = N + 1 - m /\ x.first = (m = 1) /\ x.part = n[N + 1 - m]
    BY <2>2 DEF Lfn
  <2>4. PICK k \in Nat : k = m - 1 /\ k = c + N + 1 - p /\ p <= c + N + 1
    <3>1. m - 1 \in Nat /\ m - 1 = c + N + 1 - p /\ p <= c + N + 1
      BY <1>1, <1>2, <2>1
    <3> QED BY <3>1
  <2>5. RunFor(n, s, k)
    BY <2>4 DEF N
  <2>6. /\ Len(s.name) = k /\ \A j \in 1..k : s.name[j] = n[N - k + j]
        /\ k >= 1 => s.lfn_index = N - k
    BY <2>5 DEF RunFor, N
  <2>7. s.name \in Seq(Word) /\ x.part \in Word
    <3>1. N + 1 - m \in 1..N
      BY <1>1, <2>1
    <3>2. n[N + 1 - m] \in Word
      BY <1>1, <3>1 DEF N
    <3> QED BY <2>3, <3>2 DEF ScanState
  <2>8. Len(w.name) = m /\ \A j \in 1..m : w.name[j] = n[N - m + j]
    <3> DEFINE a == s.name
               b == w.name
    <3>1. b = <<x.part>> \o a /\ a \in Seq(Word) /\ <<x.part>> \in Seq(Word)
      BY <2>3, <2>7, OneSeq
    <3>2. Len(a) = k /\ \A j \in 1..k : a[j] = n[N - k + j]
      BY <2>6
    <3> HIDE DEF a, b
    <3>3. Len(b) = k + 1 /\ b[1] = x.part /\ \A j \in 1..k : b[j + 1] = a[j]
      BY <3>1, <3>2
    <3>4. ASSUME NEW j \in 1..m PROVE b[j] = n[N - m + j]
      <4>1. CASE j = 1
        <5>1. N + 1 - m = N - m + j
          BY <1>1, <4>1
        <5> QED BY <2>3, <3>3, <4>1, <5>1
      <4>2. CASE j # 1
        <5>1. PICK i \in 1..k : j = i + 1
          <6>1. j - 1 \in 1..k /\ j = (j - 1) + 1
            BY <2>4, <4>2
          <6> QED BY <6>1
        <5>2. N - k + i = N - m + j
          BY <1>1, <2>4, <5>1
        <5> QED BY <3>2, <3>3, <5>1, <5>2
      <4> QED BY <4>1, <4>2
    <3>5. Len(b) = m
      BY <2>1, <2>4, <3>3
    <3> QED BY <3>4, <3>5 DEF b
  <2>9. w.lfn_index = N - m
    <3> DEFINE first == x.first
    <3>3. first = (m = 1)
      BY <2>3
    <3>4. w.lfn_index = (IF first THEN x.order ELSE s.lfn_index) - 1
      BY <2>3
    <3> HIDE DEF first
    <3>1. CASE m = 1
      <4>1. w.lfn_index = x.order - 1
        BY <3>1, <3>3, <3>4
      <4> QED BY ONLY <1>1, <2>3, <3>1, <4>1
    <3>2. CASE m # 1
      <4>1. w.lfn_index = s.lfn_index - 1
        BY <3>2, <3>3, <3>4
      <4>2. k >= 1 /\ k = m - 1 /\ m \in Nat
        BY <2>1, <2>4, <3>2
      <4>3. s.lfn_index = N - k
        BY <2>6, <4>2
      <4> QED BY ONLY <1>1, <4>1, <4>2, <4>3
    <3> QED BY <3>1, <3>2
  <2>10. m = N => w.next_is_end_entry
    <3> SUFFICES ASSUME m = N PROVE w.next_is_end_entry
      OBVIOUS
    <3>1. w.lfn_index <= 1
      BY <1>1, <2>9
    <3> QED BY <2>3, <3>1
  <2>11. RunFor(n, w, m)
    BY <2>8, <2>9, <2>10 DEF RunFor, N
  <2> QED BY <1>2, <2>11 DEF N
<1> QED BY <1>4, <1>5

\* What is returned with an entry is of the file that it stands for.
LEMMA TakenOther ==
    ASSUME NEW r, NEW u, NEW x, NEW n, NEW f \in File, r.got \in Seq(Returning), ~(x.kind = "sfn" /\ x.file = f),
           x.kind # "sfn" => u.got = r.got,
           x.kind = "sfn" => u.got = IF Accepted(r.filter, x.file) THEN Append(r.got, [file |-> x.file, name |-> n])
                                     ELSE r.got
    PROVE  ReadOf(u, f) = ReadOf(r, f) /\ \A i \in ReadOf(r, f) : i \in DOMAIN u.got /\ u.got[i] = r.got[i]
<1>1. CASE x.kind # "sfn"
  <2> DEFINE g == [file |-> Old]
  <2>1. g.file # f
    BY DirectoryAssumption
  <2>2. u.got = r.got
    BY <1>1
  <2> HIDE DEF g
  <2> QED BY <2>1, <2>2, ReadKept
<1>2. CASE x.kind = "sfn"
  <2> DEFINE g == [file |-> x.file, name |-> n]
  <2>1. g.file # f
    BY <1>2
  <2>2. u.got = r.got \/ u.got = Append(r.got, g)
    BY <1>2
  <2> HIDE DEF g
  <2> QED BY <2>1, <2>2, ReadKept
<1> QED BY <1>1, <1>2

\* and it is returned last.
LEMMA TakenOwn ==
    ASSUME NEW r, NEW u, NEW n, NEW f, r.got \in Seq(Returning), ReadOf(r, f) = {},
           u.got = Append(r.got, [file |-> f, name |-> n])
    PROVE  /\ Len(u.got) \in DOMAIN u.got /\ ReadOf(u, f) = {Len(u.got)}
           /\ u.got[Len(u.got)].name = n
<1> DEFINE a == r.got
           b == u.got
           g == [file |-> f, name |-> n]
<1>1. g.file = f /\ g.name = n
  OBVIOUS
<1>2. a \in Seq(Returning) /\ Len(a) \in Nat /\ DOMAIN a = 1..Len(a) /\ b = Append(a, g)
  OBVIOUS
<1>3. {i \in DOMAIN a : a[i].file = f} = {}
  BY DEF ReadOf
<1> HIDE DEF a, b, g
<1>4. DOMAIN b = 1..(Len(a) + 1) /\ b[Len(a) + 1] = g /\ \A i \in 1..Len(a) : b[i] = a[i]
  BY <1>2
<1>5. {i \in DOMAIN b : b[i].file = f} = {Len(a) + 1}
  BY <1>1, <1>2, <1>3, <1>4
<1>6. Len(a) + 1 \in DOMAIN b /\ Len(b) = Len(a) + 1
  BY <1>2, <1>4
<1> QED BY <1>1, <1>4, <1>5, <1>6 DEF ReadOf, b

\* The reader passes an entry of a file or of another one.
LEMMA TakeInside ==
    ASSUME DirInv, ~misplaced, reader \in Readers, Calling, Take, NEW c, NEW e, Inside(reader, c, e),
           NEW u, u = reader'
    PROVE  \E b, d \in Nat : Inside(u, b, d)
<1> DEFINE r == EnterCluster(reader)
           x == disk[Head(r.places)]
<1>1. VolumeOK /\ DiskOK /\ reader.state = "open" /\ ~AtEnd(reader)
  BY DiskTyped DEF DirInv, Take, Reading
<1>2. PICK d \in Nat : c < d /\ Inside(r, c, d)
  BY <1>1, EnterInside
<1>3. r \in Readers /\ r.scan = reader.scan /\ r.filter = reader.filter /\ r.touched = reader.touched /\ r.got = reader.got
  BY <1>1, Entered
<1>4. /\ u.places = Tail(r.places) /\ u.next = r.next /\ u.link = r.link
      /\ u.filter = r.filter /\ u.touched = r.touched /\ u.failed = r.failed /\ ~u.ended
      /\ u.scan \in ScanState
      /\ x.kind = "deleted" => u.scan.name = <<>> /\ u.got = r.got
      /\ x.kind = "lfn" =>
            /\ u.got = r.got /\ u.scan.name = <<x.part>> \o r.scan.name
            /\ u.scan.lfn_index = (IF x.first THEN x.order ELSE r.scan.lfn_index) - 1
            /\ u.scan.next_is_end_entry = (r.scan.next_is_end_entry \/ u.scan.lfn_index <= 1)
      /\ x.kind = "sfn" => u.scan.name = <<>>
  BY TakeIs
<1>5. /\ x.kind # "free"
      /\ x.kind = "sfn" =>
            u.got = IF Accepted(r.filter, x.file)
                      THEN Append(r.got, [file |-> x.file,
                                name |-> IF r.scan.next_is_end_entry THEN r.scan.name ELSE x.short])
                      ELSE r.got
  BY TakeIs
<1> HIDE DEF r, x
<1>6. Cursor(u, c + 1, d) /\ c + 1 \in 1..Len(DirectoryWalk) /\ Head(r.places) = DirectoryWalk[c + 1] /\ c \in Nat
  <2>1. Cursor(r, c, d) /\ c \in Nat
    BY <1>2 DEF Inside, Cursor
  <2> QED BY <1>1, <1>2, <1>3, <1>4, <2>1, CursorPasses
<1>7. x = View[c + 1] /\ x.kind \in {"deleted", "lfn", "sfn"}
  <2>1. x = View[c + 1] /\ x \in Content
    BY <1>1, <1>6, ViewIs DEF x
  <2> QED BY <1>5, <2>1, Contents
<1>8. r.got \in Seq(Returning) /\ r.scan \in ScanState
  BY <1>3 DEF Readers
<1>9. ASSUME NEW f \in Watched(u) PROVE Nears(u, f, d) /\ FileRead(u, f, c + 1)
  <2> DEFINE n == names[f]
  <2>1. f \in Watched(r) /\ f \in Watched(reader)
    BY <1>3, <1>4 DEF Watched
  <2>2. Nears(r, f, d) /\ FileRead(r, f, c)
    BY <1>2, <2>1 DEF Inside
  <2>3. Nears(u, f, d)
    BY <1>4, <2>2 DEF Nears, Known
  <2>4. f \in File /\ f \notin suspect /\ (f # file \/ op = "none") /\ f \in r.filter
    BY <1>1, <1>3, <2>1, WatchedApart
  <2>5. /\ n \in Name \union {<<>>}
        /\ n = <<>> => \A i \in 1..Len(DirectoryWalk) : ~Stands(View, f, i)
        /\ n # <<>> => \E p \in 1..Len(DirectoryWalk) :
              /\ Stands(View, f, p) /\ CleanAt(View, n, p) /\ NoFree(View, p)
              /\ \A i \in 1..Len(DirectoryWalk) : Stands(View, f, i) => i = p
    BY <2>4, WatchedFile
  <2>6. ~Stands(View, f, c + 1) =>
           ReadOf(u, f) = ReadOf(r, f) /\ \A i \in ReadOf(r, f) : i \in DOMAIN u.got /\ u.got[i] = r.got[i]
    <3> SUFFICES ASSUME ~Stands(View, f, c + 1)
                 PROVE  ReadOf(u, f) = ReadOf(r, f) /\ \A i \in ReadOf(r, f) : i \in DOMAIN u.got /\ u.got[i] = r.got[i]
      OBVIOUS
    <3>1. ~(x.kind = "sfn" /\ x.file = f)
      BY <1>7 DEF Stands
    <3>2. x.kind # "sfn" => u.got = r.got
      BY <1>4, <1>7
    <3> QED BY <1>5, <1>8, <2>4, <3>1, <3>2, TakenOther
  <2> HIDE DEF n
  <2>7. CASE n = <<>>
    <3>1. ReadOf(r, f) = {} /\ ~Stands(View, f, c + 1)
      BY <1>6, <2>2, <2>5, <2>7 DEF FileRead, n
    <3> QED BY <2>3, <2>6, <2>7, <3>1 DEF FileRead, n
  <2>8. CASE n # <<>>
    <3>1. PICK p \in 1..Len(DirectoryWalk) :
              /\ Stands(View, f, p) /\ CleanAt(View, n, p)
              /\ \A i \in 1..Len(DirectoryWalk) : Stands(View, f, i) => i = p
      BY <2>5, <2>8
    <3>2. (c < p => Ahead(r, f, c, p)) /\ (p <= c => Passing(r, f))
      <4>1. PICK i \in 1..Len(DirectoryWalk) : Stands(View, f, i) /\ (c < i => Ahead(r, f, c, i)) /\ (i <= c => Passing(r, f))
        BY <2>2, <2>8 DEF FileRead, n
      <4>2. i = p
        BY <3>1, <4>1
      <4> QED BY <4>1, <4>2
    <3>3. p \in Nat /\ n \in Name /\ Len(n) \in Nat
      <4>1. Len(DirectoryWalk) \in Nat
        BY <1>1, WalkIs
      <4>2. n \in Name
        BY <2>5, <2>8
      <4> QED BY <4>1, <4>2, NamesAre
    <3>4. c + 1 < p => Ahead(u, f, c + 1, p)
      <4> SUFFICES ASSUME c + 1 < p PROVE Ahead(u, f, c + 1, p)
        OBVIOUS
      <4>1. Ahead(r, f, c, p) /\ ~Stands(View, f, c + 1)
        BY <1>6, <3>1, <3>2, <3>3
      <4>2. ReadOf(u, f) = {}
        BY <2>6, <4>1 DEF Ahead
      <4>3. ASSUME u.failed = {}, p <= (c + 1) + Len(n) + 1 PROVE RunFor(n, u.scan, (c + 1) + Len(n) + 1 - p)
        <5>1. p <= c + Len(n) + 1 => RunFor(n, r.scan, c + Len(n) + 1 - p)
          BY <1>4, <4>1, <4>3 DEF Ahead, n
        <5>2. x.kind # "lfn" => u.scan.name = <<>>
          BY <1>4, <1>7
        <5> QED BY <1>4, <1>6, <1>7, <1>8, <3>1, <3>3, <4>3, <5>1, <5>2, RunGoesOn
      <4> QED BY <1>4, <4>2, <4>3 DEF Ahead, n
    <3>5. p <= c + 1 => Passing(u, f)
      <4>1. CASE p <= c
        <5>1. ~Stands(View, f, c + 1)
          BY <1>6, <3>1, <3>3, <4>1
        <5>2. PICK i \in DOMAIN r.got : ReadOf(r, f) = {i} /\ (r.failed = {} => r.got[i].name = n)
          BY <3>2, <4>1 DEF Passing, n
        <5>3. ReadOf(u, f) = {i} /\ i \in DOMAIN u.got /\ u.got[i] = r.got[i]
          BY <2>6, <5>1, <5>2
        <5> QED BY <1>4, <5>2, <5>3 DEF Passing, n
      <4>2. CASE p = c + 1
        <5>1. x.kind = "sfn" /\ x.file = f
          BY <1>7, <3>1, <4>2 DEF Stands
        <5> DEFINE w == IF r.scan.next_is_end_entry THEN r.scan.name ELSE x.short
        <5>2. u.got = Append(r.got, [file |-> f, name |-> w])
          BY <1>5, <2>4, <5>1 DEF Accepted
        <5>3. Ahead(r, f, c, p)
          BY <1>6, <3>2, <4>2
        <5>4. r.failed = {} => w = n
          <6> SUFFICES ASSUME r.failed = {} PROVE w = n
            OBVIOUS
          <6>1. c + Len(n) + 1 - p = Len(n) /\ p <= c + Len(n) + 1
            BY <1>6, <3>3, <4>2
          <6>2. RunFor(n, r.scan, Len(n))
            BY <5>3, <6>1 DEF Ahead, n
          <6>3. Len(n) >= 1 /\ n \in Seq(Word) /\ Len(n) \in Nat
            BY <3>3, NamesAre
          <6>4. /\ Len(r.scan.name) = Len(n) /\ r.scan.next_is_end_entry
                /\ \A j \in 1..Len(n) : r.scan.name[j] = n[j]
            BY <6>2, <6>3 DEF RunFor
          <6>5. r.scan.name \in Seq(Word)
            BY <1>8 DEF ScanState
          <6>6. r.scan.name = n
            <7> DEFINE a == r.scan.name
            <7>1. a \in Seq(Word) /\ Len(a) = Len(n) /\ \A j \in 1..Len(n) : a[j] = n[j]
              BY <6>4, <6>5
            <7> HIDE DEF a
            <7>2. a = n
              BY <6>3, <7>1
            <7> QED BY <7>2 DEF a
          <6> QED BY <6>4, <6>6
        <5>5. ReadOf(r, f) = {}
          BY <5>3 DEF Ahead
        <5> HIDE DEF w
        <5>6. PICK i \in DOMAIN u.got : ReadOf(u, f) = {i} /\ u.got[i].name = w
          <6>1. r.got \in Seq(Returning)
            BY <1>8
          <6>2. Len(u.got) \in DOMAIN u.got /\ ReadOf(u, f) = {Len(u.got)} /\ u.got[Len(u.got)].name = w
            BY ONLY <5>2, <5>5, <6>1, TakenOwn, SMTT(60)
          <6> QED BY ONLY <6>2
        <5> QED BY <1>4, <5>4, <5>6 DEF Passing, n
      <4> QED BY <1>6, <3>3, <4>1, <4>2
    <3> QED BY <2>3, <2>8, <3>1, <3>4, <3>5 DEF FileRead, n
  <2> QED BY <2>7, <2>8
<1>10. Inside(u, c + 1, d) /\ c + 1 \in Nat
  BY <1>6, <1>9 DEF Inside
<1> QED BY <1>10

\* next() returns None at a free entry: every file stands before it.
LEMMA FreeEndInside ==
    ASSUME DirInv, ~misplaced, reader \in Readers, Calling, FreeEnd, NEW c, NEW e, Inside(reader, c, e),
           NEW u, u = reader'
    PROVE  \E b, d \in Nat : Inside(u, b, d)
<1> DEFINE r == EnterCluster(reader)
           x == disk[Head(r.places)]
           q == Passed(r)
<1>1. /\ VolumeOK /\ DiskOK /\ reader.state = "open" /\ ~AtEnd(reader)
      /\ x.kind = "free" /\ u = [q EXCEPT !.ended = TRUE, !.scan = ScanStart]
  BY DiskTyped DEF DirInv, FreeEnd, Reading
<1>2. PICK d \in Nat : c < d /\ Inside(r, c, d)
  BY <1>1, EnterInside
<1>3. r \in Readers /\ r.filter = reader.filter /\ r.touched = reader.touched /\ q \in Readers /\ q.places = Tail(r.places)
  BY <1>1, Entered
<1> HIDE DEF r
<1>4. /\ q.next = r.next /\ q.link = r.link /\ q.filter = r.filter /\ q.got = r.got
      /\ q.touched = r.touched /\ q.failed = r.failed
  BY <1>3 DEF Passed, Readers
<1> HIDE DEF x, q
<1>5. /\ u.places = q.places /\ u.next = q.next /\ u.link = q.link /\ u.filter = q.filter /\ u.got = q.got
      /\ u.touched = q.touched /\ u.failed = q.failed
  BY <1>1, <1>3 DEF Readers
<1>6. Cursor(u, c + 1, d) /\ c + 1 \in 1..Len(DirectoryWalk) /\ Head(r.places) = DirectoryWalk[c + 1] /\ c \in Nat
  <2>1. Cursor(r, c, d) /\ c \in Nat
    BY <1>2 DEF Inside, Cursor
  <2>2. u.places = Tail(r.places) /\ u.next = r.next /\ u.link = r.link
    BY <1>3, <1>4, <1>5
  <2>3. VolumeOK /\ r \in Readers /\ c < d
    BY <1>1, <1>2, <1>3
  <2> QED BY ONLY <2>1, <2>2, <2>3, CursorPasses
<1>7. View[c + 1].kind = "free"
  BY <1>1, <1>6, ViewIs DEF x
<1>8. ASSUME NEW f \in Watched(u) PROVE Nears(u, f, d) /\ FileRead(u, f, c + 1)
  <2> DEFINE n == names[f]
  <2>1. f \in Watched(r) /\ f \in Watched(reader)
    BY <1>3, <1>4, <1>5 DEF Watched
  <2>2. Nears(r, f, d) /\ FileRead(r, f, c)
    BY <1>2, <2>1 DEF Inside
  <2>3. Nears(u, f, d)
    BY <1>4, <1>5, <2>2 DEF Nears, Known
  <2>4. f \in File /\ f \notin suspect /\ (f # file \/ op = "none")
    BY <1>1, <2>1, WatchedApart
  <2>5. n # <<>> => \E p \in 1..Len(DirectoryWalk) :
              /\ Stands(View, f, p) /\ NoFree(View, p)
              /\ \A i \in 1..Len(DirectoryWalk) : Stands(View, f, i) => i = p
    BY <2>4, WatchedFile
  <2>6. ReadOf(u, f) = ReadOf(r, f) /\ (Passing(r, f) => Passing(u, f))
    BY <1>4, <1>5 DEF ReadOf, Passing
  <2>7. CASE n = <<>>
    BY <2>2, <2>3, <2>6, <2>7 DEF FileRead
  <2>8. CASE n # <<>>
    <3>1. PICK p \in 1..Len(DirectoryWalk) :
              /\ Stands(View, f, p) /\ NoFree(View, p)
              /\ \A i \in 1..Len(DirectoryWalk) : Stands(View, f, i) => i = p
      BY <2>5, <2>8
    <3>2. Len(DirectoryWalk) \in Nat
      BY <1>1, WalkIs
    <3>3. ~(c + 1 < p) /\ p # c + 1
      <4>1. c + 1 \notin 1..p
        BY <1>7, <3>1 DEF NoFree
      <4> QED BY <1>6, <3>1, <3>2, <4>1
    <3>4. p <= c
      BY <1>6, <3>1, <3>2, <3>3
    <3>5. Passing(r, f)
      <4>1. PICK i \in 1..Len(DirectoryWalk) : Stands(View, f, i) /\ (i <= c => Passing(r, f))
        BY <2>2, <2>8 DEF FileRead
      <4>2. i = p
        BY <3>1, <4>1
      <4> QED BY <3>4, <4>1, <4>2
    <3> QED BY <2>3, <2>6, <2>8, <3>1, <3>3, <3>5 DEF FileRead
  <2> QED BY <2>7, <2>8
<1>9. Inside(u, c + 1, d) /\ c + 1 \in Nat
  BY <1>6, <1>8 DEF Inside
<1> QED BY <1>9

\* Two readers that stand at the same place and have read the same know the same.
LEMMA SameInside ==
    ASSUME NEW r, NEW u, NEW c, NEW e, Inside(r, c, e), u.places = r.places, u.next = r.next, u.link = r.link,
           u.filter = r.filter, u.touched = r.touched, u.got = r.got,
           \/ u.failed = r.failed /\ u.scan = r.scan
           \/ u.failed = r.failed \union {"entry"},
           ~u.ended
    PROVE  Inside(u, c, e)
<1>1. Cursor(u, c, e)
  BY DEF Inside, Cursor
<1>2. ("link" \in u.failed <=> "link" \in r.failed) /\ (u.failed = {} => r.failed = {} /\ u.scan = r.scan)
  OBVIOUS
<1>3. ASSUME NEW f \in Watched(u) PROVE Nears(u, f, e) /\ FileRead(u, f, c)
  <2>1. f \in Watched(r)
    BY <1>3 DEF Watched
  <2>2. Nears(r, f, e) /\ FileRead(r, f, c)
    BY <2>1 DEF Inside
  <2>3. Nears(u, f, e)
    BY <1>2, <2>2 DEF Nears, Known
  <2>4. ReadOf(u, f) = ReadOf(r, f) /\ (Passing(r, f) => Passing(u, f))
    BY <1>2 DEF ReadOf, Passing
  <2>5. \A p : Ahead(r, f, c, p) => Ahead(u, f, c, p)
    BY <1>2, <2>4 DEF Ahead
  <2> QED BY <2>2, <2>3, <2>4, <2>5 DEF FileRead
<1> QED BY <1>1, <1>3 DEF Inside

\* next() returns None at the end of the chain: every file stands before it.
LEMMA ChainEndInside ==
    ASSUME DirInv, ~misplaced, reader \in Readers, Calling, ChainEnd, NEW c, NEW e, Inside(reader, c, e),
           NEW u, u = reader'
    PROVE  Inside(u, c, e)
<1> DEFINE r == reader
<1>1. /\ VolumeOK /\ r.state = "open" /\ r.places = <<>> /\ r.next = 0 /\ ~r.ended
      /\ u = [r EXCEPT !.ended = TRUE, !.scan = ScanStart]
  BY DEF DirInv, ChainEnd, Reading, AtEnd
<1>2. /\ u.places = r.places /\ u.next = r.next /\ u.link = r.link /\ u.filter = r.filter /\ u.got = r.got
      /\ u.touched = r.touched /\ u.failed = r.failed
  BY <1>1 DEF Readers
<1>3. ~IsData(r.link) /\ r.failed \subseteq {"entry", "link"}
  BY <1>1 DEF Readers
<1>4. Cursor(r, c, e)
  BY DEF Inside
<1>5. c = e /\ c \in Nat /\ Cursor(u, c, e)
  <2>1. Len(r.places) = 0
    BY <1>1
  <2> HIDE DEF r
  <2>2. c = e /\ c \in Nat
    BY <1>4, <2>1 DEF Cursor
  <2>3. Cursor(u, c, e)
    BY <1>2, <1>4 DEF Cursor
  <2> QED BY <2>2, <2>3
<1>6. ASSUME NEW f \in Watched(u) PROVE Nears(u, f, e) /\ FileRead(u, f, c)
  <2>1. f \in Watched(r)
    BY <1>2, <1>6 DEF Watched
  <2>2. Nears(r, f, e) /\ FileRead(r, f, c)
    BY <2>1 DEF Inside
  <2>3. Nears(u, f, e)
    BY <1>2, <2>2 DEF Nears, Known
  <2>4. ReadOf(u, f) = ReadOf(r, f) /\ (Passing(r, f) => Passing(u, f))
    BY <1>2 DEF ReadOf, Passing
  <2>5. ASSUME NEW p \in 1..Len(DirectoryWalk), Stands(View, f, p), c < p, Ahead(r, f, c, p) PROVE Ahead(u, f, c, p)
    <3>1. "link" \in r.failed
      <4> SUFFICES ASSUME "link" \notin r.failed PROVE FALSE
        OBVIOUS
      <4>1. p <= Known(r, e)
        BY <1>3, <2>2, <2>5 DEF Nears
      <4>2. p <= c
        BY <1>1, <1>5, <4>1 DEF Known
      <4>3. Len(DirectoryWalk) \in Nat
        BY <1>1, WalkIs
      <4> QED BY <1>5, <2>5, <4>2, <4>3
    <3> QED BY <1>2, <2>4, <2>5, <3>1 DEF Ahead
  <2> QED BY <2>2, <2>3, <2>4, <2>5 DEF FileRead
<1> QED BY <1>5, <1>6 DEF Inside

\* A reader knows what it needs to.
Knows(u) ==
    /\ u.state = "open" /\ u.scan.found = <<>> /\ u.scan.places = <<>> /\ ~u.scan.over
    /\ op # "none" => file \in u.touched
    /\ ~misplaced => \E c, e \in Nat : Inside(u, c, e)

\* What a reader knows is still so when the directory has not changed.
LEMMA StillInside ==
    ASSUME UNCHANGED <<volume, fat, disk, call, history>>, NEW u, u = reader', NEW c, NEW e, Inside(u, c, e)
    PROVE  Inside(reader, c, e)'
<1>1. /\ DirectoryWalk' = DirectoryWalk /\ View' = View /\ Clusters' = Clusters
      /\ ClusterSlots' = ClusterSlots /\ old_root' = old_root
  BY SameDirectory
<1>2. names' = names /\ suspect' = suspect
  BY DEF history
<1>3. Cursor(reader, c, e)'
  <2>1. Cursor(u, c, e)
    BY DEF Inside
  <2> QED BY <1>1, <2>1 DEF Cursor
<1>4. \A f : /\ ReadOf(reader, f)' = ReadOf(u, f) /\ Passing(reader, f)' = Passing(u, f)
             /\ \A p : Ahead(reader, f, c, p)' = Ahead(u, f, c, p)
  BY <1>2 DEF ReadOf, Passing, Ahead, RunFor
<1>5. \A f : Nears(u, f, e) => Nears(reader, f, e)'
  BY <1>1 DEF Nears, Known, Stands
<1>6. \A f : FileRead(u, f, c) => FileRead(reader, f, c)'
  BY <1>1, <1>2, <1>4 DEF FileRead, Stands
<1>7. Watched(reader)' = Watched(u)
  BY <1>2 DEF Watched
<1>8. \A f \in Watched(u) : Nears(u, f, e) /\ FileRead(u, f, c)
  BY DEF Inside
<1>9. \A f \in Watched(reader)' : Nears(reader, f, e)' /\ FileRead(reader, f, c)'
  BY <1>5, <1>6, <1>7, <1>8
<1> QED BY <1>3, <1>9 DEF Inside

\* and so is the rest.
LEMMA StillKnows ==
    ASSUME UNCHANGED <<volume, fat, disk, call, history>>, NEW u, u = reader', Knows(u), faults' \in Nat
    PROVE  ReaderInv'
<1>1. op' = op /\ file' = file /\ misplaced' = misplaced
  BY DEF call, history
<1>2. reader'.state = "open"
  BY DEF Knows
<1>3. Waiting'
  BY <1>2 DEF Waiting
<1>4. Calling'
  BY <1>1 DEF Calling, Knows
<1>5. ASSUME ~misplaced PROVE \E c, e \in Nat : Inside(reader, c, e)'
  <2>1. PICK c \in Nat, e \in Nat : Inside(u, c, e)
    BY <1>5 DEF Knows
  <2> QED BY <2>1, StillInside
<1> QED BY <1>1, <1>3, <1>4, <1>5 DEF ReaderInv

\* A directory is opened, with or without its second cluster.
LEMMA OpenKnows ==
    ASSUME DirInv, reader \in Readers, Waiting, reader.state = "waits", NEW w \in Filters, NEW u,
           u = Opened(w) \/ (~old_root /\ u = [Opened(w) EXCEPT !.link = Free, !.failed = {"link"}])
    PROVE  Knows(u)
<1> DEFINE n == Cardinality({i \in DOMAIN Listing : Accepted(w, Listing[i].file)})
           t == IF op = "none" THEN {} ELSE {file}
           r == [reader EXCEPT !.state = "open", !.filter = w, !.count = n, !.touched = t]
           o == AtStart(r)
           L == Len(DirectoryWalk)
           CS == ClusterSlots
           cs == Clusters
<1>1. VolumeOK /\ L \in Nat \ {0} /\ CS \in Nat \ {0}
  <2>1. VolumeOK
    BY DEF DirInv
  <2> QED BY <2>1, WalkIs, Sizes
<1>2. reader.got = <<>> /\ reader.scan = ScanStart /\ ~reader.ended /\ reader.failed = {}
  BY DEF Waiting, NoReader
<1>3. Opened(w) = o
  BY DEF Opened
<1>4. r.state = "open" /\ r.filter = w /\ r.touched = t /\ r.got = <<>> /\ r.scan = ScanStart /\ ~r.ended /\ r.failed = {}
      /\ DOMAIN r = {"state", "filter", "places", "next", "link", "scan", "count", "got", "some", "ended",
                     "touched", "calls", "failed"}
  <2> HIDE DEF n, t
  <2>1. r.got = reader.got /\ r.scan = reader.scan /\ r.ended = reader.ended /\ r.failed = reader.failed
        /\ r.state = "open" /\ r.filter = w /\ r.touched = t
    BY DEF Readers
  <2>2. DOMAIN r = {"state", "filter", "places", "next", "link", "scan", "count", "got", "some", "ended",
                     "touched", "calls", "failed"}
    BY DEF Readers
  <2> QED BY <1>2, <2>1, <2>2
<1> HIDE DEF r, n
<1>5. o = IF old_root THEN [r EXCEPT !.places = RootWalk(0), !.next = 0, !.link = Free]
          ELSE [r EXCEPT !.places = <<>>, !.next = start, !.link = fat[start]]
  BY DEF AtStart
<1>6. /\ o.state = "open" /\ o.filter = w /\ o.touched = t /\ o.got = <<>> /\ o.scan = ScanStart /\ ~o.ended
      /\ o.failed = {}
      /\ o.places = (IF old_root THEN RootWalk(0) ELSE <<>>) /\ o.next = (IF old_root THEN 0 ELSE start)
      /\ o.link = (IF old_root THEN Free ELSE fat[start]) /\ DOMAIN o = DOMAIN r
  <2> HIDE DEF o, t
  <2> QED BY <1>4, <1>5
<1> HIDE DEF o
<1>7. /\ u.state = "open" /\ u.filter = w /\ u.touched = t /\ u.got = <<>> /\ u.scan = ScanStart /\ ~u.ended
      /\ u.places = o.places /\ u.next = o.next
      /\ u.link = o.link \/ (u.link = Free /\ u.failed = {"link"} /\ ~old_root)
  <2> HIDE DEF t
  <2>1. CASE u = o
    BY <1>6, <2>1
  <2>2. CASE ~old_root /\ u = [o EXCEPT !.link = Free, !.failed = {"link"}]
    BY <1>4, <1>6, <2>2
  <2> QED BY <1>3, <2>1, <2>2
<1>8. ScanStart.places = <<>> /\ ScanStart.found = <<>> /\ ~ScanStart.over /\ ScanStart.name = <<>>
  BY DEF ScanStart
<1>9. op # "none" => file \in t
  OBVIOUS
<1>10. ~IsData(Free)
  BY ClusterCountAssumption DEF IsData, Free, Cluster
<1>11. ASSUME ~misplaced, NEW f \in Watched(u), NEW e, Nears(u, f, e) PROVE Nears(u, f, e) /\ FileRead(u, f, 0)
  <2>1. f \in File /\ f \notin suspect /\ (f # file \/ op = "none")
    BY <1>7, <1>11 DEF Watched
  <2> DEFINE m == names[f]
  <2>2. ReadOf(u, f) = {}
    BY <1>7 DEF ReadOf
  <2>3. m # <<>> => m \in Name /\ \E p \in 1..L : Stands(View, f, p) /\ CleanAt(View, m, p)
    BY <1>11, <2>1, WatchedFile
  <2>4. ASSUME m # <<>> PROVE \E p \in 1..L : Stands(View, f, p) /\ (0 < p => Ahead(u, f, 0, p)) /\ ~(p <= 0)
    <3>1. PICK p \in 1..L : Stands(View, f, p) /\ CleanAt(View, m, p)
      BY <2>3, <2>4
    <3>2. Len(m) \in Nat /\ p \in Nat /\ p >= 1 /\ Len(m) < p
      <4>1. Len(m) \in Nat
        BY <2>3, <2>4, NamesAre
      <4> QED BY <1>1, <3>1, <4>1 DEF CleanAt
    <3> HIDE DEF m
    <3>3. ASSUME p <= 0 + Len(m) + 1 PROVE RunFor(m, u.scan, 0 + Len(m) + 1 - p)
      <4>1. 0 + Len(m) + 1 - p = 0
        BY <3>2, <3>3
      <4>2. RunFor(m, u.scan, 0)
        BY <1>7, <1>8 DEF RunFor
      <4> QED BY <4>1, <4>2
    <3>4. Ahead(u, f, 0, p)
      BY <1>7, <2>2, <3>3 DEF Ahead, m
    <3> QED BY <3>1, <3>2, <3>4
  <2> QED BY <1>11, <2>2, <2>4 DEF FileRead, L
<1>12. CASE old_root
  <2>1. DirectoryWalk = RootWalk(0)
    BY <1>12 DEF DirectoryWalk
  <2>2. u.places = DirectoryWalk /\ u.next = 0 /\ u.link = Free
    BY <1>6, <1>7, <1>12, <2>1
  <2>3. Cursor(u, 0, L)
    <3>1. \A i \in 1..(L - 0) : u.places[i] = DirectoryWalk[0 + i]
      BY <1>1, <2>2
    <3> QED BY <1>1, <1>12, <2>2, <3>1 DEF Cursor
  <2>4. \A f : Nears(u, f, L)
    <3>1. Known(u, L) = L
      BY <2>2 DEF Known
    <3> QED BY <1>1, <3>1 DEF Nears
  <2>5. ~misplaced => Inside(u, 0, L)
    BY <1>11, <2>3, <2>4 DEF Inside
  <2> QED BY <1>1, <1>7, <1>8, <1>9, <2>5 DEF Knows
<1>13. CASE ~old_root
  <2>1. ChainOK
    BY <1>1, <1>13, ChainIs
  <2>2. /\ cs \in Seq(Cluster) /\ Len(cs) \in Nat \ {0} /\ L = Len(cs) * CS
        /\ \A i \in 1..(Len(cs) - 1) : fat[cs[i]] = cs[i + 1]
        /\ fat[cs[Len(cs)]] = EndOfChain /\ cs[1] = start
    BY <2>1 DEF ChainOK, IsChain
  <2>3. u.places = <<>> /\ u.next = start /\ (u.link = fat[start] \/ (u.link = Free /\ u.failed = {"link"}))
    BY <1>6, <1>7, <1>13
  <2>4. start \in Cluster /\ start # 0
    BY <1>1, <1>13, ClusterCountAssumption DEF VolumeOK, Cluster
  <2>5. ~IsData(EndOfChain)
    BY ClusterCountAssumption DEF IsData, EndOfChain, Cluster
  <2> HIDE DEF cs, CS, L
  <2>6. Len(cs) # 1 => 2 \in 1..Len(cs) /\ fat[start] = cs[2]
    <3> SUFFICES ASSUME Len(cs) # 1 PROVE 2 \in 1..Len(cs) /\ fat[start] = cs[2]
      OBVIOUS
    <3>0. Len(cs) # 1
      OBVIOUS
    <3>1. 1 \in 1..(Len(cs) - 1) /\ 1 + 1 = 2 /\ 2 \in 1..Len(cs)
      <4>1. PICK l : l = Len(cs)
        OBVIOUS
      <4>2. l \in Nat \ {0} /\ l # 1
        BY ONLY <2>2, <3>0, <4>1
      <4>3. 1 \in 1..(l - 1) /\ 1 + 1 = 2 /\ 2 \in 1..l
        BY ONLY <4>2
      <4> QED BY ONLY <4>1, <4>3
    <3>2. fat[cs[1]] = cs[1 + 1]
      BY <2>2, <3>1
    <3> QED BY <2>2, <3>1, <3>2
  <2>7. IsData(u.link) => 2 <= Len(cs) /\ u.link = cs[2]
    BY <1>10, <2>2, <2>3, <2>5, <2>6
  <2>8. Cursor(u, 0, 0)
    <3>1. 0 \in 0..Len(cs) /\ 0 = 0 * CS /\ 0 + 1 = 1 /\ 0 + 2 = 2 /\ 1 <= Len(cs)
      BY <1>1, <2>2
    <3>2. \E q \in 0..Len(cs) :
             /\ 0 = q * CS
             /\ u.next # 0 => q + 1 <= Len(cs) /\ u.next = cs[q + 1]
             /\ IsData(u.link) => q + 2 <= Len(cs) /\ u.link = cs[q + 2]
      BY <2>2, <2>3, <2>7, <3>1
    <3>3. Len(u.places) = 0 /\ 0 <= L
      BY <1>1, <2>3
    <3> QED BY <1>13, <3>2, <3>3 DEF Cursor, cs, CS, L
  <2>9. \A f : Nears(u, f, 0)
    <3>1. Known(u, 0) = CS
      <4>1. 0 + CS = CS
        BY <1>1
      <4> QED BY <2>3, <2>4, <4>1 DEF Known, CS
    <3>2. ASSUME ~IsData(u.link), "link" \notin u.failed PROVE L = CS
      <4>1. u.link = fat[start]
        BY <2>3, <3>2
      <4>2. Len(cs) = 1
        <5> SUFFICES ASSUME Len(cs) # 1 PROVE FALSE
          OBVIOUS
        <5>1. cs[2] \in Cluster
          BY <2>2, <2>6
        <5> QED BY <2>6, <3>2, <4>1, <5>1 DEF IsData
      <4> QED BY <1>1, <2>2, <4>2
    <3> QED BY <1>1, <3>1, <3>2 DEF Nears, L
  <2>10. ~misplaced => Inside(u, 0, 0)
    BY <1>11, <2>8, <2>9 DEF Inside
  <2> QED BY <1>7, <1>8, <1>9, <2>10 DEF Knows
<1> QED BY <1>12, <1>13

\* An entry of the table cannot be read: nothing is known of what comes behind.
LEMMA LinkInside ==
    ASSUME DirInv, reader \in Readers, reader.places = <<>>, IsData(reader.link), ~reader.ended,
           NEW c, NEW e, Inside(reader, c, e),
           NEW u, u = [EnterCluster(reader) EXCEPT !.link = Free, !.failed = @ \union {"link"}]
    PROVE  \E d \in Nat : Inside(u, c, d)
<1> DEFINE r == EnterCluster(reader)
<1>1. VolumeOK /\ ~AtEnd(reader)
  <2>1. reader.next # 0
    BY DEF Readers
  <2> QED BY <2>1 DEF DirInv, AtEnd
<1>2. PICK d \in Nat : c < d /\ Inside(r, c, d)
  BY <1>1, EnterInside
<1>3. r \in Readers /\ ~r.ended
  BY <1>1, Entered
<1> HIDE DEF r
<1>4. u = [r EXCEPT !.link = Free, !.failed = @ \union {"link"}]
  BY DEF r
<1>5. /\ u.places = r.places /\ u.next = r.next /\ u.link = Free /\ u.filter = r.filter /\ u.got = r.got
      /\ u.touched = r.touched /\ u.failed = r.failed \union {"link"} /\ u.ended = r.ended
  BY <1>3, <1>4 DEF Readers
<1>6. ~IsData(Free)
  BY ClusterCountAssumption DEF IsData, Free, Cluster
<1>7. Cursor(u, c, d)
  <2>1. Cursor(r, c, d)
    BY <1>2 DEF Inside
  <2> QED BY <1>5, <1>6, <2>1 DEF Cursor
<1>8. ASSUME NEW f \in Watched(u) PROVE Nears(u, f, d) /\ FileRead(u, f, c)
  <2>1. f \in Watched(r)
    BY <1>5, <1>8 DEF Watched
  <2>2. FileRead(r, f, c)
    BY <1>2, <2>1 DEF Inside
  <2>3. Nears(u, f, d)
    BY <1>5 DEF Nears
  <2>4. ReadOf(u, f) = ReadOf(r, f) /\ (Passing(r, f) => Passing(u, f))
    BY <1>5 DEF ReadOf, Passing
  <2>5. \A p : Ahead(r, f, c, p) => Ahead(u, f, c, p)
    BY <1>3, <1>5, <2>4 DEF Ahead
  <2> QED BY <2>2, <2>3, <2>4, <2>5 DEF FileRead
<1>9. Inside(u, c, d)
  BY <1>7, <1>8 DEF Inside
<1> QED BY <1>9

\* A reader that is open keeps what is known of it, whichever field a step leaves alone.
LEMMA OpenKeeps ==
    ASSUME reader.state = "open", Calling, NEW u, u.state = "open", u.touched = reader.touched,
           u.scan = reader.scan \/ u.scan = ScanStart,
           ~misplaced => \E c, e \in Nat : Inside(u, c, e)
    PROVE  Knows(u)
<1>1. ScanStart.places = <<>> /\ ScanStart.found = <<>> /\ ~ScanStart.over
  BY DEF ScanStart
<1> QED BY <1>1 DEF Knows, Calling

\* Every step of the reader keeps what is known of it.
LEMMA ReaderMoves ==
    ASSUME DirInv, ReaderOK, ReaderInv, UNCHANGED <<volume, fat, disk, call, history>>,
           Open \/ Take \/ FreeEnd \/ ChainEnd \/ ReadOn \/ EntryFails \/ LinkFails
    PROVE  ReaderInv'
<1>1. PICK u : u = reader'
  OBVIOUS
<1>2. reader \in Readers /\ Waiting /\ Calling /\ faults \in Nat
      /\ (reader.state = "open" /\ ~misplaced => \E c, e \in Nat : Inside(reader, c, e))
  BY DEF ReaderOK, ReaderInv
<1>3. faults' \in Nat
  <2>1. CASE Open \/ Take \/ FreeEnd \/ ChainEnd \/ ReadOn
    BY <1>2, <2>1 DEF Open, Take, FreeEnd, ChainEnd, ReadOn, dvars
  <2>2. CASE EntryFails \/ LinkFails
    <3>1. faults' = faults + 1
      BY <2>2 DEF EntryFails, LinkFails, Fault, Fail
    <3> QED BY ONLY <1>2, <3>1
  <2> QED BY <2>1, <2>2
<1>4. CASE Open
  <2>1. PICK w \in Filters : u = Opened(w)
    BY <1>1, <1>4 DEF Open
  <2>2. reader.state = "waits"
    BY <1>4 DEF Open
  <2>3. Knows(u)
    BY <1>2, <2>1, <2>2, OpenKnows
  <2> QED BY <1>1, <1>3, <2>3, StillKnows
<1>5. CASE Take
  <2>1. reader.state = "open" /\ ~AtEnd(reader)
    BY <1>5 DEF Take, Reading
  <2>2. /\ u.state = "open" /\ u.scan.places = <<>> /\ u.scan.found = <<>> /\ ~u.scan.over
        /\ u.touched = EnterCluster(reader).touched
    BY <1>1, <1>2, <1>5, TakeIs
  <2>3. u.touched = reader.touched
    BY <1>2, <2>1, <2>2, Entered DEF DirInv
  <2>4. ~misplaced => \E c, e \in Nat : Inside(u, c, e)
    BY <1>1, <1>2, <1>5, <2>1, TakeInside
  <2>5. op # "none" => file \in u.touched
    BY <1>2, <2>1, <2>3 DEF Calling
  <2>6. Knows(u)
    BY <2>2, <2>4, <2>5 DEF Knows
  <2> QED BY <1>1, <1>3, <2>6, StillKnows
<1>6. CASE FreeEnd
  <2>1. reader.state = "open" /\ ~AtEnd(reader)
    BY <1>6 DEF FreeEnd, Reading
  <2> DEFINE r == EnterCluster(reader)
             q == Passed(r)
  <2>2. u = [q EXCEPT !.ended = TRUE, !.scan = ScanStart]
    BY <1>1, <1>6 DEF FreeEnd
  <2>3. r \in Readers /\ q \in Readers /\ r.state = reader.state /\ r.touched = reader.touched
    BY <1>2, <2>1, Entered DEF DirInv
  <2> HIDE DEF r
  <2>4. q.state = r.state /\ q.touched = r.touched
    BY <2>3 DEF Passed, Readers
  <2> HIDE DEF q
  <2>5. u.state = q.state /\ u.touched = q.touched /\ u.scan = ScanStart
    BY <2>2, <2>3 DEF Readers
  <2>6. ~misplaced => \E c, e \in Nat : Inside(u, c, e)
    BY <1>1, <1>2, <1>6, <2>1, FreeEndInside
  <2>7. Knows(u)
    BY <1>2, <2>1, <2>3, <2>4, <2>5, <2>6, OpenKeeps
  <2> QED BY <1>1, <1>3, <2>7, StillKnows
<1>7. CASE ChainEnd
  <2>1. reader.state = "open" /\ u = [reader EXCEPT !.ended = TRUE, !.scan = ScanStart]
    BY <1>1, <1>7 DEF ChainEnd, Reading
  <2>2. u.state = reader.state /\ u.touched = reader.touched /\ u.scan = ScanStart
    BY <1>2, <2>1 DEF Readers
  <2>3. ~misplaced => \E c, e \in Nat : Inside(u, c, e)
    BY <1>1, <1>2, <1>7, <2>1, ChainEndInside
  <2>4. Knows(u)
    BY <1>2, <2>1, <2>2, <2>3, OpenKeeps
  <2> QED BY <1>1, <1>3, <2>4, StillKnows
<1>8. CASE ReadOn
  <2>1. reader.ended /\ u = [reader EXCEPT !.ended = FALSE, !.some = FALSE]
    BY <1>1, <1>8 DEF ReadOn
  <2>2. reader.state = "open"
    <3> SUFFICES ASSUME reader.state # "open" PROVE FALSE
      OBVIOUS
    <3>1. reader.ended = FALSE
      BY <1>2 DEF Waiting, NoReader
    <3> QED BY <2>1, <3>1
  <2>3. /\ u.places = reader.places /\ u.next = reader.next /\ u.link = reader.link /\ u.filter = reader.filter
        /\ u.got = reader.got /\ u.touched = reader.touched /\ u.failed = reader.failed /\ u.scan = reader.scan
        /\ u.state = reader.state /\ ~u.ended
    BY <1>2, <2>1 DEF Readers
  <2>4. ~misplaced => \E c, e \in Nat : Inside(u, c, e)
    BY <1>2, <2>2, <2>3, SameInside
  <2>5. Knows(u)
    BY <1>2, <2>2, <2>3, <2>4, OpenKeeps
  <2> QED BY <1>1, <1>3, <2>5, StillKnows
<1>9. CASE EntryFails
  <2> DEFINE r == EnterCluster(reader)
  <2>1. /\ reader.state = "open" /\ ~AtEnd(reader) /\ ~reader.ended
        /\ u = [r EXCEPT !.scan = ScanStart, !.failed = @ \union {"entry"}]
    BY <1>1, <1>9 DEF EntryFails, Reading
  <2>2. r \in Readers /\ r.state = reader.state /\ r.touched = reader.touched /\ r.ended = reader.ended
    BY <1>2, <2>1, Entered DEF DirInv
  <2>3. ~misplaced => \E c, d \in Nat : Inside(r, c, d)
    <3> SUFFICES ASSUME ~misplaced PROVE \E c, d \in Nat : Inside(r, c, d)
      OBVIOUS
    <3>1. PICK c \in Nat, e \in Nat : Inside(reader, c, e)
      BY <1>2, <2>1
    <3>2. \E d \in Nat : c < d /\ Inside(r, c, d)
      BY <1>2, <2>1, <3>1, EnterInside
    <3> QED BY <3>2
  <2> HIDE DEF r
  <2>4. /\ u.places = r.places /\ u.next = r.next /\ u.link = r.link /\ u.filter = r.filter
        /\ u.got = r.got /\ u.touched = r.touched /\ u.failed = r.failed \union {"entry"} /\ u.scan = ScanStart
        /\ u.state = r.state /\ ~u.ended
    BY <2>1, <2>2 DEF Readers
  <2>5. ~misplaced => \E c, e \in Nat : Inside(u, c, e)
    BY <2>3, <2>4, SameInside
  <2>6. Knows(u)
    BY <1>2, <2>1, <2>2, <2>4, <2>5, OpenKeeps
  <2> QED BY <1>1, <1>3, <2>6, StillKnows
<1>10. CASE LinkFails
  <2>1. CASE reader.state = "waits" /\ ~old_root
    <3>1. reader.state # "open" /\ ~Reading
      BY <2>1 DEF Reading
    <3>2. PICK w \in Filters : u = [Opened(w) EXCEPT !.link = Free, !.failed = {"link"}]
      BY <1>1, <1>10, <3>1 DEF LinkFails
    <3>3. Knows(u)
      BY <1>2, <2>1, <3>2, OpenKnows
    <3> QED BY <1>1, <1>3, <3>3, StillKnows
  <2>2. CASE ~(reader.state = "waits" /\ ~old_root)
    <3> DEFINE r == EnterCluster(reader)
    <3>1. /\ reader.state = "open" /\ ~reader.ended /\ reader.places = <<>> /\ IsData(reader.link)
          /\ u = [r EXCEPT !.link = Free, !.failed = @ \union {"link"}]
      BY <1>1, <1>10, <2>2 DEF LinkFails, Reading
    <3>2. ~AtEnd(reader)
      BY <1>2, <3>1 DEF Readers, AtEnd
    <3>3. r \in Readers /\ r.state = reader.state /\ r.touched = reader.touched /\ r.scan = reader.scan
      BY <1>2, <3>2, Entered DEF DirInv
    <3>4. ~misplaced => \E c, d \in Nat : Inside(u, c, d)
      <4> SUFFICES ASSUME ~misplaced PROVE \E c, d \in Nat : Inside(u, c, d)
        OBVIOUS
      <4>1. PICK c \in Nat, e \in Nat : Inside(reader, c, e)
        BY <1>2, <3>1
      <4>2. \E d \in Nat : Inside(u, c, d)
        BY <1>2, <3>1, <4>1, LinkInside
      <4> QED BY <4>2
    <3> HIDE DEF r
    <3>5. u.state = r.state /\ u.touched = r.touched /\ u.scan = r.scan
      BY <3>1, <3>3 DEF Readers
    <3>6. Knows(u)
      BY <1>2, <3>1, <3>3, <3>4, <3>5, OpenKeeps
    <3> QED BY <1>1, <1>3, <3>6, StillKnows
  <2> QED BY <2>1, <2>2
<1> QED BY <1>4, <1>5, <1>6, <1>7, <1>8, <1>9, <1>10

(***************************************************************************)
(* Steps of the other caller                                               *)
(***************************************************************************)
\* A cluster that is linked makes the way through the directory longer.
LEMMA GrowthLonger == ASSUME DirInv, UNCHANGED volume, NEW g, TakeCluster(g) PROVE Longer
<1>1. PICK c \in FreeClusters(fat) : fat' = [fat EXCEPT ![Last(ChainFrom(start))] = c, ![c] = EndOfChain]
  BY DEF TakeCluster
<1>2. VolumeOK /\ ~old_root /\ c \in Cluster /\ fat[c] = Free
  BY DEF TakeCluster, FreeClusters, DirInv
<1> DEFINE L == Len(DirectoryWalk)
<1>3. /\ Clusters' = Append(Clusters, c) /\ Len(Clusters') = Len(Clusters) + 1
      /\ Len(DirectoryWalk') = L + ClusterSlots
      /\ \A i \in 1..L : DirectoryWalk'[i] = DirectoryWalk[i]
      /\ ClusterSlots' = ClusterSlots
  BY <1>1, <1>2, Grown
<1>4. L \in Nat /\ ClusterSlots \in Nat \ {0} /\ Clusters \in Seq(Cluster) /\ Len(Clusters) \in Nat
  BY <1>2, WalkIs, Sizes, ChainIs DEF ChainOK, IsChain
<1>5. old_root' = old_root
  BY DEF volume
<1>6. \A i \in 1..Len(Clusters) : Clusters'[i] = Clusters[i]
  <2>1. ASSUME NEW s \in Seq(Cluster), NEW i \in 1..Len(s) PROVE Append(s, c)[i] = s[i]
    OBVIOUS
  <2> QED BY <1>3, <1>4, <2>1
<1> QED BY <1>2, <1>3, <1>4, <1>5, <1>6 DEF Longer

\* A cluster that is linked holds nothing but what its last owner left.
LEMMA GrowthSpares ==
    ASSUME DirInv, ~misplaced, UNCHANGED <<volume, disk>>, names' = names, NEW g, TakeCluster(g),
           NEW f \in File, f \notin suspect'
    PROVE  Spares(f)
<1>1. PICK c \in FreeClusters(fat) : fat' = [fat EXCEPT ![Last(ChainFrom(start))] = c, ![c] = EndOfChain]
  BY DEF TakeCluster
<1>2. VolumeOK /\ ~old_root /\ c \in Cluster /\ fat[c] = Free /\ Loose /\ f \notin suspect
  BY DEF TakeCluster, FreeClusters, DirInv, PlacedOK
<1> DEFINE L == Len(DirectoryWalk)
<1>3. /\ DirectoryWalk' \in Seq(Place) /\ Len(DirectoryWalk') = L + ClusterSlots
      /\ \A i \in 1..L : DirectoryWalk'[i] = DirectoryWalk[i]
      /\ \A i \in (L + 1)..Len(DirectoryWalk'), j \in 1..L : DirectoryWalk[j] # DirectoryWalk'[i]
  BY <1>1, <1>2, Grown
<1>4. L \in Nat /\ ClusterSlots \in Nat \ {0}
  BY <1>2, WalkIs, Sizes
<1>5. ASSUME NEW i \in 1..Len(DirectoryWalk'), Stands(View, f, i)' PROVE i \in 1..L /\ Stands(View, f, i)
  <2>1. View'[i] = disk[DirectoryWalk'[i]]
    BY <1>5 DEF View
  <2>2. View'[i].kind = "sfn" /\ View'[i].file = f
    BY <1>5 DEF Stands
  <2>3. CASE i \in 1..L
    <3>1. View[i] = disk[DirectoryWalk[i]]
      BY <2>3 DEF View
    <3> QED BY <1>3, <2>1, <2>2, <2>3, <3>1 DEF Stands
  <2>4. CASE i \notin 1..L
    <3> HIDE DEF L
    <3>1. i \in (L + 1)..Len(DirectoryWalk')
      BY <1>3, <1>4, <2>4
    <3>2. DirectoryWalk'[i] \in Place /\ \A j \in 1..Len(DirectoryWalk) : DirectoryWalk[j] # DirectoryWalk'[i]
      BY <1>3, <3>1 DEF L
    <3>3. disk[DirectoryWalk'[i]].kind = "free" \/ disk[DirectoryWalk'[i]].file = Old
      BY <1>2, <3>2 DEF Loose
    <3> QED BY <2>1, <2>2, <3>3, DirectoryAssumption
  <2> QED BY <2>3, <2>4
<1> QED BY <1>2, <1>5 DEF Spares

\* A call that begins spares the files that it is not about.
LEMMA BeginSpares ==
    ASSUME DirInv, ~misplaced, NEW f \in File, f \notin suspect', f # file',
           \/ \E n \in Name : BeginCreate(n) \/ BeginDelete(n)
           \/ \E o, n \in Name : BeginRename(o, n)
    PROVE  Spares(f)
<1>1. ASSUME NEW g, NEW k, UNCHANGED <<volume, disk>>, names' = names, AllocateEntries(g, k)
      PROVE  Spares(f)
  <2>1. CASE TakeHole(g)
    <3>1. UNCHANGED <<volume, fat, disk>> /\ f \notin suspect
      BY <1>1, <2>1 DEF TakeHole
    <3> QED BY <1>1, <3>1, QuietSpares
  <2>2. CASE TakeCluster(g)
    BY <1>1, <2>2, GrowthSpares
  <2> QED BY <1>1, <2>1, <2>2 DEF AllocateEntries
<1>2. ASSUME NEW n \in Name, BeginCreate(n) PROVE Spares(f)
  <2>1. UNCHANGED <<volume, disk>> /\ names' = names /\ \E g \in File, k \in {0, 1} : AllocateEntries(g, k)
    BY <1>2 DEF BeginCreate
  <2> QED BY <1>1, <2>1
<1>3. ASSUME NEW n \in Name, BeginDelete(n) PROVE Spares(f)
  <2>1. UNCHANGED <<volume, fat, disk>> /\ f \notin suspect /\ names'[f] = names[f]
    BY <1>3 DEF BeginDelete
  <2> QED BY <2>1, QuietSpares
<1>4. ASSUME NEW o \in Name, NEW n \in Name, BeginRename(o, n) PROVE Spares(f)
  <2>1. UNCHANGED <<volume, disk>> /\ names' = names
    BY <1>4 DEF BeginRename
  <2>2. (\E k \in {0, 1} : AllocateEntries(Find(o).file, k)) \/ UNCHANGED <<fat, suspect>>
    BY <1>4 DEF BeginRename
  <2>3. CASE UNCHANGED <<fat, suspect>>
    <3>1. UNCHANGED <<volume, fat, disk>> /\ f \notin suspect /\ names'[f] = names[f]
      BY <2>1, <2>3
    <3> QED BY <3>1, QuietSpares
  <2> QED BY <1>1, <2>1, <2>2, <2>3
<1> QED BY <1>2, <1>3, <1>4

\* So does a call that goes on, also with its last step.
LEMMA CallSpares ==
    ASSUME DirInv, ~misplaced, NEW f \in File, f \notin suspect', f # file,
           Clean \/ WriteEntry \/ NoNextEntry \/ CreateDone \/ RewriteDone \/ CopyDone \/ DeleteDone
    PROVE  Spares(f)
<1>1. CASE Clean
  BY <1>1, CleanSpares DEF Clean, history
<1>2. CASE WriteEntry
  BY <1>2, WriteSpares DEF WriteEntry, history
<1>3. names \in [File -> Name \union {<<>>}]
  BY DEF DirInv, TypeOK
<1>4. CASE NoNextEntry \/ CreateDone \/ RewriteDone \/ CopyDone \/ DeleteDone
  <2>1. UNCHANGED <<volume, fat, disk>>
    BY <1>4 DEF NoNextEntry, CreateDone, RewriteDone, CopyDone, DeleteDone
  <2>2. f \notin suspect
    BY <1>4 DEF NoNextEntry, CreateDone, RewriteDone, CopyDone, DeleteDone
  <2>3. names'[f] = names[f]
    BY <1>3, <1>4 DEF NoNextEntry, CreateDone, RewriteDone, CopyDone, DeleteDone
  <2> QED BY <2>1, <2>2, <2>3, QuietSpares
<1> QED BY <1>1, <1>2, <1>4

\* No call makes the way through the directory shorter.
LEMMA NextLonger == ASSUME DirInv, Next, faults' = faults, faults \in Nat PROVE Longer
<1>1. UNCHANGED volume /\ VolumeOK
  BY VolumeStays DEF DirInv
<1>2. CASE fat' = fat
  BY <1>1, <1>2, SameLonger
<1>3. CASE fat' # fat
  <2>1. ~CleanFails /\ ~Stop /\ ~LinkUnread
    <3>1. Fault => faults' = faults + 1
      BY DEF Fault, Fail
    <3>2. ~Fault
      BY ONLY <3>1, faults' = faults, faults \in Nat
    <3> QED BY <3>2 DEF CleanFails, Stop, LinkUnread
  <2>2. \E g, k : AllocateEntries(g, k)
    <3>1. ~(Clean \/ WriteEntry \/ NoNextEntry \/ CreateDone \/ RewriteDone \/ CopyDone \/ DeleteDone)
      BY <1>3 DEF Clean, WriteEntry, NoNextEntry, CreateDone, RewriteDone, CopyDone, DeleteDone
    <3>2. CASE \E n \in Name : BeginCreate(n)
      BY <3>2 DEF BeginCreate
    <3>3. CASE \E o, n \in Name : BeginRename(o, n)
      BY <1>3, <3>3 DEF BeginRename
    <3>4. \A n \in Name : ~BeginDelete(n)
      BY <1>3 DEF BeginDelete
    <3> QED BY <2>1, <3>1, <3>2, <3>3, <3>4 DEF Next
  <2>3. PICK g : TakeCluster(g)
    BY <1>3, <2>2 DEF AllocateEntries, TakeHole
  <2> QED BY <1>1, <2>3, GrowthLonger
<1> QED BY <1>2, <1>3

\* What a reader knows of a directory is still so when it got longer and the files that
\* are watched were spared.
LEMMA WrittenInside ==
    ASSUME DirInv, DirInv', ~misplaced, ~misplaced', Longer, Calling, reader.state = "open",
           NEW u, u = reader', u.places = reader.places, u.next = reader.next, u.link = reader.link,
           u.filter = reader.filter, u.got = reader.got, u.scan = reader.scan, u.failed = reader.failed,
           u.ended = reader.ended, reader.touched \subseteq u.touched,
           \A f \in Watched(reader)' : f \notin suspect /\ Spares(f) /\ (f # file' \/ op' = "none"),
           NEW c, NEW e, Inside(reader, c, e)
    PROVE  Inside(reader, c, e)'
<1> DEFINE L == Len(DirectoryWalk)
<1>1. Watched(reader)' \subseteq Watched(reader) /\ Watched(reader)' \subseteq File
  BY DEF Watched
<1>2. Cursor(reader, c, e) /\ L \in Nat /\ (~old_root => Len(Clusters) \in Nat /\ Len(Clusters') \in Nat)
  <2>1. VolumeOK /\ VolumeOK'
    BY DEF DirInv
  <2>2. ~old_root => Len(Clusters) \in Nat
    BY <2>1, ChainIs DEF ChainOK
  <2> QED BY <2>1, <2>2, WalkIs DEF Inside, Longer
<1>3. Cursor(reader, c, e)'
  <2>1. /\ c \in Nat /\ e \in Nat /\ c <= e /\ e <= L /\ Len(reader.places) = e - c
        /\ \A i \in 1..(e - c) : reader.places[i] = DirectoryWalk[c + i]
    BY <1>2 DEF Cursor
  <2>2. /\ L <= Len(DirectoryWalk') /\ Len(DirectoryWalk') \in Nat
        /\ \A i \in 1..L : DirectoryWalk'[i] = DirectoryWalk[i]
        /\ ClusterSlots' = ClusterSlots /\ old_root' = old_root
    BY DEF Longer
  <2>3. e <= Len(DirectoryWalk')
    BY <1>2, <2>1, <2>2
  <2>4. ASSUME NEW i \in 1..(e - c) PROVE u.places[i] = DirectoryWalk'[c + i]
    <3>1. c + i \in 1..L
      BY <1>2, <2>1
    <3> QED BY <2>1, <2>2, <3>1
  <2>5. CASE old_root
    <3>1. e = Len(DirectoryWalk') /\ u.next = 0
      BY <1>2, <2>5 DEF Cursor, Longer
    <3> QED BY <2>1, <2>2, <2>3, <2>4, <2>5, <3>1 DEF Cursor
  <2>6. CASE ~old_root
    <3>1. PICK q \in 0..Len(Clusters) :
             /\ e = q * ClusterSlots
             /\ reader.next # 0 => q + 1 <= Len(Clusters) /\ reader.next = Clusters[q + 1]
             /\ IsData(reader.link) => q + 2 <= Len(Clusters) /\ reader.link = Clusters[q + 2]
      BY <1>2, <2>6 DEF Cursor
    <3>2. Len(Clusters) <= Len(Clusters') /\ \A i \in 1..Len(Clusters) : Clusters'[i] = Clusters[i]
      BY <2>6 DEF Longer
    <3>3. q \in 0..Len(Clusters') /\ e = q * ClusterSlots'
      BY <1>2, <2>2, <2>6, <3>1, <3>2
    <3>4. u.next # 0 => q + 1 <= Len(Clusters') /\ u.next = Clusters'[q + 1]
      <4> SUFFICES ASSUME u.next # 0 PROVE q + 1 <= Len(Clusters') /\ u.next = Clusters'[q + 1]
        OBVIOUS
      <4>1. q + 1 <= Len(Clusters) /\ q + 1 \in 1..Len(Clusters) /\ reader.next = Clusters[q + 1]
        BY <1>2, <2>6, <3>1
      <4> QED BY <1>2, <2>6, <3>2, <4>1
    <3>5. IsData(u.link) => q + 2 <= Len(Clusters') /\ u.link = Clusters'[q + 2]
      <4> SUFFICES ASSUME IsData(u.link) PROVE q + 2 <= Len(Clusters') /\ u.link = Clusters'[q + 2]
        OBVIOUS
      <4>1. q + 2 <= Len(Clusters) /\ q + 2 \in 1..Len(Clusters) /\ reader.link = Clusters[q + 2]
        BY <1>2, <2>6, <3>1
      <4> QED BY <1>2, <2>6, <3>2, <4>1
    <3>6. \E k \in 0..Len(Clusters') :
             /\ e = k * ClusterSlots'
             /\ u.next # 0 => k + 1 <= Len(Clusters') /\ u.next = Clusters'[k + 1]
             /\ IsData(u.link) => k + 2 <= Len(Clusters') /\ u.link = Clusters'[k + 2]
      BY <3>3, <3>4, <3>5
    <3> QED BY <2>1, <2>2, <2>3, <2>4, <2>6, <3>6 DEF Cursor
  <2> QED BY <2>5, <2>6
<1>4. ASSUME NEW f \in Watched(reader)' PROVE Nears(reader, f, e)' /\ FileRead(reader, f, c)'
  <2>1. /\ f \in Watched(reader) /\ f \in File /\ f \notin suspect /\ f \notin suspect'
        /\ Nears(reader, f, e) /\ FileRead(reader, f, c) /\ names'[f] = names[f]
    BY <1>1 DEF Inside, Watched, Spares
  <2>2. \A i \in 1..Len(DirectoryWalk') : Stands(View, f, i)' => i \in 1..L /\ Stands(View, f, i)
    BY DEF Spares
  <2>3. Nears(reader, f, e)'
    <3>1. Known(reader, e)' = Known(reader, e)
      BY DEF Known, Longer
    <3> QED BY <2>1, <2>2, <3>1 DEF Nears
  <2>4. KeptAs(View, names[f], f)'
    BY <1>4, <2>1 DEF DirInv, PlacedOK, Settled, Resting
  <2>5. ReadOf(reader, f)' = ReadOf(reader, f) /\ (Passing(reader, f) => Passing(reader, f)')
    BY <2>1 DEF ReadOf, Passing
  <2>6. \A p : Ahead(reader, f, c, p) => Ahead(reader, f, c, p)'
    BY <2>1, <2>5 DEF Ahead, RunFor
  <2>7. ASSUME names[f] # <<>>
        PROVE  \E p \in 1..Len(DirectoryWalk') :
                  /\ Stands(View, f, p)'
                  /\ c < p => Ahead(reader, f, c, p)'
                  /\ p <= c => Passing(reader, f)'
    <3>1. PICK p \in 1..L :
             Stands(View, f, p) /\ (c < p => Ahead(reader, f, c, p)) /\ (p <= c => Passing(reader, f))
      BY <2>1, <2>7 DEF FileRead
    <3>2. PICK q \in 1..Len(DirectoryWalk') : Stands(View, f, q)'
      BY <2>1, <2>4, <2>7 DEF KeptAs, KeptIn, Stands
    <3>3. q \in 1..L /\ Stands(View, f, q)
      BY <2>2, <3>2
    <3>4. f # file \/ op = "none"
      BY <2>1, WatchedApart
    <3>5. q = p
      BY <2>1, <2>7, <3>1, <3>3, <3>4, WatchedFile
    <3> QED BY <2>5, <2>6, <3>1, <3>2, <3>5
  <2>8. names[f] = <<>> => ReadOf(reader, f)' = {}
    BY <2>1, <2>5 DEF FileRead
  <2> QED BY <2>1, <2>3, <2>7, <2>8 DEF FileRead
<1> QED BY <1>3, <1>4 DEF Inside

\* Every step of the other caller keeps what is known of the reader.
LEMMA WriteKeeps == ASSUME DirInv, DirInv', ReaderOK, ReaderInv, Write PROVE ReaderInv'
<1>1. /\ reader \in Readers /\ Waiting /\ Calling /\ faults \in Nat /\ Next
      /\ (reader.state = "open" /\ ~misplaced => \E c, e \in Nat : Inside(reader, c, e))
  BY DEF ReaderOK, ReaderInv, Write
<1>2. PICK u : u = reader'
  OBVIOUS
<1>3. faults' \in Nat
  <2>1. faults' = faults \/ \E x \in Nat : faults' = faults + x
    <3>0. \A n : \A k \in {0, 1} : k + Overlooked(n) \in Nat /\ Overlooked(n) \in Nat
      BY DEF Overlooked
    <3>1. ASSUME NEW n \in Name, BeginCreate(n) \/ BeginDelete(n)
          PROVE  faults' = faults \/ \E x \in Nat : faults' = faults + x
      <4>1. CASE BeginCreate(n)
        BY <3>0, <4>1 DEF BeginCreate, Fail
      <4>2. CASE BeginDelete(n)
        BY <4>2 DEF BeginDelete
      <4> QED BY <3>1, <4>1, <4>2
    <3>2. ASSUME NEW o \in Name, NEW n \in Name, BeginRename(o, n)
          PROVE  \E x \in Nat : faults' = faults + x
      BY <3>0, <3>2 DEF BeginRename, Fail
    <3>3. CASE Clean \/ WriteEntry \/ NoNextEntry \/ CreateDone \/ RewriteDone \/ CopyDone \/ DeleteDone
      BY <3>3 DEF Clean, WriteEntry, NoNextEntry, CreateDone, RewriteDone, CopyDone, DeleteDone
    <3>4. CASE Stop \/ LinkUnread \/ CleanFails
      BY <3>4 DEF Stop, LinkUnread, CleanFails, Fault, Fail
    <3> QED BY <1>1, <3>1, <3>2, <3>3, <3>4 DEF Next
  <2> QED BY ONLY <1>1, <2>1
<1>4. CASE reader.state # "open"
  <2> DEFINE n == reader.calls + 1
  <2>1. u = reader \/ u = [reader EXCEPT !.calls = n, !.touched = reader.touched]
    BY <1>2, <1>4 DEF Write
  <2>2. reader = [NoReader EXCEPT !.state = reader.state, !.calls = reader.calls]
    BY <1>1, <1>4 DEF Waiting
  <2> HIDE DEF n
  <2>3. u = [reader EXCEPT !.calls = n, !.touched = reader.touched]
        => u = [NoReader EXCEPT !.state = u.state, !.calls = u.calls]
    <3> SUFFICES ASSUME u = [reader EXCEPT !.calls = n, !.touched = reader.touched]
                 PROVE  u = [NoReader EXCEPT !.state = u.state, !.calls = u.calls]
      OBVIOUS
    <3>1. reader.touched = NoReader.touched /\ u.state = reader.state /\ u.calls = n
      BY <2>2 DEF NoReader
    <3>2. u = [NoReader EXCEPT !.state = reader.state, !.calls = n]
      <4>1. [NoReader EXCEPT !.state = reader.state, !.calls = n]
            = [reader EXCEPT !.calls = n, !.touched = NoReader.touched]
        BY <2>2 DEF NoReader
      <4> QED BY <3>1, <4>1
    <3> QED BY <3>1, <3>2
  <2>4. u.state = reader.state /\ u = [NoReader EXCEPT !.state = u.state, !.calls = u.calls]
    BY <1>1, <2>1, <2>2, <2>3 DEF Readers
  <2>5. Waiting' /\ reader'.state # "open"
    BY <1>2, <1>4, <2>4 DEF Waiting
  <2> QED BY <1>3, <2>5 DEF ReaderInv, Calling
<1>5. CASE reader.state = "open"
  <2> DEFINE n == reader.calls + 1
             t == reader.touched \union {file'}
  <2>1. faults' = faults
    BY <1>5 DEF Write
  <2>2. u = IF op # "none" THEN reader ELSE [reader EXCEPT !.calls = n, !.touched = t]
    BY <1>2, <1>5 DEF Write
  <2> HIDE DEF n, t
  <2>3. /\ u.places = reader.places /\ u.next = reader.next /\ u.link = reader.link
        /\ u.filter = reader.filter /\ u.got = reader.got /\ u.scan = reader.scan /\ u.failed = reader.failed
        /\ u.ended = reader.ended /\ u.state = "open"
        /\ u.touched = IF op # "none" THEN reader.touched ELSE t
    BY <1>1, <1>5, <2>2 DEF Readers
  <2>4. /\ op = "none" => \/ \E m \in Name : BeginCreate(m) \/ BeginDelete(m)
                          \/ \E o, m \in Name : BeginRename(o, m)
        /\ op # "none" => Clean \/ WriteEntry \/ NoNextEntry \/ CreateDone \/ RewriteDone \/ CopyDone \/ DeleteDone
    <3>1. ~Stop /\ ~LinkUnread /\ ~CleanFails
      <4>1. faults' # faults + 1
        BY ONLY <1>1, <2>1
      <4> QED BY <4>1 DEF Stop, LinkUnread, CleanFails, Fault, Fail
    <3>2. op = "none" => /\ ~Clean /\ ~WriteEntry /\ ~NoNextEntry /\ ~CreateDone /\ ~RewriteDone
                         /\ ~CopyDone /\ ~DeleteDone
      <4>1. op = "none" => todo = <<>> /\ fresh = <<>>
        BY DEF DirInv, TypeOK
      <4> QED BY <4>1 DEF Clean, WriteEntry, NoNextEntry, CreateDone, RewriteDone, CopyDone, DeleteDone
    <3>3. op # "none" => /\ \A m \in Name : ~BeginCreate(m) /\ ~BeginDelete(m)
                         /\ \A o, m \in Name : ~BeginRename(o, m)
      BY DEF BeginCreate, BeginDelete, BeginRename
    <3> QED BY <1>1, <3>1, <3>2, <3>3 DEF Next
  <2>5. op # "none" => op' = "none" \/ file' = file
    BY <2>4 DEF Clean, WriteEntry, NoNextEntry, CreateDone, RewriteDone, CopyDone, DeleteDone, EndCall
  <2>6. op' # "none" => file' \in u.touched
    BY <1>1, <1>5, <2>3, <2>5 DEF Calling, t
  <2>7. Waiting' /\ Calling'
    BY <1>1, <1>2, <1>5, <2>3, <2>6 DEF Waiting, Calling
  <2>8. ASSUME ~misplaced' PROVE \E c, e \in Nat : Inside(reader, c, e)'
    <3>1. ~misplaced
      <4>1. ASSUME NEW g, NEW k, AllocateEntries(g, k) PROVE ~misplaced
        BY <2>8, <4>1 DEF AllocateEntries, TakeHole, TakeCluster
      <4>2. ASSUME NEW m \in Name, BeginCreate(m) PROVE ~misplaced
        BY <4>1, <4>2 DEF BeginCreate
      <4>3. ASSUME NEW m \in Name, BeginDelete(m) PROVE ~misplaced
        BY <2>8, <4>3 DEF BeginDelete
      <4>4. ASSUME NEW o \in Name, NEW m \in Name, BeginRename(o, m) PROVE ~misplaced
        BY <2>8, <4>1, <4>4 DEF BeginRename
      <4>5. CASE op # "none"
        BY <2>4, <2>8, <4>5
        DEF Clean, WriteEntry, NoNextEntry, CreateDone, RewriteDone, CopyDone, DeleteDone, history
      <4> QED BY <2>4, <4>2, <4>3, <4>4, <4>5
    <3>2. Longer
      BY <1>1, <2>1, NextLonger
    <3>3. ASSUME NEW f \in Watched(reader)' PROVE f \notin suspect /\ Spares(f) /\ (f # file' \/ op' = "none")
      <4>1. f \in File /\ f \notin u.touched /\ f \notin suspect'
        BY <1>2, <3>3 DEF Watched
      <4>2. f # file' \/ op' = "none"
        BY <2>6, <4>1
      <4>3. CASE op = "none"
        <5>1. f # file'
          BY <2>3, <4>1, <4>3 DEF t
        <5> QED BY <2>4, <3>1, <4>1, <4>2, <4>3, <5>1, BeginSpares DEF Spares
      <4>4. CASE op # "none"
        <5>1. f # file
          BY <1>1, <1>5, <2>3, <4>1, <4>4 DEF Calling
        <5> QED BY <2>4, <3>1, <4>1, <4>2, <4>4, <5>1, CallSpares DEF Spares
      <4> QED BY <4>3, <4>4
    <3>4. PICK c \in Nat, e \in Nat : Inside(reader, c, e)
      BY <1>1, <1>5, <3>1
    <3>5. reader.touched \subseteq u.touched
      BY <2>3 DEF t
    <3>6. Inside(reader, c, e)'
      BY <1>1, <1>2, <1>5, <2>3, <2>8, <3>1, <3>2, <3>3, <3>4, <3>5, WrittenInside
    <3> QED BY <3>6
  <2> QED BY <1>2, <1>3, <2>7, <2>8 DEF ReaderInv
<1> QED BY <1>4, <1>5

\* What is known of a reader is kept by every step.
LEMMA ReaderInvStep ==
    ASSUME DirInv, DirInv', ReaderOK, ReaderInv, ReaderNext \/ UNCHANGED <<dvars, reader>> PROVE ReaderInv'
<1>1. CASE Open \/ Take \/ FreeEnd \/ ChainEnd \/ ReadOn \/ EntryFails \/ LinkFails
  <2>1. UNCHANGED <<volume, fat, disk, call, history>>
    BY <1>1 DEF Open, Take, FreeEnd, ChainEnd, ReadOn, EntryFails, LinkFails, dvars
  <2> QED BY <1>1, <2>1, ReaderMoves
<1>2. CASE Write
  BY <1>2, WriteKeeps
<1>3. CASE UNCHANGED <<dvars, reader>>
  <2>1. UNCHANGED <<volume, fat, disk, call, history>> /\ faults' = faults
    BY <1>3 DEF dvars
  <2>2. reader' = reader /\ op' = op /\ file' = file /\ misplaced' = misplaced
    BY <1>3, <2>1 DEF call, history
  <2>3. ASSUME reader.state = "open", ~misplaced PROVE \E c, e \in Nat : Inside(reader, c, e)'
    <3>1. PICK c \in Nat, e \in Nat : Inside(reader, c, e)
      BY <2>3 DEF ReaderInv
    <3>2. PICK u : u = reader'
      OBVIOUS
    <3>3. Inside(u, c, e)
      BY <2>2, <3>1, <3>2
    <3>4. Inside(reader, c, e)'
      BY <2>1, <3>2, <3>3, StillInside
    <3> QED BY <3>4
  <2>4. Waiting' /\ Calling' /\ faults' \in Nat
    BY <2>1, <2>2 DEF ReaderInv, Waiting, Calling
  <2> QED BY <2>2, <2>3, <2>4 DEF ReaderInv
<1> QED BY <1>1, <1>2, <1>3 DEF ReaderNext

\* It holds of a reader that has not begun.
LEMMA ReaderInvBegins == ASSUME InitReader PROVE ReaderInv
<1>1. faults = 0 /\ (reader = NoReader \/ reader = [NoReader EXCEPT !.state = "waits"])
  BY DEF InitReader, Init, NoReader
<1> DEFINE q == [NoReader EXCEPT !.state = "waits"]
<1>2. /\ NoReader.state = "none" /\ NoReader = [NoReader EXCEPT !.state = NoReader.state, !.calls = NoReader.calls]
      /\ q.state = "waits" /\ q = [NoReader EXCEPT !.state = q.state, !.calls = q.calls]
  BY DEF NoReader
<1> HIDE DEF q
<1>3. Waiting /\ reader.state # "open"
  BY <1>1, <1>2 DEF Waiting, q
<1> QED BY <1>1, <1>3 DEF ReaderInv, Calling

\* When read meets an end the reader stands behind every file, unless an entry of the table
\* could not be read.
LEMMA Exactly == ASSUME DirInv, ReaderOK, ReaderInv PROVE ReaderExact
<1> SUFFICES ASSUME reader.ended, ~misplaced, NEW f \in (File \intersect reader.filter) \ (reader.touched \union suspect)
             PROVE  LET of == {i \in DOMAIN reader.got : reader.got[i].file = f}
                    IN  /\ Cardinality(of) <= (IF names[f] = <<>> THEN 0 ELSE 1)
                        /\ names[f] # <<>> /\ "link" \notin reader.failed => of # {}
                        /\ reader.failed = {} => \A i \in of : reader.got[i].name = names[f]
  BY DEF ReaderExact
<1>1. reader.state = "open"
  <2> SUFFICES ASSUME reader.state # "open" PROVE FALSE
    OBVIOUS
  <2>1. reader.ended = FALSE
    BY DEF ReaderInv, Waiting, NoReader
  <2> QED BY <2>1
<1>2. PICK c \in Nat, e \in Nat : Inside(reader, c, e)
  BY <1>1 DEF ReaderInv
<1>3. FileRead(reader, f, c)
  BY <1>2 DEF Inside, Watched
<1> DEFINE of == ReadOf(reader, f)
<1>4. \/ of = {} /\ (names[f] = <<>> \/ "link" \in reader.failed)
      \/ names[f] # <<>> /\ \E i \in DOMAIN reader.got : of = {i} /\ (reader.failed = {} => reader.got[i].name = names[f])
  <2>1. CASE names[f] = <<>>
    BY <1>3, <2>1 DEF FileRead
  <2>2. CASE names[f] # <<>>
    <3>1. PICK p \in 1..Len(DirectoryWalk) :
             (c < p => Ahead(reader, f, c, p)) /\ (p <= c => Passing(reader, f))
      BY <1>3, <2>2 DEF FileRead
    <3>2. p \in Nat
      OBVIOUS
    <3>3. CASE c < p
      BY <3>1, <3>3 DEF Ahead
    <3>4. CASE p <= c
      BY <2>2, <3>1, <3>4 DEF Passing
    <3> QED BY <3>2, <3>3, <3>4
  <2> QED BY <2>1, <2>2
<1>5. CASE of = {} /\ (names[f] = <<>> \/ "link" \in reader.failed)
  <2>1. Cardinality(of) = 0
    BY <1>5, FS_EmptySet
  <2> HIDE DEF of
  <2>2. /\ Cardinality(of) <= (IF names[f] = <<>> THEN 0 ELSE 1)
        /\ names[f] # <<>> /\ "link" \notin reader.failed => of # {}
        /\ reader.failed = {} => \A i \in of : reader.got[i].name = names[f]
    BY <1>5, <2>1
  <2> QED BY <2>2 DEF of, ReadOf
<1>6. CASE names[f] # <<>> /\ \E i \in DOMAIN reader.got : of = {i} /\ (reader.failed = {} => reader.got[i].name = names[f])
  <2>1. PICK i \in DOMAIN reader.got : of = {i} /\ (reader.failed = {} => reader.got[i].name = names[f])
    BY <1>6
  <2>2. Cardinality(of) = 1
    BY <2>1, FS_Singleton
  <2> HIDE DEF of
  <2>3. /\ Cardinality(of) <= (IF names[f] = <<>> THEN 0 ELSE 1)
        /\ names[f] # <<>> /\ "link" \notin reader.failed => of # {}
        /\ reader.failed = {} => \A j \in of : reader.got[j].name = names[f]
    BY <1>6, <2>1, <2>2
  <2> QED BY <2>3 DEF of, ReadOf
<1> QED BY <1>4, <1>5, <1>6

\* A reader of a directory, DirectoryReader of libfs_fat, returns the files that nobody works
\* on once and under their names, whatever the other caller creates, deletes and renames
\* between its reads, and however many of its accesses fail.
THEOREM ReaderExactHolds == ReaderSpec => []ReaderExact
<1> DEFINE I == DirInv /\ ReaderOK /\ ReaderInv
<1>1. InitReader => I
  BY InitKeeps, ReaderBegins, ReaderInvBegins DEF InitReader
<1>2. I /\ [ReaderNext]_<<dvars, reader>> => I'
  BY DirInvStep, ReaderStep, ReaderInvStep
<1>3. I => ReaderExact
  BY Exactly
<1> QED BY <1>1, <1>2, <1>3, PTL DEF ReaderSpec
=============================================================================
