---------------------------- MODULE FatTree_proofs ----------------------------
(***************************************************************************)
(* Proofs about FatTree: what its calls keep, for any number of threads,   *)
(* objects, names, clusters and places, and any number of calls, failing   *)
(* accesses and crashes, as long as nothing happens that no caller is      *)
(* protected from.                                                         *)
(*                                                                         *)
(* The properties speak of what paths lead to, which no step changes in a  *)
(* way that could be told from the step alone.  The invariant TreeInv      *)
(* therefore speaks of all names on the volume, and has a rank that grows  *)
(* from each directory to those in it; that paths lead to every directory  *)
(* follows from it in every single state (AllReached).  Its other parts    *)
(* tie the chains to the names and to the calls that hold a chain without  *)
(* one, and each call to the places and the directories it has to itself.  *)
(***************************************************************************)
EXTENDS FatTree, FatTable_proofs, FiniteSetTheorems, SequenceTheorems, WellFoundedInduction

(***************************************************************************)
(* Induction over numbers                                                  *)
(***************************************************************************)

\* A set of numbers that is not empty has a least member.
LEMMA Least == ASSUME NEW T \in SUBSET Nat, T # {} PROVE \E m \in T : \A n \in T : m <= n
<1> DEFINE R == {ss \in Nat \X Nat : ss[1] < ss[2]}
<1>1. IsWellFoundedOn(R, Nat)
  BY NatLessThanWellFounded, Zenon DEF OpToRel
<1> HIDE DEF R
<1>2. PICK m \in T : \A n \in T : ~(<<n, m>> \in R)
  BY <1>1, WFMin
<1>3. ASSUME NEW n \in T PROVE m <= n
  <2>1. <<n, m>> \in Nat \X Nat /\ <<n, m>>[1] = n /\ <<n, m>>[2] = m
    OBVIOUS
  <2>2. ~(n < m)
    BY <1>2, <2>1 DEF R
  <2> QED BY <2>2, SMT
<1> QED BY <1>3

\* What holds of 0 and with a number of the next holds of all up to N.
LEMMA InductUpTo ==
    ASSUME NEW N \in Nat, NEW S, 0 \in S, \A n \in 0..N : n # N /\ n \in S => n + 1 \in S
    PROVE  0..N \subseteq S
<1> DEFINE T == (0..N) \ S
<1> SUFFICES ASSUME T # {} PROVE FALSE
  OBVIOUS
<1>1. PICK m \in T : \A n \in T : m <= n
  <2>1. T \in SUBSET Nat
    OBVIOUS
  <2> HIDE DEF T
  <2> QED BY <2>1, Least
<1>2. m - 1 \in 0..N /\ m - 1 \notin T /\ m - 1 # N
  BY <1>1, SMT
<1> QED BY <1>1, <1>2, SMT

\* f is the iteration of Step from v0.
Iterates(f, N, V, v0, Step) ==
    f \in [0..N -> V] /\ f[0] = v0 /\ \A n \in 1..N : f[n] = Step[f[n - 1]]

\* A step can be applied N times over.
LEMMA Iteration ==
    ASSUME NEW N \in Nat, NEW V, NEW v0 \in V, NEW Step \in [V -> V]
    PROVE  \E f : Iterates(f, N, V, v0, Step)
<1> DEFINE S == {n \in Nat : \E f \in [0..n -> V] : f[0] = v0 /\ \A k \in 1..n : f[k] = Step[f[k - 1]]}
<1>1. 0 \in S
  <2> DEFINE g == [n \in 0..0 |-> v0]
  <2>1. g \in [0..0 -> V] /\ g[0] = v0 /\ \A k \in 1..0 : g[k] = Step[g[k - 1]]
    OBVIOUS
  <2> HIDE DEF g
  <2> QED BY <2>1
<1>2. ASSUME NEW n \in S PROVE n + 1 \in S
  <2>1. PICK f \in [0..n -> V] : f[0] = v0 /\ \A k \in 1..n : f[k] = Step[f[k - 1]]
    OBVIOUS
  <2> DEFINE g == [k \in 0..(n + 1) |-> IF k = n + 1 THEN Step[f[n]] ELSE f[k]]
  <2>2. n \in Nat /\ f[n] \in V
    OBVIOUS
  <2>3. g \in [0..(n + 1) -> V] /\ g[0] = v0
    BY <2>1, <2>2
  <2>4. \A k \in 1..(n + 1) : g[k] = Step[g[k - 1]]
    BY <2>1, <2>2
  <2> HIDE DEF g
  <2> QED BY <2>2, <2>3, <2>4
<1> HIDE DEF S
<1>3. 0..N \subseteq S
  BY <1>1, <1>2, InductUpTo
<1>4. N \in S
  BY <1>3
<1> QED BY <1>4 DEF S, Iterates

\* Min of a set of numbers is its least member.
LEMMA MinOf == ASSUME NEW T \in SUBSET Nat, T # {} PROVE Min(T) \in T /\ \A n \in T : Min(T) <= n
  BY Least DEF Min

(***************************************************************************)
(* The clusters of a chain in order                                        *)
(***************************************************************************)
Follow(s) == IF Last(s) \in Cluster /\ IsData(link[Last(s)]) THEN Append(s, link[Last(s)]) ELSE s

\* There are ClusterCount - 2 clusters.
LEMMA ClustersFinite ==
    IsFiniteSet(Cluster) /\ Cardinality(Cluster) = ClusterCount - 2 /\ Cardinality(Cluster) \in Nat \ {0}
  BY ClusterCountAssumption, FS_Interval, SMTT(60) DEF Cluster

\* The walk of ChainFrom, step by step.
LEMMA WalkSteps ==
    ASSUME NEW c \in Cluster, link \in Table
    PROVE  \E W : /\ ChainFrom(c) = W[Cardinality(Cluster)]
                 /\ W[1] = <<c>>
                 /\ \A n \in 2..Cardinality(Cluster) : W[n] = Follow(W[n - 1])
<1> DEFINE N == Cardinality(Cluster)
           V == Seq(Cluster) \ {<<>>}
           Rec(x) == x = [n \in 1..N |->
                            IF n = 1 THEN <<c>>
                            ELSE LET s == x[n - 1] IN
                                 IF Last(s) \in Cluster /\ IsData(link[Last(s)])
                                   THEN Append(s, link[Last(s)]) ELSE s]
<1>1. N \in Nat \ {0}
  BY ClustersFinite
<1>2. PICK f \in [0..N -> V] : f[0] = <<c>> /\ \A n \in 1..N : f[n] = [s \in V |-> Follow(s)][f[n - 1]]
  <2>1. <<c>> \in V
    OBVIOUS
  <2>2. ASSUME NEW s \in V PROVE Follow(s) \in V
    BY DEF Follow, IsData
  <2> DEFINE F == [s \in V |-> Follow(s)]
  <2>3. F \in [V -> V] /\ N \in Nat
    BY <1>1, <2>2
  <2> HIDE DEF V, N, F
  <2>4. \E f : Iterates(f, N, V, <<c>>, F)
    BY <2>1, <2>3, Iteration
  <2> QED BY <2>4 DEF F, Iterates
<1>3. \E x : Rec(x)
  <2> DEFINE w == [n \in 1..N |-> f[n - 1]]
  <2>1. ASSUME NEW n \in 1..N, n # 1 PROVE f[n - 1] = Follow(w[n - 1])
    <3>1. n - 1 \in 1..N /\ n - 2 \in 0..N /\ (n - 1) - 1 = n - 2
      BY <1>1, <2>1
    <3>2. f[n - 2] \in V
      BY <1>2, <3>1
    <3> QED BY <1>2, <3>1, <3>2
  <2>2. w = [n \in 1..N |-> IF n = 1 THEN <<c>> ELSE Follow(w[n - 1])]
    BY <1>1, <1>2, <2>1
  <2>3. Rec(w)
    BY <2>2 DEF Follow
  <2> HIDE DEF w
  <2> QED BY <2>3
<1> DEFINE W == CHOOSE x : Rec(x)
<1>4. Rec(W)
  BY <1>3
<1>5. ChainFrom(c) = W[N]
  BY DEF ChainFrom
<1> HIDE DEF W
<1>6. W[1] = <<c>> /\ \A n \in 2..N : W[n] = Follow(W[n - 1])
  <2>1. 1 \in 1..N /\ \A n \in 2..N : n \in 1..N /\ n # 1
    BY <1>1
  <2>2. W = [n \in 1..N |-> IF n = 1 THEN <<c>> ELSE Follow(W[n - 1])]
    BY <1>4 DEF Follow
  <2> QED BY <2>1, <2>2
<1> QED BY <1>5, <1>6

\* A sequence that begins with c and goes on with the links.
Follows(s, c) ==
    /\ s \in Seq(Cluster) /\ s # <<>>
    /\ s[1] = c
    /\ \A i \in 1..(Len(s) - 1) : link[s[i]] = s[i + 1]

\* ChainFrom follows the links, to the end of the chain or for as many steps as there
\* are clusters.
LEMMA WalkFollows ==
    ASSUME NEW c \in Cluster, link \in Table
    PROVE  /\ Follows(ChainFrom(c), c)
           /\ Len(ChainFrom(c)) = Cardinality(Cluster) \/ ~IsData(link[Last(ChainFrom(c))])
<1> DEFINE N == Cardinality(Cluster)
<1>1. PICK W : /\ ChainFrom(c) = W[N] /\ W[1] = <<c>>
               /\ \A n \in 2..N : W[n] = Follow(W[n - 1])
  BY WalkSteps
<1>2. N \in Nat \ {0}
  BY ClustersFinite
<1> HIDE DEF N
<1> DEFINE OK(n) == Follows(W[n], c) /\ (Len(W[n]) = n \/ ~IsData(link[Last(W[n])]))
           S == {n \in Nat : OK(n + 1)}
<1>3. 0 \in S
  <2>1. <<c>> \in Seq(Cluster) /\ <<c>> # <<>> /\ <<c>>[1] = c /\ Len(<<c>>) = 1
    OBVIOUS
  <2>2. OK(1)
    BY <1>1, <2>1 DEF Follows
  <2> QED BY <2>2
<1>4. ASSUME NEW n \in 0..(N - 1), n # N - 1, n \in S PROVE n + 1 \in S
  <2> DEFINE s == W[n + 1]
  <2>1. W[n + 2] = Follow(s) /\ OK(n + 1)
    BY <1>1, <1>2, <1>4
  <2>2. s \in Seq(Cluster) /\ Len(s) \in Nat \ {0} /\ Last(s) \in Cluster /\ s[1] = c
        /\ \A i \in 1..(Len(s) - 1) : link[s[i]] = s[i + 1]
    BY <2>1 DEF Follows, Last
  <2> HIDE DEF s
  <2>3. CASE IsData(link[Last(s)])
    <3> DEFINE u == Append(s, link[Last(s)])
    <3>1. W[n + 2] = u /\ Len(s) = n + 1
      BY <2>1, <2>2, <2>3 DEF Follow, s
    <3>2. u \in Seq(Cluster) /\ Len(u) = n + 2 /\ u[1] = c
      BY <2>2, <2>3, <3>1 DEF IsData
    <3>3. ASSUME NEW i \in 1..(Len(u) - 1) PROVE link[u[i]] = u[i + 1]
      <4>1. CASE i = Len(s)
        BY <2>2, <2>3, <3>1, <4>1 DEF Last, IsData
      <4>2. CASE i # Len(s)
        <5>1. i \in 1..(Len(s) - 1) /\ u[i] = s[i] /\ u[i + 1] = s[i + 1]
          BY <2>2, <3>1, <3>2, <4>2
        <5> QED BY <2>2, <5>1
      <4> QED BY <4>1, <4>2
    <3> HIDE DEF u
    <3> QED BY <3>1, <3>2, <3>3 DEF Follows
  <2>4. CASE ~IsData(link[Last(s)])
    <3>1. W[n + 2] = s
      BY <2>1, <2>4 DEF Follow
    <3> QED BY <2>2, <2>4, <3>1 DEF Follows
  <2> QED BY <2>3, <2>4
<1> HIDE DEF S
<1>5. N - 1 \in S
  BY <1>2, <1>3, <1>4, InductUpTo
<1>6. OK(N)
  <2>1. OK((N - 1) + 1) /\ (N - 1) + 1 = N
    BY <1>2, <1>5 DEF S
  <2> QED BY <2>1
<1> QED BY <1>1, <1>6 DEF N
\* A sequence of linked clusters that begins with an unlinked one has each once.
LEMMA FollowsDistinct ==
    ASSUME NEW c \in Cluster, link \in Table, LinksInjective(link), ~Linked(link, c),
           NEW s, Follows(s, c),
           NEW i0 \in 1..Len(s), NEW j0 \in 1..Len(s), i0 < j0
    PROVE  s[i0] # s[j0]
<1> DEFINE T == {i \in 1..Len(s) : \E j \in 1..Len(s) : i < j /\ s[i] = s[j]}
<1> SUFFICES ASSUME s[i0] = s[j0] PROVE FALSE
  OBVIOUS
<1>1. T \in SUBSET Nat /\ T # {}
  OBVIOUS
<1>2. PICK i \in T : \A k \in T : i <= k
  <2> HIDE DEF T
  <2> QED BY <1>1, Least
<1>3. PICK j \in 1..Len(s) : i < j /\ s[i] = s[j]
  BY <1>2
<1>4. s \in Seq(Cluster) /\ Len(s) \in Nat /\ i \in 1..Len(s)
  BY <1>2 DEF Follows
<1>5. j - 1 \in 1..(Len(s) - 1) /\ (j - 1) + 1 = j /\ s[j - 1] \in Cluster
  BY <1>3, <1>4
<1>6. link[s[j - 1]] = s[j] /\ s[j] \in Cluster
  BY <1>3, <1>4, <1>5 DEF Follows
<1>7. CASE i = 1
  BY <1>3, <1>5, <1>6, <1>7 DEF Follows, Linked
<1>8. CASE i # 1
  <2>1. i - 1 \in 1..(Len(s) - 1) /\ (i - 1) + 1 = i /\ s[i - 1] \in Cluster
    BY <1>4, <1>8
  <2>2. link[s[i - 1]] = s[i]
    BY <2>1 DEF Follows
  <2>3. s[i - 1] = s[j - 1]
    BY <1>3, <1>5, <1>6, <2>1, <2>2 DEF LinksInjective, IsData
  <2>4. i - 1 \in 1..Len(s) /\ j - 1 \in 1..Len(s) /\ i - 1 < j - 1 /\ ~(i <= i - 1)
    BY <1>3, <1>4, <1>8
  <2>5. i - 1 \in T
    BY <2>3, <2>4
  <2> HIDE DEF T
  <2> QED BY <1>2, <2>4, <2>5
<1> QED BY <1>7, <1>8

\* The walk ends where the chain does.
LEMMA WalkEnds ==
    ASSUME NEW c \in Cluster, link \in Table, LinksInjective(link), ~Linked(link, c)
    PROVE  ~IsData(link[Last(ChainFrom(c))])
<1> DEFINE s == ChainFrom(c)
           n == Len(s)
<1> SUFFICES ASSUME IsData(link[Last(s)]) PROVE FALSE
  OBVIOUS
<1>1. Follows(s, c) /\ n = Cardinality(Cluster)
  BY WalkFollows
<1>2. s \in Seq(Cluster) /\ n \in Nat \ {0} /\ Last(s) = s[n] /\ s[1] = c
  BY <1>1 DEF Follows, Last
<1>3. s \in [1..n -> Cluster] /\ IsFiniteSet(1..n) /\ Cardinality(1..n) = n
  <2>1. ASSUME NEW u \in Seq(Cluster) PROVE u \in [1..Len(u) -> Cluster]
    OBVIOUS
  <2>2. ASSUME NEW m \in Nat \ {0} PROVE IsFiniteSet(1..m) /\ Cardinality(1..m) = m
    BY FS_Interval
  <2> HIDE DEF s
  <2> QED BY <1>2, <2>1, <2>2
<1> HIDE DEF s, n
<1>4. \A i, j \in 1..n : s[i] = s[j] => i = j
  BY <1>1, <1>2, FollowsDistinct DEF n
<1>5. s \in Injection(1..n, Cluster)
  BY <1>3, <1>4 DEF Injection, IsInjective
<1>6. {s[i] : i \in 1..n} = Cluster
  <2> DEFINE R == {s[i] : i \in 1..n}
  <2>1. R \in SUBSET Cluster /\ IsFiniteSet(Cluster) /\ Cardinality(Cluster) = n
    BY <1>1, <1>3, ClustersFinite
  <2>2. s \in Injection(1..n, R)
    BY <1>3, <1>4 DEF Injection, IsInjective
  <2>3. IsFiniteSet(R) /\ Cardinality(R) <= n
    BY <2>1, FS_Subset
  <2>4. n <= Cardinality(R)
    BY <1>3, <2>2, <2>3, FS_Injection
  <2>5. Cardinality(Cluster \ R) = n - Cardinality(R)
    <3>1. Cluster \cap R = R
      BY <2>1
    <3> HIDE DEF R
    <3> QED BY <2>1, <3>1, FS_Difference
  <2> HIDE DEF R
  <2>6. IsFiniteSet(Cluster \ R) /\ Cardinality(Cluster \ R) = 0
    <3>1. Cardinality(R) \in Nat /\ IsFiniteSet(Cluster \ R)
      BY <2>1, <2>3, FS_Difference, FS_CardinalityType
    <3> QED BY <1>2, <2>3, <2>4, <2>5, <3>1
  <2>7. Cluster \ R = {}
    BY <2>6, FS_EmptySet
  <2> QED BY <2>1, <2>7 DEF R
<1>7. PICK i \in 1..n : s[i] = link[s[n]]
  BY <1>2, <1>6 DEF IsData
<1>8. CASE i = 1
  BY <1>2, <1>3, <1>7, <1>8 DEF Linked
<1>9. CASE i # 1
  <2>1. i - 1 \in 1..(Len(s) - 1) /\ (i - 1) + 1 = i /\ i - 1 \in 1..n /\ n \in 1..n
    BY <1>2, <1>9 DEF n
  <2>2. link[s[i - 1]] = s[i] /\ s[i - 1] \in Cluster /\ s[n] \in Cluster /\ s[i] \in Cluster
    BY <1>1, <1>3, <2>1 DEF Follows
  <2>3. s[i - 1] = s[n]
    BY <1>7, <2>2 DEF LinksInjective, IsData
  <2>4. i - 1 = n
    BY <1>4, <2>1, <2>3
  <2> QED BY <1>2, <1>7, <2>4
<1> QED BY <1>8, <1>9

\* The iterator visits the chain and nothing else, and ends at its end.
LEMMA ChainFromIs ==
    ASSUME NEW c \in Cluster, link \in Table, LinksInjective(link), ~Linked(link, c)
    PROVE  /\ ChainFrom(c) \in Seq(Cluster) /\ ChainFrom(c) # <<>> /\ ChainFrom(c)[1] = c
           /\ ToSet(ChainFrom(c)) = Chain(link, c)
           /\ Last(ChainFrom(c)) \in Chain(link, c) /\ ~IsData(link[Last(ChainFrom(c))])
<1> DEFINE s == ChainFrom(c)
           n == Len(s)
<1>1. Follows(s, c) /\ ~IsData(link[Last(s)])
  BY WalkFollows, WalkEnds
<1> HIDE DEF s
<1>2. s \in Seq(Cluster) /\ n \in Nat \ {0} /\ Last(s) = s[n] /\ s[1] = c /\ s # <<>>
  BY <1>1 DEF Follows, Last
<1>3. ToSet(s) = {s[i] : i \in 1..n} /\ ToSet(s) \in SUBSET Cluster
  BY <1>2 DEF ToSet, Range
<1>4. Chain(link, c) \subseteq ToSet(s)
  <2>1. FollowsLinks(link, ToSet(s))
    <3> SUFFICES ASSUME NEW i \in 1..n, IsData(link[s[i]]) PROVE link[s[i]] \in ToSet(s)
      BY <1>3 DEF FollowsLinks
    <3>1. i # n
      BY <1>1, <1>2
    <3>2. i \in 1..(n - 1) /\ i + 1 \in 1..n
      BY <1>2, <3>1
    <3> QED BY <1>1, <1>3, <3>2 DEF Follows
  <2>2. c \in ToSet(s)
    BY <1>2, <1>3
  <2> QED BY <1>3, <2>1, <2>2, ChainLeast
<1>5. ToSet(s) \subseteq Chain(link, c)
  <2> DEFINE S == {k \in Nat : k + 1 \in 1..n => s[k + 1] \in Chain(link, c)}
  <2>1. 0 \in S
    BY <1>2, ChainFollows
  <2>2. ASSUME NEW k \in 0..(n - 1), k # n - 1, k \in S PROVE k + 1 \in S
    <3>1. k + 1 \in 1..(n - 1) /\ k + 1 \in 1..n /\ k + 1 \in Nat /\ (k + 1) + 1 \in 1..n
      BY <1>2, <2>2
    <3>2. s[k + 1] \in Chain(link, c) /\ link[s[k + 1]] = s[(k + 1) + 1]
      BY <1>1, <2>2, <3>1 DEF Follows
    <3>3. s[(k + 1) + 1] \in Cluster
      BY <1>2, <3>1
    <3> QED BY <3>1, <3>2, <3>3, ChainFollows DEF FollowsLinks, IsData
  <2> HIDE DEF S
  <2>3. 0..(n - 1) \subseteq S
    BY <1>2, <2>1, <2>2, InductUpTo, SMTT(30)
  <2>4. ASSUME NEW i \in 1..n PROVE s[i] \in Chain(link, c)
    <3>1. i - 1 \in 0..(n - 1) /\ (i - 1) + 1 = i
      BY <1>2
    <3> QED BY <2>3, <3>1 DEF S
  <2> QED BY <1>3, <2>4
<1> QED BY <1>1, <1>2, <1>3, <1>4, <1>5 DEF s
\* Where a directory may begin.
DirStart(d) == d = 0 \/ (d \in Cluster /\ ~Linked(link, d))

\* The places of a directory.
DirPlaces(d) == {p \in Place : IF d = 0 THEN p[1] = 0 ELSE p[1] \in Chain(link, d)}

\* The places a directory is read from are those of the clusters of its chain.
LEMMA PlacesOfIs ==
    ASSUME NEW d, DirStart(d), link \in Table, LinksInjective(link)
    PROVE  PlacesOf(d) \in Seq(Place) /\ ToSet(PlacesOf(d)) = DirPlaces(d)
<1>1. CASE d = 0
  <2>1. PlacesOf(d) = [i \in 1..RootSlots |-> <<0, i>>]
    BY <1>1 DEF PlacesOf
  <2>2. ASSUME NEW i \in 1..RootSlots PROVE <<0, i>> \in Place
    BY DEF Place
  <2>3. ASSUME NEW p \in Place, p[1] = 0 PROVE \E i \in 1..RootSlots : p = <<0, i>>
    BY <2>3 DEF Place, Cluster
  <2>4. PlacesOf(d) \in Seq(Place) /\ Len(PlacesOf(d)) = RootSlots
    <3>1. RootSlots \in Nat /\ PlacesOf(d) \in [1..RootSlots -> Place]
      BY <2>1, <2>2, TreeAssumption
    <3> QED BY <3>1
  <2>5. ToSet(PlacesOf(d)) = {<<0, i>> : i \in 1..RootSlots}
    BY <2>1, <2>4 DEF ToSet, Range
  <2>6. DirPlaces(d) = {<<0, i>> : i \in 1..RootSlots}
    BY <1>1, <2>2, <2>3 DEF DirPlaces
  <2> QED BY <2>4, <2>5, <2>6
<1>2. CASE d # 0
  <2> DEFINE cs == ChainFrom(d)
             m  == Len(cs)
             ps == [i \in 1..(m * Capacity) |->
                      <<cs[((i - 1) \div Capacity) + 1], ((i - 1) % Capacity) + 1>>]
  <2>1. PlacesOf(d) = ps
    BY <1>2 DEF PlacesOf
  <2>2. cs \in Seq(Cluster) /\ ToSet(cs) = Chain(link, d) /\ m \in Nat
    BY <1>2, ChainFromIs DEF DirStart
  <2>3. ToSet(cs) = {cs[k] : k \in 1..m}
    BY SMTT(30) DEF ToSet, Range
  <2> HIDE DEF cs, m
  <2>4. m * Capacity \in Nat /\ Capacity \in Nat \ {0}
    <3>1. ASSUME NEW x \in Nat, NEW y \in Nat PROVE x * y \in Nat
      BY SMT
    <3>2. Capacity \in Nat \ {0}
      <4>1. Capacity \in Nat /\ Capacity >= 3
        BY TreeAssumption, Zenon
      <4> QED BY <4>1
    <3> QED BY <2>2, <3>1, <3>2
  <2>5. ASSUME NEW i \in 1..(m * Capacity)
        PROVE  /\ ((i - 1) \div Capacity) + 1 \in 1..m
               /\ ((i - 1) % Capacity) + 1 \in 1..Capacity
    <3>1. i - 1 \in Nat /\ i - 1 < m * Capacity
      BY <2>4
    <3>2. PICK q \in Nat, r \in Nat : q = (i - 1) \div Capacity /\ r = (i - 1) % Capacity
                                     /\ r < Capacity /\ i - 1 = (Capacity * q) + r
      BY <2>4, <3>1, DivMod
    <3>3. q < m
      <4> SUFFICES ASSUME m <= q PROVE FALSE
        BY <2>2
      <4>1. Capacity * m <= Capacity * q
        BY <2>2, <2>4, SMT
      <4> QED BY <2>2, <2>4, <3>1, <3>2, <4>1, SMT
    <3> QED BY <2>2, <2>4, <3>2, <3>3
  <2>6. ASSUME NEW i \in 1..(m * Capacity) PROVE ps[i] \in Place /\ ps[i][1] \in ToSet(cs)
    <3>1. cs[((i - 1) \div Capacity) + 1] \in Cluster
      BY <2>2, <2>5 DEF m
    <3> QED BY <2>3, <2>5, <3>1 DEF Place
  <2>7. ASSUME NEW p \in Place, p[1] \in ToSet(cs) PROVE \E i \in 1..(m * Capacity) : p = ps[i]
    <3>1. PICK k \in 1..m : p[1] = cs[k]
      BY <2>3, <2>7
    <3>2. p[1] # 0 /\ p = <<p[1], p[2]>> /\ p[2] \in 1..Capacity
      <4>1. p[1] \in Cluster
        BY <2>2, <2>7, <1>2, ChainFollows DEF DirStart
      <4> QED BY <4>1 DEF Place, Cluster
    <3> DEFINE q == k - 1
               r == p[2] - 1
               i == ((Capacity * q) + r) + 1
    <3>3. q \in Nat /\ r \in Nat /\ r < Capacity /\ q + 1 = k /\ r + 1 = p[2] /\ q < m
      BY <2>2, <2>4, <3>2
    <3> HIDE DEF q, r
    <3>4. (i - 1) \div Capacity = q /\ (i - 1) % Capacity = r
      <4>1. i - 1 = (Capacity * q) + r
        <5>1. Capacity * q \in Nat
          BY <2>4, <3>3, SMT
        <5> QED BY <3>3, <5>1
      <4>2. ((Capacity * q) + r) \div Capacity = q /\ ((Capacity * q) + r) % Capacity = r
        BY <2>4, <3>3, OneQuotient
      <4> HIDE DEF i
      <4> QED BY <4>1, <4>2
    <3>5. i \in 1..(m * Capacity)
      <4>1. Capacity * (q + 1) <= Capacity * m
        BY <2>2, <2>4, <3>3, SMT
      <4>2. Capacity * (q + 1) = (Capacity * q) + Capacity /\ Capacity * m = m * Capacity /\ Capacity * q \in Nat
        BY <2>2, <2>4, <3>3, SMT
      <4> QED BY <2>4, <3>3, <4>1, <4>2
    <3> HIDE DEF i
    <3>6. ps[i] = p
      BY <3>1, <3>2, <3>3, <3>4, <3>5
    <3> QED BY <3>5, <3>6
  <2>8. ps \in Seq(Place) /\ Len(ps) = m * Capacity
    <3>1. ps \in [1..(m * Capacity) -> Place]
      BY <2>6
    <3> HIDE DEF ps
    <3> QED BY <2>4, <3>1
  <2>9. ToSet(ps) = {ps[i] : i \in 1..(m * Capacity)}
    BY <2>8 DEF ToSet, Range
  <2> HIDE DEF ps
  <2>10. DirPlaces(d) = {p \in Place : p[1] \in ToSet(cs)}
    BY <1>2, <2>2 DEF DirPlaces
  <2> QED BY <2>1, <2>6, <2>7, <2>8, <2>9, <2>10
<1> QED BY <1>1, <1>2
\* find_entry returns a place of the directory with the name, if there is one,
LEMMA LookupIs ==
    ASSUME NEW d, DirStart(d), link \in Table, LinksInjective(link), NEW n
    PROVE  \/ Lookup(d, n) = NoPlace /\ \A p \in DirPlaces(d) : slot[p].name # n
           \/ Lookup(d, n) \in DirPlaces(d) /\ slot[Lookup(d, n)].name = n
<1> DEFINE ps == PlacesOf(d)
           I  == {i \in 1..Len(ps) : slot[ps[i]].name = n}
<1>1. Lookup(d, n) = LET i == IF I # {} THEN Min(I) ELSE 0 IN IF i = 0 THEN NoPlace ELSE ps[i]
  BY DEF Lookup, FirstPlace, SelectInSeq
<1>2. I \in SUBSET Nat /\ 0 \notin I
  OBVIOUS
<1>3. I # {} => Min(I) \in I
  BY <1>2, MinOf
<1>4. DirPlaces(d) = {ps[i] : i \in 1..Len(ps)}
  BY PlacesOfIs DEF ToSet, Range
<1> QED BY <1>1, <1>2, <1>3, <1>4

\* and allocate_entries an empty one.
LEMMA HoleIs ==
    ASSUME NEW d, DirStart(d), link \in Table, LinksInjective(link)
    PROVE  \/ Hole(d) = NoPlace /\ \A p \in DirPlaces(d) : slot[p] # Empty
           \/ Hole(d) \in DirPlaces(d) /\ slot[Hole(d)] = Empty
<1> DEFINE ps == PlacesOf(d)
           I  == {i \in 1..Len(ps) : slot[ps[i]] = Empty}
<1>1. Hole(d) = LET i == IF I # {} THEN Min(I) ELSE 0 IN IF i = 0 THEN NoPlace ELSE ps[i]
  BY DEF Hole, FirstPlace, SelectInSeq
<1>2. I \in SUBSET Nat /\ 0 \notin I
  OBVIOUS
<1>3. I # {} => Min(I) \in I
  BY <1>2, MinOf
<1>4. DirPlaces(d) = {ps[i] : i \in 1..Len(ps)}
  BY PlacesOfIs DEF ToSet, Range
<1> QED BY <1>1, <1>2, <1>3, <1>4

\* NoPlace is no place.
LEMMA NoPlaceIsNone == NoPlace \notin Place
<1>1. 0 \notin 1..RootSlots /\ 0 \notin 1..Capacity
  OBVIOUS
<1> QED BY <1>1, Zenon DEF NoPlace, Place

\* What the name of a child finds.
LEMMA ChildrenIs ==
    ASSUME NEW d, DirStart(d), link \in Table, LinksInjective(link), NEW p \in Children(d)
    PROVE  p \in DirPlaces(d) /\ slot[p] # Empty /\ ~IsDots(slot[p]) /\ Lookup(d, slot[p].name) = p
  BY PlacesOfIs DEF Children, Entries

\* One step further down.
More(X) == X \union {slot[p].start : p \in {q \in UNION {Children(e) : e \in X} : slot[q].dir}}

Descends(B, d, W) ==
    /\ Below(d) = B[Cardinality(Object)]
    /\ B[0] = {d}
    /\ \A k \in 0..Cardinality(Object) : B[k] \in SUBSET W
    /\ \A k \in 1..Cardinality(Object) : B[k] = More(B[k - 1])

\* Below, level by level.
LEMMA BelowSteps ==
    ASSUME NEW d, NEW W, d \in W,
           \A e \in W : \A p \in Children(e) : slot[p].dir => slot[p].start \in W
    PROVE  \E B : Descends(B, d, W)
<1> DEFINE N == Cardinality(Object)
           V == SUBSET W
           F == [X \in V |-> More(X)]
           Rec(x) == x = [k \in 0..N |->
                            IF k = 0 THEN {d}
                            ELSE x[k - 1] \union {slot[p].start : p \in
                                    {q \in UNION {Children(e) : e \in x[k - 1]} : slot[q].dir}}]
<1>1. N \in Nat
  BY TreeAssumption, FS_CardinalityType
<1>2. F \in [V -> V] /\ {d} \in V
  BY DEF More
<1> HIDE DEF N, F
<1>3. PICK f : Iterates(f, N, V, {d}, F)
  <2> HIDE DEF V
  <2> QED BY <1>1, <1>2, Iteration
<1>4. f \in [0..N -> V] /\ f[0] = {d} /\ \A k \in 1..N : f[k] = More(f[k - 1])
  <2>1. f \in [0..N -> V] /\ f[0] = {d} /\ \A k \in 1..N : f[k] = F[f[k - 1]]
    BY <1>3 DEF Iterates
  <2>2. ASSUME NEW k \in 1..N PROVE f[k - 1] \in V
    <3>1. k - 1 \in 0..N
      BY <1>1
    <3> QED BY <2>1, <3>1
  <2> QED BY <2>1, <2>2 DEF F
<1>5. Rec(f)
  <2>1. f = [k \in 0..N |-> f[k]]
    BY <1>4
  <2>2. ASSUME NEW k \in 0..N PROVE f[k] = IF k = 0 THEN {d} ELSE More(f[k - 1])
    BY <1>1, <1>4
  <2>3. [k \in 0..N |-> f[k]] = [k \in 0..N |-> IF k = 0 THEN {d} ELSE More(f[k - 1])]
    BY <2>2, Zenon
  <2> QED BY <2>1, <2>3 DEF More
<1> DEFINE B == CHOOSE x : Rec(x)
<1>6. Rec(B)
  BY <1>5
<1>7. Below(d) = B[N]
  BY DEF Below, N
<1>8. B[0] = {d} /\ \A k \in 1..N : B[k] = More(B[k - 1])
  <2> HIDE DEF B
  <2>1. 0 \in 0..N /\ \A k \in 1..N : k \in 0..N /\ k # 0
    BY <1>1
  <2>2. B = [k \in 0..N |-> IF k = 0 THEN {d} ELSE More(B[k - 1])]
    BY <1>6 DEF More
  <2> QED BY <2>1, <2>2
<1> HIDE DEF B
<1>9. \A k \in 0..N : B[k] \in V
  <2> DEFINE S == {k \in Nat : B[k] = f[k]}
  <2>1. 0 \in S
    BY <1>4, <1>8
  <2>2. ASSUME NEW k \in 0..N, k # N, k \in S PROVE k + 1 \in S
    <3>1. k + 1 \in 1..N /\ (k + 1) - 1 = k
      BY <1>1, <2>2
    <3> QED BY <1>4, <1>8, <2>2, <3>1
  <2> HIDE DEF S
  <2>3. 0..N \subseteq S
    BY <1>1, <2>1, <2>2, InductUpTo
  <2> QED BY <1>4, <2>3 DEF S
<1> QED BY <1>7, <1>8, <1>9 DEF N, Descends

\* What paths lead to is in every set of directories closed under names.
LEMMA BelowLeast ==
    ASSUME NEW d, NEW W, d \in W,
           \A e \in W : \A p \in Children(e) : slot[p].dir => slot[p].start \in W
    PROVE  Below(d) \subseteq W
<1>1. Cardinality(Object) \in Nat
  BY TreeAssumption, FS_CardinalityType
<1>2. Cardinality(Object) \in 0..Cardinality(Object)
  BY <1>1
<1> QED BY <1>2, BelowSteps DEF Descends

(***************************************************************************)
(* The inductive invariant.  It holds as long as nothing happened that no  *)
(* caller is protected from (damage = {}), and speaks of all places of the *)
(* volume, not only of those that paths lead to.                           *)
(***************************************************************************)

\* What each call may have before it.
Mkdirs  == {<<"alloc", "clean", "enter", "dot", "dotdot">>, <<"clean", "enter", "dot", "dotdot">>,
            <<"enter", "dot", "dotdot">>, <<"clear", "enter", "dot", "dotdot">>,
            <<"dot", "dotdot">>, <<"dotdot">>}
Creates == {<<"enter">>, <<"clear", "enter">>, <<"enter", "take", "store">>,
            <<"clear", "enter", "take", "store">>, <<"take", "store">>, <<"store">>}
Deletes == {<<"erase">>, <<"erase", "free">>, <<"free">>}
Renames == {<<"rewrite">>, <<"enter", "erase">>, <<"clear", "enter", "erase">>,
            <<"enter", "third", "erase">>, <<"clear", "enter", "third", "erase">>,
            <<"third", "erase">>, <<"erase">>}
Todos   == Mkdirs \union Creates \union Deletes \union Renames \union {<<>>}

\* The records of calls.
CallType == [op : Ops, in : Cluster \union {0}, entry : Entry, old : Place \union {NoPlace},
             new : Place \union {NoPlace}, fresh : Cluster \union {0},
             uses : SUBSET (Cluster \union {0}), todo : Todos]

\* The types of the variables.  The history damage needs none.
ShapeOK ==
    /\ old_root \in BOOLEAN
    /\ link \in Table
    /\ slot \in [Place -> Entry]
    /\ call \in [Thread -> CallType]
    /\ home \in [Object -> ((Cluster \union {0}) \X Name) \union {Nowhere}]
    /\ leaky \in BOOLEAN
    /\ moved \subseteq Object /\ cut \subseteq Object /\ twice \subseteq Object
    /\ faults \in Nat

\* The next step of the call of thread t, if there is one.
Now(t)  == IF call[t].todo = <<>> THEN "idle" ELSE Head(call[t].todo)
Busy(t) == call[t].op # "none"

\* The places with a name.
Standing == {p \in Place : slot[p].name \in Name \union {"cut"}}

\* The directories that have a name, and the root.
LiveDirs == {Root} \union {slot[p].start : p \in {q \in Standing : slot[q].dir}}

\* The clusters that names and the root directory begin with.
Heads == ({slot[p].start : p \in Standing} \union {Root}) \ {0}

\* The call has a first cluster in its hands that no name stands for.
Holding(t) == \/ call[t].op = "mkdir" /\ Now(t) \in {"clean", "clear", "enter"}
              \/ Now(t) \in {"store", "free"}

\* The clusters that chains begin with.
Roots == Heads \union {call[t].entry.start : t \in {u \in Thread : Holding(u)}}

\* The new name is written.
Written(t) == \/ Now(t) \in {"dot", "dotdot", "take", "store", "third"}
              \/ call[t].op = "rename" /\ Now(t) = "erase"

\* The old name is there.
HasOld(t) == call[t].op \in {"delete", "undo", "rename"} /\ Now(t) # "free"

\* A call has before it what is left of the steps it began with.
InPlan(c) ==
    \/ c.op = "mkdir" /\ c.todo \in Mkdirs
    \/ c.op = "create" /\ c.todo \in Creates
    \/ c.op = "delete" /\ c.todo \in Deletes
    \/ c.op = "undo" /\ c.todo \in Deletes \ {<<"erase">>}
    \/ c.op = "rename" /\ c.todo \in Renames

\* Which of its places a call knows at each of its steps.
PlanOK(t) ==
    LET c == call[t] IN
    /\ c = NoCall \/ InPlan(c)
    /\ c.fresh # 0 <=> Now(t) = "clear"
    /\ c.op \in {"mkdir", "create", "rename"} => (c.new # NoPlace <=> Written(t))
    /\ c.op \in {"mkdir", "create"} => c.old = NoPlace
    /\ c.op = "delete" => c.new = NoPlace
    /\ c.op = "undo" /\ Now(t) = "erase" => c.old = c.new

\* The same file or directory.
Same(e, f) == e.obj = f.obj /\ e.start = f.start /\ e.dir = f.dir

\* What a call works on: directories with a name or of its own, an object, and an
\* entry that suits its kind and its next step.
CallOK(t) ==
    LET c == call[t] IN
    Busy(t) =>
    /\ c.in \in c.uses /\ c.in \in LiveDirs
    /\ \A d \in c.uses : d \in LiveDirs \/ (Holding(t) /\ d = c.entry.start)
    /\ c.entry.obj \in Object
    /\ c.entry.dir /\ Now(t) # "alloc" => c.entry.start \in c.uses /\ c.entry.start \in Cluster
    /\ Holding(t) => c.entry.start \in Cluster
    /\ c.op \in {"mkdir", "create", "rename"} => c.entry.name \in Name
    /\ c.op \in {"mkdir", "undo"} => c.entry.dir
    /\ Now(t) = "alloc" => c.entry.start = 0
    /\ c.op = "create" => ~c.entry.dir /\ (Now(t) = "store" \/ c.entry.start = 0)
    /\ c.op \in {"mkdir", "delete", "undo"} /\ c.entry.start # 0 => c.in # c.entry.start
    /\ c.op = "delete" /\ Now(t) = "erase" => (c.entry.start = 0 <=> c.todo = <<"erase">>)
    /\ c.op = "rename" /\ Now(t) \in {"enter", "clear", "third"} =>
          (c.entry.dir <=> c.todo \notin {<<"enter", "erase">>, <<"clear", "enter", "erase">>})
    /\ c.op = "rename" /\ Now(t) = "erase" /\ c.entry.dir =>
          c.entry.obj \in moved \/ ParentCluster(c.new) = ParentCluster(c.old)

\* The new name stands where the call knows it to be, and no other in the directory
\* has that name.
NewOK(t) ==
    LET c == call[t] IN
    /\ Written(t) =>
          /\ c.new \in Standing /\ c.new \in DirPlaces(c.in)
          /\ slot[c.new] = IF Now(t) = "store" THEN [c.entry EXCEPT !.start = 0] ELSE c.entry
          /\ c.new # c.old
    /\ c.op \in {"mkdir", "create", "rename"} =>
          \A q \in DirPlaces(c.in) : slot[q].name = c.entry.name => q = c.new

\* The name that a call is to delete or rename is there, in a directory it uses.
OldOK(t) ==
    LET c == call[t] IN
    HasOld(t) =>
          /\ c.old \in Standing
          /\ \E d \in c.uses \intersect LiveDirs : c.old \in DirPlaces(d)
          /\ Now(t) = "rewrite" => c.old \in DirPlaces(c.in)
          /\ Same(slot[c.old], c.entry)

\* The names of what a call is about are those the call knows of.
OnlyOK(t) ==
    Busy(t) =>
        \A p \in Standing : slot[p].obj = call[t].entry.obj =>
            Now(t) # "free" /\ p \in {call[t].old, call[t].new}

\* What a directory that is being made or deleted holds.
BareOK(t) ==
    LET c == call[t] IN
    /\ Now(t) = "clean" =>
          /\ link[c.entry.start] = EndOfChain
          /\ \A p \in DirPlaces(c.entry.start) : slot[p] = Old
    /\ c.op = "mkdir" /\ Now(t) \in {"enter", "clear", "dot"} =>
          \A p \in DirPlaces(c.entry.start) : slot[p] = Empty
    /\ Now(t) = "dotdot" =>
          \E p \in DirPlaces(c.entry.start) :
             slot[p].name = "." /\ \A q \in DirPlaces(c.entry.start) : q # p => slot[q] = Empty
    /\ c.op \in {"mkdir", "delete", "undo"} /\ c.entry.dir /\ c.entry.start # 0 =>
          \A p \in DirPlaces(c.entry.start) : p \notin Standing

\* A cluster the directory has grown by and that is not cleared.
FreshOK(t) ==
    LET c == call[t] IN
    c.fresh # 0 =>
        /\ c.in # 0
        /\ c.fresh \in Chain(link, c.in) /\ c.fresh # c.in
        /\ link[c.fresh] = EndOfChain
        /\ \A p \in Place : p[1] = c.fresh => slot[p] = Old

CallInv(t) == /\ PlanOK(t) /\ CallOK(t) /\ NewOK(t) /\ OldOK(t)
              /\ OnlyOK(t) /\ BareOK(t) /\ FreshOK(t)

\* Callers keep apart: no directory is used by two calls, no object is the matter of
\* two, and no cluster is held by two.
CallsApart ==
    \A t, u \in Thread : t # u /\ Busy(t) /\ Busy(u) =>
        /\ call[t].uses \intersect call[u].uses = {}
        /\ call[t].entry.obj # call[u].entry.obj
        /\ Holding(t) /\ Holding(u) => call[t].entry.start # call[u].entry.start

\* No name leads to what a call holds.
HeldLoose == \A t \in Thread : Holding(t) => call[t].entry.start \notin Heads

\* Every name is one of an object, and stands in a directory that has a name.
StandingOK ==
    \A p \in Standing :
        /\ slot[p].obj \in Object
        /\ slot[p].dir => slot[p].start # 0
        /\ slot[p].start # 0 => slot[p].start # Root
        /\ \E d \in LiveDirs : p \in DirPlaces(d)

\* Two names share a start cluster only when they are those of one object, from a
\* rename.
OwnersOK ==
    \A p, q \in Standing : p # q =>
        /\ slot[p].start = slot[q].start /\ slot[p].start # 0 => slot[p].obj = slot[q].obj
        /\ slot[p].obj = slot[q].obj =>
              /\ Same(slot[p], slot[q])
              /\ \/ slot[p].obj \in twice
                 \/ \E t \in Thread : /\ call[t].op = "rename" /\ Written(t)
                                      /\ {p, q} = {call[t].old, call[t].new}

\* What was not cleared stands only in clusters a call is about to clear, or that are
\* free; '..' comes with '.'.
CleanOK ==
    /\ \A d \in LiveDirs : \A p \in DirPlaces(d) :
          slot[p] = Old => \E u \in Thread : call[u].fresh # 0 /\ call[u].fresh = p[1]
    /\ \A p \in Place : p[1] # 0 /\ link[p[1]] = Free => slot[p] = Old
    /\ \A d \in Roots : \A p \in DirPlaces(d) :
          slot[p].name = ".." => \E q \in DirPlaces(d) : slot[q].name = "."

\* '..' leads to where the name of its directory stands.
DotsOK ==
    \A p \in Standing :
        slot[p].dir /\ slot[p].obj \notin moved \union twice
          /\ (\A t \in Thread : call[t].op = "rename" => call[t].new # p) =>
        \A q \in DirPlaces(slot[p].start) : slot[q].name = ".." => slot[q].start = ParentCluster(p)

\* No directory holds a name twice.
NamesOK ==
    \A d \in LiveDirs : \A p, q \in DirPlaces(d) \intersect Standing :
        slot[p].name = slot[q].name => p = q

\* A name is cut where rename looks for "..".
CutOK ==
    \A d \in LiveDirs : \A p \in DirPlaces(d) : slot[p].name = "cut" =>
        \/ p = <<d, 2>>
        \/ p = <<d, 3>> /\ IsDots(slot[<<d, 2>>])

\* The history is right: where the last completed call has put an object it has its
\* name.
HomeOK ==
    \A o \in Object : home[o] # Nowhere =>
        /\ home[o][1] \in LiveDirs
        /\ \E p \in DirPlaces(home[o][1]) \intersect Standing :
              /\ slot[p].obj = o
              /\ slot[p].name = home[o][2] \/ (o \in cut /\ slot[p].name = "cut")

\* A directory is above those that have their names in it.
RankedBy(rank) ==
    \A d \in LiveDirs : \A p \in DirPlaces(d) \intersect Standing :
        slot[p].dir => rank[d] < rank[slot[p].start]

\* There is such a rank: no directory is below itself.
Ranked == \E rank \in [Cluster \union {0} -> Nat] : RankedBy(rank)

\* Every cluster in use is reached from a root, unless a call has lost some.
NoLeak == ~leaky => \A c \in Cluster : link[c] # Free => \E h \in Roots : c \in Chain(link, h)

\* All of it.
TreeBody ==
    /\ ShapeOK
    /\ WellFormed(link, Roots)
    /\ CallsApart /\ HeldLoose /\ StandingOK /\ OwnersOK /\ CleanOK /\ DotsOK
    /\ NamesOK /\ CutOK /\ HomeOK /\ Ranked /\ NoLeak
    /\ \A t \in Thread : CallInv(t)

\* It holds until something happens that no caller is protected from.
TreeInv == damage = {} => TreeBody

(***************************************************************************)
(* What the invariant says of a state                                      *)
(***************************************************************************)

\* Every call is a record with a plan.
LEMMA IdleTodo == ASSUME ShapeOK, NEW t \in Thread PROVE call[t] \in CallType
  BY DEF ShapeOK

\* A call that holds something, or has entered a name, is under way.
LEMMA BusyIs ==
    ASSUME ShapeOK, NEW t \in Thread, PlanOK(t)
    PROVE  /\ Holding(t) => Busy(t)
           /\ Written(t) => Busy(t)
           /\ HasOld(t) => Busy(t)
           /\ call[t].fresh # 0 => Busy(t)
           /\ ~Busy(t) => call[t] = NoCall /\ Now(t) = "idle"
           /\ call[t] = NoCall => ~Busy(t)
<1>1. NoCall.op = "none" /\ NoCall.todo = <<>> /\ NoCall.fresh = 0
  BY DEF NoCall
<1> QED BY <1>1 DEF PlanOK, InPlan, Holding, Written, HasOld, Busy, Now, Mkdirs, Creates, Deletes, Renames

\* The start cluster and the kind of an entry.
LEMMA EntryIs == ASSUME NEW e \in Entry PROVE e.start \in Cluster \union {0} /\ e.dir \in BOOLEAN
<1>1. CASE e = Empty \/ e = Old
  <2>1. Empty.start = 0 /\ Old.start = 0 /\ Empty.dir = FALSE /\ Old.dir = FALSE
    BY DEF Empty, Old
  <2> QED BY <1>1, <2>1
<1> QED BY <1>1 DEF Entry

\* Every place holds an entry.
LEMMA SlotIs ==
    ASSUME ShapeOK, NEW p \in Place
    PROVE  slot[p] \in Entry /\ slot[p].start \in Cluster \union {0} /\ slot[p].dir \in BOOLEAN
  BY EntryIs DEF ShapeOK

\* The clusters that chains begin with, and the directories among them.
LEMMA RootsAre ==
    ASSUME TreeBody
    PROVE  /\ Roots \in SUBSET Cluster
           /\ LiveDirs \subseteq Roots \union {0}
           /\ Root \in LiveDirs
           /\ link \in Table /\ LinksInjective(link)
<1>1. Root \in Cluster \union {0}
  BY ClusterCountAssumption DEF Root, Cluster
<1>2. Heads \subseteq Cluster
  BY <1>1, SlotIs DEF TreeBody, Heads, Standing
<1>3. ASSUME NEW t \in Thread, Holding(t) PROVE call[t].entry.start \in Cluster
  BY <1>3, BusyIs DEF TreeBody, CallInv, CallOK
<1>4. LiveDirs \subseteq Heads \union {0} /\ Root \in LiveDirs
  BY DEF LiveDirs, Heads
<1>5. link \in Table /\ LinksInjective(link)
  BY DEF TreeBody, ShapeOK, WellFormed
<1> QED BY <1>2, <1>3, <1>4, <1>5 DEF Roots

\* Nothing is linked to where a directory begins.
LEMMA Starts ==
    ASSUME TreeBody, NEW d \in Roots \union {0}
    PROVE  DirStart(d) /\ (d # 0 => d \in Cluster)
  BY RootsAre DEF DirStart, TreeBody, WellFormed, HeadsUnlinked

\* Directories have no place in common.
LEMMA Apart ==
    ASSUME TreeBody, NEW d \in Roots \union {0}, NEW e \in Roots \union {0}, d # e,
           NEW p \in DirPlaces(d)
    PROVE  p \notin DirPlaces(e)
<1>1. WellFormed(link, Roots) /\ Roots \in SUBSET Cluster /\ 0 \notin Cluster
  BY RootsAre, MarksAreNotClusters DEF TreeBody, Free
<1>2. CASE d = 0
  <2>1. e \in Roots /\ Chain(link, e) \subseteq Cluster
    BY <1>1, <1>2, ChainFollows
  <2> QED BY <1>1, <1>2, <2>1 DEF DirPlaces
<1>3. CASE e = 0
  <2>1. d \in Roots /\ Chain(link, d) \subseteq Cluster
    BY <1>1, <1>3, ChainFollows
  <2> QED BY <1>1, <1>3, <2>1 DEF DirPlaces
<1>4. CASE d # 0 /\ e # 0
  <2>1. Chain(link, d) \cap Chain(link, e) = {}
    BY <1>1, <1>4, ChainsDisjoint
  <2> QED BY <1>4, <2>1 DEF DirPlaces
<1> QED BY <1>2, <1>3, <1>4

\* The directories of a call begin chains.
LEMMA UsesAre ==
    ASSUME TreeBody, NEW t \in Thread, Busy(t)
    PROVE  call[t].uses \subseteq Roots \union {0} /\ call[t].in \in call[t].uses
<1>1. CallOK(t)
  BY DEF TreeBody, CallInv
<1>2. LiveDirs \subseteq Roots \union {0}
  BY RootsAre
<1> QED BY <1>1, <1>2 DEF CallOK, Roots

\* A place is in one directory.
LEMMA OneDirectory ==
    ASSUME TreeBody, NEW d \in Roots \union {0}, NEW e \in Roots \union {0},
           NEW p \in DirPlaces(d), p \in DirPlaces(e)
    PROVE  d = e
  BY Apart

\* The directories of two calls have no place in common.
LEMMA OtherPlaces ==
    ASSUME TreeBody, NEW t \in Thread, NEW u \in Thread, t # u, Busy(t), Busy(u),
           NEW d \in call[t].uses, NEW e \in call[u].uses, NEW p \in DirPlaces(d)
    PROVE  p \notin DirPlaces(e) /\ d # e
<1>1. d \in Roots \union {0} /\ e \in Roots \union {0}
  BY UsesAre
<1>2. d # e
  BY DEF TreeBody, CallsApart
<1> QED BY <1>1, <1>2, Apart

(***************************************************************************)
(* What a step of another thread leaves alone                              *)
(***************************************************************************)
Spared(u) ==
    /\ call'[u] = call[u]
    /\ Busy(u) =>
        /\ \A d \in call[u].uses :
              /\ \A p \in DirPlaces(d) : slot'[p] = slot[p]
              /\ d \in LiveDirs => d \in LiveDirs'
              /\ d \in Cluster => \A c \in Chain(link, d) : link'[c] = link[c]
        /\ \A p \in Standing' : slot'[p].obj = call[u].entry.obj =>
              p \in Standing /\ slot[p].obj = call[u].entry.obj
        /\ call[u].entry.obj \in moved => call[u].entry.obj \in moved'

\* What is true of a call stays true when a step spares it.
LEMMA SparedKeeps ==
    ASSUME TreeBody, NEW u \in Thread, Spared(u), UNCHANGED old_root
    PROVE  CallInv(u)'
<1>1. ShapeOK /\ PlanOK(u) /\ CallOK(u) /\ NewOK(u) /\ OldOK(u) /\ OnlyOK(u) /\ BareOK(u) /\ FreshOK(u)
  BY DEF TreeBody, CallInv
<1>2. call'[u] = call[u]
  BY DEF Spared
<1>3. /\ (Busy(u))' = Busy(u) /\ (Now(u))' = Now(u) /\ (Holding(u))' = Holding(u)
      /\ (Written(u))' = Written(u) /\ (HasOld(u))' = HasOld(u)
  BY <1>2 DEF Busy, Now, Holding, Written, HasOld
<1>4. PlanOK(u)'
  BY <1>1, <1>2, <1>3 DEF PlanOK
<1>5. CASE ~Busy(u)
  <2>0. NoCall.fresh = 0 /\ NoCall.op = "none"
    BY DEF NoCall
  <2>1. call'[u] = NoCall /\ ~Holding(u) /\ ~Written(u) /\ ~HasOld(u) /\ call'[u].fresh = 0
        /\ call'[u].op = "none" /\ Now(u) = "idle"
    BY <1>1, <1>2, <1>5, <2>0, BusyIs
  <2> QED BY <1>3, <1>4, <1>5, <2>1 DEF CallInv, CallOK, NewOK, OldOK, OnlyOK, BareOK, FreshOK
<1>6. CASE Busy(u)
  <2>0. /\ \A d \in call[u].uses :
              /\ \A p \in DirPlaces(d) : slot'[p] = slot[p]
              /\ d \in LiveDirs => d \in LiveDirs'
              /\ d \in Cluster => \A c \in Chain(link, d) : link'[c] = link[c]
        /\ \A p \in Standing' : slot'[p].obj = call[u].entry.obj =>
              p \in Standing /\ slot[p].obj = call[u].entry.obj
        /\ call[u].entry.obj \in moved => call[u].entry.obj \in moved'
    BY <1>6 DEF Spared
  <2>a. ASSUME NEW d \in call[u].uses
        PROVE  (d \in Cluster => Chain(link', d) = Chain(link, d)) /\ DirPlaces(d)' = DirPlaces(d)
    <3>1. d \in Cluster => Chain(link', d) = Chain(link, d)
      BY <2>0, ChainKept
    <3>2. d \in Cluster \union {0}
      BY <1>1 DEF ShapeOK, CallType
    <3> QED BY <3>1, <3>2 DEF DirPlaces
  <2>1. /\ \A d \in call[u].uses :
              /\ DirPlaces(d)' = DirPlaces(d)
              /\ \A p \in DirPlaces(d) : slot'[p] = slot[p]
              /\ d \in LiveDirs => d \in LiveDirs'
              /\ d \in Cluster => Chain(link', d) = Chain(link, d)
                                    /\ \A c \in Chain(link, d) : link'[c] = link[c]
        /\ \A p \in Standing' : slot'[p].obj = call[u].entry.obj =>
              p \in Standing /\ slot[p].obj = call[u].entry.obj
        /\ call[u].entry.obj \in moved => call[u].entry.obj \in moved'
    BY <2>0, <2>a
  <2>2. CallOK(u)'
    <3>1. ParentCluster(call[u].new)' = ParentCluster(call[u].new) /\ ParentCluster(call[u].old)' = ParentCluster(call[u].old)
      BY <1>2 DEF ParentCluster, Root
    <3> QED BY <1>1, <1>2, <1>3, <1>6, <2>1, <3>1 DEF CallOK
  <2>3. call[u].in \in call[u].uses
    BY <1>1, <1>6 DEF CallOK
  <2>4. \A d \in call[u].uses : \A p \in DirPlaces(d) : p \in Standing' <=> p \in Standing
    BY <2>1 DEF Standing
  <2>5. NewOK(u)'
    BY <1>1, <1>2, <1>3, <2>1, <2>3, <2>4 DEF NewOK
  <2>6. OldOK(u)'
    <3> SUFFICES ASSUME HasOld(u)
                 PROVE  /\ call[u].old \in Standing'
                        /\ \E d \in call[u].uses : d \in LiveDirs' /\ call[u].old \in DirPlaces(d)'
                        /\ Now(u) = "rewrite" => call[u].old \in DirPlaces(call[u].in)'
                        /\ Same(slot'[call[u].old], call[u].entry)
      BY <1>2, <1>3 DEF OldOK, Same
    <3>1. PICK d \in call[u].uses : d \in LiveDirs /\ call[u].old \in DirPlaces(d)
      BY <1>1 DEF OldOK
    <3>2. d \in LiveDirs' /\ call[u].old \in DirPlaces(d)' /\ slot'[call[u].old] = slot[call[u].old]
      BY <2>1, <3>1
    <3> QED BY <1>1, <1>2, <2>1, <2>3, <2>4, <3>1, <3>2 DEF OldOK
  <2>7. OnlyOK(u)'
    BY <1>1, <1>2, <1>3, <1>6, <2>1 DEF OnlyOK
  <2>8. BareOK(u)'
    <3>1. call[u].op = "mkdir" /\ Now(u) # "alloc" => call[u].entry.start \in call[u].uses \cap Cluster
      BY <1>1, <1>6 DEF CallOK
    <3>2. call[u].entry.dir /\ call[u].entry.start # 0 => call[u].entry.start \in call[u].uses \cap Cluster
      BY <1>1, <1>6 DEF CallOK
    <3>3. Now(u) \in {"clean", "dotdot"} => call[u].op = "mkdir"
      BY <1>1, <1>6 DEF PlanOK, InPlan, Now, Mkdirs, Creates, Deletes, Renames, NoCall
    <3>4. call[u].entry.start \in call[u].uses \cap Cluster =>
             /\ DirPlaces(call[u].entry.start)' = DirPlaces(call[u].entry.start)
             /\ call[u].entry.start \in Chain(link, call[u].entry.start)
      BY <1>2, <2>1, ChainFollows DEF DirPlaces
    <3> QED BY <1>1, <1>2, <1>3, <2>1, <2>4, <3>1, <3>2, <3>3, <3>4 DEF BareOK
  <2>9. FreshOK(u)'
    <3>1. call[u].fresh # 0 => call[u].in # 0 /\ call[u].in \in Cluster
      <4>1. call[u].in \in Cluster \union {0}
        BY <1>1 DEF ShapeOK, CallType
      <4> QED BY <1>1, <4>1 DEF FreshOK
    <3>2. call[u].fresh # 0 => \A p \in Place : p[1] = call[u].fresh => p \in DirPlaces(call[u].in)
      BY <1>1, <3>1 DEF FreshOK, DirPlaces
    <3> QED BY <1>1, <1>2, <2>1, <2>3, <3>1, <3>2 DEF FreshOK
  <2> QED BY <1>4, <2>2, <2>5, <2>6, <2>7, <2>8, <2>9 DEF CallInv
<1> QED BY <1>5, <1>6

\* No name is one of the marks.
LEMMA NamesAre ==
    /\ {"", ".", "..", "cut", "old"} \cap Name = {} /\ LongName \subseteq Name
    /\ Empty.name = "" /\ Old.name = "old"
<1>1. {"", ".", "..", "cut", "old"} \cap Name = {} /\ LongName \subseteq Name
  BY TreeAssumption, Zenon
<1> QED BY <1>1 DEF Empty, Old

\* Before the third place of a directory there is a second.
LEMMA PlaceBefore == ASSUME NEW d, <<d, 3>> \in Place PROVE <<d, 2>> \in Place
<1>1. 2 \in 1..RootSlots \/ 3 \notin 1..RootSlots
  <2>1. RootSlots \in Nat \ {0}
    BY TreeAssumption, Zenon
  <2> QED BY <2>1
<1>2. Capacity \in Nat /\ Capacity >= 3
  BY TreeAssumption, Zenon
<1>3. 2 \in 1..Capacity
  BY <1>2
<1> QED BY <1>1, <1>3 DEF Place

\* A thread without a call.
LEMMA NoCallIs ==
    /\ NoCall \in CallType
    /\ NoCall.op = "none" /\ NoCall.todo = <<>> /\ NoCall.fresh = 0 /\ NoCall.uses = {}
<1>1. <<>> \in Todos
  BY DEF Todos
<1>2. Empty \in Entry
  BY DEF Entry
<1>3. "none" \in Ops
  BY DEF Ops
<1> QED BY <1>1, <1>2, <1>3 DEF NoCall, CallType

\* The plans of one step.
Lasts == {<<"enter">>, <<"store">>, <<"dotdot">>, <<"erase">>, <<"free">>, <<"rewrite">>}

\* The steps to come, one less.
TailIn(s, X) ==
    /\ s # <<>> /\ Len(s) \in Nat \ {0}
    /\ s \in Lasts <=> Len(s) = 1
    /\ s \notin Lasts => Tail(s) \in X

\* What is left of each plan after a step.
LEMMA Tails ==
    ASSUME NEW s
    PROVE  /\ s \in Mkdirs => TailIn(s, Mkdirs)
           /\ s \in Creates => TailIn(s, Creates)
           /\ s \in Deletes => TailIn(s, Deletes \ {<<"erase">>})
           /\ s \in Renames => TailIn(s, Renames)
<1>1. /\ Tail(<<"alloc", "clean", "enter", "dot", "dotdot">>) = <<"clean", "enter", "dot", "dotdot">>
      /\ Tail(<<"clean", "enter", "dot", "dotdot">>) = <<"enter", "dot", "dotdot">>
      /\ Tail(<<"enter", "dot", "dotdot">>) = <<"dot", "dotdot">>
      /\ Tail(<<"clear", "enter", "dot", "dotdot">>) = <<"enter", "dot", "dotdot">>
      /\ Tail(<<"dot", "dotdot">>) = <<"dotdot">>
      /\ Tail(<<"clear", "enter">>) = <<"enter">>
      /\ Tail(<<"enter", "take", "store">>) = <<"take", "store">>
      /\ Tail(<<"clear", "enter", "take", "store">>) = <<"enter", "take", "store">>
      /\ Tail(<<"take", "store">>) = <<"store">>
      /\ Tail(<<"erase", "free">>) = <<"free">>
      /\ Tail(<<"enter", "erase">>) = <<"erase">>
      /\ Tail(<<"clear", "enter", "erase">>) = <<"enter", "erase">>
      /\ Tail(<<"enter", "third", "erase">>) = <<"third", "erase">>
      /\ Tail(<<"clear", "enter", "third", "erase">>) = <<"enter", "third", "erase">>
      /\ Tail(<<"third", "erase">>) = <<"erase">>
  OBVIOUS
<1>2. ASSUME s \in Mkdirs PROVE TailIn(s, Mkdirs)
  <2>1. s # <<>> /\ Len(s) \in Nat \ {0} /\ (s \in Lasts <=> Len(s) = 1)
    BY <1>2 DEF Mkdirs, Lasts
  <2>2. s \notin Lasts => s \in {<<"alloc", "clean", "enter", "dot", "dotdot">>, <<"clean", "enter", "dot", "dotdot">>, <<"enter", "dot", "dotdot">>, <<"clear", "enter", "dot", "dotdot">>, <<"dot", "dotdot">>}
    BY <1>2 DEF Mkdirs, Lasts
  <2> QED BY <1>1, <2>1, <2>2 DEF Mkdirs, TailIn
<1>3. ASSUME s \in Creates PROVE TailIn(s, Creates)
  <2>1. s # <<>> /\ Len(s) \in Nat \ {0} /\ (s \in Lasts <=> Len(s) = 1)
    BY <1>3 DEF Creates, Lasts
  <2>2. s \notin Lasts => s \in {<<"clear", "enter">>, <<"enter", "take", "store">>, <<"clear", "enter", "take", "store">>, <<"take", "store">>}
    BY <1>3 DEF Creates, Lasts
  <2> QED BY <1>1, <2>1, <2>2 DEF Creates, TailIn
<1>4. ASSUME s \in Deletes PROVE TailIn(s, Deletes \ {<<"erase">>})
  <2>1. s # <<>> /\ Len(s) \in Nat \ {0} /\ (s \in Lasts <=> Len(s) = 1)
    BY <1>4 DEF Deletes, Lasts
  <2>2. s \notin Lasts => s \in {<<"erase", "free">>}
    BY <1>4 DEF Deletes, Lasts
  <2>3. <<"free">> \in Deletes \ {<<"erase">>}
    BY DEF Deletes
  <2> QED BY <1>1, <2>1, <2>2, <2>3 DEF TailIn
<1>5. ASSUME s \in Renames PROVE TailIn(s, Renames)
  <2>1. s # <<>> /\ Len(s) \in Nat \ {0} /\ (s \in Lasts <=> Len(s) = 1)
    BY <1>5 DEF Renames, Lasts
  <2>2. s \notin Lasts => s \in {<<"enter", "erase">>, <<"clear", "enter", "erase">>, <<"enter", "third", "erase">>, <<"clear", "enter", "third", "erase">>, <<"third", "erase">>}
    BY <1>5 DEF Renames, Lasts
  <2> QED BY <1>1, <2>1, <2>2 DEF Renames, TailIn
<1> QED BY <1>2, <1>3, <1>4, <1>5

\* The next step of a call is one of its plan.
LEMMA AdvanceIs ==
    ASSUME NEW c \in CallType, InPlan(c)
    PROVE  /\ Advance(c) \in CallType
           /\ c.todo \in Lasts => Advance(c) = NoCall
           /\ c.todo \notin Lasts =>
                 /\ Advance(c) = [c EXCEPT !.todo = Tail(c.todo)]
                 /\ InPlan(Advance(c))
           /\ c.todo # <<>>
<1>1. /\ c.todo \in Lasts <=> Len(c.todo) = 1
      /\ c.todo # <<>> /\ Len(c.todo) \in Nat \ {0}
      /\ Len(c.todo) # 1 =>  Tail(c.todo) \in Todos
  BY Tails DEF InPlan, TailIn, Todos
<1>2. CASE Len(c.todo) = 1
  BY <1>1, <1>2, NoCallIs DEF Advance
<1>3. CASE Len(c.todo) # 1
  <2>1. Advance(c) = [c EXCEPT !.todo = Tail(c.todo)]
    BY <1>3 DEF Advance
  <2>2. Advance(c) \in CallType
    BY <1>1, <1>3, <2>1 DEF CallType
  <2>3. Advance(c).todo = Tail(c.todo) /\ Advance(c).op = c.op
    BY <2>1 DEF CallType
  <2>4. InPlan(Advance(c))
    BY <1>1, <1>3, <2>3, Tails DEF InPlan, TailIn
  <2> QED BY <1>1, <1>3, <2>1, <2>2, <2>4
<1> QED BY <1>2, <1>3

\* A call that is over.
LEMMA IdleInv ==
    ASSUME NEW t \in Thread, call'[t] = NoCall
    PROVE  CallInv(t)' /\ ~(Busy(t)') /\ ~(Holding(t)') /\ ~(Written(t)')
<1>1. /\ call'[t].op = "none" /\ call'[t].todo = <<>> /\ call'[t].fresh = 0 /\ Now(t)' = "idle"
      /\ ~(Busy(t)') /\ ~(Holding(t)') /\ ~(Written(t)') /\ ~(HasOld(t)')
  BY NoCallIs DEF Now, Busy, Holding, Written, HasOld
<1>2. PlanOK(t)' /\ CallOK(t)' /\ NewOK(t)'
  BY <1>1 DEF PlanOK, CallOK, NewOK
<1>3. OldOK(t)' /\ OnlyOK(t)' /\ BareOK(t)' /\ FreshOK(t)'
  BY <1>1 DEF OldOK, OnlyOK, BareOK, FreshOK
<1> QED BY <1>1, <1>2, <1>3 DEF CallInv

\* What a call is when it takes a step.
LEMMA StepIs ==
    ASSUME TreeBody, NEW t \in Thread, NEW X, Doing(t, X)
    PROVE  /\ Now(t) \in X /\ Busy(t) /\ InPlan(call[t]) /\ call[t] \in CallType
           /\ PlanOK(t) /\ CallOK(t) /\ NewOK(t) /\ OldOK(t) /\ OnlyOK(t) /\ BareOK(t) /\ FreshOK(t)
<1>1. call[t] \in CallType /\ PlanOK(t)
  BY DEF TreeBody, ShapeOK, CallInv
<1>2. call[t].todo # <<>> /\ Head(call[t].todo) \in X
  BY DEF Doing
<1>3. InPlan(call[t]) /\ Busy(t)
  BY <1>1, <1>2, NoCallIs DEF PlanOK, InPlan, Busy
<1> QED BY <1>1, <1>2, <1>3 DEF TreeBody, CallInv, Now

\* Steps that touch places of the call's own directories spare the other calls.
LEMMA NearSteps ==
    ASSUME TreeBody, NEW t \in Thread, NEW u \in Thread, t # u, Busy(t), call'[u] = call[u],
           \A p \in Place : slot'[p] = slot[p] \/ \E d \in call[t].uses : p \in DirPlaces(d),
           Busy(u) => \A d \in call[u].uses \cap Cluster : \A c \in Chain(link, d) : link'[c] = link[c],
           \A d \in LiveDirs : d \in LiveDirs' \/ d \in call[t].uses,
           \A p \in Standing' : \/ p \in Standing /\ slot'[p].obj = slot[p].obj
                                \/ slot'[p].obj = call[t].entry.obj,
           \A o \in moved : o \in moved' \/ o = call[t].entry.obj
    PROVE  Spared(u)
<1> SUFFICES ASSUME Busy(u) PROVE Spared(u)
  BY DEF Spared
<1>1. call[t].entry.obj # call[u].entry.obj /\ call[t].uses \cap call[u].uses = {}
  BY DEF TreeBody, CallsApart
<1>2. ASSUME NEW d \in call[u].uses, NEW p \in DirPlaces(d) PROVE slot'[p] = slot[p]
  BY OtherPlaces DEF DirPlaces
<1> QED BY <1>1, <1>2 DEF Spared

(***************************************************************************)
(* What paths lead to                                                      *)
(***************************************************************************)

\* Every name of a directory can be called, and nothing else of a name's kind can.
LEMMA ChildrenAre ==
    ASSUME TreeBody, NEW d \in LiveDirs
    PROVE  /\ \A p \in DirPlaces(d) \cap Standing : p \in Children(d)
           /\ \A p \in Children(d) : /\ p \in DirPlaces(d)
                                     /\ p \in Standing \/ slot[p] = Old
<1>1. d \in Roots \union {0} /\ DirStart(d) /\ link \in Table /\ LinksInjective(link) /\ NamesOK
  BY RootsAre, Starts DEF TreeBody
<1>2. ASSUME NEW p \in DirPlaces(d), p \in Standing PROVE p \in Children(d)
  <2>1. p \in ToSet(PlacesOf(d)) /\ slot[p].name \in Name \union {"cut"}
    BY <1>1, <1>2, PlacesOfIs DEF Standing
  <2>2. slot[p] # Empty /\ ~IsDots(slot[p])
    BY <2>1, NamesAre DEF IsDots
  <2> DEFINE n == slot[p].name
             q == Lookup(d, n)
  <2>3. q \in DirPlaces(d) /\ slot[q].name = n
    BY <1>1, <1>2, LookupIs
  <2> HIDE DEF q
  <2>4. q \in Standing
    BY <2>1, <2>3 DEF Standing, DirPlaces
  <2>5. q = p
    BY <1>1, <1>2, <2>3, <2>4 DEF NamesOK
  <2> QED BY <2>1, <2>2, <2>5 DEF Children, Entries, q
<1>3. ASSUME NEW p \in Children(d) PROVE p \in DirPlaces(d) /\ (p \in Standing \/ slot[p] = Old)
  <2>1. p \in DirPlaces(d) /\ slot[p] # Empty /\ ~IsDots(slot[p])
    BY <1>1, <1>3, ChildrenIs
  <2>2. p \in Place /\ slot[p] \in Entry
    BY <2>1, SlotIs DEF DirPlaces, TreeBody
  <2>3. slot[p] = Old \/ slot[p].name \in Name \union {".", "..", "cut"}
    BY <2>1, <2>2 DEF Entry
  <2> QED BY <2>1, <2>2, <2>3 DEF Standing, IsDots
<1> QED BY <1>2, <1>3

\* There are no more directories below the root than there are objects.
LEMMA LiveDirsFew ==
    ASSUME TreeBody
    PROVE  IsFiniteSet(LiveDirs) /\ Cardinality(LiveDirs) <= Cardinality(Object) + 1
<1> DEFINE D == LiveDirs \ {Root}
           namer == [d \in D |-> CHOOSE p \in Standing : slot[p].dir /\ slot[p].start = d]
           obj == [d \in D |-> slot[namer[d]].obj]
<1>1. IsFiniteSet(Object) /\ IsFiniteSet(Cluster) /\ Cardinality(Object) \in Nat
  BY TreeAssumption, ClustersFinite, FS_CardinalityType
<1>2. LiveDirs \in SUBSET (Cluster \union {0}) /\ IsFiniteSet(Cluster \union {0})
  BY <1>1, RootsAre, FS_AddElement
<1>3. IsFiniteSet(LiveDirs) /\ IsFiniteSet(D)
  BY <1>2, FS_Subset
<1>4. ASSUME NEW d \in D PROVE namer[d] \in Standing /\ slot[namer[d]].dir /\ slot[namer[d]].start = d
  BY DEF LiveDirs
<1> HIDE DEF namer
<1>5. obj \in [D -> Object]
  BY <1>4 DEF TreeBody, StandingOK
<1>6. ASSUME NEW d \in D, NEW e \in D, obj[d] = obj[e] PROVE d = e
  BY <1>4, <1>6 DEF TreeBody, OwnersOK, Same
<1> HIDE DEF obj
<1>7. obj \in Injection(D, Object)
  BY <1>5, <1>6 DEF Injection, IsInjective
<1>8. Cardinality(D) <= Cardinality(Object) /\ Cardinality(D) \in Nat
  BY <1>1, <1>3, <1>7, FS_Injection, FS_CardinalityType
<1>9. LiveDirs = D \union {Root} /\ Root \notin D
  BY RootsAre
<1>10. Cardinality(LiveDirs) = Cardinality(D) + 1
  <2> HIDE DEF D
  <2> QED BY <1>3, <1>9, FS_AddElement
<1> QED BY <1>1, <1>3, <1>8, <1>10

\* Below finds all of the names below a directory.
LEMMA BelowReaches ==
    ASSUME TreeBody, NEW d \in LiveDirs
    PROVE  /\ d \in Below(d) /\ Below(d) \subseteq LiveDirs
           /\ \A e \in Below(d) : \A p \in DirPlaces(e) \cap Standing :
                 slot[p].dir => slot[p].start \in Below(d)
<1> DEFINE N == Cardinality(Object)
<1>1. \A e \in LiveDirs : \A p \in Children(e) : slot[p].dir => slot[p].start \in LiveDirs
  <2>1. Old.dir = FALSE
    BY DEF Old, Empty
  <2> QED BY <2>1, ChildrenAre DEF LiveDirs
<1>2. PICK B : /\ Below(d) = B[N] /\ B[0] = {d}
               /\ \A k \in 0..N : B[k] \in SUBSET LiveDirs
               /\ \A k \in 1..N : B[k] = More(B[k - 1])
  <2> DEFINE W == LiveDirs
  <2>1. d \in W /\ \A e \in W : \A p \in Children(e) : slot[p].dir => slot[p].start \in W
    BY <1>1
  <2> HIDE DEF W
  <2>2. \E B : Descends(B, d, W)
    BY <2>1, BelowSteps
  <2> QED BY <2>2 DEF W, Descends
<1>3. N \in Nat
  BY TreeAssumption, FS_CardinalityType
<1> HIDE DEF N
<1> DEFINE S == {k \in Nat : k <= N => d \in B[k] /\ (More(B[k]) = B[k] \/ Cardinality(B[k]) >= k + 1)}
<1>4. \A k \in 0..N : IsFiniteSet(B[k]) /\ Cardinality(B[k]) \in Nat
  BY <1>2, LiveDirsFew, FS_Subset, FS_CardinalityType
<1>5. 0 \in S
  <2>1. Cardinality({d}) = 1
    BY FS_Singleton
  <2> QED BY <1>2, <2>1
<1>6. ASSUME NEW k \in 0..N, k # N, k \in S PROVE k + 1 \in S
  <2>1. k + 1 \in 1..N /\ (k + 1) - 1 = k /\ k + 1 \in 0..N /\ k <= N /\ k + 1 \in Nat
    BY <1>3, <1>6
  <2>2. B[k + 1] = More(B[k]) /\ d \in B[k]
    BY <1>2, <1>6, <2>1
  <2>3. B[k] \subseteq B[k + 1]
    BY <2>2 DEF More
  <2>4. CASE More(B[k]) = B[k]
    BY <2>1, <2>2, <2>4
  <2>5. CASE More(B[k]) # B[k]
    <3>1. Cardinality(B[k]) >= k + 1
      BY <1>6, <2>1, <2>5
    <3>2. PICK x \in B[k + 1] : x \notin B[k]
      BY <2>2, <2>3, <2>5
    <3>3. IsFiniteSet(B[k]) /\ IsFiniteSet(B[k + 1]) /\ Cardinality(B[k]) \in Nat /\ Cardinality(B[k + 1]) \in Nat
      BY <1>4, <2>1
    <3>4. Cardinality(B[k] \union {x}) = Cardinality(B[k]) + 1
      BY <3>2, <3>3, FS_AddElement
    <3>5. B[k] \union {x} \in SUBSET B[k + 1]
      BY <2>3, <3>2
    <3>6. Cardinality(B[k] \union {x}) <= Cardinality(B[k + 1])
      BY <3>3, <3>5, FS_Subset
    <3>7. Cardinality(B[k + 1]) >= (k + 1) + 1
      BY <2>1, <3>1, <3>3, <3>4, <3>6
    <3> QED BY <2>1, <2>2, <2>3, <3>7
  <2> QED BY <2>4, <2>5
<1> HIDE DEF S
<1>7. N \in S
  <2>1. 0..N \subseteq S
    BY <1>3, <1>5, <1>6, InductUpTo
  <2> QED BY <1>3, <2>1
<1>8. d \in B[N] /\ B[N] \subseteq LiveDirs /\ (More(B[N]) = B[N] \/ Cardinality(B[N]) >= N + 1)
  <2>1. N \in 0..N
    BY <1>3
  <2> QED BY <1>2, <1>3, <1>7, <2>1 DEF S
<1>9. More(B[N]) \subseteq B[N]
  <2>1. CASE Cardinality(B[N]) >= N + 1
    <3>1. IsFiniteSet(LiveDirs) /\ Cardinality(LiveDirs) <= N + 1
      BY LiveDirsFew DEF N
    <3>2. Cardinality(B[N]) <= Cardinality(LiveDirs) /\ Cardinality(B[N]) \in Nat /\ Cardinality(LiveDirs) \in Nat
      BY <1>3, <1>4, <1>8, <3>1, FS_Subset, FS_CardinalityType
    <3>3. Cardinality(B[N]) = Cardinality(LiveDirs)
      BY <1>3, <2>1, <3>1, <3>2
    <3>4. B[N] = LiveDirs
      BY <1>8, <3>1, <3>3, FS_Subset
    <3> QED BY <1>1, <3>4 DEF More
  <2> QED BY <1>8, <2>1
<1>10. ASSUME NEW e \in B[N], NEW p \in DirPlaces(e), p \in Standing, slot[p].dir PROVE slot[p].start \in B[N]
  <2>1. e \in LiveDirs
    BY <1>8
  <2>2. p \in Children(e)
    BY <1>10, <2>1, ChildrenAre
  <2> QED BY <1>9, <1>10, <2>2 DEF More
<1> QED BY <1>2, <1>8, <1>10

\* The call after a step: over, or with one step less.
GoesOn(t, s, p) == call'[t] = [call[t] EXCEPT !.todo = s, !.new = p]

\* The call that has entered its name.
LEMMA EnterCall ==
    ASSUME TreeBody, NEW t \in Thread, Enter(t), Doing(t, {"enter"})
    PROVE  /\ call' \in [Thread -> CallType] /\ \A u \in Thread : u # t => call'[u] = call[u]
           /\ \/ call[t].op = "create" /\ call[t].todo = <<"enter">> /\ call'[t] = NoCall
              \/ call[t].op = "create" /\ call[t].todo = <<"enter", "take", "store">>
                 /\ GoesOn(t, <<"take", "store">>, Hole(call[t].in))
              \/ call[t].op = "mkdir" /\ call[t].todo = <<"enter", "dot", "dotdot">>
                 /\ GoesOn(t, <<"dot", "dotdot">>, Hole(call[t].in))
              \/ call[t].op = "rename" /\ call[t].todo = <<"enter", "erase">>
                 /\ GoesOn(t, <<"erase">>, Hole(call[t].in))
              \/ call[t].op = "rename" /\ call[t].todo = <<"enter", "third", "erase">>
                 /\ GoesOn(t, <<"third", "erase">>, Hole(call[t].in))
<1> DEFINE c == call[t]
           p == Hole(c.in)
<1>1. c \in CallType /\ InPlan(c) /\ Now(t) = "enter" /\ c.todo # <<>>
  BY StepIs, AdvanceIs
<1>2. /\ call' = [call EXCEPT ![t] = IF Len(c.todo) > 1 THEN [Advance(c) EXCEPT !.new = p] ELSE Advance(c)]
      /\ call \in [Thread -> CallType]
      /\ p \in Place \union {NoPlace}
  <2>1. call' = [call EXCEPT ![t] = IF Len(c.todo) > 1 THEN [Advance(c) EXCEPT !.new = p] ELSE Advance(c)]
    BY DEF Enter, Target
  <2>2. c.in \in Roots \union {0}
    BY <1>1, UsesAre, NoCallIs, StepIs
  <2>3. p \in Place \union {NoPlace}
    BY <2>2, Starts, RootsAre, HoleIs DEF DirPlaces
  <2> QED BY <2>1, <2>3 DEF TreeBody, ShapeOK
<1>3. Head(c.todo) = "enter"
  BY DEF Doing
<1>4. \/ c.op = "mkdir" /\ c.todo = <<"enter", "dot", "dotdot">>
      \/ c.op = "create" /\ c.todo \in {<<"enter">>, <<"enter", "take", "store">>}
      \/ c.op = "rename" /\ c.todo \in {<<"enter", "erase">>, <<"enter", "third", "erase">>}
  BY <1>1, <1>3 DEF InPlan, Mkdirs, Creates, Deletes, Renames
<1> HIDE DEF c, p
<1>5. Advance(c) \in CallType /\ call'[t] \in CallType
  BY <1>1, <1>2, AdvanceIs DEF CallType
<1>6. call' \in [Thread -> CallType] /\ \A u \in Thread : u # t => call'[u] = call[u]
  BY <1>2, <1>5
<1>7. CASE c.todo = <<"enter">>
  <2>1. c.todo \in Lasts /\ c.op = "create" /\ Len(c.todo) = 1
    BY <1>4, <1>7 DEF Lasts
  <2>2. call'[t] = NoCall
    BY <1>1, <1>2, <2>1, AdvanceIs
  <2> QED BY <1>6, <1>7, <2>1, <2>2 DEF c
<1>8. CASE c.todo # <<"enter">>
  <2>1. Len(c.todo) > 1 /\ c.todo \notin Lasts
    BY <1>4, <1>8 DEF Lasts
  <2>2. call'[t] = [c EXCEPT !.todo = Tail(c.todo), !.new = p]
    BY <1>1, <1>2, <2>1, AdvanceIs DEF CallType
  <2>3. CASE c.todo = <<"enter", "take", "store">>
    <3>1. Tail(c.todo) = <<"take", "store">> /\ c.op = "create"
      BY <1>4, <2>3
    <3> QED BY <1>6, <2>2, <2>3, <3>1 DEF GoesOn, c, p
  <2>4. CASE c.todo = <<"enter", "dot", "dotdot">>
    <3>1. Tail(c.todo) = <<"dot", "dotdot">> /\ c.op = "mkdir"
      BY <1>4, <2>4
    <3> QED BY <1>6, <2>2, <2>4, <3>1 DEF GoesOn, c, p
  <2>5. CASE c.todo = <<"enter", "erase">>
    <3>1. Tail(c.todo) = <<"erase">> /\ c.op = "rename"
      BY <1>4, <2>5
    <3> QED BY <1>6, <2>2, <2>5, <3>1 DEF GoesOn, c, p
  <2>6. CASE c.todo = <<"enter", "third", "erase">>
    <3>1. Tail(c.todo) = <<"third", "erase">> /\ c.op = "rename"
      BY <1>4, <2>6
    <3> QED BY <1>6, <2>2, <2>6, <3>1 DEF GoesOn, c, p
  <2> QED BY <1>4, <1>8, <2>3, <2>4, <2>5, <2>6
<1> QED BY <1>7, <1>8

\* A name is written: of a new file or directory, or the second one of a rename.
LEMMA EnterKeeps ==
    ASSUME TreeBody, NEW t \in Thread, Enter(t), Doing(t, {"enter"}), damage' = {}
    PROVE  TreeBody'
<1> DEFINE c == call[t]
           e == call[t].entry
           p == Hole(call[t].in)
<1>1. /\ Now(t) = "enter" /\ Busy(t) /\ InPlan(c) /\ c \in CallType
      /\ PlanOK(t) /\ CallOK(t) /\ NewOK(t) /\ OldOK(t) /\ OnlyOK(t) /\ BareOK(t) /\ FreshOK(t)
  BY StepIs
<1>2. call' \in [Thread -> CallType] /\ \A u \in Thread : u # t => call'[u] = call[u]
  BY EnterCall
<1>3. /\ c.op \in {"create", "mkdir", "rename"}
      /\ call'[t] = NoCall \/ \E s : GoesOn(t, s, p)
  BY EnterCall
<1>4. p \in Place /\ p \in DirPlaces(c.in) /\ slot[p] = Empty /\ p # NoPlace
  <2>1. p # NoPlace
    BY DEF Enter, Target
  <2>2. c.in \in Roots \union {0}
    BY <1>1, UsesAre
  <2> QED BY <2>1, <2>2, Starts, RootsAre, HoleIs DEF DirPlaces
<1>5. slot' = [slot EXCEPT ![p] = e] /\ old_root' = old_root /\ link' = link
      /\ moved' = moved /\ cut' = cut /\ twice' = twice /\ leaky' = leaky /\ faults' = faults
      /\ home' = IF c.op # "rename" THEN [home EXCEPT ![e.obj] = <<c.in, e.name>>] ELSE home
  <2>1. Target(t) = c.in /\ Made(t) = e
    BY DEF Target, Made, Doing
  <2> QED BY <2>1 DEF Enter
<1> HIDE DEF p, c, e
<1>6. e.name \in Name /\ e.obj \in Object /\ e \in Entry
  BY <1>1, <1>3 DEF CallOK, CallType, c, e
<1>7. slot \in [Place -> Entry] /\ slot' \in [Place -> Entry] /\ slot'[p] = e
      /\ \A q \in Place : q # p => slot'[q] = slot[q]
  BY <1>4, <1>5, <1>6 DEF TreeBody, ShapeOK
<1>8. Standing' = Standing \union {p} /\ p \notin Standing
  <2>1. slot[p].name \notin Name \union {"cut"}
    BY <1>4, NamesAre
  <2> QED BY <1>4, <1>6, <1>7, <2>1 DEF Standing
<1>9. \A d : DirPlaces(d)' = DirPlaces(d)
  BY <1>5 DEF DirPlaces
<1>10. LiveDirs' = LiveDirs \union (IF e.dir THEN {e.start} ELSE {})
       /\ Heads' = Heads \union ({e.start} \ {0}) /\ Root' = Root
  <2>1. Root' = Root
    BY <1>5 DEF Root
  <2>2. \A q \in Standing : slot'[q] = slot[q]
    BY <1>7, <1>8 DEF Standing
  <2> QED BY <1>7, <1>8, <2>1, <2>2 DEF LiveDirs, Heads
<1>11. HeldLoose /\ StandingOK /\ OwnersOK /\ CleanOK /\ DotsOK /\ NamesOK /\ CutOK /\ HomeOK /\ CallsApart
  BY DEF TreeBody
<1>12. call'[t].op # "none" => call'[t].op = c.op /\ call'[t].uses = c.uses /\ call'[t].entry = e /\ call'[t].new = p
                             /\ call'[t].in = c.in /\ call'[t].old = c.old /\ call'[t].fresh = c.fresh
  BY <1>1, <1>3, NoCallIs DEF GoesOn, CallType, c, e
<1>13. \/ call'[t] = NoCall /\ Now(t)' = "idle" /\ c.op = "create"
       \/ c.op = "create" /\ call'[t].op = "create" /\ Now(t)' = "take" /\ call'[t].todo = <<"take", "store">>
       \/ c.op = "mkdir" /\ call'[t].op = "mkdir" /\ Now(t)' = "dot" /\ call'[t].todo = <<"dot", "dotdot">>
       \/ c.op = "rename" /\ call'[t].op = "rename" /\ Now(t)' = "erase" /\ call'[t].todo = <<"erase">>
          /\ c.todo = <<"enter", "erase">>
       \/ c.op = "rename" /\ call'[t].op = "rename" /\ Now(t)' = "third" /\ call'[t].todo = <<"third", "erase">>
          /\ c.todo = <<"enter", "third", "erase">>
  <2>1. CASE call'[t] = NoCall /\ c.op = "create"
    BY <2>1, NoCallIs DEF Now
  <2>2. CASE c.op = "create" /\ GoesOn(t, <<"take", "store">>, p)
    <3>1. call'[t].todo = <<"take", "store">> /\ call'[t].op = c.op
      BY <1>1, <2>2 DEF GoesOn, CallType, c
    <3> QED BY <2>2, <3>1 DEF Now
  <2>3. CASE c.op = "mkdir" /\ GoesOn(t, <<"dot", "dotdot">>, p)
    <3>1. call'[t].todo = <<"dot", "dotdot">> /\ call'[t].op = c.op
      BY <1>1, <2>3 DEF GoesOn, CallType, c
    <3> QED BY <2>3, <3>1 DEF Now
  <2>4. CASE c.op = "rename" /\ c.todo = <<"enter", "erase">> /\ GoesOn(t, <<"erase">>, p)
    <3>1. call'[t].todo = <<"erase">> /\ call'[t].op = c.op
      BY <1>1, <2>4 DEF GoesOn, CallType, c
    <3> QED BY <2>4, <3>1 DEF Now
  <2>5. CASE c.op = "rename" /\ c.todo = <<"enter", "third", "erase">> /\ GoesOn(t, <<"third", "erase">>, p)
    <3>1. call'[t].todo = <<"third", "erase">> /\ call'[t].op = c.op
      BY <1>1, <2>5 DEF GoesOn, CallType, c
    <3> QED BY <2>5, <3>1 DEF Now
  <2> QED BY <2>1, <2>2, <2>3, <2>4, <2>5, EnterCall DEF c, p
<1>14. ~(Holding(t)') /\ (Holding(t) <=> c.op = "mkdir") /\ ~Written(t) /\ (HasOld(t) <=> c.op = "rename")
  BY <1>1, <1>3, <1>13, NoCallIs DEF Holding, Written, HasOld, c
<1>15. ASSUME NEW u \in Thread, u # t
       PROVE  (Holding(u))' = Holding(u) /\ (Written(u))' = Written(u) /\ (Busy(u))' = Busy(u)
  BY <1>2, <1>15 DEF Holding, Written, Now, Busy
<1>16. c.op = "rename" => /\ c.old \in Standing /\ Same(slot[c.old], e)
                          /\ \A q \in Standing : slot[q].obj = e.obj => q = c.old
  BY <1>1, <1>14, NoPlaceIsNone DEF OldOK, OnlyOK, PlanOK, c, e, Standing
<1>17. Roots' = Roots
  <2>1. e.start # 0 => e.start \in Roots
    <3>1. c.op = "create" => e.start = 0
      BY <1>1 DEF CallOK, c, e
    <3>2. c.op = "mkdir" => e.start \in Roots
      BY <1>14 DEF Roots, c, e
    <3>3. c.op = "rename" /\ e.start # 0 => e.start \in Heads
      BY <1>16 DEF Heads, Same
    <3> QED BY <1>3, <3>1, <3>2, <3>3 DEF Roots
  <2>2. Roots' \subseteq Roots
    BY <1>2, <1>10, <1>14, <1>15, <2>1 DEF Roots
  <2>3. ASSUME NEW h \in Roots PROVE h \in Roots'
    <3>1. CASE h \in Heads
      BY <1>10, <3>1 DEF Roots
    <3>2. ASSUME NEW u \in Thread, Holding(u), h = call[u].entry.start PROVE h \in Roots'
      <4>1. CASE u = t
        <5>1. h \in Heads'
          BY <1>1, <1>10, <1>14, <3>2, <4>1, MarksAreNotClusters DEF CallOK, e, Free
        <5> QED BY <5>1 DEF Roots
      <4>2. CASE u # t
        BY <1>2, <1>15, <3>2, <4>2 DEF Roots
      <4> QED BY <4>1, <4>2
    <3> QED BY <3>1, <3>2 DEF Roots
  <2> QED BY <2>2, <2>3
<1>18. ASSUME NEW u \in Thread, u # t PROVE Spared(u)
  <2>1. c.in \in c.uses
    BY <1>1 DEF CallOK, c
  <2>2. \A q \in Place : slot'[q] = slot[q] \/ \E d \in c.uses : q \in DirPlaces(d)
    BY <1>4, <1>7, <2>1
  <2>3. \A q \in Standing' : (q \in Standing /\ slot'[q].obj = slot[q].obj) \/ slot'[q].obj = e.obj
    BY <1>7, <1>8 DEF Standing
  <2>4. LiveDirs \subseteq LiveDirs' /\ moved' = moved /\ link' = link
    BY <1>5, <1>10
  <2> QED BY <1>1, <1>2, <1>18, <2>2, <2>3, <2>4, NearSteps DEF c, e
<1>19. ASSUME NEW u \in Thread, u # t PROVE CallInv(u)'
  BY <1>5, <1>18, <1>19, SparedKeeps
<1>20. ShapeOK'
  <2>1. ShapeOK /\ c.in \in Cluster \union {0}
    BY <1>1 DEF TreeBody, CallType, c
  <2>2. <<c.in, e.name>> \in (Cluster \union {0}) \X Name
    BY <1>6, <2>1
  <2>3. home' \in [Object -> ((Cluster \union {0}) \X Name) \union {Nowhere}]
    BY <1>5, <1>6, <2>1, <2>2 DEF ShapeOK
  <2> QED BY <1>2, <1>5, <1>7, <2>1, <2>3 DEF ShapeOK
<1>21. WellFormed(link, Roots)'
  BY <1>5, <1>17 DEF TreeBody
<1>22. CallsApart' /\ HeldLoose'
  <2>1. CallsApart'
    BY <1>1, <1>2, <1>11, <1>12, <1>14, <1>15 DEF CallsApart, Busy, c, e
  <2>2. ASSUME NEW u \in Thread, Holding(u)' PROVE call'[u].entry.start \notin Heads'
    <3>1. u # t /\ Holding(u) /\ call'[u] = call[u] /\ call[u].entry.start \notin Heads
      BY <1>2, <1>11, <1>14, <1>15, <2>2 DEF HeldLoose
    <3>2. call[u].entry.start # e.start \/ e.start = 0
      <4>1. CASE c.op = "mkdir"
        <5>1. Holding(t) /\ Busy(u)
          BY <1>14, <3>1, <4>1, BusyIs DEF TreeBody, CallInv
        <5> QED BY <1>1, <1>11, <3>1, <5>1 DEF CallsApart, e
      <4>2. CASE c.op = "rename"
        BY <1>16, <3>1, <4>2 DEF Heads, Same
      <4>3. CASE c.op = "create"
        BY <1>1, <4>3 DEF CallOK, c, e
      <4> QED BY <1>3, <4>1, <4>2, <4>3
    <3> QED BY <1>10, <3>1, <3>2
  <2> QED BY <2>1, <2>2 DEF HeldLoose
<1>23. StandingOK'
  <2>1. ASSUME NEW q \in Standing
        PROVE  /\ slot'[q].obj \in Object /\ (slot'[q].dir => slot'[q].start # 0)
               /\ slot'[q].start # 0 => slot'[q].start # Root'
               /\ \E d \in LiveDirs' : q \in DirPlaces(d)'
    <3>1. slot'[q] = slot[q]
      BY <1>7, <1>8 DEF Standing
    <3> QED BY <1>9, <1>10, <1>11, <3>1 DEF StandingOK
  <2>2. e.dir => e.start # 0
    BY <1>1, MarksAreNotClusters DEF CallOK, c, e, Free
  <2>3. e.start # 0 => e.start # Root
    <3>1. CASE c.op = "mkdir"
      BY <1>11, <1>14, <3>1 DEF HeldLoose, Heads, e
    <3>2. CASE c.op = "rename"
      BY <1>11, <1>16, <3>2 DEF StandingOK, Same
    <3>3. CASE c.op = "create"
      BY <1>1, <3>3 DEF CallOK, c, e
    <3> QED BY <1>3, <3>1, <3>2, <3>3
  <2>4. \E d \in LiveDirs' : p \in DirPlaces(d)'
    <3>1. p \in DirPlaces(c.in) /\ c.in \in LiveDirs
      BY <1>1, <1>4 DEF CallOK, c
    <3> QED BY <1>9, <1>10, <3>1
  <2> SUFFICES ASSUME NEW q \in Standing'
               PROVE  /\ slot'[q].obj \in Object /\ (slot'[q].dir => slot'[q].start # 0)
                      /\ slot'[q].start # 0 => slot'[q].start # Root'
                      /\ \E d \in LiveDirs' : q \in DirPlaces(d)'
    BY DEF StandingOK
  <2> QED BY <1>6, <1>7, <1>8, <1>10, <2>1, <2>2, <2>3, <2>4
<1>24. OwnersOK'
  <2>1. ASSUME NEW q \in Standing PROVE slot'[q] = slot[q] /\ q # p
    BY <1>7, <1>8 DEF Standing
  <2>2. ASSUME NEW q \in Standing, slot[q].obj = e.obj \/ (slot[q].start = e.start /\ e.start # 0)
        PROVE  c.op = "rename" /\ q = c.old /\ Same(slot[q], e)
    <3>1. c.op # "create" \/ slot[q].obj = e.obj
      BY <1>1, <2>2 DEF CallOK, c, e
    <3>2. c.op = "mkdir" => slot[q].obj = e.obj
      BY <1>11, <1>14, <2>2 DEF HeldLoose, Heads, e
    <3>3. c.op # "rename" => slot[q].obj # e.obj
      BY <1>1, <1>3, <1>14, NoPlaceIsNone DEF OnlyOK, PlanOK, c, e, Standing
    <3>4. c.op = "rename" => slot[q].obj = e.obj
      BY <1>11, <1>16, <2>2 DEF OwnersOK, Same
    <3> QED BY <1>3, <1>16, <3>1, <3>2, <3>3, <3>4
  <2>3. c.op = "rename" => call'[t].op = "rename" /\ Written(t)' /\ call'[t].old = c.old /\ call'[t].new = p
    BY <1>12, <1>13 DEF Written
  <2>4. ASSUME NEW q \in Standing, NEW r \in Standing, q # r, slot[q].obj = slot[r].obj, slot[q].obj \notin twice
        PROVE  \E u \in Thread : call'[u].op = "rename" /\ Written(u)' /\ {q, r} = {call'[u].old, call'[u].new}
    <3>1. PICK u \in Thread : call[u].op = "rename" /\ Written(u) /\ {q, r} = {call[u].old, call[u].new}
      BY <1>11, <2>4 DEF OwnersOK
    <3>2. u # t
      BY <1>14, <3>1
    <3> QED BY <1>2, <1>15, <3>1, <3>2
  <2> SUFFICES ASSUME NEW q \in Standing', NEW r \in Standing', q # r
               PROVE  /\ slot'[q].start = slot'[r].start /\ slot'[q].start # 0 => slot'[q].obj = slot'[r].obj
                      /\ slot'[q].obj = slot'[r].obj =>
                            /\ Same(slot'[q], slot'[r])
                            /\ \/ slot'[q].obj \in twice'
                               \/ \E u \in Thread : /\ call'[u].op = "rename" /\ Written(u)'
                                                    /\ {q, r} = {call'[u].old, call'[u].new}
    BY DEF OwnersOK, Same
  <2>5. CASE q \in Standing /\ r \in Standing
    <3>1. slot'[q] = slot[q] /\ slot'[r] = slot[r] /\ twice' = twice
      BY <1>5, <2>1, <2>5
    <3> QED BY <1>11, <2>4, <2>5, <3>1 DEF OwnersOK
  <2>6. CASE q = p /\ r \in Standing
    BY <1>7, <2>1, <2>2, <2>3, <2>6 DEF Same
  <2>7. CASE r = p /\ q \in Standing
    BY <1>7, <2>1, <2>2, <2>3, <2>7 DEF Same
  <2> QED BY <1>8, <2>5, <2>6, <2>7
<1>25. CleanOK'
  <2>1. ASSUME NEW d \in LiveDirs', NEW q \in DirPlaces(d), slot'[q] = Old
        PROVE  \E u \in Thread : call'[u].fresh # 0 /\ call'[u].fresh = q[1]
    <3>1. q # p /\ slot[q] = Old /\ q \in Place
      BY <1>6, <1>7, <2>1, NamesAre DEF DirPlaces
    <3>2. d \in LiveDirs
      <4> SUFFICES ASSUME d \notin LiveDirs PROVE FALSE
        OBVIOUS
      <4>1. d = e.start /\ e.dir
        BY <1>10
      <4>2. c.op = "mkdir"
        BY <1>1, <1>3, <1>16, <4>1 DEF CallOK, LiveDirs, Same, c, e
      <4>3. slot[q] = Empty
        BY <1>1, <2>1, <4>1, <4>2 DEF BareOK, c, e
      <4> QED BY <3>1, <4>3, NamesAre
    <3>3. PICK u \in Thread : call[u].fresh # 0 /\ call[u].fresh = q[1]
      BY <1>11, <2>1, <3>1, <3>2 DEF CleanOK
    <3>4. u # t
      BY <1>1, <3>3 DEF PlanOK
    <3> QED BY <1>2, <3>3, <3>4
  <2>2. ASSUME NEW q \in Place, q[1] # 0, link'[q[1]] = Free PROVE slot'[q] = Old
    <3>1. slot[q] = Old
      BY <1>5, <1>11, <2>2 DEF CleanOK
    <3>2. slot[q] # slot[p]
      BY <1>4, <3>1, NamesAre
    <3> QED BY <1>7, <3>1, <3>2
  <2>3. ASSUME NEW d \in Roots', NEW q \in DirPlaces(d), slot'[q].name = ".."
        PROVE  \E r \in DirPlaces(d) : slot'[r].name = "."
    <3>1. q # p /\ q \in Place
      BY <1>6, <1>7, <2>3, NamesAre DEF DirPlaces
    <3>2. PICK r \in DirPlaces(d) : slot[r].name = "."
      BY <1>7, <1>11, <1>17, <2>3, <3>1 DEF CleanOK
    <3>3. r # p /\ r \in Place
      BY <1>4, <3>2, NamesAre DEF DirPlaces
    <3> QED BY <1>7, <3>2, <3>3
  <2> QED BY <1>9, <2>1, <2>2, <2>3 DEF CleanOK
<1>26. DotsOK'
  <2> SUFFICES ASSUME NEW q \in Standing', slot'[q].dir, slot'[q].obj \notin moved' \union twice',
                      \A u \in Thread : call'[u].op = "rename" => call'[u].new # q,
                      NEW r \in DirPlaces(slot[q].start)', slot'[r].name = ".."
               PROVE  slot'[r].start = ParentCluster(q)'
    BY DEF DotsOK
  <2>1. r \in DirPlaces(slot'[q].start) /\ r \in Place
    BY <1>5 DEF DirPlaces
  <2>2. slot'[r] = slot[r]
    BY <1>6, <1>7, <2>1, NamesAre
  <2>3. q # p
    <3> SUFFICES ASSUME q = p PROVE FALSE
      OBVIOUS
    <3>1. e.dir /\ r \in DirPlaces(e.start)
      BY <1>7, <2>1
    <3>2. c.op # "create"
      BY <1>1, <3>1 DEF CallOK, c, e
    <3>3. c.op # "rename"
      BY <1>12, <1>13
    <3>4. slot[r] = Empty
      BY <1>1, <1>3, <3>1, <3>2, <3>3 DEF BareOK, c, e
    <3> QED BY <2>2, <3>4, NamesAre
  <2>4. q \in Standing /\ slot'[q] = slot[q]
    BY <1>7, <1>8, <2>3 DEF Standing
  <2>5. ASSUME NEW u \in Thread, call[u].op = "rename" PROVE call[u].new # q
    <3>1. CASE u = t
      BY <1>1, <1>14, <2>4, <2>5, <3>1, NoPlaceIsNone DEF PlanOK, Standing
    <3> QED BY <1>2, <2>5, <3>1
  <2>6. slot[r].start = ParentCluster(q)
    BY <1>5, <1>11, <2>1, <2>2, <2>4, <2>5 DEF DotsOK
  <2>7. ParentCluster(q)' = ParentCluster(q)
    BY <1>10 DEF ParentCluster
  <2> QED BY <2>2, <2>6, <2>7
<1>33. ASSUME NEW d \in LiveDirs', d \notin LiveDirs
       PROVE  d = e.start /\ e.dir /\ c.op = "mkdir" /\ \A q \in DirPlaces(d) : slot[q] = Empty /\ q \notin Standing
  <2>1. d = e.start /\ e.dir
    BY <1>10, <1>33
  <2>2. c.op = "mkdir"
    BY <1>1, <1>3, <1>16, <1>33, <2>1 DEF CallOK, LiveDirs, Same, c, e
  <2>3. \A q \in DirPlaces(d) : slot[q] = Empty
    BY <1>1, <2>1, <2>2 DEF BareOK, c, e
  <2> QED BY <2>1, <2>2, <2>3, NamesAre DEF Standing
<1>34. LiveDirs' \subseteq Roots \union {0} /\ c.in \in LiveDirs /\ c.in \in Roots \union {0}
  <2>1. ASSUME NEW d \in LiveDirs', d \notin LiveDirs PROVE d \in Roots
    BY <1>14, <1>33, <2>1 DEF Roots, c, e
  <2> QED BY <1>1, <2>1, RootsAre DEF CallOK, c
<1>27. NamesOK'
  <2>1. ASSUME NEW d \in LiveDirs', NEW q \in DirPlaces(d), NEW r \in DirPlaces(d), q \in Standing, r \in Standing',
               slot'[q].name = slot'[r].name
        PROVE  q = r
    <3>1. d \in LiveDirs
      BY <1>33, <2>1
    <3>2. slot'[q] = slot[q]
      BY <1>7, <1>8, <2>1 DEF Standing
    <3>3. CASE r = p
      <4>1. d = c.in
        BY <1>4, <1>34, <3>3, OneDirectory
      <4>2. q = c.new
        BY <1>1, <1>3, <1>7, <2>1, <3>2, <3>3, <4>1 DEF NewOK, c, e
      <4>3. c.new = NoPlace
        BY <1>1, <1>3, <1>14 DEF PlanOK, c
      <4> QED BY <2>1, <4>2, <4>3, NoPlaceIsNone DEF Standing
    <3>4. CASE r # p
      <4>1. r \in Standing /\ slot'[r] = slot[r]
        BY <1>7, <1>8, <2>1, <3>4 DEF Standing
      <4> QED BY <1>11, <2>1, <3>1, <3>2, <4>1 DEF NamesOK
    <3> QED BY <3>3, <3>4
  <2> QED BY <1>8, <1>9, <2>1 DEF NamesOK
<1>28. CutOK'
  <2> SUFFICES ASSUME NEW d \in LiveDirs', NEW q \in DirPlaces(d)', slot'[q].name = "cut"
               PROVE  q = <<d, 2>> \/ (q = <<d, 3>> /\ IsDots(slot'[<<d, 2>>]))
    BY DEF CutOK, IsDots
  <2>1. q \in DirPlaces(d) /\ q \in Place /\ q # p
    BY <1>6, <1>7, <1>9, NamesAre DEF DirPlaces
  <2>2. slot[q].name = "cut"
    BY <1>7, <2>1
  <2>3. d \in LiveDirs
    BY <1>33, <2>1, <2>2, NamesAre
  <2>4. CASE q = <<d, 3>> /\ IsDots(slot[<<d, 2>>])
    <3>1. <<d, 2>> \in Place
      BY <2>1, <2>4, PlaceBefore
    <3>2. <<d, 2>> # p
      BY <1>4, <2>4, NamesAre DEF IsDots
    <3> QED BY <1>7, <2>4, <3>1, <3>2
  <2> QED BY <1>11, <2>1, <2>2, <2>3, <2>4 DEF CutOK
<1>29. HomeOK'
  <2> SUFFICES ASSUME NEW o \in Object, home'[o] # Nowhere
               PROVE  /\ home'[o][1] \in LiveDirs'
                      /\ \E q \in DirPlaces(home'[o][1]) : q \in Standing' /\ slot'[q].obj = o
                            /\ (slot'[q].name = home'[o][2] \/ (o \in cut' /\ slot'[q].name = "cut"))
    BY <1>9 DEF HomeOK
  <2>1. CASE o = e.obj /\ c.op # "rename"
    <3>1. home'[o] = <<c.in, e.name>>
      BY <1>5, <2>1 DEF TreeBody, ShapeOK
    <3> QED BY <1>4, <1>7, <1>8, <1>10, <1>34, <2>1, <3>1
  <2>2. CASE ~(o = e.obj /\ c.op # "rename")
    <3>1. home'[o] = home[o]
      BY <1>5, <2>2 DEF TreeBody, ShapeOK
    <3>2. home[o][1] \in LiveDirs
      BY <1>11, <3>1 DEF HomeOK
    <3>3. PICK q \in DirPlaces(home[o][1]) : q \in Standing /\ slot[q].obj = o
                            /\ (slot[q].name = home[o][2] \/ (o \in cut /\ slot[q].name = "cut"))
      BY <1>11, <3>1 DEF HomeOK
    <3>4. slot'[q] = slot[q]
      BY <1>7, <1>8, <3>3 DEF Standing
    <3> QED BY <1>5, <1>8, <1>10, <3>1, <3>2, <3>3, <3>4
  <2> QED BY <2>1, <2>2
<1>30. Ranked'
  <2>1. PICK rank \in [Cluster \union {0} -> Nat] : RankedBy(rank)
    BY DEF TreeBody, Ranked
  <2>2. /\ \A d \in LiveDirs' : d \in Cluster \union {0}
        /\ c.in \in Cluster \union {0} /\ e.start \in Cluster \union {0}
    <3>1. e.start \in Cluster \union {0}
      BY <1>6, EntryIs
    <3> QED BY <1>34, <3>1, RootsAre
  <2>3. ASSUME NEW d \in LiveDirs', NEW q \in DirPlaces(d), q \in Standing, slot'[q].dir
        PROVE  d \in LiveDirs /\ slot'[q] = slot[q] /\ rank[d] < rank[slot[q].start] /\ slot[q].start \in Cluster \union {0}
    <3>1. d \in LiveDirs
      BY <1>33, <2>3
    <3>2. slot'[q] = slot[q]
      BY <1>7, <1>8, <2>3 DEF Standing
    <3>3. slot[q].start \in Cluster \union {0}
      BY <2>3, SlotIs DEF TreeBody, Standing
    <3> QED BY <2>1, <2>3, <3>1, <3>2, <3>3 DEF RankedBy
  <2>4. ASSUME NEW d \in LiveDirs', p \in DirPlaces(d) PROVE d = c.in
    BY <1>4, <1>34, <2>4, OneDirectory
  <2>5. CASE ~e.dir
    <3>1. RankedBy(rank)'
      BY <1>7, <1>8, <1>9, <2>3, <2>5 DEF RankedBy
    <3> QED BY <3>1 DEF Ranked
  <2>6. CASE e.dir
    <3> DEFINE X == IF c.op = "mkdir" THEN {e.start} ELSE Below(e.start)
               new == [d \in Cluster \union {0} |-> IF d \in X THEN rank[d] + rank[c.in] + 1 ELSE rank[d]]
    <3>1. c.in \notin X /\ e.start \in X
      <4>1. CASE c.op = "mkdir"
        BY <1>1, <2>6, <4>1, MarksAreNotClusters DEF CallOK, c, e, Free
      <4>2. CASE c.op = "rename"
        <5>1. c.in \notin Below(e.start)
          BY <2>6, <4>2 DEF Enter, Looped, c, e
        <5>2. e.start \in LiveDirs
          BY <1>16, <2>6, <4>2 DEF LiveDirs, Same
        <5> QED BY <4>2, <5>1, <5>2, BelowReaches
      <4> QED BY <1>1, <1>3, <2>6, <4>1, <4>2 DEF CallOK, c, e
    <3>2. ASSUME NEW d \in LiveDirs, d \in X, NEW q \in DirPlaces(d), q \in Standing, slot[q].dir PROVE slot[q].start \in X
      <4>1. CASE c.op = "mkdir"
        BY <1>1, <2>6, <3>2, <4>1, MarksAreNotClusters DEF BareOK, CallOK, c, e, Free
      <4>2. CASE c.op # "mkdir"
        <5>1. e.start \in LiveDirs
          BY <1>1, <1>3, <1>16, <2>6, <4>2 DEF CallOK, LiveDirs, Same, c, e
        <5> QED BY <3>2, <4>2, <5>1, BelowReaches
      <4> QED BY <4>1, <4>2
    <3> HIDE DEF X
    <3>3. new \in [Cluster \union {0} -> Nat]
      BY <2>1, <2>2
    <3>4. ASSUME NEW d \in LiveDirs', NEW q \in DirPlaces(d), q \in Standing', slot'[q].dir
          PROVE  new[d] < new[slot'[q].start]
      <4>1. CASE q = p
        BY <1>7, <2>1, <2>2, <2>4, <3>1, <3>4, <4>1
      <4>2. CASE q # p
        <5>1. q \in Standing
          BY <1>8, <3>4, <4>2
        <5>2. d \in LiveDirs /\ slot'[q] = slot[q] /\ rank[d] < rank[slot[q].start] /\ slot[q].start \in Cluster \union {0}
          BY <2>3, <3>4, <5>1
        <5>3. d \in X => slot[q].start \in X
          BY <3>2, <3>4, <5>1, <5>2
        <5>4. d \in Cluster \union {0} /\ rank[d] \in Nat /\ rank[slot[q].start] \in Nat /\ rank[c.in] \in Nat
          BY <2>1, <2>2, <5>2
        <5> QED BY <5>2, <5>3, <5>4
      <4> QED BY <4>1, <4>2
    <3>5. \E f \in [Cluster \union {0} -> Nat] : \A d \in LiveDirs' : \A q \in DirPlaces(d) :
             q \in Standing' /\ slot'[q].dir => f[d] < f[slot'[q].start]
      <4> HIDE DEF new
      <4> QED BY <3>3, <3>4
    <3> QED BY <1>9, <3>5 DEF Ranked, RankedBy
  <2> QED BY <1>6, <2>5, <2>6 DEF Entry
<1>31. NoLeak'
  BY <1>5, <1>17 DEF TreeBody, NoLeak
<1>32. CallInv(t)'
  <2>1. CASE call'[t] = NoCall
    BY <2>1, IdleInv
  <2>2. CASE call'[t] # NoCall
    <3>1. /\ call'[t].op = c.op /\ call'[t].uses = c.uses /\ call'[t].entry = e /\ call'[t].new = p
          /\ call'[t].in = c.in /\ call'[t].old = c.old /\ call'[t].fresh = c.fresh
          /\ Busy(t)' /\ Written(t)' /\ (HasOld(t)' <=> HasOld(t))
      BY <1>12, <1>13, <1>14, <2>2 DEF Busy, Written, HasOld
    <3>2. c.fresh = 0 /\ c.new = NoPlace /\ (c.op \in {"create", "mkdir"} => c.old = NoPlace)
      BY <1>1, <1>3, <1>14 DEF PlanOK, c
    <3>3. PlanOK(t)'
      <4>1. InPlan(call'[t])
        BY <1>13, <2>2 DEF InPlan, Mkdirs, Creates, Renames
      <4> QED BY <1>3, <1>4, <1>13, <2>2, <3>1, <3>2, <4>1 DEF PlanOK
    <3>4. CallOK(t)'
      <4>1. c.in \in LiveDirs' /\ \A d \in c.uses : d \in LiveDirs'
        <5>1. ASSUME NEW d \in c.uses, d \notin LiveDirs PROVE d \in LiveDirs'
          <6>1. d = e.start /\ c.op = "mkdir"
            BY <1>1, <1>14, <5>1 DEF CallOK, c, e
          <6> QED BY <1>1, <1>10, <6>1 DEF CallOK, c, e
        <5> QED BY <1>10, <1>34, <5>1
      <4>2. c.op = "rename" /\ Now(t)' = "erase" => ~e.dir
        BY <1>1, <1>13, <2>2 DEF CallOK, c, e
      <4>3. c.op = "rename" /\ Now(t)' = "third" => e.dir /\ call'[t].todo = <<"third", "erase">>
        BY <1>1, <1>13, <2>2 DEF CallOK, c, e
      <4>4. Now(t)' \in {"take", "dot", "erase", "third"} /\ (c.op = "create" => e.start = 0)
        BY <1>1, <1>13, <2>2 DEF CallOK, c, e
      <4> QED BY <1>1, <1>3, <1>6, <1>14, <3>1, <4>1, <4>2, <4>3, <4>4 DEF CallOK, c, e
    <3>5. NewOK(t)'
      <4>1. p # c.old
        BY <1>8, <1>14, <1>16, <3>2, <1>3, <1>4
      <4>2. p \in Standing' /\ slot'[p] = e /\ Now(t)' # "store"
        BY <1>7, <1>8, <1>13, <2>2
      <4>3. ASSUME NEW q \in DirPlaces(c.in), slot'[q].name = e.name PROVE q = p
        BY <1>1, <1>3, <1>7, <3>2, <4>3, NoPlaceIsNone DEF NewOK, DirPlaces, c, e
      <4>4. p \in DirPlaces(call[t].in)' /\ \A q : q \in DirPlaces(call[t].in)' <=> q \in DirPlaces(c.in)
        BY <1>4, <3>1, <1>5 DEF DirPlaces, c
      <4> QED BY <3>1, <4>1, <4>2, <4>3, <4>4 DEF NewOK
    <3>6. OldOK(t)'
      <4> SUFFICES ASSUME HasOld(t)
                   PROVE  /\ c.old \in Standing'
                          /\ \E d \in c.uses : d \in LiveDirs' /\ c.old \in DirPlaces(d)
                          /\ Now(t)' # "rewrite"
                          /\ Same(slot'[c.old], e)
        BY <1>9, <3>1 DEF OldOK, Same
      <4>1. c.old \in Standing /\ Same(slot[c.old], e)
            /\ \E d \in c.uses : d \in LiveDirs /\ c.old \in DirPlaces(d)
        BY <1>1 DEF OldOK, c, e
      <4>2. slot'[c.old] = slot[c.old]
        BY <1>7, <1>8, <4>1 DEF Standing
      <4> QED BY <1>8, <1>10, <1>13, <2>2, <4>1, <4>2
    <3>7. OnlyOK(t)'
      <4>1. Now(t)' # "free"
        BY <1>13, <2>2
      <4>2. ASSUME NEW q \in Standing, slot[q].obj = e.obj PROVE q = c.old
        BY <1>1, <3>2, <4>2, NoPlaceIsNone DEF OnlyOK, c, e, Standing
      <4>3. \A q \in Standing : slot'[q] = slot[q]
        BY <1>7, <1>8 DEF Standing
      <4> QED BY <1>7, <1>8, <3>1, <4>1, <4>2, <4>3 DEF OnlyOK
    <3>8. BareOK(t)'
      <4>1. CASE c.op = "mkdir"
        <5>1. e.start \in Roots /\ e.start # c.in /\ e.start # 0
          BY <1>1, <1>14, <4>1, MarksAreNotClusters DEF Roots, CallOK, c, e, Free
        <5>2. ASSUME NEW q \in DirPlaces(e.start) PROVE slot'[q] = Empty
          <6>1. q # p
            BY <1>4, <1>34, <5>1, Apart
          <6> QED BY <1>1, <1>7, <4>1, <6>1 DEF BareOK, DirPlaces, c, e
        <5>3. \A q \in DirPlaces(call[t].entry.start)' : slot'[q] = Empty
          BY <1>5, <3>1, <5>2 DEF DirPlaces
        <5>4. Now(t)' = "dot" /\ \A q \in DirPlaces(call[t].entry.start)' : q \notin Standing'
          BY <1>13, <2>2, <4>1, <5>3, NamesAre DEF Standing
        <5> QED BY <3>1, <5>3, <5>4 DEF BareOK
      <4>2. CASE c.op # "mkdir"
        BY <1>3, <1>13, <2>2, <3>1, <4>2 DEF BareOK
      <4> QED BY <4>1, <4>2
    <3>9. FreshOK(t)'
      BY <3>1, <3>2 DEF FreshOK
    <3> QED BY <3>3, <3>4, <3>5, <3>6, <3>7, <3>8, <3>9 DEF CallInv
  <2> QED BY <2>1, <2>2
<1> QED BY <1>19, <1>20, <1>21, <1>22, <1>23, <1>24, <1>25, <1>26, <1>27, <1>28, <1>29, <1>30, <1>31, <1>32 DEF TreeBody

(***************************************************************************)
(* Steps that leave the names alone                                        *)
(***************************************************************************)
NamesStay ==
    /\ old_root' = old_root /\ Standing' = Standing
    /\ \A p \in Standing : slot'[p] = slot[p]
    /\ \A d \in LiveDirs : \A p \in Standing : p \in DirPlaces(d)' <=> p \in DirPlaces(d)

\* When the names stay, so do the directories and what the names lead to.
LEMMA NamesStayMost ==
    ASSUME TreeBody, NamesStay, home' = home, cut' = cut
    PROVE  /\ LiveDirs' = LiveDirs /\ Heads' = Heads /\ Root' = Root
           /\ StandingOK' /\ NamesOK' /\ HomeOK' /\ Ranked'
<1>1. /\ Standing' = Standing /\ \A p \in Standing : slot'[p] = slot[p] /\ p \in Place
      /\ \A d \in LiveDirs : \A p \in Standing : p \in DirPlaces(d)' <=> p \in DirPlaces(d)
  BY DEF NamesStay, Standing
<1>2. StandingOK /\ NamesOK /\ CutOK /\ HomeOK /\ Ranked
  BY DEF TreeBody
<1>3. Root' = Root
  BY DEF Root, NamesStay
<1>4. LiveDirs' = LiveDirs /\ Heads' = Heads
  BY <1>1, <1>3 DEF LiveDirs, Heads
<1>5. StandingOK'
  BY <1>1, <1>2, <1>3, <1>4 DEF StandingOK
<1>6. NamesOK'
  BY <1>1, <1>2, <1>4 DEF NamesOK
<1>8. HomeOK'
  <2> SUFFICES ASSUME NEW o \in Object, home[o] # Nowhere
               PROVE  /\ home[o][1] \in LiveDirs
                      /\ \E q \in Standing : q \in DirPlaces(home[o][1])' /\ slot'[q].obj = o
                            /\ (slot'[q].name = home[o][2] \/ (o \in cut /\ slot'[q].name = "cut"))
    BY <1>1, <1>4 DEF HomeOK
  <2>1. home[o][1] \in LiveDirs
    BY <1>2 DEF HomeOK
  <2>2. PICK q \in DirPlaces(home[o][1]) : q \in Standing /\ slot[q].obj = o
                            /\ (slot[q].name = home[o][2] \/ (o \in cut /\ slot[q].name = "cut"))
    BY <1>2 DEF HomeOK
  <2> DEFINE d == home[o][1]
  <2>3. \A x : x = d => DirPlaces(x)' = DirPlaces(d)'
    BY DEF DirPlaces
  <2> QED BY <1>1, <2>1, <2>2
<1>9. Ranked'
  <2>1. PICK rank \in [Cluster \union {0} -> Nat] : RankedBy(rank)
    BY <1>2 DEF Ranked
  <2>2. RankedBy(rank)'
    BY <1>1, <1>4, <2>1 DEF RankedBy
  <2> QED BY <2>2 DEF Ranked
<1> QED BY <1>3, <1>4, <1>5, <1>6, <1>8, <1>9

\* The names that were cut are still where they may be cut when "." and ".." stay.
LEMMA NamesStayKeeps ==
    ASSUME TreeBody, NamesStay, home' = home, cut' = cut,
           \A p \in Place : IsDots(slot[p]) => IsDots(slot'[p])
    PROVE  /\ LiveDirs' = LiveDirs /\ Heads' = Heads /\ Root' = Root
           /\ StandingOK' /\ NamesOK' /\ CutOK' /\ HomeOK' /\ Ranked'
<1>1. /\ Standing' = Standing /\ \A p \in Standing : slot'[p] = slot[p] /\ p \in Place
      /\ \A d \in LiveDirs : \A p \in Standing : p \in DirPlaces(d)' <=> p \in DirPlaces(d)
  BY DEF NamesStay, Standing
<1>2. CutOK
  BY DEF TreeBody
<1>4. LiveDirs' = LiveDirs
  BY NamesStayMost
<1>7. CutOK'
  <2>1. ASSUME NEW d \in LiveDirs, NEW q \in DirPlaces(d)', slot'[q].name = "cut"
        PROVE  q = <<d, 2>> \/ (q = <<d, 3>> /\ IsDots(slot'[<<d, 2>>]))
    <3>1. q \in Place /\ q \in Standing'
      BY <2>1 DEF DirPlaces, Standing
    <3>2. q \in DirPlaces(d) /\ slot[q].name = "cut"
      BY <1>1, <2>1, <3>1
    <3>3. q = <<d, 3>> => <<d, 2>> \in Place
      BY <3>1, PlaceBefore
    <3> QED BY <1>2, <3>2, <3>3 DEF CutOK
  <2> QED BY <1>4, <2>1 DEF CutOK, IsDots
<1> QED BY <1>7, NamesStayMost

\* When the names stay, they share clusters as before.
LEMMA OwnersStay ==
    ASSUME TreeBody, NamesStay, twice \subseteq twice',
           \A t \in Thread : call[t].op = "rename" /\ Written(t) =>
              \/ call'[t].op = "rename" /\ Written(t)' /\ call'[t].old = call[t].old /\ call'[t].new = call[t].new
              \/ call[t].entry.obj \in twice'
    PROVE  OwnersOK'
<1>1. Standing' = Standing /\ \A p \in Standing : slot'[p] = slot[p]
  BY DEF NamesStay
<1>2. ASSUME NEW p \in Standing, NEW q \in Standing, p # q, slot[p].obj = slot[q].obj
      PROVE  \/ slot[p].obj \in twice'
             \/ \E t \in Thread : call'[t].op = "rename" /\ Written(t)' /\ {p, q} = {call'[t].old, call'[t].new}
  <2>1. CASE slot[p].obj \in twice
    BY <2>1
  <2>2. ASSUME NEW t \in Thread, call[t].op = "rename", Written(t), {p, q} = {call[t].old, call[t].new}
        PROVE  \/ slot[p].obj \in twice'
               \/ \E u \in Thread : call'[u].op = "rename" /\ Written(u)' /\ {p, q} = {call'[u].old, call'[u].new}
    <3>1. CASE call[t].entry.obj \in twice'
      <4>1. slot[call[t].new].obj = call[t].entry.obj
        <5>1. NewOK(t) /\ PlanOK(t)
          BY DEF TreeBody, CallInv
        <5>2. Now(t) # "store"
          BY <2>2, <5>1, NoCallIs DEF PlanOK, InPlan, Renames, Now
        <5> QED BY <2>2, <5>1, <5>2 DEF NewOK
      <4> QED BY <1>2, <2>2, <3>1, <4>1
    <3>2. CASE call[t].entry.obj \notin twice'
      BY <2>2, <3>2
    <3> QED BY <3>1, <3>2
  <2> QED BY <1>2, <2>1, <2>2 DEF TreeBody, OwnersOK
<1> QED BY <1>1, <1>2 DEF OwnersOK, Same, TreeBody

\* When the names and each ".." stay, ".." still leads up.
LEMMA DotsStay ==
    ASSUME TreeBody, NamesStay, moved' = moved, twice \subseteq twice',
           \A p \in Standing : slot[p].dir =>
              \A q \in DirPlaces(slot[p].start)' : slot'[q].name = ".." => q \in DirPlaces(slot[p].start) /\ slot'[q] = slot[q],
           \A t \in Thread : call[t].op = "rename" /\ Written(t) =>
              (call'[t].op = "rename" /\ call'[t].new = call[t].new) \/ call[t].entry.obj \in twice'
    PROVE  DotsOK'
<1>1. /\ Standing' = Standing /\ \A p \in Standing : slot'[p] = slot[p] /\ p \in Place
      /\ \A p : ParentCluster(p)' = ParentCluster(p)
  BY DEF NamesStay, Standing, ParentCluster, Root
<1>2. ASSUME NEW p \in Standing, slot[p].obj \notin twice',
             NEW t \in Thread, call[t].op = "rename", call[t].new = p
      PROVE  call'[t].op = "rename" /\ call'[t].new = p
  <2>1. PlanOK(t) /\ NewOK(t)
    BY DEF TreeBody, CallInv
  <2>2. Written(t)
    BY <1>1, <1>2, <2>1, NoPlaceIsNone DEF PlanOK
  <2>3. Now(t) # "store"
    BY <1>2, <2>1, <2>2, NoCallIs DEF PlanOK, InPlan, Renames, Now
  <2>4. slot[p] = call[t].entry
    BY <1>2, <2>1, <2>2, <2>3 DEF NewOK
  <2> QED BY <1>2, <2>2, <2>4
<1> SUFFICES ASSUME NEW p \in Standing, slot[p].dir, slot[p].obj \notin moved, slot[p].obj \notin twice',
                    \A t \in Thread : call'[t].op = "rename" => call'[t].new # p,
                    NEW q \in DirPlaces(slot[p].start)', slot'[q].name = ".."
             PROVE  slot'[q].start = ParentCluster(p)'
  BY <1>1 DEF DotsOK
<1>3. q \in DirPlaces(slot[p].start) /\ slot'[q] = slot[q]
  OBVIOUS
<1>4. \A t \in Thread : call[t].op = "rename" => call[t].new # p
  BY <1>2
<1>5. slot[q].start = ParentCluster(p)
  BY <1>3, <1>4 DEF DotsOK, TreeBody
<1> QED BY <1>1, <1>3, <1>5

(***************************************************************************)
(* Steps that leave the volume alone                                       *)
(***************************************************************************)
LEMMA VolumeStays ==
    ASSUME TreeBody, UNCHANGED <<volume, home, moved, cut>>, ShapeOK', twice \subseteq twice',
           (leaky' = leaky /\ Roots' = Roots) \/ (leaky' = TRUE /\ Roots' \subseteq Roots),
           \A t \in Thread : call[t].op = "rename" /\ Written(t) =>
              \/ call'[t].op = "rename" /\ Written(t)' /\ call'[t].old = call[t].old /\ call'[t].new = call[t].new
              \/ call[t].entry.obj \in twice',
           \A t \in Thread : call[t].fresh # 0 => call'[t].fresh = call[t].fresh,
           CallsApart', HeldLoose', \A t \in Thread : CallInv(t)'
    PROVE  TreeBody'
<1>1. /\ old_root' = old_root /\ link' = link /\ slot' = slot /\ home' = home /\ moved' = moved /\ cut' = cut
      /\ \A d : DirPlaces(d)' = DirPlaces(d)
  BY DEF volume, DirPlaces
<1>2. NamesStay
  <2>1. Standing' = Standing
    BY <1>1 DEF Standing
  <2> QED BY <1>1, <2>1 DEF NamesStay
<1>3. /\ LiveDirs' = LiveDirs /\ Heads' = Heads /\ Root' = Root
      /\ StandingOK' /\ NamesOK' /\ CutOK' /\ HomeOK' /\ Ranked'
  <2>1. \A p \in Place : IsDots(slot[p]) => IsDots(slot'[p])
    BY <1>1
  <2> QED BY <1>1, <1>2, <2>1, NamesStayKeeps
<1>4. OwnersOK'
  BY <1>2, OwnersStay
<1>5. DotsOK'
  <2>1. \A p \in Standing : DirPlaces(slot[p].start)' = DirPlaces(slot[p].start)
    BY <1>1
  <2>2. \A p \in Standing : slot[p].dir =>
           \A q \in DirPlaces(slot[p].start)' : slot'[q].name = ".." => q \in DirPlaces(slot[p].start) /\ slot'[q] = slot[q]
    BY <1>1, <2>1
  <2> QED BY <1>1, <1>2, <2>2, DotsStay
<1>6. CleanOK'
  <2>1. CleanOK
    BY DEF TreeBody
  <2>2. Roots' \subseteq Roots
    OBVIOUS
  <2>3. ASSUME NEW d \in LiveDirs', NEW q \in DirPlaces(d), slot[q] = Old
        PROVE  \E u \in Thread : call'[u].fresh # 0 /\ call'[u].fresh = q[1]
    BY <1>3, <2>1, <2>3 DEF CleanOK
  <2> QED BY <1>1, <2>1, <2>2, <2>3 DEF CleanOK
<1>7. WellFormed(link, Roots)'
  <2>1. WellFormed(link, Roots') /\ link' = link
    BY <1>1, FewerHeads DEF TreeBody
  <2> QED BY <2>1
<1>8. NoLeak'
  BY <1>1 DEF TreeBody, NoLeak
<1> QED BY <1>3, <1>4, <1>5, <1>6, <1>7, <1>8 DEF TreeBody

(***************************************************************************)
(* Calls that stop                                                         *)
(***************************************************************************)

\* A call that is over, or goes on about the same with no more in its hands, stays
\* apart from the others.
LEMMA ApartStays ==
    ASSUME TreeBody, NEW t \in Thread, \A u \in Thread : u # t => call'[u] = call[u],
           Busy(t)' => /\ Busy(t) /\ call'[t].uses \subseteq call[t].uses
                       /\ call'[t].entry.obj = call[t].entry.obj,
           Holding(t)' => Holding(t) /\ Busy(t)' /\ call'[t].entry.start = call[t].entry.start,
           Heads' \subseteq Heads
    PROVE  CallsApart' /\ HeldLoose'
<1>1. CallsApart /\ HeldLoose
  BY DEF TreeBody
<1>2. ASSUME NEW u \in Thread, u # t
      PROVE  (Holding(u))' = Holding(u) /\ (Busy(u))' = Busy(u) /\ call'[u] = call[u]
  BY <1>2 DEF Holding, Now, Busy
<1>3. HeldLoose'
  BY <1>1, <1>2 DEF HeldLoose
<1>4. ASSUME NEW u \in Thread, u # t, Busy(u), Busy(t)'
      PROVE  /\ call'[t].uses \intersect call[u].uses = {}
             /\ call'[t].entry.obj # call[u].entry.obj
             /\ Holding(t)' /\ Holding(u) => call'[t].entry.start # call[u].entry.start
  BY <1>1, <1>4 DEF CallsApart
<1>5. ASSUME NEW u \in Thread, NEW v \in Thread, u # v, u # t, v # t, Busy(u), Busy(v)
      PROVE  /\ call[u].uses \intersect call[v].uses = {}
             /\ call[u].entry.obj # call[v].entry.obj
             /\ Holding(u) /\ Holding(v) => call[u].entry.start # call[v].entry.start
  BY <1>1, <1>5 DEF CallsApart
<1> QED BY <1>2, <1>3, <1>4, <1>5 DEF CallsApart

\* What is left of a call that stops.
Stopped(t) ==
    \/ call'[t] = NoCall
    \/ /\ call[t].op = "mkdir" /\ Now(t) \in {"clean", "clear", "enter"}
       /\ call'[t] = [call[t] EXCEPT !.op = "undo", !.todo = <<"free">>, !.fresh = 0]
    \/ /\ call[t].op = "mkdir" /\ Now(t) \in {"dot", "dotdot"}
       /\ call'[t] = [call[t] EXCEPT !.op = "undo", !.todo = <<"erase", "free">>, !.old = call[t].new, !.fresh = 0]

\* The call that is left holds nothing it did not hold.
LEMMA StoppedIs ==
    ASSUME TreeBody, NEW t \in Thread, Busy(t), Stopped(t)
    PROVE  /\ call'[t] \in CallType
           /\ Busy(t)' => /\ call'[t].uses = call[t].uses /\ call'[t].entry = call[t].entry
                          /\ call'[t].in = call[t].in /\ call'[t].new = call[t].new
                          /\ call'[t].op = "undo" /\ call[t].op = "mkdir"
           /\ call'[t].fresh = 0
           /\ Holding(t)' => Holding(t) /\ Busy(t)' /\ Now(t)' = "free" /\ call'[t].todo = <<"free">>
           /\ Holding(t) /\ Now(t) \notin {"store", "free"} => Holding(t)' \/ call'[t] = NoCall
           /\ Busy(t)' /\ ~(Holding(t)') =>
                 /\ Now(t) \in {"dot", "dotdot"} /\ Now(t)' = "erase"
                 /\ call'[t].todo = <<"erase", "free">> /\ call'[t].old = call[t].new
<1> DEFINE c == call[t]
<1>1. c \in CallType /\ PlanOK(t) /\ InPlan(c)
  BY NoCallIs DEF TreeBody, ShapeOK, CallInv, PlanOK, Busy
<1> HIDE DEF c
<1>2. CASE call'[t] = NoCall
  BY <1>1, <1>2, IdleInv, NoCallIs
<1>3. ASSUME call'[t] = [c EXCEPT !.op = "undo", !.todo = <<"free">>, !.fresh = 0], c.op = "mkdir",
             Now(t) \in {"clean", "clear", "enter"}
      PROVE  /\ call'[t] \in CallType /\ call'[t].uses = c.uses /\ call'[t].entry = c.entry
             /\ call'[t].in = c.in /\ call'[t].new = c.new /\ call'[t].op = "undo"
             /\ call'[t].fresh = 0 /\ Now(t)' = "free" /\ Holding(t)' /\ Busy(t)' /\ call'[t].todo = <<"free">>
             /\ Holding(t)
  <2>1. <<"free">> \in Todos /\ "undo" \in Ops
    BY DEF Todos, Deletes, Ops
  <2>2. /\ call'[t] \in CallType /\ call'[t].uses = c.uses /\ call'[t].entry = c.entry
        /\ call'[t].in = c.in /\ call'[t].new = c.new /\ call'[t].op = "undo"
        /\ call'[t].fresh = 0 /\ call'[t].todo = <<"free">>
    BY <1>1, <1>3, <2>1 DEF CallType
  <2>3. Now(t)' = "free" /\ Holding(t)' /\ Busy(t)'
    BY <2>2 DEF Now, Holding, Busy
  <2> QED BY <1>3, <2>2, <2>3 DEF Holding, c
<1>4. ASSUME call'[t] = [c EXCEPT !.op = "undo", !.todo = <<"erase", "free">>, !.old = c.new, !.fresh = 0],
             c.op = "mkdir", Now(t) \in {"dot", "dotdot"}
      PROVE  /\ call'[t] \in CallType /\ call'[t].uses = c.uses /\ call'[t].entry = c.entry
             /\ call'[t].in = c.in /\ call'[t].new = c.new /\ call'[t].op = "undo"
             /\ call'[t].fresh = 0 /\ Now(t)' = "erase" /\ ~(Holding(t)') /\ Busy(t)'
             /\ call'[t].todo = <<"erase", "free">> /\ call'[t].old = c.new /\ ~Holding(t)
  <2>1. <<"erase", "free">> \in Todos /\ "undo" \in Ops
    BY DEF Todos, Deletes, Ops
  <2>2. /\ call'[t] \in CallType /\ call'[t].uses = c.uses /\ call'[t].entry = c.entry
        /\ call'[t].in = c.in /\ call'[t].new = c.new /\ call'[t].op = "undo"
        /\ call'[t].fresh = 0 /\ call'[t].todo = <<"erase", "free">> /\ call'[t].old = c.new
    BY <1>1, <1>4, <2>1 DEF CallType
  <2>3. Now(t)' = "erase"
    BY <2>2 DEF Now
  <2> QED BY <1>4, <2>2, <2>3 DEF Holding, Busy, c
<1> QED BY <1>2, <1>3, <1>4 DEF Stopped, c

\* What the invariant says of it.
LEMMA StoppedInv ==
    ASSUME TreeBody, NEW t \in Thread, Busy(t), Stopped(t), NamesStay, LiveDirs' = LiveDirs,
           \A d : d = call[t].entry.start => DirPlaces(d)' = DirPlaces(d)
    PROVE  CallInv(t)'
<1> DEFINE c == call[t]
<1>1. c \in CallType /\ PlanOK(t) /\ CallOK(t) /\ NewOK(t) /\ OnlyOK(t) /\ BareOK(t)
  BY DEF TreeBody, ShapeOK, CallInv
<1>2. CASE call'[t] = NoCall
  BY <1>2, IdleInv
<1>3. CASE call'[t] # NoCall
  <2>1. /\ Busy(t)' /\ call'[t].uses = c.uses /\ call'[t].entry = c.entry /\ call'[t].fresh = 0
        /\ call'[t].in = c.in /\ call'[t].new = c.new /\ call'[t].op = "undo" /\ c.op = "mkdir"
        /\ \/ Holding(t) /\ Holding(t)' /\ Now(t)' = "free" /\ call'[t].todo = <<"free">>
           \/ /\ ~(Holding(t)') /\ Now(t) \in {"dot", "dotdot"} /\ Now(t)' = "erase"
              /\ call'[t].todo = <<"erase", "free">> /\ call'[t].old = c.new
    <3>1. call'[t].op # "none"
      BY <1>1, <1>3, NoCallIs DEF Stopped, CallType
    <3> QED BY <3>1, StoppedIs DEF Busy
  <2>2. c.entry.start \in Cluster /\ c.entry.dir /\ c.entry.start # 0
    <3>1. Now(t) # "alloc"
      BY <1>1, <2>1 DEF Holding
    <3> QED BY <1>1, <2>1, <3>1, MarksAreNotClusters DEF CallOK, Free
  <2>3. Now(t) \in {"dot", "dotdot"} => Written(t) /\ ~Holding(t)
    BY <2>1 DEF Written, Holding
  <2>4. PlanOK(t)'
    BY <2>1 DEF PlanOK, InPlan, Deletes
  <2>5. CallOK(t)'
    BY <1>1, <2>1, <2>2, <2>3 DEF CallOK
  <2>6. NewOK(t)'
    <3>1. ~(Written(t)')
      BY <2>1 DEF Written
    <3> QED BY <2>1, <3>1 DEF NewOK
  <2>7. OldOK(t)'
    <3> SUFFICES ASSUME Now(t)' = "erase"
                 PROVE  /\ c.new \in Standing' /\ \E d \in c.uses : d \in LiveDirs' /\ c.new \in DirPlaces(d)'
                        /\ Same(slot'[c.new], c.entry)
      BY <2>1 DEF OldOK, HasOld, Same
    <3>1. c.new \in Standing /\ c.new \in DirPlaces(c.in) /\ slot[c.new] = c.entry /\ c.in \in c.uses /\ c.in \in LiveDirs
      BY <1>1, <2>1, <2>3 DEF NewOK, CallOK
    <3>2. \A d \in LiveDirs : c.new \in DirPlaces(d) => c.new \in DirPlaces(d)'
      BY <3>1 DEF NamesStay
    <3>3. c.new \in Standing' /\ slot'[c.new] = slot[c.new]
      BY <3>1 DEF NamesStay
    <3>4. \E d \in c.uses : d \in LiveDirs' /\ c.new \in DirPlaces(d)'
      <4>1. PICK d \in c.uses : d = c.in
        BY <3>1
      <4> QED BY <3>1, <3>2, <4>1
    <3> QED BY <3>1, <3>3, <3>4 DEF Same
  <2>8. OnlyOK(t)'
    <3>1. \A p \in Standing : slot[p].obj = c.entry.obj => p = c.new /\ p \in Place
      BY <1>1, <2>1, NoPlaceIsNone DEF OnlyOK, PlanOK, Standing
    <3>2. Now(t)' = "free" => c.new = NoPlace
      <4>1. InPlan(c)
        BY <1>1, <2>1, NoCallIs DEF PlanOK
      <4>2. Now(t) \notin {"store", "free"}
        BY <2>1, <4>1 DEF InPlan, Mkdirs, Now
      <4> QED BY <1>1, <2>1, <4>2 DEF PlanOK, Written, Holding
    <3>3. Standing' = Standing /\ \A p \in Standing : slot'[p] = slot[p]
      BY DEF NamesStay
    <3> QED BY <2>1, <3>1, <3>2, <3>3, NoPlaceIsNone DEF OnlyOK
  <2>9. BareOK(t)'
    <3>1. Standing' = Standing
      BY DEF NamesStay
    <3>2. \A p \in DirPlaces(c.entry.start) : p \notin Standing'
      BY <1>1, <2>1, <2>2, <3>1 DEF BareOK
    <3>3. DirPlaces(call[t].entry.start)' = DirPlaces(c.entry.start)
      BY <2>1 DEF DirPlaces
    <3> QED BY <2>1, <3>2, <3>3 DEF BareOK
  <2>10. FreshOK(t)'
    BY <2>1 DEF FreshOK
  <2> QED BY <2>4, <2>5, <2>6, <2>7, <2>8, <2>9, <2>10 DEF CallInv
<1> QED BY <1>2, <1>3

\* A call that stops before it has changed anything more.
LEMMA StopKeeps ==
    ASSUME TreeBody, NEW t \in Thread, Busy(t), Stopped(t), Now(t) # "clear",
           call' \in [Thread -> CallType], \A u \in Thread : u # t => call'[u] = call[u],
           UNCHANGED <<volume, home, moved, cut>>,
           faults' \in Nat, twice \subseteq twice', twice' \subseteq Object,
           call[t].op = "rename" /\ Written(t) => call[t].entry.obj \in twice',
           (leaky' = leaky /\ (Holding(t) => Now(t) \notin {"store", "free"})) \/ leaky' = TRUE,
           Holding(t) /\ Now(t) \notin {"store", "free"} => Holding(t)'
    PROVE  TreeBody'
<1>1. /\ old_root' = old_root /\ link' = link /\ slot' = slot /\ home' = home /\ moved' = moved /\ cut' = cut
      /\ \A d : DirPlaces(d)' = DirPlaces(d)
  BY DEF volume, DirPlaces
<1>2. Standing' = Standing /\ LiveDirs' = LiveDirs /\ Heads' = Heads /\ NamesStay
  <2>1. Standing' = Standing
    BY <1>1 DEF Standing
  <2>2. Root' = Root
    BY <1>1 DEF Root
  <2> QED BY <1>1, <2>1, <2>2 DEF LiveDirs, Heads, NamesStay
<1>3. ShapeOK'
  <2>1. leaky' \in BOOLEAN
    BY DEF TreeBody, ShapeOK
  <2> QED BY <1>1, <2>1 DEF TreeBody, ShapeOK
<1>4. CallsApart' /\ HeldLoose'
  BY <1>2, StoppedIs, ApartStays
<1>5. ASSUME NEW u \in Thread, u # t
      PROVE  (Holding(u))' = Holding(u) /\ (Written(u))' = Written(u)
  BY <1>5 DEF Holding, Written, Now
<1>6. (leaky' = leaky /\ Roots' = Roots) \/ (leaky' = TRUE /\ Roots' \subseteq Roots)
  <2>1. Holding(t)' => Holding(t) /\ call'[t].entry.start = call[t].entry.start
    BY StoppedIs
  <2>2. Roots' \subseteq Roots
    BY <1>2, <1>5, <2>1 DEF Roots
  <2>3. CASE leaky' = leaky /\ (Holding(t) => Now(t) \notin {"store", "free"})
    <3>1. Holding(t)' <=> Holding(t)
      BY <2>1, <2>3
    <3> QED BY <1>2, <1>5, <2>1, <2>2, <2>3, <3>1 DEF Roots
  <2> QED BY <2>2, <2>3
<1>7. ASSUME NEW u \in Thread PROVE CallInv(u)'
  <2>1. CASE u = t
    BY <1>1, <1>2, <2>1, StoppedInv
  <2>2. CASE u # t
    <3>1. Spared(u)
      BY <1>1, <1>2, <2>2 DEF Spared
    <3> QED BY <1>1, <3>1, SparedKeeps
  <2> QED BY <2>1, <2>2
<1>8. \A u \in Thread : call[u].fresh # 0 => call'[u].fresh = call[u].fresh
  <2>1. call[t].fresh = 0
    BY DEF TreeBody, CallInv, PlanOK
  <2> QED BY <2>1
<1>9. \A u \in Thread : call[u].op = "rename" /\ Written(u) =>
          \/ call'[u].op = "rename" /\ Written(u)' /\ call'[u].old = call[u].old /\ call'[u].new = call[u].new
          \/ call[u].entry.obj \in twice'
  BY <1>5
<1> QED BY <1>1, <1>3, <1>4, <1>6, <1>7, <1>8, <1>9, VolumeStays

\* A call without a cluster to clear.
LEMMA Unfresh == ASSUME NEW x \in CallType, x.fresh = 0 PROVE [x EXCEPT !.fresh = 0] = x
  BY DEF CallType

\* What RolledBack leaves is a call.
LEMMA RolledBackType ==
    ASSUME NEW c \in CallType, c.fresh = 0
    PROVE  RolledBack(c) \in CallType /\ RolledBack(c).fresh = 0
<1>1. "undo" \in Ops /\ <<"free">> \in Todos /\ <<"erase", "free">> \in Todos
  BY DEF Ops, Todos, Deletes
<1>2. RolledBack(c) \in {NoCall, [c EXCEPT !.op = "undo", !.todo = <<"free">>],
                        [c EXCEPT !.op = "undo", !.todo = <<"erase", "free">>, !.old = c.new]}
  BY DEF RolledBack
<1>3. [c EXCEPT !.op = "undo", !.todo = <<"free">>] \in CallType
      /\ [c EXCEPT !.op = "undo", !.todo = <<"free">>].fresh = 0
  BY <1>1 DEF CallType
<1>4. [c EXCEPT !.op = "undo", !.todo = <<"erase", "free">>, !.old = c.new] \in CallType
      /\ [c EXCEPT !.op = "undo", !.todo = <<"erase", "free">>, !.old = c.new].fresh = 0
  BY <1>1 DEF CallType
<1> QED BY <1>2, <1>3, <1>4, NoCallIs

\* What RolledBack leaves.
LEMMA RolledBackIs ==
    ASSUME TreeBody, NEW t \in Thread, Busy(t), call'[t] = [RolledBack(call[t]) EXCEPT !.fresh = 0]
    PROVE  Stopped(t) /\ (Holding(t) => Now(t) \in {"store", "free"} \/ Holding(t)')
<1> DEFINE c == call[t]
<1>1. c \in CallType /\ InPlan(c) /\ c.todo # <<>>
  <2>1. c \in CallType /\ InPlan(c)
    BY NoCallIs DEF TreeBody, ShapeOK, CallInv, PlanOK, Busy
  <2> QED BY <2>1, AdvanceIs
<1>2. Now(t) = Head(c.todo)
  BY <1>1 DEF Now
<1>3. [NoCall EXCEPT !.fresh = 0] = NoCall
  BY NoCallIs, Unfresh
<1>4. CASE c.op = "mkdir" /\ Head(c.todo) \in {"clean", "clear", "enter"}
  <2>1. RolledBack(c) = [c EXCEPT !.op = "undo", !.todo = <<"free">>]
    BY <1>4 DEF RolledBack
  <2>2. call'[t] = [c EXCEPT !.op = "undo", !.todo = <<"free">>, !.fresh = 0]
    BY <2>1 DEF c
  <2>3. Holding(t)'
    <3>1. call'[t].todo = <<"free">>
      BY <1>1, <2>2 DEF CallType
    <3> QED BY <3>1, SMTT(30) DEF Holding, Now
  <2> QED BY <1>2, <1>4, <2>2, <2>3 DEF Stopped
<1>5. CASE c.op = "mkdir" /\ Head(c.todo) \in {"dot", "dotdot"} /\ c.new[1] # 0
  <2>1. RolledBack(c) = [c EXCEPT !.op = "undo", !.todo = <<"erase", "free">>, !.old = c.new]
    BY <1>5 DEF RolledBack
  <2>2. call'[t] = [c EXCEPT !.op = "undo", !.todo = <<"erase", "free">>, !.old = c.new, !.fresh = 0]
    BY <2>1 DEF c
  <2> QED BY <1>2, <1>5, <2>2 DEF Stopped, Holding
<1>6. CASE ~(c.op = "mkdir" /\ Head(c.todo) \in {"clean", "clear", "enter"})
           /\ ~(c.op = "mkdir" /\ Head(c.todo) \in {"dot", "dotdot"} /\ c.new[1] # 0)
  <2>1. RolledBack(c) = NoCall
    BY <1>6 DEF RolledBack
  <2> QED BY <1>2, <1>3, <1>6, <2>1 DEF Stopped, Holding
<1> QED BY <1>4, <1>5, <1>6

\* A call that fails without damage is rolled back as far as it can be.
LEMMA FailsIs ==
    ASSUME NEW t \in Thread, Fails(t), damage' = {}
    PROVE  call' = [call EXCEPT ![t] = [RolledBack(call[t]) EXCEPT !.fresh = 0]] /\ damage' = damage
<1>1. CASE Goes(t, [RolledBack(call[t]) EXCEPT !.fresh = 0]) /\ damage' = damage
  BY <1>1 DEF Goes
<1>2. damage' # damage \union {"an entry of another cluster is deleted"}
  OBVIOUS
<1> QED BY <1>1, <1>2 DEF Fails

\* A call never stops for want of space where it has anything to lose: with no
\* cluster in its hands but the one it gives back, and with no second name.
LEMMA NoSpaceKeeps ==
    ASSUME TreeBody, NEW t \in Thread, NoSpace(t), damage' = {}
    PROVE  TreeBody'
<1> DEFINE c == call[t]
<1>1. Doing(t, {"alloc", "take", "enter", "dot", "dotdot"})
  BY DEF NoSpace, Doing, Entering
<1>2. Now(t) \in {"alloc", "take", "enter", "dot", "dotdot"} /\ Busy(t) /\ InPlan(c) /\ c \in CallType /\ PlanOK(t)
  BY <1>1, StepIs
<1>3. c.fresh = 0
  BY <1>2 DEF PlanOK
<1>4. call' = [call EXCEPT ![t] = RolledBack(c)] /\ RolledBack(c) = [RolledBack(c) EXCEPT !.fresh = 0]
  <2>1. RolledBack(c) = [RolledBack(c) EXCEPT !.fresh = 0]
    BY <1>2, <1>3, RolledBackType, Unfresh
  <2> QED BY <2>1, FailsIs DEF NoSpace
<1>5. call \in [Thread -> CallType]
  BY DEF TreeBody, ShapeOK
<1>6. call'[t] = [RolledBack(c) EXCEPT !.fresh = 0] /\ \A u \in Thread : u # t => call'[u] = call[u]
  BY <1>4, <1>5
<1>7. Stopped(t) /\ (Holding(t) => Holding(t)')
  BY <1>2, <1>6, RolledBackIs
<1>8. call' \in [Thread -> CallType]
  <2>1. call'[t] \in CallType
    BY <1>2, <1>7, StoppedIs
  <2> QED BY <1>4, <1>5, <2>1
<1>9. c.op = "rename" => ~Written(t)
  <2>1. CASE c.op = "rename"
    <3>1. Now(t) \notin {"take", "dot", "dotdot", "alloc"}
      BY <1>2, <2>1 DEF InPlan, Renames, Now
    <3> QED BY <1>2, <3>1 DEF Written
  <2> QED BY <2>1
<1>10. Now(t) \notin {"store", "free", "clear"}
  BY <1>2
<1>12. UNCHANGED <<volume, home, moved, cut, twice, leaky, faults>> /\ faults \in Nat /\ twice \subseteq Object
  BY DEF NoSpace, TreeBody, ShapeOK
<1> QED BY <1>2, <1>6, <1>7, <1>8, <1>9, <1>10, <1>12, StopKeeps

\* A failing access, but for one that leaves a cluster linked and not cleared.
LEMMA IoErrorKeeps ==
    ASSUME TreeBody, NEW t \in Thread, IoError(t), ~Doing(t, {"clear"}), damage' = {}
    PROVE  TreeBody'
<1> DEFINE c == call[t]
<1>1. PlanOK(t) /\ c \in CallType /\ c # NoCall /\ call \in [Thread -> CallType] /\ CallOK(t)
  BY DEF IoError, TreeBody, CallInv, ShapeOK
<1>2. InPlan(c) /\ Busy(t) /\ c.todo # <<>>
  <2>1. InPlan(c) /\ Busy(t)
    BY <1>1 DEF PlanOK, InPlan, Busy
  <2> QED BY <1>1, <2>1, AdvanceIs
<1>3. Now(t) = Head(c.todo) /\ Now(t) # "clear"
  BY <1>2 DEF Doing, Now
<1>4. call' = [call EXCEPT ![t] = [RolledBack(c) EXCEPT !.fresh = 0]]
      /\ link' = link /\ slot' = slot /\ faults' \in Nat
      /\ leaky' = (leaky \/ Leaks(c)) /\ twice' = twice \union Doubled(c)
      /\ UNCHANGED <<old_root, home, moved, cut, damage, calls>>
  BY FailsIs DEF IoError, Fault, TreeBody, ShapeOK
<1>5. call'[t] = [RolledBack(c) EXCEPT !.fresh = 0] /\ \A u \in Thread : u # t => call'[u] = call[u]
  BY <1>1, <1>4
<1>6. Stopped(t) /\ (Holding(t) => Now(t) \in {"store", "free"} \/ Holding(t)')
  BY <1>2, <1>5, RolledBackIs
<1>7. call' \in [Thread -> CallType]
  <2>1. call'[t] \in CallType
    BY <1>2, <1>6, StoppedIs
  <2> QED BY <1>1, <1>4, <2>1
<1>8. Doubled(c) \subseteq Object /\ (c.op = "rename" /\ Written(t) => c.entry.obj \in Doubled(c))
  <2>1. c.op = "rename" /\ Written(t) => Now(t) \in {"third", "erase"}
    BY <1>2 DEF Written, Now, InPlan, Renames
  <2>2. c.entry.obj \in Object
    BY <1>1, <1>2 DEF CallOK
  <2> QED BY <1>3, <2>1, <2>2 DEF Doubled
<1>9. (leaky' = leaky /\ (Holding(t) => Now(t) \notin {"store", "free"})) \/ leaky' = TRUE
  <2>1. leaky \in BOOLEAN /\ Leaks(c) \in BOOLEAN
    BY DEF TreeBody, ShapeOK, Leaks
  <2>2. Now(t) \in {"store", "free"} => Leaks(c)
    BY <1>3 DEF Leaks
  <2> QED BY <1>4, <2>1, <2>2
<1>10. twice \subseteq twice' /\ twice' \subseteq Object
  BY <1>4, <1>8 DEF TreeBody, ShapeOK
<1> QED BY <1>2, <1>3, <1>4, <1>5, <1>6, <1>7, <1>8, <1>9, <1>10, StopKeeps DEF volume

\* The machine stops: no call goes on.
LEMMA CrashKeeps ==
    ASSUME TreeBody, Crash, damage' = {}
    PROVE  TreeBody'
<1>1. /\ leaky' = TRUE /\ call' = [t \in Thread |-> NoCall]
      /\ twice' = twice \union UNION {Doubled(call[t]) : t \in {u \in Thread : call[u] # NoCall}}
      /\ UNCHANGED <<volume, home, moved, cut, calls>>
      /\ faults' = faults + 1
  BY DEF Crash, Fault
<1>2. /\ old_root' = old_root /\ link' = link /\ slot' = slot /\ home' = home /\ moved' = moved /\ cut' = cut
      /\ faults' \in Nat /\ UNCHANGED <<volume, home, moved, cut>>
  BY <1>1 DEF volume, TreeBody, ShapeOK
<1>a. \A t \in Thread : call[t].fresh = 0
  <2>1. damage' = damage \union (IF \E t \in Thread : call[t].fresh # 0
                                   THEN {"a cluster is linked and not cleared"} ELSE {})
    BY DEF Crash
  <2> QED BY <2>1
<1>3. ASSUME NEW t \in Thread
      PROVE  /\ CallInv(t)' /\ ~(Busy(t)') /\ ~(Holding(t)')
             /\ call[t] # NoCall => Doubled(call[t]) \subseteq Object
             /\ call[t].op = "rename" /\ Written(t) => call[t].entry.obj \in twice'
  <2>1. call'[t] = NoCall
    BY <1>1
  <2>2. PlanOK(t) /\ CallOK(t) /\ call[t] \in CallType
    BY DEF TreeBody, CallInv, ShapeOK
  <2>3. call[t] # NoCall => InPlan(call[t]) /\ Busy(t) /\ call[t].entry.obj \in Object
    BY <2>2 DEF PlanOK, InPlan, Busy, CallOK
  <2>4. ASSUME call[t].op = "rename", Written(t)
        PROVE  call[t] # NoCall /\ call[t].entry.obj \in Doubled(call[t])
    <3>1. call[t] # NoCall
      BY <2>4, NoCallIs
    <3>2. call[t].todo # <<>> /\ Now(t) \in {"third", "erase"}
      <4>1. call[t].todo # <<>>
        BY <2>2, <2>3, <3>1, AdvanceIs
      <4> QED BY <2>3, <2>4, <3>1, <4>1 DEF Written, Now, InPlan, Renames
    <3> QED BY <2>4, <3>1, <3>2 DEF Doubled, Now
  <2> QED BY <1>1, <2>1, <2>3, <2>4, IdleInv DEF Doubled
<1>4. twice \subseteq twice' /\ twice' \subseteq Object
  BY <1>1, <1>3 DEF TreeBody, ShapeOK
<1>5. CallsApart' /\ HeldLoose'
  BY <1>3 DEF CallsApart, HeldLoose
<1>6. Roots' \subseteq Roots
  <2>1. Heads' = Heads
    BY <1>2 DEF Heads, Standing, Root
  <2> QED BY <1>3, <2>1 DEF Roots
<1>7. ShapeOK'
  <2>1. call' \in [Thread -> CallType]
    BY <1>1, NoCallIs
  <2> QED BY <1>1, <1>2, <1>4, <2>1 DEF TreeBody, ShapeOK
<1>8. \A t \in Thread : call[t].fresh # 0 => call'[t].fresh = call[t].fresh
  BY <1>a
<1> QED BY <1>1, <1>2, <1>3, <1>4, <1>5, <1>6, <1>7, <1>8, VolumeStays

(***************************************************************************)
(* Steps that leave the names alone                                        *)
(***************************************************************************)

\* What such a step of thread t keeps.
LEMMA NamesStep ==
    ASSUME TreeBody, NEW t \in Thread, NamesStay, UNCHANGED <<home, moved, cut, twice>>,
           \A u \in Thread : u # t => call'[u] = call[u],
           ~(call[t].op = "rename" /\ Written(t)),
           \A p \in Place : IsDots(slot[p]) => IsDots(slot'[p])
    PROVE  /\ LiveDirs' = LiveDirs /\ Heads' = Heads /\ Root' = Root
           /\ StandingOK' /\ NamesOK' /\ CutOK' /\ HomeOK' /\ Ranked' /\ OwnersOK'
           /\ (\A p \in Standing : slot[p].dir =>
                 \A q \in DirPlaces(slot[p].start)' : slot'[q].name = ".." =>
                    q \in DirPlaces(slot[p].start) /\ slot'[q] = slot[q]) => DotsOK'
<1>1. ASSUME NEW u \in Thread, u # t
      PROVE  (Holding(u))' = Holding(u) /\ (Written(u))' = Written(u) /\ call'[u] = call[u]
  BY <1>1 DEF Holding, Written, Now
<1>2. \A u \in Thread : call[u].op = "rename" /\ Written(u) =>
         call'[u].op = "rename" /\ Written(u)' /\ call'[u].old = call[u].old /\ call'[u].new = call[u].new
  BY <1>1
<1>3. OwnersOK'
  BY <1>2, OwnersStay
<1> QED BY <1>2, <1>3, NamesStayKeeps, DotsStay

\* The call of thread t has one step less, and the others are as they were.
LEMMA Steps ==
    ASSUME TreeBody, NEW t \in Thread, NEW X, Doing(t, X), NEW c, call' = [call EXCEPT ![t] = c]
    PROVE  call'[t] = c /\ \A u \in Thread : u # t => call'[u] = call[u]
  BY DEF TreeBody, ShapeOK

\* The steps of mkdir in their order.
LEMMA MkdirStep ==
    ASSUME TreeBody, NEW t \in Thread, NEW X, Doing(t, X), X \subseteq {"alloc", "clean", "dot", "dotdot"}
    PROVE  /\ call[t].op = "mkdir"
           /\ \/ Now(t) = "alloc" /\ Advance(call[t]) = [call[t] EXCEPT !.todo = <<"clean", "enter", "dot", "dotdot">>]
              \/ Now(t) = "clean" /\ Advance(call[t]) = [call[t] EXCEPT !.todo = <<"enter", "dot", "dotdot">>]
              \/ Now(t) = "dot" /\ Advance(call[t]) = [call[t] EXCEPT !.todo = <<"dotdot">>]
              \/ Now(t) = "dotdot" /\ Advance(call[t]) = NoCall
<1> DEFINE c == call[t]
<1>1. Now(t) \in {"alloc", "clean", "dot", "dotdot"} /\ InPlan(c) /\ c \in CallType
  BY StepIs
<1>2. c.todo # <<>>
  BY <1>1, AdvanceIs
<1>3. c.op = "mkdir" /\ c.todo \in Mkdirs
  BY <1>1 DEF InPlan, Creates, Deletes, Renames, Now
<1>4. \/ Now(t) = "alloc" /\ c.todo = <<"alloc", "clean", "enter", "dot", "dotdot">>
      \/ Now(t) = "clean" /\ c.todo = <<"clean", "enter", "dot", "dotdot">>
      \/ Now(t) = "dot" /\ c.todo = <<"dot", "dotdot">>
      \/ Now(t) = "dotdot" /\ c.todo = <<"dotdot">>
  BY <1>1, <1>3 DEF Mkdirs, Now
<1>5. /\ <<"alloc", "clean", "enter", "dot", "dotdot">> \notin Lasts
      /\ <<"clean", "enter", "dot", "dotdot">> \notin Lasts
      /\ <<"dot", "dotdot">> \notin Lasts /\ <<"dotdot">> \in Lasts
  BY DEF Lasts
<1>6. /\ Tail(<<"alloc", "clean", "enter", "dot", "dotdot">>) = <<"clean", "enter", "dot", "dotdot">>
      /\ Tail(<<"clean", "enter", "dot", "dotdot">>) = <<"enter", "dot", "dotdot">>
      /\ Tail(<<"dot", "dotdot">>) = <<"dotdot">>
  OBVIOUS
<1> HIDE DEF c
<1>7. /\ c.todo \in Lasts => Advance(c) = NoCall
      /\ c.todo \notin Lasts => Advance(c) = [c EXCEPT !.todo = Tail(c.todo)]
  BY <1>1, AdvanceIs
<1> QED BY <1>3, <1>4, <1>5, <1>6, <1>7 DEF c

\* The first cluster of a new directory is cleared.
LEMMA CleanKeeps ==
    ASSUME TreeBody, NEW t \in Thread, Clean(t)
    PROVE  TreeBody'
<1> DEFINE c == call[t]
           s == call[t].entry.start
<1>1. /\ Now(t) = "clean" /\ Busy(t) /\ InPlan(c) /\ c \in CallType
      /\ PlanOK(t) /\ CallOK(t) /\ NewOK(t) /\ OldOK(t) /\ OnlyOK(t) /\ BareOK(t) /\ FreshOK(t)
  BY StepIs DEF Clean
<1>2. /\ c.op = "mkdir" /\ Advance(c) = [c EXCEPT !.todo = <<"enter", "dot", "dotdot">>]
      /\ Doing(t, {"clean"})
  BY <1>1, MkdirStep DEF Clean
<1>3. /\ slot' = Cleaned(s) /\ call' = [call EXCEPT ![t] = Advance(c)]
      /\ old_root' = old_root /\ link' = link /\ UNCHANGED <<home, moved, cut, twice, leaky, faults>>
  BY DEF Clean, Goes, history
<1>4. call'[t] = Advance(c) /\ \A u \in Thread : u # t => call'[u] = call[u]
  BY <1>2, <1>3, Steps
<1>5. /\ call'[t] \in CallType /\ call'[t].todo = <<"enter", "dot", "dotdot">>
      /\ call'[t].op = c.op /\ call'[t].in = c.in /\ call'[t].entry = c.entry /\ call'[t].old = c.old
      /\ call'[t].new = c.new /\ call'[t].fresh = c.fresh /\ call'[t].uses = c.uses
  <2>1. call'[t] \in CallType
    BY <1>1, <1>4, AdvanceIs
  <2> QED BY <1>1, <1>2, <1>4, <2>1 DEF CallType
<1>6. Now(t)' = "enter" /\ Busy(t)' /\ Holding(t) /\ Holding(t)' /\ ~(Written(t)') /\ ~(HasOld(t)')
      /\ ~Written(t)
  BY <1>1, <1>2, <1>5 DEF Now, Busy, Holding, Written, HasOld
<1>7. s \in Cluster /\ c.entry.dir /\ s \in Roots /\ s \in c.uses /\ s # 0 /\ c.in # s /\ c.fresh = 0
      /\ c.new = NoPlace /\ c.old = NoPlace /\ s \notin Heads
  BY <1>1, <1>2, <1>6, MarksAreNotClusters DEF CallOK, PlanOK, Roots, Free, TreeBody, HeldLoose
<1> HIDE DEF c, s
<1>8. /\ link[s] = EndOfChain /\ \A p \in DirPlaces(s) : slot[p] = Old
      /\ \A p \in Place : p \in DirPlaces(s) <=> p[1] = s
  <2>1. Chain(link, s) = {s}
    BY <1>1, <1>7, ChainOfOne, MarksAreNotClusters DEF BareOK, IsData, s
  <2> QED BY <1>1, <1>7, <2>1 DEF BareOK, DirPlaces, s
<1>9. \A p \in Place : slot'[p] = IF p[1] = s THEN Empty ELSE slot[p]
  BY <1>3 DEF Cleaned
<1>10. \A d : DirPlaces(d)' = DirPlaces(d)
  BY <1>3 DEF DirPlaces
<1>11. Standing' = Standing /\ \A p \in Standing : slot'[p] = slot[p]
  <2>1. \A p \in Place : p[1] = s => slot[p].name \notin Name \union {"cut"} /\ slot'[p].name \notin Name \union {"cut"}
    BY <1>8, <1>9, NamesAre
  <2> QED BY <1>9, <2>1 DEF Standing
<1>12. NamesStay
  BY <1>3, <1>10, <1>11 DEF NamesStay
<1>13. /\ LiveDirs' = LiveDirs /\ Heads' = Heads /\ Root' = Root
       /\ StandingOK' /\ NamesOK' /\ CutOK' /\ HomeOK' /\ Ranked' /\ OwnersOK' /\ DotsOK'
  <2>1. \A p \in Place : slot[p].name # "" /\ slot[p].name # "old" => slot'[p] = slot[p]
    BY <1>8, <1>9, NamesAre
  <2>2. \A p \in Place : IsDots(slot[p]) => IsDots(slot'[p])
    BY <2>1 DEF IsDots
  <2>3. \A p \in Standing : slot[p].dir =>
                 \A q \in DirPlaces(slot[p].start)' : slot'[q].name = ".." =>
                    q \in DirPlaces(slot[p].start) /\ slot'[q] = slot[q]
    <3> SUFFICES ASSUME NEW p \in Standing, slot[p].dir, NEW q \in DirPlaces(slot[p].start)', slot'[q].name = ".."
                 PROVE  q \in DirPlaces(slot[p].start) /\ slot'[q] = slot[q]
      OBVIOUS
    <3>1. q \in DirPlaces(slot[p].start) /\ q \in Place
      BY <1>3, <1>11 DEF DirPlaces
    <3> QED BY <1>9, <3>1, NamesAre
  <2> QED BY <1>2, <1>3, <1>4, <1>6, <1>12, <2>2, <2>3, NamesStep
<1>14. Roots' = Roots
  <2>1. ASSUME NEW u \in Thread PROVE (Holding(u))' = Holding(u) /\ call'[u].entry = call[u].entry
    BY <1>4, <1>5, <1>6 DEF Holding, Now, c
  <2> QED BY <1>13, <2>1 DEF Roots
<1>15. CallsApart' /\ HeldLoose'
  <2>1. call'[t].uses \subseteq call[t].uses /\ call'[t].entry.obj = call[t].entry.obj
        /\ call'[t].entry.start = call[t].entry.start
    BY <1>5 DEF c
  <2> QED BY <1>1, <1>4, <1>6, <1>13, <2>1, ApartStays
<1>16. CleanOK'
  <2>1. CleanOK
    BY DEF TreeBody
  <2>2. ASSUME NEW d \in LiveDirs, NEW p \in DirPlaces(d), slot'[p] = Old
        PROVE  \E u \in Thread : call'[u].fresh # 0 /\ call'[u].fresh = p[1]
    <3>1. slot[p] = Old
      BY <1>9, <2>2, NamesAre DEF DirPlaces
    <3>2. PICK u \in Thread : call[u].fresh # 0 /\ call[u].fresh = p[1]
      BY <2>1, <2>2, <3>1 DEF CleanOK
    <3>3. u # t
      BY <1>7, <3>2 DEF c
    <3> QED BY <1>4, <3>2, <3>3
  <2>3. ASSUME NEW p \in Place, p[1] # 0, link[p[1]] = Free PROVE slot'[p] = Old
    <3>1. p[1] # s
      BY <1>8, <2>3, MarksAreNotClusters
    <3> QED BY <1>9, <2>1, <2>3, <3>1 DEF CleanOK
  <2>4. ASSUME NEW d \in Roots, NEW p \in DirPlaces(d), slot'[p].name = ".."
        PROVE  \E q \in DirPlaces(d) : slot'[q].name = "."
    <3>1. slot[p].name = ".."
      BY <1>9, <2>4, NamesAre DEF DirPlaces
    <3>2. PICK q \in DirPlaces(d) : slot[q].name = "."
      BY <2>1, <2>4, <3>1 DEF CleanOK
    <3>3. q[1] # s
      BY <1>8, <3>2, NamesAre DEF DirPlaces
    <3> QED BY <1>9, <3>2, <3>3 DEF DirPlaces
  <2> QED BY <1>3, <1>10, <1>13, <1>14, <2>2, <2>3, <2>4 DEF CleanOK
<1>17. ShapeOK'
  <2>1. Empty \in Entry
    BY DEF Entry
  <2>2. slot' \in [Place -> Entry]
    BY <1>3, <2>1 DEF TreeBody, ShapeOK, Cleaned
  <2>3. call' \in [Thread -> CallType]
    BY <1>3, <1>4, <1>5 DEF TreeBody, ShapeOK
  <2> QED BY <1>3, <2>2, <2>3 DEF TreeBody, ShapeOK
<1>18. ASSUME NEW u \in Thread, u # t PROVE CallInv(u)'
  <2>1. \A p \in Place : slot'[p] = slot[p] \/ \E d \in c.uses : p \in DirPlaces(d)
    BY <1>7, <1>8, <1>9
  <2>2. \A p \in Standing' : p \in Standing /\ slot'[p].obj = slot[p].obj
    BY <1>11
  <2>3. Spared(u)
    BY <1>1, <1>3, <1>4, <1>13, <1>18, <2>1, <2>2, NearSteps DEF c
  <2> QED BY <1>3, <2>3, SparedKeeps
<1>19. CallInv(t)'
  <2>1. PlanOK(t)'
    BY <1>2, <1>5, <1>6, <1>7 DEF PlanOK, InPlan, Mkdirs
  <2>2. CallOK(t)'
    BY <1>1, <1>2, <1>5, <1>6, <1>7, <1>13 DEF CallOK, c, s
  <2>3. NewOK(t)'
    <3>1. \A q \in DirPlaces(c.in) : slot[q].name = c.entry.name => q = c.new
      BY <1>1, <1>2 DEF NewOK, c
    <3>2. \A q \in DirPlaces(c.in) : slot'[q].name = c.entry.name => q = c.new
      <4>1. c.entry.name \in Name
        BY <1>1, <1>2 DEF CallOK, c
      <4> QED BY <1>9, <3>1, <4>1, NamesAre DEF DirPlaces
    <3>3. DirPlaces(call[t].in)' = DirPlaces(c.in)
      BY <1>3, <1>5 DEF DirPlaces
    <3> QED BY <1>5, <1>6, <3>2, <3>3 DEF NewOK
  <2>4. OldOK(t)' /\ FreshOK(t)'
    BY <1>5, <1>6, <1>7 DEF OldOK, FreshOK
  <2>5. OnlyOK(t)'
    BY <1>1, <1>5, <1>6, <1>11 DEF OnlyOK, c
  <2>6. BareOK(t)'
    <3>1. DirPlaces(call[t].entry.start)' = DirPlaces(s)
      BY <1>3, <1>5 DEF DirPlaces, s, c
    <3>2. \A p \in DirPlaces(s) : slot'[p] = Empty /\ p \notin Standing'
      BY <1>8, <1>9, <1>11, NamesAre DEF DirPlaces, Standing
    <3> QED BY <1>2, <1>5, <1>6, <3>1, <3>2 DEF BareOK
  <2> QED BY <2>1, <2>2, <2>3, <2>4, <2>5, <2>6 DEF CallInv
<1>20. WellFormed(link, Roots)' /\ NoLeak'
  BY <1>3, <1>14 DEF TreeBody, NoLeak
<1> QED BY <1>13, <1>15, <1>16, <1>17, <1>18, <1>19, <1>20 DEF TreeBody

\* The last step of a directory that grows before the entry is made.
LEMMA ClearStep ==
    ASSUME TreeBody, NEW t \in Thread, Doing(t, {"clear"})
    PROVE  /\ Advance(call[t]) = [call[t] EXCEPT !.todo = Tail(call[t].todo)]
           /\ InPlan(Advance(call[t])) /\ Head(Tail(call[t].todo)) = "enter" /\ Tail(call[t].todo) # <<>>
           /\ call[t].op \in {"mkdir", "create", "rename"}
           /\ call[t].op = "rename" => (call[t].todo = <<"clear", "enter", "erase">> <=> Tail(call[t].todo) = <<"enter", "erase">>)
           /\ Tail(call[t].todo) \in Todos /\ Tail(call[t].todo) # <<"clear", "enter", "erase">>
           /\ call[t].todo # <<"enter", "erase">>
<1> DEFINE c == call[t]
<1>1. Now(t) = "clear" /\ InPlan(c) /\ c \in CallType
  BY StepIs
<1>2. c.todo # <<>>
  BY <1>1, AdvanceIs
<1>3. \/ c.op = "mkdir" /\ c.todo = <<"clear", "enter", "dot", "dotdot">>
      \/ c.op = "create" /\ c.todo \in {<<"clear", "enter">>, <<"clear", "enter", "take", "store">>}
      \/ c.op = "rename" /\ c.todo \in {<<"clear", "enter", "erase">>, <<"clear", "enter", "third", "erase">>}
  BY <1>1 DEF InPlan, Mkdirs, Creates, Deletes, Renames, Now
<1> HIDE DEF c
<1>4. /\ Tail(<<"clear", "enter", "dot", "dotdot">>) = <<"enter", "dot", "dotdot">>
      /\ Tail(<<"clear", "enter">>) = <<"enter">>
      /\ Tail(<<"clear", "enter", "take", "store">>) = <<"enter", "take", "store">>
      /\ Tail(<<"clear", "enter", "erase">>) = <<"enter", "erase">>
      /\ Tail(<<"clear", "enter", "third", "erase">>) = <<"enter", "third", "erase">>
  OBVIOUS
<1>5. c.todo \notin Lasts
  BY <1>3 DEF Lasts
<1>6. Advance(c) = [c EXCEPT !.todo = Tail(c.todo)] /\ InPlan(Advance(c))
  BY <1>1, <1>5, AdvanceIs
<1>7. Tail(c.todo) \in {<<"enter", "dot", "dotdot">>, <<"enter">>, <<"enter", "take", "store">>,
                        <<"enter", "erase">>, <<"enter", "third", "erase">>}
  BY <1>3, <1>4
<1>8. Head(Tail(c.todo)) = "enter" /\ Tail(c.todo) # <<>> /\ Tail(c.todo) # <<"clear", "enter", "erase">>
      /\ Tail(c.todo) \in Todos
  <2>1. Head(Tail(c.todo)) = "enter" /\ Tail(c.todo) # <<>>
    <3>1. /\ Head(<<"enter", "dot", "dotdot">>) = "enter" /\ <<"enter", "dot", "dotdot">> # <<>>
          /\ Head(<<"enter">>) = "enter" /\ <<"enter">> # <<>>
          /\ Head(<<"enter", "take", "store">>) = "enter" /\ <<"enter", "take", "store">> # <<>>
          /\ Head(<<"enter", "erase">>) = "enter" /\ <<"enter", "erase">> # <<>>
          /\ Head(<<"enter", "third", "erase">>) = "enter" /\ <<"enter", "third", "erase">> # <<>>
      OBVIOUS
    <3> QED BY <1>7, <3>1, Zenon
  <2>2. Tail(c.todo) # <<"clear", "enter", "erase">>
    <3>1. Head(<<"clear", "enter", "erase">>) = "clear"
      OBVIOUS
    <3> HIDE <1>7
    <3> QED BY <2>1, <3>1, Zenon
  <2>3. Tail(c.todo) \in Mkdirs \union Creates \union Renames
    BY <1>7 DEF Mkdirs, Creates, Renames
  <2> QED BY <2>1, <2>2, <2>3 DEF Todos
<1>9. c.op = "rename" => (c.todo = <<"clear", "enter", "erase">> <=> Tail(c.todo) = <<"enter", "erase">>)
  <2>1. /\ <<"enter", "third", "erase">> # <<"enter", "erase">>
        /\ <<"clear", "enter", "third", "erase">> # <<"clear", "enter", "erase">>
    OBVIOUS
  <2> QED BY <1>3, <1>4, <2>1
<1>10. c.todo # <<"enter", "erase">>
  <2>1. c.todo[1] = "clear"
    BY <1>3
  <2> QED BY <2>1
<1> QED BY <1>3, <1>6, <1>8, <1>9, <1>10 DEF c

\* The cluster a directory has got is cleared.
LEMMA ClearKeeps ==
    ASSUME TreeBody, NEW t \in Thread, Clear(t)
    PROVE  TreeBody'
<1> DEFINE c == call[t]
           f == call[t].fresh
<1>1. /\ Now(t) = "clear" /\ Busy(t) /\ InPlan(c) /\ c \in CallType
      /\ PlanOK(t) /\ CallOK(t) /\ NewOK(t) /\ OldOK(t) /\ OnlyOK(t) /\ BareOK(t) /\ FreshOK(t)
  BY StepIs DEF Clear
<1>2. /\ Advance(c) = [c EXCEPT !.todo = Tail(c.todo)] /\ InPlan(Advance(c)) /\ Advance(c) \in CallType
      /\ Head(Tail(c.todo)) = "enter" /\ Tail(c.todo) # <<>> /\ c.op \in {"mkdir", "create", "rename"}
      /\ Doing(t, {"clear"})
  BY <1>1, ClearStep, AdvanceIs DEF Clear
<1>3. /\ slot' = Cleaned(f) /\ call' = [call EXCEPT ![t] = [Advance(c) EXCEPT !.fresh = 0]]
      /\ old_root' = old_root /\ link' = link /\ UNCHANGED <<home, moved, cut, twice, leaky, faults>>
  BY DEF Clear, history
<1>4. call'[t] = [Advance(c) EXCEPT !.fresh = 0] /\ \A u \in Thread : u # t => call'[u] = call[u]
  BY <1>2, <1>3, Steps
<1>5. /\ call'[t] \in CallType /\ call'[t].todo = Tail(c.todo)
      /\ call'[t].op = c.op /\ call'[t].in = c.in /\ call'[t].entry = c.entry /\ call'[t].old = c.old
      /\ call'[t].new = c.new /\ call'[t].fresh = 0 /\ call'[t].uses = c.uses
  BY <1>1, <1>2, <1>4, ZenonT(60) DEF CallType
<1>6. Now(t)' = "enter" /\ Busy(t)' /\ (Holding(t)' <=> Holding(t)) /\ ~(Written(t)') /\ ~Written(t)
      /\ (HasOld(t)' <=> HasOld(t))
  BY <1>1, <1>2, <1>5 DEF Now, Busy, Holding, Written, HasOld
<1>7. f # 0 /\ f \in Cluster /\ c.in \in c.uses /\ c.in # 0 /\ c.in \in LiveDirs /\ c.new = NoPlace
      /\ f \in Chain(link, c.in) /\ link[f] = EndOfChain
      /\ \A p \in Place : p[1] = f => slot[p] = Old
  BY <1>1, <1>2, <1>6 DEF PlanOK, CallOK, FreshOK, CallType
<1>8. \A p \in Place : slot'[p] = IF p[1] = f THEN Empty ELSE slot[p]
  BY <1>3 DEF Cleaned
<1> HIDE DEF c, f
<1>10. \A d : DirPlaces(d)' = DirPlaces(d)
  BY <1>3 DEF DirPlaces
<1>11. Standing' = Standing /\ \A p \in Standing : slot'[p] = slot[p]
  <2>1. \A p \in Place : p[1] = f => slot[p].name \notin Name \union {"cut"} /\ slot'[p].name \notin Name \union {"cut"}
    BY <1>7, <1>8, NamesAre
  <2> QED BY <1>8, <2>1 DEF Standing
<1>12. NamesStay
  BY <1>3, <1>10, <1>11 DEF NamesStay
<1>13. /\ LiveDirs' = LiveDirs /\ Heads' = Heads /\ Root' = Root
       /\ StandingOK' /\ NamesOK' /\ CutOK' /\ HomeOK' /\ Ranked' /\ OwnersOK' /\ DotsOK'
  <2>1. \A p \in Place : slot[p].name # "" /\ slot[p].name # "old" => slot'[p] = slot[p]
    BY <1>7, <1>8, NamesAre
  <2>2. \A p \in Place : IsDots(slot[p]) => IsDots(slot'[p])
    BY <2>1 DEF IsDots
  <2>3. \A p \in Standing : slot[p].dir =>
                 \A q \in DirPlaces(slot[p].start)' : slot'[q].name = ".." =>
                    q \in DirPlaces(slot[p].start) /\ slot'[q] = slot[q]
    <3> SUFFICES ASSUME NEW p \in Standing, slot[p].dir, NEW q \in DirPlaces(slot[p].start)', slot'[q].name = ".."
                 PROVE  q \in DirPlaces(slot[p].start) /\ slot'[q] = slot[q]
      OBVIOUS
    <3>1. q \in DirPlaces(slot[p].start) /\ q \in Place
      BY <1>3, <1>11 DEF DirPlaces
    <3> QED BY <1>8, <3>1, NamesAre
  <2> QED BY <1>3, <1>4, <1>6, <1>12, <2>2, <2>3, NamesStep
<1>14. Roots' = Roots
  <2>1. ASSUME NEW u \in Thread PROVE (Holding(u)' <=> Holding(u)) /\ call'[u].entry = call[u].entry
    BY <1>4, <1>5, <1>6 DEF Holding, Now, c
  <2> QED BY <1>13, <2>1 DEF Roots
<1>15. CallsApart' /\ HeldLoose'
  <2>1. call'[t].uses \subseteq call[t].uses /\ call'[t].entry.obj = call[t].entry.obj
        /\ call'[t].entry.start = call[t].entry.start
    BY <1>5 DEF c
  <2> QED BY <1>1, <1>4, <1>6, <1>13, <2>1, ApartStays
<1>16. CleanOK'
  <2>1. CleanOK
    BY DEF TreeBody
  <2>2. ASSUME NEW d \in LiveDirs, NEW p \in DirPlaces(d), slot'[p] = Old
        PROVE  \E u \in Thread : call'[u].fresh # 0 /\ call'[u].fresh = p[1]
    <3>1. slot[p] = Old /\ p[1] # f
      BY <1>8, <2>2, NamesAre DEF DirPlaces
    <3>2. PICK u \in Thread : call[u].fresh # 0 /\ call[u].fresh = p[1]
      BY <2>1, <2>2, <3>1 DEF CleanOK
    <3>3. u # t
      BY <3>1, <3>2 DEF f
    <3> QED BY <1>4, <3>2, <3>3
  <2>3. ASSUME NEW p \in Place, p[1] # 0, link[p[1]] = Free PROVE slot'[p] = Old
    <3>1. p[1] # f
      BY <1>7, <2>3, MarksAreNotClusters
    <3> QED BY <1>8, <2>1, <2>3, <3>1 DEF CleanOK
  <2>4. ASSUME NEW d \in Roots, NEW p \in DirPlaces(d), slot'[p].name = ".."
        PROVE  \E q \in DirPlaces(d) : slot'[q].name = "."
    <3>1. slot[p].name = ".."
      BY <1>8, <2>4, NamesAre DEF DirPlaces
    <3>2. PICK q \in DirPlaces(d) : slot[q].name = "."
      BY <2>1, <2>4, <3>1 DEF CleanOK
    <3>3. q[1] # f
      BY <1>7, <3>2, NamesAre DEF DirPlaces
    <3> QED BY <1>8, <3>2, <3>3 DEF DirPlaces
  <2> QED BY <1>3, <1>10, <1>13, <1>14, <2>2, <2>3, <2>4 DEF CleanOK
<1>17. ShapeOK'
  <2>1. Empty \in Entry
    BY DEF Entry
  <2>2. slot' \in [Place -> Entry]
    BY <1>3, <2>1 DEF TreeBody, ShapeOK, Cleaned
  <2>3. call' \in [Thread -> CallType]
    BY <1>3, <1>4, <1>5 DEF TreeBody, ShapeOK
  <2> QED BY <1>3, <2>2, <2>3 DEF TreeBody, ShapeOK
<1>18. ASSUME NEW u \in Thread, u # t PROVE CallInv(u)'
  <2>1. \A p \in Place : slot'[p] = slot[p] \/ \E d \in c.uses : p \in DirPlaces(d)
    BY <1>7, <1>8 DEF DirPlaces
  <2>2. \A p \in Standing' : p \in Standing /\ slot'[p].obj = slot[p].obj
    BY <1>11
  <2>3. Spared(u)
    BY <1>1, <1>3, <1>4, <1>13, <1>18, <2>1, <2>2, NearSteps DEF c
  <2> QED BY <1>3, <2>3, SparedKeeps
<1>19. CallInv(t)'
  <2>1. PlanOK(t)'
    BY <1>1, <1>2, <1>4, <1>5, <1>6, <1>7 DEF PlanOK, InPlan, c
  <2>2. CallOK(t)'
    <3>1. c.op = "rename" => (c.todo = <<"clear", "enter", "erase">> <=> Tail(c.todo) = <<"enter", "erase">>)
      BY <1>2, ClearStep DEF c
    <3>2. Tail(c.todo) # <<"clear", "enter", "erase">> /\ c.todo # <<"enter", "erase">>
      BY <1>2, ClearStep DEF c
    <3> QED BY <1>1, <1>2, <1>5, <1>6, <1>7, <1>13, <3>1, <3>2 DEF CallOK, c
  <2>3. NewOK(t)'
    <3>1. \A q \in DirPlaces(c.in) : slot[q].name = c.entry.name => q = c.new
      BY <1>1, <1>2 DEF NewOK, c
    <3>2. \A q \in DirPlaces(c.in) : slot'[q].name = c.entry.name => q = c.new
      <4>1. c.entry.name \in Name
        BY <1>1, <1>2 DEF CallOK, c
      <4> QED BY <1>8, <3>1, <4>1, NamesAre DEF DirPlaces
    <3>3. DirPlaces(call[t].in)' = DirPlaces(c.in)
      BY <1>3, <1>5 DEF DirPlaces
    <3> QED BY <1>5, <1>6, <3>2, <3>3 DEF NewOK
  <2>4. FreshOK(t)'
    BY <1>5 DEF FreshOK
  <2>5. OldOK(t)'
    <3> SUFFICES ASSUME HasOld(t)
                 PROVE  /\ c.old \in Standing'
                        /\ \E d \in c.uses : d \in LiveDirs' /\ c.old \in DirPlaces(d)
                        /\ Same(slot'[c.old], c.entry)
      BY <1>5, <1>6, <1>10 DEF OldOK, Same
    <3> QED BY <1>1, <1>11, <1>13 DEF OldOK, c
  <2>6. OnlyOK(t)'
    BY <1>1, <1>5, <1>6, <1>11 DEF OnlyOK, c
  <2>7. BareOK(t)'
    <3> DEFINE s == c.entry.start
    <3>1. DirPlaces(call[t].entry.start)' = DirPlaces(s)
      BY <1>3, <1>5 DEF DirPlaces
    <3>2. c.op = "mkdir" => \A p \in DirPlaces(s) : slot'[p] = Empty /\ p \notin Standing'
      BY <1>1, <1>8, <1>11, NamesAre DEF DirPlaces, Standing, BareOK, c
    <3> QED BY <1>2, <1>5, <1>6, <3>1, <3>2 DEF BareOK
  <2> QED BY <2>1, <2>2, <2>3, <2>4, <2>5, <2>6, <2>7 DEF CallInv
<1>20. WellFormed(link, Roots)' /\ NoLeak'
  BY <1>3, <1>14 DEF TreeBody, NoLeak
<1> QED BY <1>13, <1>15, <1>16, <1>17, <1>18, <1>19, <1>20 DEF TreeBody

\* "." and ".." of a new directory.
LEMMA DotKeeps ==
    ASSUME TreeBody, NEW t \in Thread, Enter(t), ~Doing(t, {"enter"})
    PROVE  TreeBody'
<1> DEFINE c == call[t]
           s == call[t].entry.start
           p == Hole(call[t].entry.start)
           e == Made(t)
<1>a. Doing(t, {"dot", "dotdot"})
  BY DEF Enter, Doing, Entering
<1>1. /\ Now(t) \in {"dot", "dotdot"} /\ Busy(t) /\ InPlan(c) /\ c \in CallType
      /\ PlanOK(t) /\ CallOK(t) /\ NewOK(t) /\ OldOK(t) /\ OnlyOK(t) /\ BareOK(t) /\ FreshOK(t)
  BY <1>a, StepIs
<1>2. /\ c.op = "mkdir"
      /\ \/ Now(t) = "dot" /\ Advance(c) = [c EXCEPT !.todo = <<"dotdot">>]
         \/ Now(t) = "dotdot" /\ Advance(c) = NoCall
  BY <1>a, <1>1, MkdirStep
<1>3. /\ p # NoPlace /\ slot' = [slot EXCEPT ![p] = e]
      /\ call' = [call EXCEPT ![t] = Advance(c)]
      /\ home' = home /\ old_root' = old_root /\ link' = link
      /\ UNCHANGED <<moved, cut, twice, leaky, faults>>
  BY DEF Enter, Target
<1>4. call'[t] = Advance(c) /\ \A u \in Thread : u # t => call'[u] = call[u]
  BY <1>a, <1>3, Steps
<1>5. /\ call'[t] \in CallType
      /\ \/ call'[t] = NoCall /\ Now(t) = "dotdot"
         \/ /\ Now(t) = "dot" /\ call'[t].todo = <<"dotdot">>
            /\ call'[t].op = c.op /\ call'[t].in = c.in /\ call'[t].entry = c.entry /\ call'[t].old = c.old
            /\ call'[t].new = c.new /\ call'[t].fresh = c.fresh /\ call'[t].uses = c.uses
  <2>1. call'[t] \in CallType
    BY <1>1, <1>4, AdvanceIs
  <2> QED BY <1>1, <1>2, <1>4, <2>1 DEF CallType
<1>6. /\ Written(t) /\ ~Holding(t)
      /\ \/ call'[t] = NoCall /\ Now(t)' = "idle" /\ ~(Busy(t)') /\ ~(Holding(t)')
         \/ Now(t)' = "dotdot" /\ Busy(t)' /\ ~(Holding(t)') /\ Written(t)' /\ ~(HasOld(t)')
  <2>1. Written(t) /\ ~Holding(t)
    BY <1>1, <1>2 DEF Written, Holding
  <2>2. CASE call'[t] = NoCall
    BY <2>1, <2>2, IdleInv, NoCallIs DEF Now
  <2>3. CASE call'[t].todo = <<"dotdot">> /\ call'[t].op = c.op
    <3>1. Now(t)' = "dotdot" /\ call'[t].op = "mkdir"
      BY <1>2, <2>3 DEF Now
    <3> QED BY <2>1, <3>1 DEF Busy, Holding, Written, HasOld
  <2> QED BY <1>5, <2>2, <2>3
<1>7. s \in Cluster /\ c.entry.dir /\ s \in c.uses /\ s # 0 /\ c.in # s /\ c.fresh = 0
      /\ c.old = NoPlace /\ s \in LiveDirs /\ s \in Roots /\ s # Root
      /\ c.new \in Standing /\ c.new \in DirPlaces(c.in) /\ slot[c.new] = c.entry
      /\ c.in \in LiveDirs /\ c.in \in Roots \union {0} /\ c.entry.name \in Name
  <2>1. s \in Cluster /\ c.entry.dir /\ s \in c.uses /\ s # 0 /\ c.in # s /\ c.fresh = 0 /\ c.old = NoPlace
        /\ c.entry.name \in Name
    BY <1>1, <1>2, <1>6, MarksAreNotClusters DEF CallOK, PlanOK, Free
  <2>2. s \in LiveDirs /\ c.in \in LiveDirs
    BY <1>1, <1>6, <2>1 DEF CallOK
  <2>3. s \in Roots /\ c.in \in Roots \union {0}
    BY <2>1, <2>2, RootsAre
  <2>4. c.new \in Standing /\ c.new \in DirPlaces(c.in) /\ slot[c.new] = c.entry
    BY <1>1, <1>6 DEF NewOK
  <2>5. s # Root
    BY <2>1, <2>4 DEF TreeBody, StandingOK
  <2> QED BY <2>1, <2>2, <2>3, <2>4, <2>5
<1>8. /\ p \in DirPlaces(s) /\ slot[p] = Empty /\ p \in Place
  <2>1. s \in Roots \union {0}
    BY <1>7
  <2> QED BY <1>3, <2>1, Starts, RootsAre, HoleIs DEF DirPlaces
<1>9. /\ e \in Entry /\ e.name \in {".", ".."} /\ e # Empty /\ e # Old
      /\ Now(t) = "dot" => e.name = "."
      /\ Now(t) = "dotdot" => e.name = ".." /\ e.start = ParentCluster(c.new)
  <2>1. CASE Now(t) = "dot"
    <3>1. Doing(t, {"dot"}) /\ ~Doing(t, {"dotdot"})
      BY <1>a, <2>1 DEF Doing, Now
    <3>2. e = [name |-> ".", dir |-> TRUE, start |-> s, obj |-> "none"]
      BY <3>1 DEF Made
    <3> HIDE DEF e
    <3>3. e \in Entry
      BY <1>7, <3>2 DEF Entry
    <3>5. e.name = "."
      BY <3>2
    <3>6. e # Empty /\ e # Old
      <4> HIDE <3>2
      <4> QED BY <3>5, NamesAre
    <3> QED BY <2>1, <3>3, <3>5, <3>6
  <2>2. CASE Now(t) = "dotdot"
    <3>1. Doing(t, {"dotdot"}) /\ ~Doing(t, {"dot"})
      BY <1>a, <2>2 DEF Doing, Now
    <3>2. e = [name |-> "..", dir |-> TRUE, start |-> ParentCluster(c.new), obj |-> "none"]
      BY <3>1 DEF Made
    <3>3. ParentCluster(c.new) \in Cluster \union {0}
      BY <1>7 DEF ParentCluster, Standing, Place
    <3> HIDE DEF e
    <3>4. e \in Entry
      BY <3>2, <3>3 DEF Entry
    <3>5. e.name = ".." /\ e.start = ParentCluster(c.new)
      BY <3>2
    <3>6. e # Empty /\ e # Old
      <4> HIDE <3>2
      <4> QED BY <3>5, NamesAre
    <3> QED BY <2>2, <3>4, <3>5, <3>6
  <2> QED BY <1>1, <2>1, <2>2
<1> HIDE DEF c, s, p, e
<1>10. /\ slot \in [Place -> Entry] /\ slot' \in [Place -> Entry] /\ slot'[p] = e
       /\ \A q \in Place : q # p => slot'[q] = slot[q]
  BY <1>3, <1>8, <1>9 DEF TreeBody, ShapeOK
<1>11. \A d : DirPlaces(d)' = DirPlaces(d)
  BY <1>3 DEF DirPlaces
<1>12. Standing' = Standing /\ p \notin Standing /\ \A q \in Standing : slot'[q] = slot[q]
  <2>1. slot[p].name \notin Name \union {"cut"} /\ slot'[p].name \notin Name \union {"cut"}
    BY <1>8, <1>9, <1>10, NamesAre
  <2> QED BY <1>8, <1>10, <2>1 DEF Standing
<1>13. NamesStay
  BY <1>3, <1>11, <1>12 DEF NamesStay
<1>14. /\ LiveDirs' = LiveDirs /\ Heads' = Heads /\ Root' = Root
       /\ StandingOK' /\ NamesOK' /\ CutOK' /\ HomeOK' /\ Ranked' /\ OwnersOK'
       /\ (\A q \in Standing : slot[q].dir =>
                 \A r \in DirPlaces(slot[q].start)' : slot'[r].name = ".." =>
                    r \in DirPlaces(slot[q].start) /\ slot'[r] = slot[r]) => DotsOK'
  <2>1. \A q \in Place : IsDots(slot[q]) => IsDots(slot'[q])
    BY <1>9, <1>10 DEF IsDots
  <2> QED BY <1>2, <1>3, <1>4, <1>6, <1>13, <2>1, NamesStep DEF c
<1>15. \A q \in Standing : slot[q].start = s => q = c.new
  <2> SUFFICES ASSUME NEW q \in Standing, slot[q].start = s PROVE q = c.new
    OBVIOUS
  <2>1. slot[q].obj = c.entry.obj
    BY <1>7 DEF TreeBody, OwnersOK, s, c
  <2>2. q \in {c.old, c.new} /\ q \in Place
    BY <1>1, <2>1 DEF OnlyOK, Standing, c
  <2> QED BY <1>7, <2>2, NoPlaceIsNone
<1>16. DotsOK'
  <2>1. ASSUME NEW q \in Standing, slot[q].dir, slot[q].start # s \/ Now(t) = "dot",
               NEW r \in DirPlaces(slot[q].start)', slot'[r].name = ".."
        PROVE  r \in DirPlaces(slot[q].start) /\ slot'[r] = slot[r]
    <3>1. r \in DirPlaces(slot[q].start) /\ r \in Place
      BY <1>3, <1>12, <2>1 DEF DirPlaces
    <3>2. CASE r # p
      BY <1>10, <3>1, <3>2
    <3>3. CASE r = p
      <4>1. Now(t) # "dot"
        BY <1>9, <1>10, <2>1, <3>3
      <4>2. slot[q].start \in Roots \union {0} /\ s \in Roots \union {0}
        BY <1>7, <2>1, RootsAre DEF LiveDirs
      <4>3. slot[q].start = s
        BY <1>8, <3>1, <3>3, <4>2, Apart
      <4> QED BY <2>1, <4>1, <4>3
    <3> QED BY <3>2, <3>3
  <2>2. CASE Now(t) = "dot"
    BY <1>14, <2>1, <2>2
  <2>3. CASE Now(t) = "dotdot"
    <3>1. \A q : ParentCluster(q)' = ParentCluster(q)
      BY <1>14 DEF ParentCluster
    <3>2. \A u \in Thread : call[u].op = "rename" => call'[u] = call[u]
      <4>1. call'[t].op # "rename" /\ call[t].op # "rename"
        BY <1>2, <1>5, NoCallIs DEF c
      <4> QED BY <1>4, <4>1
    <3>3. ASSUME NEW q \in Standing, slot[q].dir, slot[q].obj \notin moved \union twice,
                 \A u \in Thread : call'[u].op = "rename" => call'[u].new # q,
                 NEW r \in DirPlaces(slot[q].start)', slot'[r].name = ".."
          PROVE  slot'[r].start = ParentCluster(q)
      <4>1. r \in DirPlaces(slot[q].start) /\ r \in Place
        BY <1>3, <1>12, <3>3 DEF DirPlaces
      <4>2. CASE slot[q].start = s
        <5>1. q = c.new
          BY <1>15, <4>2
        <5>2. r = p
          <6>1. PICK x \in DirPlaces(s) : slot[x].name = "." /\ \A y \in DirPlaces(s) : y # x => slot[y] = Empty
            BY <1>1, <2>3 DEF BareOK, s
          <6>2. r # p => slot[r].name = ".."
            BY <1>10, <3>3, <4>1
          <6> QED BY <4>1, <4>2, <6>1, <6>2, NamesAre
        <5> QED BY <1>9, <1>10, <2>3, <5>1, <5>2
      <4>3. CASE slot[q].start # s
        <5>1. slot'[r] = slot[r]
          BY <2>1, <3>3, <4>3
        <5>2. \A u \in Thread : call[u].op = "rename" => call[u].new # q
          BY <3>2, <3>3
        <5> QED BY <3>3, <4>1, <5>1, <5>2 DEF TreeBody, DotsOK
      <4> QED BY <4>2, <4>3
    <3>4. moved' = moved /\ twice' = twice /\ \A q \in Standing : slot'[q] = slot[q]
      BY <1>3, <1>12
    <3> QED BY <1>12, <3>1, <3>3, <3>4 DEF DotsOK
  <2> QED BY <1>1, <2>2, <2>3
<1>17. Roots' = Roots
  <2>1. ASSUME NEW u \in Thread PROVE (Holding(u)' <=> Holding(u)) /\ (Holding(u) => call'[u].entry = call[u].entry)
    BY <1>4, <1>6 DEF Holding, Now
  <2> QED BY <1>14, <2>1 DEF Roots
<1>18. CallsApart' /\ HeldLoose'
  <2>1. Busy(t)' => call'[t].uses \subseteq call[t].uses /\ call'[t].entry.obj = call[t].entry.obj
    <3>1. call'[t] = NoCall => ~(Busy(t)')
      BY IdleInv
    <3> QED BY <1>5, <3>1 DEF c
  <2> QED BY <1>1, <1>4, <1>6, <1>14, <2>1, ApartStays
<1>19. CleanOK'
  <2>1. CleanOK
    BY DEF TreeBody
  <2>2. ASSUME NEW d \in LiveDirs, NEW q \in DirPlaces(d), slot'[q] = Old
        PROVE  \E u \in Thread : call'[u].fresh # 0 /\ call'[u].fresh = q[1]
    <3>1. slot[q] = Old
      BY <1>9, <1>10, <2>2 DEF DirPlaces
    <3>2. PICK u \in Thread : call[u].fresh # 0 /\ call[u].fresh = q[1]
      BY <2>1, <2>2, <3>1 DEF CleanOK
    <3>3. u # t
      BY <1>7, <3>2 DEF c
    <3> QED BY <1>4, <3>2, <3>3
  <2>3. ASSUME NEW q \in Place, q[1] # 0, link[q[1]] = Free PROVE slot'[q] = Old
    <3>1. q # p
      BY <1>8, <2>1, <2>3, NamesAre DEF CleanOK
    <3> QED BY <1>10, <2>1, <2>3, <3>1 DEF CleanOK
  <2>4. ASSUME NEW d \in Roots, NEW q \in DirPlaces(d), slot'[q].name = ".."
        PROVE  \E r \in DirPlaces(d) : slot'[r].name = "."
    <3>1. CASE q # p
      <4>1. slot[q].name = ".."
        BY <1>10, <2>4, <3>1 DEF DirPlaces
      <4>2. PICK r \in DirPlaces(d) : slot[r].name = "."
        BY <2>1, <2>4, <4>1 DEF CleanOK
      <4>3. r # p
        BY <1>8, <4>2, NamesAre
      <4> QED BY <1>10, <4>2, <4>3 DEF DirPlaces
    <3>2. CASE q = p
      <4>1. d = s /\ Now(t) = "dotdot"
        <5>1. d \in Roots \union {0} /\ s \in Roots \union {0}
          BY <1>7
        <5>2. d = s
          BY <1>8, <2>4, <3>2, <5>1, OneDirectory
        <5> QED BY <1>1, <1>9, <1>10, <2>4, <3>2, <5>2
      <4>2. PICK r \in DirPlaces(s) : slot[r].name = "."
        BY <1>1, <4>1 DEF BareOK, s
      <4>3. r # p
        BY <1>8, <4>2, NamesAre
      <4> QED BY <1>10, <4>1, <4>2, <4>3 DEF DirPlaces
    <3> QED BY <3>1, <3>2
  <2> QED BY <1>3, <1>11, <1>14, <1>17, <2>2, <2>3, <2>4 DEF CleanOK
<1>20. ShapeOK'
  <2>1. call' \in [Thread -> CallType]
    BY <1>3, <1>4, <1>5 DEF TreeBody, ShapeOK
  <2> QED BY <1>3, <1>10, <2>1 DEF TreeBody, ShapeOK
<1>21. ASSUME NEW u \in Thread, u # t PROVE CallInv(u)'
  <2>1. \A q \in Place : slot'[q] = slot[q] \/ \E d \in c.uses : q \in DirPlaces(d)
    BY <1>7, <1>8, <1>10
  <2>2. \A q \in Standing' : q \in Standing /\ slot'[q].obj = slot[q].obj
    BY <1>12
  <2>3. Spared(u)
    BY <1>1, <1>3, <1>4, <1>14, <1>21, <2>1, <2>2, NearSteps DEF c
  <2> QED BY <1>3, <2>3, SparedKeeps
<1>22. CallInv(t)'
  <2>1. CASE call'[t] = NoCall
    BY <2>1, IdleInv
  <2>2. CASE call'[t] # NoCall
    <3>0. /\ Now(t) = "dot" /\ Now(t)' = "dotdot" /\ Busy(t)' /\ ~(Holding(t)') /\ Written(t)' /\ ~(HasOld(t)')
          /\ call'[t].todo = <<"dotdot">>
          /\ call'[t].op = "mkdir" /\ call'[t].in = c.in /\ call'[t].entry = c.entry /\ call'[t].old = NoPlace
          /\ call'[t].new = c.new /\ call'[t].fresh = 0 /\ call'[t].uses = c.uses
      BY <1>2, <1>5, <1>6, <1>7, <2>2
    <3>1. PlanOK(t)'
      BY <1>7, <3>0, NoPlaceIsNone DEF PlanOK, InPlan, Mkdirs, Standing
    <3>2. CallOK(t)'
      BY <1>1, <1>6, <1>7, <1>14, <3>0 DEF CallOK, c, s
    <3>3. NewOK(t)'
      <4>1. \A q \in DirPlaces(c.in) : slot'[q].name = c.entry.name => q = c.new
        BY <1>1, <1>2, <1>7, <1>9, <1>10, NamesAre DEF NewOK, DirPlaces, c
      <4>2. DirPlaces(call[t].in)' = DirPlaces(c.in)
        BY <1>3, <3>0 DEF DirPlaces
      <4>3. c.new \in Standing' /\ slot'[c.new] = c.entry /\ c.new # NoPlace
        BY <1>7, <1>12, NoPlaceIsNone DEF Standing
      <4> QED BY <1>7, <3>0, <4>1, <4>2, <4>3 DEF NewOK
    <3>4. OldOK(t)' /\ FreshOK(t)'
      BY <3>0 DEF OldOK, FreshOK
    <3>5. OnlyOK(t)'
      BY <1>1, <1>7, <1>12, <3>0 DEF OnlyOK, c
    <3>6. BareOK(t)'
      <4>1. DirPlaces(call[t].entry.start)' = DirPlaces(s)
        BY <1>3, <3>0 DEF DirPlaces, s, c
      <4>2. \A q \in DirPlaces(s) : q # p => slot'[q] = Empty
        BY <1>1, <1>2, <1>10, <3>0 DEF BareOK, DirPlaces, s, c
      <4>3. \A q \in DirPlaces(s) : q \notin Standing'
        BY <1>1, <1>2, <1>7, <1>12 DEF BareOK, s, c
      <4>4. \E q \in DirPlaces(s) : slot'[q].name = "." /\ \A r \in DirPlaces(s) : r # q => slot'[r] = Empty
        BY <1>8, <1>9, <1>10, <3>0, <4>2
      <4> QED BY <3>0, <4>1, <4>3, <4>4 DEF BareOK
    <3> QED BY <3>1, <3>2, <3>3, <3>4, <3>5, <3>6 DEF CallInv
  <2> QED BY <2>1, <2>2
<1>23. WellFormed(link, Roots)' /\ NoLeak'
  BY <1>3, <1>17 DEF TreeBody, NoLeak
<1> QED BY <1>14, <1>16, <1>18, <1>19, <1>20, <1>21, <1>22, <1>23 DEF TreeBody

\* alloc_cluster takes a free cluster,
LEMMA FoundIs == ASSUME link \in Table, NEW d \in Found PROVE d \in Cluster /\ link[d] = Free
<1>1. FreeClusters(link) # {} /\ d = Min(FreeClusters(link))
  BY DEF Found
<1>2. FreeClusters(link) \in SUBSET Nat
  BY ClusterCountAssumption DEF FreeClusters, Cluster
<1>3. d \in FreeClusters(link)
  BY <1>1, <1>2, MinOf
<1> QED BY <1>3 DEF FreeClusters

\* and leaves all directories as they were.
LEMMA TakeCluster ==
    ASSUME TreeBody, NEW d \in Found, link' = [link EXCEPT ![d] = EndOfChain]
    PROVE  /\ d \in Cluster /\ link[d] = Free /\ d \notin Roots /\ d # 0
           /\ link' \in Table /\ WellFormed(link', Roots \union {d})
           /\ \A r \in Roots : Chain(link', r) = Chain(link, r) /\ d \notin Chain(link, r)
           /\ \A r \in Roots \union {0} : DirPlaces(r)' = DirPlaces(r) /\ \A p \in DirPlaces(r) : p[1] # d
           /\ Chain(link', d) = {d}
           /\ \A p \in Place : p[1] = d => slot[p] = Old
           /\ link'[d] = EndOfChain /\ \A x \in Cluster : x # d => link'[x] = link[x]
<1>1. d \in Cluster /\ link[d] = Free /\ d # 0
  BY RootsAre, FoundIs, MarksAreNotClusters DEF Free
<1>2. link \in Table /\ Roots \in SUBSET Cluster /\ WellFormed(link, Roots)
  BY RootsAre DEF TreeBody
<1>3. link' \in Table /\ WellFormed(link', Roots) /\ Detached(link', Roots, d)
  BY <1>1, <1>2, TakeKeeps
<1>4. WellFormed(link', Roots \union {d})
  BY <1>1, <1>2, <1>3, RegisterKeeps
<1>5. link'[d] = EndOfChain /\ \A x \in Cluster : x # d => link'[x] = link[x]
  BY <1>1, <1>2 DEF Table
<1>6. ASSUME NEW r \in Roots PROVE Chain(link', r) = Chain(link, r) /\ d \notin Chain(link, r) /\ r # d
  <2>1. \A x \in Chain(link, r) : x \in Cluster /\ x # d
    BY <1>1, <1>2, ChainInUse, MarksAreNotClusters DEF InChain, IsData
  <2>2. r \in Cluster /\ \A x \in Chain(link, r) : link'[x] = link[x]
    BY <1>2, <1>5, <2>1
  <2>3. Chain(link', r) = Chain(link, r)
    BY <2>2, ChainKept
  <2> QED BY <2>1, <2>2, <2>3, ChainFollows
<1>7. ASSUME NEW r \in Roots \union {0} PROVE DirPlaces(r)' = DirPlaces(r) /\ \A p \in DirPlaces(r) : p[1] # d
  BY <1>1, <1>6 DEF DirPlaces
<1>8. Chain(link', d) = {d}
  BY <1>1, <1>5, ChainOfOne, MarksAreNotClusters DEF IsData
<1>9. \A p \in Place : p[1] = d => slot[p] = Old
  BY <1>1 DEF TreeBody, CleanOK
<1> QED BY <1>1, <1>3, <1>4, <1>5, <1>6, <1>7, <1>8, <1>9

\* The volume when a call has taken a first cluster.
LEMMA TakenKeeps ==
    ASSUME TreeBody, NEW t \in Thread, NEW d \in Found, link' = [link EXCEPT ![d] = EndOfChain],
           old_root' = old_root, slot' = slot, UNCHANGED <<home, moved, cut, twice, leaky, faults>>,
           Busy(t), ~Holding(t), Holding(t)', call'[t].entry.start = d, call'[t] \in CallType,
           call[t].op # "rename", call'[t].fresh = call[t].fresh,
           call'[t].uses \subseteq call[t].uses \union {d}, call'[t].entry.obj = call[t].entry.obj,
           call' \in [Thread -> CallType],
           \A u \in Thread : u # t => call'[u] = call[u], CallInv(t)'
    PROVE  TreeBody'
<1>1. /\ d \in Cluster /\ link[d] = Free /\ d \notin Roots /\ d # 0
      /\ link' \in Table /\ WellFormed(link', Roots \union {d})
      /\ \A r \in Roots : Chain(link', r) = Chain(link, r) /\ d \notin Chain(link, r)
      /\ \A r \in Roots \union {0} : DirPlaces(r)' = DirPlaces(r) /\ \A p \in DirPlaces(r) : p[1] # d
      /\ Chain(link', d) = {d}
      /\ \A p \in Place : p[1] = d => slot[p] = Old
      /\ link'[d] = EndOfChain /\ \A x \in Cluster : x # d => link'[x] = link[x]
  BY TakeCluster
<1>2. LiveDirs \subseteq Roots \union {0} /\ Roots \in SUBSET Cluster /\ link \in Table
  BY RootsAre
<1>3. Standing' = Standing
  BY DEF Standing
<1>4. NamesStay
  BY <1>1, <1>2, <1>3 DEF NamesStay
<1>5. /\ LiveDirs' = LiveDirs /\ Heads' = Heads /\ Root' = Root
       /\ StandingOK' /\ NamesOK' /\ CutOK' /\ HomeOK' /\ Ranked' /\ OwnersOK' /\ DotsOK'
  <2>1. \A p \in Standing : slot[p].dir =>
                 \A q \in DirPlaces(slot[p].start)' : slot'[q].name = ".." =>
                    q \in DirPlaces(slot[p].start) /\ slot'[q] = slot[q]
    <3>1. \A p \in Standing : slot[p].dir => slot[p].start \in Roots \union {0}
      BY <1>2 DEF LiveDirs
    <3>2. \A p \in Standing : slot[p].dir => DirPlaces(slot[p].start)' = DirPlaces(slot[p].start)
      BY <1>1, <3>1
    <3> QED BY <3>2
  <2> QED BY <1>4, <2>1, NamesStep
<1>6. ASSUME NEW u \in Thread, u # t
      PROVE  /\ (Holding(u))' = Holding(u) /\ (Busy(u))' = Busy(u) /\ call'[u] = call[u]
             /\ Holding(u) => Busy(u) /\ call[u].entry.start # d
             /\ Busy(u) => d \notin call[u].uses
  <2>1. (Holding(u))' = Holding(u) /\ (Busy(u))' = Busy(u) /\ call'[u] = call[u]
    BY <1>6 DEF Holding, Now, Busy
  <2>2. Holding(u) => Busy(u) /\ call[u].entry.start \in Roots
    BY BusyIs DEF TreeBody, CallInv, Roots
  <2>3. Busy(u) => call[u].uses \subseteq Roots \union {0}
    BY UsesAre
  <2> QED BY <1>1, <2>1, <2>2, <2>3
<1>7. Roots' = Roots \union {d}
  <2>1. Roots' \subseteq Roots \union {d}
    BY <1>5, <1>6 DEF Roots
  <2>2. d \in Roots'
    BY DEF Roots
  <2>3. Roots \subseteq Roots'
    BY <1>5, <1>6 DEF Roots
  <2> QED BY <2>1, <2>2, <2>3
<1>8. CallsApart' /\ HeldLoose'
  <2>1. CallsApart /\ HeldLoose
    BY DEF TreeBody
  <2>2. d \notin Heads
    BY <1>1 DEF Roots
  <2>3. HeldLoose'
    BY <1>5, <1>6, <2>1, <2>2 DEF HeldLoose
  <2>4. ASSUME NEW u \in Thread, u # t, Busy(u)
        PROVE  /\ call'[t].uses \intersect call[u].uses = {}
               /\ call'[t].entry.obj # call[u].entry.obj
               /\ Holding(u) => call'[t].entry.start # call[u].entry.start
    <3>1. call[t].uses \intersect call[u].uses = {} /\ call[t].entry.obj # call[u].entry.obj
      BY <2>1, <2>4 DEF CallsApart
    <3> QED BY <1>6, <2>4, <3>1
  <2>5. ASSUME NEW u \in Thread, NEW v \in Thread, u # v, u # t, v # t, Busy(u), Busy(v)
        PROVE  /\ call[u].uses \intersect call[v].uses = {}
               /\ call[u].entry.obj # call[v].entry.obj
               /\ Holding(u) /\ Holding(v) => call[u].entry.start # call[v].entry.start
    BY <2>1, <2>5 DEF CallsApart
  <2> QED BY <1>6, <2>3, <2>4, <2>5 DEF CallsApart
<1>9. CleanOK'
  <2>1. CleanOK
    BY DEF TreeBody
  <2>2. ASSUME NEW r \in LiveDirs', NEW p \in DirPlaces(r)', slot'[p] = Old
        PROVE  \E u \in Thread : call'[u].fresh # 0 /\ call'[u].fresh = p[1]
    <3>1. r \in LiveDirs /\ p \in DirPlaces(r)
      BY <1>1, <1>2, <1>5, <2>2
    <3>2. \E u \in Thread : call[u].fresh # 0 /\ call[u].fresh = p[1]
      BY <2>1, <2>2, <3>1 DEF CleanOK
    <3> QED BY <3>2
  <2>3. ASSUME NEW p \in Place, p[1] # 0, link'[p[1]] = Free PROVE slot[p] = Old
    <3>1. p[1] \in Cluster
      BY <2>3 DEF Place
    <3>2. link[p[1]] = Free
      BY <1>1, <2>3, <3>1
    <3> QED BY <2>1, <2>3, <3>2 DEF CleanOK
  <2>4. ASSUME NEW r \in Roots', NEW p \in DirPlaces(r)', slot'[p].name = ".."
        PROVE  \E q \in DirPlaces(r)' : slot'[q].name = "."
    <3>1. CASE r = d
      <4>1. p \in Place /\ p[1] = d
        BY <1>1, <2>4, <3>1 DEF DirPlaces
      <4> QED BY <1>1, <2>4, <4>1, NamesAre
    <3>2. CASE r # d
      <4>1. r \in Roots /\ DirPlaces(r)' = DirPlaces(r)
        BY <1>1, <1>7, <2>4, <3>2
      <4> QED BY <2>1, <2>4, <4>1 DEF CleanOK
    <3> QED BY <3>1, <3>2
  <2> QED BY <2>2, <2>3, <2>4 DEF CleanOK
<1>10. ShapeOK'
  BY <1>1 DEF TreeBody, ShapeOK
<1>11. WellFormed(link, Roots)'
  BY <1>1, <1>7
<1>12. NoLeak'
  <2>1. NoLeak
    BY DEF TreeBody
  <2>2. ASSUME ~leaky, NEW c \in Cluster, link'[c] # Free PROVE \E h \in Roots' : c \in Chain(link', h)
    <3>1. CASE c = d
      BY <1>1, <1>7, <3>1
    <3>2. CASE c # d
      <4>1. PICK h \in Roots : c \in Chain(link, h)
        BY <1>1, <2>1, <2>2, <3>2 DEF NoLeak
      <4> QED BY <1>1, <1>7, <4>1
    <3> QED BY <3>1, <3>2
  <2> QED BY <2>2 DEF NoLeak
<1>13. ASSUME NEW u \in Thread, u # t PROVE CallInv(u)'
  <2>1. Busy(u) => \A r \in call[u].uses \cap Cluster : \A c \in Chain(link, r) : link'[c] = link[c]
    <3> SUFFICES ASSUME Busy(u), NEW r \in call[u].uses, r \in Cluster, NEW c \in Chain(link, r) PROVE link'[c] = link[c]
      OBVIOUS
    <3>1. r \in Roots
      BY UsesAre, MarksAreNotClusters DEF Free
    <3> QED BY <1>1, <3>1, ChainFollows
  <2>2. Spared(u)
    BY <1>3, <1>5, <1>13, <2>1, NearSteps
  <2> QED BY <2>2, SparedKeeps
<1> QED BY <1>5, <1>8, <1>9, <1>10, <1>11, <1>12, <1>13 DEF TreeBody

\* A new directory takes its first cluster.
LEMMA AllocKeeps ==
    ASSUME TreeBody, NEW t \in Thread, Alloc(t)
    PROVE  TreeBody'
<1> DEFINE c == call[t]
<1>1. /\ Now(t) = "alloc" /\ Busy(t) /\ InPlan(c) /\ c \in CallType
      /\ PlanOK(t) /\ CallOK(t) /\ NewOK(t) /\ OldOK(t) /\ OnlyOK(t) /\ BareOK(t) /\ FreshOK(t)
      /\ Doing(t, {"alloc"})
  BY StepIs DEF Alloc
<1>2. c.op = "mkdir" /\ Advance(c) = [c EXCEPT !.todo = <<"clean", "enter", "dot", "dotdot">>]
  BY <1>1, MkdirStep
<1>3. PICK d \in Found :
        /\ link' = [link EXCEPT ![d] = EndOfChain]
        /\ call' = [call EXCEPT ![t] = [Advance(call[t]) EXCEPT !.entry.start = d, !.uses = @ \union {d}]]
  BY DEF Alloc, Goes
<1>4. /\ old_root' = old_root /\ slot' = slot /\ UNCHANGED <<home, moved, cut, twice, leaky, faults>>
  BY DEF Alloc, history
<1>5. /\ d \in Cluster /\ link[d] = Free /\ d \notin Roots /\ d # 0
      /\ \A r \in Roots \union {0} : DirPlaces(r)' = DirPlaces(r) /\ \A p \in DirPlaces(r) : p[1] # d
      /\ Chain(link', d) = {d}
      /\ \A p \in Place : p[1] = d => slot[p] = Old
      /\ link'[d] = EndOfChain
  BY <1>3, TakeCluster
<1>6. /\ call'[t] = [Advance(c) EXCEPT !.entry.start = d, !.uses = @ \union {d}]
      /\ \A u \in Thread : u # t => call'[u] = call[u]
  BY <1>1, <1>3, Steps
<1> HIDE DEF c
<1>7. /\ c.entry.dir = TRUE /\ c.entry.name \in Name /\ c.entry.obj \in Object /\ c.in \in c.uses /\ c.in \in LiveDirs
      /\ c.in \in Roots \union {0}
      /\ \A x \in c.uses : x \in LiveDirs
      /\ ~Holding(t) /\ c.new = NoPlace /\ c.old = NoPlace /\ c.fresh = 0 /\ c.entry \in Entry
  <2>1. ~Holding(t) /\ ~Written(t)
    BY <1>1, <1>2 DEF Holding, Written, c
  <2>2. c.in \in LiveDirs /\ c.entry.dir \in BOOLEAN /\ c.entry \in Entry
    BY <1>1, EntryIs DEF CallOK, c, CallType
  <2> QED BY <1>1, <1>2, <2>1, <2>2, RootsAre DEF CallOK, PlanOK, c
<1>8. c.entry \in [name : Name \union {".", "..", "cut"}, dir : BOOLEAN, start : Cluster \union {0}, obj : Object \union {"none"}]
  <2>1. c.entry # Empty /\ c.entry # Old
    BY <1>7, NamesAre
  <2> QED BY <1>7, <2>1 DEF Entry
<1>9. [c.entry EXCEPT !.start = d] \in Entry
  BY <1>5, <1>8 DEF Entry
<1>10. /\ call'[t] = [c EXCEPT !.todo = <<"clean", "enter", "dot", "dotdot">>, !.entry = [c.entry EXCEPT !.start = d],
                              !.uses = c.uses \union {d}]
  BY <1>1, <1>2, <1>6 DEF CallType, c
<1>11. /\ call'[t] \in CallType /\ call'[t].todo = <<"clean", "enter", "dot", "dotdot">>
       /\ call'[t].op = c.op /\ call'[t].in = c.in /\ call'[t].entry = [c.entry EXCEPT !.start = d] /\ call'[t].old = c.old
       /\ call'[t].new = c.new /\ call'[t].fresh = c.fresh /\ call'[t].uses = c.uses \union {d}
  <2>1. <<"clean", "enter", "dot", "dotdot">> \in Todos
    BY DEF Todos, Mkdirs
  <2> QED BY <1>1, <1>5, <1>9, <1>10, <2>1, ZenonT(120) DEF CallType, c
<1>12. call'[t].entry.start = d /\ call'[t].entry.obj = c.entry.obj /\ call'[t].entry.name = c.entry.name
       /\ call'[t].entry.dir = TRUE
  BY <1>7, <1>8, <1>11
<1>13. Now(t)' = "clean" /\ Busy(t)' /\ Holding(t)' /\ ~(Written(t)') /\ ~(HasOld(t)')
  BY <1>2, <1>11 DEF Now, Busy, Holding, Written, HasOld, c
<1>14. DirPlaces(call[t].entry.start)' = {p \in Place : p[1] = d}
  BY <1>5, <1>12 DEF DirPlaces
<1>15. Standing' = Standing /\ LiveDirs' = LiveDirs
  BY <1>4 DEF Standing, LiveDirs, Root
<1>16. CallInv(t)'
  <2>1. PlanOK(t)'
    BY <1>2, <1>7, <1>11, <1>13 DEF PlanOK, InPlan, Mkdirs, c
  <2>2. CallOK(t)'
    <3>1. d # c.in
      BY <1>5, <1>7
    <3> QED BY <1>2, <1>5, <1>7, <1>11, <1>12, <1>13, <1>15, <3>1 DEF CallOK, c
  <2>3. NewOK(t)'
    <3>1. \A q \in DirPlaces(c.in) : slot[q].name = c.entry.name => q = c.new
      BY <1>1, <1>2 DEF NewOK, c
    <3>2. DirPlaces(call[t].in)' = DirPlaces(c.in)
      <4>1. DirPlaces(call[t].in)' = {p \in Place : IF c.in = 0 THEN p[1] = 0 ELSE p[1] \in Chain(link', c.in)}
        BY <1>11 DEF DirPlaces
      <4>2. \A x : x = c.in => DirPlaces(x)' = DirPlaces(x)
        BY <1>5, <1>7
      <4> QED BY <4>1, <4>2 DEF DirPlaces
    <3> QED BY <1>4, <1>11, <1>12, <1>13, <3>1, <3>2 DEF NewOK
  <2>4. OldOK(t)' /\ FreshOK(t)'
    BY <1>7, <1>11, <1>13 DEF OldOK, FreshOK
  <2>5. OnlyOK(t)'
    BY <1>1, <1>4, <1>11, <1>12, <1>13, <1>15 DEF OnlyOK, c
  <2>6. BareOK(t)'
    <3>1. \A p \in Place : p[1] = d => slot'[p] = Old /\ p \notin Standing'
      BY <1>4, <1>5, NamesAre DEF Standing
    <3> QED BY <1>5, <1>12, <1>13, <1>14, <3>1 DEF BareOK
  <2> QED BY <2>1, <2>2, <2>3, <2>4, <2>5, <2>6 DEF CallInv
<1>17. call' \in [Thread -> CallType]
  BY <1>3, <1>6, <1>11 DEF TreeBody, ShapeOK
<1> QED BY <1>1, <1>2, <1>3, <1>4, <1>6, <1>7, <1>11, <1>12, <1>13, <1>16, <1>17, TakenKeeps DEF c

\* An empty file takes its first cluster, found by its name.
LEMMA TakeStepKeeps ==
    ASSUME TreeBody, NEW t \in Thread, Take(t)
    PROVE  TreeBody'
<1> DEFINE c == call[t]
           p == Lookup(c.in, c.entry.name)
<1>1. /\ Now(t) = "take" /\ Busy(t) /\ InPlan(c) /\ c \in CallType
      /\ PlanOK(t) /\ CallOK(t) /\ NewOK(t) /\ OldOK(t) /\ OnlyOK(t) /\ BareOK(t) /\ FreshOK(t)
      /\ Doing(t, {"take"})
  <2>1. Doing(t, {"take"})
    BY DEF Take
  <2> QED BY <2>1, StepIs
<1>2. c.op = "create" /\ Advance(c) = [c EXCEPT !.todo = <<"store">>]
  <2>1. c.todo # <<>>
    BY <1>1, AdvanceIs
  <2>2. c.op = "create" /\ c.todo = <<"take", "store">>
    BY <1>1, <2>1 DEF InPlan, Mkdirs, Creates, Deletes, Renames, Now
  <2>3. <<"take", "store">> \notin Lasts /\ Tail(<<"take", "store">>) = <<"store">>
    BY DEF Lasts
  <2> QED BY <1>1, <2>2, <2>3, AdvanceIs
<1>3. /\ Written(t) /\ ~Holding(t) /\ ~c.entry.dir /\ c.entry.start = 0 /\ c.entry.obj \in Object /\ c.entry.name \in Name
      /\ c.new \in Standing /\ c.new \in DirPlaces(c.in) /\ slot[c.new] = c.entry /\ c.new # c.old
      /\ c.old = NoPlace /\ c.fresh = 0 /\ c.in \in c.uses /\ c.in \in LiveDirs /\ c.in \in Roots \union {0}
      /\ \A x \in c.uses : x \in LiveDirs
  <2>1. Written(t) /\ ~Holding(t)
    BY <1>1, <1>2 DEF Written, Holding
  <2>2. c.in \in LiveDirs
    BY <1>1 DEF CallOK
  <2> QED BY <1>1, <1>2, <2>1, <2>2, RootsAre DEF CallOK, NewOK, PlanOK
<1>4. p = c.new
  <2>1. DirStart(c.in) /\ link \in Table /\ LinksInjective(link)
    BY <1>3, Starts, RootsAre
  <2>2. p # NoPlace /\ p \in DirPlaces(c.in) /\ slot[p].name = c.entry.name
    BY <1>3, <2>1, LookupIs, NoPlaceIsNone DEF DirPlaces
  <2> QED BY <1>1, <1>2, <2>2 DEF NewOK
<1>5. PICK d \in Found :
        /\ link' = [link EXCEPT ![d] = EndOfChain]
        /\ call' = [call EXCEPT ![t] = [Advance(c) EXCEPT !.entry = [slot[p] EXCEPT !.start = d], !.new = p]]
  <2>1. ~(~slot[p].dir /\ slot[p].start # 0)
    BY <1>3, <1>4
  <2> QED BY <2>1 DEF Take, Goes
<1>6. /\ old_root' = old_root /\ slot' = slot /\ UNCHANGED <<home, moved, cut, twice, leaky, faults>>
  BY DEF Take, history
<1>7. /\ d \in Cluster /\ d # 0
      /\ \A r \in Roots \union {0} : DirPlaces(r)' = DirPlaces(r)
  BY <1>5, TakeCluster
<1>8. /\ call'[t] = [Advance(c) EXCEPT !.entry = [slot[p] EXCEPT !.start = d], !.new = p]
      /\ \A u \in Thread : u # t => call'[u] = call[u]
  BY <1>1, <1>5, Steps
<1> HIDE DEF c, p
<1>9. c.entry \in [name : Name \union {".", "..", "cut"}, dir : BOOLEAN, start : Cluster \union {0}, obj : Object \union {"none"}]
  <2>1. c.entry # Empty /\ c.entry # Old /\ c.entry \in Entry
    BY <1>1, <1>3, NamesAre DEF CallType, c
  <2> QED BY <2>1 DEF Entry
<1>10. [c.entry EXCEPT !.start = d] \in Entry
  BY <1>7, <1>9 DEF Entry
<1>11. call'[t] = [c EXCEPT !.todo = <<"store">>, !.entry = [c.entry EXCEPT !.start = d], !.new = c.new]
  BY <1>1, <1>2, <1>3, <1>4, <1>8 DEF CallType, c
<1>12. /\ call'[t] \in CallType /\ call'[t].todo = <<"store">>
       /\ call'[t].op = c.op /\ call'[t].in = c.in /\ call'[t].entry = [c.entry EXCEPT !.start = d] /\ call'[t].old = c.old
       /\ call'[t].new = c.new /\ call'[t].fresh = c.fresh /\ call'[t].uses = c.uses
  <2>1. <<"store">> \in Todos
    BY DEF Todos, Creates
  <2> QED BY <1>1, <1>10, <1>11, <2>1 DEF CallType, c
<1>13. call'[t].entry.start = d /\ call'[t].entry.obj = c.entry.obj /\ call'[t].entry.name = c.entry.name
       /\ call'[t].entry.dir = c.entry.dir /\ [call'[t].entry EXCEPT !.start = 0] = c.entry
  BY <1>3, <1>9, <1>12
<1>14. Now(t)' = "store" /\ Busy(t)' /\ Holding(t)' /\ Written(t)' /\ ~(HasOld(t)')
  BY <1>2, <1>12 DEF Now, Busy, Holding, Written, HasOld, c
<1>15. Standing' = Standing /\ LiveDirs' = LiveDirs
  BY <1>6 DEF Standing, LiveDirs, Root
<1>16. CallInv(t)'
  <2>1. PlanOK(t)'
    BY <1>2, <1>3, <1>12, <1>14, NoPlaceIsNone DEF PlanOK, InPlan, Creates, Standing, c
  <2>2. CallOK(t)'
    BY <1>2, <1>3, <1>7, <1>12, <1>13, <1>14, <1>15 DEF CallOK, c
  <2>3. NewOK(t)'
    <3>1. \A q \in DirPlaces(c.in) : slot[q].name = c.entry.name => q = c.new
      BY <1>1, <1>2 DEF NewOK, c
    <3>2. DirPlaces(call[t].in)' = DirPlaces(c.in)
      <4>1. DirPlaces(call[t].in)' = {q \in Place : IF c.in = 0 THEN q[1] = 0 ELSE q[1] \in Chain(link', c.in)}
        BY <1>12 DEF DirPlaces
      <4>2. \A x : x = c.in => DirPlaces(x)' = DirPlaces(x)
        BY <1>3, <1>7
      <4> QED BY <4>1, <4>2 DEF DirPlaces
    <3> QED BY <1>3, <1>6, <1>12, <1>13, <1>14, <1>15, <3>1, <3>2 DEF NewOK
  <2>4. OldOK(t)' /\ FreshOK(t)'
    BY <1>3, <1>12, <1>14 DEF OldOK, FreshOK
  <2>5. OnlyOK(t)'
    BY <1>1, <1>6, <1>12, <1>13, <1>14, <1>15 DEF OnlyOK, c
  <2>6. BareOK(t)'
    BY <1>2, <1>12, <1>14 DEF BareOK
  <2> QED BY <2>1, <2>2, <2>3, <2>4, <2>5, <2>6 DEF CallInv
<1>17. call' \in [Thread -> CallType]
  BY <1>5, <1>8, <1>12 DEF TreeBody, ShapeOK
<1> QED BY <1>1, <1>2, <1>3, <1>5, <1>6, <1>8, <1>12, <1>13, <1>14, <1>16, <1>17, TakenKeeps DEF c

\* The steps of a call, and "clear" before them.
\* The steps that a growing directory may put clearing before.
StepName == {"clear", "enter", "dot", "dotdot", "take", "store", "third", "erase"}

\* A plan with one more step before it.
LEMMA Prepended ==
    ASSUME NEW s \in Seq(StepName), NEW x \in Seq(StepName), Len(x) = Len(s) + 1, x[1] = "clear",
           \A i \in 1..Len(s) : x[i + 1] = s[i]
    PROVE  <<"clear">> \o s = x
<1>1. <<"clear">> \in Seq(StepName) /\ Len(<<"clear">>) = 1 /\ <<"clear">>[1] = "clear"
  BY DEF StepName
<1> DEFINE y == <<"clear">> \o s
<1>2. y \in Seq(StepName) /\ Len(y) = Len(x) /\ \A i \in 1..Len(x) : y[i] = IF i <= 1 THEN <<"clear">>[i] ELSE s[i - 1]
  BY <1>1, ConcatProperties
<1> HIDE DEF y
<1>3. ASSUME NEW i \in 1..Len(x) PROVE y[i] = x[i]
  <2>1. CASE i = 1
    BY <1>1, <1>2, <2>1
  <2>2. CASE i # 1
    <3>1. i - 1 \in 1..Len(s) /\ (i - 1) + 1 = i /\ i > 1
      BY <2>2
    <3>2. x[(i - 1) + 1] = s[i - 1]
      BY <3>1
    <3> QED BY <1>2, <3>1, <3>2
  <2> QED BY <2>1, <2>2
<1> QED BY <1>2, <1>3, SeqEqual DEF y

\* The plan of a call whose directory has grown begins with clearing.
LEMMA ClearFirst ==
    /\ <<"clear">> \o <<"enter">> = <<"clear", "enter">>
    /\ <<"clear">> \o <<"enter", "take", "store">> = <<"clear", "enter", "take", "store">>
    /\ <<"clear">> \o <<"enter", "dot", "dotdot">> = <<"clear", "enter", "dot", "dotdot">>
    /\ <<"clear">> \o <<"enter", "erase">> = <<"clear", "enter", "erase">>
    /\ <<"clear">> \o <<"enter", "third", "erase">> = <<"clear", "enter", "third", "erase">>
<1>1. <<"clear">> \o <<"enter">> = <<"clear", "enter">>
  <2> DEFINE s == <<"enter">>
             x == <<"clear", "enter">>
  <2>1. s \in Seq(StepName) /\ x \in Seq(StepName) /\ Len(x) = Len(s) + 1 /\ x[1] = "clear"
        /\ \A i \in 1..Len(s) : x[i + 1] = s[i]
    BY DEF StepName
  <2> HIDE DEF s, x
  <2> QED BY <2>1, Prepended DEF s, x
<1>2. <<"clear">> \o <<"enter", "take", "store">> = <<"clear", "enter", "take", "store">>
  <2> DEFINE s == <<"enter", "take", "store">>
             x == <<"clear", "enter", "take", "store">>
  <2>1. s \in Seq(StepName) /\ x \in Seq(StepName) /\ Len(x) = Len(s) + 1 /\ x[1] = "clear"
        /\ \A i \in 1..Len(s) : x[i + 1] = s[i]
    BY DEF StepName
  <2> HIDE DEF s, x
  <2> QED BY <2>1, Prepended DEF s, x
<1>3. <<"clear">> \o <<"enter", "dot", "dotdot">> = <<"clear", "enter", "dot", "dotdot">>
  <2> DEFINE s == <<"enter", "dot", "dotdot">>
             x == <<"clear", "enter", "dot", "dotdot">>
  <2>1. s \in Seq(StepName) /\ x \in Seq(StepName) /\ Len(x) = Len(s) + 1 /\ x[1] = "clear"
        /\ \A i \in 1..Len(s) : x[i + 1] = s[i]
    BY DEF StepName
  <2> HIDE DEF s, x
  <2> QED BY <2>1, Prepended DEF s, x
<1>4. <<"clear">> \o <<"enter", "erase">> = <<"clear", "enter", "erase">>
  <2> DEFINE s == <<"enter", "erase">>
             x == <<"clear", "enter", "erase">>
  <2>1. s \in Seq(StepName) /\ x \in Seq(StepName) /\ Len(x) = Len(s) + 1 /\ x[1] = "clear"
        /\ \A i \in 1..Len(s) : x[i + 1] = s[i]
    BY DEF StepName
  <2> HIDE DEF s, x
  <2> QED BY <2>1, Prepended DEF s, x
<1>5. <<"clear">> \o <<"enter", "third", "erase">> = <<"clear", "enter", "third", "erase">>
  <2> DEFINE s == <<"enter", "third", "erase">>
             x == <<"clear", "enter", "third", "erase">>
  <2>1. s \in Seq(StepName) /\ x \in Seq(StepName) /\ Len(x) = Len(s) + 1 /\ x[1] = "clear"
        /\ \A i \in 1..Len(s) : x[i + 1] = s[i]
    BY DEF StepName
  <2> HIDE DEF s, x
  <2> QED BY <2>1, Prepended DEF s, x
<1> QED BY <1>1, <1>2, <1>3, <1>4, <1>5

\* A directory grows by one cluster.
LEMMA GrowCluster ==
    ASSUME TreeBody, NEW r \in Roots, NEW d \in Found,
           link' = [link EXCEPT ![Last(ChainFrom(r))] = d, ![d] = EndOfChain]
    PROVE  /\ d \in Cluster /\ d # 0 /\ link[d] = Free /\ d \notin Roots
           /\ link' \in Table /\ WellFormed(link', Roots)
           /\ Chain(link', r) = Chain(link, r) \union {d} /\ d \notin Chain(link, r)
           /\ \A h \in Roots : h # r => Chain(link', h) = Chain(link, h)
           /\ \A h \in Roots : h # r => \A x \in Chain(link, h) : link'[x] = link[x]
           /\ link'[d] = EndOfChain
           /\ \A x \in Cluster : x # d => (link'[x] = Free <=> link[x] = Free)
           /\ \A p \in Place : p[1] = d => slot[p] = Old
<1> DEFINE l == Last(ChainFrom(r))
           G == [link EXCEPT ![d] = EndOfChain]
<1>1. link \in Table /\ Roots \in SUBSET Cluster /\ WellFormed(link, Roots) /\ r \in Cluster
  BY RootsAre DEF TreeBody
<1>2. d \in Cluster /\ link[d] = Free /\ d # 0
  BY <1>1, FoundIs, MarksAreNotClusters DEF Free
<1>3. l \in Chain(link, r) /\ ~IsData(link[l]) /\ l \in Cluster /\ link[l] = EndOfChain
  <2>1. ~Linked(link, r) /\ LinksInjective(link)
    BY <1>1 DEF WellFormed, HeadsUnlinked
  <2>2. l \in Chain(link, r) /\ ~IsData(link[l])
    BY <1>1, <2>1, ChainFromIs
  <2>3. l \in Cluster /\ InChain(link[l])
    BY <1>1, <2>2, ChainInUse
  <2> QED BY <2>2, <2>3 DEF InChain
<1> HIDE DEF l
<1>4. G \in Table /\ WellFormed(G, Roots) /\ Detached(G, Roots, d)
  BY <1>1, <1>2, TakeKeeps
<1>5. l # d
  BY <1>2, <1>3, MarksAreNotClusters
<1>6. G[d] = EndOfChain /\ G[l] = EndOfChain /\ \A x \in Cluster : x # d => G[x] = link[x]
  BY <1>1, <1>2, <1>3, <1>5 DEF Table
<1>7. link' = [G EXCEPT ![l] = d]
  <2>1. link' = [link EXCEPT ![l] = d, ![d] = EndOfChain]
    BY DEF l
  <2> QED BY <1>1, <1>2, <1>3, <1>5, <2>1 DEF Table
<1> HIDE DEF G
<1>8. link' \in Table /\ WellFormed(link', Roots)
  BY <1>1, <1>2, <1>3, <1>4, <1>5, <1>6, <1>7, AppendKeeps
<1>9. link'[l] = d /\ link'[d] = EndOfChain /\ \A x \in Cluster : x # l => link'[x] = G[x]
  BY <1>2, <1>3, <1>4, <1>5, <1>6, <1>7 DEF Table
<1>10. ASSUME NEW h \in Roots
       PROVE  Chain(G, h) = Chain(link, h) /\ d \notin Chain(link, h) /\ d # h
  <2>1. \A x \in Chain(link, h) : x \in Cluster /\ x # d
    BY <1>1, <1>2, ChainInUse, MarksAreNotClusters DEF InChain, IsData
  <2>2. h \in Cluster /\ \A x \in Chain(link, h) : G[x] = link[x]
    BY <1>1, <1>6, <2>1
  <2> QED BY <2>1, <2>2, ChainKept, ChainFollows
<1>11. Chain(link', r) = Chain(link, r) \union {d}
  <2>1. Chain(G, r) = Chain(link, r) /\ l \in Chain(G, r)
    BY <1>3, <1>10
  <2>2. ~IsData(G[l]) /\ ~IsData(G[d])
    BY <1>6, MarksAreNotClusters DEF IsData
  <2>3. Chain(link', r) = Chain(G, r) \union {d}
    <3>1. ASSUME NEW F, NEW K, ~IsData(F[l]), l \in Chain(F, r), ~IsData(F[d]), K[l] = d,
                 \A x \in Cluster : x # l => K[x] = F[x]
          PROVE  Chain(K, r) = Chain(F, r) \union {d}
      BY <1>1, <1>2, <1>5, <3>1, ChainAppended
    <3> QED BY <1>9, <2>1, <2>2, <3>1
  <2> QED BY <2>1, <2>3
<1>12. ASSUME NEW h \in Roots, h # r
       PROVE  Chain(link', h) = Chain(link, h) /\ \A x \in Chain(link, h) : link'[x] = link[x]
  <2>1. Chain(link, h) \cap Chain(link, r) = {} /\ h \in Cluster
    BY <1>1, <1>12, ChainsDisjoint
  <2>2. \A x \in Chain(link, h) : x \in Cluster /\ x # l /\ x # d
    BY <1>1, <1>3, <1>10, <2>1, ChainFollows
  <2>3. \A x \in Chain(link, h) : link'[x] = link[x]
    BY <1>6, <1>9, <2>2
  <2> QED BY <2>1, <2>3, ChainKept
<1>13. \A x \in Cluster : x # d => (link'[x] = Free <=> link[x] = Free)
  BY <1>2, <1>3, <1>6, <1>9, MarksAreNotClusters
<1>14. \A p \in Place : p[1] = d => slot[p] = Old
  BY <1>2 DEF TreeBody, CleanOK
<1> QED BY <1>2, <1>8, <1>9, <1>10, <1>11, <1>12, <1>13, <1>14

\* A step that does no damage lets only a full directory grow.
LEMMA GrowIs ==
    ASSUME NEW t \in Thread, Grow(t), damage' = {}
    PROVE  Hole(Target(t)) = NoPlace /\ UNCHANGED <<damage, faults>>
<1>1. damage' # damage \union {"a name is made behind a hole"}
  OBVIOUS
<1> QED BY <1>1 DEF Grow, NoHoleSeen

\* A new directory has places for "." and "..".
LEMMA GrowAtEnter ==
    ASSUME TreeBody, NEW t \in Thread, Grow(t), damage' = {}
    PROVE  Doing(t, {"enter"})
<1> SUFFICES ASSUME ~Doing(t, {"enter"}) PROVE FALSE
  OBVIOUS
<1> DEFINE s == call[t].entry.start
<1>1. Doing(t, {"dot", "dotdot"}) /\ Target(t) = s /\ Hole(s) = NoPlace
  BY GrowIs DEF Grow, Doing, Entering, Target
<1>2. Now(t) \in {"dot", "dotdot"} /\ BareOK(t) /\ CallOK(t) /\ Busy(t) /\ call[t].op = "mkdir"
  BY <1>1, StepIs, MkdirStep
<1>3. s \in Cluster /\ s # 0 /\ s \in LiveDirs
  BY <1>2, MarksAreNotClusters DEF CallOK, Holding, Free
<1>4. \A p \in DirPlaces(s) : slot[p] # Empty
  <2>1. s \in Roots \union {0}
    BY <1>3, RootsAre
  <2> QED BY <1>1, <2>1, Starts, RootsAre, HoleIs, NoPlaceIsNone DEF DirPlaces
<1>5. <<s, 1>> \in DirPlaces(s) /\ <<s, 2>> \in DirPlaces(s)
  <2>1. Capacity \in Nat /\ Capacity >= 3
    BY TreeAssumption, Zenon
  <2>2. 1 \in 1..Capacity /\ 2 \in 1..Capacity
    BY <2>1
  <2>3. <<s, 1>> \in Place /\ <<s, 2>> \in Place /\ <<s, 1>>[1] = s /\ <<s, 2>>[1] = s
    BY <1>3, <2>2 DEF Place
  <2> QED BY <1>3, <2>3, ChainFollows DEF DirPlaces
<1>6. <<s, 1>> # <<s, 2>>
  OBVIOUS
<1> QED BY <1>2, <1>4, <1>5, <1>6 DEF BareOK

\* A directory without a hole gets a cluster.
LEMMA GrowKeeps ==
    ASSUME TreeBody, NEW t \in Thread, Grow(t), damage' = {}
    PROVE  TreeBody'
<1> DEFINE c == call[t]
           r == call[t].in
<1>1. /\ Now(t) = "enter" /\ Busy(t) /\ InPlan(c) /\ c \in CallType
      /\ PlanOK(t) /\ CallOK(t) /\ NewOK(t) /\ OldOK(t) /\ OnlyOK(t) /\ BareOK(t) /\ FreshOK(t)
      /\ Doing(t, {"enter"})
  BY GrowAtEnter, StepIs
<1>2. PICK d \in Found :
        /\ link' = [link EXCEPT ![Last(ChainFrom(Target(t)))] = d, ![d] = EndOfChain]
        /\ call' = [call EXCEPT ![t].fresh = d, ![t].todo = <<"clear">> \o @]
  BY DEF Grow
<1>3. /\ old_root' = old_root /\ slot' = slot /\ UNCHANGED <<home, moved, cut, twice, leaky, faults>>
  BY GrowIs DEF Grow
<1>4. /\ Target(t) = r /\ r # 0 /\ r \in LiveDirs /\ r \in Roots /\ r \in c.uses /\ r \in Cluster
      /\ c.fresh = 0
  <2>1. Target(t) = r /\ r # 0
    BY <1>1 DEF Grow, Target
  <2>2. r \in LiveDirs /\ r \in c.uses /\ c.fresh = 0
    BY <1>1 DEF CallOK, PlanOK
  <2> QED BY <2>1, <2>2, RootsAre
<1>5. /\ d \in Cluster /\ d # 0 /\ link[d] = Free /\ d \notin Roots
      /\ link' \in Table /\ WellFormed(link', Roots)
      /\ Chain(link', r) = Chain(link, r) \union {d} /\ d \notin Chain(link, r)
      /\ \A h \in Roots : h # r => Chain(link', h) = Chain(link, h)
      /\ \A h \in Roots : h # r => \A x \in Chain(link, h) : link'[x] = link[x]
      /\ link'[d] = EndOfChain
      /\ \A x \in Cluster : x # d => (link'[x] = Free <=> link[x] = Free)
      /\ \A p \in Place : p[1] = d => slot[p] = Old
  BY <1>2, <1>4, GrowCluster, ZenonT(30)
<1>6. /\ call'[t] = [c EXCEPT !.fresh = d, !.todo = <<"clear">> \o c.todo]
      /\ \A u \in Thread : u # t => call'[u] = call[u]
  BY <1>2 DEF TreeBody, ShapeOK, CallType
<1>7. \/ c.op = "mkdir" /\ c.todo = <<"enter", "dot", "dotdot">>
         /\ <<"clear">> \o c.todo = <<"clear", "enter", "dot", "dotdot">>
      \/ c.op = "create" /\ c.todo = <<"enter">> /\ <<"clear">> \o c.todo = <<"clear", "enter">>
      \/ c.op = "create" /\ c.todo = <<"enter", "take", "store">>
         /\ <<"clear">> \o c.todo = <<"clear", "enter", "take", "store">>
      \/ c.op = "rename" /\ c.todo = <<"enter", "erase">> /\ <<"clear">> \o c.todo = <<"clear", "enter", "erase">>
      \/ c.op = "rename" /\ c.todo = <<"enter", "third", "erase">>
         /\ <<"clear">> \o c.todo = <<"clear", "enter", "third", "erase">>
  <2>1. c.todo # <<>>
    BY <1>1, AdvanceIs
  <2>2. \/ c.op = "mkdir" /\ c.todo = <<"enter", "dot", "dotdot">>
        \/ c.op = "create" /\ c.todo \in {<<"enter">>, <<"enter", "take", "store">>}
        \/ c.op = "rename" /\ c.todo \in {<<"enter", "erase">>, <<"enter", "third", "erase">>}
    BY <1>1, <2>1 DEF InPlan, Mkdirs, Creates, Deletes, Renames, Now
  <2> QED BY <2>2, ClearFirst, Zenon
<1> HIDE DEF c, r
<1>8. /\ <<"clear">> \o c.todo \in Todos /\ Head(<<"clear">> \o c.todo) = "clear" /\ <<"clear">> \o c.todo # <<>>
      /\ c.op \in {"mkdir", "create", "rename"}
      /\ c.op = "mkdir" => <<"clear">> \o c.todo \in Mkdirs
      /\ c.op = "create" => <<"clear">> \o c.todo \in Creates
      /\ c.op = "rename" => <<"clear">> \o c.todo \in Renames
  <2> DEFINE s == <<"clear">> \o c.todo
  <2>1. \/ c.op = "mkdir" /\ s = <<"clear", "enter", "dot", "dotdot">>
        \/ c.op = "create" /\ s = <<"clear", "enter">>
        \/ c.op = "create" /\ s = <<"clear", "enter", "take", "store">>
        \/ c.op = "rename" /\ s = <<"clear", "enter", "erase">>
        \/ c.op = "rename" /\ s = <<"clear", "enter", "third", "erase">>
    BY <1>7
  <2> HIDE DEF s
  <2>2. Head(s) = "clear" /\ s # <<>> /\ c.op \in {"mkdir", "create", "rename"}
    BY <2>1
  <2>3. /\ c.op = "mkdir" => s \in Mkdirs
        /\ c.op = "create" => s \in Creates
        /\ c.op = "rename" => s \in Renames
    BY <2>1 DEF Mkdirs, Creates, Renames
  <2>4. s \in Todos
    BY <2>2, <2>3 DEF Todos
  <2> QED BY <2>2, <2>3, <2>4 DEF s
<1>9. /\ call'[t] \in CallType /\ call'[t].todo = <<"clear">> \o c.todo
      /\ call'[t].op = c.op /\ call'[t].in = r /\ call'[t].entry = c.entry /\ call'[t].old = c.old
      /\ call'[t].new = c.new /\ call'[t].fresh = d /\ call'[t].uses = c.uses
  BY <1>1, <1>5, <1>6, <1>8 DEF CallType, c, r
<1>10. Now(t)' = "clear" /\ Busy(t)' /\ (Holding(t)' <=> Holding(t)) /\ ~(Written(t)') /\ ~Written(t)
       /\ (HasOld(t)' <=> HasOld(t))
  BY <1>1, <1>8, <1>9 DEF Now, Busy, Holding, Written, HasOld, c
<1>11. Standing' = Standing
  BY <1>3 DEF Standing
<1>12. LiveDirs \subseteq Roots \union {0} /\ Roots \in SUBSET Cluster
  BY RootsAre
<1>13. /\ \A x \in Roots \union {0} : x # r => DirPlaces(x)' = DirPlaces(x)
       /\ DirPlaces(r) \subseteq DirPlaces(r)'
       /\ \A p \in DirPlaces(r)' : p \in DirPlaces(r) \/ (p \in Place /\ p[1] = d /\ slot[p] = Old)
       /\ \A x \in Roots \union {0} : DirPlaces(x) \subseteq DirPlaces(x)'
  <2>1. \A x \in Roots \union {0} : x # r => DirPlaces(x)' = DirPlaces(x)
    BY <1>5 DEF DirPlaces
  <2>2. DirPlaces(r) \subseteq DirPlaces(r)'
    <3>1. ASSUME NEW x, x = r PROVE DirPlaces(x) \subseteq DirPlaces(x)'
      BY <1>4, <1>5, <3>1 DEF DirPlaces
    <3> QED BY <1>4, <1>5, <1>9 DEF DirPlaces, r
  <2>3. \A p \in DirPlaces(r)' : p \in DirPlaces(r) \/ (p \in Place /\ p[1] = d /\ slot[p] = Old)
    BY <1>4, <1>5, <1>9 DEF DirPlaces, r
  <2>4. ASSUME NEW x \in Roots \union {0} PROVE DirPlaces(x) \subseteq DirPlaces(x)'
    BY <1>5 DEF DirPlaces
  <2> QED BY <2>1, <2>2, <2>3, <2>4
<1>14. \A x \in Roots \union {0} : \A p \in DirPlaces(x)' :
          p \in DirPlaces(x) \/ (x = r /\ p \in Place /\ p[1] = d /\ slot[p] = Old)
  BY <1>5 DEF DirPlaces
<1>15. NamesStay
  <2>1. \A p \in Standing : slot[p] # Old
    BY NamesAre DEF Standing
  <2> QED BY <1>3, <1>11, <1>12, <1>13, <1>14, <2>1 DEF NamesStay
<1>16. /\ LiveDirs' = LiveDirs /\ Heads' = Heads /\ Root' = Root
       /\ StandingOK' /\ NamesOK' /\ CutOK' /\ HomeOK' /\ Ranked' /\ OwnersOK' /\ DotsOK'
  <2>1. \A p \in Standing : slot[p].dir =>
                 \A q \in DirPlaces(slot[p].start)' : slot'[q].name = ".." =>
                    q \in DirPlaces(slot[p].start) /\ slot'[q] = slot[q]
    <3> SUFFICES ASSUME NEW p \in Standing, slot[p].dir, NEW q \in DirPlaces(slot[p].start)', slot'[q].name = ".."
                 PROVE  q \in DirPlaces(slot[p].start)
      BY <1>3
    <3>1. PICK x \in Roots \union {0} : x = slot[p].start
      BY <1>12 DEF LiveDirs
    <3>2. q \in DirPlaces(x)'
      BY <1>3, <3>1
    <3> QED BY <1>3, <1>14, <3>1, <3>2, NamesAre
  <2>2. ~(call[t].op = "rename" /\ Written(t))
    BY <1>10
  <2>3. \A p \in Place : IsDots(slot[p]) => IsDots(slot'[p])
    BY <1>3
  <2> QED BY <1>3, <1>6, <1>15, <2>1, <2>2, <2>3, NamesStep
<1>17. Roots' = Roots
  <2>1. ASSUME NEW u \in Thread PROVE (Holding(u)' <=> Holding(u)) /\ call'[u].entry = call[u].entry
    BY <1>6, <1>9, <1>10 DEF Holding, Now, c
  <2> QED BY <1>16, <2>1 DEF Roots
<1>18. CallsApart' /\ HeldLoose'
  <2>1. call'[t].uses \subseteq call[t].uses /\ call'[t].entry.obj = call[t].entry.obj
        /\ call'[t].entry.start = call[t].entry.start
    BY <1>9 DEF c
  <2> QED BY <1>1, <1>6, <1>10, <1>16, <2>1, ApartStays
<1>19. CleanOK'
  <2>1. CleanOK
    BY DEF TreeBody
  <2>2. ASSUME NEW x \in LiveDirs, NEW p \in DirPlaces(x)', slot[p] = Old
        PROVE  \E u \in Thread : call'[u].fresh # 0 /\ call'[u].fresh = p[1]
    <3>1. CASE p \in DirPlaces(x)
      <4>1. PICK u \in Thread : call[u].fresh # 0 /\ call[u].fresh = p[1]
        BY <2>1, <2>2, <3>1 DEF CleanOK
      <4>2. u # t
        BY <1>4, <4>1 DEF c
      <4> QED BY <1>6, <4>1, <4>2
    <3>2. CASE p[1] = d
      BY <1>5, <1>9, <3>2
    <3> QED BY <1>12, <1>14, <2>2, <3>1, <3>2
  <2>3. ASSUME NEW p \in Place, p[1] # 0, link'[p[1]] = Free PROVE slot[p] = Old
    <3>1. p[1] \in Cluster /\ p[1] # d
      BY <1>5, <2>3, MarksAreNotClusters DEF Place
    <3> QED BY <1>5, <2>1, <2>3, <3>1 DEF CleanOK
  <2>4. ASSUME NEW x \in Roots, NEW p \in DirPlaces(x)', slot[p].name = ".."
        PROVE  \E q \in DirPlaces(x)' : slot[q].name = "."
    <3>1. p \in DirPlaces(x)
      BY <1>14, <2>4, NamesAre
    <3>2. PICK q \in DirPlaces(x) : slot[q].name = "."
      BY <2>1, <2>4, <3>1 DEF CleanOK
    <3> QED BY <1>13, <3>2
  <2> QED BY <1>3, <1>16, <1>17, <2>2, <2>3, <2>4 DEF CleanOK
<1>20. ShapeOK'
  <2>1. call' \in [Thread -> CallType]
    <3>1. call' = [call EXCEPT ![t] = call'[t]]
      BY <1>2 DEF TreeBody, ShapeOK, CallType
    <3> QED BY <1>9, <3>1 DEF TreeBody, ShapeOK
  <2> QED BY <1>3, <1>5, <2>1 DEF TreeBody, ShapeOK
<1>21. ASSUME NEW u \in Thread, u # t PROVE CallInv(u)'
  <2>1. Busy(u) => \A x \in call[u].uses \cap Cluster : \A y \in Chain(link, x) : link'[y] = link[y]
    <3> SUFFICES ASSUME Busy(u), NEW x \in call[u].uses, x \in Cluster PROVE \A y \in Chain(link, x) : link'[y] = link[y]
      OBVIOUS
    <3>1. x \in Roots
      BY UsesAre, MarksAreNotClusters DEF Free
    <3>2. x # r
      BY <1>1, <1>4, <1>21 DEF TreeBody, CallsApart, c
    <3> QED BY <1>5, <3>1, <3>2
  <2>2. Spared(u)
    BY <1>1, <1>3, <1>6, <1>11, <1>16, <1>21, <2>1, NearSteps
  <2> QED BY <1>3, <2>2, SparedKeeps
<1>22. CallInv(t)'
  <2>1. PlanOK(t)'
    BY <1>1, <1>5, <1>8, <1>9, <1>10 DEF PlanOK, InPlan, c
  <2>2. CallOK(t)'
    <3>1. c.op = "rename" => (c.todo \in {<<"enter", "erase">>, <<"clear", "enter", "erase">>} <=>
                               <<"clear">> \o c.todo \in {<<"enter", "erase">>, <<"clear", "enter", "erase">>})
      <4>1. /\ <<"enter", "third", "erase">> # <<"enter", "erase">>
            /\ <<"clear", "enter", "third", "erase">> # <<"clear", "enter", "erase">>
            /\ <<"enter", "third", "erase">> # <<"clear", "enter", "erase">>
            /\ <<"clear", "enter", "third", "erase">> # <<"enter", "erase">>
        OBVIOUS
      <4> QED BY <1>7, <4>1
    <3> QED BY <1>1, <1>8, <1>9, <1>10, <1>16, <3>1 DEF CallOK, c, r
  <2>3. NewOK(t)'
    <3>1. \A q \in DirPlaces(r) : slot[q].name = c.entry.name => q = c.new
      BY <1>1, <1>8 DEF NewOK, c, r
    <3>2. c.entry.name \in Name
      BY <1>1, <1>8 DEF CallOK, c
    <3>3. \A q \in DirPlaces(r)' : slot[q].name = c.entry.name => q = c.new
      BY <1>13, <3>1, <3>2, NamesAre
    <3>4. DirPlaces(call[t].in)' = DirPlaces(r)'
      BY DEF r
    <3> QED BY <1>3, <1>9, <1>10, <3>3, <3>4 DEF NewOK
  <2>4. FreshOK(t)'
    <3>1. d \in Chain(link', r) /\ d # r
      BY <1>4, <1>5
    <3> QED BY <1>3, <1>4, <1>5, <1>9, <3>1 DEF FreshOK
  <2>5. OldOK(t)'
    <3> SUFFICES ASSUME HasOld(t)
                 PROVE  /\ c.old \in Standing
                        /\ \E x \in c.uses : x \in LiveDirs /\ c.old \in DirPlaces(x)'
                        /\ Same(slot[c.old], c.entry)
      BY <1>3, <1>9, <1>10, <1>11, <1>16 DEF OldOK, Same
    <3>1. c.old \in Standing /\ Same(slot[c.old], c.entry)
          /\ \E x \in c.uses : x \in LiveDirs /\ c.old \in DirPlaces(x)
      BY <1>1 DEF OldOK, c
    <3> QED BY <1>12, <1>13, <3>1
  <2>6. OnlyOK(t)'
    BY <1>1, <1>3, <1>9, <1>10, <1>11 DEF OnlyOK, c
  <2>7. BareOK(t)'
    <3>1. CASE c.op = "mkdir"
      <4>1. c.entry.start \in Roots /\ c.entry.start # r
        <5>1. Holding(t)
          BY <1>1, <3>1 DEF Holding, c
        <5> QED BY <1>1, <3>1, <5>1, MarksAreNotClusters DEF Roots, CallOK, c, r, Free
      <4>2. PICK s \in Roots : s = c.entry.start /\ s # r
        BY <4>1
      <4>3. DirPlaces(call[t].entry.start)' = DirPlaces(s)'
        BY <1>9, <4>2 DEF DirPlaces, c
      <4>4. \A p \in DirPlaces(s)' : slot[p] = Empty /\ p \notin Standing
        <5>1. \A p \in DirPlaces(s) : slot[p] = Empty /\ p \notin Standing
          BY <1>1, <3>1, <4>2, NamesAre DEF BareOK, Standing, c
        <5> QED BY <1>13, <4>2, <5>1
      <4> QED BY <1>3, <1>9, <1>10, <1>11, <3>1, <4>3, <4>4 DEF BareOK
    <3>2. CASE c.op # "mkdir"
      BY <1>8, <1>9, <1>10, <3>2 DEF BareOK
    <3> QED BY <3>1, <3>2
  <2> QED BY <2>1, <2>2, <2>3, <2>4, <2>5, <2>6, <2>7 DEF CallInv
<1>23. WellFormed(link, Roots)'
  BY <1>5, <1>17
<1>24. NoLeak'
  <2>1. ASSUME ~leaky, NEW x \in Cluster, link'[x] # Free PROVE \E h \in Roots : x \in Chain(link', h)
    <3>1. CASE x = d
      BY <1>4, <1>5, <3>1
    <3>2. CASE x # d
      <4>1. PICK h \in Roots : x \in Chain(link, h)
        BY <1>5, <2>1, <3>2 DEF TreeBody, NoLeak
      <4> QED BY <1>5, <4>1
    <3> QED BY <3>1, <3>2
  <2> QED BY <1>3, <1>17, <2>1 DEF NoLeak
<1> QED BY <1>16, <1>18, <1>19, <1>20, <1>21, <1>22, <1>23, <1>24 DEF TreeBody

\* The first cluster of a file is written to its name.
LEMMA StoreKeeps ==
    ASSUME TreeBody, NEW t \in Thread, Store(t)
    PROVE  TreeBody'
<1> DEFINE c == call[t]
           d == call[t].entry.start
           n == call[t].new
<1>0. Doing(t, {"store"})
  BY DEF Store
<1>1. /\ Now(t) = "store" /\ Busy(t) /\ InPlan(c) /\ c \in CallType
      /\ PlanOK(t) /\ CallOK(t) /\ NewOK(t) /\ OldOK(t) /\ OnlyOK(t) /\ BareOK(t) /\ FreshOK(t)
  BY <1>0, StepIs
<1>2. c.op = "create" /\ Advance(c) = NoCall
  <2>1. c.todo # <<>>
    BY <1>1, AdvanceIs
  <2>2. c.op = "create" /\ c.todo = <<"store">>
    BY <1>1, <2>1 DEF InPlan, Mkdirs, Creates, Deletes, Renames, Now
  <2>3. c.todo \in Lasts
    BY <2>2 DEF Lasts
  <2> QED BY <1>1, <2>2, <2>3, AdvanceIs
<1>3. /\ slot' = [slot EXCEPT ![n].start = d] /\ call' = [call EXCEPT ![t] = NoCall]
      /\ old_root' = old_root /\ link' = link /\ UNCHANGED <<home, moved, cut, twice, leaky, faults>>
  BY <1>2 DEF Store, Redirect, Goes, history
<1>4. call'[t] = NoCall /\ \A u \in Thread : u # t => call'[u] = call[u]
  BY <1>0, <1>3, Steps
<1>5. /\ n \in Standing /\ n \in Place /\ n \in DirPlaces(c.in) /\ slot[n] = [c.entry EXCEPT !.start = 0] /\ c.entry \in Entry
      /\ d \in Cluster /\ d # 0 /\ Holding(t) /\ c.in \in c.uses /\ c.in \in LiveDirs
      /\ ~c.entry.dir /\ c.entry.name \in Name /\ c.entry.obj \in Object
  <2>1. Holding(t) /\ Written(t)
    BY <1>1 DEF Holding, Written
  <2> QED BY <1>1, <1>2, <2>1, MarksAreNotClusters DEF NewOK, CallOK, CallType, Standing, Free
<1>6. c.fresh = 0 /\ ~(Holding(t)') /\ ~(Written(t)') /\ ~(Busy(t)') /\ CallInv(t)'
  BY <1>1, <1>4, IdleInv DEF PlanOK
<1> HIDE DEF c, d, n
<1>7. /\ slot[n].start = 0 /\ slot[n].dir = FALSE /\ slot[n].name = c.entry.name /\ slot[n].obj = c.entry.obj
      /\ slot'[n].start = d /\ slot'[n].dir = FALSE /\ slot'[n].name = c.entry.name /\ slot'[n].obj = c.entry.obj
      /\ slot'[n] = c.entry
  <2>1. c.entry = [name |-> c.entry.name, dir |-> c.entry.dir, start |-> d, obj |-> c.entry.obj]
    BY <1>5 DEF Entry, Empty, Old, c, d
  <2>2. slot[n] = [name |-> c.entry.name, dir |-> c.entry.dir, start |-> 0, obj |-> c.entry.obj]
    BY <1>5, <2>1
  <2>3. slot'[n] = [slot[n] EXCEPT !.start = d]
    BY <1>3, <1>5 DEF TreeBody, ShapeOK
  <2>4. c.entry.dir = FALSE
    BY <1>5, EntryIs
  <2> QED BY <2>1, <2>2, <2>3, <2>4
<1>8. \A p \in Place : p # n => slot'[p] = slot[p]
  BY <1>3, <1>5 DEF TreeBody, ShapeOK
<1>9. \A p \in Place : slot'[p].name = slot[p].name /\ slot'[p].dir = slot[p].dir /\ slot'[p].obj = slot[p].obj
  BY <1>7, <1>8
<1>10. \A r : DirPlaces(r)' = DirPlaces(r) /\ ParentCluster(r)' = ParentCluster(r)
  BY <1>3 DEF DirPlaces, ParentCluster, Root
<1>11. Standing' = Standing /\ Root' = Root
  BY <1>3, <1>9 DEF Standing, Root
<1>12. LiveDirs' = LiveDirs
  <2>1. \A p \in Standing : slot'[p].dir = slot[p].dir /\ (slot[p].dir => slot'[p].start = slot[p].start)
    BY <1>7, <1>8, <1>9 DEF Standing
  <2> QED BY <1>11, <2>1 DEF LiveDirs
<1>13. Heads' = Heads \union {d} /\ d \notin Heads
  <2>1. Heads' \subseteq Heads \union {d}
    BY <1>8, <1>7, <1>11 DEF Heads, Standing
  <2>2. Heads \subseteq Heads'
    BY <1>8, <1>7, <1>11 DEF Heads, Standing
  <2>3. d \in Heads'
    BY <1>5, <1>7, <1>11 DEF Heads
  <2>4. d \notin Heads
    BY <1>5 DEF TreeBody, HeldLoose, d
  <2> QED BY <2>1, <2>2, <2>3, <2>4
<1>14. ASSUME NEW u \in Thread, u # t
       PROVE  /\ (Holding(u))' = Holding(u) /\ (Busy(u))' = Busy(u) /\ call'[u] = call[u] /\ (Written(u))' = Written(u)
              /\ Holding(u) => call[u].entry.start \notin Heads \union {d}
  <2>1. /\ (Holding(u))' = Holding(u) /\ (Busy(u))' = Busy(u) /\ call'[u] = call[u] /\ (Written(u))' = Written(u)
    BY <1>4, <1>14 DEF Holding, Now, Busy, Written
  <2>2. Holding(u) => Busy(u)
    BY BusyIs DEF TreeBody, CallInv
  <2>3. Holding(u) => call[u].entry.start # d
    BY <1>1, <1>5, <1>14, <2>2 DEF TreeBody, CallsApart, d
  <2> QED BY <2>1, <2>3 DEF TreeBody, HeldLoose
<1>15. Roots' = Roots
  <2>1. Roots' \subseteq Roots
    BY <1>5, <1>6, <1>13, <1>14 DEF Roots, d
  <2>2. Roots \subseteq Roots'
    BY <1>13, <1>14 DEF Roots, d
  <2> QED BY <2>1, <2>2
<1>16. CallsApart' /\ HeldLoose'
  <2>1. CallsApart'
    BY <1>6, <1>14 DEF TreeBody, CallsApart
  <2> QED BY <1>6, <1>13, <1>14, <2>1 DEF HeldLoose
<1>17. StandingOK'
  <2>1. d # Root
    BY <1>5, <1>13 DEF Heads
  <2>2. \A p \in Standing : /\ slot'[p].obj \in Object
                            /\ slot'[p].dir => slot'[p].start # 0
                            /\ slot'[p].start # 0 => slot'[p].start # Root
                            /\ \E r \in LiveDirs : p \in DirPlaces(r)
    BY <1>7, <1>8, <1>9, <2>1 DEF TreeBody, StandingOK, Standing
  <2> QED BY <1>10, <1>11, <1>12, <2>2 DEF StandingOK
<1>18. OwnersOK'
  <2> SUFFICES ASSUME NEW p \in Standing, NEW q \in Standing, p # q
               PROVE  /\ slot'[p].start = slot'[q].start /\ slot'[p].start # 0 => slot'[p].obj = slot'[q].obj
                      /\ slot'[p].obj = slot'[q].obj =>
                          /\ Same(slot'[p], slot'[q])
                          /\ \/ slot'[p].obj \in twice
                             \/ \E u \in Thread : /\ call'[u].op = "rename" /\ Written(u)'
                                                  /\ {p, q} = {call'[u].old, call'[u].new}
    <3>1. twice' = twice
      BY <1>3
    <3>2. Standing' = Standing
      BY <1>11
    <3> QED BY <3>1, <3>2 DEF OwnersOK, Same
  <2>1. p \in Place /\ q \in Place
    BY DEF Standing
  <2>2. CASE p = n \/ q = n
    <3>1. \A x \in Standing : x # n => slot[x].start # d
      BY <1>5, <1>13 DEF Heads
    <3>2. \A x \in Standing : slot[x].obj = slot[n].obj => x = n
      BY <1>1, <1>2, <1>7, NoPlaceIsNone DEF OnlyOK, PlanOK, Standing, c, n
    <3> QED BY <1>5, <1>7, <1>8, <1>9, <2>1, <2>2, <3>1, <3>2
  <2>3. CASE p # n /\ q # n
    <3>1. slot'[p] = slot[p] /\ slot'[q] = slot[q]
      BY <1>8, <2>1, <2>3
    <3>2. \A u \in Thread : call[u].op = "rename" => u # t
      BY <1>2 DEF c
    <3> QED BY <1>14, <3>1, <3>2 DEF TreeBody, OwnersOK
  <2> QED BY <2>2, <2>3
<1>19. CleanOK'
  <2>1. CleanOK
    BY DEF TreeBody
  <2>2. \A p \in Place : slot'[p] = Old <=> slot[p] = Old
    <3>1. slot'[n] # Old /\ slot[n] # Old
      BY <1>5, <1>7, NamesAre
    <3> QED BY <1>8, <3>1
  <2>3. ASSUME NEW r \in LiveDirs, NEW p \in DirPlaces(r), slot[p] = Old
        PROVE  \E u \in Thread : call'[u].fresh # 0 /\ call'[u].fresh = p[1]
    <3>1. PICK u \in Thread : call[u].fresh # 0 /\ call[u].fresh = p[1]
      BY <2>1, <2>3 DEF CleanOK
    <3>2. u # t
      BY <1>6, <3>1 DEF c
    <3> QED BY <1>4, <3>1, <3>2
  <2>4. \A p \in Place : p[1] # 0 /\ link[p[1]] = Free => slot'[p] = Old
    BY <2>1, <2>2 DEF CleanOK
  <2>5. \A r \in Roots : \A p \in DirPlaces(r) :
           slot'[p].name = ".." => \E q \in DirPlaces(r) : slot'[q].name = "."
    BY <1>9, <2>1 DEF CleanOK, DirPlaces
  <2> QED BY <1>3, <1>10, <1>12, <1>15, <2>2, <2>3, <2>4, <2>5 DEF CleanOK, DirPlaces
<1>20. DotsOK'
  <2> SUFFICES ASSUME NEW p \in Standing, slot'[p].dir, slot'[p].obj \notin moved \union twice,
                      \A u \in Thread : call'[u].op = "rename" => call'[u].new # p,
                      NEW q \in DirPlaces(slot'[p].start), slot'[q].name = ".."
               PROVE  slot'[q].start = ParentCluster(p)
    <3>1. \A x : DirPlaces(slot[x].start)' = DirPlaces(slot'[x].start)
      BY <1>3 DEF DirPlaces
    <3> QED BY <1>3, <1>10, <1>11, <3>1 DEF DotsOK
  <2>1. p # n /\ p \in Place /\ q \in Place /\ q # n
    <3>1. slot'[n].name # ".."
      BY <1>5, <1>7, NamesAre
    <3> QED BY <1>7, <3>1 DEF Standing, DirPlaces
  <2>2. slot'[p] = slot[p] /\ slot'[q] = slot[q]
    BY <1>8, <2>1
  <2>3. \A u \in Thread : call[u].op = "rename" => call[u].new # p
    BY <1>2, <1>4 DEF c
  <2> QED BY <2>2, <2>3 DEF TreeBody, DotsOK
<1>21. NamesOK' /\ CutOK' /\ HomeOK' /\ Ranked'
  <2>1. NamesOK'
    BY <1>9, <1>10, <1>11, <1>12 DEF TreeBody, NamesOK, Standing
  <2>2. CutOK'
    <3> SUFFICES ASSUME NEW r \in LiveDirs, NEW p \in DirPlaces(r), slot'[p].name = "cut"
                 PROVE  p = <<r, 2>> \/ (p = <<r, 3>> /\ IsDots(slot'[<<r, 2>>]))
      BY <1>10, <1>12 DEF CutOK, IsDots
    <3>1. p \in Place /\ slot[p].name = "cut"
      BY <1>9 DEF DirPlaces
    <3>2. p = <<r, 3>> => <<r, 2>> \in Place
      BY <3>1, PlaceBefore
    <3>3. p = <<r, 2>> \/ (p = <<r, 3>> /\ IsDots(slot[<<r, 2>>]))
      BY <3>1 DEF TreeBody, CutOK
    <3> QED BY <1>9, <3>2, <3>3 DEF IsDots
  <2>3. HomeOK'
    <3> SUFFICES ASSUME NEW o \in Object, home[o] # Nowhere
                 PROVE  /\ home[o][1] \in LiveDirs
                        /\ \E p \in DirPlaces(home[o][1]) \intersect Standing :
                              /\ slot'[p].obj = o
                              /\ slot'[p].name = home[o][2] \/ (o \in cut /\ slot'[p].name = "cut")
      BY <1>3, <1>10, <1>11, <1>12 DEF HomeOK, DirPlaces
    <3> QED BY <1>9 DEF TreeBody, HomeOK, Standing
  <2>4. Ranked'
    <3>1. PICK rank \in [Cluster \union {0} -> Nat] : RankedBy(rank)
      BY DEF TreeBody, Ranked
    <3>2. \A r \in LiveDirs : \A p \in DirPlaces(r) \cap Standing : slot'[p].dir => rank[r] < rank[slot'[p].start]
      BY <1>7, <1>8, <3>1 DEF RankedBy, Standing
    <3>3. RankedBy(rank)'
      BY <1>10, <1>11, <1>12, <3>2 DEF RankedBy
    <3> QED BY <3>3 DEF Ranked
  <2> QED BY <2>1, <2>2, <2>3, <2>4
<1>22. ShapeOK'
  <2>1. slot' \in [Place -> Entry]
    BY <1>3, <1>5, <1>7, <1>8 DEF TreeBody, ShapeOK
  <2>2. call' \in [Thread -> CallType]
    BY <1>3, NoCallIs DEF TreeBody, ShapeOK
  <2> QED BY <1>3, <2>1, <2>2 DEF TreeBody, ShapeOK
<1>23. ASSUME NEW u \in Thread, u # t PROVE CallInv(u)'
  <2>1. \A p \in Place : slot'[p] = slot[p] \/ \E r \in c.uses : p \in DirPlaces(r)
    BY <1>5, <1>8
  <2>2. \A p \in Standing' : p \in Standing /\ slot'[p].obj = slot[p].obj
    BY <1>9, <1>11 DEF Standing
  <2>3. Spared(u)
    BY <1>1, <1>3, <1>4, <1>12, <1>23, <2>1, <2>2, NearSteps DEF c
  <2> QED BY <1>3, <2>3, SparedKeeps
<1>24. WellFormed(link, Roots)' /\ NoLeak'
  BY <1>3, <1>15 DEF TreeBody, NoLeak
<1> QED BY <1>6, <1>16, <1>17, <1>18, <1>19, <1>20, <1>21, <1>22, <1>23, <1>24 DEF TreeBody

\* The cluster a directory has got cannot be cleared: it is given back.
LEMMA UnclearedKeeps ==
    ASSUME TreeBody, NEW t \in Thread, IoError(t), Doing(t, {"clear"}), damage' = {}
    PROVE  TreeBody'
<1> DEFINE c == call[t]
           f == call[t].fresh
           r == call[t].in
<1>1. /\ Now(t) = "clear" /\ Busy(t) /\ InPlan(c) /\ c \in CallType
      /\ PlanOK(t) /\ CallOK(t) /\ NewOK(t) /\ OldOK(t) /\ OnlyOK(t) /\ BareOK(t) /\ FreshOK(t)
  BY StepIs
<1>2. c.op \in {"mkdir", "create", "rename"} /\ ~Written(t) /\ (Holding(t) <=> c.op = "mkdir") /\ Head(c.todo) = "clear"
      /\ c.todo # <<>>
  BY <1>1, ClearStep DEF Written, Holding, Doing
<1>3. /\ f # 0 /\ f \in Cluster /\ r \in c.uses /\ r # 0 /\ r \in LiveDirs /\ r \in Roots
      /\ f \in Chain(link, r) /\ f # r /\ link[f] = EndOfChain
      /\ \A p \in Place : p[1] = f => slot[p] = Old
  BY <1>1, RootsAre DEF PlanOK, CallOK, FreshOK, CallType
<1>4. slot' = slot /\ old_root' = old_root /\ UNCHANGED <<home, moved, cut, damage>>
      /\ link' = [x \in Cluster |-> IF x = f THEN Free ELSE IF link[x] = f THEN EndOfChain ELSE link[x]]
      /\ faults' \in Nat /\ leaky' = leaky /\ twice' = twice
  <2>1. /\ slot' = [p \in Place |-> IF p[1] = f THEN Old ELSE slot[p]]
        /\ link' = [x \in Cluster |-> IF x = f THEN Free ELSE IF link[x] = f THEN EndOfChain ELSE link[x]]
        /\ leaky' = (leaky \/ Leaks(c)) /\ twice' = twice \union Doubled(c) /\ faults' = faults + 1
        /\ old_root' = old_root /\ UNCHANGED <<home, moved, cut, damage>>
    BY FailsIs DEF IoError, Fault
  <2>2. slot \in [Place -> Entry] /\ leaky \in BOOLEAN /\ faults \in Nat
    BY DEF TreeBody, ShapeOK
  <2>3. slot' = slot
    BY <1>3, <2>1, <2>2
  <2>4. Leaks(c) = FALSE /\ Doubled(c) = {}
    BY <1>2 DEF Leaks, Doubled
  <2>5. leaky' = leaky
    BY <2>1, <2>2, <2>4
  <2> QED BY <2>1, <2>2, <2>3, <2>4, <2>5
<1>5. call' = [call EXCEPT ![t] = [RolledBack(c) EXCEPT !.fresh = 0]] /\ call \in [Thread -> CallType]
  BY FailsIs DEF IoError, TreeBody, ShapeOK
<1>6. call'[t] = [RolledBack(call[t]) EXCEPT !.fresh = 0] /\ \A u \in Thread : u # t => call'[u] = call[u]
  BY <1>5
<1>7. Stopped(t) /\ (Holding(t) => Holding(t)')
  BY <1>1, <1>6, RolledBackIs
<1>8. /\ call'[t] \in CallType /\ (Holding(t)' => Holding(t) /\ Busy(t)' /\ call'[t].entry = c.entry)
      /\ (Busy(t)' => call'[t].uses = c.uses /\ call'[t].entry = c.entry)
      /\ (call'[t].op # "none" => c.op = "mkdir")
  BY <1>1, <1>7, StoppedIs DEF Busy
<1>9. link \in Table /\ Roots \in SUBSET Cluster /\ WellFormed(link, Roots) /\ LiveDirs \subseteq Roots \union {0}
  BY RootsAre DEF TreeBody
<1> HIDE DEF c, f, r
<1>10. /\ link' \in Table /\ WellFormed(link', Roots)
       /\ Chain(link', r) = Chain(link, r) \ {f}
       /\ \A h \in Roots : h # r => Chain(link', h) = Chain(link, h) /\ \A x \in Chain(link, h) : link'[x] = link[x]
       /\ link'[f] = Free /\ \A x \in Cluster : link'[x] = Free => x = f \/ link[x] = Free
  <2> DEFINE G == link'
  <2>1. G = [x \in Cluster |-> IF x = f THEN Free ELSE IF link[x] = f THEN EndOfChain ELSE link[x]]
    BY <1>4
  <2> HIDE DEF G
  <2>2. /\ G \in Table /\ WellFormed(G, Roots)
        /\ Chain(G, r) = Chain(link, r) \ {f}
        /\ \A h \in Roots : h # r => Chain(G, h) = Chain(link, h) /\ \A x \in Chain(link, h) : G[x] = link[x]
        /\ G[f] = Free /\ \A x \in Cluster : G[x] = Free => x = f \/ link[x] = Free
    BY <1>3, <1>9, <2>1, FreeLastKeeps
  <2> QED BY <2>2 DEF G
<1>11. ASSUME NEW d \in Roots \union {0}
       PROVE  /\ \A p \in DirPlaces(d)' : p \in DirPlaces(d) /\ p[1] # f
              /\ \A p \in DirPlaces(d) : p[1] # f => p \in DirPlaces(d)'
              /\ d # r => DirPlaces(d)' = DirPlaces(d)
  <2>1. CASE d = 0
    BY <1>3, <2>1 DEF DirPlaces
  <2>2. CASE d # 0 /\ d = r
    BY <1>10, <2>2 DEF DirPlaces
  <2>3. CASE d # 0 /\ d # r
    <3>1. d \in Roots /\ Chain(link', d) = Chain(link, d)
      BY <1>10, <2>3
    <3>2. DirPlaces(d)' = DirPlaces(d)
      BY <2>3, <3>1 DEF DirPlaces
    <3>3. \A p \in DirPlaces(d) : p[1] # f
      <4>1. Chain(link, d) \cap Chain(link, r) = {}
        BY <1>3, <1>9, <2>3, <3>1, ChainsDisjoint
      <4> QED BY <1>3, <2>3, <4>1 DEF DirPlaces
    <3> QED BY <3>2, <3>3
  <2> QED BY <2>1, <2>2, <2>3
<1>12. Standing' = Standing /\ (\A p \in Standing : p \in Place /\ p[1] # f) /\ Root' = Root
  <2>1. Standing' = Standing /\ Root' = Root
    BY <1>4 DEF Standing, Root
  <2> QED BY <1>3, <2>1, NamesAre DEF Standing
<1>13. NamesStay
  BY <1>4, <1>9, <1>11, <1>12 DEF NamesStay
<1>14. /\ LiveDirs' = LiveDirs /\ Heads' = Heads /\ Root' = Root
       /\ StandingOK' /\ NamesOK' /\ CutOK' /\ HomeOK' /\ Ranked' /\ OwnersOK' /\ DotsOK'
  <2>1. \A p \in Standing : slot[p].dir =>
                 \A q \in DirPlaces(slot[p].start)' : slot'[q].name = ".." =>
                    q \in DirPlaces(slot[p].start) /\ slot'[q] = slot[q]
    <3> SUFFICES ASSUME NEW p \in Standing, slot[p].dir, NEW q \in DirPlaces(slot[p].start)'
                 PROVE  q \in DirPlaces(slot[p].start)
      BY <1>4
    <3>1. slot[p].start \in Roots \union {0}
      BY <1>9 DEF LiveDirs
    <3>2. PICK d \in Roots \union {0} : d = slot[p].start
      BY <3>1
    <3>3. DirPlaces(slot[p].start)' = DirPlaces(d)'
      BY <1>4, <3>2 DEF DirPlaces
    <3> QED BY <1>11, <3>2, <3>3
  <2>2. \A p \in Place : IsDots(slot[p]) => IsDots(slot'[p])
    BY <1>4
  <2> QED BY <1>2, <1>4, <1>6, <1>13, <2>1, <2>2, NamesStep DEF c
<1>15. Roots' = Roots
  <2>1. ASSUME NEW u \in Thread PROVE (Holding(u)' <=> Holding(u)) /\ (Holding(u) => call'[u].entry = call[u].entry)
    BY <1>6, <1>7, <1>8 DEF Holding, Now, c
  <2> QED BY <1>14, <2>1 DEF Roots
<1>16. CallsApart' /\ HeldLoose'
  <2>1. Busy(t)' => call'[t].uses \subseteq call[t].uses /\ call'[t].entry.obj = call[t].entry.obj
    BY <1>8 DEF c
  <2>2. Holding(t)' => Holding(t) /\ Busy(t)' /\ call'[t].entry.start = call[t].entry.start
    BY <1>8 DEF c
  <2> QED BY <1>1, <1>6, <1>14, <2>1, <2>2, ApartStays
<1>17. CleanOK'
  <2>1. CleanOK
    BY DEF TreeBody
  <2>2. ASSUME NEW d \in LiveDirs', NEW p \in DirPlaces(d)', slot'[p] = Old
        PROVE  \E u \in Thread : call'[u].fresh # 0 /\ call'[u].fresh = p[1]
    <3>1. d \in LiveDirs /\ p \in DirPlaces(d) /\ p[1] # f /\ slot[p] = Old
      BY <1>4, <1>9, <1>11, <1>14, <2>2
    <3>2. PICK u \in Thread : call[u].fresh # 0 /\ call[u].fresh = p[1]
      BY <2>1, <3>1 DEF CleanOK
    <3>3. u # t
      BY <3>1, <3>2 DEF f
    <3> QED BY <1>6, <3>2, <3>3
  <2>3. ASSUME NEW p \in Place, p[1] # 0, link'[p[1]] = Free PROVE slot'[p] = Old
    <3>1. p[1] \in Cluster
      BY <2>3 DEF Place
    <3> QED BY <1>3, <1>4, <1>10, <2>1, <2>3, <3>1 DEF CleanOK
  <2>4. ASSUME NEW d \in Roots', NEW p \in DirPlaces(d)', slot'[p].name = ".."
        PROVE  \E q \in DirPlaces(d)' : slot'[q].name = "."
    <3>1. d \in Roots /\ p \in DirPlaces(d) /\ slot[p].name = ".."
      BY <1>4, <1>11, <1>15, <2>4
    <3>2. PICK q \in DirPlaces(d) : slot[q].name = "."
      BY <2>1, <3>1 DEF CleanOK
    <3>3. q[1] # f
      BY <1>3, <3>2, NamesAre DEF DirPlaces
    <3> QED BY <1>4, <1>11, <3>1, <3>2, <3>3
  <2> QED BY <2>2, <2>3, <2>4 DEF CleanOK
<1>18. ShapeOK'
  <2>1. call' \in [Thread -> CallType]
    BY <1>5, <1>6, <1>8
  <2> QED BY <1>4, <1>10, <2>1 DEF TreeBody, ShapeOK
<1>19. WellFormed(link, Roots)'
  BY <1>10, <1>15
<1>20. NoLeak'
  <2> SUFFICES ASSUME ~leaky, NEW x \in Cluster, link'[x] # Free PROVE \E h \in Roots : x \in Chain(link', h)
    BY <1>4, <1>15 DEF NoLeak
  <2>1. x # f /\ link[x] # Free
    BY <1>3, <1>4, <1>10, MarksAreNotClusters
  <2>2. PICK h \in Roots : x \in Chain(link, h)
    BY <2>1 DEF TreeBody, NoLeak
  <2> QED BY <1>10, <2>1, <2>2
<1>21. CallInv(t)'
  <2>1. CASE call'[t].op = "none"
    <3>1. call'[t] = NoCall
      BY <1>1, <1>7, <2>1 DEF Stopped, CallType, c
    <3> QED BY <3>1, IdleInv
  <2>2. CASE call'[t].op # "none"
    <3>1. c.entry.start \in Roots /\ c.entry.start # r
      <4>1. c.op = "mkdir" /\ Holding(t)
        BY <1>2, <1>8, <2>2
      <4>2. c.entry.start \in Roots
        BY <4>1 DEF Roots, c
      <4>3. c.entry.start # 0
        BY <1>9, <4>2, MarksAreNotClusters DEF Free
      <4> QED BY <1>1, <4>1, <4>2, <4>3 DEF CallOK, c, r
    <3>2. \A d : d = call[t].entry.start => DirPlaces(d)' = DirPlaces(d)
      BY <1>11, <3>1 DEF c
    <3> QED BY <1>1, <1>7, <1>13, <1>14, <3>2, StoppedInv
  <2> QED BY <2>1, <2>2
<1>22. ASSUME NEW u \in Thread, u # t PROVE CallInv(u)'
  <2>1. Busy(u) => \A d \in call[u].uses \cap Cluster : \A x \in Chain(link, d) : link'[x] = link[x]
    <3> SUFFICES ASSUME Busy(u), NEW d \in call[u].uses, d \in Cluster, NEW x \in Chain(link, d) PROVE link'[x] = link[x]
      OBVIOUS
    <3>1. d \in Roots
      BY UsesAre, MarksAreNotClusters DEF Free
    <3>2. d # r
      BY <1>1, <1>3, <1>22 DEF TreeBody, CallsApart, c, r
    <3> QED BY <1>10, <3>1, <3>2
  <2>2. Spared(u)
    BY <1>1, <1>4, <1>6, <1>12, <1>14, <1>22, <2>1, NearSteps
  <2> QED BY <1>4, <2>2, SparedKeeps
<1> QED BY <1>14, <1>16, <1>17, <1>18, <1>19, <1>20, <1>21, <1>22 DEF TreeBody

\* A name is changed where it stands.
LEMMA RewriteKeeps ==
    ASSUME TreeBody, NEW t \in Thread, Rewrite(t)
    PROVE  TreeBody'
<1> DEFINE c == call[t]
           n == call[t].old
           m == call[t].entry.name
           o == call[t].entry.obj
           r == call[t].in
<1>0. Doing(t, {"rewrite"})
  BY DEF Rewrite
<1>1. /\ Now(t) = "rewrite" /\ Busy(t) /\ InPlan(c) /\ c \in CallType
      /\ PlanOK(t) /\ CallOK(t) /\ NewOK(t) /\ OldOK(t) /\ OnlyOK(t) /\ BareOK(t) /\ FreshOK(t)
  BY <1>0, StepIs
<1>2. c.op = "rename" /\ Advance(c) = NoCall
  <2>1. c.todo # <<>>
    BY <1>1, AdvanceIs
  <2>2. c.op = "rename" /\ c.todo = <<"rewrite">>
    BY <1>1, <2>1 DEF InPlan, Mkdirs, Creates, Deletes, Renames, Now
  <2>3. c.todo \in Lasts
    BY <2>2 DEF Lasts
  <2> QED BY <1>1, <2>2, <2>3, AdvanceIs
<1>3. /\ slot' = [slot EXCEPT ![n].name = m] /\ call' = [call EXCEPT ![t] = NoCall]
      /\ home' = [home EXCEPT ![o] = <<r, m>>] /\ cut' = cut \ {o}
      /\ old_root' = old_root /\ link' = link /\ UNCHANGED <<moved, twice, leaky, faults>>
  BY <1>2 DEF Rewrite, Goes
<1>4. call'[t] = NoCall /\ \A u \in Thread : u # t => call'[u] = call[u]
  BY <1>0, <1>3, Steps
<1>5. ~Holding(t) /\ ~Written(t) /\ HasOld(t) /\ c.new = NoPlace
  <2>1. ~Holding(t) /\ ~Written(t) /\ HasOld(t)
    BY <1>1, <1>2 DEF Holding, Written, HasOld
  <2> QED BY <1>1, <1>2, <2>1 DEF PlanOK
<1>6. c.fresh = 0 /\ ~(Holding(t)') /\ ~(Written(t)') /\ ~(Busy(t)') /\ CallInv(t)'
  BY <1>1, <1>4, IdleInv DEF PlanOK
<1>7. /\ n \in Standing /\ n \in Place /\ n \in DirPlaces(r) /\ Same(slot[n], c.entry)
      /\ r \in c.uses /\ r \in LiveDirs /\ m \in Name /\ o \in Object /\ r \in Cluster \union {0}
      /\ \A q \in DirPlaces(r) : slot[q].name # m
  <2>1. \A q \in DirPlaces(r) : q \in Place /\ (slot[q].name = m => q = NoPlace)
    BY <1>1, <1>2, <1>5 DEF NewOK, DirPlaces
  <2> QED BY <1>1, <1>2, <1>5, <2>1, NoPlaceIsNone DEF OldOK, CallOK, CallType, Standing
<1> HIDE DEF c, n, m, o, r
<1>8. slot'[n].name = m /\ slot'[n].obj = o /\ slot[n].obj = o /\ slot' \in [Place -> Entry]
  <2>1. slot[n] \in Entry /\ slot[n].name \in Name \union {"cut"} /\ slot[n].obj = o
    BY <1>7 DEF TreeBody, ShapeOK, Standing, Same, c, o
  <2>2. slot'[n] = [slot[n] EXCEPT !.name = m]
    BY <1>3, <1>7 DEF TreeBody, ShapeOK
  <2>3. slot'[n] \in Entry /\ slot'[n].name = m /\ slot'[n].obj = o
    <3>1. slot[n] # Empty /\ slot[n] # Old
      BY <2>1, NamesAre
    <3> QED BY <1>7, <2>1, <2>2, <3>1 DEF Entry
  <2> QED BY <1>3, <2>1, <2>3 DEF TreeBody, ShapeOK
<1>9. \A p \in Place : p # n => slot'[p] = slot[p]
  BY <1>3, <1>7 DEF TreeBody, ShapeOK
<1>10. \A p \in Place : slot'[p].start = slot[p].start /\ slot'[p].dir = slot[p].dir /\ slot'[p].obj = slot[p].obj
  <2>1. slot'[n] = [slot[n] EXCEPT !.name = m] /\ slot[n] \in Entry
    BY <1>3, <1>7 DEF TreeBody, ShapeOK
  <2>2. slot'[n].start = slot[n].start /\ slot'[n].dir = slot[n].dir /\ slot'[n].obj = slot[n].obj
    BY <2>1 DEF Entry, Empty, Old
  <2> QED BY <1>9, <2>2
<1>11. \A x : DirPlaces(x)' = DirPlaces(x) /\ ParentCluster(x)' = ParentCluster(x)
  BY <1>3 DEF DirPlaces, ParentCluster, Root
<1>12. Standing' = Standing /\ Root' = Root
  <2>1. \A p \in Place : slot'[p].name \in Name \union {"cut"} <=> slot[p].name \in Name \union {"cut"}
    BY <1>7, <1>8, <1>9 DEF Standing
  <2> QED BY <1>3, <2>1 DEF Standing, Root
<1>13. LiveDirs' = LiveDirs /\ Heads' = Heads
  <2>1. \A p \in Standing : slot'[p].start = slot[p].start /\ slot'[p].dir = slot[p].dir
    BY <1>10 DEF Standing
  <2> QED BY <1>12, <2>1 DEF LiveDirs, Heads
<1>14. ASSUME NEW u \in Thread, u # t
       PROVE  (Holding(u))' = Holding(u) /\ (Busy(u))' = Busy(u) /\ call'[u] = call[u] /\ (Written(u))' = Written(u)
  BY <1>4, <1>14 DEF Holding, Now, Busy, Written
<1>15. Roots' = Roots
  BY <1>5, <1>6, <1>13, <1>14 DEF Roots
<1>16. CallsApart' /\ HeldLoose'
  BY <1>4, <1>6, <1>13, ApartStays
<1>17. StandingOK'
  <2>1. \A p \in Standing : /\ slot'[p].obj \in Object
                            /\ slot'[p].dir => slot'[p].start # 0
                            /\ slot'[p].start # 0 => slot'[p].start # Root
                            /\ \E x \in LiveDirs : p \in DirPlaces(x)
    BY <1>10 DEF TreeBody, StandingOK, Standing
  <2> QED BY <1>11, <1>12, <1>13, <2>1 DEF StandingOK
<1>18. OwnersOK'
  <2> SUFFICES ASSUME NEW p \in Standing, NEW q \in Standing, p # q
               PROVE  /\ slot'[p].start = slot'[q].start /\ slot'[p].start # 0 => slot'[p].obj = slot'[q].obj
                      /\ slot'[p].obj = slot'[q].obj =>
                          /\ Same(slot'[p], slot'[q])
                          /\ \/ slot'[p].obj \in twice
                             \/ \E u \in Thread : /\ call'[u].op = "rename" /\ Written(u)'
                                                  /\ {p, q} = {call'[u].old, call'[u].new}
    <3>1. twice' = twice
      BY <1>3
    <3>2. Standing' = Standing
      BY <1>12
    <3> QED BY <3>1, <3>2 DEF OwnersOK, Same
  <2>1. /\ slot'[p].start = slot[p].start /\ slot'[p].dir = slot[p].dir /\ slot'[p].obj = slot[p].obj
        /\ slot'[q].start = slot[q].start /\ slot'[q].dir = slot[q].dir /\ slot'[q].obj = slot[q].obj
    BY <1>10 DEF Standing
  <2>2. \A u \in Thread : Written(u) => u # t
    BY <1>5
  <2> QED BY <1>14, <2>1, <2>2 DEF TreeBody, OwnersOK, Same
<1>19. CleanOK'
  <2>1. CleanOK
    BY DEF TreeBody
  <2>2. \A p \in Place : slot'[p] = Old <=> slot[p] = Old
    <3>1. slot'[n] # Old /\ slot[n] # Old
      BY <1>7, <1>8, NamesAre DEF Standing
    <3> QED BY <1>9, <3>1
  <2>3. ASSUME NEW x \in LiveDirs, NEW p \in DirPlaces(x), slot[p] = Old
        PROVE  \E u \in Thread : call'[u].fresh # 0 /\ call'[u].fresh = p[1]
    <3>1. PICK u \in Thread : call[u].fresh # 0 /\ call[u].fresh = p[1]
      BY <2>1, <2>3 DEF CleanOK
    <3>2. u # t
      BY <1>6, <3>1 DEF c
    <3> QED BY <1>4, <3>1, <3>2
  <2>4. \A p \in Place : p[1] # 0 /\ link[p[1]] = Free => slot'[p] = Old
    BY <2>1, <2>2 DEF CleanOK
  <2>5. \A x \in Roots : \A p \in DirPlaces(x) :
           slot'[p].name = ".." => \E q \in DirPlaces(x) : slot'[q].name = "."
    <3>1. slot[n].name # "." /\ slot'[n].name # ".."
      BY <1>7, <1>8, NamesAre DEF Standing
    <3> QED BY <1>9, <2>1, <3>1 DEF CleanOK, DirPlaces
  <2> QED BY <1>3, <1>11, <1>13, <1>15, <2>2, <2>3, <2>4, <2>5 DEF CleanOK, DirPlaces
<1>20. DotsOK'
  <2> SUFFICES ASSUME NEW p \in Standing, slot'[p].dir, slot'[p].obj \notin moved \union twice,
                      \A u \in Thread : call'[u].op = "rename" => call'[u].new # p,
                      NEW q \in DirPlaces(slot'[p].start), slot'[q].name = ".."
               PROVE  slot'[q].start = ParentCluster(p)
    <3>1. \A x : DirPlaces(slot[x].start)' = DirPlaces(slot'[x].start)
      BY <1>3 DEF DirPlaces
    <3> QED BY <1>3, <1>11, <1>12, <3>1 DEF DotsOK
  <2>1. p \in Place /\ q \in Place /\ q # n
    <3>1. slot'[n].name # ".."
      BY <1>7, <1>8, NamesAre
    <3> QED BY <3>1 DEF Standing, DirPlaces
  <2>2. slot'[p].start = slot[p].start /\ slot'[p].dir = slot[p].dir /\ slot'[p].obj = slot[p].obj /\ slot'[q] = slot[q]
    BY <1>9, <1>10, <2>1
  <2>3. \A u \in Thread : call[u].op = "rename" => call[u].new # p
    BY <1>4, <1>5, <2>1, NoPlaceIsNone DEF c
  <2> QED BY <2>2, <2>3 DEF TreeBody, DotsOK
<1>21. ASSUME NEW x \in LiveDirs, n \in DirPlaces(x) PROVE x = r
  BY <1>7, <1>21, RootsAre, OneDirectory
<1>22. NamesOK'
  <2> SUFFICES ASSUME NEW x \in LiveDirs, NEW p \in DirPlaces(x), NEW q \in DirPlaces(x),
                      p \in Standing, q \in Standing, slot'[p].name = slot'[q].name
               PROVE  p = q
    BY <1>11, <1>12, <1>13 DEF NamesOK
  <2>1. CASE p # n /\ q # n
    BY <1>9, <2>1 DEF TreeBody, NamesOK, Standing
  <2>2. CASE p = n /\ q # n
    BY <1>7, <1>8, <1>9, <1>21, <2>2 DEF Standing
  <2>3. CASE p # n /\ q = n
    BY <1>7, <1>8, <1>9, <1>21, <2>3 DEF Standing
  <2> QED BY <2>1, <2>2, <2>3
<1>23. CutOK'
  <2> SUFFICES ASSUME NEW x \in LiveDirs, NEW p \in DirPlaces(x), slot'[p].name = "cut"
               PROVE  p = <<x, 2>> \/ (p = <<x, 3>> /\ IsDots(slot'[<<x, 2>>]))
    BY <1>11, <1>13 DEF CutOK, IsDots
  <2>1. p \in Place /\ p # n /\ slot[p].name = "cut"
    BY <1>7, <1>8, <1>9, NamesAre DEF DirPlaces
  <2>2. p = <<x, 3>> => <<x, 2>> \in Place
    BY <2>1, PlaceBefore
  <2>3. p = <<x, 2>> \/ (p = <<x, 3>> /\ IsDots(slot[<<x, 2>>]))
    BY <2>1 DEF TreeBody, CutOK
  <2>4. ~IsDots(slot[n])
    BY <1>7, NamesAre DEF Standing, IsDots
  <2> QED BY <1>9, <2>2, <2>3, <2>4
<1>24. HomeOK'
  <2> SUFFICES ASSUME NEW x \in Object, home'[x] # Nowhere
               PROVE  /\ home'[x][1] \in LiveDirs
                      /\ \E p \in DirPlaces(home'[x][1]) \intersect Standing :
                            /\ slot'[p].obj = x
                            /\ slot'[p].name = home'[x][2] \/ (x \in cut' /\ slot'[p].name = "cut")
    BY <1>3, <1>11, <1>12, <1>13 DEF HomeOK, DirPlaces
  <2>1. CASE x = o
    <3>1. home'[x] = <<r, m>>
      BY <1>3, <2>1 DEF TreeBody, ShapeOK
    <3> QED BY <1>7, <1>8, <2>1, <3>1
  <2>2. CASE x # o
    <3>1. home'[x] = home[x] /\ (x \in cut => x \in cut')
      BY <1>3, <2>2 DEF TreeBody, ShapeOK
    <3>2. /\ home[x][1] \in LiveDirs
          /\ \E p \in DirPlaces(home[x][1]) \intersect Standing :
                /\ slot[p].obj = x
                /\ slot[p].name = home[x][2] \/ (x \in cut /\ slot[p].name = "cut")
      BY <3>1 DEF TreeBody, HomeOK
    <3>3. \A p \in Standing : slot[p].obj = x => slot'[p] = slot[p]
      BY <1>8, <1>9, <2>2 DEF Standing
    <3> QED BY <3>1, <3>2, <3>3
  <2> QED BY <2>1, <2>2
<1>25. Ranked'
  <2>1. PICK rank \in [Cluster \union {0} -> Nat] : RankedBy(rank)
    BY DEF TreeBody, Ranked
  <2>2. \A x \in LiveDirs : \A p \in DirPlaces(x) \cap Standing : slot'[p].dir => rank[x] < rank[slot'[p].start]
    BY <1>10, <2>1 DEF RankedBy, Standing
  <2>3. RankedBy(rank)'
    BY <1>11, <1>12, <1>13, <2>2 DEF RankedBy
  <2> QED BY <2>3 DEF Ranked
<1>26. ShapeOK'
  <2>1. call' \in [Thread -> CallType]
    BY <1>3, NoCallIs DEF TreeBody, ShapeOK
  <2>2. home' \in [Object -> ((Cluster \union {0}) \X Name) \union {Nowhere}]
    <3>1. <<r, m>> \in (Cluster \union {0}) \X Name
      BY <1>7
    <3> QED BY <1>3, <3>1 DEF TreeBody, ShapeOK
  <2> QED BY <1>3, <1>8, <2>1, <2>2 DEF TreeBody, ShapeOK
<1>27. ASSUME NEW u \in Thread, u # t PROVE CallInv(u)'
  <2>1. \A p \in Place : slot'[p] = slot[p] \/ \E x \in c.uses : p \in DirPlaces(x)
    BY <1>7, <1>9
  <2>2. \A p \in Standing' : p \in Standing /\ slot'[p].obj = slot[p].obj
    BY <1>10, <1>12 DEF Standing
  <2>3. Spared(u)
    BY <1>1, <1>3, <1>4, <1>13, <1>27, <2>1, <2>2, NearSteps DEF c
  <2> QED BY <1>3, <2>3, SparedKeeps
<1>28. WellFormed(link, Roots)' /\ NoLeak'
  BY <1>3, <1>15 DEF TreeBody, NoLeak
<1> QED BY <1>6, <1>16, <1>17, <1>18, <1>19, <1>20, <1>22, <1>23, <1>24, <1>25, <1>26, <1>27, <1>28 DEF TreeBody

\* A directory begins with the places of its first cluster.
LEMMA FirstPlaces ==
    ASSUME NEW s \in Cluster, DirStart(s), s # 0, link \in Table, LinksInjective(link)
    PROVE  /\ PlacesOf(s)[1] = <<s, 1>> /\ PlacesOf(s)[2] = <<s, 2>> /\ PlacesOf(s)[3] = <<s, 3>>
           /\ <<s, 2>> \in DirPlaces(s) /\ <<s, 3>> \in DirPlaces(s)
<1> DEFINE cs == ChainFrom(s)
<1>1. ~Linked(link, s)
  BY DEF DirStart
<1>2. cs \in Seq(Cluster) /\ cs # <<>> /\ cs[1] = s
  BY <1>1, ChainFromIs
<1>3. Capacity \in Nat /\ Capacity >= 3
  BY TreeAssumption, Zenon
<1>4. PlacesOf(s) = [i \in 1..(Len(cs) * Capacity) |->
                <<cs[((i - 1) \div Capacity) + 1], ((i - 1) % Capacity) + 1>>]
  BY DEF PlacesOf
<1> HIDE DEF cs
<1>5. Len(cs) \in Nat /\ Len(cs) >= 1
  BY <1>2
<1>6. Len(cs) * Capacity \in Nat /\ Len(cs) * Capacity >= Capacity
  BY <1>3, <1>5
<1>7. ASSUME NEW i \in 1..3 PROVE PlacesOf(s)[i] = <<s, i>>
  <2>1. i \in 1..(Len(cs) * Capacity) /\ i - 1 \in Nat /\ i - 1 < Capacity /\ Capacity \in Nat \ {0}
    BY <1>3, <1>6
  <2>2. ((Capacity * 0) + (i - 1)) \div Capacity = 0 /\ ((Capacity * 0) + (i - 1)) % Capacity = i - 1
    BY <2>1, OneQuotient
  <2>3. (Capacity * 0) + (i - 1) = i - 1
    BY <2>1
  <2>4. (i - 1) \div Capacity = 0 /\ (i - 1) % Capacity = i - 1
    BY <2>2, <2>3
  <2>5. PlacesOf(s)[i] = <<cs[((i - 1) \div Capacity) + 1], ((i - 1) % Capacity) + 1>>
    BY <1>4, <2>1
  <2>6. 0 + 1 = 1 /\ (i - 1) + 1 = i
    OBVIOUS
  <2> QED BY <1>2, <2>4, <2>5, <2>6
<1>8. <<s, 2>> \in Place /\ <<s, 3>> \in Place
  <2>1. 2 \in 1..Capacity /\ 3 \in 1..Capacity
    BY <1>3
  <2> QED BY <2>1 DEF Place
<1>9. s \in Chain(link, s)
  BY ChainFollows
<1> QED BY <1>7, <1>8, <1>9 DEF DirPlaces

\* The steps of rename in their order, from the second name on.
LEMMA ThirdStep ==
    ASSUME TreeBody, NEW t \in Thread, Doing(t, {"third"})
    PROVE  /\ call[t].op = "rename" /\ call[t].todo = <<"third", "erase">>
           /\ Advance(call[t]) = [call[t] EXCEPT !.todo = <<"erase">>]
           /\ InPlan(Advance(call[t])) /\ Advance(call[t]) \in CallType
<1> DEFINE c == call[t]
<1>1. Now(t) = "third" /\ InPlan(c) /\ c \in CallType
  BY StepIs
<1>2. c.todo # <<>>
  BY <1>1, AdvanceIs
<1>3. c.op = "rename" /\ c.todo = <<"third", "erase">>
  BY <1>1, <1>2 DEF InPlan, Mkdirs, Creates, Deletes, Renames, Now
<1> HIDE DEF c
<1>4. c.todo \notin Lasts /\ Tail(c.todo) = <<"erase">>
  BY <1>3 DEF Lasts
<1> QED BY <1>1, <1>3, <1>4, AdvanceIs DEF c

\* What rename does to the third entry of a directory, as long as it is not one
\* without dots.
LEMMA ThirdIs ==
    ASSUME TreeBody, NEW t \in Thread, Third(t), damage' = {}, call[t].entry.dir, call[t].entry.start \in Cluster,
           call[t].entry.start \in Roots
    PROVE  /\ moved \subseteq moved' /\ moved' \subseteq moved \union {call[t].entry.obj}
           /\ call[t].entry.obj \in moved' \/ ParentCluster(call[t].new) = ParentCluster(call[t].old)
           /\ \/ slot' = slot /\ cut' = cut
              \/ \E p \in DirPlaces(call[t].entry.start) :
                    /\ slot' = [slot EXCEPT ![p].name = "cut"] /\ cut' = cut \union {slot[p].obj}
                    /\ slot[p].name \in LongName
                    /\ \/ p = <<call[t].entry.start, 2>>
                       \/ p = <<call[t].entry.start, 3>> /\ IsDots(slot[<<call[t].entry.start, 2>>])
<1> DEFINE c == call[t]
           s == call[t].entry.start
           ps == PlacesOf(s)
           dots == {i \in 1..2 : IsDots(slot[ps[i]])}
           p == IF dots = {1, 2} THEN ps[3] ELSE ps[2]
           far == ParentCluster(c.new) # ParentCluster(c.old)
<1>1. /\ moved' = IF far THEN moved \union {c.entry.obj} ELSE moved
      /\ \/ far /\ slot[p] # Empty /\ dots = {1} /\ damage' = damage \union {"a directory without dots is moved"}
         \/ /\ far /\ slot[p].name \in LongName /\ dots # {1}
            /\ slot' = [slot EXCEPT ![p].name = "cut"] /\ cut' = cut \union {slot[p].obj}
         \/ UNCHANGED <<slot, cut, damage>>
  BY DEF Third
<1> HIDE DEF c, ps, p, far, dots
<1>2. ps[2] = <<s, 2>> /\ ps[3] = <<s, 3>> /\ <<s, 2>> \in DirPlaces(s) /\ <<s, 3>> \in DirPlaces(s)
  <2>1. DirStart(s) /\ link \in Table /\ LinksInjective(link) /\ s # 0
    BY RootsAre, Starts, MarksAreNotClusters DEF Free
  <2> QED BY <2>1, FirstPlaces DEF ps
<1>3. p \in DirPlaces(s) /\ (p = <<s, 2>> \/ (p = <<s, 3>> /\ IsDots(slot[<<s, 2>>])))
  <2>1. CASE dots = {1, 2}
    <3>1. 2 \in dots
      BY <2>1
    <3>2. IsDots(slot[ps[2]])
      BY <3>1 DEF dots
    <3>3. p = ps[3]
      BY <2>1 DEF p
    <3> QED BY <1>2, <3>2, <3>3
  <2>2. CASE dots # {1, 2}
    <3>1. p = ps[2]
      BY <2>2 DEF p
    <3> QED BY <1>2, <3>1
  <2> QED BY <2>1, <2>2
<1>4. damage' # damage \union {"a directory without dots is moved"}
  OBVIOUS
<1>5. \/ slot' = slot /\ cut' = cut
      \/ slot' = [slot EXCEPT ![p].name = "cut"] /\ cut' = cut \union {slot[p].obj} /\ slot[p].name \in LongName
  BY <1>1, <1>4
<1>6. c.entry.obj \in moved' \/ ~far
  BY <1>1
<1>7. moved \subseteq moved' /\ moved' \subseteq moved \union {c.entry.obj}
  BY <1>1
<1> QED BY <1>3, <1>5, <1>6, <1>7 DEF far, c

\* The ".." of a directory that is renamed is looked for, and the name of something
\* else cut.
LEMMA ThirdKeeps ==
    ASSUME TreeBody, NEW t \in Thread, Third(t), damage' = {}
    PROVE  TreeBody'
<1> DEFINE c == call[t]
           s == call[t].entry.start
           r == call[t].in
<1>0. Doing(t, {"third"})
  BY DEF Third
<1>1. /\ Now(t) = "third" /\ Busy(t) /\ InPlan(c) /\ c \in CallType
      /\ PlanOK(t) /\ CallOK(t) /\ NewOK(t) /\ OldOK(t) /\ OnlyOK(t) /\ BareOK(t) /\ FreshOK(t)
  BY <1>0, StepIs
<1>2. /\ c.op = "rename" /\ c.todo = <<"third", "erase">> /\ Advance(c) = [c EXCEPT !.todo = <<"erase">>]
      /\ InPlan(Advance(c)) /\ Advance(c) \in CallType
  BY <1>0, ThirdStep
<1>3. /\ call' = [call EXCEPT ![t] = Advance(c)]
      /\ old_root' = old_root /\ link' = link /\ UNCHANGED <<home, twice, leaky, faults>>
  BY DEF Third, Goes
<1>4. call'[t] = Advance(c) /\ \A u \in Thread : u # t => call'[u] = call[u]
  BY <1>0, <1>3, Steps
<1>5. /\ call'[t].todo = <<"erase">> /\ call'[t].op = c.op /\ call'[t].in = c.in /\ call'[t].entry = c.entry
      /\ call'[t].old = c.old /\ call'[t].new = c.new /\ call'[t].fresh = c.fresh /\ call'[t].uses = c.uses
  BY <1>1, <1>2, <1>4 DEF CallType
<1>6. Now(t)' = "erase" /\ Busy(t)' /\ ~(Holding(t)') /\ ~Holding(t) /\ Written(t)' /\ Written(t) /\ HasOld(t)' /\ HasOld(t)
      /\ c.fresh = 0
  <2>1. Now(t)' = "erase"
    BY <1>5 DEF Now
  <2> QED BY <1>1, <1>2, <1>5, <2>1 DEF Busy, Holding, Written, HasOld, PlanOK
<1>7. /\ c.new \in Standing /\ c.new \in DirPlaces(r) /\ slot[c.new] = c.entry /\ c.new # c.old
      /\ c.old \in Standing /\ Same(slot[c.old], c.entry)
      /\ r \in c.uses /\ r \in LiveDirs /\ c.entry.name \in Name /\ c.entry.obj \in Object
      /\ \A q \in DirPlaces(r) : slot[q].name = c.entry.name => q = c.new
      /\ c.entry.dir /\ s \in c.uses /\ s \in Cluster
  <2>1. <<"third", "erase">> # <<"enter", "erase">> /\ <<"third", "erase">> # <<"clear", "enter", "erase">>
    OBVIOUS
  <2>2. c.entry.dir
    BY <1>1, <1>2, <2>1 DEF CallOK
  <2> QED BY <1>1, <1>2, <1>6, <2>2 DEF NewOK, OldOK, CallOK
<1>8. PICK d \in c.uses : d \in LiveDirs /\ c.old \in DirPlaces(d)
  BY <1>1, <1>6 DEF OldOK
<1> HIDE DEF c, s, r
<1>9. s \in LiveDirs /\ LiveDirs \subseteq Roots \union {0} /\ s \in Roots
  <2>1. s \in LiveDirs /\ LiveDirs \subseteq Roots \union {0}
    BY <1>7, RootsAre DEF LiveDirs, s, c
  <2> QED BY <1>7, <2>1, MarksAreNotClusters DEF Free
<1>10. r # s /\ d # s
  <2>1. PICK rank \in [Cluster \union {0} -> Nat] : RankedBy(rank)
    BY DEF TreeBody, Ranked
  <2>2. rank[r] < rank[s] /\ rank[d] < rank[s]
    BY <1>7, <1>8, <2>1 DEF RankedBy, Same, s, c
  <2>3. rank[s] \in Nat
    BY <1>7, <2>1
  <2> QED BY <2>2, <2>3
<1>11. /\ moved \subseteq moved' /\ moved' \subseteq moved \union {c.entry.obj}
       /\ c.entry.obj \in moved' \/ ParentCluster(c.new) = ParentCluster(c.old)
       /\ \/ slot' = slot /\ cut' = cut
          \/ \E p \in DirPlaces(s) :
                /\ slot' = [slot EXCEPT ![p].name = "cut"] /\ cut' = cut \union {slot[p].obj}
                /\ slot[p].name \in LongName
                /\ p = <<s, 2>> \/ (p = <<s, 3>> /\ IsDots(slot[<<s, 2>>]))
  BY <1>7, <1>9, ThirdIs DEF c, s
\* The place that is hit, if one is.
<1>12. PICK P \in SUBSET DirPlaces(s) :
          /\ \A p \in P : /\ slot[p].name \in LongName /\ slot'[p].name = "cut" /\ p \in Standing
                          /\ p = <<s, 2>> \/ (p = <<s, 3>> /\ IsDots(slot[<<s, 2>>]))
                          /\ slot[p].obj \in cut'
          /\ \A p \in Place : p \notin P => slot'[p] = slot[p]
          /\ \A p \in Place : slot'[p].start = slot[p].start /\ slot'[p].dir = slot[p].dir /\ slot'[p].obj = slot[p].obj
          /\ slot' \in [Place -> Entry] /\ cut \subseteq cut' /\ cut' \subseteq Object
  <2>1. CASE slot' = slot /\ cut' = cut
    <3>1. slot' \in [Place -> Entry] /\ cut' \subseteq Object
      BY <2>1 DEF TreeBody, ShapeOK
    <3>2. {} \in SUBSET DirPlaces(s)
      OBVIOUS
    <3> QED BY <2>1, <3>1, <3>2
  <2>2. ASSUME NEW p \in DirPlaces(s),
               slot' = [slot EXCEPT ![p].name = "cut"], cut' = cut \union {slot[p].obj},
               slot[p].name \in LongName,
               p = <<s, 2>> \/ (p = <<s, 3>> /\ IsDots(slot[<<s, 2>>]))
        PROVE  /\ \A x \in {p} : /\ slot[x].name \in LongName /\ slot'[x].name = "cut" /\ x \in Standing
                                 /\ x = <<s, 2>> \/ (x = <<s, 3>> /\ IsDots(slot[<<s, 2>>]))
                                 /\ slot[x].obj \in cut'
               /\ \A x \in Place : x \notin {p} => slot'[x] = slot[x]
               /\ \A x \in Place : slot'[x].start = slot[x].start /\ slot'[x].dir = slot[x].dir /\ slot'[x].obj = slot[x].obj
               /\ slot' \in [Place -> Entry] /\ cut \subseteq cut' /\ cut' \subseteq Object
    <3>1. p \in Place /\ slot[p] \in Entry /\ slot \in [Place -> Entry]
      BY DEF DirPlaces, TreeBody, ShapeOK
    <3>2. p \in Standing
      BY <2>2, <3>1, NamesAre DEF Standing
    <3>3. slot[p].obj \in Object
      BY <3>2 DEF TreeBody, StandingOK
    <3>4. slot[p] # Empty /\ slot[p] # Old
      BY <2>2, NamesAre
    <3>5. slot'[p] = [slot[p] EXCEPT !.name = "cut"] /\ \A x \in Place : x # p => slot'[x] = slot[x]
      BY <2>2, <3>1
    <3>6. /\ slot'[p] \in Entry /\ slot'[p].name = "cut"
          /\ slot'[p].start = slot[p].start /\ slot'[p].dir = slot[p].dir /\ slot'[p].obj = slot[p].obj
      BY <3>1, <3>4, <3>5 DEF Entry
    <3>7. slot' \in [Place -> Entry]
      BY <2>2, <3>1, <3>6
    <3>8. cut' \subseteq Object
      BY <2>2, <3>3 DEF TreeBody, ShapeOK
    <3> QED BY <2>2, <3>2, <3>5, <3>6, <3>7, <3>8
  <2>3. CASE ~(slot' = slot /\ cut' = cut)
    <3>1. PICK p \in DirPlaces(s) :
                /\ slot' = [slot EXCEPT ![p].name = "cut"] /\ cut' = cut \union {slot[p].obj}
                /\ slot[p].name \in LongName
                /\ p = <<s, 2>> \/ (p = <<s, 3>> /\ IsDots(slot[<<s, 2>>]))
      BY <1>11, <2>3
    <3>2. {p} \in SUBSET DirPlaces(s)
      OBVIOUS
    <3>3. PICK X \in SUBSET DirPlaces(s) : X = {p}
      BY <3>2
    <3> QED BY <2>2, <3>1, <3>3
  <2> QED BY <2>1, <2>3
<1>13. \A x : DirPlaces(x)' = DirPlaces(x) /\ ParentCluster(x)' = ParentCluster(x)
  BY <1>3 DEF DirPlaces, ParentCluster, Root
<1>14. P \subseteq Standing /\ P \subseteq Place
  BY <1>12 DEF DirPlaces
<1>15. Standing' = Standing /\ Root' = Root
  <2>1. \A p \in Place : slot'[p].name \in Name \union {"cut"} <=> slot[p].name \in Name \union {"cut"}
    BY <1>12, NamesAre
  <2> QED BY <1>3, <2>1 DEF Standing, Root
<1>16. LiveDirs' = LiveDirs /\ Heads' = Heads
  <2>1. \A p \in Standing : slot'[p].start = slot[p].start /\ slot'[p].dir = slot[p].dir
    BY <1>12 DEF Standing
  <2> QED BY <1>15, <2>1 DEF LiveDirs, Heads
<1>17. ASSUME NEW u \in Thread, u # t
       PROVE  (Holding(u))' = Holding(u) /\ (Busy(u))' = Busy(u) /\ call'[u] = call[u] /\ (Written(u))' = Written(u)
  BY <1>4, <1>17 DEF Holding, Now, Busy, Written
<1>18. Roots' = Roots
  BY <1>6, <1>16, <1>17 DEF Roots
<1>19. CallsApart' /\ HeldLoose'
  <2>1. call'[t].uses \subseteq call[t].uses /\ call'[t].entry.obj = call[t].entry.obj
    BY <1>5 DEF c
  <2> QED BY <1>1, <1>4, <1>6, <1>16, <2>1, ApartStays
<1>20. StandingOK'
  <2>1. \A p \in Standing : /\ slot'[p].obj \in Object
                            /\ slot'[p].dir => slot'[p].start # 0
                            /\ slot'[p].start # 0 => slot'[p].start # Root
                            /\ \E x \in LiveDirs : p \in DirPlaces(x)
    BY <1>12 DEF TreeBody, StandingOK, Standing
  <2> QED BY <1>13, <1>15, <1>16, <2>1 DEF StandingOK
<1>21. OwnersOK'
  <2> SUFFICES ASSUME NEW p \in Standing, NEW q \in Standing, p # q
               PROVE  /\ slot'[p].start = slot'[q].start /\ slot'[p].start # 0 => slot'[p].obj = slot'[q].obj
                      /\ slot'[p].obj = slot'[q].obj =>
                          /\ Same(slot'[p], slot'[q])
                          /\ \/ slot'[p].obj \in twice
                             \/ \E u \in Thread : /\ call'[u].op = "rename" /\ Written(u)'
                                                  /\ {p, q} = {call'[u].old, call'[u].new}
    <3>1. twice' = twice
      BY <1>3
    <3>2. Standing' = Standing
      BY <1>15
    <3> QED BY <3>1, <3>2 DEF OwnersOK, Same
  <2>1. /\ slot'[p].start = slot[p].start /\ slot'[p].dir = slot[p].dir /\ slot'[p].obj = slot[p].obj
        /\ slot'[q].start = slot[q].start /\ slot'[q].dir = slot[q].dir /\ slot'[q].obj = slot[q].obj
    BY <1>12 DEF Standing
  <2>2. ASSUME NEW u \in Thread, call[u].op = "rename", Written(u)
        PROVE  call'[u].op = "rename" /\ Written(u)' /\ call'[u].old = call[u].old /\ call'[u].new = call[u].new
    <3>1. CASE u = t
      BY <1>2, <1>5, <1>6, <3>1 DEF c
    <3> QED BY <1>17, <2>2, <3>1
  <2> QED BY <2>1, <2>2 DEF TreeBody, OwnersOK, Same
<1>22. CleanOK'
  <2>1. CleanOK
    BY DEF TreeBody
  <2>2. \A p \in Place : slot'[p] = Old <=> slot[p] = Old
    <3>1. \A p \in P : slot'[p] # Old /\ slot[p] # Old
      BY <1>12, NamesAre
    <3> QED BY <1>12, <3>1
  <2>3. ASSUME NEW x \in LiveDirs, NEW p \in DirPlaces(x), slot[p] = Old
        PROVE  \E u \in Thread : call'[u].fresh # 0 /\ call'[u].fresh = p[1]
    <3>1. PICK u \in Thread : call[u].fresh # 0 /\ call[u].fresh = p[1]
      BY <2>1, <2>3 DEF CleanOK
    <3>2. u # t
      BY <1>6, <3>1 DEF c
    <3> QED BY <1>4, <3>1, <3>2
  <2>4. \A p \in Place : p[1] # 0 /\ link[p[1]] = Free => slot'[p] = Old
    BY <2>1, <2>2 DEF CleanOK
  <2>5. \A x \in Roots : \A p \in DirPlaces(x) :
           slot'[p].name = ".." => \E q \in DirPlaces(x) : slot'[q].name = "."
    <3>1. \A p \in P : slot[p].name # "." /\ slot'[p].name # ".."
      BY <1>12, NamesAre
    <3> QED BY <1>12, <2>1, <3>1 DEF CleanOK, DirPlaces
  <2> QED BY <1>3, <1>13, <1>16, <1>18, <2>2, <2>3, <2>4, <2>5 DEF CleanOK, DirPlaces
<1>23. DotsOK'
  <2> SUFFICES ASSUME NEW p \in Standing, slot'[p].dir, slot'[p].obj \notin moved' \union twice,
                      \A u \in Thread : call'[u].op = "rename" => call'[u].new # p,
                      NEW q \in DirPlaces(slot'[p].start), slot'[q].name = ".."
               PROVE  slot'[q].start = ParentCluster(p)
    <3>1. \A x : DirPlaces(slot[x].start)' = DirPlaces(slot'[x].start)
      BY <1>3 DEF DirPlaces
    <3> QED BY <1>3, <1>13, <1>15, <3>1 DEF DotsOK
  <2>1. p \in Place /\ q \in Place /\ q \notin P
    <3>1. \A x \in P : slot'[x].name # ".."
      BY <1>12
    <3> QED BY <3>1 DEF Standing, DirPlaces
  <2>2. slot'[p].start = slot[p].start /\ slot'[p].dir = slot[p].dir /\ slot'[p].obj = slot[p].obj /\ slot'[q] = slot[q]
    BY <1>12, <2>1
  <2>3. \A u \in Thread : call[u].op = "rename" => call[u].new # p
    BY <1>4, <1>5 DEF c
  <2> QED BY <1>11, <2>2, <2>3 DEF TreeBody, DotsOK
<1>24. ASSUME NEW x \in LiveDirs, NEW p \in P, p \in DirPlaces(x) PROVE x = s
  BY <1>9, <1>24, OneDirectory
<1>25. \A p \in P : ~IsDots(slot[p]) /\ slot[p].name # "cut"
  BY <1>12, NamesAre DEF IsDots
<1>26. ASSUME NEW p \in DirPlaces(s), NEW q \in P, slot[p].name = "cut" PROVE FALSE
  <2>1. p = <<s, 2>> \/ (p = <<s, 3>> /\ IsDots(slot[<<s, 2>>]))
    BY <1>9, <1>26 DEF TreeBody, CutOK
  <2>2. q = <<s, 2>> \/ (q = <<s, 3>> /\ IsDots(slot[<<s, 2>>]))
    BY <1>12
  <2>3. ~IsDots(slot[p]) /\ ~IsDots(slot[q]) /\ p # q
    BY <1>25, <1>26 DEF IsDots
  <2> QED BY <2>1, <2>2, <2>3
<1>27. NamesOK'
  <2> SUFFICES ASSUME NEW x \in LiveDirs, NEW p \in DirPlaces(x), NEW q \in DirPlaces(x),
                      p \in Standing, q \in Standing, slot'[p].name = slot'[q].name
               PROVE  p = q
    BY <1>13, <1>15, <1>16 DEF NamesOK
  <2>0. p \in Place /\ q \in Place
    BY DEF Standing
  <2>1. CASE p \notin P /\ q \notin P
    BY <1>12, <2>0, <2>1 DEF TreeBody, NamesOK
  <2>2. CASE p \in P /\ q \notin P
    <3>1. x = s /\ slot[q].name = "cut"
      BY <1>12, <1>24, <2>0, <2>2
    <3> QED BY <1>26, <2>2, <3>1
  <2>3. CASE p \notin P /\ q \in P
    <3>1. x = s /\ slot[p].name = "cut"
      BY <1>12, <1>24, <2>0, <2>3
    <3> QED BY <1>26, <2>3, <3>1
  <2>4. CASE p \in P /\ q \in P
    BY <1>12, <1>25, <2>4
  <2> QED BY <2>1, <2>2, <2>3, <2>4
<1>28. CutOK'
  <2> SUFFICES ASSUME NEW x \in LiveDirs, NEW p \in DirPlaces(x), slot'[p].name = "cut"
               PROVE  p = <<x, 2>> \/ (p = <<x, 3>> /\ IsDots(slot'[<<x, 2>>]))
    BY <1>13, <1>16 DEF CutOK, IsDots
  <2>1. p \in Place
    BY DEF DirPlaces
  <2>2. p = <<x, 3>> => <<x, 2>> \in Place
    BY <2>1, PlaceBefore
  <2>3. CASE p \notin P
    <3>1. slot[p].name = "cut"
      BY <1>12, <2>1, <2>3
    <3>2. p = <<x, 2>> \/ (p = <<x, 3>> /\ IsDots(slot[<<x, 2>>]))
      BY <3>1 DEF TreeBody, CutOK
    <3> QED BY <1>12, <1>25, <2>2, <3>2
  <2>4. CASE p \in P
    <3>1. x = s
      BY <1>24, <2>4
    <3>2. p = <<x, 2>> \/ (p = <<x, 3>> /\ IsDots(slot[<<x, 2>>]))
      BY <1>12, <2>4, <3>1
    <3> QED BY <1>12, <1>25, <2>2, <3>2
  <2> QED BY <2>3, <2>4
<1>29. HomeOK'
  <2> SUFFICES ASSUME NEW x \in Object, home[x] # Nowhere
               PROVE  /\ home[x][1] \in LiveDirs
                      /\ \E p \in DirPlaces(home[x][1]) \intersect Standing :
                            /\ slot'[p].obj = x
                            /\ slot'[p].name = home[x][2] \/ (x \in cut' /\ slot'[p].name = "cut")
    BY <1>3, <1>13, <1>15, <1>16 DEF HomeOK, DirPlaces
  <2>1. PICK p \in DirPlaces(home[x][1]) \intersect Standing :
                /\ slot[p].obj = x
                /\ slot[p].name = home[x][2] \/ (x \in cut /\ slot[p].name = "cut")
    BY DEF TreeBody, HomeOK
  <2>2. home[x][1] \in LiveDirs
    BY DEF TreeBody, HomeOK
  <2>3. p \in Place
    BY DEF Standing
  <2>4. slot'[p].obj = x /\ (slot'[p].name = home[x][2] \/ (x \in cut' /\ slot'[p].name = "cut"))
    BY <1>12, <2>1, <2>3
  <2> QED BY <2>2, <2>4
<1>30. Ranked'
  <2>1. PICK rank \in [Cluster \union {0} -> Nat] : RankedBy(rank)
    BY DEF TreeBody, Ranked
  <2>2. \A x \in LiveDirs : \A p \in DirPlaces(x) \cap Standing : slot'[p].dir => rank[x] < rank[slot'[p].start]
    BY <1>12, <2>1 DEF RankedBy, Standing
  <2>3. RankedBy(rank)'
    BY <1>13, <1>15, <1>16, <2>2 DEF RankedBy
  <2> QED BY <2>3 DEF Ranked
<1>31. ShapeOK'
  <2>1. call' \in [Thread -> CallType]
    BY <1>2, <1>3 DEF TreeBody, ShapeOK
  <2>2. moved' \subseteq Object
    BY <1>7, <1>11 DEF TreeBody, ShapeOK
  <2> QED BY <1>3, <1>12, <2>1, <2>2 DEF TreeBody, ShapeOK
<1>32. ASSUME NEW u \in Thread, u # t PROVE CallInv(u)'
  <2>1. \A p \in Place : slot'[p] = slot[p] \/ \E x \in c.uses : p \in DirPlaces(x)
    BY <1>7, <1>12
  <2>2. \A p \in Standing' : p \in Standing /\ slot'[p].obj = slot[p].obj
    BY <1>12, <1>15 DEF Standing
  <2>3. Spared(u)
    BY <1>1, <1>3, <1>4, <1>11, <1>16, <1>32, <2>1, <2>2, NearSteps DEF c
  <2> QED BY <1>3, <2>3, SparedKeeps
<1>33. c.new \notin P /\ c.old \notin P /\ slot'[c.new] = c.entry /\ slot'[c.old] = slot[c.old]
       /\ \A q \in DirPlaces(r) : slot'[q] = slot[q]
  <2>1. \A q \in DirPlaces(r) : q \notin P /\ q \in Place
    BY <1>7, <1>10, <1>24 DEF DirPlaces
  <2>2. c.old \notin P /\ c.old \in Place
    BY <1>8, <1>10, <1>24 DEF DirPlaces
  <2> QED BY <1>7, <1>12, <2>1, <2>2
<1>34. CallInv(t)'
  <2>1. PlanOK(t)'
    <3>1. InPlan(call'[t])
      BY <1>2, <1>4
    <3> QED BY <1>1, <1>2, <1>5, <1>6, <3>1 DEF PlanOK, c
  <2>2. CallOK(t)'
    <3>1. ParentCluster(call[t].new)' = ParentCluster(c.new) /\ ParentCluster(call[t].old)' = ParentCluster(c.old)
      BY <1>3, <1>5 DEF ParentCluster, Root
    <3> QED BY <1>1, <1>2, <1>5, <1>6, <1>11, <1>16, <3>1 DEF CallOK, c
  <2>3. NewOK(t)'
    <3>1. DirPlaces(call[t].in)' = DirPlaces(r)
      BY <1>3, <1>5 DEF DirPlaces, c, r
    <3> QED BY <1>5, <1>6, <1>7, <1>15, <1>33, <3>1 DEF NewOK, c, r
  <2>4. OldOK(t)'
    <3>1. DirPlaces(d)' = DirPlaces(d)
      BY <1>13
    <3> QED BY <1>5, <1>6, <1>7, <1>8, <1>15, <1>16, <1>33, <3>1, ZenonT(60) DEF OldOK, Same, c
  <2>5. OnlyOK(t)'
    <3>1. \A p \in Standing : slot'[p].obj = slot[p].obj
      BY <1>12 DEF Standing
    <3> QED BY <1>1, <1>5, <1>6, <1>15, <3>1 DEF OnlyOK, c
  <2>6. BareOK(t)' /\ FreshOK(t)'
    BY <1>2, <1>5, <1>6 DEF BareOK, FreshOK
  <2> QED BY <2>1, <2>2, <2>3, <2>4, <2>5, <2>6 DEF CallInv
<1>35. WellFormed(link, Roots)' /\ NoLeak'
  BY <1>3, <1>18 DEF TreeBody, NoLeak
<1> QED BY <1>19, <1>20, <1>21, <1>22, <1>23, <1>27, <1>28, <1>29, <1>30, <1>31, <1>32, <1>34, <1>35 DEF TreeBody

\* What a call does when its old name is gone.
LEMMA EraseStep ==
    ASSUME TreeBody, NEW t \in Thread, Doing(t, {"erase"})
    PROVE  \/ call[t].op = "rename" /\ call[t].todo = <<"erase">> /\ Advance(call[t]) = NoCall
           \/ call[t].op = "delete" /\ call[t].entry.start = 0 /\ Advance(call[t]) = NoCall
           \/ /\ call[t].op \in {"delete", "undo"} /\ call[t].entry.start # 0
              /\ Advance(call[t]) = [call[t] EXCEPT !.todo = <<"free">>] /\ InPlan(Advance(call[t]))
<1> DEFINE c == call[t]
<1>1. Now(t) = "erase" /\ InPlan(c) /\ c \in CallType /\ Busy(t) /\ CallOK(t)
  BY StepIs
<1>2. c.todo # <<>>
  BY <1>1, AdvanceIs
<1>3. \/ c.op = "rename" /\ c.todo = <<"erase">>
      \/ c.op = "delete" /\ c.todo \in {<<"erase">>, <<"erase", "free">>}
      \/ c.op = "undo" /\ c.todo = <<"erase", "free">>
  BY <1>1, <1>2 DEF InPlan, Mkdirs, Creates, Deletes, Renames, Now
<1>4. /\ c.op = "delete" => (c.entry.start = 0 <=> c.todo = <<"erase">>)
      /\ c.op = "undo" => c.entry.start # 0
  BY <1>1, MarksAreNotClusters DEF CallOK, Free
<1> HIDE DEF c
<1>5. <<"erase">> \in Lasts /\ <<"erase", "free">> \notin Lasts /\ Tail(<<"erase", "free">>) = <<"free">>
      /\ <<"erase">> # <<"erase", "free">>
  BY DEF Lasts
<1>6. CASE c.todo = <<"erase">>
  <2>1. Advance(c) = NoCall
    BY <1>1, <1>5, <1>6, AdvanceIs
  <2> QED BY <1>3, <1>4, <1>5, <1>6, <2>1 DEF c
<1>7. CASE c.todo = <<"erase", "free">>
  <2>1. Advance(c) = [c EXCEPT !.todo = <<"free">>] /\ InPlan(Advance(c))
    BY <1>1, <1>5, <1>7, AdvanceIs
  <2> QED BY <1>3, <1>4, <1>5, <1>7, <2>1 DEF c
<1> QED BY <1>3, <1>6, <1>7

\* What is left when a name is gone: for a rename the new name of the object, and
\* else none.
LEMMA Erased ==
    ASSUME TreeBody, NEW t \in Thread, Doing(t, {"erase"}), old_root' = old_root,
           \A p \in Place : p # call[t].old => slot'[p] = slot[p],
           slot'[call[t].old] = Empty
    PROVE  /\ Standing' = Standing \ {call[t].old} /\ Root' = Root
           /\ LiveDirs' \subseteq LiveDirs /\ Heads' \subseteq Heads
           /\ call[t].op = "rename" => LiveDirs' = LiveDirs /\ Heads' = Heads
           /\ call[t].op # "rename" =>
                 /\ \A p \in Standing' : slot[p].obj # call[t].entry.obj
                 /\ \A d \in LiveDirs : d \in LiveDirs' \/ (call[t].entry.dir /\ d = call[t].entry.start)
                 /\ call[t].entry.start = 0 => Heads' = Heads
                 /\ call[t].entry.start # 0 => Heads' = Heads \ {call[t].entry.start} /\ call[t].entry.start \in Heads
<1> DEFINE c == call[t]
           x == call[t].old
           s == call[t].entry.start
<1>1. /\ Now(t) = "erase" /\ Busy(t) /\ InPlan(c) /\ c \in CallType
      /\ PlanOK(t) /\ CallOK(t) /\ NewOK(t) /\ OldOK(t) /\ OnlyOK(t)
  BY StepIs
<1>2. c.op \in {"rename", "delete", "undo"}
  BY EraseStep
<1>3. x \in Standing /\ x \in Place /\ slot[x].obj = c.entry.obj /\ slot[x].start = s /\ slot[x].dir = c.entry.dir
  BY <1>1, <1>2 DEF OldOK, HasOld, Same, Standing
<1>4. c.op = "rename" => c.new \in Standing /\ c.new # x /\ slot[c.new] = c.entry
  BY <1>1 DEF NewOK, Written
<1>5. c.op # "rename" => c.new \in {x, NoPlace}
  BY <1>1, <1>2 DEF PlanOK
<1> HIDE DEF c, x, s
<1>6. \A p \in Place : p # x => slot'[p] = slot[p]
  BY DEF x
<1>7. Standing' = Standing \ {x} /\ Root' = Root
  <2>1. slot'[x].name \notin Name \union {"cut"}
    BY NamesAre DEF x
  <2>2. Root' = Root
    BY DEF Root
  <2> QED BY <1>6, <2>1, <2>2 DEF Standing
<1>8. \A p \in Standing' : p \in Standing /\ p # x /\ slot'[p] = slot[p]
  BY <1>6, <1>7 DEF Standing
<1>9. LiveDirs' \subseteq LiveDirs /\ Heads' \subseteq Heads
  BY <1>7, <1>8 DEF LiveDirs, Heads
<1>10. ASSUME c.op = "rename" PROVE LiveDirs' = LiveDirs /\ Heads' = Heads
  <2>1. \A p \in Standing : \E q \in Standing' : slot'[q].start = slot[p].start /\ slot'[q].dir = slot[p].dir
    <3> SUFFICES ASSUME NEW p \in Standing
                 PROVE  \E q \in Standing' : slot'[q].start = slot[p].start /\ slot'[q].dir = slot[p].dir
      OBVIOUS
    <3>1. CASE p = x
      <4>1. c.new \in Standing' /\ slot'[c.new] = slot[c.new]
        BY <1>4, <1>7, <1>8, <1>10
      <4>2. slot'[c.new].start = slot[p].start /\ slot'[c.new].dir = slot[p].dir
        BY <1>3, <1>4, <1>10, <3>1, <4>1 DEF s, c
      <4> QED BY <4>1, <4>2
    <3>2. CASE p # x
      BY <1>7, <1>8, <3>2
    <3> QED BY <3>1, <3>2
  <2>2. LiveDirs \subseteq LiveDirs'
    <3> SUFFICES ASSUME NEW d \in LiveDirs, d # Root PROVE d \in LiveDirs'
      BY <1>7 DEF LiveDirs
    <3>1. PICK p \in Standing : slot[p].dir /\ d = slot[p].start
      BY DEF LiveDirs
    <3>2. PICK q \in Standing' : slot'[q].start = slot[p].start /\ slot'[q].dir = slot[p].dir
      BY <2>1
    <3> QED BY <3>1, <3>2 DEF LiveDirs
  <2>3. Heads \subseteq Heads'
    <3> SUFFICES ASSUME NEW d \in Heads, d # Root PROVE d \in Heads'
      BY <1>7 DEF Heads
    <3>1. PICK p \in Standing : d = slot[p].start
      BY DEF Heads
    <3>2. PICK q \in Standing' : slot'[q].start = slot[p].start
      BY <2>1
    <3> QED BY <3>1, <3>2 DEF Heads
  <2> QED BY <1>9, <2>2, <2>3
<1>11. ASSUME c.op # "rename"
       PROVE  /\ \A p \in Standing' : slot[p].obj # c.entry.obj
              /\ \A d \in LiveDirs : d \in LiveDirs' \/ (c.entry.dir /\ d = s)
              /\ s = 0 => Heads' = Heads
              /\ s # 0 => Heads' = Heads \ {s} /\ s \in Heads
  <2>1. \A p \in Standing' : slot[p].obj # c.entry.obj
    <3>1. \A p \in Standing : slot[p].obj = c.entry.obj => p \in {x, c.new}
      BY <1>1 DEF OnlyOK, c, x
    <3>2. NoPlace \notin Standing
      BY NoPlaceIsNone DEF Standing
    <3> QED BY <1>5, <1>8, <1>11, <3>1, <3>2
  <2>2. \A p \in Standing' : slot[p].start = s => s = 0
    <3> SUFFICES ASSUME NEW p \in Standing', slot[p].start = s, s # 0 PROVE FALSE
      OBVIOUS
    <3>1. p \in Standing /\ p # x
      BY <1>8
    <3>2. slot[p].obj = slot[x].obj
      BY <1>3, <3>1 DEF TreeBody, OwnersOK
    <3> QED BY <1>3, <2>1, <3>2
  <2>3. \A d \in LiveDirs : d \in LiveDirs' \/ (c.entry.dir /\ d = s)
    <3> SUFFICES ASSUME NEW d \in LiveDirs, d # Root, ~(c.entry.dir /\ d = s) PROVE d \in LiveDirs'
      BY <1>7 DEF LiveDirs
    <3>1. PICK p \in Standing : slot[p].dir /\ d = slot[p].start
      BY DEF LiveDirs
    <3>2. p # x
      BY <1>3, <3>1
    <3>3. p \in Standing' /\ slot'[p] = slot[p]
      BY <1>7, <1>8, <3>2
    <3> QED BY <3>1, <3>3 DEF LiveDirs
  <2>4. ASSUME NEW h \in Heads, h # s PROVE h \in Heads'
    <3>1. CASE h = Root
      BY <1>7, <2>4, <3>1 DEF Heads
    <3>2. CASE h # Root
      <4>1. PICK p \in Standing : h = slot[p].start
        BY <2>4, <3>2 DEF Heads
      <4>2. p # x
        BY <1>3, <2>4, <4>1
      <4>3. p \in Standing' /\ slot'[p] = slot[p]
        BY <1>7, <1>8, <4>2
      <4> QED BY <2>4, <4>1, <4>3 DEF Heads
    <3> QED BY <3>1, <3>2
  <2>5. s # 0 => s # Root /\ s \in Heads
    BY <1>3 DEF TreeBody, StandingOK, Heads
  <2>6. s # 0 => s \notin Heads'
    BY <1>7, <1>8, <2>2, <2>5 DEF Heads
  <2>7. 0 \notin Heads
    BY DEF Heads
  <2> QED BY <1>9, <2>1, <2>3, <2>4, <2>5, <2>6, <2>7
<1> QED BY <1>7, <1>9, <1>10, <1>11 DEF c, x, s

\* A name is deleted.
LEMMA EraseKeeps ==
    ASSUME TreeBody, NEW t \in Thread, Erase(t)
    PROVE  TreeBody'
<1> DEFINE c == call[t]
           x == call[t].old
           s == call[t].entry.start
           o == call[t].entry.obj
           ren == call[t].op = "rename"
<1>0. Doing(t, {"erase"})
  BY DEF Erase
<1>1. /\ Now(t) = "erase" /\ Busy(t) /\ InPlan(c) /\ c \in CallType
      /\ PlanOK(t) /\ CallOK(t) /\ NewOK(t) /\ OldOK(t) /\ OnlyOK(t) /\ BareOK(t) /\ FreshOK(t)
  BY <1>0, StepIs
<1>2. /\ slot' = [slot EXCEPT ![x] = Empty] /\ call' = [call EXCEPT ![t] = Advance(c)]
      /\ home' = [home EXCEPT ![o] = IF ren THEN <<c.in, c.entry.name>> ELSE Nowhere]
      /\ cut' = cut \ {o} /\ moved' = (IF ren THEN moved ELSE moved \ {o})
      /\ old_root' = old_root /\ link' = link /\ UNCHANGED <<twice, leaky, faults>>
  BY DEF Erase, Goes
<1>3. call'[t] = Advance(c) /\ \A u \in Thread : u # t => call'[u] = call[u]
  BY <1>0, <1>2, Steps
<1>4. c.op \in {"rename", "delete", "undo"}
  BY <1>0, EraseStep
<1>5. /\ x \in Standing /\ x \in Place /\ Same(slot[x], c.entry)
      /\ c.in \in c.uses /\ c.in \in LiveDirs /\ o \in Object /\ c.in \in Cluster \union {0}
      /\ c.entry.dir /\ s # 0 => s \in c.uses
      /\ c.entry.dir => s \in c.uses
      /\ ~ren /\ s # 0 => c.in # s
  BY <1>1, <1>4 DEF OldOK, HasOld, CallOK, CallType, Standing
<1>6. PICK d \in c.uses : d \in LiveDirs /\ x \in DirPlaces(d)
  BY <1>1, <1>4 DEF OldOK, HasOld
<1>7. ren => /\ c.new \in Standing /\ c.new \in DirPlaces(c.in) /\ slot[c.new] = c.entry /\ c.new # x
             /\ c.entry.name \in Name
  BY <1>1 DEF NewOK, Written, CallOK
<1>8. ~ren /\ c.entry.dir => \A p \in DirPlaces(s) : p \notin Standing
  <2>1. c.entry.dir => s # 0
    BY <1>1, MarksAreNotClusters DEF CallOK, Free
  <2> QED BY <1>1, <1>4, <2>1 DEF BareOK
<1>9. (\A p \in Place : p # x => slot'[p] = slot[p]) /\ slot'[x] = Empty
  BY <1>2, <1>5 DEF TreeBody, ShapeOK
<1>10. /\ Standing' = Standing \ {x} /\ Root' = Root
       /\ LiveDirs' \subseteq LiveDirs /\ Heads' \subseteq Heads
       /\ ren => LiveDirs' = LiveDirs /\ Heads' = Heads
       /\ ~ren =>
             /\ \A p \in Standing' : slot[p].obj # o
             /\ \A y \in LiveDirs : y \in LiveDirs' \/ (c.entry.dir /\ y = s)
             /\ s = 0 => Heads' = Heads
             /\ s # 0 => Heads' = Heads \ {s} /\ s \in Heads
  BY <1>0, <1>2, <1>9, Erased
\* What is left of the call.
<1>11. \/ call'[t] = NoCall /\ CallInv(t)' /\ ~(Busy(t)') /\ ~(Holding(t)') /\ ~(Written(t)') /\ (ren \/ s = 0)
       \/ /\ ~ren /\ s # 0 /\ call'[t].todo = <<"free">> /\ call'[t].op = c.op /\ call'[t].in = c.in
          /\ call'[t].entry = c.entry /\ call'[t].old = c.old /\ call'[t].new = c.new /\ call'[t].fresh = c.fresh
          /\ call'[t].uses = c.uses /\ Now(t)' = "free" /\ Busy(t)' /\ Holding(t)' /\ ~(Written(t)') /\ ~(HasOld(t)')
          /\ InPlan(call'[t]) /\ s \in Cluster
  <2>1. CASE call'[t] = NoCall /\ (ren \/ s = 0)
    BY <2>1, IdleInv
  <2>2. CASE ~ren /\ s # 0 /\ Advance(c) = [c EXCEPT !.todo = <<"free">>] /\ InPlan(Advance(c))
    <3>1. /\ call'[t].todo = <<"free">> /\ call'[t].op = c.op /\ call'[t].in = c.in
          /\ call'[t].entry = c.entry /\ call'[t].old = c.old /\ call'[t].new = c.new /\ call'[t].fresh = c.fresh
          /\ call'[t].uses = c.uses
      BY <1>1, <1>3, <2>2 DEF CallType
    <3>2. Now(t)' = "free"
      BY <3>1 DEF Now
    <3>3. s \in Cluster
      BY <1>1, <2>2, EntryIs DEF CallType
    <3> QED BY <1>1, <1>3, <2>2, <3>1, <3>2, <3>3 DEF Busy, Holding, Written, HasOld
  <2> QED BY <1>0, <1>3, <2>1, <2>2, EraseStep
<1>12. c.fresh = 0 /\ ~Holding(t) /\ call'[t] \in CallType
  <2>1. c.fresh = 0 /\ ~Holding(t)
    BY <1>1 DEF PlanOK, Holding
  <2> QED BY <1>1, <1>3, <2>1, AdvanceIs
<1> HIDE DEF c, x, s, o, ren
<1>13. \A y : DirPlaces(y)' = DirPlaces(y) /\ ParentCluster(y)' = ParentCluster(y)
  BY <1>2 DEF DirPlaces, ParentCluster, Root
<1>14. ASSUME NEW p \in Standing' PROVE p \in Standing /\ p \in Place /\ p # x /\ slot'[p] = slot[p]
  BY <1>9, <1>10 DEF Standing
<1>15. ASSUME NEW p \in Standing', NEW y \in LiveDirs, p \in DirPlaces(y) PROVE y \in LiveDirs'
  BY <1>8, <1>10, <1>14, <1>15
<1>16. ASSUME NEW u \in Thread, u # t
       PROVE  /\ (Holding(u))' = Holding(u) /\ (Busy(u))' = Busy(u) /\ call'[u] = call[u] /\ (Written(u))' = Written(u)
              /\ Holding(u) => Busy(u)
  <2>1. (Holding(u))' = Holding(u) /\ (Busy(u))' = Busy(u) /\ call'[u] = call[u] /\ (Written(u))' = Written(u)
    BY <1>3, <1>16 DEF Holding, Now, Busy, Written
  <2> QED BY <2>1, BusyIs DEF TreeBody, CallInv
<1>17. Roots' = Roots
  <2>1. CASE call'[t] = NoCall
    <3>1. Heads' = Heads /\ ~(Holding(t)')
      BY <1>10, <1>11, <2>1, NoCallIs
    <3> QED BY <1>12, <1>16, <3>1 DEF Roots
  <2>2. CASE call'[t] # NoCall
    <3>1. Heads' = Heads \ {s} /\ s \in Heads /\ Holding(t)' /\ call'[t].entry.start = s
      BY <1>10, <1>11, <2>2 DEF s, c
    <3>2. Roots' \subseteq Roots
      BY <1>16, <3>1 DEF Roots
    <3>3. Roots \subseteq Roots'
      BY <1>12, <1>16, <3>1 DEF Roots
    <3> QED BY <3>2, <3>3
  <2> QED BY <2>1, <2>2
<1>18. CallsApart' /\ HeldLoose'
  <2>1. CallsApart /\ HeldLoose
    BY DEF TreeBody
  <2>2. HeldLoose'
    <3>1. Holding(t)' => call'[t].entry.start \notin Heads'
      BY <1>10, <1>11 DEF s, c
    <3> QED BY <1>10, <1>16, <2>1, <3>1 DEF HeldLoose
  <2>3. ASSUME NEW u \in Thread, u # t, Busy(u), Busy(t)'
        PROVE  /\ call'[t].uses \intersect call[u].uses = {}
               /\ call'[t].entry.obj # call[u].entry.obj
               /\ Holding(u) => call'[t].entry.start # call[u].entry.start
    <3>1. /\ call[t].uses \intersect call[u].uses = {}
          /\ call[t].entry.obj # call[u].entry.obj
      BY <1>1, <2>1, <2>3 DEF CallsApart
    <3>2. Holding(u) => call[u].entry.start # s
      BY <1>10, <1>11, <2>1, <2>3 DEF HeldLoose
    <3> QED BY <1>11, <2>3, <3>1, <3>2 DEF c, s
  <2>4. ASSUME NEW u \in Thread, NEW v \in Thread, u # v, u # t, v # t, Busy(u), Busy(v)
        PROVE  /\ call[u].uses \intersect call[v].uses = {}
               /\ call[u].entry.obj # call[v].entry.obj
               /\ Holding(u) /\ Holding(v) => call[u].entry.start # call[v].entry.start
    BY <2>1, <2>4 DEF CallsApart
  <2> QED BY <1>16, <2>2, <2>3, <2>4 DEF CallsApart
<1>19. StandingOK'
  <2> SUFFICES ASSUME NEW p \in Standing'
               PROVE  /\ slot'[p].obj \in Object
                      /\ slot'[p].dir => slot'[p].start # 0
                      /\ slot'[p].start # 0 => slot'[p].start # Root
                      /\ \E y \in LiveDirs' : p \in DirPlaces(y)
    BY <1>10, <1>13 DEF StandingOK
  <2> QED BY <1>14, <1>15 DEF TreeBody, StandingOK
<1>20. OwnersOK'
  <2> SUFFICES ASSUME NEW p \in Standing', NEW q \in Standing', p # q
               PROVE  /\ slot'[p].start = slot'[q].start /\ slot'[p].start # 0 => slot'[p].obj = slot'[q].obj
                      /\ slot'[p].obj = slot'[q].obj =>
                          /\ Same(slot'[p], slot'[q])
                          /\ \/ slot'[p].obj \in twice
                             \/ \E u \in Thread : /\ call'[u].op = "rename" /\ Written(u)'
                                                  /\ {p, q} = {call'[u].old, call'[u].new}
    <3>1. twice' = twice
      BY <1>2
    <3> QED BY <3>1 DEF OwnersOK, Same
  <2>1. /\ p \in Standing /\ p # x /\ slot'[p] = slot[p]
        /\ q \in Standing /\ q # x /\ slot'[q] = slot[q]
    BY <1>14
  <2>2. \A u \in Thread : {p, q} = {call[u].old, call[u].new} => u # t
    BY <2>1 DEF x
  <2> QED BY <1>16, <2>1, <2>2 DEF TreeBody, OwnersOK
<1>21. CleanOK'
  <2>1. CleanOK
    BY DEF TreeBody
  <2>2. slot'[x] # Old /\ slot[x] # Old /\ slot[x].name # "." /\ slot'[x].name # ".."
    BY <1>5, <1>9, NamesAre DEF Standing
  <2>3. ASSUME NEW y \in LiveDirs', NEW p \in DirPlaces(y), slot'[p] = Old
        PROVE  \E u \in Thread : call'[u].fresh # 0 /\ call'[u].fresh = p[1]
    <3>1. slot[p] = Old /\ y \in LiveDirs
      BY <1>9, <1>10, <2>2, <2>3 DEF DirPlaces
    <3>2. PICK u \in Thread : call[u].fresh # 0 /\ call[u].fresh = p[1]
      BY <2>1, <3>1 DEF CleanOK
    <3>3. u # t
      BY <1>12, <3>2 DEF c
    <3> QED BY <1>3, <3>2, <3>3
  <2>4. \A p \in Place : p[1] # 0 /\ link[p[1]] = Free => slot'[p] = Old
    BY <1>9, <2>1, <2>2 DEF CleanOK
  <2>5. \A y \in Roots : \A p \in DirPlaces(y) :
           slot'[p].name = ".." => \E q \in DirPlaces(y) : slot'[q].name = "."
    BY <1>9, <2>1, <2>2 DEF CleanOK, DirPlaces
  <2> QED BY <1>2, <1>13, <1>17, <2>3, <2>4, <2>5 DEF CleanOK, DirPlaces
<1>22. DotsOK'
  <2> SUFFICES ASSUME NEW p \in Standing', slot'[p].dir, slot'[p].obj \notin moved' \union twice,
                      \A u \in Thread : call'[u].op = "rename" => call'[u].new # p,
                      NEW q \in DirPlaces(slot'[p].start), slot'[q].name = ".."
               PROVE  slot'[q].start = ParentCluster(p)
    <3>1. \A y : DirPlaces(slot[y].start)' = DirPlaces(slot'[y].start)
      BY <1>2 DEF DirPlaces
    <3> QED BY <1>2, <1>13, <3>1 DEF DotsOK
  <2>1. p \in Standing /\ p # x /\ slot'[p] = slot[p] /\ q \in Place /\ slot'[q] = slot[q]
    <3>1. slot'[x].name # ".."
      BY <1>9, NamesAre
    <3> QED BY <1>9, <1>14, <3>1 DEF DirPlaces
  <2>2. CASE ren /\ p = c.new
    <3>1. ParentCluster(p) = ParentCluster(x) /\ slot[p].obj = o /\ slot[p].start = s /\ slot[p].dir = c.entry.dir
          /\ o \notin moved \union twice
      <4>1. slot[p] = c.entry
        BY <1>7, <2>2
      <4>2. o \notin moved /\ c.entry.dir
        BY <1>2, <2>1, <2>2, <4>1 DEF c, o
      <4>3. ParentCluster(c.new) = ParentCluster(c.old)
        BY <1>1, <2>2, <4>2 DEF CallOK, c, o, ren
      <4> QED BY <2>1, <2>2, <4>1, <4>2, <4>3 DEF c, o, s, x
    <3>2. slot[x].obj = o /\ slot[x].start = s /\ slot[x].dir
      BY <1>5, <2>1, <3>1 DEF Same, c, o, s
    <3>3. \A u \in Thread : call[u].op = "rename" => call[u].new # x
      <4> SUFFICES ASSUME NEW u \in Thread, call[u].op = "rename", call[u].new = x PROVE FALSE
        OBVIOUS
      <4>1. u # t
        BY <1>7, <2>2 DEF c
      <4>2. PlanOK(u) /\ NewOK(u) /\ Busy(u)
        BY DEF TreeBody, CallInv, Busy
      <4>3. Written(u)
        BY <1>5, <4>2, NoPlaceIsNone DEF PlanOK
      <4>4. Now(u) # "store"
        BY <4>2, <4>3, NoCallIs DEF PlanOK, InPlan, Renames, Now
      <4>5. slot[x] = call[u].entry
        BY <4>2, <4>3, <4>4 DEF NewOK
      <4>6. call[u].entry.obj # o
        BY <1>1, <4>1, <4>2 DEF TreeBody, CallsApart, o
      <4> QED BY <3>2, <4>5, <4>6
    <3>4. slot[q].start = ParentCluster(x)
      <4>1. q \in DirPlaces(slot[x].start) /\ slot[q].name = ".."
        BY <2>1, <3>1, <3>2
      <4> QED BY <1>5, <3>1, <3>2, <3>3, <4>1 DEF TreeBody, DotsOK
    <3> QED BY <2>1, <3>1, <3>4
  <2>3. CASE ~(ren /\ p = c.new)
    <3>1. slot[p].obj \notin moved
      BY <1>2, <1>10, <2>1 DEF o
    <3>2. \A u \in Thread : call[u].op = "rename" => call[u].new # p
      BY <1>3, <2>3 DEF c, ren
    <3> QED BY <2>1, <3>1, <3>2 DEF TreeBody, DotsOK
  <2> QED BY <2>2, <2>3
<1>23. NamesOK'
  <2> SUFFICES ASSUME NEW y \in LiveDirs', NEW p \in DirPlaces(y), NEW q \in DirPlaces(y),
                      p \in Standing', q \in Standing', slot'[p].name = slot'[q].name
               PROVE  p = q
    BY <1>13 DEF NamesOK
  <2> QED BY <1>10, <1>14 DEF TreeBody, NamesOK
<1>24. CutOK'
  <2> SUFFICES ASSUME NEW y \in LiveDirs', NEW p \in DirPlaces(y), slot'[p].name = "cut"
               PROVE  p = <<y, 2>> \/ (p = <<y, 3>> /\ IsDots(slot'[<<y, 2>>]))
    BY <1>13 DEF CutOK, IsDots
  <2>1. p \in Place /\ p # x /\ slot[p].name = "cut"
    BY <1>9, NamesAre DEF DirPlaces
  <2>2. p = <<y, 3>> => <<y, 2>> \in Place
    BY <2>1, PlaceBefore
  <2>3. p = <<y, 2>> \/ (p = <<y, 3>> /\ IsDots(slot[<<y, 2>>]))
    BY <1>10, <2>1 DEF TreeBody, CutOK
  <2>4. ~IsDots(slot[x])
    BY <1>5, NamesAre DEF Standing, IsDots
  <2> QED BY <1>9, <2>2, <2>3, <2>4
<1>25. HomeOK'
  <2> SUFFICES ASSUME NEW y \in Object, home'[y] # Nowhere
               PROVE  /\ home'[y][1] \in LiveDirs'
                      /\ \E p \in DirPlaces(home'[y][1]) \intersect Standing' :
                            /\ slot'[p].obj = y
                            /\ slot'[p].name = home'[y][2] \/ (y \in cut' /\ slot'[p].name = "cut")
    <3>1. \A y : DirPlaces(home[y][1])' = DirPlaces(home'[y][1])
      BY <1>2 DEF DirPlaces
    <3> QED BY <3>1 DEF HomeOK
  <2>1. CASE y = o
    <3>1. home'[y] = (IF ren THEN <<c.in, c.entry.name>> ELSE Nowhere)
      BY <1>2, <2>1 DEF TreeBody, ShapeOK
    <3>2. ren /\ home'[y] = <<c.in, c.entry.name>>
      BY <3>1
    <3>3. c.new \in Standing' /\ slot'[c.new] = c.entry
      BY <1>7, <1>10, <1>14, <3>2
    <3> QED BY <1>5, <1>7, <1>10, <2>1, <3>2, <3>3 DEF c, o
  <2>2. CASE y # o
    <3>1. home'[y] = home[y] /\ (y \in cut => y \in cut')
      BY <1>2, <2>2 DEF TreeBody, ShapeOK
    <3>2. home[y][1] \in LiveDirs
      BY <3>1 DEF TreeBody, HomeOK
    <3>3. PICK p \in DirPlaces(home[y][1]) \intersect Standing :
                /\ slot[p].obj = y
                /\ slot[p].name = home[y][2] \/ (y \in cut /\ slot[p].name = "cut")
      BY <3>1 DEF TreeBody, HomeOK
    <3>4. p # x
      BY <1>5, <2>2, <3>3 DEF Same, c, o
    <3>5. p \in Standing' /\ slot'[p] = slot[p] /\ home[y][1] \in LiveDirs'
      BY <1>10, <1>14, <1>15, <3>2, <3>3, <3>4
    <3> QED BY <3>1, <3>3, <3>5
  <2> QED BY <2>1, <2>2
<1>26. Ranked'
  <2>1. PICK rank \in [Cluster \union {0} -> Nat] : RankedBy(rank)
    BY DEF TreeBody, Ranked
  <2>2. \A y \in LiveDirs' : \A p \in DirPlaces(y) \cap Standing' : slot'[p].dir => rank[y] < rank[slot'[p].start]
    BY <1>10, <1>14, <2>1 DEF RankedBy
  <2>3. RankedBy(rank)'
    BY <1>13, <2>2 DEF RankedBy
  <2> QED BY <2>3 DEF Ranked
<1>27. ShapeOK'
  <2>1. call' \in [Thread -> CallType]
    BY <1>2, <1>3, <1>12 DEF TreeBody, ShapeOK
  <2>2. home' \in [Object -> ((Cluster \union {0}) \X Name) \union {Nowhere}]
    <3>1. ren => <<c.in, c.entry.name>> \in (Cluster \union {0}) \X Name
      BY <1>5, <1>7
    <3> QED BY <1>2, <3>1 DEF TreeBody, ShapeOK
  <2>3. slot' \in [Place -> Entry]
    <3>1. Empty \in Entry
      BY DEF Entry
    <3> QED BY <1>2, <3>1 DEF TreeBody, ShapeOK
  <2>4. moved' \subseteq Object /\ cut' \subseteq Object
    BY <1>2 DEF TreeBody, ShapeOK
  <2> QED BY <1>2, <2>1, <2>2, <2>3, <2>4 DEF TreeBody, ShapeOK
<1>28. ASSUME NEW u \in Thread, u # t PROVE CallInv(u)'
  <2>1. \A p \in Place : slot'[p] = slot[p] \/ \E y \in c.uses : p \in DirPlaces(y)
    BY <1>6, <1>9
  <2>2. \A p \in Standing' : p \in Standing /\ slot'[p].obj = slot[p].obj
    BY <1>14
  <2>3. \A y \in LiveDirs : y \in LiveDirs' \/ y \in c.uses
    BY <1>5, <1>10
  <2>4. \A y \in moved : y \in moved' \/ y = o
    BY <1>2
  <2>5. Spared(u)
    BY <1>1, <1>2, <1>3, <1>28, <2>1, <2>2, <2>3, <2>4, NearSteps DEF c, o
  <2> QED BY <1>2, <2>5, SparedKeeps
<1>29. CallInv(t)'
  <2>1. CASE call'[t] = NoCall
    BY <2>1, IdleInv
  <2>2. CASE call'[t] # NoCall
    <3>1. /\ ~ren /\ s # 0 /\ call'[t].todo = <<"free">> /\ call'[t].op = c.op /\ call'[t].in = c.in
          /\ call'[t].entry = c.entry /\ call'[t].old = c.old /\ call'[t].new = c.new /\ call'[t].fresh = 0
          /\ call'[t].uses = c.uses /\ Now(t)' = "free" /\ Busy(t)' /\ Holding(t)' /\ ~(Written(t)') /\ ~(HasOld(t)')
          /\ InPlan(call'[t]) /\ s \in Cluster /\ c.op \in {"delete", "undo"}
      BY <1>4, <1>11, <1>12, <2>2 DEF ren, c
    <3>2. PlanOK(t)'
      BY <1>1, <3>1 DEF PlanOK, c
    <3>3. CallOK(t)'
      <4>1. \A y \in c.uses : y \in LiveDirs' \/ y = s
        BY <1>1, <1>10, <1>12, <3>1 DEF CallOK, c
      <4>2. c.in \in LiveDirs'
        BY <1>5, <1>10, <3>1
      <4> QED BY <1>1, <3>1, <4>1, <4>2 DEF CallOK, c, s
    <3>4. NewOK(t)' /\ OldOK(t)'
      BY <3>1 DEF NewOK, OldOK
    <3>5. OnlyOK(t)'
      BY <1>10, <1>14, <3>1 DEF OnlyOK, c, o
    <3>6. BareOK(t)' /\ FreshOK(t)'
      <4>1. DirPlaces(call[t].entry.start)' = DirPlaces(s)
        BY <1>2, <3>1 DEF DirPlaces, s, c
      <4>2. c.entry.dir => \A p \in DirPlaces(s) : p \notin Standing'
        BY <1>8, <1>10, <3>1
      <4> QED BY <3>1, <4>1, <4>2 DEF BareOK, FreshOK
    <3> QED BY <3>2, <3>3, <3>4, <3>5, <3>6 DEF CallInv
  <2> QED BY <2>1, <2>2
<1>30. WellFormed(link, Roots)' /\ NoLeak'
  BY <1>2, <1>17 DEF TreeBody, NoLeak
<1> QED BY <1>18, <1>19, <1>20, <1>21, <1>22, <1>23, <1>24, <1>25, <1>26, <1>27, <1>28, <1>29, <1>30 DEF TreeBody

\* The clusters of what has no name any more are free again.
LEMMA FreedKeeps ==
    ASSUME TreeBody, NEW t \in Thread, Release(t)
    PROVE  TreeBody'
<1> DEFINE c == call[t]
           s == call[t].entry.start
           C == Chain(link, s)
<1>0. Doing(t, {"free"})
  BY DEF Release
<1>1. /\ Now(t) = "free" /\ Busy(t) /\ InPlan(c) /\ c \in CallType /\ PlanOK(t) /\ CallOK(t)
  BY <1>0, StepIs
<1>2. Advance(c) = NoCall /\ c.op # "rename"
  <2>1. c.todo # <<>>
    BY <1>1, AdvanceIs
  <2>2. c.todo = <<"free">> /\ c.op # "rename"
    BY <1>1, <2>1 DEF InPlan, Mkdirs, Creates, Deletes, Renames, Now
  <2>3. <<"free">> \in Lasts
    BY DEF Lasts
  <2> QED BY <1>1, <2>2, <2>3, AdvanceIs
<1>3. Holding(t) /\ s \in Cluster /\ s # 0 /\ c.fresh = 0
  <2>1. Holding(t)
    BY <1>1 DEF Holding
  <2> QED BY <1>1, <2>1, MarksAreNotClusters DEF CallOK, PlanOK, Free
<1>4. /\ link \in Table /\ Roots \in SUBSET Cluster /\ WellFormed(link, Roots)
      /\ LiveDirs \subseteq Heads \union {0} /\ Heads \subseteq Roots /\ s \in Roots /\ s \notin Heads /\ s \notin LiveDirs
  <2>1. s \in Roots /\ s \notin Heads /\ Heads \subseteq Roots
    BY <1>3 DEF Roots, TreeBody, HeldLoose
  <2>2. LiveDirs \subseteq Heads \union {0}
    BY DEF LiveDirs, Heads
  <2> QED BY <1>3, <2>1, <2>2, RootsAre DEF TreeBody
<1>5. ToSet(ChainFrom(s)) = C /\ C \subseteq Cluster
  <2>1. LinksInjective(link) /\ ~Linked(link, s)
    BY <1>4 DEF WellFormed, HeadsUnlinked
  <2> QED BY <1>3, <1>4, <2>1, ChainFromIs, ChainFollows
<1>6. /\ link' = [x \in Cluster |-> IF x \in C THEN Free ELSE link[x]]
      /\ slot' = [p \in Place |-> IF p[1] \in C THEN Old ELSE slot[p]]
      /\ call' = [call EXCEPT ![t] = NoCall]
      /\ old_root' = old_root /\ UNCHANGED <<history, faults>>
  BY <1>2, <1>5 DEF Release, Goes
<1>7. call'[t] = NoCall /\ \A u \in Thread : u # t => call'[u] = call[u]
  BY <1>6 DEF TreeBody, ShapeOK
<1>8. UNCHANGED <<home, moved, cut, twice, leaky, faults>>
  BY <1>6 DEF history
<1> HIDE DEF c, s, C
<1>9. /\ link' \in Table /\ WellFormed(link', Roots \ {s})
      /\ \A h \in Roots \ {s} : Chain(link', h) = Chain(link, h) /\ Chain(link, h) \cap C = {}
      /\ \A x \in Cluster : link'[x] = Free <=> x \in C \/ link[x] = Free
  <2> DEFINE G == link'
  <2>1. G = [x \in Cluster |-> IF x \in Chain(link, s) THEN Free ELSE link[x]]
    BY <1>6 DEF C
  <2> HIDE DEF G
  <2>2. /\ G \in Table /\ WellFormed(G, Roots \ {s})
        /\ \A h \in Roots \ {s} : Chain(G, h) = Chain(link, h) /\ Chain(link, h) \cap Chain(link, s) = {}
        /\ \A x \in Cluster : G[x] = Free <=> x \in Chain(link, s) \/ link[x] = Free
    <3>1. link \in Table /\ Roots \in SUBSET Cluster /\ WellFormed(link, Roots) /\ s \in Roots
      BY <1>4
    <3>2. \A F \in Table, H \in SUBSET Cluster : WellFormed(F, H) => \A r \in H : \A W :
             W = [x \in Cluster |-> IF x \in Chain(F, r) THEN Free ELSE F[x]] =>
             /\ W \in Table /\ WellFormed(W, H \ {r})
             /\ \A h \in H \ {r} : Chain(W, h) = Chain(F, h) /\ Chain(F, h) \cap Chain(F, r) = {}
             /\ \A x \in Cluster : W[x] = Free <=> x \in Chain(F, r) \/ F[x] = Free
      BY FreeChainKeeps, Zenon
    <3>3. \A r \in Roots : \A W :
             W = [x \in Cluster |-> IF x \in Chain(link, r) THEN Free ELSE link[x]] =>
             /\ W \in Table /\ WellFormed(W, Roots \ {r})
             /\ \A h \in Roots \ {r} : Chain(W, h) = Chain(link, h) /\ Chain(link, h) \cap Chain(link, r) = {}
             /\ \A x \in Cluster : W[x] = Free <=> x \in Chain(link, r) \/ link[x] = Free
      BY <3>1, <3>2, Zenon
    <3>4. \A W :
             W = [x \in Cluster |-> IF x \in Chain(link, s) THEN Free ELSE link[x]] =>
             /\ W \in Table /\ WellFormed(W, Roots \ {s})
             /\ \A h \in Roots \ {s} : Chain(W, h) = Chain(link, h) /\ Chain(link, h) \cap Chain(link, s) = {}
             /\ \A x \in Cluster : W[x] = Free <=> x \in Chain(link, s) \/ link[x] = Free
      BY <3>1, <3>3, Zenon
    <3> QED BY <2>1, <3>4, Zenon
  <2> QED BY <2>2 DEF G, C
\* The other directories and files are as they were.
<1>10. ASSUME NEW d \in (Roots \ {s}) \union {0}
       PROVE  /\ DirPlaces(d)' = DirPlaces(d)
              /\ \A p \in DirPlaces(d) : p \in Place /\ p[1] \notin C /\ slot'[p] = slot[p]
              /\ d \in Cluster => \A x \in Chain(link, d) : link'[x] = link[x]
  <2>1. CASE d = 0
    <3>1. 0 \notin C /\ 0 \notin Cluster
      BY <1>5, MarksAreNotClusters DEF Free
    <3>2. DirPlaces(d)' = DirPlaces(d)
      BY <2>1 DEF DirPlaces
    <3> QED BY <1>6, <2>1, <3>1, <3>2 DEF DirPlaces
  <2>2. CASE d # 0
    <3>1. d \in Roots \ {s} /\ Chain(link', d) = Chain(link, d) /\ Chain(link, d) \cap C = {} /\ Chain(link, d) \subseteq Cluster
      BY <1>4, <1>9, <2>2, ChainFollows
    <3>2. DirPlaces(d)' = DirPlaces(d)
      BY <2>2, <3>1 DEF DirPlaces
    <3>3. \A p \in DirPlaces(d) : p \in Place /\ p[1] \notin C
      BY <2>2, <3>1 DEF DirPlaces
    <3> QED BY <1>6, <3>1, <3>2, <3>3
  <2> QED BY <2>1, <2>2
<1>11. \A d \in LiveDirs : d \in (Roots \ {s}) \union {0}
  BY <1>4
<1>12. ASSUME NEW p \in Standing PROVE p \in Place /\ p[1] \notin C /\ slot'[p] = slot[p]
  <2>1. PICK d \in LiveDirs : p \in DirPlaces(d)
    BY DEF TreeBody, StandingOK
  <2> QED BY <1>10, <1>11, <2>1
<1>13. Standing' = Standing
  <2>1. \A p \in Place : p[1] \in C => slot'[p].name = "old"
    BY <1>6, NamesAre
  <2>2. \A p \in Place : p[1] \notin C => slot'[p] = slot[p]
    BY <1>6
  <2>3. Standing' \subseteq Standing
    BY <2>1, <2>2, NamesAre DEF Standing
  <2>4. Standing \subseteq Standing'
    BY <1>12 DEF Standing
  <2> QED BY <2>3, <2>4
<1>14. NamesStay
  BY <1>6, <1>10, <1>11, <1>12, <1>13 DEF NamesStay
<1>15. /\ LiveDirs' = LiveDirs /\ Heads' = Heads /\ Root' = Root
       /\ StandingOK' /\ NamesOK' /\ HomeOK' /\ Ranked'
  BY <1>8, <1>14, NamesStayMost
<1>16. CutOK'
  <2> SUFFICES ASSUME NEW d \in LiveDirs, NEW q \in DirPlaces(d), slot'[q].name = "cut"
               PROVE  q = <<d, 2>> \/ (q = <<d, 3>> /\ IsDots(slot'[<<d, 2>>]))
    BY <1>10, <1>11, <1>15 DEF CutOK, IsDots
  <2>1. slot[q].name = "cut" /\ q \in Place
    BY <1>10, <1>11
  <2>2. q = <<d, 2>> \/ (q = <<d, 3>> /\ IsDots(slot[<<d, 2>>]))
    BY <2>1 DEF TreeBody, CutOK
  <2>3. q = <<d, 3>> => <<d, 2>> \in DirPlaces(d)
    BY <2>1, PlaceBefore DEF DirPlaces
  <2> QED BY <1>10, <1>11, <2>2, <2>3
<1>17. ASSUME NEW u \in Thread, u # t
       PROVE  /\ (Holding(u))' = Holding(u) /\ (Busy(u))' = Busy(u) /\ call'[u] = call[u] /\ (Written(u))' = Written(u)
              /\ Holding(u) => Busy(u) /\ call[u].entry.start # s
  <2>1. (Holding(u))' = Holding(u) /\ (Busy(u))' = Busy(u) /\ call'[u] = call[u] /\ (Written(u))' = Written(u)
    BY <1>7, <1>17 DEF Holding, Now, Busy, Written
  <2>2. Holding(u) => Busy(u)
    BY BusyIs DEF TreeBody, CallInv
  <2>3. Holding(u) => call[u].entry.start # s
    BY <1>1, <1>3, <1>17, <2>2 DEF TreeBody, CallsApart, s
  <2> QED BY <2>1, <2>2, <2>3
<1>18. CallInv(t)' /\ ~(Busy(t)') /\ ~(Holding(t)')
  BY <1>7, IdleInv
<1>19. Roots' = Roots \ {s}
  <2>1. \A y \in Roots' : y \in Roots \ {s}
    BY <1>4, <1>15, <1>17, <1>18 DEF Roots
  <2>2. \A y \in Roots \ {s} : y \in Roots'
    BY <1>15, <1>17 DEF Roots, s
  <2> QED BY <2>1, <2>2
<1>20. CallsApart' /\ HeldLoose'
  BY <1>7, <1>15, <1>18, ApartStays
<1>21. OwnersOK'
  BY <1>2, <1>7, <1>8, <1>14, <1>17, OwnersStay DEF c
<1>22. DotsOK'
  <2>1. ASSUME NEW p \in Standing, slot[p].dir, NEW q \in DirPlaces(slot[p].start)'
        PROVE  q \in DirPlaces(slot[p].start) /\ slot'[q] = slot[q]
    <3>1. PICK d \in LiveDirs : d = slot[p].start
      BY <2>1 DEF LiveDirs
    <3>2. \A y : y = slot[p].start => DirPlaces(slot[p].start)' = DirPlaces(y)'
      <4>1. slot'[p] = slot[p]
        BY <1>12
      <4> QED BY <4>1 DEF DirPlaces
    <3>3. q \in DirPlaces(d)'
      BY <2>1, <3>1, <3>2
    <3> QED BY <1>10, <1>11, <3>1, <3>3
  <2> QED BY <1>2, <1>7, <1>8, <1>14, <2>1, DotsStay DEF c
<1>23. CleanOK'
  <2>1. CleanOK
    BY DEF TreeBody
  <2>2. ASSUME NEW d \in LiveDirs, NEW p \in DirPlaces(d), slot'[p] = Old
        PROVE  \E u \in Thread : call'[u].fresh # 0 /\ call'[u].fresh = p[1]
    <3>1. slot[p] = Old
      BY <1>10, <1>11, <2>2
    <3>2. PICK u \in Thread : call[u].fresh # 0 /\ call[u].fresh = p[1]
      BY <2>1, <3>1 DEF CleanOK
    <3>3. u # t
      BY <1>3, <3>2 DEF c
    <3> QED BY <1>7, <3>2, <3>3
  <2>3. ASSUME NEW p \in Place, p[1] # 0, link'[p[1]] = Free PROVE slot'[p] = Old
    <3>1. p[1] \in Cluster
      BY <2>3 DEF Place
    <3>2. p[1] \in C \/ link[p[1]] = Free
      BY <1>9, <2>3, <3>1
    <3> QED BY <1>6, <2>1, <2>3, <3>2 DEF CleanOK
  <2>4. ASSUME NEW d \in Roots \ {s}, NEW p \in DirPlaces(d), slot'[p].name = ".."
        PROVE  \E q \in DirPlaces(d) : slot'[q].name = "."
    <3>1. slot[p].name = ".."
      BY <1>10, <2>4
    <3>2. PICK q \in DirPlaces(d) : slot[q].name = "."
      BY <2>1, <2>4, <3>1 DEF CleanOK
    <3> QED BY <1>10, <3>2
  <2>5. \A d \in (Roots \ {s}) \union {0} : DirPlaces(d)' = DirPlaces(d)
    BY <1>10
  <2> QED BY <1>11, <1>15, <1>19, <2>2, <2>3, <2>4, <2>5 DEF CleanOK
<1>24. NoLeak'
  <2> SUFFICES ASSUME ~leaky, NEW x \in Cluster, link'[x] # Free PROVE \E h \in Roots \ {s} : x \in Chain(link', h)
    BY <1>8, <1>19 DEF NoLeak
  <2>1. x \notin C /\ link[x] # Free
    BY <1>9
  <2>2. PICK h \in Roots : x \in Chain(link, h)
    BY <2>1 DEF TreeBody, NoLeak
  <2>3. h # s
    BY <2>1, <2>2 DEF C
  <2> QED BY <1>9, <2>2, <2>3
<1>25. ShapeOK'
  <2>1. slot' \in [Place -> Entry]
    <3>1. Old \in Entry
      BY DEF Entry
    <3> QED BY <1>6, <3>1 DEF TreeBody, ShapeOK
  <2>2. call' \in [Thread -> CallType]
    BY <1>6, NoCallIs DEF TreeBody, ShapeOK
  <2> QED BY <1>6, <1>8, <1>9, <2>1, <2>2 DEF TreeBody, ShapeOK
<1>26. ASSUME NEW u \in Thread, u # t PROVE CallInv(u)'
  <2> SUFFICES ASSUME Busy(u) PROVE Spared(u)
    BY <1>6, <1>7, <1>26, SparedKeeps DEF Spared
  <2>1. ASSUME NEW d \in call[u].uses PROVE d \in (Roots \ {s}) \union {0}
    <3>1. d \in LiveDirs \/ (Holding(u) /\ d = call[u].entry.start)
      BY DEF TreeBody, CallInv, CallOK
    <3>2. Holding(u) => call[u].entry.start \in Roots /\ call[u].entry.start # s
      BY <1>17, <1>26 DEF Roots
    <3> QED BY <1>11, <3>1, <3>2
  <2> QED BY <1>7, <1>8, <1>10, <1>12, <1>13, <1>15, <1>26, <2>1 DEF Spared
<1>27. WellFormed(link, Roots)'
  BY <1>9, <1>19
<1> QED BY <1>15, <1>16, <1>18, <1>20, <1>21, <1>22, <1>23, <1>24, <1>25, <1>26, <1>27 DEF TreeBody

(***************************************************************************)
(* Calls that begin                                                        *)
(***************************************************************************)

\* A name a caller can use stands there: a cluster that is not cleared is in a
\* directory that somebody else uses.
LEMMA ChildStands ==
    ASSUME TreeBody, NEW d \in LiveDirs, NEW p \in Children(d), MayUse({d})
    PROVE  p \in Standing /\ p \in DirPlaces(d)
<1>1. p \in DirPlaces(d) /\ (p \in Standing \/ slot[p] = Old)
  BY ChildrenAre
<1> SUFFICES ASSUME slot[p] = Old PROVE FALSE
  BY <1>1
<1>2. PICK u \in Thread : call[u].fresh # 0 /\ call[u].fresh = p[1]
  BY <1>1 DEF TreeBody, CleanOK
<1>3. Busy(u) /\ FreshOK(u) /\ CallOK(u)
  BY <1>2, BusyIs DEF TreeBody, CallInv
<1>4. call[u].in # 0 /\ call[u].in \in LiveDirs /\ call[u].in \in call[u].uses /\ p[1] \in Chain(link, call[u].in)
  BY <1>2, <1>3 DEF FreshOK, CallOK
<1>5. p \in DirPlaces(call[u].in)
  BY <1>1, <1>4 DEF DirPlaces
<1>6. d = call[u].in
  BY <1>1, <1>4, <1>5, RootsAre, OneDirectory
<1> QED BY <1>4, <1>6 DEF MayUse

\* No call is about what has a name in a directory that nobody uses.
LEMMA NotOthers ==
    ASSUME TreeBody, NEW d \in LiveDirs, NEW p \in Standing, p \in DirPlaces(d), MayUse({d}),
           NEW u \in Thread, Busy(u)
    PROVE  call[u].entry.obj # slot[p].obj
<1> SUFFICES ASSUME call[u].entry.obj = slot[p].obj PROVE FALSE
  OBVIOUS
<1>1. PlanOK(u) /\ CallOK(u) /\ NewOK(u) /\ OldOK(u) /\ OnlyOK(u)
  BY DEF TreeBody, CallInv
<1>2. Now(u) # "free" /\ p \in {call[u].old, call[u].new} /\ p # NoPlace
  BY <1>1, NoPlaceIsNone DEF OnlyOK, Standing
<1>3. call[u].op \in {"mkdir", "create", "delete", "undo", "rename"}
  BY <1>1, NoCallIs DEF PlanOK, InPlan, Busy
<1>4. \E e \in call[u].uses : e \in LiveDirs /\ p \in DirPlaces(e)
  <2>1. CASE HasOld(u) /\ p = call[u].old
    BY <1>1, <2>1 DEF OldOK
  <2>2. CASE Written(u) /\ p = call[u].new
    BY <1>1, <2>2 DEF NewOK, CallOK
  <2>3. call[u].op = "undo" => Now(u) = "erase"
    BY <1>1, <1>2, NoCallIs DEF PlanOK, InPlan, Deletes, Now
  <2> QED BY <1>1, <1>2, <1>3, <2>1, <2>2, <2>3 DEF PlanOK, HasOld
<1>5. PICK e \in call[u].uses : e \in LiveDirs /\ p \in DirPlaces(e)
  BY <1>4
<1>6. d = e
  BY <1>5, RootsAre, OneDirectory
<1> QED BY <1>5, <1>6 DEF MayUse

\* What has a name there has no other, but for what a rename that was stopped left.
LEMMA OnlyName ==
    ASSUME TreeBody, NEW d \in LiveDirs, NEW p \in Standing, p \in DirPlaces(d), MayUse({d}),
           slot[p].obj \notin twice, NEW q \in Standing, slot[q].obj = slot[p].obj
    PROVE  q = p
<1> SUFFICES ASSUME q # p PROVE FALSE
  OBVIOUS
<1>1. PICK u \in Thread : call[u].op = "rename" /\ Written(u) /\ {p, q} = {call[u].old, call[u].new}
  BY DEF TreeBody, OwnersOK
<1>2. PlanOK(u) /\ NewOK(u) /\ Busy(u)
  BY <1>1 DEF TreeBody, CallInv, Busy
<1>3. Now(u) # "store"
  BY <1>1, <1>2, NoCallIs DEF PlanOK, InPlan, Renames, Now
<1>4. slot[call[u].new] = call[u].entry
  BY <1>1, <1>2, <1>3 DEF NewOK
<1>5. slot[p].obj = call[u].entry.obj
  BY <1>1, <1>4
<1> QED BY <1>2, <1>5, NotOthers

\* A call that begins about something that no other call is about.
LEMMA BeginKeeps ==
    ASSUME TreeBody, NEW t \in Thread, call[t] = NoCall, NEW c \in CallType, InPlan(c),
           call' = [call EXCEPT ![t] = c], UNCHANGED <<volume, home, moved, cut, twice, leaky>>,
           faults' \in Nat, MayUse(c.uses),
           \A u \in Thread : Busy(u) => call[u].entry.obj # c.entry.obj,
           ~(Holding(t)'), CallInv(t)'
    PROVE  TreeBody'
<1>1. call'[t] = c /\ \A u \in Thread : u # t => call'[u] = call[u]
  BY DEF TreeBody, ShapeOK
<1>2. /\ old_root' = old_root /\ link' = link /\ slot' = slot /\ home' = home /\ moved' = moved /\ cut' = cut
      /\ twice' = twice /\ leaky' = leaky
  BY DEF volume
<1>3. Standing' = Standing /\ LiveDirs' = LiveDirs /\ Heads' = Heads
  <2>1. Standing' = Standing /\ Root' = Root
    BY <1>2 DEF Standing, Root
  <2> QED BY <1>2, <2>1 DEF LiveDirs, Heads
<1>4. ~Busy(t) /\ ~Holding(t) /\ ~Written(t) /\ call[t].fresh = 0 /\ call[t].op = "none"
  <2>1. Now(t) = "idle"
    BY NoCallIs DEF Now
  <2> QED BY <2>1, NoCallIs DEF Busy, Holding, Written
<1>5. ASSUME NEW u \in Thread, u # t
      PROVE  /\ (Holding(u))' = Holding(u) /\ (Busy(u))' = Busy(u) /\ call'[u] = call[u] /\ (Written(u))' = Written(u)
             /\ CallInv(u)'
  <2>1. (Holding(u))' = Holding(u) /\ (Busy(u))' = Busy(u) /\ call'[u] = call[u] /\ (Written(u))' = Written(u)
    BY <1>1, <1>5 DEF Holding, Now, Busy, Written
  <2>2. Spared(u)
    BY <1>2, <1>3, <2>1 DEF Spared
  <2> QED BY <1>2, <2>1, <2>2, SparedKeeps
<1>6. Roots' = Roots
  BY <1>1, <1>3, <1>4, <1>5 DEF Roots
<1>7. CallsApart' /\ HeldLoose'
  <2>1. CallsApart /\ HeldLoose
    BY DEF TreeBody
  <2>2. HeldLoose'
    BY <1>3, <1>5, <2>1 DEF HeldLoose
  <2>3. ASSUME NEW u \in Thread, u # t, Busy(u)
        PROVE  call'[t].uses \intersect call[u].uses = {} /\ call'[t].entry.obj # call[u].entry.obj
    BY <1>1, <2>3 DEF MayUse
  <2>4. ASSUME NEW u \in Thread, NEW v \in Thread, u # v, u # t, v # t, Busy(u), Busy(v)
        PROVE  /\ call[u].uses \intersect call[v].uses = {}
               /\ call[u].entry.obj # call[v].entry.obj
               /\ Holding(u) /\ Holding(v) => call[u].entry.start # call[v].entry.start
    BY <2>1, <2>4 DEF CallsApart
  <2> QED BY <1>5, <2>2, <2>3, <2>4 DEF CallsApart
<1>8. ShapeOK'
  <2>1. call' \in [Thread -> CallType]
    BY DEF TreeBody, ShapeOK
  <2> QED BY <1>2, <2>1 DEF TreeBody, ShapeOK
<1>9. \A u \in Thread : call[u].op = "rename" /\ Written(u) =>
          \/ call'[u].op = "rename" /\ Written(u)' /\ call'[u].old = call[u].old /\ call'[u].new = call[u].new
          \/ call[u].entry.obj \in twice'
  BY <1>4, <1>5
<1>10. \A u \in Thread : call[u].fresh # 0 => call'[u].fresh = call[u].fresh
  BY <1>4, <1>5
<1>11. \A u \in Thread : CallInv(u)'
  BY <1>5
<1>12. UNCHANGED <<volume, home, moved, cut>> /\ twice \subseteq twice'
  BY <1>2 DEF volume
<1> QED BY <1>2, <1>6, <1>7, <1>8, <1>9, <1>10, <1>11, <1>12, VolumeStays

\* The name that is to be made is not there, unless the search for it failed.
LEMMA AbsentIs ==
    ASSUME TreeBody, NEW d \in LiveDirs, NEW n, Absent(d, n), Misread = {}
    PROVE  faults' \in Nat /\ \A q \in DirPlaces(d) : slot[q].name # n
<1>1. faults' = faults /\ faults \in Nat
  BY DEF Misread, TreeBody, ShapeOK
<1>2. Lookup(d, n) = NoPlace
  BY <1>1 DEF Absent, Fault
<1>3. DirStart(d) /\ link \in Table /\ LinksInjective(link)
  BY RootsAre, Starts
<1>4. \A q \in DirPlaces(d) : q # NoPlace
  BY NoPlaceIsNone DEF DirPlaces
<1> QED BY <1>1, <1>2, <1>3, <1>4, LookupIs

\* create_directory and create_file begin: the name is not there, and nothing stands
\* for the object.
LEMMA NewKeeps ==
    ASSUME TreeBody, NEW t \in Thread, call[t] = NoCall, NEW d \in LiveDirs, NEW n \in Name, NEW o \in Object,
           MayUse({d}), Absent(d, n), Misread = {}, New(o),
           NEW op, NEW dir, NEW todo,
           \/ op = "mkdir" /\ dir = TRUE /\ todo = <<"alloc", "clean", "enter", "dot", "dotdot">>
           \/ op = "create" /\ dir = FALSE /\ todo \in {<<"enter">>, <<"enter", "take", "store">>},
           NEW c, c = [NoCall EXCEPT !.op = op, !.in = d, !.uses = {d},
                         !.entry = [name |-> n, dir |-> dir, start |-> 0, obj |-> o], !.todo = todo],
           call' = [call EXCEPT ![t] = c], UNCHANGED <<volume, home, moved, cut, twice, leaky>>
    PROVE  TreeBody'
<1>1. /\ op \in {"mkdir", "create"} /\ dir \in BOOLEAN
      /\ op = "mkdir" => dir = TRUE /\ todo \in Mkdirs /\ Head(todo) = "alloc" /\ todo # <<>>
      /\ op = "create" => dir = FALSE /\ todo \in Creates /\ Head(todo) = "enter" /\ todo # <<>>
  <2>1. /\ Head(<<"alloc", "clean", "enter", "dot", "dotdot">>) = "alloc"
        /\ Head(<<"enter">>) = "enter" /\ Head(<<"enter", "take", "store">>) = "enter"
        /\ <<"alloc", "clean", "enter", "dot", "dotdot">> # <<>> /\ <<"enter">> # <<>>
        /\ <<"enter", "take", "store">> # <<>>
    OBVIOUS
  <2> QED BY <2>1 DEF Mkdirs, Creates
<1>2. d \in Cluster \union {0} /\ d \in Roots \union {0}
  BY RootsAre
<1>3. /\ c.op = op /\ c.in = d /\ c.uses = {d} /\ c.todo = todo /\ c.old = NoPlace /\ c.new = NoPlace /\ c.fresh = 0
      /\ c.entry = [name |-> n, dir |-> dir, start |-> 0, obj |-> o]
      /\ c \in CallType
  <2>1. todo \in Todos /\ op \in Ops
    BY <1>1 DEF Todos, Ops
  <2>2. [name |-> n, dir |-> dir, start |-> 0, obj |-> o] \in Entry
    BY <1>1 DEF Entry
  <2>3. NoCall \in CallType /\ NoCall.old = NoPlace /\ NoCall.new = NoPlace /\ NoCall.fresh = 0
    BY NoCallIs DEF NoCall
  <2>4. {d} \in SUBSET (Cluster \union {0})
    BY <1>2
  <2>5. c.op = op /\ c.in = d /\ c.uses = {d} /\ c.todo = todo
        /\ c.entry = [name |-> n, dir |-> dir, start |-> 0, obj |-> o]
    BY <2>3 DEF CallType
  <2>6. c.old = NoPlace /\ c.new = NoPlace /\ c.fresh = 0
    BY <2>3 DEF CallType
  <2>7. c \in CallType
    BY <1>2, <2>1, <2>2, <2>3, <2>4, ZenonT(120) DEF CallType
  <2> QED BY <2>5, <2>6, <2>7
<1>4. call'[t] = c
  BY DEF TreeBody, ShapeOK
<1>a. /\ call'[t].in = d /\ call'[t].uses = {d} /\ call'[t].op = op /\ call'[t].entry.obj = o /\ call'[t].entry.start = 0
      /\ call'[t].entry.name = n /\ call'[t].entry.dir = dir /\ call'[t].fresh = 0
  <2> DEFINE e == [name |-> n, dir |-> dir, start |-> 0, obj |-> o]
  <2>1. e.name = n /\ e.dir = dir /\ e.start = 0 /\ e.obj = o
    OBVIOUS
  <2> HIDE DEF e
  <2>2. c.entry = e
    BY <1>3 DEF e
  <2>3. call'[t].entry = e
    BY <1>4, <2>2, Zenon
  <2>4. call'[t].in = d /\ call'[t].uses = {d} /\ call'[t].op = op /\ call'[t].fresh = 0
    BY <1>3, <1>4, Zenon
  <2> QED BY <2>1, <2>3, <2>4, Zenon
<1>5. InPlan(c)
  BY <1>1, <1>3 DEF InPlan
<1>6. Now(t)' = Head(todo) /\ Busy(t)' /\ ~(Holding(t)') /\ ~(Written(t)') /\ ~(HasOld(t)')
  <2>1. Now(t)' = Head(todo)
    BY <1>1, <1>3, <1>4 DEF Now
  <2> QED BY <1>1, <1>3, <1>4, <2>1 DEF Busy, Holding, Written, HasOld
<1>7. /\ old_root' = old_root /\ link' = link /\ slot' = slot
      /\ Standing' = Standing /\ LiveDirs' = LiveDirs /\ \A e : DirPlaces(e)' = DirPlaces(e)
  <2>1. old_root' = old_root /\ link' = link /\ slot' = slot
    BY DEF volume
  <2>2. Standing' = Standing /\ Root' = Root
    BY <2>1 DEF Standing, Root
  <2> QED BY <2>1, <2>2 DEF LiveDirs, DirPlaces
<1>8. faults' \in Nat /\ \A q \in DirPlaces(d) : slot[q].name # n
  BY AbsentIs
<1>9. CallInv(t)'
  <2>1. PlanOK(t)'
    BY <1>1, <1>3, <1>4, <1>5, <1>6 DEF PlanOK
  <2>2. CallOK(t)'
    BY <1>1, <1>6, <1>7, <1>a DEF CallOK
  <2>3. NewOK(t)' /\ OldOK(t)' /\ FreshOK(t)'
    <3>1. DirPlaces(call[t].in)' = DirPlaces(d)
      BY <1>3, <1>4, <1>7 DEF DirPlaces
    <3>3. NewOK(t)'
      BY <1>6, <1>7, <1>8, <1>a, <3>1 DEF NewOK
    <3> QED BY <1>6, <1>a, <3>3 DEF OldOK, FreshOK
  <2>4. OnlyOK(t)' /\ BareOK(t)'
    <3>1. call'[t].op = op /\ call'[t].entry.obj = o /\ call'[t].entry.start = 0 /\ Now(t)' \in {"alloc", "enter"}
          /\ (op = "mkdir" => Now(t)' = "alloc")
      BY <1>1, <1>6, <1>a
    <3>2. \A p \in Standing' : slot'[p].obj # o
      BY <1>7 DEF New, Standing
    <3>3. OnlyOK(t)'
      BY <3>1, <3>2 DEF OnlyOK
    <3>4. BareOK(t)'
      BY <3>1 DEF BareOK
    <3> QED BY <3>3, <3>4
  <2> QED BY <2>1, <2>2, <2>3, <2>4 DEF CallInv
<1>10. \A u \in Thread : call[u].entry.obj # c.entry.obj
  BY <1>3 DEF New
<1>11. MayUse(c.uses)
  BY <1>3
<1> QED BY <1>3, <1>5, <1>6, <1>8, <1>9, <1>10, <1>11, BeginKeeps

\* create_directory
LEMMA BeginMkdirKeeps ==
    ASSUME TreeBody, NEW t \in Thread, call[t] = NoCall, NEW d \in LiveDirs, NEW n \in Name,
           BeginMkdir(t, d, n), damage' = {}
    PROVE  TreeBody'
<1> DEFINE todo == <<"alloc", "clean", "enter", "dot", "dotdot">>
<1>1. PICK o \in Object : /\ New(o)
                          /\ Start(t, [NoCall EXCEPT
                                !.op = "mkdir", !.in = d, !.uses = {d},
                                !.entry = [name |-> n, dir |-> TRUE, start |-> 0, obj |-> o],
                                !.todo = todo])
  BY DEF BeginMkdir
<1>2. MayUse({d}) /\ Absent(d, n) /\ Misread = {} /\ UNCHANGED <<volume, home, moved, cut, twice, leaky>>
  BY DEF BeginMkdir
<1> QED BY <1>1, <1>2, NewKeeps DEF Start

\* create_file
LEMMA BeginCreateKeeps ==
    ASSUME TreeBody, NEW t \in Thread, call[t] = NoCall, NEW d \in LiveDirs, NEW n \in Name,
           BeginCreate(t, d, n), damage' = {}
    PROVE  TreeBody'
<1>1. PICK o \in Object, todo \in {<<"enter">>, <<"enter", "take", "store">>} :
          /\ New(o)
          /\ Start(t, [NoCall EXCEPT
                !.op = "create", !.in = d, !.uses = {d},
                !.entry = [name |-> n, dir |-> FALSE, start |-> 0, obj |-> o],
                !.todo = todo])
  BY DEF BeginCreate
<1>2. MayUse({d}) /\ Absent(d, n) /\ Misread = {} /\ UNCHANGED <<volume, home, moved, cut, twice, leaky>>
  BY DEF BeginCreate
<1> QED BY <1>1, <1>2, NewKeeps DEF Start

\* There are finitely many places.
LEMMA PlacesFinite == IsFiniteSet(Place)
<1>1. IsFiniteSet({0}) /\ IsFiniteSet(1..RootSlots) /\ IsFiniteSet(1..Capacity)
  <2>1. RootSlots \in Nat /\ Capacity \in Nat
    BY TreeAssumption, Zenon
  <2>2. IsFiniteSet(1..RootSlots) /\ IsFiniteSet(1..Capacity)
    BY <2>1, FS_Interval
  <2> QED BY <2>2, FS_Singleton
<1>2. IsFiniteSet({0} \X (1..RootSlots)) /\ IsFiniteSet(Cluster \X (1..Capacity))
  BY <1>1, ClustersFinite, FS_Product
<1> QED BY <1>2, FS_Union DEF Place

\* unlink takes a directory with "." and ".." for empty only when nothing else has a
\* name there.
LEMMA EmptiedIs ==
    ASSUME TreeBody, NEW d \in LiveDirs, d # 0, Emptied(d), Lookup(d, "..") # NoPlace
    PROVE  \A p \in DirPlaces(d) : p \notin Standing
<1> SUFFICES ASSUME NEW r \in DirPlaces(d), r \in Standing PROVE FALSE
  OBVIOUS
<1>1. d \in Roots /\ DirStart(d) /\ link \in Table /\ LinksInjective(link)
  BY RootsAre, Starts
<1>2. PICK x \in DirPlaces(d) : slot[x].name = ".."
  BY <1>1, LookupIs
<1>3. PICK y \in DirPlaces(d) : slot[y].name = "."
  BY <1>1, <1>2 DEF TreeBody, CleanOK
<1>4. Entries(d) = {p \in DirPlaces(d) : slot[p] # Empty}
  BY <1>1, PlacesOfIs DEF Entries
<1>5. {x, y, r} \subseteq Entries(d) /\ x # y /\ r # x /\ r # y
  BY <1>2, <1>3, <1>4, NamesAre DEF Standing
<1>6. IsFiniteSet(Entries(d))
  <2>1. Entries(d) \in SUBSET Place
    BY <1>4 DEF DirPlaces
  <2> QED BY <2>1, PlacesFinite, FS_Subset
<1>7. IsFiniteSet({x, y, r}) /\ Cardinality({x, y, r}) = 3
  <2>1. IsFiniteSet({x}) /\ Cardinality({x}) = 1
    BY FS_Singleton
  <2>2. IsFiniteSet({x} \union {y}) /\ Cardinality({x} \union {y}) = 2
    <3>1. y \notin {x}
      BY <1>5
    <3> QED BY <2>1, <3>1, FS_AddElement
  <2>3. IsFiniteSet(({x} \union {y}) \union {r}) /\ Cardinality(({x} \union {y}) \union {r}) = 3
    <3>1. r \notin {x} \union {y}
      BY <1>5
    <3> QED BY <2>2, <3>1, FS_AddElement
  <2>4. ({x} \union {y}) \union {r} = {x, y, r}
    OBVIOUS
  <2> QED BY <2>3, <2>4
<1>8. Cardinality({x, y, r}) <= Cardinality(Entries(d)) /\ Cardinality(Entries(d)) \in Nat
  BY <1>5, <1>6, FS_Subset, FS_CardinalityType
<1> QED BY <1>7, <1>8 DEF Emptied

\* A call about a name: delete or rename.
LEMMA NameTaken ==
    ASSUME TreeBody, NEW d \in LiveDirs, NEW p \in Children(d), MayUse({d} \union UsesOf(p)),
           slot[p].obj \notin twice
    PROVE  /\ p \in Standing /\ p \in Place /\ p \in DirPlaces(d) /\ d \in Cluster \union {0}
           /\ slot[p].obj \in Object /\ slot[p].dir \in BOOLEAN /\ slot[p].start \in Cluster \union {0}
           /\ slot[p].name \in Name \union {".", "..", "cut"}
           /\ \A n \in Name : [slot[p] EXCEPT !.name = n] \in Entry
           /\ UsesOf(p) \subseteq LiveDirs \cap Cluster
           /\ slot[p].dir => slot[p].start # 0 /\ slot[p].start \in UsesOf(p)
           /\ \A q \in Standing : slot[q].obj = slot[p].obj => q = p
           /\ \A u \in Thread : Busy(u) => call[u].entry.obj # slot[p].obj
<1>1. MayUse({d})
  BY DEF MayUse
<1>2. p \in Standing /\ p \in DirPlaces(d)
  BY <1>1, ChildStands
<1>3. p \in Place /\ slot[p] \in Entry /\ slot[p].dir \in BOOLEAN /\ slot[p].start \in Cluster \union {0}
      /\ slot[p].name \in Name \union {"cut"}
  BY <1>2, SlotIs DEF Standing, TreeBody
<1>4. d \in Cluster \union {0}
  BY RootsAre
<1>5. slot[p].obj \in Object /\ (slot[p].dir => slot[p].start # 0)
  BY <1>2 DEF TreeBody, StandingOK
<1>6. \A n \in Name : [slot[p] EXCEPT !.name = n] \in Entry
  <2>1. slot[p] # Empty /\ slot[p] # Old
    BY <1>3, NamesAre
  <2> QED BY <1>3, <2>1 DEF Entry
<1>7. slot[p].dir => slot[p].start \in LiveDirs
  BY <1>2 DEF LiveDirs
<1>8. ASSUME NEW q \in Standing, slot[q].obj = slot[p].obj PROVE q = p
  BY <1>1, <1>2, <1>8, OnlyName
<1>9. ASSUME NEW u \in Thread, Busy(u) PROVE call[u].entry.obj # slot[p].obj
  BY <1>1, <1>2, <1>9, NotOthers
<1> QED BY <1>2, <1>3, <1>4, <1>5, <1>6, <1>7, <1>8, <1>9 DEF UsesOf

\* The record of a call that begins is a call.
LEMMA NewCall ==
    ASSUME NEW op \in Ops, NEW in \in Cluster \union {0}, NEW uses \in SUBSET (Cluster \union {0}),
           NEW entry \in Entry, NEW old \in Place \union {NoPlace}, NEW todo \in Todos
    PROVE  [NoCall EXCEPT !.op = op, !.in = in, !.uses = uses, !.entry = entry, !.old = old, !.todo = todo]
              \in CallType
<1>1. [NoCall EXCEPT !.op = op, !.in = in, !.uses = uses] \in CallType
  BY NoCallIs DEF CallType
<1> DEFINE b == [NoCall EXCEPT !.op = op, !.in = in, !.uses = uses]
<1> HIDE DEF b
<1>2. [b EXCEPT !.entry = entry, !.old = old, !.todo = todo] \in CallType
  BY <1>1 DEF CallType, b
<1> QED BY <1>2 DEF b

\* A name is about to be deleted.
LEMMA BeginDeleteKeeps ==
    ASSUME TreeBody, NEW t \in Thread, call[t] = NoCall, NEW d \in LiveDirs, NEW p \in Children(d),
           BeginDelete(t, d, p), damage' = {}
    PROVE  TreeBody'
<1> DEFINE s == slot[p].start
           todo == IF s = 0 THEN <<"erase">> ELSE <<"erase", "free">>
           c == [NoCall EXCEPT !.op = "delete", !.in = d, !.uses = {d} \union UsesOf(p),
                    !.entry = slot[p], !.old = p, !.todo = todo]
<1>0. (slot[p].dir => Emptied(s)) /\ faults' = faults
  <2>1. Orphaned = {}
    BY DEF BeginDelete
  <2>2. faults' = faults
    BY <2>1 DEF Orphaned
  <2>3. faults \in Nat
    BY DEF TreeBody, ShapeOK
  <2>4. ~Fault
    BY <2>2, <2>3 DEF Fault
  <2> QED BY <2>2, <2>4 DEF BeginDelete, Deletable
<1>1. /\ MayUse({d} \union UsesOf(p)) /\ (slot[p].dir => Emptied(s))
      /\ call' = [call EXCEPT ![t] = c] /\ DamageOf(p, TRUE) = {}
      /\ UNCHANGED <<volume, home, moved, cut, twice, leaky, faults>>
  BY <1>0 DEF BeginDelete, Start
<1>2. slot[p].obj \notin twice /\ (slot[p].dir => Lookup(s, "..") # NoPlace)
  BY <1>1 DEF DamageOf
<1>3. /\ p \in Standing /\ p \in Place /\ p \in DirPlaces(d) /\ d \in Cluster \union {0}
      /\ slot[p].obj \in Object /\ slot[p].dir \in BOOLEAN /\ s \in Cluster \union {0}
      /\ UsesOf(p) \subseteq LiveDirs \cap Cluster
      /\ slot[p].dir => s # 0 /\ s \in UsesOf(p)
      /\ \A q \in Standing : slot[q].obj = slot[p].obj => q = p
      /\ \A u \in Thread : Busy(u) => call[u].entry.obj # slot[p].obj
  BY <1>1, <1>2, NameTaken
<1>4. slot[p] \in Entry
  BY <1>3, SlotIs DEF TreeBody
<1>5. slot[p].dir => \A q \in DirPlaces(s) : q \notin Standing
  BY <1>1, <1>2, <1>3, EmptiedIs
<1>6. s # 0 => d # s
  <2> SUFFICES ASSUME s # 0, d = s PROVE FALSE
    OBVIOUS
  <2>1. ~slot[p].dir
    BY <1>3, <1>5
  <2>2. d # Root
    BY <1>3 DEF TreeBody, StandingOK
  <2>3. PICK q \in Standing : slot[q].dir /\ slot[q].start = d
    BY <2>2 DEF LiveDirs
  <2>4. q # p
    BY <2>1, <2>3
  <2>5. slot[q].obj = slot[p].obj
    BY <1>3, <2>3, <2>4 DEF TreeBody, OwnersOK
  <2> QED BY <1>3, <2>4, <2>5
<1>7. todo \in Deletes /\ Head(todo) = "erase" /\ todo # <<>> /\ (s = 0 <=> todo = <<"erase">>)
  <2>1. /\ Head(<<"erase">>) = "erase" /\ Head(<<"erase", "free">>) = "erase" /\ <<"erase">> # <<>>
        /\ <<"erase", "free">> # <<>> /\ <<"erase">> # <<"erase", "free">>
    OBVIOUS
  <2> QED BY <2>1 DEF Deletes
<1> HIDE DEF todo
<1>8. /\ c.op = "delete" /\ c.in = d /\ c.uses = {d} \union UsesOf(p) /\ c.todo = todo /\ c.old = p /\ c.new = NoPlace
      /\ c.fresh = 0 /\ c.entry = slot[p] /\ c \in CallType
  <2>1. NoCall \in CallType /\ NoCall.new = NoPlace /\ NoCall.fresh = 0
    BY NoCallIs DEF NoCall
  <2>2. todo \in Todos /\ "delete" \in Ops /\ {d} \union UsesOf(p) \in SUBSET (Cluster \union {0})
    BY <1>3, <1>7 DEF Todos, Ops
  <2>3. c.op = "delete" /\ c.in = d /\ c.uses = {d} \union UsesOf(p) /\ c.todo = todo /\ c.old = p /\ c.entry = slot[p]
    BY <2>1 DEF CallType
  <2>4. c.new = NoPlace /\ c.fresh = 0
    BY <2>1 DEF CallType
  <2>5. c \in CallType
    BY <1>3, <1>4, <2>2, NewCall
  <2> QED BY <2>3, <2>4, <2>5
<1> HIDE DEF c
<1>9. call'[t] = c
  BY <1>1 DEF TreeBody, ShapeOK
<1>10. /\ call'[t].op = "delete" /\ call'[t].in = d /\ call'[t].uses = {d} \union UsesOf(p) /\ call'[t].todo = todo
       /\ call'[t].old = p /\ call'[t].new = NoPlace /\ call'[t].fresh = 0 /\ call'[t].entry = slot[p]
       /\ call'[t].entry.start = s /\ call'[t].entry.dir = slot[p].dir /\ call'[t].entry.obj = slot[p].obj
  BY <1>8, <1>9
<1>11. InPlan(c)
  BY <1>7, <1>8 DEF InPlan
<1>12. Now(t)' = "erase" /\ Busy(t)' /\ ~(Holding(t)') /\ ~(Written(t)') /\ HasOld(t)'
  <2>1. Now(t)' = "erase"
    BY <1>7, <1>10 DEF Now
  <2> QED BY <1>10, <2>1 DEF Busy, Holding, Written, HasOld
<1>13. /\ old_root' = old_root /\ link' = link /\ slot' = slot
       /\ Standing' = Standing /\ LiveDirs' = LiveDirs /\ \A e : DirPlaces(e)' = DirPlaces(e)
  <2>1. old_root' = old_root /\ link' = link /\ slot' = slot
    BY <1>1 DEF volume
  <2>2. Standing' = Standing /\ Root' = Root
    BY <2>1 DEF Standing, Root
  <2> QED BY <2>1, <2>2 DEF LiveDirs, DirPlaces
<1>14. CallInv(t)'
  <2>1. PlanOK(t)'
    BY <1>9, <1>10, <1>11, <1>12 DEF PlanOK
  <2>2. CallOK(t)'
    BY <1>3, <1>6, <1>7, <1>10, <1>12, <1>13 DEF CallOK
  <2>3. NewOK(t)' /\ FreshOK(t)'
    BY <1>10, <1>12 DEF NewOK, FreshOK
  <2>4. OldOK(t)'
    BY <1>3, <1>10, <1>12, <1>13 DEF OldOK, Same
  <2>5. OnlyOK(t)'
    BY <1>3, <1>10, <1>12, <1>13 DEF OnlyOK
  <2>6. BareOK(t)'
    <3>1. DirPlaces(call[t].entry.start)' = DirPlaces(s)
      BY <1>10, <1>13 DEF DirPlaces
    <3> QED BY <1>5, <1>10, <1>12, <1>13, <3>1 DEF BareOK
  <2> QED BY <2>1, <2>2, <2>3, <2>4, <2>5, <2>6 DEF CallInv
<1>15. MayUse(c.uses) /\ \A u \in Thread : Busy(u) => call[u].entry.obj # c.entry.obj
  BY <1>1, <1>3, <1>8
<1>16. faults' \in Nat /\ UNCHANGED <<volume, home, moved, cut, twice, leaky>>
  BY <1>1 DEF TreeBody, ShapeOK
<1> QED BY <1>1, <1>8, <1>11, <1>12, <1>14, <1>15, <1>16, BeginKeeps

\* A name is about to be changed or to go elsewhere.
LEMMA BeginRenameKeeps ==
    ASSUME TreeBody, NEW t \in Thread, call[t] = NoCall, NEW d \in LiveDirs, NEW p \in Children(d),
           NEW to \in LiveDirs, NEW n \in Name,
           BeginRename(t, d, p, to, n), damage' = {}
    PROVE  TreeBody'
<1> DEFINE s == slot[p].start
           e == [slot[p] EXCEPT !.name = n]
           X == {d, to} \union UsesOf(p)
           todo == IF InPlace(p, to) THEN <<"rewrite">>
                   ELSE IF slot[p].dir THEN <<"enter", "third", "erase">> ELSE <<"enter", "erase">>
           c == [NoCall EXCEPT !.op = "rename", !.in = to, !.uses = X, !.entry = e, !.old = p, !.todo = todo]
<1>1. /\ MayUse(X) /\ Absent(to, n) /\ Misread = {}
      /\ call' = [call EXCEPT ![t] = c] /\ DamageOf(p, FALSE) = {}
      /\ UNCHANGED <<volume, home, moved, cut, twice, leaky>>
  BY DEF BeginRename, Start
<1>2. slot[p].obj \notin twice /\ MayUse({d} \union UsesOf(p))
  BY <1>1 DEF DamageOf, MayUse
<1>3. /\ p \in Standing /\ p \in Place /\ p \in DirPlaces(d) /\ d \in Cluster \union {0}
      /\ slot[p].obj \in Object /\ slot[p].dir \in BOOLEAN /\ s \in Cluster \union {0}
      /\ e \in Entry
      /\ UsesOf(p) \subseteq LiveDirs \cap Cluster
      /\ slot[p].dir => s # 0 /\ s \in UsesOf(p)
      /\ \A q \in Standing : slot[q].obj = slot[p].obj => q = p
      /\ \A u \in Thread : Busy(u) => call[u].entry.obj # slot[p].obj
  BY <1>2, NameTaken
<1>4. e.name = n /\ e.dir = slot[p].dir /\ e.start = s /\ e.obj = slot[p].obj
  <2>1. slot[p] \in Entry /\ slot[p] # Empty /\ slot[p] # Old
    BY <1>3, SlotIs, NamesAre DEF TreeBody, Standing
  <2>2. slot[p] \in [name : Name \union {".", "..", "cut"}, dir : BOOLEAN, start : Cluster \union {0}, obj : Object \union {"none"}]
    BY <2>1 DEF Entry
  <2> QED BY <2>2
<1>5. to \in Cluster \union {0}
  BY RootsAre
<1>6. faults' \in Nat /\ \A q \in DirPlaces(to) : slot[q].name # n
  BY <1>1, AbsentIs
<1>7. /\ todo \in Renames /\ Head(todo) \in {"rewrite", "enter"} /\ todo # <<>>
      /\ Head(todo) = "rewrite" => p \in DirPlaces(to)
      /\ Head(todo) = "enter" => (slot[p].dir <=> todo \notin {<<"enter", "erase">>, <<"clear", "enter", "erase">>})
  <2>1. /\ Head(<<"rewrite">>) = "rewrite" /\ Head(<<"enter", "third", "erase">>) = "enter" /\ Head(<<"enter", "erase">>) = "enter"
        /\ <<"rewrite">> # <<>> /\ <<"enter", "third", "erase">> # <<>> /\ <<"enter", "erase">> # <<>>
        /\ <<"enter", "third", "erase">> # <<"enter", "erase">> /\ <<"enter", "third", "erase">> # <<"clear", "enter", "erase">>
    OBVIOUS
  <2>2. InPlace(p, to) => p \in DirPlaces(to)
    <3>1. to # 0 => to \in Chain(link, to)
      BY <1>5, RootsAre, ChainFollows
    <3> QED BY <1>3, <3>1 DEF InPlace, DirPlaces
  <2>3. CASE InPlace(p, to)
    <3>1. todo = <<"rewrite">>
      BY <2>3
    <3> QED BY <2>1, <2>2, <2>3, <3>1 DEF Renames
  <2>4. CASE ~InPlace(p, to) /\ slot[p].dir
    <3>1. todo = <<"enter", "third", "erase">>
      BY <2>4
    <3> QED BY <2>1, <2>4, <3>1 DEF Renames
  <2>5. CASE ~InPlace(p, to) /\ ~slot[p].dir
    <3>1. todo = <<"enter", "erase">>
      BY <2>5
    <3> QED BY <2>1, <2>5, <3>1 DEF Renames
  <2> QED BY <2>3, <2>4, <2>5
<1> HIDE DEF todo, e, X
<1>8. X \subseteq LiveDirs /\ to \in X /\ d \in X /\ (slot[p].dir => s \in X)
  BY <1>3 DEF X
<1>9. /\ c.op = "rename" /\ c.in = to /\ c.uses = X /\ c.todo = todo /\ c.old = p /\ c.new = NoPlace
      /\ c.fresh = 0 /\ c.entry = e /\ c \in CallType
  <2>1. NoCall \in CallType /\ NoCall.new = NoPlace /\ NoCall.fresh = 0
    BY NoCallIs DEF NoCall
  <2>2. todo \in Todos /\ "rename" \in Ops /\ X \in SUBSET (Cluster \union {0})
    <3>1. LiveDirs \subseteq Cluster \union {0}
      BY RootsAre
    <3> QED BY <1>7, <1>8, <3>1 DEF Todos, Ops
  <2>3. c.op = "rename" /\ c.in = to /\ c.uses = X /\ c.todo = todo /\ c.old = p /\ c.entry = e
    BY <2>1 DEF CallType
  <2>4. c.new = NoPlace /\ c.fresh = 0
    BY <2>1 DEF CallType
  <2>5. c \in CallType
    BY <1>3, <1>5, <2>2, NewCall
  <2> QED BY <2>3, <2>4, <2>5
<1> HIDE DEF c
<1>10. call'[t] = c
  BY <1>1 DEF TreeBody, ShapeOK
<1>11. /\ call'[t].op = "rename" /\ call'[t].in = to /\ call'[t].uses = X /\ call'[t].todo = todo
       /\ call'[t].old = p /\ call'[t].new = NoPlace /\ call'[t].fresh = 0 /\ call'[t].entry.name = n
       /\ call'[t].entry.start = s /\ call'[t].entry.dir = slot[p].dir /\ call'[t].entry.obj = slot[p].obj
  BY <1>4, <1>9, <1>10
<1>12. InPlan(c)
  BY <1>7, <1>9 DEF InPlan
<1>13. /\ Now(t)' = Head(todo) /\ Now(t)' \in {"rewrite", "enter"}
       /\ Busy(t)' /\ ~(Holding(t)') /\ ~(Written(t)') /\ HasOld(t)'
  <2>1. Now(t)' = Head(todo) /\ Now(t)' \in {"rewrite", "enter"}
    BY <1>7, <1>11 DEF Now
  <2> QED BY <1>11, <2>1 DEF Busy, Holding, Written, HasOld
<1>14. /\ old_root' = old_root /\ link' = link /\ slot' = slot
       /\ Standing' = Standing /\ LiveDirs' = LiveDirs /\ \A y : DirPlaces(y)' = DirPlaces(y)
  <2>1. old_root' = old_root /\ link' = link /\ slot' = slot
    BY <1>1 DEF volume
  <2>2. Standing' = Standing /\ Root' = Root
    BY <2>1 DEF Standing, Root
  <2> QED BY <2>1, <2>2 DEF LiveDirs, DirPlaces
<1>15. CallInv(t)'
  <2>1. PlanOK(t)'
    BY <1>10, <1>11, <1>12, <1>13 DEF PlanOK
  <2>2. CallOK(t)'
    BY <1>3, <1>7, <1>8, <1>11, <1>13, <1>14 DEF CallOK
  <2>3. NewOK(t)' /\ FreshOK(t)'
    <3>1. DirPlaces(call[t].in)' = DirPlaces(to)
      BY <1>11, <1>14 DEF DirPlaces
    <3> QED BY <1>6, <1>11, <1>13, <1>14, <3>1 DEF NewOK, FreshOK
  <2>4. OldOK(t)'
    <3>1. DirPlaces(call[t].in)' = DirPlaces(to)
      BY <1>11, <1>14 DEF DirPlaces
    <3> QED BY <1>3, <1>7, <1>8, <1>11, <1>13, <1>14, <3>1 DEF OldOK, Same
  <2>5. OnlyOK(t)'
    BY <1>3, <1>11, <1>13, <1>14 DEF OnlyOK
  <2>6. BareOK(t)'
    BY <1>11, <1>13 DEF BareOK
  <2> QED BY <2>1, <2>2, <2>3, <2>4, <2>5, <2>6 DEF CallInv
<1>16. MayUse(c.uses) /\ \A u \in Thread : Busy(u) => call[u].entry.obj # c.entry.obj
  BY <1>1, <1>3, <1>4, <1>9
<1> QED BY <1>1, <1>6, <1>9, <1>12, <1>13, <1>15, <1>16, BeginKeeps

(***************************************************************************)
(* The invariant is inductive                                              *)
(***************************************************************************)
LEMMA InitHolds == Init => TreeBody
<1> SUFFICES ASSUME Init PROVE TreeBody
  OBVIOUS
<1>1. /\ old_root \in BOOLEAN
      /\ link = [c \in Cluster |-> IF c = Root THEN EndOfChain ELSE Free]
      /\ slot = [p \in Place |-> IF p[1] \in {0, Root} THEN Empty ELSE Old]
      /\ call = [t \in Thread |-> NoCall] /\ home = [o \in Object |-> Nowhere]
      /\ moved = {} /\ cut = {} /\ twice = {} /\ leaky = FALSE /\ faults = 0
  BY DEF Init
<1>2. /\ Root \in Cluster \union {0} /\ 0 \notin Cluster /\ EndOfChain \notin Cluster /\ Free \notin Cluster
      /\ Free # EndOfChain /\ EndOfChain # Bad
  <2>1. Root \in Cluster \union {0}
    BY ClusterCountAssumption DEF Root, Cluster
  <2> QED BY <2>1, MarksAreNotClusters DEF Free
<1>3. \A c \in Cluster : link[c] \notin Cluster /\ (link[c] = Free <=> c # Root) /\ (c = Root => link[c] = EndOfChain)
  BY <1>1, <1>2
<1>4. \A p \in Place : slot[p] \in {Empty, Old} /\ (slot[p] = Old => p[1] \notin {0, Root})
                       /\ (p[1] \notin {0, Root} => slot[p] = Old)
  <2>1. Empty # Old
    BY NamesAre
  <2> QED BY <1>1, <2>1
<1>5. Standing = {}
  <2>1. Empty.name \notin Name \union {"cut"} /\ Old.name \notin Name \union {"cut"}
    BY NamesAre
  <2> QED BY <1>4, <2>1 DEF Standing
<1>6. LiveDirs = {Root} /\ Heads = {Root} \ {0}
  BY <1>5 DEF LiveDirs, Heads
<1>7. ASSUME NEW t \in Thread
      PROVE  /\ call[t] = NoCall /\ ~Busy(t) /\ ~Holding(t) /\ ~Written(t) /\ ~HasOld(t)
             /\ Now(t) = "idle" /\ call[t].fresh = 0 /\ call[t].op = "none"
  <2>1. call[t] = NoCall
    BY <1>1
  <2>2. Now(t) = "idle"
    BY <2>1, NoCallIs DEF Now
  <2> QED BY <2>1, <2>2, NoCallIs DEF Busy, Holding, Written, HasOld
<1>8. Roots = {Root} \ {0}
  BY <1>6, <1>7 DEF Roots
<1>9. Root # 0 => Chain(link, Root) = {Root}
  <2> SUFFICES ASSUME Root # 0 PROVE Chain(link, Root) = {Root}
    OBVIOUS
  <2>1. Root \in Cluster /\ {Root} \in SUBSET Cluster /\ FollowsLinks(link, {Root})
    BY <1>2, <1>3 DEF FollowsLinks, IsData
  <2>2. Root \in Chain(link, Root)
    BY <2>1, ChainFollows
  <2>3. Chain(link, Root) \subseteq {Root}
    BY <2>1 DEF Chain
  <2> QED BY <2>2, <2>3
<1>10. \A p \in DirPlaces(Root) : slot[p] = Empty /\ p \in Place
  BY <1>4, <1>9 DEF DirPlaces
<1>11. ShapeOK
  <2>1. link \in Table
    BY <1>1, <1>2 DEF Table, FatValue
  <2>2. slot \in [Place -> Entry]
    BY <1>1 DEF Entry
  <2>3. call \in [Thread -> CallType]
    BY <1>1, NoCallIs
  <2> QED BY <1>1, <2>1, <2>2, <2>3 DEF ShapeOK
<1>12. WellFormed(link, Roots)
  <2>1. LinksInUse(link) /\ LinksInjective(link)
    BY <1>3 DEF LinksInUse, LinksInjective, IsData
  <2>2. HeadsInUse(link, Roots) /\ HeadsUnlinked(link, Roots)
    BY <1>2, <1>3, <1>8 DEF HeadsInUse, HeadsUnlinked, InChain, Linked
  <2> QED BY <2>1, <2>2 DEF WellFormed
<1>13. CallsApart /\ HeldLoose
  BY <1>7 DEF CallsApart, HeldLoose
<1>14. StandingOK /\ OwnersOK /\ DotsOK /\ NamesOK
  BY <1>5 DEF StandingOK, OwnersOK, DotsOK, NamesOK
<1>15. CleanOK
  <2>1. \A p \in DirPlaces(Root) : slot[p] # Old /\ slot[p].name # ".."
    BY <1>10, NamesAre
  <2>2. \A p \in Place : p[1] # 0 /\ link[p[1]] = Free => slot[p] = Old
    <3> SUFFICES ASSUME NEW p \in Place, p[1] # 0, link[p[1]] = Free PROVE slot[p] = Old
      OBVIOUS
    <3>1. p[1] \in Cluster
      BY DEF Place
    <3> QED BY <1>3, <1>4, <3>1
  <2> QED BY <1>6, <1>8, <2>1, <2>2 DEF CleanOK
<1>16. CutOK /\ HomeOK
  <2>1. CutOK
    BY <1>6, <1>10, NamesAre DEF CutOK
  <2> QED BY <1>1, <2>1 DEF HomeOK
<1>17. Ranked
  <2>1. [d \in Cluster \union {0} |-> 0] \in [Cluster \union {0} -> Nat]
    OBVIOUS
  <2> QED BY <1>5, <2>1 DEF Ranked, RankedBy
<1>18. NoLeak
  <2> SUFFICES ASSUME NEW c \in Cluster, link[c] # Free PROVE \E h \in Roots : c \in Chain(link, h)
    BY DEF NoLeak
  <2> QED BY <1>2, <1>3, <1>8, <1>9
<1>19. ASSUME NEW t \in Thread PROVE CallInv(t)
  <2>1. PlanOK(t) /\ CallOK(t) /\ NewOK(t)
    BY <1>7, NoCallIs DEF PlanOK, CallOK, NewOK
  <2>2. OldOK(t) /\ OnlyOK(t) /\ BareOK(t) /\ FreshOK(t)
    BY <1>7 DEF OldOK, OnlyOK, BareOK, FreshOK
  <2> QED BY <2>1, <2>2 DEF CallInv
<1> QED BY <1>11, <1>12, <1>13, <1>14, <1>15, <1>16, <1>17, <1>18, <1>19 DEF TreeBody

\* A step that changes nothing.
LEMMA StutterKeeps == ASSUME TreeBody, UNCHANGED vars PROVE TreeBody'
<1>1. /\ UNCHANGED <<volume, home, moved, cut>>
      /\ old_root' = old_root /\ link' = link /\ slot' = slot /\ call' = call
      /\ home' = home /\ moved' = moved /\ cut' = cut /\ twice' = twice /\ leaky' = leaky /\ faults' = faults
  BY DEF vars, volume, history
<1>2. Standing' = Standing /\ LiveDirs' = LiveDirs /\ Heads' = Heads
  <2>1. Standing' = Standing /\ Root' = Root
    BY <1>1 DEF Standing, Root
  <2> QED BY <1>1, <2>1 DEF LiveDirs, Heads
<1>3. ASSUME NEW t \in Thread
      PROVE  /\ (Holding(t))' = Holding(t) /\ (Busy(t))' = Busy(t) /\ (Written(t))' = Written(t) /\ CallInv(t)'
  <2>1. (Holding(t))' = Holding(t) /\ (Busy(t))' = Busy(t) /\ (Written(t))' = Written(t)
    BY <1>1 DEF Holding, Busy, Written, Now
  <2>2. Spared(t)
    BY <1>1, <1>2 DEF Spared
  <2> QED BY <1>1, <2>1, <2>2, SparedKeeps
<1>4. CallsApart' /\ HeldLoose'
  BY <1>1, <1>2, <1>3 DEF CallsApart, HeldLoose, TreeBody
<1>5. Roots' = Roots
  BY <1>1, <1>2, <1>3 DEF Roots
<1>6. ShapeOK'
  BY <1>1 DEF ShapeOK, TreeBody
<1>7. \A t \in Thread : call[t].op = "rename" /\ Written(t) =>
        \/ call'[t].op = "rename" /\ Written(t)' /\ call'[t].old = call[t].old /\ call'[t].new = call[t].new
        \/ call[t].entry.obj \in twice'
  BY <1>1, <1>3
<1> QED BY <1>1, <1>3, <1>4, <1>5, <1>6, <1>7, VolumeStays

\* A call begins.
LEMMA CallKeeps ==
    ASSUME TreeBody, NEW t \in Thread, Call(t), damage' = {}
    PROVE  TreeBody'
<1>1. Directories \subseteq LiveDirs
  BY RootsAre, BelowReaches DEF Directories
<1>2. PICK d \in LiveDirs :
          \/ \E n \in Name : BeginMkdir(t, d, n) \/ BeginCreate(t, d, n)
          \/ \E p \in Children(d) :
                \/ BeginDelete(t, d, p)
                \/ \E to \in LiveDirs, n \in Name : BeginRename(t, d, p, to, n)
  BY <1>1 DEF Call
<1>3. call[t] = NoCall
  BY DEF Call
<1>4. ASSUME NEW n \in Name, BeginMkdir(t, d, n) PROVE TreeBody'
  BY <1>3, <1>4, BeginMkdirKeeps
<1>5. ASSUME NEW n \in Name, BeginCreate(t, d, n) PROVE TreeBody'
  BY <1>3, <1>5, BeginCreateKeeps
<1>6. ASSUME NEW p \in Children(d), BeginDelete(t, d, p) PROVE TreeBody'
  BY <1>3, <1>6, BeginDeleteKeeps
<1>7. ASSUME NEW p \in Children(d), NEW to \in LiveDirs, NEW n \in Name, BeginRename(t, d, p, to, n) PROVE TreeBody'
  BY <1>3, <1>7, BeginRenameKeeps
<1> QED BY <1>2, <1>4, <1>5, <1>6, <1>7

\* What has happened is not forgotten.
LEMMA DamageGrows == [Next]_vars => damage \subseteq damage'
<1> SUFFICES ASSUME [Next]_vars PROVE damage \subseteq damage'
  OBVIOUS
<1>1. CASE UNCHANGED vars
  BY <1>1 DEF vars, history
<1>2. ASSUME NEW t \in Thread, Call(t) PROVE damage \subseteq damage'
  BY <1>2, ZenonT(60) DEF Call, BeginMkdir, BeginCreate, BeginDelete, BeginRename
<1>3. ASSUME NEW t \in Thread, Alloc(t) \/ Clean(t) \/ Clear(t) \/ Take(t) \/ Store(t) \/ Release(t)
      PROVE damage \subseteq damage'
  BY <1>3 DEF Alloc, Clean, Clear, Take, Store, Release, history
<1>4. ASSUME NEW t \in Thread, Enter(t) \/ Rewrite(t) \/ Third(t) \/ Erase(t) PROVE damage \subseteq damage'
  BY <1>4 DEF Enter, Rewrite, Third, Erase
<1>6. ASSUME NEW t \in Thread, Grow(t) \/ NoSpace(t) \/ IoError(t) PROVE damage \subseteq damage'
  <2>1. Fails(t) => damage \subseteq damage'
    BY DEF Fails
  <2> QED BY <1>6, <2>1 DEF Grow, NoHoleSeen, NoSpace, IoError
<1>5. CASE Crash
  BY <1>5 DEF Crash
<1> QED BY <1>1, <1>2, <1>3, <1>4, <1>5, <1>6 DEF Next

\* Every step that does no damage.
LEMMA BodyStep == ASSUME TreeBody, [Next]_vars, damage' = {} PROVE TreeBody'
<1>1. CASE UNCHANGED vars
  BY <1>1, StutterKeeps
<1>2. ASSUME NEW t \in Thread, Call(t) PROVE TreeBody'
  BY <1>2, CallKeeps
<1>3. ASSUME NEW t \in Thread, Alloc(t) PROVE TreeBody'
  BY <1>3, AllocKeeps
<1>4. ASSUME NEW t \in Thread, Clean(t) PROVE TreeBody'
  BY <1>4, CleanKeeps
<1>5. ASSUME NEW t \in Thread, Enter(t) PROVE TreeBody'
  <2>1. CASE Doing(t, {"enter"})
    BY <1>5, <2>1, EnterKeeps
  <2>2. CASE ~Doing(t, {"enter"})
    BY <1>5, <2>2, DotKeeps
  <2> QED BY <2>1, <2>2
<1>6. ASSUME NEW t \in Thread, Grow(t) PROVE TreeBody'
  BY <1>6, GrowKeeps
<1>7. ASSUME NEW t \in Thread, Clear(t) PROVE TreeBody'
  BY <1>7, ClearKeeps
<1>8. ASSUME NEW t \in Thread, Take(t) PROVE TreeBody'
  BY <1>8, TakeStepKeeps
<1>9. ASSUME NEW t \in Thread, Store(t) PROVE TreeBody'
  BY <1>9, StoreKeeps
<1>10. ASSUME NEW t \in Thread, Rewrite(t) PROVE TreeBody'
  BY <1>10, RewriteKeeps
<1>11. ASSUME NEW t \in Thread, Third(t) PROVE TreeBody'
  BY <1>11, ThirdKeeps
<1>12. ASSUME NEW t \in Thread, Erase(t) PROVE TreeBody'
  BY <1>12, EraseKeeps
<1>13. ASSUME NEW t \in Thread, Release(t) PROVE TreeBody'
  BY <1>13, FreedKeeps
<1>14. ASSUME NEW t \in Thread, NoSpace(t) PROVE TreeBody'
  BY <1>14, NoSpaceKeeps
<1>15. ASSUME NEW t \in Thread, IoError(t) PROVE TreeBody'
  BY <1>15, IoErrorKeeps, UnclearedKeeps
<1>16. CASE Crash
  BY <1>16, CrashKeeps
<1> QED BY <1>1, <1>2, <1>3, <1>4, <1>5, <1>6, <1>7, <1>8, <1>9, <1>10, <1>11, <1>12, <1>13, <1>14, <1>15, <1>16 DEF Next

\* The invariant, for any number of threads, objects, names, clusters and places, and
\* any number of calls, failing accesses and crashes.
THEOREM TreeInvHolds == Spec => []TreeInv
<1>1. Init => TreeInv
  BY InitHolds DEF TreeInv
<1>2. TreeInv /\ [Next]_vars => TreeInv'
  <2> SUFFICES ASSUME TreeInv, [Next]_vars, damage' = {} PROVE TreeBody'
    BY DEF TreeInv
  <2>1. damage = {}
    BY DamageGrows
  <2> QED BY <2>1, BodyStep DEF TreeInv
<1> QED BY <1>1, <1>2, PTL DEF Spec

(***************************************************************************)
(* What the invariant says of the paths                                    *)
(***************************************************************************)

\* Paths lead to all directories: one of the lowest rank that they did not lead to
\* would have its name in one that they lead to.
LEMMA AllReached == ASSUME TreeBody PROVE Directories = LiveDirs
<1>1. Root \in LiveDirs
  BY RootsAre
<1>2. /\ Root \in Directories /\ Directories \subseteq LiveDirs
      /\ \A e \in Directories : \A p \in DirPlaces(e) \cap Standing :
            slot[p].dir => slot[p].start \in Directories
  BY <1>1, BelowReaches DEF Directories
<1> DEFINE X == LiveDirs \ Directories
<1> SUFFICES ASSUME X # {} PROVE FALSE
  BY <1>2
<1>3. PICK rank \in [Cluster \union {0} -> Nat] : RankedBy(rank)
  BY DEF TreeBody, Ranked
<1>4. LiveDirs \subseteq Cluster \union {0}
  BY RootsAre
<1>5. PICK d \in X : \A e \in X : rank[d] <= rank[e]
  <2> DEFINE T == {rank[e] : e \in X}
  <2>1. T \in SUBSET Nat /\ T # {}
    BY <1>4
  <2> HIDE DEF T
  <2>2. PICK m \in T : \A n \in T : m <= n
    BY <2>1, Least
  <2> QED BY <2>2 DEF T
<1>6. PICK p \in Standing : slot[p].dir /\ slot[p].start = d
  BY <1>2, <1>5 DEF LiveDirs
<1>7. PICK e \in LiveDirs : p \in DirPlaces(e)
  BY <1>6 DEF TreeBody, StandingOK
<1>8. rank[e] < rank[d] /\ rank[e] \in Nat /\ rank[d] \in Nat
  BY <1>3, <1>4, <1>5, <1>6, <1>7 DEF RankedBy
<1>9. e \in Directories
  BY <1>5, <1>7, <1>8
<1> QED BY <1>2, <1>5, <1>6, <1>7, <1>9

\* What a path leads to is a place of a directory, with a name if it stands for something.
LEMMA NamedAre ==
    ASSUME TreeBody, NEW e \in Named
    PROVE  /\ e[1] \in LiveDirs /\ e[2] \in DirPlaces(e[1]) /\ e = <<e[1], e[2]>> /\ e[2] \in Place
           /\ slot[e[2]].start # 0 \/ slot[e[2]].dir \/ slot[e[2]].obj \in Object => e[2] \in Standing
<1>0. PICK d \in LiveDirs : \E p \in Children(d) : e = <<d, p>>
  BY AllReached DEF Named
<1>1. PICK p \in Children(d) : e = <<d, p>>
  BY <1>0
<1>2. p \in DirPlaces(d) /\ (p \in Standing \/ slot[p] = Old)
  BY ChildrenAre
<1>3. Old.start = 0 /\ Old.dir = FALSE /\ Old.obj \notin Object
  <2>1. "none" \notin Object
    BY TreeAssumption, Zenon
  <2> QED BY <2>1 DEF Old, Empty
<1> QED BY <1>1, <1>2, <1>3 DEF DirPlaces

\* Every name can be called by a path.
LEMMA StandingNamed ==
    ASSUME TreeBody, NEW d \in LiveDirs, NEW p \in DirPlaces(d), p \in Standing
    PROVE  <<d, p>> \in Named
<1>1. p \in Children(d)
  BY ChildrenAre
<1> QED BY <1>1, AllReached DEF Named

\* What has two names is known to.
LEMMA TwoNamesIs ==
    ASSUME TreeBody, NEW p \in Standing, NEW q \in Standing, p # q, slot[p].obj = slot[q].obj
    PROVE  TwoNames(slot[p].obj)
<1>1. CASE slot[p].obj \in twice
  BY <1>1 DEF TwoNames
<1>2. CASE slot[p].obj \notin twice
  <2>1. PICK t \in Thread : call[t].op = "rename" /\ Written(t) /\ {p, q} = {call[t].old, call[t].new}
    BY <1>2 DEF TreeBody, OwnersOK
  <2>2. PlanOK(t) /\ NewOK(t)
    BY DEF TreeBody, CallInv
  <2>3. Now(t) # "store"
    BY <2>1, <2>2, NoCallIs DEF PlanOK, InPlan, Renames, Now
  <2>4. slot[call[t].new] = call[t].entry
    BY <2>1, <2>2, <2>3 DEF NewOK
  <2>5. slot[p].obj = call[t].entry.obj
    BY <2>1, <2>4
  <2> QED BY <2>1, <2>5 DEF TwoNames
<1> QED BY <1>1, <1>2

\* Paths lead to the start of every chain that has a name.
LEMMA HeadsNamed == ASSUME TreeBody PROVE HeadsOf(Named) = Heads
<1>1. ASSUME NEW e \in Named, slot[e[2]].start # 0 PROVE slot[e[2]].start \in Heads
  BY <1>1, NamedAre DEF Heads
<1>2. ASSUME NEW p \in Standing PROVE \E e \in Named : slot[p].start = slot[e[2]].start
  <2>1. PICK d \in LiveDirs : p \in DirPlaces(d)
    BY DEF TreeBody, StandingOK
  <2>2. <<d, p>> \in Named /\ <<d, p>>[2] = p
    BY <2>1, StandingNamed
  <2> QED BY <2>2
<1>3. \A h \in HeadsOf(Named) : h \in Heads
  BY <1>1 DEF HeadsOf, Heads
<1>4. \A h \in Heads : h \in HeadsOf(Named)
  BY <1>2 DEF HeadsOf, Heads
<1> QED BY <1>3, <1>4

\* OneOwner from the invariant: what has the same start cluster is the same object, and
\* has its two places from a rename.
LEMMA OneOwnerFollows == TreeInv => OneOwner
<1> SUFFICES ASSUME TreeBody PROVE /\ WellFormed(link, HeadsOf(Named))
                                   /\ \A e, f \in Named :
                                         LET x == slot[e[2]]
                                             y == slot[f[2]]
                                         IN  e # f /\ x.start # 0 /\ x.start = y.start => x.obj = y.obj /\ TwoNames(x.obj)
  BY DEF TreeInv, OneOwner
<1>1. WellFormed(link, HeadsOf(Named))
  <2>1. Heads \in SUBSET Roots
    BY DEF Roots
  <2> QED BY <2>1, HeadsNamed, FewerHeads DEF TreeBody
<1>2. ASSUME NEW e \in Named, NEW f \in Named, e # f, slot[e[2]].start # 0, slot[e[2]].start = slot[f[2]].start
      PROVE  slot[e[2]].obj = slot[f[2]].obj /\ TwoNames(slot[e[2]].obj)
  <2>1. /\ e[1] \in LiveDirs /\ e[2] \in DirPlaces(e[1]) /\ e = <<e[1], e[2]>> /\ e[2] \in Standing
        /\ f[1] \in LiveDirs /\ f[2] \in DirPlaces(f[1]) /\ f = <<f[1], f[2]>> /\ f[2] \in Standing
    BY <1>2, NamedAre
  <2>2. e[2] # f[2]
    <3> SUFFICES ASSUME e[2] = f[2] PROVE e[1] = f[1]
      BY <1>2, <2>1
    <3>1. e[1] \in Roots \union {0} /\ f[1] \in Roots \union {0}
      BY <2>1, RootsAre
    <3> QED BY <2>1, <3>1, OneDirectory
  <2>3. slot[e[2]].obj = slot[f[2]].obj
    BY <1>2, <2>1, <2>2 DEF TreeBody, OwnersOK
  <2> QED BY <2>1, <2>2, <2>3, TwoNamesIs
<1> QED BY <1>1, <1>2

\* OneOwner: what names lead to belongs to them alone, at every step of any calls of
\* create_directory, create_file, delete_file, delete_directory and rename that work in
\* different directories, wherever accesses fail or the system stops.
THEOREM OneOwnerHolds == Spec => []OneOwner
  BY TreeInvHolds, OneOwnerFollows, PTL

\* NothingLost from the invariant: the name home tells of stands in its directory, and
\* paths lead to that directory.
LEMMA NothingLostFollows == TreeInv => NothingLost
<1> SUFFICES ASSUME TreeBody, NEW o \in Object, home[o] # Nowhere
             PROVE  LET there == {e \in Named : slot[e[2]].obj = o}
                        Is(e, n) == e[1] = home[o][1] /\ slot[e[2]].name = n
                    IN  \E e \in there : /\ Is(e, home[o][2]) \/ (o \in cut /\ Is(e, "cut"))
                                         /\ TwoNames(o) \/ there = {e}
  BY DEF TreeInv, NothingLost
<1> DEFINE there == {e \in Named : slot[e[2]].obj = o}
           d == home[o][1]
<1>1. d \in LiveDirs
  BY DEF TreeBody, HomeOK
<1>2. PICK p \in DirPlaces(d) \intersect Standing :
           slot[p].obj = o /\ (slot[p].name = home[o][2] \/ (o \in cut /\ slot[p].name = "cut"))
  BY DEF TreeBody, HomeOK
<1>3. <<d, p>> \in there /\ <<d, p>>[1] = d /\ <<d, p>>[2] = p
  BY <1>1, <1>2, StandingNamed
<1>4. ASSUME ~TwoNames(o), NEW e \in there PROVE e = <<d, p>>
  <2>1. e[1] \in LiveDirs /\ e[2] \in DirPlaces(e[1]) /\ e = <<e[1], e[2]>> /\ e[2] \in Standing
    BY NamedAre
  <2>2. e[2] = p
    BY <1>2, <1>4, <2>1, TwoNamesIs
  <2>3. e[1] = d
    BY <1>1, <1>2, <2>1, <2>2, RootsAre, OneDirectory
  <2> QED BY <2>1, <2>2, <2>3
<1>5. TwoNames(o) \/ there = {<<d, p>>}
  BY <1>3, <1>4
<1> HIDE DEF there, d
<1> QED BY <1>2, <1>3, <1>5 DEF there, d

\* NothingLost: every file and directory is found by a path from the root where the last
\* completed call has put it, although rename writes the new name before it deletes the
\* old one, and the directories above may be renamed and deleted at the same time.
THEOREM NothingLostHolds == Spec => []NothingLost
  BY TreeInvHolds, NothingLostFollows, PTL

\* NothingLeaked from the invariant: between calls the roots of the chains are the
\* clusters that names begin with.
LEMMA NothingLeakedFollows == TreeInv => NothingLeaked
<1> SUFFICES ASSUME TreeBody, Quiet, ~leaky
             PROVE  {c \in Cluster : link[c] # Free} = UNION {ToSet(ChainFrom(h)) : h \in HeadsOf(Named)}
  BY DEF TreeInv, NothingLeaked
<1>1. Roots = Heads
  <2>1. \A t \in Thread : ~Holding(t)
    BY NoCallIs DEF Quiet, Holding, Now
  <2> QED BY <2>1 DEF Roots
<1>2. HeadsOf(Named) = Roots /\ link \in Table /\ Roots \in SUBSET Cluster /\ WellFormed(link, Roots) /\ LinksInjective(link)
  BY <1>1, HeadsNamed, RootsAre DEF TreeBody
<1>3. ASSUME NEW h \in Roots
      PROVE  ToSet(ChainFrom(h)) = Chain(link, h) /\ \A c \in Chain(link, h) : c \in Cluster /\ link[c] # Free
  <2>1. h \in Cluster /\ ~Linked(link, h)
    BY <1>2 DEF WellFormed, HeadsUnlinked
  <2>2. \A c \in Chain(link, h) : c \in Cluster /\ InChain(link[c])
    BY <1>2, ChainInUse
  <2> QED BY <1>2, <2>1, <2>2, ChainFromIs, MarksAreNotClusters DEF InChain, IsData
<1>4. \A c \in Cluster : link[c] # Free => \E h \in Roots : c \in Chain(link, h)
  BY DEF TreeBody, NoLeak
<1> QED BY <1>2, <1>3, <1>4

\* NothingLeaked: between calls every cluster in use belongs to something that has a
\* name, also after create_directory found the volume full and took back what it had
\* made, as long as no call was stopped where the code does not clean up.
THEOREM NothingLeakedHolds == Spec => []NothingLeaked
  BY TreeInvHolds, NothingLeakedFollows, PTL

\* DotDotLeadsUp from the invariant.
LEMMA DotDotFollows == TreeInv => DotDotLeadsUp
<1> SUFFICES ASSUME TreeBody, NEW e \in Named, slot[e[2]].dir, e[2][1] = e[1],
                    slot[e[2]].obj \notin moved, ~TwoNames(slot[e[2]].obj)
             PROVE  LeadsUp(e[1], e[2])
  BY DEF TreeInv, DotDotLeadsUp
<1> DEFINE p == e[2]
           s == slot[e[2]].start
<1>1. p \in Standing /\ p \in Place
  BY NamedAre
<1>2. s \in LiveDirs
  BY <1>1 DEF LiveDirs
<1>3. DirStart(s) /\ link \in Table /\ LinksInjective(link)
  BY <1>2, RootsAre, Starts
<1>4. slot[p].obj \notin twice /\ \A t \in Thread : call[t].op = "rename" => call[t].new # p
  <2>1. ASSUME NEW t \in Thread, call[t].op = "rename", call[t].new = p PROVE FALSE
    <3>1. PlanOK(t) /\ NewOK(t)
      BY DEF TreeBody, CallInv
    <3>2. Written(t)
      BY <1>1, <2>1, <3>1, NoPlaceIsNone DEF PlanOK
    <3>3. Now(t) # "store"
      BY <2>1, <3>1, <3>2, NoCallIs DEF PlanOK, InPlan, Renames, Now
    <3>4. slot[p] = call[t].entry
      BY <2>1, <3>1, <3>2, <3>3 DEF NewOK
    <3> QED BY <2>1, <3>4 DEF TwoNames
  <2> QED BY <2>1 DEF TwoNames
<1>5. \A q \in DirPlaces(s) : slot[q].name = ".." => slot[q].start = ParentCluster(p)
  BY <1>1, <1>4 DEF TreeBody, DotsOK
<1>6. DotDot(s) \in {-1, ParentCluster(p)}
  <2> DEFINE q == Lookup(s, "..")
  <2>1. q = NoPlace \/ (q \in DirPlaces(s) /\ slot[q].name = "..")
    BY <1>3, LookupIs
  <2>2. DotDot(s) = IF q = NoPlace THEN -1 ELSE slot[q].start
    BY DEF DotDot
  <2> QED BY <1>5, <2>1, <2>2
<1> QED BY <1>6 DEF LeadsUp, ParentCluster

\* DotDotLeadsUp: '..' leads to the directory the name is in, as create_directory wrote
\* it, for a name in the first cluster of its directory that rename has not moved there
\* from another cluster.
THEOREM DotDotLeadsUpHolds == Spec => []DotDotLeadsUp
  BY TreeInvHolds, DotDotFollows, PTL

\* TypeOK from the invariant.
LEMMA TypeFollows == TreeInv => (damage = {} => TypeOK)
<1> SUFFICES ASSUME ShapeOK PROVE TypeOK
  BY DEF TreeInv, TreeBody
<1>1. \A t \in Thread : call[t] \in CallType
  BY DEF ShapeOK
<1> QED BY <1>1 DEF ShapeOK, TypeOK, CallType

\* TypeOK, as long as nothing happened that no caller is protected from: what a damaged
\* volume makes the calls read is no longer bounded by the model.
THEOREM TypeHolds == Spec => [](damage = {} => TypeOK)
  BY TreeInvHolds, TypeFollows, PTL
===============================================================================
