------------------------------ MODULE ClusterPool ------------------------------
(***************************************************************************)
(* What the allocator promises to the directory code: a pool of clusters   *)
(* out of which chains are built and taken apart one entry at a time.  No  *)
(* caller, device, counter or hint appears here: only which writes to the  *)
(* table are legal, and in which states.  ClusterAlloc implements it.      *)
(***************************************************************************)
EXTENDS FatTable

VARIABLES link,    \* the table
          heads    \* first clusters of the chains that the directories refer to

poolVars == <<link, heads>>

TypeOK == /\ link \in Table
          /\ heads \subseteq Cluster

Init == /\ link \in Table
        /\ heads \subseteq Cluster
        /\ WellFormed(link, heads)

\* Only a free cluster is handed out.
Take(c) == /\ link[c] = Free
           /\ link' = [link EXCEPT ![c] = EndOfChain]
           /\ UNCHANGED heads

\* Only a cluster nothing refers to is put behind the last one of a chain.
Append(l, c) == /\ l # c
                /\ link[l] = EndOfChain
                /\ link[c] = EndOfChain
                /\ Detached(link, heads, c)
                /\ link' = [link EXCEPT ![l] = c]
                /\ UNCHANGED heads

\* A chain is cut behind p; what follows p is detached.
Cut(p) == /\ IsData(link[p])
          /\ link' = [link EXCEPT ![p] = EndOfChain]
          /\ UNCHANGED heads

\* Only a cluster nothing refers to goes back to the pool.
Release(c) == /\ Detached(link, heads, c)
              /\ link' = [link EXCEPT ![c] = Free]
              /\ UNCHANGED heads

\* A detached cluster becomes the start of a file or directory.
Register(c) == /\ Detached(link, heads, c)
               /\ heads' = heads \union {c}
               /\ UNCHANGED link

\* The entry that referred to h is gone.
Drop(h) == /\ h \in heads
           /\ heads' = heads \ {h}
           /\ UNCHANGED link

Next == \E c \in Cluster :
          \/ Take(c)
          \/ \E l \in Cluster : Append(l, c)
          \/ Cut(c)
          \/ Release(c)
          \/ Register(c)
          \/ Drop(c)

Spec == Init /\ [][Next]_poolVars
=============================================================================
