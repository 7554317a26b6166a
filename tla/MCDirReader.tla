---------------------------- MODULE MCDirReader -----------------------------
(* An instance of DirReader for TLC: two names of one part and one of both,
   readers that ask for everything and readers that ask for one kind. *)
EXTENDS DirReader

CONSTANTS f1, f2, f3

MCName    == {<<"a">>, <<"b">>, <<"a", "b">>}
MCFile    == {f1, f2, f3}
MCFilters == {MCFile \union {Old}}

\* A call that began at a place that does not suit it is followed to its end and no
\* further: it writes over other entries or other files, and no property but the
\* type invariant says anything then.
Placed == misplaced => op # "none"

\* A reader comes to a directory with clusters of one block that has all other
\* clusters to grow into.
Roomy ==
    reader.state # "none" =>
        /\ blocks_per_cluster = 1 /\ start \in {0, 2}
        /\ old_root \/ ToSet(ChainFrom(start)) \union FreeClusters(fat) = Cluster

Symmetry == Permutations(MCFile)
=============================================================================
