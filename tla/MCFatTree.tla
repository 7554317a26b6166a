----------------------------- MODULE MCFatTree ------------------------------
(* An instance of FatTree for TLC: three objects under two names. *)
EXTENDS FatTree

CONSTANTS a, b, o1, o2, o3

MCThread  == {a, b}
OneThread == {a}
MCObject  == {o1, o2, o3}

Symmetry == Permutations(MCThread) \union Permutations(MCObject)

OneThreadSymmetry == Permutations(MCObject)

\* A call that does damage is followed to its end and no further.
Undamaged == Quiet => damage = {}
=============================================================================
