------------------------------ MODULE MCFatFile ------------------------------
(* An instance of FatFile for TLC: two callers and two names. *)
EXTENDS FatFile, TLC

CONSTANTS a, b, f, g

MCThread == {a, b}
MCSlot   == {f, g}

Symmetry == Permutations(MCThread) \union Permutations(MCSlot)

\* What a torn file leads to is not followed further: its chain ends early or in
\* other files, and no property says anything then.
Untorn == ~torn
=============================================================================
