----------------------------- MODULE MCDirSlots -----------------------------
(* An instance of DirSlots for TLC: two names of one part and one of both. *)
EXTENDS DirSlots

CONSTANTS f1, f2, f3

MCName == {<<"a">>, <<"b">>, <<"a", "b">>}
MCFile == {f1, f2, f3}

\* A call that began at a place that does not suit it is followed to its end and no
\* further: it writes over other entries or other files, and no property but
\* TypeOK says anything then.
Placed == misplaced => op # "none"

Symmetry == Permutations(MCFile)
=============================================================================
