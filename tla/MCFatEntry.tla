------------------------------ MODULE MCFatEntry ------------------------------
(* An instance of FatEntry for TLC: neighbouring entries on both sides of a    *)
(* shared byte and cluster numbers that differ in each of their digits.        *)
EXTENDS FatEntry

MCTouched == {2, 3, 4}
MCStored  == {Free, EndOfChain, Bad, 5, 37}

\* A device with all bytes alike.
MCOldTables == {[k \in 0..(FatBytes - 1) |-> fill] : fill \in {0, 165}}
=============================================================================
