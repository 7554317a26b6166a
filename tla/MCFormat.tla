------------------------------- MODULE MCFormat -------------------------------
(* An instance of Format for TLC.  The sizes are those around which a choice   *)
(* of the geometry changes; ranges are wider than the overhead of a volume.    *)
EXTENDS Format

MCTouched == {4, 5, 6}
MCStored  == {Free, EndOfChain, Bad, 5, 37}

\* A device with all bytes alike.
MCOldTables == {[k \in 0..(FatBytes - 1) |-> fill] : fill \in {0, 165, 255}}
MCStale   == {0, 7}

\* One volume of each type.
MCFollowed == {187, 262144, 67000}

Around(n, k) == (n - k)..(n + k)

MCSizes == MCFollowed \union (0..70) \union Around(16344, 90) \union Around(66600, 60)
           \union Around(261504, 4) \union Around(262104, 4)
           \union Around(4193600, 100) \union Around(2099200, 3)
           \union Around(16779264, 3) \union Around(33556480, 3) \union Around(67110912, 3)
           \union {2147000000}
=============================================================================
