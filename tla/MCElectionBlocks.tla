-------------------------- MODULE MCElectionBlocks --------------------------
(***************************************************************************)
(* ElectionBlocks for TLC, with words of 5 bits, two milliseconds to a     *)
(* second and averages that differ between the periods.                    *)
(***************************************************************************)
EXTENDS ElectionBlocks, TLC

CONSTANTS r1, nil

(* The same average everywhere; a slower one for the longest period.       *)
Steady == [i \in 0..4 |-> 2]
SlowDay == [i \in 0..4 |-> CASE i <= 1 -> 2 [] i = 4 -> 6 [] OTHER -> 0]
Averages == {Steady, SlowDay}
=============================================================================
