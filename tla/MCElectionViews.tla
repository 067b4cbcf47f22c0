--------------------------- MODULE MCElectionViews ---------------------------
(* Instances of ElectionViews for TLC. *)
EXTENDS ElectionViews

CONSTANTS r1, nil

(* One election that starts at once, one with dates, from 2 to 4.          *)
Starts == [e \in 1..2 |-> IF e = 1 THEN 0 ELSE 2]
Counts == [e \in 1..2 |-> 2]
Averages == {[i \in 0..4 |-> CASE i <= 1 -> 2 [] i = 4 -> 1 [] OTHER -> 0]}
=============================================================================
