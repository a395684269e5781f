-------------------------------- MODULE MCSpool --------------------------------
(* Instances of Spool for TLC: two sessions, three records that do not all fit. *)
EXTENDS Spool

CONSTANTS r1, r2, r3, p1, p2

MCSize == [r \in Records |-> IF r = r3 THEN 2 ELSE 1]

===============================================================================
