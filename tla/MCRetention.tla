------------------------------ MODULE MCRetention ------------------------------
(* Instances of Retention for TLC: three events, the first with evidence of a
   kind that has a period of its own and of one that has none. *)
EXTENDS Retention

CONSTANTS e1, e2, e3, v1, v2, v3

MCOf     == [v \in Evidence |-> IF v = v2 THEN e2 ELSE e1]
MCStamp  == [e \in Events |-> IF e = e1 THEN 0 ELSE 1]
MCRank   == [v \in Evidence |-> IF v = v1 THEN 3 ELSE IF v = v2 THEN 1 ELSE 4]
MCPeriod == [v \in Evidence |-> IF v = v3 THEN Never ELSE 0]
===============================================================================
