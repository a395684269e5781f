------------------------------- MODULE MCIngest -------------------------------
(* Instances of Ingest for TLC: one sensor, two handlers that may work side by
   side. *)
EXTENDS Ingest

CONSTANTS s1, r1, r2, r3, k1, k2

OneOwner == [r \in Records |-> s1]
===============================================================================
