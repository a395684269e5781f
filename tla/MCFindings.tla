------------------------------ MODULE MCFindings ------------------------------
(* Instances of Findings for TLC: two events share one finding, one of them
   also matches another, whose rule queries the store. *)
EXTENDS Findings, TLC

CONSTANTS e1, e2, f1, f2, w1, w2

MCTriggers == [e \in Events |-> IF e = e1 THEN Facts ELSE {f1}]

(* Two alerts fit into the clock for one finding, one for the other. *)
MCCooldown == [f \in Facts |-> IF f = f1 THEN 1 ELSE 2]

WorkerSymmetry == Permutations(Workers)
===============================================================================
