------------------------------- MODULE MCOutbox -------------------------------
(* Instances of Outbox for TLC: deliveries that do not fit one batch, a limit
   of two attempts. *)
EXTENDS Outbox, TLC

CONSTANTS d1, d2

Rows == Permutations(Deliveries)
===============================================================================
