----------------------------- MODULE DurableQueue -----------------------------
(***************************************************************************)
(* What the sensor spool promises to its users (internal/spool/spool.go,   *)
(* header comment): a record enters the queue in one indivisible step, is  *)
(* removed only by an acknowledgement, never comes back afterwards, and a  *)
(* producer is told of success only for a record that is in the queue.     *)
(* Crashes and restarts are invisible at this level.                       *)
(***************************************************************************)
CONSTANT Records

VARIABLES status,     \* where each record is: not yet queued, queued, taken
          promised    \* records whose Put has returned nil to the producer

vars == <<status, promised>>

Init == /\ status = [r \in Records |-> "new"]
        /\ promised = {}

Enqueue(r) == /\ status[r] = "new"
              /\ status' = [status EXCEPT ![r] = "queued"]
              /\ UNCHANGED promised

Confirm(r) == /\ status[r] # "new"
              /\ promised' = promised \cup {r}
              /\ UNCHANGED status

Take(r) == /\ status[r] = "queued"
           /\ status' = [status EXCEPT ![r] = "taken"]
           /\ UNCHANGED promised

Next == \E r \in Records : Enqueue(r) \/ Confirm(r) \/ Take(r)

Spec == Init /\ [][Next]_vars
===============================================================================
