------------------------------ MODULE EvidenceLog ------------------------------
(***************************************************************************)
(* What the evidence path as a whole promises (ADR 0002): an event that a  *)
(* sensor has accepted is held until it is in the controller's log and has *)
(* been announced to the alert rules and live views; it enters the log     *)
(* once; it is let go only afterwards.  Streams, retries, crashes of       *)
(* either side and stale handlers are invisible at this level.             *)
(***************************************************************************)
CONSTANT Records

VARIABLES state,       \* how far each event has come
          announced    \* events that live views and alert rules have seen

vars == <<state, announced>>

Move(r, from, to) == /\ state[r] = from
                     /\ state' = [state EXCEPT ![r] = to]

Init == /\ state = [r \in Records |-> "new"]
        /\ announced = {}

Accept(r)   == Move(r, "new", "held") /\ UNCHANGED announced
Refuse(r)   == Move(r, "new", "refused") /\ UNCHANGED announced
Log(r)      == Move(r, "held", "logged") /\ UNCHANGED announced
Announce(r) == /\ state[r] \in {"logged", "released"}
               /\ announced' = announced \cup {r}
               /\ UNCHANGED state
LetGo(r)    == /\ r \in announced
               /\ Move(r, "logged", "released")
               /\ UNCHANGED announced

Next == \E r \in Records :
            Accept(r) \/ Refuse(r) \/ Log(r) \/ Announce(r) \/ LetGo(r)

Spec == Init /\ [][Next]_vars
===============================================================================
