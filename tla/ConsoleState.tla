------------------------------ MODULE ConsoleState ------------------------------
(* What the parts of the operator's console share: whether the controller is up,
   and which page of the dashboard (frontend/src/App.tsx) is mounted. *)
EXTENDS Naturals, FiniteSets

CONSTANT None   \* null in the page's state

ASSUME ConsoleStateAssumption == None \notin Nat

VARIABLES run,   \* the controller: "up", "stopping" (its context is done) or "down"
          page   \* the mounted page: "artifacts", "alerts" or "settings"
=============================================================================
