------------------------------ MODULE FindingStatus ------------------------------
(***************************************************************************)
(* AlertsPage (frontend/src/App.tsx) and the status of a finding: the page *)
(* lists findings, the operator sets a status with a PUT, and only when it *)
(* is answered does the page bump its refresh counter and read the list    *)
(* again.  The retry of a delivery works the same way.  The controller     *)
(* changes findings too: new evidence reopens one.                         *)
(*                                                                         *)
(* A status is its version: version counts the changes of the row.         *)
(***************************************************************************)
EXTENDS ConsoleState

VARIABLES
    version,   \* of the finding in the table
    chosen,    \* history: the version the last applied PUT of a mounted page made
    sent,      \* PUTs of this page that the controller has not handled
    applied,   \* PUTs of this page whose answer is under way
    stray,     \* PUTs of pages that were left
    lost,      \* an answer to an applied PUT was lost on this page
    refresh, asked,  \* the refresh counter, and its value at the last request
    list, answer,    \* the last request: none, out, served, and its answer
    shown, error     \* what the page shows

findVars == <<version, chosen, sent, applied, stray, lost, refresh, asked, list, answer, shown, error>>
viewVars == <<lost, refresh, asked, list, answer, shown, error>>

FindInit ==
    /\ version = 0 /\ chosen = 0 /\ sent = 0 /\ applied = 0 /\ stray = 0 /\ lost = FALSE
    /\ refresh = 0 /\ asked = None /\ list = "none" /\ answer = None /\ shown = None /\ error = FALSE

OpenAlerts ==
    /\ refresh' = 0 /\ asked' = None /\ list' = "none" /\ answer' = None /\ shown' = None /\ error' = FALSE
    /\ lost' = FALSE
    /\ stray' = stray + sent /\ sent' = 0 /\ applied' = 0
    /\ UNCHANGED <<version, chosen>>
LeaveAlerts == OpenAlerts

(* useData for the refreshed URL; an older request has lost its flag active, so
   only the last one is kept. *)
AskList ==
    /\ page = "alerts" /\ asked # refresh
    /\ asked' = refresh /\ list' = "out" /\ error' = FALSE
    /\ UNCHANGED <<run, page, version, chosen, sent, applied, stray, lost, refresh, answer, shown>>

ServeList ==
    /\ run = "up" /\ list = "out"
    /\ list' = "served" /\ answer' = version
    /\ UNCHANGED <<run, page, version, chosen, sent, applied, stray, lost, refresh, asked, shown, error>>

ArriveList ==
    /\ list = "served"
    /\ shown' = answer /\ list' = "none" /\ answer' = None
    /\ UNCHANGED <<run, page, version, chosen, sent, applied, stray, lost, refresh, asked, error>>

FailList ==
    /\ list = "out"
    /\ error' = TRUE /\ list' = "none"
    /\ UNCHANGED <<run, page, version, chosen, sent, applied, stray, lost, refresh, asked, answer, shown>>

(* status: the PUT is sent; the select stays usable. *)
SetStatus ==
    /\ page = "alerts" /\ shown # None
    /\ sent' = sent + 1
    /\ UNCHANGED <<run, page, version, chosen, applied, stray, viewVars>>

(* PUT /findings/{id}/status *)
ApplyStatus ==
    /\ run = "up"
    /\ version' = version + 1
    /\ \/ /\ sent > 0 /\ sent' = sent - 1 /\ applied' = applied + 1
          /\ chosen' = version + 1 /\ UNCHANGED stray
       \/ stray > 0 /\ stray' = stray - 1 /\ UNCHANGED <<sent, applied, chosen>>
    /\ UNCHANGED <<run, page, viewVars>>

(* The PUT fails and changes nothing; the rejection is not handled. *)
FailStatus ==
    /\ \/ sent > 0 /\ sent' = sent - 1 /\ UNCHANGED stray
       \/ stray > 0 /\ stray' = stray - 1 /\ UNCHANGED sent
    /\ UNCHANGED <<run, page, version, chosen, applied, viewVars>>

(* Mutant: the answer does not make the page read the list again. *)
AnswerStatusNot ==
    /\ applied > 0
    /\ applied' = applied - 1
    /\ UNCHANGED <<run, page, version, chosen, sent, stray, viewVars>>

(* The answer arrives: the counter is bumped. *)
AnswerStatus ==
    /\ applied > 0
    /\ applied' = applied - 1 /\ refresh' = refresh + 1
    /\ UNCHANGED <<run, page, version, chosen, sent, stray, lost, asked, list, answer, shown, error>>

(* The answer is lost: the status was changed, the page does not know. *)
LoseAnswer ==
    /\ applied > 0
    /\ applied' = applied - 1 /\ lost' = TRUE
    /\ UNCHANGED <<run, page, version, chosen, sent, stray, refresh, asked, list, answer, shown, error>>

(* New evidence changes the finding. *)
Reopen ==
    /\ run = "up" /\ version' = version + 1
    /\ UNCHANGED <<run, page, chosen, sent, applied, stray, viewVars>>

(* The controller stops: what was out fails. *)
FindStop ==
    /\ list' = IF list = "out" THEN "none" ELSE list
    /\ error' = (error \/ list = "out")
    /\ sent' = 0 /\ stray' = 0
    /\ UNCHANGED <<version, chosen, applied, lost, refresh, asked, answer, shown>>

FindStep == \/ AskList \/ ServeList \/ ArriveList \/ FailList
            \/ ApplyStatus \/ FailStatus \/ AnswerStatus \/ LoseAnswer

-----------------------------------------------------------------------------
(* The list shows what the operator did: once its requests and PUTs are done and
   it shows no error, it is at least as recent as the last status change of the
   operator on this page that took effect - however PUTs, answers and list
   requests overtook each other - unless the answer to a PUT was lost.  Code:
   AlertsPage reads again after the PUT is answered, useData drops old answers. *)
ViewCurrent ==
    (page = "alerts" /\ asked = refresh /\ list = "none" /\ ~error
        /\ sent = 0 /\ applied = 0 /\ ~lost)
      => shown # None /\ shown >= chosen
=============================================================================
