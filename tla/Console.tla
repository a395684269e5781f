-------------------------------- MODULE Console --------------------------------
(***************************************************************************)
(* The operator's console: one dashboard, of which one page is mounted at  *)
(* a time, and the controller it talks to, with the loop that inspects     *)
(* artifacts.  The parts are Preferences, FindingStatus and Analysis; they *)
(* meet in the page that is mounted, in the controller's stop, death and   *)
(* restart, and in the operator, who does one thing after the other.       *)
(***************************************************************************)
EXTENDS Preferences, FindingStatus, Analysis

CONSTANTS
    MaxActs,    \* bound: what the operator does, and evidence that comes in
    MaxStops    \* bound: stops and kills of the controller

ASSUME ConsoleAssumption == MaxActs \in Nat /\ MaxStops \in Nat

VARIABLES acts, stops

vars == <<run, page, prefVars, findVars, analysisVars, acts, stops>>

Pages == {"artifacts", "alerts", "settings"}

TypeOK ==
    /\ run \in {"up", "stopping", "down"} /\ page \in Pages
    /\ wpc \in {"select", "query", "batch", "complete", "gone"}
    /\ ids \subseteq Artifacts /\ wake \in BOOLEAN
    /\ \A h \in Handlers : put[h].pc \in {"none", "store", "update"}
    /\ version \in Nat /\ sent \in Nat /\ applied \in Nat /\ stray \in Nat
    /\ acts \in 0..MaxActs /\ stops \in 0..MaxStops

Init ==
    /\ run = "up" /\ page = "artifacts"
    /\ PrefInit /\ FindInit /\ AnalysisInit
    /\ acts = 0 /\ stops = 0

(* Another page is mounted; the state of the one that is left is gone. *)
Visit(p) ==
    /\ page # p /\ page' = p
    /\ CASE p = "settings" -> OpenSettings
         [] p # "settings" /\ page = "settings" -> LeaveSettings
         [] OTHER -> UNCHANGED prefVars
    /\ IF "alerts" \in {p, page} THEN OpenAlerts ELSE UNCHANGED findVars
    /\ IF "artifacts" \in {p, page} THEN OpenArtifacts ELSE UNCHANGED analysisVars
    /\ UNCHANGED <<run, acts, stops>>

(* What the operator does on the page, and evidence that comes in meanwhile. *)
Operate ==
    /\ acts < MaxActs /\ acts' = acts + 1 /\ UNCHANGED stops
    /\ \/ /\ \/ \E v \in Values : EditForm(v)
             \/ \E h \in Handlers, s \in Secrets \cup {None} : Save(h, s)
          /\ UNCHANGED <<findVars, analysisVars>>
       \/ (SetStatus \/ Reopen) /\ UNCHANGED <<prefVars, analysisVars>>
       \/ /\ Analyze \/ \E a \in Artifacts : Open(a)
          /\ UNCHANGED <<prefVars, findVars>>

(* A signal ends the controller's context ... *)
Stop ==
    /\ run = "up" /\ stops < MaxStops
    /\ run' = "stopping" /\ stops' = stops + 1
    /\ PrefStop /\ FindStop
    /\ UNCHANGED <<page, analysisVars, acts>>

(* ... and the process ends as soon as its servers have returned, without waiting
   for the goroutine. *)
Exit ==
    /\ run = "stopping" /\ run' = "down"
    /\ AnalysisDown
    /\ UNCHANGED <<page, prefVars, findVars, acts, stops>>

Kill ==
    /\ run = "up" /\ stops < MaxStops
    /\ run' = "down" /\ stops' = stops + 1
    /\ PrefStop /\ FindStop /\ AnalysisDown
    /\ UNCHANGED <<page, acts>>

(* controllerCmd, run again by the container runtime (restart: unless-stopped). *)
Start ==
    /\ run = "down" /\ run' = "up"
    /\ PrefStart /\ AnalysisStart
    /\ UNCHANGED <<page, findVars, acts, stops>>

Next ==
    \/ \E p \in Pages : Visit(p)
    \/ Operate
    \/ PrefStep /\ UNCHANGED <<findVars, analysisVars, acts, stops>>
    \/ FindStep /\ UNCHANGED <<prefVars, analysisVars, acts, stops>>
    \/ (LoopStep \/ ArtStep) /\ UNCHANGED <<prefVars, findVars, acts, stops>>
    \/ Stop \/ Exit \/ Kill \/ Start

Spec == Init /\ [][Next]_vars

(* The goroutine runs, and its ticker ticks; the database does not fail every
   query and every closing write; the container runtime ends and restarts the
   controller. *)
Loop(A) == A /\ UNCHANGED <<prefVars, findVars, acts, stops>>
FairSpec ==
    /\ Spec
    /\ WF_vars(Loop(Awake \/ Tick))
    /\ WF_vars(Loop(\E a \in Artifacts : Inspect(a)))
    /\ SF_vars(Loop(Query)) /\ SF_vars(Loop(Complete))
    /\ WF_vars(Exit) /\ WF_vars(Start)
=============================================================================
