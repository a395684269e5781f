-------------------------------- MODULE Analysis --------------------------------
(***************************************************************************)
(* Artifact inspection: the queue in the table artifact_analysis           *)
(* (store/investigation.go), the goroutine ArtifactAnalyzer.run that sends *)
(* queued artifacts to the isolated worker (controller/artifacts.go), its  *)
(* API (controller/api.go), and ArtifactsPage (frontend/src/App.tsx), whose*)
(* asynchronous open and analyze change the page when their answers come,  *)
(* whichever artifact is selected by then.                                 *)
(*                                                                         *)
(* The goroutine wakes by a one-slot channel and by a ticker.  It loads a  *)
(* batch and finishes it even when the controller is told to stop: reads   *)
(* and requests then fail, and the failure is written with a context of    *)
(* its own.                                                                *)
(***************************************************************************)
EXTENDS ConsoleState

CONSTANTS
    Artifacts,
    Queued,      \* artifacts whose row an earlier run of the controller left pending
    BatchSize    \* 10 in process

ASSUME AnalysisAssumption ==
    BatchSize \in Nat \ {0} /\ None \notin Artifacts /\ Queued \subseteq Artifacts

VARIABLES
    status,    \* artifact_analysis.status; "none" without a row
    wake,      \* the channel a.wake holds a token
    wpc,       \* the goroutine: select, query, batch, complete, gone
    ids,       \* artifacts of the batch that are still to do
    item,      \* the artifact being inspected, and how that went
    selected, preview, analysis, previewError,  \* ArtifactsPage: which artifact's
               \* row is selected, whose preview and whose analysis is shown
    opens,     \* runs of open: the artifact, and the request that is out
    posts,     \* POSTs of analyze: the artifact, and whether the page is still mounted
    overlap    \* history: the selected one was opened while others were out

loopVars == <<status, wake, wpc, ids, item>>
artVars  == <<selected, preview, analysis, previewError, opens, posts, overlap>>
analysisVars == <<status, wake, wpc, ids, item, selected, preview, analysis,
                  previewError, opens, posts, overlap>>

AnalysisInit ==
    /\ status = [a \in Artifacts |-> IF a \in Queued THEN "pending" ELSE "none"]
    /\ wake = TRUE /\ wpc = "select" /\ ids = {} /\ item = [a |-> None, ok |-> FALSE]
    /\ selected = None /\ preview = None /\ analysis = None /\ previewError = FALSE
    /\ opens = {} /\ posts = {} /\ overlap = FALSE

-----------------------------------------------------------------------------
(* ArtifactAnalyzer.run *)

Awake ==
    /\ run # "down" /\ wpc = "select" /\ wake
    /\ wake' = FALSE /\ wpc' = "query"
    /\ UNCHANGED <<run, page, status, ids, item, artVars>>

(* Mutant: the goroutine has no ticker. *)
TickNever == FALSE /\ UNCHANGED <<run, page, analysisVars>>

Tick ==
    /\ run # "down" /\ wpc = "select"
    /\ wpc' = "query"
    /\ UNCHANGED <<run, page, status, wake, ids, item, artVars>>

Pending == {a \in Artifacts : status[a] = "pending"}

(* PendingArtifactAnalysis: the first pending rows, at most a batch. *)
Query ==
    /\ run = "up" /\ wpc = "query"
    /\ ids' \in {S \in SUBSET Pending :
                   \/ S = Pending /\ Cardinality(S) <= BatchSize
                   \/ Cardinality(S) = BatchSize}
    /\ wpc' = IF Pending = {} THEN "select" ELSE "batch"
    /\ UNCHANGED <<run, page, status, wake, item, artVars>>

QueryFails ==
    /\ run # "down" /\ wpc = "query"
    /\ wpc' = "select"
    /\ UNCHANGED <<run, page, status, wake, ids, item, artVars>>

(* The artifact is read and sent to the worker; both can fail, the worker's
   answer must carry its digest and size, and once the context is done nothing
   succeeds. *)
Inspect(a) ==
    /\ run # "down" /\ wpc = "batch" /\ a \in ids
    /\ \E ok \in BOOLEAN : (ok => run = "up") /\ item' = [a |-> a, ok |-> ok]
    /\ ids' = ids \ {a}
    /\ wpc' = "complete"
    /\ UNCHANGED <<run, page, status, wake, artVars>>

(* CompleteArtifactAnalysis; a row queued again meanwhile is closed with it. *)
Complete ==
    /\ run # "down" /\ wpc = "complete"
    /\ status' = [status EXCEPT ![item.a] = IF item.ok THEN "complete" ELSE "failed"]
    /\ item' = [a |-> None, ok |-> FALSE]
    /\ wpc' = IF ids = {} THEN "select" ELSE "batch"
    /\ UNCHANGED <<run, page, wake, ids, artVars>>

(* An error of that write is ignored: the row stays pending. *)
CompleteFails ==
    /\ run # "down" /\ wpc = "complete"
    /\ item' = [a |-> None, ok |-> FALSE]
    /\ wpc' = IF ids = {} THEN "select" ELSE "batch"
    /\ UNCHANGED <<run, page, status, wake, ids, artVars>>

(* ctx.Done in the select *)
Quit ==
    /\ run = "stopping" /\ wpc = "select"
    /\ wpc' = "gone"
    /\ UNCHANGED <<run, page, status, wake, ids, item, artVars>>

-----------------------------------------------------------------------------
(* ArtifactsPage *)

OpenArtifacts ==
    /\ selected' = None /\ preview' = None /\ analysis' = None /\ previewError' = FALSE
    /\ opens' = {} /\ overlap' = FALSE
    /\ posts' = {[a |-> p.a, here |-> FALSE] : p \in posts}
    /\ UNCHANGED loopVars
LeaveArtifacts == OpenArtifacts

(* open: the row is selected at once, the preview comes later. *)
Open(a) ==
    /\ page = "artifacts"
    /\ selected' = a /\ previewError' = FALSE /\ analysis' = None
    /\ opens' = opens \cup {[a |-> a, req |-> "preview"]}
    /\ overlap' = (opens # {} \/ \E p \in posts : p.here)
    /\ UNCHANGED <<run, page, loopVars, preview, posts>>

(* Mutant: the analysis is asked for without showing the preview. *)
PreviewComesNot(o) ==
    /\ run # "down" /\ o.req = "preview"
    /\ opens' = (opens \ {o}) \cup {[a |-> o.a, req |-> "analysis"]}
    /\ UNCHANGED <<run, page, loopVars, selected, preview, analysis, previewError, posts, overlap>>

PreviewComes(o) ==
    /\ run # "down" /\ o.req = "preview"
    /\ preview' = o.a
    /\ opens' = (opens \ {o}) \cup {[a |-> o.a, req |-> "analysis"]}
    /\ UNCHANGED <<run, page, loopVars, selected, analysis, previewError, posts, overlap>>

(* An error is shown, next to the preview that was there before. *)
PreviewFails(o) ==
    /\ o.req = "preview"
    /\ previewError' = TRUE
    /\ opens' = opens \ {o}
    /\ UNCHANGED <<run, page, loopVars, selected, preview, analysis, posts, overlap>>

(* GET .../analysis: its result, or nothing when there is none or it fails. *)
AnalysisComes(o) ==
    /\ o.req = "analysis"
    /\ \/ run # "down" /\ status[o.a] # "none" /\ analysis' = o.a
       \/ UNCHANGED analysis
    /\ opens' = opens \ {o}
    /\ UNCHANGED <<run, page, loopVars, selected, preview, previewError, posts, overlap>>

(* analyze: POST .../analysis for the selected artifact. *)
Analyze ==
    /\ page = "artifacts" /\ selected # None /\ preview # None
    /\ posts' = posts \cup {[a |-> selected, here |-> TRUE]}
    /\ UNCHANGED <<run, page, loopVars, selected, preview, analysis, previewError, opens, overlap>>

(* queueArtifactAnalysis: the row first, then the token; the page, if it is still
   mounted, shows the artifact as pending when the answer comes. *)
QueueAnalysis(p) ==
    /\ run # "down"
    /\ posts' = posts \ {p}
    /\ status' = [status EXCEPT ![p.a] = "pending"]
    /\ wake' = TRUE
    /\ \/ p.here /\ analysis' = p.a
       \/ UNCHANGED analysis
    /\ UNCHANGED <<run, page, wpc, ids, item, selected, preview, previewError, opens, overlap>>

QueueFails(p) ==
    /\ posts' = posts \ {p}
    /\ UNCHANGED <<run, page, loopVars, selected, preview, analysis, previewError, opens, overlap>>

-----------------------------------------------------------------------------
(* The process ends, whatever the goroutine is at; on start there is a token in
   the channel. *)
AnalysisDown ==
    /\ wake' = FALSE /\ wpc' = "gone" /\ ids' = {} /\ item' = [a |-> None, ok |-> FALSE]
    /\ UNCHANGED <<status, artVars>>

AnalysisStart ==
    /\ wake' = TRUE /\ wpc' = "select"
    /\ UNCHANGED <<status, ids, item, artVars>>

LoopStep == \/ Awake \/ Tick \/ Query \/ QueryFails \/ Complete \/ CompleteFails \/ Quit
            \/ \E a \in Artifacts : Inspect(a)

ArtStep == \/ \E o \in opens : PreviewComes(o) \/ PreviewFails(o) \/ AnalysisComes(o)
           \/ \E p \in posts : QueueAnalysis(p) \/ QueueFails(p)

-----------------------------------------------------------------------------
(* The panel is about the selected artifact: when nothing is out, no error is
   shown and the artifact was not opened while requests for another were out,
   preview and analysis are those of the artifact whose name and actions the
   panel carries.  (open and analyze have no guard against answers that come
   late, so without the last condition it does not hold.)  Code: open and
   analyze of ArtifactsPage. *)
PanelMatches ==
    (page = "artifacts" /\ selected # None /\ opens = {} /\ ~(\E p \in posts : p.here)
        /\ ~previewError /\ ~overlap)
      => preview = selected /\ analysis \in {None, selected}

(* No queued inspection is forgotten: a pending row is closed in the end, as
   complete or as failed, although the token may be taken by an earlier batch,
   a query or the closing write may fail, and the controller may stop or be
   killed while the artifact is at the worker.  Code: queue before Wake, the
   ticker, and the token that NewArtifactAnalyzer leaves. *)
EveryQueuedSettles == \A a \in Artifacts : status[a] = "pending" ~> status[a] \in {"complete", "failed"}
=============================================================================
