----------------------------- MODULE ConsoleProofs -----------------------------
(***************************************************************************)
(* Proofs about Console, for any number of preferences, secrets, handlers  *)
(* and artifacts, any batch size, and whatever number of stops and acts.   *)
(* Each of the three parts has an invariant of its own (PrefInv, FindInv,  *)
(* PanelInv); the parts share the controller's state and the mounted page. *)
(***************************************************************************)
EXTENDS Console, TLAPS

Prefs == Values \cup {FileValue, FormValue}
Current == IF stored = None THEN FileValue ELSE stored

Puts == [pc : {"none", "store", "update"}, v : Prefs \cup {None}, s : Secrets \cup {None}]

PrefType ==
    /\ stored \in Prefs \cup {None} /\ running \in Prefs
    /\ put \in [Handlers -> Puts]
    /\ \A h \in Handlers : put[h].pc # "none" => put[h].v \in Prefs
    /\ mixed \in BOOLEAN /\ unsaved \in BOOLEAN /\ early \in BOOLEAN
    /\ form \in Prefs /\ load \in Prefs \cup {"none", "out", "filled"}

(* A handler is cut off when the controller stops, and two of them are under way
   together only after that was noted. *)
Alone ==
    /\ run # "up" => Busy = {}
    /\ ~mixed => \A g, h \in Busy : g = h

(* Between the two writes of a PUT the table is ahead of the engine, by the
   preferences in the handler's hands. *)
InStep ==
    (run = "up" /\ ~mixed) =>
        /\ (\A h \in Handlers : put[h].pc # "update") => running = Current
        /\ \A h \in Handlers : put[h].pc = "update" => stored = put[h].v
        /\ (FileSecret = None /\ ~unsaved) => secret = psecret

(* Where the form's built-in values can be before an early save: in the form
   that was not filled, and nowhere else. *)
BuiltIn ==
    ~early => /\ FormValue \notin {stored, running, load}
              /\ load = "filled" => form # FormValue
              /\ \A h \in Handlers : put[h].v # FormValue

PrefInv == PrefType /\ Alone /\ InStep /\ BuiltIn

FindType ==
    /\ version \in Nat /\ chosen \in Nat /\ sent \in Nat /\ applied \in Nat /\ stray \in Nat
    /\ lost \in BOOLEAN /\ error \in BOOLEAN
    /\ refresh \in Nat /\ asked \in Nat \cup {None}
    /\ list \in {"none", "out", "served"}
    /\ answer \in Nat \cup {None} /\ shown \in Nat \cup {None}

(* While no answer to a PUT is under way or lost, the request made last shows, or
   will show, what the operator chose. *)
Recent ==
    /\ chosen <= version
    /\ asked # None => asked <= refresh
    /\ list = "served" => answer \in Nat
    /\ (asked = refresh /\ applied = 0 /\ ~lost) =>
          /\ list = "served" => answer >= chosen
          /\ (list = "none" /\ ~error) => shown # None /\ shown >= chosen

FindInv == FindType /\ Recent

Runs == [a : Artifacts, req : {"preview", "analysis"}]
Posts == [a : Artifacts, here : BOOLEAN]

LoopType ==
    /\ status \in [Artifacts -> {"none", "pending", "complete", "failed"}]
    /\ wake \in BOOLEAN /\ wpc \in {"select", "query", "batch", "complete", "gone"}
    /\ ids \subseteq Artifacts
    /\ selected \in Artifacts \cup {None}
    /\ previewError \in BOOLEAN /\ overlap \in BOOLEAN
    /\ opens \subseteq Runs /\ posts \subseteq Posts

(* Unless requests overlapped, all that is out is for the selected artifact, and
   its preview is shown, has failed, or is under way. *)
OwnPanel ==
    (selected # None /\ ~overlap) =>
        /\ \A o \in opens : o.a = selected
        /\ \A p \in posts : p.here => p.a = selected
        /\ analysis \in {None, selected}
        /\ preview = selected \/ previewError \/ \E o \in opens : o.req = "preview"

PanelInv == LoopType /\ OwnPanel

Counters == run \in {"up", "stopping", "down"} /\ page \in Pages
            /\ acts \in 0..MaxActs /\ stops \in 0..MaxStops

IInv == Counters /\ PrefInv /\ FindInv /\ PanelInv
-----------------------------------------------------------------------------
LEMMA InitIInv == Init => IInv
<1> SUFFICES ASSUME Init PROVE IInv
  OBVIOUS
<1> USE PreferencesAssumption, AnalysisAssumption, ConsoleAssumption, ConsoleStateAssumption DEF Init
<1>1. Counters
  BY DEF Counters, Pages
<1>2. PrefType
  BY DEF PrefInit, PrefType, Prefs, Puts, Idle
<1>3. Alone /\ InStep /\ BuiltIn
  BY DEF PrefInit, Alone, Busy, InStep, BuiltIn, Current, Idle
<1>4. FindInv
  <2>1. FindType
    BY DEF FindInit, FindType
  <2>2. None # 0
    OBVIOUS
  <2>3. Recent
    BY <2>2 DEF FindInit, Recent
  <2> QED
    BY <2>1, <2>3 DEF FindInv
<1>5. PanelInv
  BY DEF AnalysisInit, PanelInv, LoopType, OwnPanel
<1> QED
  BY <1>1, <1>2, <1>3, <1>4, <1>5 DEF IInv, PrefInv

LEMMA CountersStep == ASSUME IInv, [Next]_vars PROVE Counters'
<1> USE ConsoleAssumption DEF IInv, Counters, Pages
<1>1. CASE \E p \in Pages : Visit(p)
  BY <1>1 DEF Visit
<1>2. CASE Operate
  BY <1>2 DEF Operate, EditForm, Save, SetStatus, Reopen, Analyze, Open
<1>3. CASE PrefStep /\ UNCHANGED <<findVars, analysisVars, acts, stops>>
  BY <1>3 DEF PrefStep, ServePreferences, FillForm, SetSetting, SetSettingFails, UpdateConfig
<1>4. CASE FindStep /\ UNCHANGED <<prefVars, analysisVars, acts, stops>>
  BY <1>4 DEF FindStep, AskList, ServeList, ArriveList, FailList, ApplyStatus, FailStatus,
              AnswerStatus, LoseAnswer
<1>5. CASE (LoopStep \/ ArtStep) /\ UNCHANGED <<prefVars, findVars, acts, stops>>
  BY <1>5 DEF LoopStep, ArtStep, Awake, Tick, Query, QueryFails, Complete, CompleteFails, Quit,
              Inspect, PreviewComes, PreviewFails, AnalysisComes, QueueAnalysis, QueueFails
<1>6. CASE Stop \/ Exit \/ Kill \/ Start
  BY <1>6 DEF Stop, Exit, Kill, Start
<1>7. CASE UNCHANGED vars
  BY <1>7 DEF vars
<1> QED
  BY <1>1, <1>2, <1>3, <1>4, <1>5, <1>6, <1>7 DEF Next
-----------------------------------------------------------------------------
(* Preferences *)

(* What a step is for the preferences: one of their actions, or nothing to them. *)
LEMMA PrefView ==
  ASSUME IInv, [Next]_vars
  PROVE  \/ (OpenSettings \/ LeaveSettings) /\ run' = run
         \/ ServePreferences \/ FillForm
         \/ \E v \in Values : EditForm(v)
         \/ \E h \in Handlers, s \in Secrets \cup {None} : Save(h, s)
         \/ \E h \in Handlers : SetSetting(h) \/ SetSettingFails(h) \/ UpdateConfig(h)
         \/ PrefStop /\ run' # "up"
         \/ PrefStart /\ run = "down"
         \/ UNCHANGED prefVars /\ (run' = run \/ "up" \notin {run, run'})
<1>1. CASE \E p \in Pages : Visit(p)
  BY <1>1 DEF Visit
<1>2. CASE Operate
  BY <1>2 DEF Operate, SetStatus, Reopen, Analyze, Open
<1>3. CASE PrefStep /\ UNCHANGED <<findVars, analysisVars, acts, stops>>
  BY <1>3 DEF PrefStep
<1>4. CASE FindStep /\ UNCHANGED <<prefVars, analysisVars, acts, stops>>
  BY <1>4 DEF FindStep, AskList, ServeList, ArriveList, FailList, ApplyStatus, FailStatus,
              AnswerStatus, LoseAnswer
<1>5. CASE (LoopStep \/ ArtStep) /\ UNCHANGED <<prefVars, findVars, acts, stops>>
  BY <1>5 DEF LoopStep, ArtStep, Awake, Tick, Query, QueryFails, Complete, CompleteFails, Quit,
              Inspect, PreviewComes, PreviewFails, AnalysisComes, QueueAnalysis, QueueFails
<1>6. CASE Stop \/ Exit \/ Kill \/ Start
  BY <1>6 DEF Stop, Exit, Kill, Start
<1>7. CASE UNCHANGED vars
  BY <1>7 DEF vars, prefVars
<1> QED
  BY <1>1, <1>2, <1>3, <1>4, <1>5, <1>6, <1>7 DEF Next

LEMMA PrefStepInv == ASSUME IInv, [Next]_vars PROVE PrefInv'
<1> USE PreferencesAssumption DEF IInv, Counters, PrefInv, PrefType, Alone, InStep, BuiltIn, Busy, Current, Idle
<1>1. CASE (OpenSettings \/ LeaveSettings) /\ run' = run
  BY <1>1 DEF OpenSettings, LeaveSettings, Prefs
<1>2. CASE ServePreferences
  BY <1>2 DEF ServePreferences, Prefs
<1>3. CASE FillForm
  BY <1>3 DEF FillForm, Prefs
<1>4. ASSUME NEW v \in Values, EditForm(v) PROVE PrefInv'
  BY <1>4 DEF EditForm, Prefs
<1>5. ASSUME NEW h \in Handlers, NEW s \in Secrets \cup {None}, Save(h, s) PROVE PrefInv'
  <2> USE <1>5 DEF Save
  <2>1. PrefType'
    BY DEF Prefs, Puts
  <2>2. Alone'
    BY DEF Puts
  <2>3. InStep'
    BY DEF Prefs, Puts
  <2>4. BuiltIn'
    <3>1. ~early' => ~early /\ form # FormValue
      BY Zenon
    <3>2. \A g \in Handlers : put'[g].v \in {put[g].v, form}
      BY DEF Puts
    <3> QED
      BY <3>1, <3>2
  <2> QED
    BY <2>1, <2>2, <2>3, <2>4
<1>6. ASSUME NEW h \in Handlers, SetSetting(h) PROVE PrefInv'
  BY <1>6 DEF SetSetting, Prefs, Puts
<1>7. ASSUME NEW h \in Handlers, SetSettingFails(h) PROVE PrefInv'
  BY <1>7 DEF SetSettingFails, Prefs, Puts
<1>8. ASSUME NEW h \in Handlers, UpdateConfig(h) PROVE PrefInv'
  <2> USE <1>8 DEF UpdateConfig
  <2>1. PrefType'
    BY DEF Prefs, Puts
  <2>2. Alone'
    BY DEF Puts
  <2>3. InStep'
    BY DEF Prefs, Puts
  <2>4. BuiltIn'
    BY DEF Prefs, Puts
  <2> QED
    BY <2>1, <2>2, <2>3, <2>4
<1>9. CASE PrefStop /\ run' # "up"
  BY <1>9 DEF PrefStop, Prefs, Puts
<1>10. CASE PrefStart /\ run = "down"
  BY <1>10 DEF PrefStart, Prefs
<1>11. CASE UNCHANGED prefVars /\ (run' = run \/ "up" \notin {run, run'})
  BY <1>11 DEF prefVars, Prefs
<1> QED
  BY <1>1, <1>2, <1>3, <1>4, <1>5, <1>6, <1>7, <1>8, <1>9, <1>10, <1>11, PrefView
-----------------------------------------------------------------------------
(* The findings list *)

LEMMA FindView ==
  ASSUME IInv, [Next]_vars
  PROVE  \/ OpenAlerts \/ AskList \/ ServeList \/ ArriveList \/ FailList
         \/ SetStatus \/ Reopen \/ ApplyStatus \/ FailStatus \/ AnswerStatus \/ LoseAnswer
         \/ FindStop
         \/ UNCHANGED findVars
<1>1. CASE \E p \in Pages : Visit(p)
  BY <1>1 DEF Visit
<1>2. CASE Operate
  BY <1>2 DEF Operate
<1>3. CASE FindStep
  BY <1>3 DEF FindStep
<1>4. CASE Stop \/ Exit \/ Kill \/ Start
  BY <1>4 DEF Stop, Exit, Kill, Start
<1>5. CASE UNCHANGED vars
  BY <1>5 DEF vars, findVars
<1> QED
  BY <1>1, <1>2, <1>3, <1>4, <1>5 DEF Next

(* The list is asked for again after every answer, and read after the status was
   changed; new evidence only adds to the version. *)
LEMMA FindStepInv == ASSUME IInv, [Next]_vars PROVE FindInv'
<1> USE ConsoleStateAssumption DEF IInv, FindInv, FindType, Recent, viewVars
<1>1. CASE OpenAlerts
  <2> USE <1>1 DEF OpenAlerts
  <2>0. stray' \in Nat
    OBVIOUS
  <2>1. FindType'
    BY <2>0
  <2>2. asked' # refresh' /\ asked' = None /\ list' = "none" /\ chosen' <= version'
    OBVIOUS
  <2>3. Recent'
    BY <2>2
  <2> QED
    BY <2>1, <2>3
<1>2. CASE AskList
  <2> USE <1>2 DEF AskList
  <2>1. FindType'
    OBVIOUS
  <2>2. asked' <= refresh' /\ list' = "out" /\ chosen' <= version'
    OBVIOUS
  <2>3. Recent'
    BY <2>2
  <2> QED
    BY <2>1, <2>3
<1>3. CASE ServeList
  BY <1>3 DEF ServeList
<1>4. CASE ArriveList
  BY <1>4 DEF ArriveList
<1>5. CASE FailList
  BY <1>5 DEF FailList
<1>6. CASE SetStatus \/ Reopen
  BY <1>6 DEF SetStatus, Reopen
<1>7. CASE ApplyStatus
  BY <1>7 DEF ApplyStatus
<1>8. CASE FailStatus
  BY <1>8 DEF FailStatus
<1>9. CASE AnswerStatus
  BY <1>9 DEF AnswerStatus
<1>10. CASE LoseAnswer
  BY <1>10 DEF LoseAnswer
<1>11. CASE FindStop
  BY <1>11 DEF FindStop
<1>12. CASE UNCHANGED findVars
  BY <1>12 DEF findVars
<1> QED
  BY <1>1, <1>2, <1>3, <1>4, <1>5, <1>6, <1>7, <1>8, <1>9, <1>10, <1>11, <1>12, FindView
-----------------------------------------------------------------------------
(* The analyzer and the artifact panel *)

LEMMA PanelView ==
  ASSUME IInv, [Next]_vars
  PROVE  \/ OpenArtifacts \/ Analyze \/ \E a \in Artifacts : Open(a)
         \/ LoopStep \/ ArtStep
         \/ AnalysisDown \/ AnalysisStart
         \/ UNCHANGED analysisVars
<1>1. CASE \E p \in Pages : Visit(p)
  BY <1>1 DEF Visit
<1>2. CASE Operate
  BY <1>2 DEF Operate
<1>3. CASE Stop \/ Exit \/ Kill \/ Start
  BY <1>3 DEF Stop, Exit, Kill, Start
<1>4. CASE UNCHANGED vars
  BY <1>4 DEF vars, analysisVars
<1> QED
  BY <1>1, <1>2, <1>3, <1>4 DEF Next

LEMMA PanelStepInv == ASSUME IInv, [Next]_vars PROVE PanelInv'
<1> USE AnalysisAssumption DEF IInv, PanelInv, LoopType, OwnPanel, artVars, loopVars
<1>1. CASE OpenArtifacts
  <2>1. posts' \subseteq Posts
    <3>1. \A p \in posts : [a |-> p.a, here |-> FALSE] \in Posts
      BY DEF Posts
    <3> QED
      BY <1>1, <3>1 DEF OpenArtifacts
  <2> QED
    BY <1>1, <2>1 DEF OpenArtifacts
<1>2. CASE Analyze
  <2>1. [a |-> selected, here |-> TRUE] \in Posts
    BY <1>2 DEF Analyze, Posts
  <2>2. posts' \subseteq Posts
    BY <1>2, <2>1 DEF Analyze
  <2> QED
    BY <1>2, <2>2 DEF Analyze
<1>3. ASSUME NEW a \in Artifacts, Open(a) PROVE PanelInv'
  <2>1. [a |-> a, req |-> "preview"] \in Runs
    BY DEF Runs
  <2>2. LoopType'
    BY <1>3, <2>1 DEF Open
  <2>3. ~overlap' => opens = {} /\ \A p \in posts : ~p.here
    BY <1>3, Zenon DEF Open
  <2>4. ~overlap' => \A o \in opens' : o.a = a
    BY <1>3, <2>3 DEF Open
  <2>5. \E o \in opens' : o.req = "preview"
    <3>1. [a |-> a, req |-> "preview"] \in opens'
      BY <1>3 DEF Open
    <3>2. [a |-> a, req |-> "preview"].req = "preview"
      OBVIOUS
    <3> QED
      BY <3>1, <3>2, Zenon
  <2>6. selected' = a /\ analysis' = None /\ posts' = posts
    BY <1>3 DEF Open
  <2>7. OwnPanel'
    BY <2>3, <2>4, <2>5, <2>6
  <2> QED
    BY <2>2, <2>7
<1>4. CASE LoopStep
  <2> USE <1>4
  <2>1. CASE Awake \/ Tick \/ QueryFails \/ CompleteFails \/ Quit
    BY <2>1 DEF Awake, Tick, QueryFails, CompleteFails, Quit
  <2>2. CASE Query
    BY <2>2 DEF Query, Pending
  <2>3. CASE Complete
    BY <2>3 DEF Complete
  <2>4. ASSUME NEW a \in Artifacts, Inspect(a) PROVE PanelInv'
    BY <2>4 DEF Inspect
  <2> QED
    BY <2>1, <2>2, <2>3, <2>4 DEF LoopStep
<1>5. CASE ArtStep
  <2>1. ASSUME NEW o \in opens, PreviewComes(o) PROVE PanelInv'
    BY <2>1 DEF PreviewComes, Runs
  <2>2. ASSUME NEW o \in opens, PreviewFails(o) PROVE PanelInv'
    BY <2>2 DEF PreviewFails, Runs
  <2>3. ASSUME NEW o \in opens, AnalysisComes(o) PROVE PanelInv'
    BY <2>3 DEF AnalysisComes, Runs
  <2>4. ASSUME NEW p \in posts, QueueAnalysis(p) PROVE PanelInv'
    BY <2>4 DEF QueueAnalysis, Posts
  <2>5. ASSUME NEW p \in posts, QueueFails(p) PROVE PanelInv'
    BY <2>5 DEF QueueFails, Posts
  <2> QED
    BY <1>5, <2>1, <2>2, <2>3, <2>4, <2>5 DEF ArtStep
<1>6. CASE AnalysisDown \/ AnalysisStart
  BY <1>6 DEF AnalysisDown, AnalysisStart
<1>7. CASE UNCHANGED analysisVars
  BY <1>7 DEF analysisVars
<1> QED
  BY <1>1, <1>2, <1>3, <1>4, <1>5, <1>6, <1>7, PanelView
-----------------------------------------------------------------------------
LEMMA Invariance == Spec => []IInv
<1>1. IInv /\ [Next]_vars => IInv'
  BY CountersStep, PrefStepInv, FindStepInv, PanelStepInv DEF IInv
<1> QED
  BY <1>1, InitIInv, PTL DEF Spec

(* Type correctness of the console. *)
THEOREM TypeCorrect == Spec => []TypeOK
<1>1. IInv => TypeOK
  BY DEF IInv, Counters, PrefInv, PrefType, Puts, FindInv, FindType, PanelInv, LoopType, TypeOK
<1> QED
  BY <1>1, Invariance, PTL

(* The running engine has the preferences and the secret that a restart would
   load, through failing writes, stops and kills, and the form's built-in values
   are saved by an early save only (alertPreferences, UpdateConfig,
   controllerCmd, SettingsPage). *)
THEOREM PreferencesSurvive == Spec => []PreferencesKept
<1>1. IInv => PreferencesKept
  BY DEF IInv, PrefInv, Alone, InStep, BuiltIn, Busy, Current, PreferencesKept
<1> QED
  BY <1>1, Invariance, PTL

(* The findings list is at least as recent as the operator's last status change
   on the page, unless an answer was lost (AlertsPage, useData). *)
THEOREM ListShowsChoice == Spec => []ViewCurrent
<1>1. IInv => ViewCurrent
  BY DEF IInv, FindInv, Recent, ViewCurrent
<1> QED
  BY <1>1, Invariance, PTL

(* The artifact panel is about the selected artifact, unless it was opened while
   requests for another were out (open and analyze of ArtifactsPage). *)
THEOREM PanelOwnsArtifact == Spec => []PanelMatches
<1>1. IInv => PanelMatches
  BY DEF IInv, PanelInv, OwnPanel, PanelMatches
<1> QED
  BY <1>1, Invariance, PTL
=============================================================================
