------------------------------- MODULE Findings -------------------------------
(***************************************************************************)
(* From a stored event to a queued alert: AlertEngine.Process,             *)
(* recordFinding and raise (controller/alerts.go) over the transactions    *)
(* UpsertFinding, ReserveFindingAlert and EnqueueAlertDeliveries           *)
(* (store/investigation.go).                                               *)
(*                                                                         *)
(* Process runs inside the stream handler, before the event is             *)
(* acknowledged (see Ingest), so it runs at least once for every event,    *)
(* again after a crash or a lost answer, and at the same time in a stale   *)
(* handler.  Each store call is one transaction under writeMu; nothing     *)
(* holds the calls of one Process together.  Retention deletes events      *)
(* underneath, and with them their finding_events rows.                    *)
(*                                                                         *)
(* The rules are abstracted to the findings an event can contribute to.    *)
(* Some follow from the event alone; those in Queried ask the store and    *)
(* the clock each time Process runs, so that their outcome is a choice     *)
(* made anew at every evaluation.  So are the operator's preferences and   *)
(* source marks, where Process reads them.  Outbox takes over from         *)
(* Enqueue.                                                                *)
(***************************************************************************)
EXTENDS Naturals, FiniteSets, Sequences

CONSTANTS Events, Facts, Workers,
          Triggers,    \* findings (rule and fingerprint) whose rules look at each event
          Aged,        \* events old enough for retention to delete
          Queried,     \* findings whose rules query the store or the clock
          Cooldown,    \* per finding, its rule's cooldown in clock ticks
          MaxClock,    \* bound on the clock
          MaxGone,     \* bound on the links retention takes from a finding
          Marks,       \* statuses the operators use
          None

ASSUME FindingsAssumption ==
    /\ Triggers \in [Events -> SUBSET Facts]
    /\ Queried \subseteq Facts /\ Aged \subseteq Events
    /\ Cooldown \in [Facts -> Nat] /\ MaxClock \in Nat /\ MaxGone \in Nat
    /\ Marks \subseteq {"open", "acknowledged", "resolved"}
    /\ None \notin Events \cup Facts \cup Nat
    /\ None \notin {"open", "acknowledged", "resolved"}

VARIABLES
    clock,
    stored,      \* events in the database
    pending,     \* events inserted with no acknowledgement seen since
    excuse,      \* history: per finding and event, why there is no link
    gone,        \* history: per finding, how many links retention took
    cut,         \* history: findings whose last reservation a failure cut off
    linked,      \* the finding_events table
    count,       \* findings.event_count
    status,      \* findings.status, None before the row exists
    lastAlert,   \* findings.last_alerted_at
    alerts,      \* history: alert events raised, in the order of insertion
    wpc,         \* per worker, where Process is
    wev,         \* per worker, its event
    todo,        \* per worker, rules still to be evaluated
    wf,          \* per worker, the finding in the hands of recordFinding
    wnow         \* per worker, the time of its reservation

findingVars == <<linked, count, status, lastAlert>>
history     == <<excuse, gone, cut>>
workerVars  == <<wpc, wev, todo, wf, wnow>>
vars == <<clock, stored, pending, excuse, gone, cut, linked, count, status,
          lastAlert, alerts, wpc, wev, todo, wf, wnow>>

(* Nothing was tried yet, or the link is there; the source was ignored or the
   very UpsertFinding failed; the rule's query did not confirm; retention took
   the link. *)
Excuses == {"none", "waived", "declined", "unlinked"}

(* Process goes on without linking event e to the findings of F; a link that is
   there stays. *)
Excused(F, e, why) ==
    [f \in Facts |-> [d \in Events |->
        IF f \in F /\ d = e /\ <<f, d>> \notin linked THEN why ELSE excuse[f][d]]]

TypeOK ==
    /\ clock \in 0..MaxClock
    /\ stored \subseteq Events /\ pending \subseteq Events
    /\ linked \subseteq Facts \X stored
    /\ excuse \in [Facts -> [Events -> Excuses]] /\ gone \in [Facts -> Nat]
    /\ cut \subseteq Facts
    /\ count \in [Facts -> Nat]
    /\ status \in [Facts -> {None, "open", "acknowledged", "resolved"}]
    /\ lastAlert \in [Facts -> Nat \cup {None}]
    /\ alerts \in Seq([fact : Facts, at : Nat, queued : BOOLEAN])
    /\ wpc \in [Workers -> {"idle", "rule", "reserve", "raise", "enqueue"}]
    /\ wev \in [Workers -> Events \cup {None}]
    /\ \A w \in Workers :
          /\ wev[w] = None <=> wpc[w] = "idle"
          /\ wf[w] = None <=> wpc[w] \in {"idle", "rule"}
    /\ todo \in [Workers -> SUBSET Facts]
    /\ wf \in [Workers -> Facts \cup {None}]
    /\ wnow \in [Workers -> Nat]

Init ==
    /\ clock = 0 /\ stored = {} /\ pending = {}
    /\ cut = {} /\ linked = {} /\ alerts = <<>>
    /\ excuse = [f \in Facts |-> [e \in Events |-> "none"]]
    /\ gone = [f \in Facts |-> 0]
    /\ count = [f \in Facts |-> 0]
    /\ status = [f \in Facts |-> None]
    /\ lastAlert = [f \in Facts |-> None]
    /\ wpc = [w \in Workers |-> "idle"]
    /\ wev = [w \in Workers |-> None]
    /\ todo = [w \in Workers |-> {}]
    /\ wf = [w \in Workers |-> None]
    /\ wnow = [w \in Workers |-> 0]
-------------------------------------------------------------------------------
(* Store.Insert by some stream handler, of an event the table does not have:
   new, or sent again after retention deleted it. *)
Store(e) ==
    /\ e \notin stored
    /\ stored' = stored \cup {e}
    /\ pending' = pending \cup {e}
    /\ UNCHANGED <<history, clock, findingVars, alerts, workerVars>>

(* Mutant: the event is acknowledged before the rules have run. *)
BeginAcked(w, e) ==
    /\ wpc[w] = "idle" /\ e \in pending
    /\ wpc' = [wpc EXCEPT ![w] = "rule"]
    /\ wev' = [wev EXCEPT ![w] = e]
    /\ todo' = [todo EXCEPT ![w] = Triggers[e]]
    /\ pending' = pending \ {e}
    /\ UNCHANGED <<history, clock, stored, findingVars, alerts, wf, wnow>>

(* A handler calls Process: the first time, again, or beside another one. *)
Begin(w, e) ==
    /\ wpc[w] = "idle" /\ e \in pending
    /\ wpc' = [wpc EXCEPT ![w] = "rule"]
    /\ wev' = [wev EXCEPT ![w] = e]
    /\ todo' = [todo EXCEPT ![w] = Triggers[e]]
    /\ UNCHANGED <<history, clock, stored, pending, findingVars, alerts, wf, wnow>>

(* The acknowledgement reaches the sensor, or is lost and the sensor sends
   the event again. *)
Answer(e) == \E answered \in {{}, {e}} : pending' = pending \ answered

(* Process returns at once if the operator marked the source ignored. *)
PassOver(w, e) ==
    /\ wpc[w] = "idle" /\ e \in pending
    /\ excuse' = Excused(Triggers[e], e, "waived")
    /\ Answer(e)
    /\ UNCHANGED <<gone, cut, clock, stored, findingVars, alerts, workerVars>>

(* A rule that asks the store or the clock finds nothing, or its query fails:
   Process skips it without a word. *)
Decline(w, f) ==
    /\ wpc[w] = "rule" /\ f \in todo[w] \cap Queried
    /\ todo' = [todo EXCEPT ![w] = @ \ {f}]
    /\ excuse' = Excused({f}, wev[w], "declined")
    /\ UNCHANGED <<gone, cut, clock, stored, pending, findingVars, alerts,
                   wpc, wev, wf, wnow>>

(* UpsertFinding: create or find the finding, link the event, count it if the
   link is new, reopen a resolved finding; recordFinding goes on if that
   changed anything.  The link refers to the event, which must still be there. *)
(* Mutant: the link is not looked at. *)
AddedAlways(w, f) == TRUE

Added(w, f) == <<f, wev[w]>> \notin linked

Changed(w, f) == status[f] = None \/ Added(w, f)

(* Mutant: a resolved finding stays resolved. *)
UpsertQuiet(w, f) ==
    /\ wpc[w] = "rule" /\ f \in todo[w] /\ wev[w] \in stored
    /\ linked' = linked \cup {<<f, wev[w]>>}
    /\ excuse' = [excuse EXCEPT ![f][wev[w]] = "none"]
    /\ count' = [count EXCEPT ![f] = @ + (IF Added(w, f) THEN 1 ELSE 0)]
    /\ status' = [status EXCEPT ![f] = IF @ = None THEN "open" ELSE @]
    /\ todo' = [todo EXCEPT ![w] = @ \ {f}]
    /\ wf' = [wf EXCEPT ![w] = IF Changed(w, f) THEN f ELSE None]
    /\ wpc' = [wpc EXCEPT ![w] = IF Changed(w, f) THEN "reserve" ELSE "rule"]
    /\ UNCHANGED <<gone, cut, clock, stored, pending, lastAlert, alerts, wev, wnow>>

Upsert(w, f) ==
    /\ wpc[w] = "rule" /\ f \in todo[w] /\ wev[w] \in stored
    /\ linked' = linked \cup {<<f, wev[w]>>}
    /\ excuse' = [excuse EXCEPT ![f][wev[w]] = "none"]
    /\ count' = [count EXCEPT ![f] = @ + (IF Added(w, f) THEN 1 ELSE 0)]
    /\ status' = [status EXCEPT ![f] =
                     IF @ = None \/ (@ = "resolved" /\ Added(w, f)) THEN "open" ELSE @]
    /\ todo' = [todo EXCEPT ![w] = @ \ {f}]
    /\ wf' = [wf EXCEPT ![w] = IF Changed(w, f) THEN f ELSE None]
    /\ wpc' = [wpc EXCEPT ![w] = IF Changed(w, f) THEN "reserve" ELSE "rule"]
    /\ UNCHANGED <<gone, cut, clock, stored, pending, lastAlert, alerts, wev, wnow>>

(* Mutant: the cutoff is now and not now - cooldown. *)
CoolNow(f) == lastAlert[f] # None => lastAlert[f] <= clock

Cool(f) == lastAlert[f] # None => lastAlert[f] + Cooldown[f] <= clock

(* ReserveFindingAlert: one UPDATE tests and sets. *)
Reserve(w) ==
    LET f == wf[w] IN
    /\ wpc[w] = "reserve"
    /\ Cool(f)
    /\ lastAlert' = [lastAlert EXCEPT ![f] = clock]
    /\ cut' = cut \ {f}
    /\ wnow' = [wnow EXCEPT ![w] = clock]
    /\ wpc' = [wpc EXCEPT ![w] = "raise"]
    /\ UNCHANGED <<excuse, gone, clock, stored, pending, linked, count, status, alerts,
                   wev, todo, wf>>

(* recordFinding returns to Process. *)
Return(w) ==
    /\ wpc' = [wpc EXCEPT ![w] = "rule"]
    /\ wf' = [wf EXCEPT ![w] = None]
    /\ wnow' = [wnow EXCEPT ![w] = 0]

(* The finding cannot be read back, the rule is switched off, the finding is
   cooling down, or the UPDATE fails: recordFinding returns without an alert. *)
Withhold(w) ==
    /\ wpc[w] = "reserve"
    /\ Return(w)
    /\ UNCHANGED <<history, clock, stored, pending, findingVars, alerts, wev, todo>>

(* Mutant: raise returns before it queues deliveries. *)
RaiseOnly(w) ==
    /\ wpc[w] = "raise"
    /\ alerts' = Append(alerts, [fact |-> wf[w], at |-> wnow[w], queued |-> FALSE])
    /\ Return(w)
    /\ UNCHANGED <<history, clock, stored, pending, findingVars, wev, todo>>

(* raise inserts the alert event and shows it to the live views ... *)
Raise(w) ==
    /\ wpc[w] = "raise"
    /\ alerts' = Append(alerts, [fact |-> wf[w], at |-> wnow[w], queued |-> FALSE])
    /\ wpc' = [wpc EXCEPT ![w] = "enqueue"]
    /\ UNCHANGED <<history, clock, stored, pending, findingVars, wev, todo, wf, wnow>>

(* ... then writes one delivery row per webhook, for its own alert. *)
Own(w, i) ==
    alerts[i] = [fact |-> wf[w], at |-> wnow[w], queued |-> FALSE]

Enqueue(w) ==
    /\ wpc[w] = "enqueue"
    /\ \E i \in DOMAIN alerts :
          /\ Own(w, i)
          /\ alerts' = [alerts EXCEPT ![i] = [fact |-> wf[w], at |-> wnow[w], queued |-> TRUE]]
    /\ Return(w)
    /\ UNCHANGED <<history, clock, stored, pending, findingVars, wev, todo>>

(* Process returns and the event is answered. *)
Finish(w) ==
    /\ wpc[w] = "rule" /\ todo[w] = {}
    /\ Answer(wev[w])
    /\ wpc' = [wpc EXCEPT ![w] = "idle"]
    /\ wev' = [wev EXCEPT ![w] = None]
    /\ UNCHANGED <<history, clock, stored, findingVars, alerts, todo, wf, wnow>>
-------------------------------------------------------------------------------
(* An operator sets a finding's status (UpdateFindingStatus). *)
SetStatus(f, to) ==
    /\ status[f] # None
    /\ status' = [status EXCEPT ![f] = to]
    /\ UNCHANGED <<history, clock, stored, pending, linked, count, lastAlert, alerts,
                   workerVars>>

Tick ==
    /\ clock < MaxClock
    /\ clock' = clock + 1
    /\ UNCHANGED <<history, stored, pending, findingVars, alerts, workerVars>>

(* Retention deletes an event, by age or for the cap; the rows of finding_events
   that refer to it go with it, the findings stay as they are. *)
Prune(e) ==
    /\ e \in stored \cap Aged
    /\ \A f \in Facts : gone[f] < MaxGone
    /\ stored' = stored \ {e}
    /\ linked' = linked \ (Facts \X {e})
    /\ excuse' = [f \in Facts |-> [d \in Events |->
                     IF d = e /\ <<f, d>> \in linked THEN "unlinked" ELSE excuse[f][d]]]
    /\ gone' = [f \in Facts |-> gone[f] + (IF <<f, e>> \in linked THEN 1 ELSE 0)]
    /\ UNCHANGED <<cut, clock, pending, count, status, lastAlert, alerts, workerVars>>

(* Workers that have reserved an alert and not yet queued it. *)
Owing == {w \in Workers : wpc[w] \in {"raise", "enqueue"}}

(* Nobody has reserved an alert for the same finding since. *)
Last(w) == wnow[w] = lastAlert[wf[w]]

(* The controller dies between two transactions and starts again. *)
Crash ==
    /\ \E w \in Workers : wpc[w] # "idle"
    /\ cut' = cut \cup {wf[w] : w \in {v \in Owing : Last(v)}}
    /\ wpc' = [w \in Workers |-> "idle"]
    /\ wev' = [w \in Workers |-> None]
    /\ todo' = [w \in Workers |-> {}]
    /\ wf' = [w \in Workers |-> None]
    /\ wnow' = [w \in Workers |-> 0]
    /\ UNCHANGED <<clock, stored, pending, excuse, gone, findingVars, alerts>>

(* A store call fails: recordFinding or raise logs it and gives up, Process
   goes on with the next rule. *)
UpsertFails(w, f) ==
    /\ wpc[w] = "rule" /\ f \in todo[w]
    /\ todo' = [todo EXCEPT ![w] = @ \ {f}]
    /\ excuse' = Excused({f}, wev[w], "waived")
    /\ UNCHANGED <<clock, stored, pending, gone, cut, findingVars, alerts,
                   wpc, wev, wf, wnow>>

RaiseFails(w) ==
    /\ w \in Owing
    /\ Return(w)
    /\ cut' = cut \cup (IF Last(w) THEN {wf[w]} ELSE {})
    /\ UNCHANGED <<clock, stored, pending, excuse, gone, findingVars, alerts, todo, wev>>

WorkerStep(w) ==
    \/ \E e \in Events : Begin(w, e) \/ PassOver(w, e)
    \/ \E f \in Facts : Decline(w, f) \/ Upsert(w, f)
    \/ Reserve(w) \/ Withhold(w) \/ Raise(w) \/ Enqueue(w) \/ Finish(w)

Next ==
    \/ \E e \in Events : Store(e) \/ Prune(e)
    \/ \E w \in Workers : WorkerStep(w) \/ RaiseFails(w)
    \/ \E w \in Workers, f \in Facts : UpsertFails(w, f)
    \/ \E f \in Facts, to \in Marks : SetStatus(f, to)
    \/ Tick \/ Crash

Spec == Init /\ [][Next]_vars
-------------------------------------------------------------------------------
(* event_count differs from the rows of finding_events by exactly the rows that
   retention took with their events, however often replay runs the rules over
   one event and whoever else is running them at the time: an event counts once
   for each time it was linked, so one that retention deleted and a sensor sent
   again counts twice (investigation.go 230-236, store.go 104). *)
CountExact ==
    \A f \in Facts :
        count[f] = Cardinality({e \in Events : <<f, e>> \in linked}) + gone[f]

(* Two alerts for one finding are at least a cooldown apart, whatever workers
   race for the reservation (investigation.go 341-352). *)
Apart(f, a, b) == a + Cooldown[f] <= b \/ b + Cooldown[f] <= a

CooldownKept ==
    \A i, j \in DOMAIN alerts :
        (i # j /\ alerts[i].fact = alerts[j].fact)
            => Apart(alerts[i].fact, alerts[i].at, alerts[j].at)

(* An event in the table and acknowledged since it was inserted has been put
   under every finding whose rule follows from the event, unless its source was
   ignored, the very UpsertFinding failed, or retention took the row away again:
   a crash in the middle of Process leaves it pending, so that replay completes
   it, and a failure under one finding takes no other with it (server.go 69-77).
   A rule that queries the store was at least asked once; what it answered then
   decides, and a replay may be answered differently (alerts.go 133-163). *)
Treated(f, e) ==
    \/ <<f, e>> \in linked
    \/ excuse[f][e] \in {"waived", "unlinked"}
    \/ excuse[f][e] = "declined" /\ f \in Queried

RulesApplied == \A e \in stored \ pending : \A f \in Triggers[e] : Treated(f, e)

(* New evidence never stays under a resolved finding, and evidence that is only
   replayed never reopens one behind the operator's back: a handler leaves the
   status alone unless it links an event that was not linked.  An event retention
   deleted is new when it comes again (investigation.go 235-236). *)
ReopenedByEvidence ==
    [][\A f \in Facts :
          /\ count'[f] > count[f] => status'[f] # "resolved"
          /\ (wpc' # wpc /\ count'[f] = count[f]) => status'[f] = status[f]]_vars

(* A finding's cooldown never runs without an alert to show for it: the last
   reservation is queued for delivery, still with the worker that made it, or
   was cut off by a crash or a failed call right there (alerts.go 189-231). *)
Queued(f) ==
    \E i \in DOMAIN alerts : alerts[i] = [fact |-> f, at |-> lastAlert[f], queued |-> TRUE]

ReservedAccounted ==
    \A f \in Facts : lastAlert[f] # None =>
        \/ Queued(f)
        \/ \E w \in Owing : wf[w] = f /\ wnow[w] = lastAlert[f]
        \/ f \in cut

(* Every reserved alert reaches the outbox: once Process has returned
   everywhere, a finding that used up its cooldown has a queued alert to show
   for it ("Webhook Alerts will use signed, durable, at-least-once
   delivery ... and restart-safe queues", docs/adr/0002). *)
ReservedIsQueued ==
    (\A w \in Workers : wpc[w] = "idle") =>
        \A f \in Facts : lastAlert[f] # None => Queued(f)
===============================================================================
