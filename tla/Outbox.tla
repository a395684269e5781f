-------------------------------- MODULE Outbox --------------------------------
(***************************************************************************)
(* The webhook outbox: the alert_deliveries table (store/investigation.go) *)
(* and the goroutine AlertEngine.deliver that empties it                   *)
(* (controller/alerts.go).  A row is written by raise, which then wakes    *)
(* the loop through a one-slot channel; the loop also wakes every 5 s.  It *)
(* loads due rows in batches, POSTs each and marks the row afterwards, so  *)
(* a controller that stops in between POSTs again: at-least-once.          *)
(*                                                                         *)
(* Times are abstracted to whether next_attempt has come; the mark uses    *)
(* context.Background, everything else the context that shutdown cancels.  *)
(***************************************************************************)
EXTENDS Naturals, FiniteSets, FiniteSetsExt

CONSTANTS Deliveries,    \* rows, one per alert and endpoint
          MaxAttempts,   \* 8 in deliverOne
          BatchSize,     \* 20 in deliverDue
          MaxManual,     \* bound on manual retries, of all rows together
          None

ASSUME OutboxAssumption ==
    /\ MaxAttempts \in Nat \ {0} /\ BatchSize \in Nat \ {0} /\ MaxManual \in Nat
    /\ None \notin Deliveries

VARIABLES
    status,     \* alert_deliveries.status; "none" without a row
    attempts,   \* alert_deliveries.attempts
    due,        \* rows whose next_attempt has come
    wake,       \* the channel a.wake holds a token
    waking,     \* callers between their transaction and WakeDeliveries
    run,        \* the controller: running, stopping (ctx cancelled), down
    dpc,        \* where the deliver goroutine is
    items,      \* rows of the batch still to be sent
    seen,       \* per row, the attempts it was loaded with
    item,       \* the row being sent
    accepted,   \* history: rows for which the endpoint answered 2xx
    manual,     \* history: per row, manual retries
    calm        \* for the liveness property: nothing fails from now on

rowVars  == <<status, attempts, due>>
loopVars == <<dpc, items, seen, item>>
history  == <<accepted, manual>>
vars == <<status, attempts, due, wake, waking, run, dpc, items, seen, item,
          accepted, manual, calm>>

(* Mutant: the query forgets rows that are being retried. *)
OpenPending == {d \in Deliveries : status[d] = "pending"}

Open == {d \in Deliveries : status[d] \in {"pending", "retrying"}}

TypeOK ==
    /\ status \in [Deliveries -> {"none", "pending", "retrying", "delivered",
                                  "failed", "pruned"}]
    /\ attempts \in [Deliveries -> Nat]
    /\ due \subseteq Deliveries
    /\ wake \in BOOLEAN /\ calm \in BOOLEAN
    /\ waking \subseteq Deliveries
    /\ run \in {"running", "stopping", "down"}
    /\ dpc \in {"select", "load", "next", "complete", "retry", "gone"}
    /\ items \subseteq Deliveries
    /\ seen \in [Deliveries -> Nat]
    /\ item \in Deliveries \cup {None}
    /\ item # None <=> dpc \in {"complete", "retry"}
    /\ items # {} => dpc \in {"next", "complete", "retry"}
    /\ accepted \subseteq Deliveries
    /\ manual \in [Deliveries -> Nat]

Init ==
    /\ status = [d \in Deliveries |-> "none"]
    /\ attempts = [d \in Deliveries |-> 0]
    /\ due = {} /\ wake = TRUE /\ waking = {} /\ run = "running"
    /\ dpc = "select" /\ items = {} /\ item = None
    /\ seen = [d \in Deliveries |-> 0]
    /\ accepted = {} /\ calm = FALSE
    /\ manual = [d \in Deliveries |-> 0]
-------------------------------------------------------------------------------
(* EnqueueAlertDeliveries, committed; raise has yet to call WakeDeliveries. *)
Enqueue(d) ==
    /\ run # "down" /\ status[d] = "none"
    /\ status' = [status EXCEPT ![d] = "pending"]
    /\ due' = due \cup {d}
    /\ waking' = waking \cup {d}
    /\ UNCHANGED <<attempts, wake, run, loopVars, history, calm>>

(* The bound on manual retries. *)
ManualLeft == MapThenSumSet(LAMBDA d : manual[d], Deliveries) < MaxManual

(* Mutant: any row can be requeued. *)
RetryAny(d) ==
    /\ run # "down" /\ status[d] \in {"failed", "retrying", "delivered"}
    /\ ManualLeft
    /\ status' = [status EXCEPT ![d] = "pending"]
    /\ due' = due \cup {d}
    /\ manual' = [manual EXCEPT ![d] = @ + 1]
    /\ waking' = waking \cup {d}
    /\ UNCHANGED <<attempts, wake, run, loopVars, accepted, calm>>

(* RetryAlertDeliveryNow takes a failed row only; attempts stay as they are. *)
RetryNow(d) ==
    /\ run # "down" /\ status[d] = "failed"
    /\ ManualLeft
    /\ status' = [status EXCEPT ![d] = "pending"]
    /\ due' = due \cup {d}
    /\ manual' = [manual EXCEPT ![d] = @ + 1]
    /\ waking' = waking \cup {d}
    /\ UNCHANGED <<attempts, wake, run, loopVars, accepted, calm>>

(* WakeDeliveries: a send that does not block. *)
Wake(d) ==
    /\ d \in waking
    /\ wake' = TRUE
    /\ waking' = waking \ {d}
    /\ UNCHANGED <<rowVars, run, loopVars, history, calm>>

(* next_attempt of a row passes. *)
TimePasses(d) ==
    /\ d \in Open \ due
    /\ due' = due \cup {d}
    /\ UNCHANGED <<status, attempts, wake, waking, run, loopVars, history, calm>>

(* Retention deletes the alert's event; the row goes with it (ON DELETE CASCADE). *)
Prune(d) ==
    /\ ~calm /\ status[d] # "none"
    /\ status' = [status EXCEPT ![d] = "pruned"]
    /\ due' = due \ {d}
    /\ UNCHANGED <<attempts, wake, waking, run, loopVars, history, calm>>
-------------------------------------------------------------------------------
(* The select of deliver: a token, the ticker, or the end of the context. *)
Woken ==
    /\ dpc = "select" /\ wake
    /\ wake' = FALSE
    /\ dpc' = "load"
    /\ UNCHANGED <<rowVars, waking, run, items, seen, item, history, calm>>

Ticker ==
    /\ dpc = "select"
    /\ dpc' = "load"
    /\ UNCHANGED <<rowVars, wake, waking, run, items, seen, item, history, calm>>

Done ==
    /\ dpc = "select" /\ run = "stopping"
    /\ dpc' = "gone"
    /\ UNCHANGED <<rowVars, wake, waking, run, items, seen, item, history, calm>>

(* DueAlertDeliveries: up to BatchSize open rows that are due. *)
Batches ==
    LET ready == Open \cap due
    IN  {b \in SUBSET ready : \/ b = ready /\ Cardinality(b) <= BatchSize
                              \/ Cardinality(b) = BatchSize}

Load ==
    /\ dpc = "load" /\ run = "running"
    /\ \E b \in Batches :
          /\ items' = b
          /\ seen' = [d \in Deliveries |-> IF d \in b THEN attempts[d] ELSE 0]
          /\ dpc' = IF b = {} THEN "select" ELSE "next"
    /\ UNCHANGED <<rowVars, wake, waking, run, item, history, calm>>

(* The query fails, as it does once the context is cancelled. *)
LoadError ==
    /\ dpc = "load" /\ (~calm \/ run = "stopping")
    /\ dpc' = "select"
    /\ UNCHANGED <<rowVars, wake, waking, run, items, seen, item, history, calm>>

(* deliverOne POSTs the next item.  A 2xx answer goes to CompleteAlertDelivery. *)
PostAccepted(d) ==
    /\ dpc = "next" /\ d \in items /\ run = "running"
    /\ item' = d /\ items' = items \ {d}
    /\ accepted' = accepted \cup {d}
    /\ dpc' = "complete"
    /\ UNCHANGED <<rowVars, wake, waking, run, seen, manual, calm>>

(* Mutant: the status code is not looked at. *)
PostAnswered(d) ==
    /\ dpc = "next" /\ d \in items /\ run = "running"
    /\ item' = d /\ items' = items \ {d}
    /\ dpc' = "complete"
    /\ UNCHANGED <<rowVars, wake, waking, run, seen, history, calm>>

(* The endpoint answers otherwise, not at all, or its answer is lost. *)
PostRefused(d) ==
    /\ dpc = "next" /\ d \in items /\ run = "running"
    /\ item' = d /\ items' = items \ {d}
    /\ dpc' = "retry"
    /\ UNCHANGED <<rowVars, wake, waking, run, seen, accepted, manual, calm>>

(* The context is cancelled: client.Do fails without the endpoint. *)
PostCancelled(d) ==
    /\ dpc = "next" /\ d \in items /\ run = "stopping"
    /\ item' = d /\ items' = items \ {d}
    /\ dpc' = "retry"
    /\ UNCHANGED <<rowVars, wake, waking, run, seen, history, calm>>

(* After an item the loop takes the next one, after a batch it loads again. *)
Marked ==
    /\ item' = None
    /\ dpc' = IF items = {} THEN "load" ELSE "next"
    /\ UNCHANGED <<wake, waking, run, items, seen, history, calm>>

Exists(d) == status[d] # "pruned"

(* CompleteAlertDelivery: an UPDATE by id, whatever the row's status. *)
Complete ==
    /\ dpc = "complete"
    /\ status' = [status EXCEPT ![item] = IF Exists(item) THEN "delivered" ELSE @]
    /\ attempts' = [attempts EXCEPT ![item] = IF Exists(item) THEN @ + 1 ELSE @]
    /\ UNCHANGED due
    /\ Marked

(* Mutant: off by one. *)
TerminalLate(d) == seen[d] >= MaxAttempts

(* RetryAlertDelivery: later, or never once the attempts are used up. *)
Terminal(d) == seen[d] + 1 >= MaxAttempts

Retry ==
    /\ dpc = "retry"
    /\ status' = [status EXCEPT ![item] =
                     IF ~Exists(item) THEN @
                     ELSE IF Terminal(item) THEN "failed" ELSE "retrying"]
    /\ attempts' = [attempts EXCEPT ![item] = IF Exists(item) THEN @ + 1 ELSE @]
    /\ due' = due \ {item}
    /\ Marked

(* The mark fails and is logged: the row is as it was, still due. *)
MarkError ==
    /\ ~calm /\ dpc \in {"complete", "retry"}
    /\ UNCHANGED rowVars
    /\ Marked
-------------------------------------------------------------------------------
(* SIGTERM cancels the context; the process ends at some later time. *)
Shutdown ==
    /\ ~calm /\ run = "running"
    /\ run' = "stopping"
    /\ UNCHANGED <<rowVars, wake, waking, loopVars, history, calm>>

(* The process ends, between any two steps. *)
Exit ==
    /\ run = "stopping" \/ (run = "running" /\ ~calm)
    /\ run' = "down"
    /\ wake' = FALSE /\ waking' = {}
    /\ dpc' = "gone" /\ items' = {} /\ item' = None
    /\ seen' = [d \in Deliveries |-> 0]
    /\ UNCHANGED <<rowVars, history, calm>>

(* NewAlertEngine starts the loop and wakes it. *)
Start ==
    /\ run = "down"
    /\ run' = "running"
    /\ wake' = TRUE
    /\ dpc' = "select"
    /\ UNCHANGED <<rowVars, waking, items, seen, item, history, calm>>

(* The database recovers and the operator leaves the controller running. *)
Settle ==
    /\ calm' = TRUE
    /\ UNCHANGED <<rowVars, wake, waking, run, loopVars, history>>

LoopStep ==
    \/ Woken \/ Load \/ LoadError \/ Complete \/ Retry
    \/ \E d \in Deliveries : PostAccepted(d) \/ PostRefused(d) \/ PostCancelled(d)

Next ==
    \/ \E d \in Deliveries : Enqueue(d) \/ RetryNow(d) \/ Wake(d) \/ TimePasses(d) \/ Prune(d)
    \/ LoopStep
    \/ Ticker \/ Done \/ MarkError \/ Shutdown \/ Exit \/ Start \/ Settle

Spec == Init /\ [][Next]_vars

(* The loop runs, time passes, a stopping process exits and is started again,
   and from some time on the store works. *)
Fairness ==
    /\ WF_vars(LoopStep) /\ WF_vars(Ticker)
    /\ \A d \in Deliveries : WF_vars(TimePasses(d))
    /\ WF_vars(run = "stopping" /\ Exit) /\ WF_vars(Start) /\ WF_vars(Settle)

FairSpec == Spec /\ Fairness
-------------------------------------------------------------------------------
(* A delivery shown as delivered was accepted by its endpoint, through lost
   marks, restarts and manual retries (alerts.go 284-287). *)
DeliveredWasAccepted ==
    \A d \in Deliveries : status[d] = "delivered" => d \in accepted

(* Retries are bounded: the automatic attempts end at the limit and each
   manual retry buys one more, although the decision is taken on the count
   the row was loaded with (alerts.go 293-301, investigation.go 470-495). *)
AttemptsBounded ==
    \A d \in Deliveries :
        /\ attempts[d] <= MaxAttempts + manual[d]
        /\ status[d] = "retrying" => attempts[d] < MaxAttempts

(* A delivery that reached its end stays there, except that an operator may
   requeue a failed one: no late or repeated mark takes it back. *)
EndsAreFinal ==
    [][\A d \in Deliveries :
          /\ status[d] = "delivered" => status'[d] \in {"delivered", "pruned"}
          /\ status[d] = "failed" =>
                status'[d] \in {"failed", "pruned"} \/ manual'[d] > manual[d]]_vars

(* Every queued alert ends up delivered, visibly failed, or pruned. *)
EventuallySettled ==
    \A d \in Deliveries :
        status[d] = "pending" ~> status[d] \in {"delivered", "failed", "pruned"}

===============================================================================
