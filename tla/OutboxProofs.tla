----------------------------- MODULE OutboxProofs -----------------------------
(***************************************************************************)
(* Proofs about Outbox, for any number of deliveries, any limit of         *)
(* attempts and any batch size.  A mark is an UPDATE by id with a decision *)
(* taken on the attempts the row was loaded with, so everything depends on *)
(* a row not changing between Load and its mark except by being pruned.    *)
(***************************************************************************)
EXTENDS Outbox, TLAPS

(* The rows the loop has loaded and not yet marked. *)
Loaded == items \cup ({item} \ {None})

(* A loaded row is still open, unless retention took it, and has the number of
   attempts it was loaded with. *)
LoadedOpen ==
    /\ item \notin items
    /\ \A d \in Loaded :
          /\ status[d] \in {"pending", "retrying", "pruned"}
          /\ seen[d] = attempts[d]

(* An open row has an attempt left. *)
AttemptLeft ==
    \A d \in Deliveries :
        /\ status[d] = "none" => attempts[d] = 0
        /\ status[d] = "pending" => attempts[d] < MaxAttempts + manual[d]

(* A row about to be marked delivered was accepted. *)
CompleteAccepted == dpc = "complete" => item \in accepted

(* No loop without a process. *)
DownGone == run = "down" => dpc = "gone"

IInv ==
    /\ TypeOK /\ LoadedOpen /\ AttemptLeft /\ CompleteAccepted /\ DownGone
    /\ AttemptsBounded /\ DeliveredWasAccepted
-------------------------------------------------------------------------------
LEMMA InitIInv == Init => IInv
<1> SUFFICES ASSUME Init PROVE IInv
  OBVIOUS
<1> USE OutboxAssumption DEF Init
<1>1. TypeOK
  BY DEF TypeOK
<1>2. LoadedOpen /\ CompleteAccepted /\ DownGone
  BY DEF LoadedOpen, Loaded, CompleteAccepted, DownGone
<1>3. AttemptLeft /\ AttemptsBounded /\ DeliveredWasAccepted
  BY DEF AttemptLeft, AttemptsBounded, DeliveredWasAccepted
<1> QED
  BY <1>1, <1>2, <1>3 DEF IInv

(* A step of Next, split into its actions. *)
LEMMA Actions ==
  ASSUME Next
  PROVE  \/ \E d \in Deliveries :
               \/ Enqueue(d) \/ RetryNow(d) \/ Wake(d) \/ TimePasses(d) \/ Prune(d)
               \/ PostAccepted(d) \/ PostRefused(d) \/ PostCancelled(d)
         \/ Woken \/ Ticker \/ Done \/ Load \/ LoadError
         \/ Complete \/ Retry \/ MarkError
         \/ Shutdown \/ Exit \/ Start \/ Settle
BY DEF Next, LoopStep

LEMMA TypeStep ==
  ASSUME TypeOK, DownGone, [Next]_vars
  PROVE  TypeOK'
<1> USE OutboxAssumption DEF TypeOK, rowVars, loopVars, history
<1>1. ASSUME NEW d \in Deliveries, Enqueue(d) PROVE TypeOK'
  BY <1>1 DEF Enqueue
<1>2. ASSUME NEW d \in Deliveries, RetryNow(d) PROVE TypeOK'
  BY <1>2 DEF RetryNow
<1>3. ASSUME NEW d \in Deliveries, Wake(d) PROVE TypeOK'
  BY <1>3 DEF Wake
<1>4. ASSUME NEW d \in Deliveries, TimePasses(d) PROVE TypeOK'
  BY <1>4 DEF TimePasses
<1>5. ASSUME NEW d \in Deliveries, Prune(d) PROVE TypeOK'
  BY <1>5 DEF Prune
<1>6. ASSUME NEW d \in Deliveries, PostAccepted(d) PROVE TypeOK'
  BY <1>6 DEF PostAccepted
<1>7. ASSUME NEW d \in Deliveries, PostRefused(d) PROVE TypeOK'
  BY <1>7 DEF PostRefused
<1>8. ASSUME NEW d \in Deliveries, PostCancelled(d) PROVE TypeOK'
  BY <1>8 DEF PostCancelled
<1>9. CASE Woken \/ Ticker \/ Done
  BY <1>9 DEF Woken, Ticker, Done
<1>10. CASE Load
  <2>1. PICK b \in SUBSET Deliveries :
           /\ items' = b
           /\ seen' = [d \in Deliveries |-> IF d \in b THEN attempts[d] ELSE 0]
           /\ dpc' = IF b = {} THEN "select" ELSE "next"
    BY <1>10 DEF Load, Batches, Open
  <2> QED
    BY <1>10, <2>1 DEF Load
<1>11. CASE LoadError
  BY <1>11 DEF LoadError
<1>12. CASE Complete
  BY <1>12 DEF Complete, Marked
<1>13. CASE Retry
  BY <1>13 DEF Retry, Marked
<1>14. CASE MarkError
  BY <1>14 DEF MarkError, Marked
<1>15. CASE Shutdown
  BY <1>15 DEF Shutdown
<1>16. CASE Exit
  BY <1>16 DEF Exit
<1>17. CASE Start
  BY <1>17 DEF Start, DownGone
<1>18. CASE Settle
  BY <1>18 DEF Settle
<1>19. CASE UNCHANGED vars
  BY <1>19 DEF vars
<1> QED
  BY <1>1, <1>2, <1>3, <1>4, <1>5, <1>6, <1>7, <1>8, <1>9, <1>10, <1>11, <1>12,
     <1>13, <1>14, <1>15, <1>16, <1>17, <1>18, <1>19, Actions

(* The loop's own state: what is loaded stays open, and only what was accepted
   is marked delivered. *)
LEMMA LoopInvStep ==
  ASSUME IInv, [Next]_vars
  PROVE  LoadedOpen' /\ CompleteAccepted' /\ DownGone'
<1> DEFINE P == LoadedOpen /\ CompleteAccepted /\ DownGone
<1> SUFFICES P'
  OBVIOUS
<1> USE OutboxAssumption DEF IInv, TypeOK, LoadedOpen, Loaded, CompleteAccepted, DownGone,
      rowVars, loopVars, history
<1>1. ASSUME NEW d \in Deliveries, Enqueue(d) PROVE P'
  BY <1>1 DEF Enqueue
<1>2. ASSUME NEW d \in Deliveries, RetryNow(d) PROVE P'
  BY <1>2 DEF RetryNow
<1>3. ASSUME NEW d \in Deliveries, Wake(d) \/ TimePasses(d) PROVE P'
  BY <1>3 DEF Wake, TimePasses
<1>4. ASSUME NEW d \in Deliveries, Prune(d) PROVE P'
  BY <1>4 DEF Prune
<1>5. ASSUME NEW d \in Deliveries, PostAccepted(d) PROVE P'
  BY <1>5 DEF PostAccepted
<1>6. ASSUME NEW d \in Deliveries, PostRefused(d) \/ PostCancelled(d) PROVE P'
  BY <1>6 DEF PostRefused, PostCancelled
<1>7. CASE Woken \/ Ticker \/ Done \/ LoadError
  BY <1>7 DEF Woken, Ticker, Done, LoadError
<1>8. CASE Load
  <2>1. PICK b \in SUBSET Open :
           /\ items' = b
           /\ seen' = [d \in Deliveries |-> IF d \in b THEN attempts[d] ELSE 0]
           /\ dpc' = IF b = {} THEN "select" ELSE "next"
    BY <1>8 DEF Load, Batches
  <2> QED
    BY <1>8, <2>1 DEF Load, Open
<1>9. CASE Complete
  BY <1>9 DEF Complete, Marked
<1>10. CASE Retry
  BY <1>10 DEF Retry, Marked
<1>11. CASE MarkError
  BY <1>11 DEF MarkError, Marked
<1>12. CASE Shutdown \/ Settle
  BY <1>12 DEF Shutdown, Settle
<1>13. CASE Exit
  BY <1>13 DEF Exit
<1>14. CASE Start
  BY <1>14 DEF Start
<1>15. CASE UNCHANGED vars
  BY <1>15 DEF vars
<1> QED
  BY <1>1, <1>2, <1>3, <1>4, <1>5, <1>6, <1>7, <1>8, <1>9, <1>10, <1>11, <1>12,
     <1>13, <1>14, <1>15, Actions

(* The rows: an open one has an attempt left, a delivered one was accepted. *)
LEMMA RowsStep ==
  ASSUME IInv, [Next]_vars
  PROVE  AttemptLeft' /\ AttemptsBounded' /\ DeliveredWasAccepted'
<1> DEFINE P == AttemptLeft /\ AttemptsBounded /\ DeliveredWasAccepted
<1> SUFFICES P'
  OBVIOUS
<1> USE OutboxAssumption DEF IInv, TypeOK, AttemptLeft, AttemptsBounded, DeliveredWasAccepted,
      rowVars, loopVars, history
<1>1. ASSUME NEW d \in Deliveries, Enqueue(d) PROVE P'
  BY <1>1 DEF Enqueue
<1>2. ASSUME NEW d \in Deliveries, RetryNow(d) PROVE P'
  BY <1>2 DEF RetryNow
<1>3. ASSUME NEW d \in Deliveries, Prune(d) PROVE P'
  BY <1>3 DEF Prune
<1>4. ASSUME NEW d \in Deliveries, PostAccepted(d) PROVE P'
  BY <1>4 DEF PostAccepted
<1>5. CASE Complete
  <2>1. item \in Deliveries /\ item \in accepted
    BY <1>5 DEF Complete, CompleteAccepted
  <2>2. status[item] \in {"pending", "retrying", "pruned"}
    BY <1>5, <2>1 DEF LoadedOpen, Loaded
  <2> QED
    BY <1>5, <2>1, <2>2 DEF Complete, Marked, Exists
<1>6. CASE Retry
  <2>1. item \in Deliveries
    BY <1>6 DEF Retry
  <2>2. status[item] \in {"pending", "retrying", "pruned"} /\ seen[item] = attempts[item]
    BY <1>6, <2>1 DEF LoadedOpen, Loaded
  <2> QED
    BY <1>6, <2>1, <2>2 DEF Retry, Marked, Exists, Terminal
<1>7. CASE UNCHANGED <<status, attempts, accepted, manual>>
  BY <1>7
<1>8. \/ \E d \in Deliveries : Enqueue(d) \/ RetryNow(d) \/ Prune(d) \/ PostAccepted(d)
      \/ Complete \/ Retry
      \/ UNCHANGED <<status, attempts, accepted, manual>>
  BY Actions DEF vars, Wake, TimePasses, PostRefused, PostCancelled, Woken, Ticker, Done,
     Load, LoadError, MarkError, Marked, Shutdown, Exit, Start, Settle
<1> QED
  BY <1>1, <1>2, <1>3, <1>4, <1>5, <1>6, <1>7, <1>8

LEMMA Invariance == Spec => []IInv
<1>1. IInv /\ [Next]_vars => IInv'
  <2> SUFFICES ASSUME IInv, [Next]_vars PROVE IInv'
    OBVIOUS
  <2>1. TypeOK'
    BY TypeStep DEF IInv
  <2> QED
    BY <2>1, LoopInvStep, RowsStep DEF IInv
<1> QED
  BY <1>1, InitIInv, PTL DEF Spec
-------------------------------------------------------------------------------
(* The rows, the channel and the loop keep their types: the deliver goroutine
   has an item in hand exactly while it marks one, a batch only while it works
   on it. *)
THEOREM TypeCorrect == Spec => []TypeOK
  BY Invariance, PTL DEF IInv

(* A row marked delivered was answered 2xx by its endpoint, for any number of
   rows and any crash, failed mark or manual retry (alerts.go 284-287). *)
THEOREM MarksTruthful == Spec => []DeliveredWasAccepted
  BY Invariance, PTL DEF IInv

(* Attempts never exceed the limit and the manual retries, although deliverOne
   decides on the count the row was loaded with (alerts.go 293-301). *)
THEOREM RetriesBounded == Spec => []AttemptsBounded
  BY Invariance, PTL DEF IInv

(* No late or repeated mark takes a delivered row back, and only an operator
   requeues a failed one: a mark only ever finds its row open or pruned. *)
THEOREM Finality == Spec => EndsAreFinal
<1> DEFINE A == \A d \in Deliveries :
          /\ status[d] = "delivered" => status'[d] \in {"delivered", "pruned"}
          /\ status[d] = "failed" =>
                status'[d] \in {"failed", "pruned"} \/ manual'[d] > manual[d]
<1>1. IInv /\ [Next]_vars => [A]_vars
  <2> SUFFICES ASSUME IInv, [Next]_vars PROVE A
    OBVIOUS
  <2> USE OutboxAssumption DEF IInv, TypeOK, rowVars, loopVars, history
  <2>1. ASSUME NEW d \in Deliveries, Enqueue(d) PROVE A
    BY <2>1 DEF Enqueue
  <2>2. ASSUME NEW d \in Deliveries, RetryNow(d) PROVE A
    BY <2>2 DEF RetryNow
  <2>3. ASSUME NEW d \in Deliveries, Prune(d) PROVE A
    BY <2>3 DEF Prune
  <2>4. CASE Complete
    <3>1. item \in Deliveries /\ status[item] \in {"pending", "retrying", "pruned"}
      BY <2>4 DEF Complete, LoadedOpen, Loaded
    <3> QED
      BY <2>4, <3>1 DEF Complete, Exists
  <2>5. CASE Retry
    <3>1. item \in Deliveries /\ status[item] \in {"pending", "retrying", "pruned"}
      BY <2>5 DEF Retry, LoadedOpen, Loaded
    <3> QED
      BY <2>5, <3>1 DEF Retry, Exists
  <2>6. CASE UNCHANGED status
    BY <2>6
  <2>7. \/ \E d \in Deliveries : Enqueue(d) \/ RetryNow(d) \/ Prune(d)
        \/ Complete \/ Retry \/ UNCHANGED status
    BY Actions DEF vars, Wake, TimePasses, PostAccepted, PostRefused, PostCancelled, Woken,
       Ticker, Done, Load, LoadError, MarkError, Marked, Shutdown, Exit, Start, Settle
  <2> QED
    BY <2>1, <2>2, <2>3, <2>4, <2>5, <2>6, <2>7
<1> QED
  BY <1>1, Invariance, PTL DEF Spec, EndsAreFinal
===============================================================================
