---------------------------- MODULE FindingsProofs ----------------------------
(***************************************************************************)
(* Proofs about Findings, for any events, findings, workers, cooldowns and *)
(* rules: whichever workers evaluate the same events at the same time,     *)
(* whatever the rules' queries answer, whatever retention deletes, and     *)
(* wherever a crash or a failing call cuts them off.                       *)
(***************************************************************************)
EXTENDS Findings, FiniteSetTheorems, TLAPS

(* What a worker in Process has achieved for its event: the rest is still to
   be evaluated. *)
Progress ==
    \A w \in Workers : wpc[w] # "idle" =>
        \A f \in Triggers[wev[w]] : f \in todo[w] \/ Treated(f, wev[w])

(* Reservations, raised already or still with a worker, are a cooldown apart
   and none is later than the finding's last. *)
Raising(w, f) == wpc[w] = "raise" /\ wf[w] = f

Recent(f, at) == lastAlert[f] # None /\ at <= lastAlert[f]

Spaced ==
    /\ \A f \in Facts : lastAlert[f] # None => lastAlert[f] <= clock
    /\ \A i \in DOMAIN alerts : Recent(alerts[i].fact, alerts[i].at)
    /\ \A w \in Workers, f \in Facts : Raising(w, f) =>
          /\ Recent(f, wnow[w])
          /\ \A i \in DOMAIN alerts : alerts[i].fact = f => Apart(f, wnow[w], alerts[i].at)
          /\ \A v \in Workers : (v # w /\ Raising(v, f)) => Apart(f, wnow[w], wnow[v])

(* The events linked to a finding, which are finitely many. *)
Linked(f) == {e \in Events : <<f, e>> \in linked}

Counted ==
    \A f \in Facts : /\ IsFiniteSet(Linked(f))
                     /\ count[f] = Cardinality(Linked(f)) + gone[f]

(* A finding with events exists. *)
Known == \A f \in Facts, e \in Events : <<f, e>> \in linked => status[f] # None

IInv == /\ TypeOK /\ Progress /\ RulesApplied /\ Counted /\ Known
        /\ Spaced /\ CooldownKept /\ ReservedAccounted
-------------------------------------------------------------------------------
LEMMA InitIInv == Init => IInv
<1> SUFFICES ASSUME Init PROVE IInv
  OBVIOUS
<1> USE FindingsAssumption DEF Init
<1>1. TypeOK
  BY DEF TypeOK, Excuses
<1>2. Progress /\ RulesApplied
  BY DEF Progress, RulesApplied
<1>3. Spaced /\ CooldownKept /\ ReservedAccounted
  BY DEF Spaced, Raising, Recent, CooldownKept, ReservedAccounted
<1>4. Counted
  <2>1. \A f \in Facts : Linked(f) = {}
    BY DEF Linked
  <2>2. \A f \in Facts : count[f] = 0 /\ gone[f] = 0
    OBVIOUS
  <2>3. IsFiniteSet({}) /\ Cardinality({}) = 0
    BY FS_EmptySet
  <2>4. \A f \in Facts : IsFiniteSet(Linked(f)) /\ count[f] = Cardinality(Linked(f)) + gone[f]
    <3> HIDE DEF Init
    <3> QED
      BY <2>1, <2>2, <2>3
  <2> QED
    BY <2>4 DEF Counted
<1>5. Known
  BY DEF Known
<1> QED
  BY <1>1, <1>2, <1>3, <1>4, <1>5 DEF IInv

(* An alert is a record of a finding and a time. *)
LEMMA AlertFields ==
  ASSUME TypeOK
  PROVE  /\ alerts \in Seq([fact : Facts, at : Nat, queued : BOOLEAN])
         /\ \A i \in DOMAIN alerts :
              /\ alerts[i].at \in Nat /\ alerts[i].fact \in Facts
              /\ alerts[i] = [fact |-> alerts[i].fact, at |-> alerts[i].at,
                              queued |-> alerts[i].queued]
<1> DEFINE R == [fact : Facts, at : Nat, queued : BOOLEAN]
<1>1. alerts \in Seq(R)
  BY DEF TypeOK
<1>2. \A i \in DOMAIN alerts : alerts[i] \in R
  <2> HIDE DEF R
  <2> QED
    BY <1>1
<1> QED
  BY <1>1, <1>2

(* A step of Next, split into its actions. *)
LEMMA Actions ==
  ASSUME Next
  PROVE  \/ \E e \in Events : Store(e) \/ Prune(e)
         \/ \E w \in Workers, e \in Events : Begin(w, e) \/ PassOver(w, e)
         \/ \E w \in Workers, f \in Facts : Upsert(w, f) \/ UpsertFails(w, f) \/ Decline(w, f)
         \/ \E w \in Workers :
               \/ Reserve(w) \/ Withhold(w) \/ Raise(w) \/ Enqueue(w) \/ Finish(w)
               \/ RaiseFails(w)
         \/ \E f \in Facts, to \in Marks : SetStatus(f, to)
         \/ Tick \/ Crash
BY DEF Next, WorkerStep

(* Types. *)
LEMMA TypeStep ==
  ASSUME TypeOK, [Next]_vars
  PROVE  TypeOK'
<1> USE FindingsAssumption DEF TypeOK, history, findingVars, workerVars, Excused, Excuses
<1>1. ASSUME NEW e \in Events, Store(e) PROVE TypeOK'
  BY <1>1 DEF Store
<1>2. ASSUME NEW w \in Workers, NEW e \in Events, Begin(w, e) PROVE TypeOK'
  BY <1>2 DEF Begin
<1>3. ASSUME NEW w \in Workers, NEW e \in Events, PassOver(w, e) PROVE TypeOK'
  BY <1>3 DEF PassOver, Answer
<1>4. ASSUME NEW w \in Workers, NEW f \in Facts, Upsert(w, f) PROVE TypeOK'
  BY <1>4 DEF Upsert, Added, Changed
<1>5. ASSUME NEW w \in Workers, NEW f \in Facts, UpsertFails(w, f) PROVE TypeOK'
  BY <1>5 DEF UpsertFails
<1>6. ASSUME NEW w \in Workers, Reserve(w) PROVE TypeOK'
  <2>1. PICK f \in Facts : wf[w] = f
    BY <1>6 DEF Reserve
  <2>2. lastAlert' \in [Facts -> Nat \cup {None}] /\ wnow' \in [Workers -> Nat]
    BY <1>6, <2>1 DEF Reserve
  <2> QED
    BY <1>6, <2>2 DEF Reserve
<1>7. ASSUME NEW w \in Workers, Withhold(w) PROVE TypeOK'
  BY <1>7 DEF Withhold, Return
<1>8. ASSUME NEW w \in Workers, Raise(w) PROVE TypeOK'
  BY <1>8 DEF Raise
<1>9. ASSUME NEW w \in Workers, Enqueue(w) PROVE TypeOK'
  <2> DEFINE R == [fact : Facts, at : Nat, queued : BOOLEAN]
  <2>1. PICK i \in DOMAIN alerts :
           alerts' = [alerts EXCEPT ![i] = [fact |-> wf[w], at |-> wnow[w], queued |-> TRUE]]
    BY <1>9 DEF Enqueue
  <2>2. [fact |-> wf[w], at |-> wnow[w], queued |-> TRUE] \in R
    BY <1>9 DEF Enqueue
  <2>3. alerts \in Seq(R)
    OBVIOUS
  <2>5. alerts' \in Seq(R)
    <3> HIDE DEF R
    <3> QED
      BY <2>1, <2>2, <2>3
  <2> QED
    BY <1>9, <2>5 DEF Enqueue, Return
<1>10. ASSUME NEW w \in Workers, Finish(w) PROVE TypeOK'
  BY <1>10 DEF Finish, Answer
<1>11. ASSUME NEW w \in Workers, RaiseFails(w) PROVE TypeOK'
  BY <1>11 DEF RaiseFails, Return, Owing
<1>12. ASSUME NEW f \in Facts, NEW to \in Marks, SetStatus(f, to) PROVE TypeOK'
  BY <1>12 DEF SetStatus
<1>13. CASE Tick
  BY <1>13 DEF Tick
<1>14. CASE Crash
  <2>1. \A w \in Owing : wf[w] \in Facts
    BY DEF Owing
  <2>2. cut' \subseteq Facts
    BY <1>14, <2>1 DEF Crash
  <2> QED
    BY <1>14, <2>2 DEF Crash
<1>15. CASE UNCHANGED vars
  BY <1>15 DEF vars
<1>16. ASSUME NEW w \in Workers, NEW f \in Facts, Decline(w, f) PROVE TypeOK'
  BY <1>16 DEF Decline
<1>17. ASSUME NEW e \in Events, Prune(e) PROVE TypeOK'
  BY <1>17 DEF Prune
<1> QED
  BY <1>1, <1>2, <1>3, <1>4, <1>5, <1>6, <1>7, <1>8, <1>9,
     <1>10, <1>11, <1>12, <1>13, <1>14, <1>15, <1>16, <1>17, Actions

(* What was linked, waived or declined once is accounted for ever after. *)
LEMMA TreatedStep ==
  ASSUME TypeOK, [Next]_vars, NEW g \in Facts, NEW d \in Events, Treated(g, d)
  PROVE  Treated(g, d)'
<1> USE DEF TypeOK, Treated, Excused, Excuses, history, findingVars
<1>1. CASE UNCHANGED <<linked, excuse>>
  BY <1>1
<1>2. ASSUME NEW w \in Workers, NEW f \in Facts, Upsert(w, f) PROVE Treated(g, d)'
  <2>1. CASE <<g, d>> \in linked'
    BY <2>1
  <2>2. CASE <<g, d>> \notin linked'
    <3>1. <<g, d>> \notin linked /\ ~(g = f /\ d = wev[w])
      BY <1>2, <2>2 DEF Upsert
    <3>2. excuse'[g][d] = excuse[g][d]
      BY <1>2, <3>1 DEF Upsert
    <3> QED
      BY <3>1, <3>2
  <2> QED
    BY <2>1, <2>2
<1>3. ASSUME NEW w \in Workers, NEW f \in Facts, UpsertFails(w, f) \/ Decline(w, f)
      PROVE  Treated(g, d)'
  BY <1>3 DEF UpsertFails, Decline
<1>4. ASSUME NEW w \in Workers, NEW e \in Events, PassOver(w, e) PROVE Treated(g, d)'
  BY <1>4 DEF PassOver
<1>5. ASSUME NEW w \in Workers, NEW e \in Events, Begin(w, e) PROVE Treated(g, d)'
  BY <1>1, <1>5 DEF Begin
<1>6. ASSUME NEW e \in Events, Prune(e) PROVE Treated(g, d)'
  BY <1>6 DEF Prune
<1>7. ASSUME NEW w \in Workers, Reserve(w) \/ Withhold(w) \/ Raise(w) PROVE Treated(g, d)'
  BY <1>1, <1>7 DEF Reserve, Withhold, Raise
<1>8. ASSUME NEW w \in Workers, Enqueue(w) \/ Finish(w) \/ RaiseFails(w) PROVE Treated(g, d)'
  BY <1>1, <1>8 DEF Enqueue, Finish, RaiseFails
<1>9. ASSUME NEW e \in Events, Store(e) PROVE Treated(g, d)'
  BY <1>1, <1>9 DEF Store
<1>10. ASSUME NEW f \in Facts, NEW to \in Marks, SetStatus(f, to) PROVE Treated(g, d)'
  BY <1>1, <1>10 DEF SetStatus
<1>11. CASE Tick \/ Crash \/ UNCHANGED vars
  BY <1>1, <1>11 DEF Tick, Crash, vars
<1> QED
  BY <1>2, <1>3, <1>4, <1>5, <1>6, <1>7, <1>8, <1>9, <1>10, <1>11, Actions

(* A rule leaves todo when its finding is treated. *)
LEMMA ProgressStep ==
  ASSUME IInv, [Next]_vars
  PROVE  Progress'
<1> SUFFICES ASSUME NEW v \in Workers, wpc'[v] # "idle", NEW g \in Triggers[wev'[v]]
             PROVE  g \in todo'[v] \/ Treated(g, wev[v])'
  BY DEF Progress
<1> DEFINE G == g \in todo'[v] \/ Treated(g, wev[v])'
<1> USE FindingsAssumption DEF IInv, TypeOK, history, findingVars, workerVars
<1>1. CASE wpc[v] # "idle" /\ wev'[v] = wev[v] /\ (g \in todo[v] => G)
  <2>1. wev[v] \in Events /\ g \in Facts
    BY <1>1
  <2>2. g \in todo[v] \/ Treated(g, wev[v])
    BY <1>1 DEF Progress
  <2>3. Treated(g, wev[v]) => Treated(g, wev[v])'
    <3>1. \A e \in Events : Treated(g, e) => Treated(g, e)'
      BY <2>1, TreatedStep
    <3> QED
      BY <1>1, <2>1, <3>1 DEF Treated
  <2> QED
    BY <1>1, <2>2, <2>3
<1>2. ASSUME NEW w \in Workers, NEW e \in Events, Begin(w, e) PROVE G
  <2>1. CASE v = w
    BY <1>2, <2>1 DEF Begin
  <2>2. CASE v # w
    BY <1>1, <1>2, <2>2 DEF Begin
  <2> QED
    BY <2>1, <2>2
<1>3. ASSUME NEW w \in Workers, NEW e \in Events, PassOver(w, e) PROVE G
  BY <1>1, <1>3 DEF PassOver
<1>4. ASSUME NEW w \in Workers, NEW f \in Facts, Upsert(w, f) PROVE G
  <2>1. wpc[v] # "idle" /\ wev'[v] = wev[v]
    BY <1>4 DEF Upsert
  <2>2. g \in todo[v] => g \in todo'[v] \/ (v = w /\ g = f)
    BY <1>4 DEF Upsert
  <2>3. (v = w /\ g = f) => Treated(g, wev[v])'
    BY <1>4, <2>1 DEF Upsert, Treated
  <2> QED
    BY <1>1, <2>1, <2>2, <2>3
<1>5. ASSUME NEW w \in Workers, NEW f \in Facts, UpsertFails(w, f) \/ Decline(w, f) PROVE G
  <2>1. wpc[v] # "idle" /\ wev'[v] = wev[v] /\ wev[v] \in Events
    BY <1>5 DEF UpsertFails, Decline
  <2>2. g \in todo[v] => g \in todo'[v] \/ (v = w /\ g = f)
    BY <1>5 DEF UpsertFails, Decline
  <2>3. (v = w /\ g = f) => Treated(g, wev[v])'
    BY <1>5, <2>1 DEF UpsertFails, Decline, Treated, Excused
  <2> QED
    BY <1>1, <2>1, <2>2, <2>3
<1>6. ASSUME NEW w \in Workers, Reserve(w) \/ Withhold(w) \/ Raise(w) PROVE G
  BY <1>1, <1>6 DEF Reserve, Withhold, Return, Raise
<1>7. ASSUME NEW w \in Workers, Enqueue(w) \/ RaiseFails(w) PROVE G
  BY <1>1, <1>7 DEF Enqueue, RaiseFails, Return, Owing
<1>8. ASSUME NEW w \in Workers, Finish(w) PROVE G
  BY <1>1, <1>8 DEF Finish
<1>9. ASSUME NEW e \in Events, Store(e) \/ Prune(e) PROVE G
  BY <1>1, <1>9 DEF Store, Prune
<1>10. ASSUME NEW f \in Facts, NEW to \in Marks, SetStatus(f, to) PROVE G
  BY <1>1, <1>10 DEF SetStatus
<1>11. CASE Crash
  BY <1>11 DEF Crash
<1>12. CASE Tick \/ UNCHANGED vars
  BY <1>1, <1>12 DEF Tick, vars
<1> QED
  BY <1>2, <1>3, <1>4, <1>5, <1>6, <1>7, <1>8, <1>9, <1>10, <1>11, <1>12, Actions

(* An event is acknowledged when nothing is left to do for it. *)
LEMMA AppliedStep ==
  ASSUME IInv, [Next]_vars
  PROVE  RulesApplied'
<1> SUFFICES ASSUME NEW d \in stored' \ pending', NEW g \in Triggers[d]
             PROVE  Treated(g, d)'
  BY DEF RulesApplied, Treated
<1> DEFINE G == Treated(g, d)'
<1> USE FindingsAssumption DEF IInv, history, findingVars, workerVars
<1>0. d \in Events /\ g \in Facts /\ (Treated(g, d) => G)
  <2>1. TypeOK'
    BY TypeStep
  <2>2. d \in Events /\ g \in Facts
    BY <2>1 DEF TypeOK
  <2> QED
    BY <2>2, TreatedStep
<1>1. CASE stored' \ pending' \subseteq stored \ pending
  BY <1>0, <1>1 DEF RulesApplied
<1>2. ASSUME NEW w \in Workers, NEW e \in Events, PassOver(w, e) PROVE G
  <2>1. CASE d = e
    BY <1>0, <1>2, <2>1 DEF PassOver, Excused, Treated, TypeOK, Excuses
  <2>2. CASE d # e
    <3>1. d \in stored \ pending
      BY <1>2, <2>2 DEF PassOver, Answer
    <3> QED
      BY <1>0, <3>1 DEF RulesApplied
  <2> QED
    BY <2>1, <2>2
<1>3. ASSUME NEW w \in Workers, Finish(w) PROVE G
  <2>1. CASE d = wev[w]
    <3>1. Treated(g, wev[w])
      BY <1>3, <2>1 DEF Finish, Progress
    <3> QED
      BY <1>0, <2>1, <3>1
  <2>2. CASE d # wev[w]
    <3>1. d \in stored \ pending
      BY <1>3, <2>2 DEF Finish, Answer
    <3> QED
      BY <1>0, <3>1 DEF RulesApplied
  <2> QED
    BY <2>1, <2>2
<1>4. ASSUME NEW w \in Workers, NEW e \in Events, Begin(w, e) PROVE G
  BY <1>1, <1>4 DEF Begin
<1>5. ASSUME NEW w \in Workers, NEW f \in Facts, Upsert(w, f) \/ UpsertFails(w, f) \/ Decline(w, f)
      PROVE  G
  BY <1>1, <1>5 DEF Upsert, UpsertFails, Decline
<1>6. ASSUME NEW w \in Workers, Reserve(w) \/ Withhold(w) \/ Raise(w) PROVE G
  BY <1>1, <1>6 DEF Reserve, Withhold, Raise
<1>7. ASSUME NEW w \in Workers, Enqueue(w) \/ RaiseFails(w) PROVE G
  BY <1>1, <1>7 DEF Enqueue, RaiseFails
<1>8. ASSUME NEW e \in Events, Store(e) \/ Prune(e) PROVE G
  BY <1>1, <1>8 DEF Store, Prune
<1>9. ASSUME NEW f \in Facts, NEW to \in Marks, SetStatus(f, to) PROVE G
  BY <1>1, <1>9 DEF SetStatus
<1>10. CASE Tick \/ Crash \/ UNCHANGED vars
  BY <1>1, <1>10 DEF Tick, Crash, vars
<1> QED
  BY <1>2, <1>3, <1>4, <1>5, <1>6, <1>7, <1>8, <1>9, <1>10, Actions

(* A reservation is made a cooldown after the last, whoever made that. *)
LEMMA SpacedStep ==
  ASSUME IInv, [Next]_vars
  PROVE  (Spaced /\ CooldownKept)'
<1> USE FindingsAssumption DEF IInv, TypeOK, Spaced, Recent, Raising, CooldownKept,
                               history, findingVars, workerVars
<1>0. CASE /\ UNCHANGED <<lastAlert, alerts>> /\ clock' >= clock /\ clock' \in Nat
           /\ \A v \in Workers : wpc'[v] = "raise" =>
                 wpc[v] = "raise" /\ wf'[v] = wf[v] /\ wnow'[v] = wnow[v]
  <2>1. \A v \in Workers, g \in Facts : Raising(v, g)' => Raising(v, g) /\ wnow'[v] = wnow[v]
    BY <1>0
  <2>2. \A g \in Facts : lastAlert'[g] # None => lastAlert'[g] <= clock'
    BY <1>0
  <2>3. \A g \in Facts, n \in Nat : Recent(g, n)' <=> Recent(g, n)
    BY <1>0
  <2>4. Spaced /\ CooldownKept
    OBVIOUS
  <2> HIDE DEF Recent, Raising
  <2>5. Spaced'
    BY <1>0, <2>1, <2>2, <2>3, <2>4, AlertFields
  <2> QED
    BY <1>0, <2>4, <2>5
<1>1. ASSUME NEW e \in Events, Store(e) \/ Prune(e) PROVE (Spaced /\ CooldownKept)'
  BY <1>0, <1>1 DEF Store, Prune
<1>2. ASSUME NEW w \in Workers, NEW e \in Events, Begin(w, e) \/ PassOver(w, e)
      PROVE  (Spaced /\ CooldownKept)'
  BY <1>0, <1>2 DEF Begin, PassOver
<1>3. ASSUME NEW w \in Workers, NEW f \in Facts, Upsert(w, f) PROVE (Spaced /\ CooldownKept)'
  BY <1>0, <1>3 DEF Upsert
<1>4. ASSUME NEW w \in Workers, NEW f \in Facts, UpsertFails(w, f) \/ Decline(w, f)
      PROVE  (Spaced /\ CooldownKept)'
  BY <1>0, <1>4 DEF UpsertFails, Decline
<1>5. ASSUME NEW w \in Workers, Withhold(w) \/ Finish(w) \/ RaiseFails(w)
      PROVE  (Spaced /\ CooldownKept)'
  BY <1>0, <1>5 DEF Withhold, Finish, RaiseFails, Return
<1>50. /\ Spaced /\ CooldownKept
      /\ clock \in Nat /\ lastAlert \in [Facts -> Nat \cup {None}] /\ None \notin Nat
      /\ wnow \in [Workers -> Nat] /\ Cooldown \in [Facts -> Nat]
      /\ \A i \in DOMAIN alerts : alerts[i].at \in Nat /\ alerts[i].fact \in Facts
  BY AlertFields
<1>6. ASSUME NEW w \in Workers, Reserve(w) PROVE (Spaced /\ CooldownKept)'
  <2>1. PICK f \in Facts : wf[w] = f
    BY <1>6 DEF Reserve
  <2>2. /\ lastAlert' = [lastAlert EXCEPT ![f] = clock]
        /\ wnow' = [wnow EXCEPT ![w] = clock] /\ wpc' = [wpc EXCEPT ![w] = "raise"]
        /\ clock \in Nat /\ UNCHANGED <<clock, alerts, wf>>
        /\ lastAlert[f] # None => lastAlert[f] \in Nat /\ lastAlert[f] + Cooldown[f] <= clock
    BY <1>6, <2>1 DEF Reserve, Cool
  <2>3. \A v \in Workers \ {w}, g \in Facts : Raising(v, g)' <=> Raising(v, g)
    BY <2>2
  <2> HIDE FindingsAssumption DEF IInv, TypeOK, Raising
  <2>4. \A i \in DOMAIN alerts : Recent(alerts[i].fact, alerts[i].at)'
    BY <1>50, <2>2
  <2>5. \A i \in DOMAIN alerts : alerts[i].fact = f => Apart(f, clock, alerts[i].at)
    BY <1>50, <2>2 DEF Apart
  <2>6. \A v \in Workers : Raising(v, f) => Apart(f, clock, wnow[v]) /\ Apart(f, wnow[v], clock)
    BY <1>50, <2>2 DEF Apart
  <2>7. \A v \in Workers \ {w} : wnow'[v] = wnow[v]
    BY <1>50, <2>2
  <2>8. \A v \in Workers, g \in Facts : Raising(v, g)' =>
          /\ Recent(g, wnow[v])'
          /\ \A i \in DOMAIN alerts : alerts[i].fact = g => Apart(g, wnow'[v], alerts[i].at)
          /\ \A u \in Workers : (u # v /\ Raising(u, g)') => Apart(g, wnow'[v], wnow'[u])
    <3> TAKE v \in Workers, g \in Facts
    <3>1. ASSUME g # f, Raising(v, g)'
          PROVE  /\ Recent(g, wnow[v])'
                 /\ \A i \in DOMAIN alerts : alerts[i].fact = g => Apart(g, wnow'[v], alerts[i].at)
                 /\ \A u \in Workers : (u # v /\ Raising(u, g)') => Apart(g, wnow'[v], wnow'[u])
      <4>1. \A u \in Workers : Raising(u, g)' => u # w /\ Raising(u, g) /\ wnow'[u] = wnow[u]
        BY <2>1, <2>2, <2>3, <2>7, <3>1 DEF Raising
      <4>2. lastAlert'[g] = lastAlert[g]
        BY <1>50, <2>2, <3>1
      <4> QED
        BY <1>50, <3>1, <4>1, <4>2
    <3>2. CASE g = f /\ v = w
      <4>1. wnow'[w] = clock /\ lastAlert'[f] = clock
        BY <1>50, <2>2
      <4> QED
        BY <1>50, <2>3, <2>5, <2>6, <2>7, <3>2, <4>1
    <3>3. CASE g = f /\ v # w
      <4>1. wnow'[w] = clock /\ lastAlert'[f] = clock
        BY <1>50, <2>2
      <4>2. ASSUME Raising(v, f)
            PROVE  /\ Recent(f, wnow[v])'
                   /\ \A i \in DOMAIN alerts : alerts[i].fact = f => Apart(f, wnow[v], alerts[i].at)
                   /\ Apart(f, wnow[v], clock)
                   /\ \A u \in Workers : (u # v /\ Raising(u, f)) => Apart(f, wnow[v], wnow[u])
        BY <1>50, <2>6, <2>7, <3>3, <4>1, <4>2
      <4> QED
        BY <2>3, <2>7, <3>3, <4>1, <4>2
    <3> QED
      BY <3>1, <3>2, <3>3
  <2>9. \A g \in Facts : lastAlert'[g] # None => lastAlert'[g] <= clock'
    BY <1>50, <2>2
  <2>10. Spaced'
    BY <2>2, <2>4, <2>8, <2>9
  <2> QED
    BY <1>50, <2>2, <2>10
<1>8. ASSUME NEW w \in Workers, Raise(w) PROVE (Spaced /\ CooldownKept)'
  <2>1. PICK f \in Facts : wf[w] = f
    BY <1>8 DEF Raise
  <2>2. /\ DOMAIN alerts' = DOMAIN alerts \cup {Len(alerts) + 1}
        /\ \A i \in DOMAIN alerts : alerts'[i] = alerts[i]
        /\ alerts'[Len(alerts) + 1] = [fact |-> f, at |-> wnow[w], queued |-> FALSE]
        /\ Len(alerts) + 1 \notin DOMAIN alerts
    <3> DEFINE R == [fact : Facts, at : Nat, queued : BOOLEAN]
               new == [fact |-> f, at |-> wnow[w], queued |-> FALSE]
    <3>1. alerts' = Append(alerts, new)
      BY <1>8, <2>1 DEF Raise
    <3>2. alerts \in Seq(R) /\ new \in R
      BY <1>50, AlertFields
    <3> HIDE FindingsAssumption DEF IInv, TypeOK, Spaced, CooldownKept, R, new
    <3>3. /\ DOMAIN alerts' = DOMAIN alerts \cup {Len(alerts) + 1}
          /\ \A i \in DOMAIN alerts : alerts'[i] = alerts[i]
          /\ alerts'[Len(alerts) + 1] = new
          /\ Len(alerts) + 1 \notin DOMAIN alerts
      BY <3>1, <3>2
    <3> QED
      BY <3>3 DEF new
  <2>3. Raising(w, f) /\ wpc'[w] = "enqueue"
    BY <1>8, <2>1 DEF Raise
  <2>4. \A v \in Workers, g \in Facts : Raising(v, g)' <=> (Raising(v, g) /\ v # w)
    BY <1>8, <2>1 DEF Raise
  <2>5. UNCHANGED <<clock, lastAlert, wnow>>
    BY <1>8 DEF Raise
  <2> DEFINE n == Len(alerts) + 1
             a == wnow[w]
  <2>6. alerts'[n].fact = f /\ alerts'[n].at = a /\ a \in Nat /\ a' = a
    BY <2>2, <2>5
  <2> HIDE FindingsAssumption DEF IInv, TypeOK, Raising, Recent, n
  <2>7. /\ Recent(f, a)
        /\ \A i \in DOMAIN alerts : alerts[i].fact = f => Apart(f, a, alerts[i].at)
        /\ \A v \in Workers : (v # w /\ Raising(v, f)) => Apart(f, a, wnow[v])
    BY <1>50, <2>3
  <2>50. /\ DOMAIN alerts' = DOMAIN alerts \cup {n} /\ n \notin DOMAIN alerts
        /\ \A g \in Facts, m \in Nat : Recent(g, m)' <=> Recent(g, m)
    BY <2>2, <2>5 DEF Recent, n
  <2>8. \A i \in DOMAIN alerts' : Recent(alerts[i].fact, alerts[i].at)'
    BY <1>50, <2>50, <2>2, <2>5, <2>6, <2>7 DEF Recent
  <2>9. ASSUME NEW v \in Workers, NEW g \in Facts, Raising(v, g)'
        PROVE  /\ Recent(g, wnow[v])'
               /\ \A i \in DOMAIN alerts' : alerts'[i].fact = g => Apart(g, wnow[v], alerts'[i].at)
               /\ \A u \in Workers : (u # v /\ Raising(u, g)') => Apart(g, wnow[v], wnow[u])
    <3>1. v # w /\ Raising(v, g)
      BY <2>4, <2>9
    <3>2. /\ Recent(g, wnow[v])
          /\ \A i \in DOMAIN alerts : alerts[i].fact = g => Apart(g, wnow[v], alerts[i].at)
          /\ \A u \in Workers : (u # v /\ Raising(u, g)) => Apart(g, wnow[v], wnow[u])
      BY <1>50, <3>1
    <3>3. g = f => Apart(g, wnow[v], a)
      BY <2>3, <3>1, <3>2
    <3> QED
      BY <1>50, <2>50, <2>2, <2>4, <2>5, <2>6, <3>1, <3>2, <3>3
  <2>10. Spaced'
    <3>1. \A g \in Facts : lastAlert'[g] # None => lastAlert'[g] <= clock'
      BY <1>50, <2>5
    <3>2. \A v \in Workers, g \in Facts : Raising(v, g)' =>
            /\ Recent(g, wnow[v])'
            /\ \A i \in DOMAIN alerts' : alerts'[i].fact = g => Apart(g, wnow'[v], alerts'[i].at)
            /\ \A u \in Workers : (u # v /\ Raising(u, g)') => Apart(g, wnow'[v], wnow'[u])
      BY <2>5, <2>9
    <3> HIDE DEF Spaced, CooldownKept
    <3> QED
      BY <2>8, <3>1, <3>2 DEF Spaced, Apart
  <2>11. ASSUME NEW i \in DOMAIN alerts', NEW j \in DOMAIN alerts',
                i # j, alerts'[i].fact = alerts'[j].fact
         PROVE  Apart(alerts'[i].fact, alerts'[i].at, alerts'[j].at)
    <3>1. CASE i \in DOMAIN alerts /\ j \in DOMAIN alerts
      BY <1>50, <2>2, <2>11, <3>1
    <3>2. CASE i = n
      BY <2>50, <2>2, <2>6, <2>7, <2>11, <3>2
    <3>3. CASE j = n
      <4>1. i \in DOMAIN alerts /\ alerts[i].fact = f /\ alerts'[i] = alerts[i]
        BY <2>50, <2>2, <2>6, <2>11, <3>3
      <4> QED
        BY <2>6, <2>7, <3>3, <4>1 DEF Apart
    <3> QED
      BY <2>50, <3>1, <3>2, <3>3
  <2> QED
    BY <2>10, <2>11
<1>9. ASSUME NEW w \in Workers, Enqueue(w) PROVE (Spaced /\ CooldownKept)'
  <2>1. PICK i \in DOMAIN alerts :
           /\ alerts[i] = [fact |-> wf[w], at |-> wnow[w], queued |-> FALSE]
           /\ alerts' = [alerts EXCEPT ![i] = [fact |-> wf[w], at |-> wnow[w], queued |-> TRUE]]
    BY <1>9 DEF Enqueue, Own
  <2>2. /\ DOMAIN alerts' = DOMAIN alerts
        /\ \A j \in DOMAIN alerts : alerts'[j].fact = alerts[j].fact /\ alerts'[j].at = alerts[j].at
    <3> HIDE FindingsAssumption DEF IInv, TypeOK, Spaced, CooldownKept
    <3> QED
      BY <2>1
  <2>3. \A v \in Workers, g \in Facts : Raising(v, g)' <=> Raising(v, g)
    BY <1>9 DEF Enqueue, Return
  <2>4. UNCHANGED <<clock, lastAlert>> /\ \A v \in Workers : wpc[v] = "raise" => wnow'[v] = wnow[v]
    BY <1>9 DEF Enqueue, Return, findingVars
  <2>5. ASSUME NEW v \in Workers, NEW g \in Facts, Raising(v, g)'
        PROVE  /\ Recent(g, wnow[v])'
               /\ \A j \in DOMAIN alerts' : alerts'[j].fact = g => Apart(g, wnow'[v], alerts'[j].at)
               /\ \A u \in Workers : (u # v /\ Raising(u, g)') => Apart(g, wnow'[v], wnow'[u])
    <3>1. \A u \in Workers : Raising(u, g)' => Raising(u, g) /\ wnow'[u] = wnow[u]
      BY <2>3, <2>4
    <3>2. \A j \in DOMAIN alerts' : j \in DOMAIN alerts /\ alerts'[j].fact = alerts[j].fact
                                                      /\ alerts'[j].at = alerts[j].at
      BY <2>2
    <3>3. Recent(g, wnow[v]) /\ \A j \in DOMAIN alerts : alerts[j].fact = g => Apart(g, wnow[v], alerts[j].at)
      BY <2>5, <3>1
    <3>4. \A u \in Workers : (u # v /\ Raising(u, g)) => Apart(g, wnow[v], wnow[u])
      BY <2>5, <3>1
    <3> QED
      BY <2>4, <2>5, <3>1, <3>2, <3>3, <3>4
  <2>6. Spaced'
    BY <2>2, <2>4, <2>5
  <2>7. CooldownKept'
    BY <2>2
  <2> QED
    BY <2>6, <2>7
<1>10. ASSUME NEW f \in Facts, NEW to \in Marks, SetStatus(f, to) PROVE (Spaced /\ CooldownKept)'
  BY <1>0, <1>10 DEF SetStatus
<1>11. CASE Tick \/ Crash \/ UNCHANGED vars
  BY <1>0, <1>11 DEF Tick, Crash, vars
<1> QED
  BY <1>1, <1>2, <1>3, <1>4, <1>5, <1>6, <1>8, <1>9, <1>10, <1>11, Actions

(* A worker owes its reservation until it is queued or cut off. *)
LEMMA AccountedStep ==
  ASSUME IInv, [Next]_vars
  PROVE  ReservedAccounted'
<1> SUFFICES ASSUME NEW g \in Facts, lastAlert'[g] # None
             PROVE  \/ Queued(g)'
                    \/ \E v \in Owing' : wf'[v] = g /\ wnow'[v] = lastAlert'[g]
                    \/ g \in cut'
  BY DEF ReservedAccounted
<1> DEFINE G == \/ Queued(g)'
                \/ \E v \in Owing' : wf'[v] = g /\ wnow'[v] = lastAlert'[g]
                \/ g \in cut'
<1> DEFINE Q == Queued(g)
           O(v) == v \in Owing /\ wf[v] = g /\ wnow[v] = lastAlert[g]
<1> USE FindingsAssumption DEF history, findingVars, workerVars
<1>0. TypeOK /\ (lastAlert[g] # None => Q \/ (\E v \in Workers : O(v)) \/ g \in cut)
  BY DEF IInv, ReservedAccounted, Owing
<1>1. CASE /\ UNCHANGED <<lastAlert, alerts, cut>>
           /\ \A v \in Owing : v \in Owing' /\ wf'[v] = wf[v] /\ wnow'[v] = wnow[v]
  BY <1>0, <1>1 DEF Queued
<1>2. ASSUME NEW w \in Workers, Reserve(w) PROVE G
  <2>1. PICK f \in Facts : wf[w] = f
    BY <1>0, <1>2 DEF Reserve, TypeOK
  <2>2. /\ lastAlert' = [lastAlert EXCEPT ![f] = clock]
        /\ wnow' = [wnow EXCEPT ![w] = clock] /\ wpc' = [wpc EXCEPT ![w] = "raise"]
        /\ w \notin Owing /\ Owing' = Owing \cup {w}
        /\ UNCHANGED <<alerts, wf>> /\ cut' = cut \ {f}
    BY <1>0, <1>2, <2>1 DEF Reserve, Owing, TypeOK
  <2>3. CASE g = f
    BY <1>0, <2>1, <2>2, <2>3 DEF TypeOK
  <2>4. CASE g # f
    BY <1>0, <2>2, <2>4 DEF TypeOK, Queued
  <2> QED
    BY <2>3, <2>4
<1>3. ASSUME NEW w \in Workers, Raise(w) PROVE G
  <2>1. Owing' = Owing /\ UNCHANGED <<lastAlert, cut, wf, wnow>>
    BY <1>0, <1>3 DEF Raise, Owing, TypeOK
  <2>2. \A i \in DOMAIN alerts : i \in DOMAIN alerts' /\ alerts'[i] = alerts[i]
    BY <1>0, <1>3, AlertFields DEF Raise
  <2> QED
    BY <1>0, <2>1, <2>2 DEF Queued, Owing
<1>4. ASSUME NEW w \in Workers, Enqueue(w) PROVE G
  <2>1. PICK i \in DOMAIN alerts :
           /\ alerts[i] = [fact |-> wf[w], at |-> wnow[w], queued |-> FALSE]
           /\ alerts' = [alerts EXCEPT ![i] = [fact |-> wf[w], at |-> wnow[w], queued |-> TRUE]]
    BY <1>4 DEF Enqueue, Own
  <2>2. /\ DOMAIN alerts' = DOMAIN alerts
        /\ alerts'[i] = [fact |-> wf[w], at |-> wnow[w], queued |-> TRUE]
        /\ \A j \in DOMAIN alerts \ {i} : alerts'[j] = alerts[j]
    BY <2>1
  <2>3. /\ UNCHANGED <<lastAlert, cut>> /\ Owing' = Owing \ {w}
        /\ \A v \in Workers \ {w} : wf'[v] = wf[v] /\ wnow'[v] = wnow[v]
    BY <1>0, <1>4 DEF Enqueue, Return, Owing, TypeOK
  <2>4. CASE Q
    <3>1. PICK j \in DOMAIN alerts : alerts[j] = [fact |-> g, at |-> lastAlert[g], queued |-> TRUE]
      BY <2>4 DEF Queued
    <3>2. alerts[j].queued = TRUE /\ alerts[i].queued = FALSE
      BY <2>1, <3>1
    <3>3. j # i
      BY <3>2
    <3> QED
      BY <2>2, <2>3, <3>1, <3>3 DEF Queued
  <2>5. CASE O(w)
    BY <2>2, <2>3, <2>5 DEF Queued
  <2>6. CASE \E v \in Workers \ {w} : O(v)
    BY <2>3, <2>6
  <2>7. CASE g \in cut
    BY <2>3, <2>7
  <2> QED
    BY <1>0, <2>3, <2>4, <2>5, <2>6, <2>7
<1>5. ASSUME NEW w \in Workers, RaiseFails(w) PROVE G
  <2>1. /\ UNCHANGED <<lastAlert, alerts>> /\ Owing' = Owing \ {w}
        /\ cut \subseteq cut' /\ (Last(w) => wf[w] \in cut')
        /\ \A v \in Workers \ {w} : wf'[v] = wf[v] /\ wnow'[v] = wnow[v]
    BY <1>0, <1>5 DEF RaiseFails, Return, Owing, TypeOK
  <2> QED
    BY <1>0, <2>1 DEF Queued, Last
<1>6. CASE Crash
  <2>1. /\ UNCHANGED <<lastAlert, alerts>>
        /\ cut' = cut \cup {wf[w] : w \in {v \in Owing : Last(v)}}
    BY <1>6 DEF Crash
  <2> QED
    BY <1>0, <2>1 DEF Queued, Last
<1>7. ASSUME NEW w \in Workers, NEW f \in Facts, Upsert(w, f) \/ UpsertFails(w, f) \/ Decline(w, f)
      PROVE  G
  BY <1>0, <1>1, <1>7 DEF Upsert, UpsertFails, Decline, Owing, TypeOK
<1>8. ASSUME NEW w \in Workers, Withhold(w) \/ Finish(w) PROVE G
  BY <1>0, <1>1, <1>8 DEF Withhold, Return, Finish, Owing, TypeOK
<1>9. ASSUME NEW w \in Workers, NEW e \in Events, Begin(w, e) \/ PassOver(w, e) PROVE G
  BY <1>0, <1>1, <1>9 DEF Begin, PassOver, Owing, TypeOK
<1>10. ASSUME NEW e \in Events, Store(e) \/ Prune(e) PROVE G
  BY <1>0, <1>1, <1>10 DEF Store, Prune, Owing
<1>11. ASSUME NEW f \in Facts, NEW to \in Marks, SetStatus(f, to) PROVE G
  BY <1>0, <1>1, <1>11 DEF SetStatus, Owing
<1>12. CASE Tick \/ UNCHANGED vars
  BY <1>0, <1>1, <1>12 DEF Tick, vars, Owing
<1> QED
  BY <1>2, <1>3, <1>4, <1>5, <1>6, <1>7, <1>8, <1>9, <1>10, <1>11, <1>12, Actions

(* A link is counted in the transaction that makes it. *)
LEMMA CountedStep ==
  ASSUME IInv, [Next]_vars
  PROVE  Counted'
<1> USE DEF history, findingVars
<1>1. CASE UNCHANGED <<linked, count, gone>>
  BY <1>1 DEF IInv, Counted, Linked
<1>2. ASSUME NEW w \in Workers, NEW f \in Facts, Upsert(w, f) PROVE Counted'
  <2>1. PICK e \in Events : wev[w] = e
    BY <1>2, FindingsAssumption DEF IInv, TypeOK, Upsert
  <2>2. /\ linked' = linked \cup {<<f, e>>}
        /\ count' = [count EXCEPT ![f] = @ + (IF <<f, e>> \in linked THEN 0 ELSE 1)]
        /\ count \in [Facts -> Nat] /\ gone \in [Facts -> Nat] /\ gone' = gone
    BY <1>2, <2>1 DEF IInv, TypeOK, Upsert, Added
  <2>3. ASSUME NEW g \in Facts
        PROVE  IsFiniteSet(Linked(g)') /\ count'[g] = Cardinality(Linked(g)') + gone'[g]
    <3>1. IsFiniteSet(Linked(g)) /\ count[g] = Cardinality(Linked(g)) + gone[g]
      BY DEF IInv, Counted
    <3>2. CASE g # f \/ <<f, e>> \in linked
      <4>1. Linked(g)' = Linked(g) /\ count'[g] = count[g]
        BY <2>2, <3>2 DEF Linked
      <4> QED
        BY <2>2, <3>1, <4>1
    <3>3. CASE g = f /\ <<f, e>> \notin linked
      <4>1. Linked(g)' = Linked(g) \cup {e} /\ e \notin Linked(g) /\ count'[g] = count[g] + 1
        BY <2>2, <3>3 DEF Linked
      <4>2. /\ IsFiniteSet(Linked(g)') /\ Cardinality(Linked(g)') = Cardinality(Linked(g)) + 1
            /\ Cardinality(Linked(g)) \in Nat
        BY <3>1, <4>1, FS_AddElement, FS_CardinalityType
      <4>3. gone'[g] = gone[g] /\ gone[g] \in Nat
        BY <2>2
      <4> QED
        BY <3>1, <4>1, <4>2, <4>3
    <3> QED
      BY <3>2, <3>3
  <2> QED
    BY <2>3 DEF Counted
<1>3. ASSUME NEW w \in Workers, NEW f \in Facts, UpsertFails(w, f) \/ Decline(w, f)
      PROVE  Counted'
  BY <1>1, <1>3 DEF UpsertFails, Decline
<1>4. ASSUME NEW w \in Workers, NEW e \in Events, Begin(w, e) \/ PassOver(w, e) PROVE Counted'
  BY <1>1, <1>4 DEF Begin, PassOver
<1>5. ASSUME NEW w \in Workers, Reserve(w) \/ Withhold(w) \/ Raise(w) PROVE Counted'
  BY <1>1, <1>5 DEF Reserve, Withhold, Raise
<1>6. ASSUME NEW w \in Workers, Enqueue(w) \/ Finish(w) \/ RaiseFails(w) PROVE Counted'
  BY <1>1, <1>6 DEF Enqueue, Finish, RaiseFails
<1>7. ASSUME NEW e \in Events, Store(e) PROVE Counted'
  BY <1>1, <1>7 DEF Store
<1>8. ASSUME NEW f \in Facts, NEW to \in Marks, SetStatus(f, to) PROVE Counted'
  BY <1>1, <1>8 DEF SetStatus
<1>9. CASE Tick \/ Crash \/ UNCHANGED vars
  BY <1>1, <1>9 DEF Tick, Crash, vars
<1>10. ASSUME NEW e \in Events, Prune(e) PROVE Counted'
  <2>1. /\ linked' = linked \ (Facts \X {e}) /\ count' = count
        /\ gone' = [f \in Facts |-> gone[f] + (IF <<f, e>> \in linked THEN 1 ELSE 0)]
        /\ gone \in [Facts -> Nat] /\ count \in [Facts -> Nat]
    BY <1>10 DEF Prune, IInv, TypeOK
  <2>2. ASSUME NEW g \in Facts
        PROVE  IsFiniteSet(Linked(g)') /\ count'[g] = Cardinality(Linked(g)') + gone'[g]
    <3>1. IsFiniteSet(Linked(g)) /\ count[g] = Cardinality(Linked(g)) + gone[g]
      BY DEF IInv, Counted
    <3>2. CASE <<g, e>> \notin linked
      <4>1. Linked(g)' = Linked(g) /\ gone'[g] = gone[g]
        BY <2>1, <3>2 DEF Linked
      <4> QED
        BY <2>1, <3>1, <4>1
    <3>3. CASE <<g, e>> \in linked
      <4>1. Linked(g)' = Linked(g) \ {e} /\ e \in Linked(g) /\ gone'[g] = gone[g] + 1
        BY <2>1, <3>3 DEF Linked
      <4>2. /\ IsFiniteSet(Linked(g)') /\ Cardinality(Linked(g)') = Cardinality(Linked(g)) - 1
            /\ Cardinality(Linked(g)) \in Nat
        BY <3>1, <4>1, FS_RemoveElement, FS_CardinalityType
      <4> QED
        BY <2>1, <3>1, <4>1, <4>2
    <3> QED
      BY <3>2, <3>3
  <2> QED
    BY <2>2 DEF Counted
<1> QED
  BY <1>2, <1>3, <1>4, <1>5, <1>6, <1>7, <1>8, <1>9, <1>10, Actions

(* A link is made in the transaction that makes sure of the finding, and no
   status an operator sets unmakes it. *)
LEMMA KnownStep ==
  ASSUME IInv, [Next]_vars
  PROVE  Known'
<1> USE FindingsAssumption DEF IInv, TypeOK, Known, history, findingVars
<1>1. CASE UNCHANGED <<linked, status>>
  BY <1>1
<1>2. ASSUME NEW w \in Workers, NEW f \in Facts, Upsert(w, f) PROVE Known'
  BY <1>2 DEF Upsert
<1>3. ASSUME NEW w \in Workers, NEW f \in Facts, UpsertFails(w, f) \/ Decline(w, f) PROVE Known'
  BY <1>1, <1>3 DEF UpsertFails, Decline
<1>4. ASSUME NEW w \in Workers, NEW e \in Events, Begin(w, e) \/ PassOver(w, e) PROVE Known'
  BY <1>1, <1>4 DEF Begin, PassOver
<1>5. ASSUME NEW w \in Workers, Reserve(w) \/ Withhold(w) \/ Raise(w) PROVE Known'
  BY <1>1, <1>5 DEF Reserve, Withhold, Raise
<1>6. ASSUME NEW w \in Workers, Enqueue(w) \/ Finish(w) \/ RaiseFails(w) PROVE Known'
  BY <1>1, <1>6 DEF Enqueue, Finish, RaiseFails
<1>7. ASSUME NEW e \in Events, Store(e) PROVE Known'
  BY <1>1, <1>7 DEF Store
<1>8. ASSUME NEW f \in Facts, NEW to \in Marks, SetStatus(f, to) PROVE Known'
  BY <1>8 DEF SetStatus
<1>9. CASE Tick \/ Crash \/ UNCHANGED vars
  BY <1>1, <1>9 DEF Tick, Crash, vars
<1>10. ASSUME NEW e \in Events, Prune(e) PROVE Known'
  BY <1>10 DEF Prune
<1> QED
  BY <1>2, <1>3, <1>4, <1>5, <1>6, <1>7, <1>8, <1>9, <1>10, Actions

LEMMA Invariance == Spec => []IInv
<1>1. IInv /\ [Next]_vars => IInv'
  <2> SUFFICES ASSUME IInv, [Next]_vars PROVE IInv'
    OBVIOUS
  <2>1. TypeOK'
    BY TypeStep DEF IInv
  <2> QED
    BY <2>1, ProgressStep, AppliedStep, CountedStep, KnownStep, SpacedStep, AccountedStep DEF IInv
<1> QED
  BY InitIInv, <1>1, PTL DEF Spec
-------------------------------------------------------------------------------
(* The state has its type: a worker holds an event exactly while it is in
   Process and a finding exactly while it is in recordFinding. *)
THEOREM TypeCorrect == Spec => []TypeOK
BY Invariance, PTL DEF IInv

(* event_count is the number of finding_events rows plus those retention took
   with their events: no replay and no race of handlers counts a row twice or
   loses one, and deleting an event is the only way the two part. *)
THEOREM Counting == Spec => []CountExact
<1>1. IInv => CountExact
  BY DEF IInv, Counted, Linked, CountExact
<1> QED
  BY <1>1, Invariance, PTL

(* Two alerts for one finding are a cooldown apart, however many workers race
   for the reservation. *)
THEOREM Spacing == Spec => []CooldownKept
BY Invariance, PTL DEF IInv

(* An acknowledged event is under every finding whose rule follows from the event
   alone, except where the operator waived it, that one UpsertFinding failed or
   retention deleted the row.  A rule that asks the store was asked, and one that
   did not confirm or could not be asked leaves the event out for good. *)
THEOREM Application == Spec => []RulesApplied
BY Invariance, PTL DEF IInv

(* The last reservation of a finding is queued, in the hands of its worker, or
   was cut off at that very place. *)
THEOREM Accounting == Spec => []ReservedAccounted
BY Invariance, PTL DEF IInv

(* New evidence reopens a finding, replayed evidence does not touch it. *)
THEOREM Reopening == Spec => ReopenedByEvidence
<1> DEFINE P == \A f \in Facts :
                  /\ count'[f] > count[f] => status'[f] # "resolved"
                  /\ (wpc' # wpc /\ count'[f] = count[f]) => status'[f] = status[f]
<1>1. IInv /\ [Next]_vars => [P]_vars
  <2> SUFFICES ASSUME IInv, Next PROVE P
    OBVIOUS
  <2> USE DEF history, findingVars, workerVars
  <2>0. count \in [Facts -> Nat]
    BY DEF IInv, TypeOK
  <2>1. CASE UNCHANGED <<count, status>>
    BY <2>0, <2>1
  <2>2. ASSUME NEW w \in Workers, NEW f \in Facts, Upsert(w, f) PROVE P
    <3> SUFFICES ASSUME NEW g \in Facts
                 PROVE  /\ count'[g] > count[g] => status'[g] # "resolved"
                        /\ count'[g] = count[g] => status'[g] = status[g]
      OBVIOUS
    <3>1. PICK e \in Events : wev[w] = e
      BY <2>2, FindingsAssumption DEF IInv, TypeOK, Upsert
    <3>2. CASE g # f
      BY <2>0, <2>2, <3>2 DEF Upsert, IInv, TypeOK
    <3>3. CASE g = f /\ Added(w, f)
      BY <2>0, <2>2, <3>3 DEF Upsert, IInv, TypeOK
    <3>4. CASE g = f /\ ~Added(w, f)
      BY <2>0, <2>2, <3>1, <3>4 DEF Upsert, Added, IInv, TypeOK, Known
    <3> QED
      BY <3>2, <3>3, <3>4
  <2>3. ASSUME NEW w \in Workers, NEW f \in Facts, UpsertFails(w, f) \/ Decline(w, f) PROVE P
    BY <2>1, <2>3 DEF UpsertFails, Decline
  <2>4. ASSUME NEW w \in Workers, NEW e \in Events, Begin(w, e) \/ PassOver(w, e) PROVE P
    BY <2>1, <2>4 DEF Begin, PassOver
  <2>5. ASSUME NEW w \in Workers, Reserve(w) \/ Withhold(w) \/ Raise(w) PROVE P
    BY <2>1, <2>5 DEF Reserve, Withhold, Raise
  <2>6. ASSUME NEW w \in Workers, Enqueue(w) \/ Finish(w) \/ RaiseFails(w) PROVE P
    BY <2>1, <2>6 DEF Enqueue, Finish, RaiseFails
  <2>7. ASSUME NEW e \in Events, Store(e) \/ Prune(e) PROVE P
    BY <2>1, <2>7 DEF Store, Prune
  <2>8. ASSUME NEW f \in Facts, NEW to \in Marks, SetStatus(f, to) PROVE P
    BY <2>0, <2>8 DEF SetStatus
  <2>9. CASE Tick \/ Crash
    BY <2>1, <2>9 DEF Tick, Crash
  <2> QED
    BY <2>2, <2>3, <2>4, <2>5, <2>6, <2>7, <2>8, <2>9, Actions
<1> QED
  BY <1>1, Invariance, PTL DEF Spec, ReopenedByEvidence

===============================================================================
