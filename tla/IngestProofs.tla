----------------------------- MODULE IngestProofs -----------------------------
(***************************************************************************)
(* Proofs about Ingest, for any sensors, records, streams and capacity:    *)
(* its type invariant, its safety invariants, and that it implements       *)
(* EvidenceLog.  The inductive invariant IInv says what must hold of every *)
(* place a record can be in (spool, batch, wire, handler, answer) for the  *)
(* invariants to survive a step of any other actor.                        *)
(***************************************************************************)
EXTENDS Ingest, TLAPS

(* The controller is finished with r: it is stored and the rules saw it. *)
Done(r) == rows[r] > 0 /\ r \in published

Accepted == emitted \ dropped

(* Spool and batch hold the sensor's own accepted records, and a batch holds
   everything in the spool that sorts before one of its members. *)
Spooled ==
    \A s \in Sensors :
        /\ \A r \in spool[s] \cup batch[s] : r \in Accepted /\ Owner[r] = s
        /\ \A r \in batch[s] : ahead[r] \cap spool[s] \subseteq batch[s]

Queued == \A r \in Records : \A q \in ahead[r] : q \in Accepted /\ Owner[q] = Owner[r]

(* Whatever is under way, on a live stream or a stale one, has nothing ahead
   of it that is still to be done. *)
InFlight ==
    \A k \in Streams : \A r \in Records :
        (toCtl[k] = r \/ hmsg[k] = r) => r \in Accepted /\ \A q \in ahead[r] : Done(q)

Stored == \A r \in Records : rows[r] > 0 => r \in Accepted

(* What a handler, or an answer on its way back, has already achieved. *)
Handled ==
    \A k \in Streams :
        /\ hmsg[k] = None <=> hpc[k] \in {"gone", "start", "recv"}
        /\ hpc[k] \in {"insert", "publish"} => hmsg[k] \in Records
        /\ hpc[k] = "touch" => hmsg[k] = Beat
        /\ hpc[k] = "publish" => rows[hmsg[k]] > 0
        /\ \A r \in Records : hpc[k] = "accept" /\ hmsg[k] = r => Done(r)
        /\ \A r \in Records : toSensor[k] = [id |-> r, ok |-> TRUE] => Done(r)

(* A stream in use carries one message or its answer, in one place. *)
Lockstep ==
    \A s \in Sensors :
        /\ conn[s] = None <=> pc[s] = "down"
        /\ pc[s] = "recv" => msg[s] \in Messages
        /\ pc[s] # "recv" => msg[s] = None
        /\ \A t \in Sensors : conn[s] = conn[t] /\ conn[s] # None => s = t
        /\ \A k \in Streams : conn[s] = k =>
             /\ toCtl[k] \in {None, msg[s]}
             /\ hmsg[k] \in {None, msg[s]}
             /\ toSensor[k] # None => toSensor[k].id = msg[s]
             /\ toCtl[k] # None => hmsg[k] = None /\ toSensor[k] = None
             /\ hmsg[k] # None => toSensor[k] = None

IInv ==
    /\ TypeOK
    /\ Spooled /\ Queued /\ InFlight /\ Stored /\ Handled /\ Lockstep
    /\ ExactlyOnce /\ HandedOver /\ PublishedIsStored /\ InOrder
-------------------------------------------------------------------------------
(* A step of Next, split into its actions, is used by every proof below. *)
LEMMA Actions ==
  ASSUME Next
  PROVE  \/ \E r \in Records : Emit(r) \/ EmitFull(r)
         \/ \E s \in Sensors, k \in Streams : Connect(s, k)
         \/ \E s \in Sensors :
               \/ List(s) \/ Heartbeat(s) \/ SendRecord(s) \/ RecvBeat(s)
               \/ RecvAck(s) \/ RecvReject(s) \/ Woken(s) \/ StreamError(s)
               \/ AckError(s) \/ SensorCrash(s)
         \/ \E k \in Streams :
               \/ Start(k) \/ Recv(k) \/ RecvTooLarge(k) \/ RecvEnd(k)
               \/ Insert(k) \/ Cancelled(k) \/ Publish(k) \/ Touch(k)
               \/ Reply(k) \/ ReplyError(k)
               \/ Break(k) \/ StartError(k) \/ StoreError(k)
         \/ ControllerCrash \/ ControllerStart \/ Settle
BY DEF Next, Fault, ClientStep, HandlerStep

(* Types survive every step; a handler that publishes has a record in hand. *)
LEMMA TypeStep ==
  ASSUME TypeOK, Handled, [Next]_vars
  PROVE  TypeOK'
<1> USE IngestAssumption DEF Messages, Answers, sensorVars, clientVars, netVars, ctlVars
<1>1. ASSUME NEW r \in Records, Emit(r) PROVE TypeOK'
  BY <1>1 DEF TypeOK, Emit, Full
<1>2. ASSUME NEW r \in Records, EmitFull(r) PROVE TypeOK'
  BY <1>2 DEF TypeOK, EmitFull, Full
<1>3. ASSUME NEW s \in Sensors, NEW k \in Streams, Connect(s, k) PROVE TypeOK'
  BY <1>3 DEF TypeOK, Connect
<1>4. ASSUME NEW s \in Sensors, List(s) PROVE TypeOK'
  BY <1>4 DEF TypeOK, List
<1>5. ASSUME NEW s \in Sensors, Heartbeat(s) PROVE TypeOK'
  BY <1>5 DEF TypeOK, Heartbeat, Post
<1>6. ASSUME NEW s \in Sensors, SendRecord(s) PROVE TypeOK'
  <2>1. PICK r \in batch[s] : Post(s, r)
    BY <1>6 DEF SendRecord
  <2>2. r \in Records
    BY DEF TypeOK
  <2> QED
    BY <2>1, <2>2 DEF TypeOK, Post
<1>7. ASSUME NEW s \in Sensors, RecvBeat(s) PROVE TypeOK'
  BY <1>7 DEF TypeOK, RecvBeat, Answered
<1>8. ASSUME NEW s \in Sensors, RecvAck(s) PROVE TypeOK'
  BY <1>8 DEF TypeOK, RecvAck, Answered
<1>9. ASSUME NEW s \in Sensors, RecvReject(s) PROVE TypeOK'
  BY <1>9 DEF TypeOK, RecvReject, Disconnect, Answered
<1>10. ASSUME NEW s \in Sensors, Woken(s) PROVE TypeOK'
  BY <1>10 DEF TypeOK, Woken
<1>11. ASSUME NEW s \in Sensors, StreamError(s) PROVE TypeOK'
  BY <1>11 DEF TypeOK, StreamError, Disconnect
<1>12. ASSUME NEW s \in Sensors, AckError(s) PROVE TypeOK'
  BY <1>12 DEF TypeOK, AckError, Disconnect, Answered
<1>13. ASSUME NEW s \in Sensors, SensorCrash(s) PROVE TypeOK'
  BY <1>13 DEF TypeOK, SensorCrash, Disconnect
<1>14. ASSUME NEW k \in Streams, Start(k) PROVE TypeOK'
  BY <1>14 DEF TypeOK, Start, Goto
<1>15. ASSUME NEW k \in Streams, Recv(k) PROVE TypeOK'
  BY <1>15 DEF TypeOK, Recv, Goto
<1>16. ASSUME NEW k \in Streams, RecvTooLarge(k) PROVE TypeOK'
  BY <1>16 DEF TypeOK, RecvTooLarge, Goto, End
<1>17. ASSUME NEW k \in Streams, RecvEnd(k) PROVE TypeOK'
  BY <1>17 DEF TypeOK, RecvEnd, Goto, End
<1>18. ASSUME NEW k \in Streams, Insert(k) PROVE TypeOK'
  BY <1>18 DEF TypeOK, Insert, Goto, InsertOrIgnore
<1>19. ASSUME NEW k \in Streams, Cancelled(k) PROVE TypeOK'
  BY <1>19 DEF TypeOK, Cancelled, Goto
<1>20. ASSUME NEW k \in Streams, Publish(k) PROVE TypeOK'
  BY <1>20 DEF TypeOK, Publish, Goto, Handled
<1>21. ASSUME NEW k \in Streams, Touch(k) PROVE TypeOK'
  BY <1>21 DEF TypeOK, Touch, Goto
<1>22. ASSUME NEW k \in Streams, Reply(k) PROVE TypeOK'
  <2>1. hmsg[k] \in Messages
    BY <1>22 DEF TypeOK, Reply, Handled
  <2>2. (hpc[k] = "accept") \in BOOLEAN
    OBVIOUS
  <2>3. toSensor' \in [Streams -> Answers \cup {None}]
    BY <1>22, <2>1, <2>2 DEF TypeOK, Reply
  <2> QED
    BY <1>22, <2>3 DEF TypeOK, Reply, Goto
<1>23. ASSUME NEW k \in Streams, ReplyError(k) PROVE TypeOK'
  BY <1>23 DEF TypeOK, ReplyError, Goto, End
<1>24. ASSUME NEW k \in Streams, Break(k) PROVE TypeOK'
  BY <1>24 DEF TypeOK, Break
<1>25. ASSUME NEW k \in Streams, StartError(k) PROVE TypeOK'
  BY <1>25 DEF TypeOK, StartError, Goto, End
<1>26. ASSUME NEW k \in Streams, StoreError(k) PROVE TypeOK'
  BY <1>26 DEF TypeOK, StoreError, Goto
<1>27. CASE ControllerCrash
  BY <1>27 DEF TypeOK, ControllerCrash
<1>28. CASE ControllerStart
  BY <1>28 DEF TypeOK, ControllerStart
<1>29. CASE Settle
  BY <1>29 DEF TypeOK, Settle
<1>30. CASE UNCHANGED vars
  BY <1>30 DEF TypeOK, vars
<1> QED
  BY Actions, <1>1, <1>2, <1>3, <1>4, <1>5, <1>6, <1>7, <1>8, <1>9, <1>10, <1>11, <1>12, <1>13, <1>14, <1>15, <1>16, <1>17, <1>18, <1>19, <1>20, <1>21, <1>22, <1>23, <1>24, <1>25, <1>26, <1>27, <1>28, <1>29, <1>30
(* Only emitting, listing, acknowledging and giving up a stream change what the
   spool and the batch hold. *)
LEMMA QueueStep ==
  ASSUME IInv, [Next]_vars
  PROVE  Spooled' /\ Queued'
<1> USE IngestAssumption DEF sensorVars, clientVars, netVars, ctlVars, Accepted
<1>1. TypeOK /\ Spooled /\ Queued
  BY DEF IInv
<1>2. ASSUME NEW r \in Records, Emit(r) PROVE Spooled' /\ Queued'
  <2>1. Spooled'
    BY <1>1, <1>2 DEF TypeOK, Spooled, Queued, Emit
  <2>2. Queued'
    BY <1>1, <1>2 DEF TypeOK, Spooled, Queued, Emit
  <2> QED
    BY <2>1, <2>2
<1>3. ASSUME NEW r \in Records, EmitFull(r) PROVE Spooled' /\ Queued'
  BY <1>1, <1>3 DEF TypeOK, Spooled, Queued, EmitFull
<1>4. ASSUME NEW s \in Sensors, List(s) PROVE Spooled' /\ Queued'
  BY <1>1, <1>4 DEF TypeOK, Spooled, Queued, List
<1>5. ASSUME NEW s \in Sensors, RecvAck(s) PROVE Spooled' /\ Queued'
  BY <1>1, <1>5 DEF TypeOK, Spooled, Queued, RecvAck
<1>6. ASSUME NEW s \in Sensors, Disconnect(s), UNCHANGED sensorVars
      PROVE  Spooled' /\ Queued'
  BY <1>1, <1>6 DEF TypeOK, Spooled, Queued, Disconnect
<1>7. CASE UNCHANGED <<emitted, dropped, spool, ahead, batch>>
  BY <1>1, <1>7 DEF Spooled, Queued
<1>8. \/ \E r \in Records : Emit(r) \/ EmitFull(r)
      \/ \E s \in Sensors : \/ List(s) \/ RecvAck(s)
                            \/ Disconnect(s) /\ UNCHANGED sensorVars
      \/ UNCHANGED <<emitted, dropped, spool, ahead, batch>>
  BY Actions DEF vars, Connect, Heartbeat, SendRecord, Post, RecvBeat, RecvReject,
     Woken, StreamError, AckError, SensorCrash, Start, Recv, RecvTooLarge, RecvEnd,
     Insert, Cancelled, Publish, Touch, Reply, ReplyError, Break, StartError,
     StoreError, ControllerCrash, ControllerStart, Settle
<1> QED
  BY <1>2, <1>3, <1>4, <1>5, <1>6, <1>7, <1>8

(* What is stored and published stays so: no step takes Done back. *)
LEMMA DoneStep ==
  ASSUME IInv, [Next]_vars, NEW r \in Records
  PROVE  /\ rows[r] > 0 => rows'[r] > 0
         /\ Done(r) => Done(r)'
<1>1. ASSUME NEW k \in Streams, Insert(k) PROVE rows[r] > 0 => rows'[r] > 0
  BY <1>1 DEF IInv, TypeOK, Insert, InsertOrIgnore
<1>2. \/ \E k \in Streams : Insert(k)
      \/ UNCHANGED rows
  BY Actions DEF vars, Emit, EmitFull, Connect, List, Heartbeat, SendRecord, Post,
     RecvBeat, RecvAck, RecvReject, Woken, StreamError, AckError, SensorCrash,
     Start, Recv, RecvTooLarge, RecvEnd, Cancelled, Publish, Touch, Reply,
     ReplyError, Break, StartError, StoreError, ControllerCrash,
     ControllerStart, Settle, ctlVars
<1>3. published \subseteq published'
  BY Actions DEF vars, Emit, EmitFull, Connect, List, Heartbeat, SendRecord, Post,
     RecvBeat, RecvAck, RecvReject, Woken, StreamError, AckError, SensorCrash,
     Start, Recv, RecvTooLarge, RecvEnd, Insert, Cancelled, Publish, Touch, Reply,
     ReplyError, Break, StartError, StoreError, ControllerCrash,
     ControllerStart, Settle, ctlVars
<1> QED
  BY <1>1, <1>2, <1>3 DEF Done

(* Rows, publications and the records accepted by the spool change only when a
   session emits, the client acknowledges, or a handler inserts or publishes. *)
LEMMA LogStep ==
  ASSUME IInv, [Next]_vars
  PROVE  Stored' /\ ExactlyOnce' /\ HandedOver' /\ PublishedIsStored' /\ InOrder'
<1> USE IngestAssumption DEF sensorVars, clientVars, netVars, ctlVars, Accepted
<1> DEFINE Goal == Stored /\ ExactlyOnce /\ HandedOver /\ PublishedIsStored /\ InOrder
<1>1. TypeOK /\ Goal /\ Spooled /\ Queued /\ InFlight /\ Handled
  BY DEF IInv
<1>2. ASSUME NEW r \in Records, Emit(r) PROVE Goal'
  <2>1. rows[r] = 0 /\ r \notin published
    BY <1>1, <1>2 DEF TypeOK, Stored, PublishedIsStored, Emit
  <2>2. \A q \in Records : r \notin ahead[q]
    BY <1>1, <1>2 DEF TypeOK, Queued, Emit
  <2>3. Stored' /\ ExactlyOnce' /\ PublishedIsStored'
    BY <1>1, <1>2 DEF TypeOK, Stored, ExactlyOnce, PublishedIsStored, Emit
  <2>4. HandedOver'
    BY <1>1, <1>2 DEF TypeOK, HandedOver, Emit
  <2>5. InOrder'
    BY <1>1, <1>2, <2>1, <2>2 DEF TypeOK, InOrder, Emit
  <2> QED
    BY <2>3, <2>4, <2>5
<1>3. ASSUME NEW r \in Records, EmitFull(r) PROVE Goal'
  BY <1>1, <1>3 DEF TypeOK, Stored, ExactlyOnce, HandedOver, PublishedIsStored,
                    InOrder, EmitFull
<1>4. ASSUME NEW s \in Sensors, RecvAck(s) PROVE Goal'
  <2>1. Done(msg[s])
    BY <1>1, <1>4, IInv DEF TypeOK, IInv, Handled, RecvAck, Answered, Lockstep
  <2>2. HandedOver'
    BY <1>1, <1>4, <2>1 DEF TypeOK, HandedOver, RecvAck, Done
  <2> QED
    BY <1>1, <1>4, <2>2 DEF Stored, ExactlyOnce, PublishedIsStored, InOrder, RecvAck
<1>5. ASSUME NEW k \in Streams, Insert(k) PROVE Goal'
  <2>1. /\ hmsg[k] \in Records /\ hmsg[k] \in Accepted
        /\ \A q \in ahead[hmsg[k]] : Done(q)
    BY <1>1, <1>5 DEF Handled, InFlight, Insert
  <2>2. /\ rows' \in [Records -> Nat]
        /\ rows'[hmsg[k]] > 0
        /\ \A r \in Records : r # hmsg[k] => rows'[r] = rows[r]
        /\ \A r \in Records : rows'[r] <= 1 /\ (rows[r] > 0 => rows'[r] > 0)
    BY <1>1, <1>5, <2>1 DEF TypeOK, ExactlyOnce, Insert, InsertOrIgnore
  <2>3. UNCHANGED <<emitted, dropped, spool, ahead, published>>
    BY <1>5 DEF Insert
  <2>4. Stored' /\ ExactlyOnce' /\ PublishedIsStored'
    BY <1>1, <2>1, <2>2, <2>3 DEF TypeOK, Stored, ExactlyOnce, PublishedIsStored
  <2>5. HandedOver'
    BY <1>1, <2>2, <2>3 DEF TypeOK, HandedOver
  <2>6. InOrder'
    BY <1>1, <2>1, <2>2, <2>3 DEF TypeOK, InOrder, Done
  <2> QED
    BY <2>4, <2>5, <2>6
<1>6. ASSUME NEW k \in Streams, Publish(k) PROVE Goal'
  <2>1. /\ hmsg[k] \in Records /\ rows[hmsg[k]] > 0
        /\ \A q \in ahead[hmsg[k]] : Done(q)
    BY <1>1, <1>6 DEF Handled, InFlight, Publish
  <2> QED
    BY <1>1, <1>6, <2>1 DEF TypeOK, Stored, ExactlyOnce, HandedOver, PublishedIsStored,
                            InOrder, Publish, Done
<1>7. CASE UNCHANGED <<emitted, dropped, spool, ahead, rows, published>>
  BY <1>1, <1>7 DEF Stored, ExactlyOnce, HandedOver, PublishedIsStored, InOrder
<1>8. \/ \E r \in Records : Emit(r) \/ EmitFull(r)
      \/ \E s \in Sensors : RecvAck(s)
      \/ \E k \in Streams : Insert(k) \/ Publish(k)
      \/ UNCHANGED <<emitted, dropped, spool, ahead, rows, published>>
  BY Actions DEF vars, Connect, List, Heartbeat, SendRecord, Post, RecvBeat, RecvReject,
     Woken, StreamError, AckError, SensorCrash, Start, Recv, RecvTooLarge, RecvEnd,
     Cancelled, Touch, Reply, ReplyError, Break, StartError, StoreError,
     ControllerCrash, ControllerStart, Settle
<1> QED
  BY <1>2, <1>3, <1>4, <1>5, <1>6, <1>7, <1>8

(* A message goes out only when everything ahead of it is done, and that lasts. *)
LEMMA FlightStep ==
  ASSUME IInv, [Next]_vars
  PROVE  InFlight'
<1> USE IngestAssumption DEF sensorVars, clientVars, netVars, ctlVars, Accepted, Messages
<1>1. TypeOK /\ Spooled /\ Queued /\ InFlight /\ HandedOver
  BY DEF IInv
<1>2. \A q \in Records : Done(q) => Done(q)'
  BY DoneStep
<1>3. ASSUME NEW r \in Records, Emit(r) PROVE InFlight'
  <2>1. \A k \in Streams : toCtl[k] # r /\ hmsg[k] # r
    BY <1>1, <1>3 DEF InFlight, Emit
  <2> QED
    BY <1>1, <1>2, <1>3, <2>1 DEF TypeOK, InFlight, Emit
<1>4. ASSUME NEW r \in Records, EmitFull(r) PROVE InFlight'
  BY <1>1, <1>2, <1>4 DEF TypeOK, InFlight, EmitFull
<1>5. ASSUME NEW s \in Sensors, SendRecord(s) PROVE InFlight'
  <2>1. PICK r \in batch[s] : First(s, r) /\ Post(s, r)
    BY <1>5 DEF SendRecord
  <2>2. r \in Records /\ r \in Accepted /\ Owner[r] = s
    BY <1>1 DEF TypeOK, Spooled
  <2>3. ASSUME NEW q \in ahead[r] PROVE Done(q)
    <3>1. q \in Records /\ q \in Accepted /\ Owner[q] = s
      BY <1>1, <2>2 DEF TypeOK, Queued
    <3>2. q \notin spool[s]
      BY <1>1, <2>1 DEF Spooled, First
    <3> QED
      BY <1>1, <3>1, <3>2 DEF HandedOver, Done
  <2> QED
    BY <1>1, <1>2, <2>1, <2>2, <2>3 DEF TypeOK, InFlight, Post
<1> DEFINE Carried == /\ UNCHANGED <<emitted, dropped, ahead>>
                      /\ \A k \in Streams : /\ toCtl'[k] \in {None, Beat, toCtl[k]}
                                             /\ hmsg'[k] \in {None, hmsg[k], toCtl[k]}
<1>6. CASE Carried
  BY <1>1, <1>2, <1>6 DEF TypeOK, InFlight
<1>7. ASSUME NEW s \in Sensors,
             \/ List(s) \/ Heartbeat(s) \/ RecvBeat(s) \/ RecvAck(s) \/ RecvReject(s)
             \/ Woken(s) \/ StreamError(s) \/ AckError(s) \/ SensorCrash(s)
      PROVE  Carried
  BY <1>1, <1>7 DEF TypeOK, List, Heartbeat, Post, RecvBeat, RecvAck, RecvReject,
     Disconnect, Woken, StreamError, AckError, SensorCrash
<1>8. ASSUME NEW k \in Streams,
             \/ Start(k) \/ Recv(k) \/ RecvTooLarge(k) \/ RecvEnd(k) \/ Insert(k)
             \/ Cancelled(k) \/ Publish(k) \/ Touch(k) \/ Reply(k) \/ ReplyError(k)
             \/ Break(k) \/ StartError(k) \/ StoreError(k)
      PROVE  Carried
  BY <1>1, <1>8 DEF TypeOK, Start, Recv, RecvTooLarge, RecvEnd, End, Insert, Cancelled,
     Publish, Touch, Reply, ReplyError, Break, StartError, StoreError
<1>9. ASSUME \/ \E s \in Sensors, k \in Streams : Connect(s, k)
             \/ ControllerCrash \/ ControllerStart \/ Settle \/ UNCHANGED vars
      PROVE  Carried
  BY <1>1, <1>9 DEF TypeOK, Connect, ControllerCrash, ControllerStart, Settle, vars
<1> QED
  BY <1>3, <1>4, <1>5, <1>6, <1>7, <1>8, <1>9, Actions

(* What a handler has done for its message is not undone while it answers. *)
LEMMA HandledStep ==
  ASSUME IInv, [Next]_vars
  PROVE  Handled'
<1> USE IngestAssumption DEF sensorVars, clientVars, netVars, ctlVars, Messages, Goto
<1>1. TypeOK /\ Handled /\ TypeOK'
  BY TypeStep DEF IInv
<1>2. \A q \in Records : (rows[q] > 0 => rows'[q] > 0) /\ (Done(q) => Done(q)')
  BY DoneStep
<1>0. ASSUME NEW q \in Records PROVE [id |-> q, ok |-> TRUE] # None
  <2>1. q \in Messages
    OBVIOUS
  <2>2. [id |-> q, ok |-> TRUE] \in Answers
    BY <2>1, Zenon DEF Answers
  <2>3. None \notin Answers
    BY IngestAssumption
  <2> QED
    BY <2>2, <2>3
<1>3. ASSUME NEW s \in Sensors, NEW k \in Streams, Connect(s, k) PROVE Handled'
  BY <1>0, <1>1, <1>2, <1>3 DEF TypeOK, Handled, Connect
<1>4. ASSUME NEW s \in Sensors, RecvBeat(s) \/ RecvAck(s) PROVE Handled'
  BY <1>0, <1>1, <1>2, <1>4 DEF TypeOK, Handled, RecvBeat, RecvAck
<1>5. ASSUME NEW k \in Streams, Start(k) PROVE Handled'
  BY <1>1, <1>2, <1>5 DEF TypeOK, Handled, Start
<1>6. ASSUME NEW k \in Streams, Recv(k) PROVE Handled'
  BY <1>1, <1>2, <1>6 DEF TypeOK, Handled, Recv
<1>7. ASSUME NEW k \in Streams, UNCHANGED <<toSensor, rows, published>>, End(k)
      PROVE  Handled'
  BY <1>1, <1>2, <1>7 DEF TypeOK, Handled, End
<1>8. ASSUME NEW k \in Streams, Insert(k) PROVE Handled'
  <2>1. hmsg[k] \in Records /\ rows'[hmsg[k]] > 0
    BY <1>1, <1>8 DEF TypeOK, Handled, Insert, InsertOrIgnore
  <2> QED
    BY <1>1, <1>2, <1>8, <2>1 DEF TypeOK, Handled, Insert
<1>9. ASSUME NEW k \in Streams, Cancelled(k) \/ StoreError(k) PROVE Handled'
  BY <1>1, <1>2, <1>9 DEF TypeOK, Handled, Cancelled, StoreError
<1>10. ASSUME NEW k \in Streams, Publish(k) PROVE Handled'
  <2>1. hmsg[k] \in Records /\ Done(hmsg[k])'
    BY <1>1, <1>10 DEF TypeOK, Handled, Publish, Done
  <2> QED
    BY <1>1, <1>2, <1>10, <2>1 DEF TypeOK, Handled, Publish
<1>11. ASSUME NEW k \in Streams, Touch(k) PROVE Handled'
  BY <1>1, <1>2, <1>11, IInv DEF TypeOK, Handled, Touch, IInv
<1>12. ASSUME NEW k \in Streams, Reply(k) PROVE Handled'
  <2>1. ASSUME NEW q \in Records, toSensor'[k] = [id |-> q, ok |-> TRUE]
        PROVE  hmsg[k] = q /\ hpc[k] = "accept"
    <3>1. toSensor'[k] = [id |-> hmsg[k], ok |-> hpc[k] = "accept"]
      BY <1>1, <1>12 DEF TypeOK, Reply
    <3>2. /\ [id |-> hmsg[k], ok |-> hpc[k] = "accept"].id = hmsg[k]
          /\ [id |-> hmsg[k], ok |-> hpc[k] = "accept"].ok = (hpc[k] = "accept")
          /\ [id |-> q, ok |-> TRUE].id = q
          /\ [id |-> q, ok |-> TRUE].ok = TRUE
      BY Zenon
    <3> QED
      BY <2>1, <3>1, <3>2, Zenon
  <2>2. ASSUME NEW q \in Records, toSensor'[k] = [id |-> q, ok |-> TRUE]
        PROVE  Done(q)'
    BY <1>1, <1>2, <2>1, <2>2 DEF Handled
  <2>3. \A j \in Streams : j # k => toSensor'[j] = toSensor[j]
    BY <1>1, <1>12 DEF TypeOK, Reply
  <2>4. ASSUME NEW j \in Streams
        PROVE  \A q \in Records : toSensor'[j] = [id |-> q, ok |-> TRUE] => Done(q)'
    BY <1>1, <1>2, <2>2, <2>3 DEF Handled
  <2>5. UNCHANGED <<rows, published>>
    BY <1>12 DEF Reply
  <2> QED
    BY <1>1, <1>12, <2>4, <2>5 DEF TypeOK, Handled, Reply, Done
<1>13. CASE ControllerCrash
  BY <1>1, <1>2, <1>13 DEF TypeOK, Handled, ControllerCrash
<1>14. CASE UNCHANGED <<hpc, hmsg, toSensor, rows, published>>
  BY <1>1, <1>14 DEF Handled, Done
<1>15. \/ \E s \in Sensors, k \in Streams : Connect(s, k)
       \/ \E s \in Sensors : RecvBeat(s) \/ RecvAck(s)
       \/ \E k \in Streams : \/ Start(k) \/ Recv(k) \/ Insert(k) \/ Cancelled(k)
                             \/ StoreError(k) \/ Publish(k) \/ Touch(k) \/ Reply(k)
                             \/ UNCHANGED <<toSensor, rows, published>> /\ End(k)
       \/ ControllerCrash
       \/ UNCHANGED <<hpc, hmsg, toSensor, rows, published>>
  BY Actions DEF vars, Emit, EmitFull, List, Heartbeat, SendRecord, Post, RecvReject,
     Disconnect, Woken, StreamError, AckError, SensorCrash, RecvTooLarge, RecvEnd,
     ReplyError, Break, StartError, ControllerStart, Settle
<1> QED
  BY <1>3, <1>4, <1>5, <1>6, <1>7, <1>8, <1>9, <1>10, <1>11, <1>12, <1>13, <1>14, <1>15

(* The exchange on a stream stays in step with the client that uses it. *)
LEMMA LockstepStep ==
  ASSUME IInv, [Next]_vars
  PROVE  Lockstep'
<1> USE IngestAssumption DEF sensorVars, clientVars, netVars, ctlVars, Messages, Goto
<1>1. TypeOK /\ Handled /\ Lockstep
  BY DEF IInv
<1>2. ASSUME NEW s \in Sensors, NEW k \in Streams, Connect(s, k) PROVE Lockstep'
  BY <1>1, <1>2 DEF TypeOK, Lockstep, Connect
<1>3. ASSUME NEW s \in Sensors, List(s) \/ Woken(s) PROVE Lockstep'
  BY <1>1, <1>3 DEF TypeOK, Lockstep, List, Woken
<1>4. ASSUME NEW s \in Sensors, NEW m \in Messages, pc[s] \in {"beat", "send"}, Post(s, m)
      PROVE  Lockstep'
  <2>1. conn[s] \in Streams /\ msg[s] = None
    BY <1>1, <1>4 DEF TypeOK, Lockstep
  <2>2. /\ toCtl[conn[s]] = None /\ hmsg[conn[s]] = None
        /\ toSensor[conn[s]] = None
    BY <1>1, <1>4, <2>1 DEF TypeOK, Lockstep, Answers
  <2> QED
    BY <1>1, <1>4, <2>1, <2>2 DEF TypeOK, Lockstep, Post
<1>5. ASSUME NEW s \in Sensors, RecvBeat(s) \/ RecvAck(s) PROVE Lockstep'
  <2>1. conn[s] \in Streams /\ toSensor[conn[s]] # None
    <3>1. [id |-> msg[s], ok |-> TRUE] \in Answers
      BY <1>1, <1>5, Zenon DEF Answers, RecvBeat, RecvAck
    <3> QED
      BY <1>1, <1>5, <3>1 DEF TypeOK, Lockstep, RecvBeat, RecvAck, Answered
  <2>2. toCtl[conn[s]] = None /\ hmsg[conn[s]] = None
    BY <1>1, <2>1 DEF Lockstep
  <2>3. CASE RecvBeat(s)
    BY <1>1, <2>1, <2>2, <2>3 DEF TypeOK, Lockstep, RecvBeat
  <2>4. CASE RecvAck(s)
    BY <1>1, <2>1, <2>2, <2>4 DEF TypeOK, Lockstep, RecvAck
  <2> QED
    BY <1>5, <2>3, <2>4
<1>6. ASSUME NEW s \in Sensors, Disconnect(s), UNCHANGED hmsg PROVE Lockstep'
  BY <1>1, <1>6 DEF TypeOK, Lockstep, Disconnect
<1>7. ASSUME NEW k \in Streams, Recv(k) PROVE Lockstep'
  BY <1>1, <1>7 DEF TypeOK, Lockstep, Recv
<1>8. ASSUME NEW k \in Streams, Reply(k) PROVE Lockstep'
  <2>1. toSensor'[k].id = hmsg[k] /\ hmsg[k] # None
    BY <1>1, <1>8 DEF TypeOK, Handled, Reply
  <2> QED
    BY <1>1, <1>8, <2>1 DEF TypeOK, Lockstep, Reply
<1>9. CASE /\ UNCHANGED <<pc, conn, msg, toSensor>>
           /\ \A k \in Streams : /\ toCtl'[k] \in {None, toCtl[k]}
                                  /\ hmsg'[k] \in {None, hmsg[k]}
  BY <1>1, <1>9 DEF TypeOK, Lockstep
<1>10. ASSUME NEW k \in Streams, \/ RecvTooLarge(k) \/ RecvEnd(k) \/ ReplyError(k)
                                 \/ StartError(k)
       PROVE  Lockstep'
  BY <1>1, <1>9, <1>10 DEF TypeOK, RecvTooLarge, RecvEnd, ReplyError, StartError, End
<1>11. CASE ControllerCrash
  BY <1>1, <1>9, <1>11 DEF TypeOK, ControllerCrash
<1>12. CASE UNCHANGED <<pc, conn, msg, toSensor, toCtl, hmsg>>
  BY <1>1, <1>12 DEF Lockstep
<1>13. ASSUME NEW s \in Sensors, Heartbeat(s) PROVE Lockstep'
  BY <1>4, <1>13 DEF Heartbeat
<1>14. ASSUME NEW s \in Sensors, SendRecord(s) PROVE Lockstep'
  BY <1>1, <1>4, <1>14 DEF TypeOK, SendRecord
<1>15. ASSUME NEW s \in Sensors,
              RecvReject(s) \/ StreamError(s) \/ AckError(s) \/ SensorCrash(s)
       PROVE  Lockstep'
  BY <1>6, <1>15 DEF RecvReject, StreamError, AckError, SensorCrash
<1>16. \/ \E r \in Records : Emit(r) \/ EmitFull(r)
       \/ \E k \in Streams : \/ Start(k) \/ Insert(k) \/ Cancelled(k) \/ Publish(k)
                             \/ Touch(k) \/ Break(k) \/ StoreError(k)
       \/ ControllerStart \/ Settle \/ UNCHANGED vars
       => UNCHANGED <<pc, conn, msg, toSensor, toCtl, hmsg>>
  BY DEF vars, Emit, EmitFull, Start, Insert, Cancelled, Publish, Touch, Break,
     StoreError, ControllerStart, Settle
<1> QED
  BY <1>2, <1>3, <1>5, <1>7, <1>8, <1>10, <1>11, <1>12, <1>13, <1>14, <1>15, <1>16, Actions
-------------------------------------------------------------------------------
(* The inductive invariant holds throughout every behaviour. *)
THEOREM Invariance == Spec => []IInv
<1>1. Init => IInv
  <2>1. Init => TypeOK
    <3>1. Init => ctl \in BOOLEAN /\ alive \in [Streams -> BOOLEAN] /\ calm \in BOOLEAN
      BY DEF Init
    <3> QED
      BY <3>1 DEF Init, TypeOK
  <2>2. Init => Spooled /\ Queued /\ Stored
    BY IngestAssumption DEF Init, Spooled, Queued, Stored
  <2>3. Init => InFlight /\ Handled /\ Lockstep
    <3>1. \A r \in Records : None # [id |-> r, ok |-> TRUE]
      <4>1. \A r \in Records : [id |-> r, ok |-> TRUE] \in Answers
        BY Zenon DEF Answers, Messages
      <4> QED
        BY <4>1, IngestAssumption
    <3> QED
      BY <3>1, IngestAssumption DEF Init, InFlight, Handled, Lockstep, Messages
  <2>4. Init => ExactlyOnce /\ HandedOver /\ PublishedIsStored /\ InOrder
    BY DEF Init, ExactlyOnce, HandedOver, PublishedIsStored, InOrder
  <2> QED
    BY <2>1, <2>2, <2>3, <2>4 DEF IInv
<1>2. IInv /\ [Next]_vars => IInv'
  <2>1. ASSUME IInv, [Next]_vars PROVE TypeOK'
    BY <2>1, TypeStep DEF IInv
  <2> QED
    BY <2>1, QueueStep, LogStep, FlightStep, HandledStep, LockstepStep DEF IInv
<1> QED
  BY <1>1, <1>2, PTL DEF Spec

(* Every variable keeps its type. *)
THEOREM TypeCorrect == Spec => []TypeOK
BY Invariance, PTL DEF IInv

(* However often a record is sent, by retries and by stale handlers side by
   side, the events table holds it at most once. *)
THEOREM RowsUnique == Spec => []ExactlyOnce
BY Invariance, PTL DEF IInv

(* A record accepted by the spool is in the spool, or stored and published:
   no crash, break, refusal or restart lets it fall between the two. *)
THEOREM NothingLost == Spec => []HandedOver
BY Invariance, PTL DEF IInv

(* Only committed events reach the live views and the alert rules. *)
THEOREM PublishedCommitted == Spec => []PublishedIsStored
BY Invariance, PTL DEF IInv

(* Events of one sensor are stored and published in spool order. *)
THEOREM Ordered == Spec => []InOrder
BY Invariance, PTL DEF IInv

(* The ack-mismatch branches of the client are dead code. *)
THEOREM NoMismatch == Spec => []AnswersMatch
<1>1. IInv => AnswersMatch
  BY IngestAssumption DEF IInv, TypeOK, Lockstep, AnswersMatch
<1> QED
  BY <1>1, Invariance, PTL

(* The evidence path implements the log of EvidenceLog: with the records in
   spool and database read as stages, every step is a step of the log or
   leaves it alone. *)
THEOREM Refinement == Spec => ImplementsLog
<1> USE IngestAssumption DEF sensorVars, clientVars, netVars, ctlVars, Accepted
<1>1. Init => Evidence!Init
  BY DEF Init, Evidence!Init, Stage
<1>2. ASSUME IInv, [Next]_vars PROVE [Evidence!Next]_(Evidence!vars)
  <2> DEFINE stage == [r \in Records |-> Stage(r)]
  <2>1. TypeOK /\ Stored /\ HandedOver /\ InFlight /\ Handled
    BY <1>2 DEF IInv
  <2>2. ASSUME NEW r \in Records, Emit(r) PROVE Evidence!Next
    <3>1. stage[r] = "new" /\ stage' = [stage EXCEPT ![r] = "held"]
      <4>1. Stage(r) = "new" /\ Stage(r)' = "held"
        BY <2>1, <2>2 DEF TypeOK, Stored, Emit, Stage
      <4>2. ASSUME NEW q \in Records, q # r PROVE Stage(q)' = Stage(q)
        BY <2>1, <2>2, <4>2 DEF TypeOK, Emit, Stage
      <4> QED
        BY <4>1, <4>2
    <3> QED
      BY <2>2, <3>1 DEF Emit, Evidence!Next, Evidence!Accept, Evidence!Move
  <2>3. ASSUME NEW r \in Records, EmitFull(r) PROVE Evidence!Next
    <3>1. stage[r] = "new" /\ stage' = [stage EXCEPT ![r] = "refused"]
      BY <2>1, <2>3 DEF TypeOK, EmitFull, Stage
    <3> QED
      BY <2>3, <3>1 DEF EmitFull, Evidence!Next, Evidence!Refuse, Evidence!Move
  <2>4. ASSUME NEW s \in Sensors, RecvAck(s) PROVE [Evidence!Next]_(Evidence!vars)
    <3>0. PICK m \in Records : m = msg[s]
      BY <2>4 DEF RecvAck
    <3>1. Done(m)
      BY <1>2, <2>1, <2>4, <3>0 DEF TypeOK, IInv, Lockstep, Handled, RecvAck, Answered
    <3>2. m \in Accepted
      BY <2>1, <3>1 DEF Stored, Done
    <3>3. CASE m \in spool[s] /\ Owner[m] = s
      <4>1. stage[m] = "logged" /\ stage' = [stage EXCEPT ![m] = "released"]
        <5>1. Stage(m) = "logged" /\ Stage(m)' = "released"
          BY <2>1, <2>4, <3>0, <3>1, <3>2, <3>3 DEF TypeOK, RecvAck, Stage, Done
        <5>2. ASSUME NEW q \in Records, q # m PROVE Stage(q)' = Stage(q)
          BY <2>1, <2>4, <3>0, <5>2 DEF TypeOK, RecvAck, Stage
        <5> QED
          BY <5>1, <5>2
      <4> QED
        BY <2>4, <3>0, <3>1, <4>1 DEF RecvAck, Done, Evidence!Next, Evidence!LetGo, Evidence!Move
    <3>4. CASE ~(m \in spool[s] /\ Owner[m] = s)
      <4>1. stage' = stage
        BY <2>1, <2>4, <3>0, <3>4 DEF TypeOK, RecvAck, Stage
      <4> QED
        BY <2>4, <4>1 DEF RecvAck, Evidence!vars
    <3> QED
      BY <3>3, <3>4
  <2>5. ASSUME NEW k \in Streams, Insert(k) PROVE [Evidence!Next]_(Evidence!vars)
    <3>0. PICK m \in Records : m = hmsg[k]
      BY <2>1, <2>5 DEF Handled, Insert
    <3>1. m \in Accepted
      BY <2>1, <2>5, <3>0 DEF Handled, InFlight, Insert
    <3>2. CASE rows[m] = 0
      <4>1. m \in spool[Owner[m]]
        BY <2>1, <3>1, <3>2 DEF TypeOK, HandedOver
      <4>2. stage[m] = "held" /\ stage' = [stage EXCEPT ![m] = "logged"]
        <5>1. Stage(m) = "held" /\ Stage(m)' = "logged"
          BY <2>1, <2>5, <3>0, <3>1, <3>2, <4>1 DEF TypeOK, Insert, InsertOrIgnore, Stage
        <5>2. ASSUME NEW q \in Records, q # m PROVE Stage(q)' = Stage(q)
          BY <2>1, <2>5, <3>0, <5>2 DEF TypeOK, Insert, Stage
        <5> QED
          BY <5>1, <5>2
      <4> QED
        BY <2>5, <3>0, <4>2 DEF Insert, Evidence!Next, Evidence!Log, Evidence!Move
    <3>3. CASE rows[m] # 0
      <4>1. rows' = rows
        BY <2>1, <2>5, <3>0, <3>3 DEF TypeOK, Insert, InsertOrIgnore
      <4> QED
        BY <2>5, <4>1 DEF Insert, Stage, Evidence!vars
    <3> QED
      BY <3>2, <3>3
  <2>6. ASSUME NEW k \in Streams, Publish(k) PROVE Evidence!Next
    <3> DEFINE m == hmsg[k]
    <3>1. m \in Records /\ m \in Accepted /\ rows[m] > 0
      BY <2>1, <2>6 DEF Handled, InFlight, Publish
    <3>2. stage[m] \in {"logged", "released"}
      BY <2>1, <3>1 DEF TypeOK, Stage
    <3>3. stage' = stage
      BY <2>6 DEF Publish, Stage
    <3> QED
      BY <2>6, <3>1, <3>2, <3>3 DEF Publish, Evidence!Next, Evidence!Announce
  <2>7. CASE UNCHANGED <<emitted, dropped, spool, rows, published>>
    BY <2>7 DEF Stage, Evidence!vars
  <2>8. \/ \E r \in Records : Emit(r) \/ EmitFull(r)
        \/ \E s \in Sensors : RecvAck(s)
        \/ \E k \in Streams : Insert(k) \/ Publish(k)
        \/ UNCHANGED <<emitted, dropped, spool, rows, published>>
    BY <1>2, Actions DEF vars, Connect, List, Heartbeat, SendRecord, Post, RecvBeat,
       RecvReject, Woken, StreamError, AckError, SensorCrash, Start, Recv,
       RecvTooLarge, RecvEnd, Cancelled, Touch, Reply, ReplyError, Break,
       StartError, StoreError, ControllerCrash, ControllerStart, Settle
  <2> QED
    BY <2>2, <2>3, <2>4, <2>5, <2>6, <2>7, <2>8
<1> QED
  BY <1>1, <1>2, Invariance, PTL DEF Spec, ImplementsLog, Evidence!Spec

===============================================================================
