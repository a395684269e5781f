-------------------------------- MODULE Ingest --------------------------------
(***************************************************************************)
(* The evidence path from a sensor's spool to the controller's database:   *)
(*                                                                         *)
(*   sensor      Client.Emit, Run, runOnce, heartbeat  transport/client.go *)
(*   controller  Server.Stream                         transport/server.go *)
(*               Store.Insert, one row per event       store/store.go      *)
(*               publish, before the acknowledgement   cmd/fyke/main.go    *)
(*                                                                         *)
(* One upload loop per sensor talks over one stream at a time and waits    *)
(* for the answer to each message.  When a stream breaks the client opens  *)
(* another at once, while the controller's handler of the old one may      *)
(* still hold the last message: Streams are the handlers that can exist    *)
(* side by side.  The spool is the DurableQueue that Spool implements,     *)
(* counted in records; Retention removes rows, which is another module.    *)
(***************************************************************************)
EXTENDS Naturals, FiniteSets

CONSTANTS Sensors, Records, Streams,
          Owner,      \* the sensor that emits a record
          Oversize,   \* records larger than the server's MaxRecvMsgSize
          Capacity,   \* records the spool has room for
          Beat,       \* a heartbeat envelope
          None

(* Envelopes are known by their id, answers by the id and Ack.Accepted. *)
Messages == Records \cup {Beat}
Answers  == [id : Messages, ok : BOOLEAN]

ASSUME IngestAssumption ==
    /\ Owner \in [Records -> Sensors]
    /\ Oversize \subseteq Records
    /\ Capacity \in Nat
    /\ Beat \notin Records
    /\ None \notin Messages \cup Streams \cup Answers

VARIABLES
    emitted,    \* history: records handed to Client.Emit
    dropped,    \* history: records for which Put returned ErrFull
    spool,      \* per sensor, the records in its spool
    ahead,      \* per record, those in the spool when it was Put (name order)
    pc,         \* per sensor, where runOnce is
    conn,       \* per sensor, the stream runOnce uses
    batch,      \* per sensor, records of the last List still to be sent
    msg,        \* per sensor, the message awaiting its answer
    ctl,        \* the controller is running
    alive,      \* per stream, neither end has failed or closed it
    toCtl,      \* per stream, the envelope in flight
    toSensor,   \* per stream, the answer in flight
    hpc,        \* per stream, where the controller's handler is
    hmsg,       \* per stream, the message the handler works on
    rows,       \* per record, its rows in the events table
    published,  \* records passed to the broker and the alert rules
    calm        \* for the liveness property: nothing fails from now on

sensorVars == <<emitted, dropped, spool, ahead, calm>>
clientVars == <<pc, conn, batch, msg>>
netVars    == <<alive, toCtl, toSensor>>
ctlVars    == <<ctl, hpc, hmsg, rows, published>>
vars == <<emitted, dropped, spool, ahead, pc, conn, batch, msg, ctl, alive,
          toCtl, toSensor, hpc, hmsg, rows, published, calm>>

TypeOK ==
    /\ emitted \subseteq Records /\ dropped \subseteq emitted
    /\ spool \in [Sensors -> SUBSET Records]
    /\ ahead \in [Records -> SUBSET Records]
    /\ pc \in [Sensors -> {"down", "list", "beat", "send", "recv", "wait"}]
    /\ conn \in [Sensors -> Streams \cup {None}]
    /\ batch \in [Sensors -> SUBSET Records]
    /\ msg \in [Sensors -> Messages \cup {None}]
    /\ ctl \in BOOLEAN
    /\ alive \in [Streams -> BOOLEAN]
    /\ toCtl \in [Streams -> Messages \cup {None}]
    /\ toSensor \in [Streams -> Answers \cup {None}]
    /\ hpc \in [Streams -> {"gone", "start", "recv", "insert", "publish",
                            "touch", "accept", "refuse"}]
    /\ hmsg \in [Streams -> Messages \cup {None}]
    /\ rows \in [Records -> Nat]
    /\ published \subseteq Records
    /\ calm \in BOOLEAN

Init ==
    /\ emitted = {} /\ dropped = {}
    /\ spool = [s \in Sensors |-> {}]
    /\ ahead = [r \in Records |-> {}]
    /\ pc = [s \in Sensors |-> "down"]
    /\ conn = [s \in Sensors |-> None]
    /\ batch = [s \in Sensors |-> {}]
    /\ msg = [s \in Sensors |-> None]
    /\ ctl = TRUE
    /\ alive = [k \in Streams |-> FALSE]
    /\ toCtl = [k \in Streams |-> None]
    /\ toSensor = [k \in Streams |-> None]
    /\ hpc = [k \in Streams |-> "gone"]
    /\ hmsg = [k \in Streams |-> None]
    /\ rows = [r \in Records |-> 0]
    /\ published = {}
    /\ calm = FALSE
-------------------------------------------------------------------------------
(* Sessions emit events; Put either queues the record or refuses it at once. *)
Full(s) == Cardinality(spool[s]) >= Capacity

Emit(r) ==
    /\ r \notin emitted
    /\ ~Full(Owner[r])
    /\ emitted' = emitted \cup {r}
    /\ spool' = [spool EXCEPT ![Owner[r]] = @ \cup {r}]
    /\ ahead' = [ahead EXCEPT ![r] = spool[Owner[r]]]
    /\ UNCHANGED <<dropped, calm, clientVars, netVars, ctlVars>>

EmitFull(r) ==
    /\ r \notin emitted
    /\ Full(Owner[r])
    /\ emitted' = emitted \cup {r}
    /\ dropped' = dropped \cup {r}
    /\ UNCHANGED <<spool, ahead, calm, clientVars, netVars, ctlVars>>
-------------------------------------------------------------------------------
(* runOnce opens a stream; the handler on the controller starts by itself. *)
Connect(s, k) ==
    /\ pc[s] = "down" /\ ctl
    /\ hpc[k] = "gone" /\ \A t \in Sensors : conn[t] # k
    /\ pc' = [pc EXCEPT ![s] = "list"]
    /\ conn' = [conn EXCEPT ![s] = k]
    /\ alive' = [alive EXCEPT ![k] = TRUE]
    /\ toCtl' = [toCtl EXCEPT ![k] = None]
    /\ toSensor' = [toSensor EXCEPT ![k] = None]
    /\ hpc' = [hpc EXCEPT ![k] = "start"]
    /\ hmsg' = [hmsg EXCEPT ![k] = None]
    /\ UNCHANGED <<batch, msg, ctl, rows, published, sensorVars>>

(* An empty List is answered by a heartbeat, the others by sending. *)
List(s) ==
    /\ pc[s] = "list"
    /\ batch' = [batch EXCEPT ![s] = spool[s]]
    /\ pc' = [pc EXCEPT ![s] = IF spool[s] = {} THEN "beat" ELSE "send"]
    /\ UNCHANGED <<conn, msg, netVars, ctlVars, sensorVars>>

(* stream.Send of message m, then stream.Recv. *)
Post(s, m) ==
    /\ alive[conn[s]]
    /\ toCtl' = [toCtl EXCEPT ![conn[s]] = m]
    /\ msg' = [msg EXCEPT ![s] = m]
    /\ pc' = [pc EXCEPT ![s] = "recv"]
    /\ UNCHANGED <<conn, batch, alive, toSensor, ctlVars, sensorVars>>

Heartbeat(s) == pc[s] = "beat" /\ Post(s, Beat)

(* Mutant: List does not sort. *)
FirstAny(s, r) == r \in batch[s]

(* The records of a batch are sent in name order. *)
First(s, r) == r \in batch[s] /\ ahead[r] \cap batch[s] = {}

SendRecord(s) == pc[s] = "send" /\ \E r \in batch[s] : First(s, r) /\ Post(s, r)

(* runOnce returns: the connection is closed, Run backs off and retries. *)
Disconnect(s) ==
    /\ pc' = [pc EXCEPT ![s] = "down"]
    /\ conn' = [conn EXCEPT ![s] = None]
    /\ batch' = [batch EXCEPT ![s] = {}]
    /\ msg' = [msg EXCEPT ![s] = None]
    /\ alive' = [k \in Streams |-> alive[k] /\ k # conn[s]]
    /\ UNCHANGED <<toCtl, toSensor>>

Answered(s, ok) ==
    /\ pc[s] = "recv"
    /\ toSensor[conn[s]] = [id |-> msg[s], ok |-> ok]

(* An accepted heartbeat: wait for the wake channel or 30 s. *)
RecvBeat(s) ==
    /\ Answered(s, TRUE) /\ msg[s] = Beat
    /\ pc' = [pc EXCEPT ![s] = "wait"]
    /\ msg' = [msg EXCEPT ![s] = None]
    /\ toSensor' = [toSensor EXCEPT ![conn[s]] = None]
    /\ UNCHANGED <<conn, batch, alive, toCtl, ctlVars, sensorVars>>

(* An accepted record: spool.Ack, then the next of the batch or a new List. *)
RecvAck(s) ==
    /\ Answered(s, TRUE) /\ msg[s] \in Records
    /\ spool' = [spool EXCEPT ![s] = @ \ {msg[s]}]
    /\ batch' = [batch EXCEPT ![s] = @ \ {msg[s]}]
    /\ pc' = [pc EXCEPT ![s] = IF batch[s] = {msg[s]} THEN "list" ELSE "send"]
    /\ msg' = [msg EXCEPT ![s] = None]
    /\ toSensor' = [toSensor EXCEPT ![conn[s]] = None]
    /\ UNCHANGED <<emitted, dropped, ahead, calm, conn, alive, toCtl, ctlVars>>

(* "controller rejected event": runOnce gives up the stream and the batch. *)
RecvReject(s) ==
    /\ Answered(s, FALSE)
    /\ Disconnect(s)
    /\ UNCHANGED <<ctlVars, sensorVars>>

Woken(s) ==
    /\ pc[s] = "wait"
    /\ pc' = [pc EXCEPT ![s] = "list"]
    /\ UNCHANGED <<conn, batch, msg, netVars, ctlVars, sensorVars>>

(* Mutant: a failed stream is noticed when sending only. *)
SendError(s) ==
    /\ pc[s] \in {"beat", "send"} /\ ~alive[conn[s]]
    /\ Disconnect(s)
    /\ UNCHANGED <<ctlVars, sensorVars>>

(* Send or Recv on a stream that has failed. *)
StreamError(s) ==
    /\ pc[s] \in {"beat", "send", "recv"} /\ ~alive[conn[s]]
    /\ Disconnect(s)
    /\ UNCHANGED <<ctlVars, sensorVars>>
-------------------------------------------------------------------------------
Goto(k, where) == hpc' = [hpc EXCEPT ![k] = where]

(* Stream returns: gRPC ends the stream for the client too. *)
End(k) ==
    /\ Goto(k, "gone")
    /\ hmsg' = [hmsg EXCEPT ![k] = None]
    /\ alive' = [alive EXCEPT ![k] = FALSE]

(* Authenticate the peer and TouchSensor. *)
Start(k) ==
    /\ hpc[k] = "start"
    /\ Goto(k, "recv")
    /\ UNCHANGED <<ctl, hmsg, rows, published, netVars, clientVars, sensorVars>>

(* Recv: gRPC refuses a message over MaxRecvMsgSize and Stream returns. *)
Recv(k) ==
    /\ hpc[k] = "recv" /\ toCtl[k] \in Messages \ Oversize
    /\ Goto(k, IF toCtl[k] = Beat THEN "touch" ELSE "insert")
    /\ hmsg' = [hmsg EXCEPT ![k] = toCtl[k]]
    /\ toCtl' = [toCtl EXCEPT ![k] = None]
    /\ UNCHANGED <<ctl, rows, published, alive, toSensor, clientVars, sensorVars>>

RecvTooLarge(k) ==
    /\ hpc[k] = "recv" /\ toCtl[k] \in Oversize
    /\ End(k)
    /\ toCtl' = [toCtl EXCEPT ![k] = None]
    /\ UNCHANGED <<ctl, rows, published, toSensor, clientVars, sensorVars>>

(* Recv on a failed stream; the envelope in flight, if any, is lost. *)
RecvEnd(k) ==
    /\ hpc[k] = "recv" /\ ~alive[k]
    /\ End(k)
    /\ toCtl' = [toCtl EXCEPT ![k] = None]
    /\ UNCHANGED <<ctl, rows, published, toSensor, clientVars, sensorVars>>

(* Mutant: a plain INSERT into a table without the UNIQUE key. *)
InsertAlways(r) == rows[r] + 1

(* INSERT OR IGNORE: a (sensor, session, sequence) that is there stays. *)
InsertOrIgnore(r) == IF rows[r] = 0 THEN 1 ELSE rows[r]

Insert(k) ==
    /\ hpc[k] = "insert"
    /\ rows' = [rows EXCEPT ![hmsg[k]] = InsertOrIgnore(hmsg[k])]
    /\ Goto(k, "publish")
    /\ UNCHANGED <<ctl, hmsg, published, netVars, clientVars, sensorVars>>

(* The stream's context is cancelled under a handler whose stream failed. *)
Cancelled(k) ==
    /\ hpc[k] \in {"insert", "touch"} /\ ~alive[k]
    /\ Goto(k, "refuse")
    /\ UNCHANGED <<ctl, hmsg, rows, published, netVars, clientVars, sensorVars>>

(* broker.Publish and alerts.Process, called before the answer is sent. *)
Publish(k) ==
    /\ hpc[k] = "publish"
    /\ published' = published \cup {hmsg[k]}
    /\ Goto(k, "accept")
    /\ UNCHANGED <<ctl, hmsg, rows, netVars, clientVars, sensorVars>>

Touch(k) ==
    /\ hpc[k] = "touch"
    /\ Goto(k, "accept")
    /\ UNCHANGED <<ctl, hmsg, rows, published, netVars, clientVars, sensorVars>>

(* Mutant: the answer is sent again. *)
ReplyAgain(k) ==
    /\ hpc[k] \in {"accept", "refuse"} /\ alive[k]
    /\ toSensor' = [toSensor EXCEPT
                        ![k] = [id |-> hmsg[k], ok |-> hpc[k] = "accept"]]
    /\ \/ Goto(k, "recv") /\ hmsg' = [hmsg EXCEPT ![k] = None]
       \/ UNCHANGED <<hpc, hmsg>>
    /\ UNCHANGED <<ctl, rows, published, alive, toCtl, clientVars, sensorVars>>

(* stream.Send of the answer, or its failure. *)
Reply(k) ==
    /\ hpc[k] \in {"accept", "refuse"} /\ alive[k]
    /\ toSensor' = [toSensor EXCEPT
                        ![k] = [id |-> hmsg[k], ok |-> hpc[k] = "accept"]]
    /\ Goto(k, "recv")
    /\ hmsg' = [hmsg EXCEPT ![k] = None]
    /\ UNCHANGED <<ctl, rows, published, alive, toCtl, clientVars, sensorVars>>

ReplyError(k) ==
    /\ hpc[k] \in {"accept", "refuse"} /\ ~alive[k]
    /\ End(k)
    /\ UNCHANGED <<ctl, rows, published, toCtl, toSensor, clientVars, sensorVars>>
-------------------------------------------------------------------------------
(* Faults. *)

(* The network loses the connection; what was in flight may still arrive. *)
Break(k) ==
    /\ alive[k]
    /\ alive' = [alive EXCEPT ![k] = FALSE]
    /\ UNCHANGED <<toCtl, toSensor, ctlVars, clientVars, sensorVars>>

(* TouchSensor fails as the stream starts: Stream returns the error. *)
StartError(k) ==
    /\ hpc[k] = "start"
    /\ End(k)
    /\ UNCHANGED <<ctl, rows, published, toCtl, toSensor, clientVars, sensorVars>>

(* Mutant: the error of Insert is not looked at. *)
StoreErrorAccepted(k) ==
    /\ hpc[k] \in {"insert", "touch"}
    /\ Goto(k, "accept")
    /\ UNCHANGED <<ctl, hmsg, rows, published, netVars, clientVars, sensorVars>>

(* Insert or TouchSensor fails and its transaction is rolled back. *)
StoreError(k) ==
    /\ hpc[k] \in {"insert", "touch"}
    /\ Goto(k, "refuse")
    /\ UNCHANGED <<ctl, hmsg, rows, published, netVars, clientVars, sensorVars>>

(* spool.Ack cannot remove the file: runOnce returns, the record stays. *)
AckError(s) ==
    /\ Answered(s, TRUE) /\ msg[s] \in Records
    /\ Disconnect(s)
    /\ UNCHANGED <<ctlVars, sensorVars>>

(* The sensor process dies and is restarted: only the spool survives. *)
SensorCrash(s) ==
    /\ pc[s] # "down"
    /\ Disconnect(s)
    /\ UNCHANGED <<ctlVars, sensorVars>>

(* The controller dies with its handlers; committed rows survive. *)
ControllerCrash ==
    /\ ctl
    /\ ctl' = FALSE
    /\ hpc' = [k \in Streams |-> "gone"]
    /\ hmsg' = [k \in Streams |-> None]
    /\ alive' = [k \in Streams |-> FALSE]
    /\ toCtl' = [k \in Streams |-> None]
    /\ UNCHANGED <<rows, published, toSensor, clientVars, sensorVars>>

ControllerStart ==
    /\ ~ctl
    /\ ctl' = TRUE
    /\ UNCHANGED <<hpc, hmsg, rows, published, netVars, clientVars, sensorVars>>
-------------------------------------------------------------------------------
ClientStep(s) ==
    \/ \E k \in Streams : Connect(s, k)
    \/ List(s) \/ Heartbeat(s) \/ SendRecord(s)
    \/ RecvBeat(s) \/ RecvAck(s) \/ RecvReject(s)
    \/ Woken(s) \/ StreamError(s)

HandlerStep(k) ==
    \/ Start(k) \/ Recv(k) \/ RecvTooLarge(k) \/ RecvEnd(k)
    \/ Insert(k) \/ Cancelled(k) \/ Publish(k) \/ Touch(k)
    \/ Reply(k) \/ ReplyError(k)

(* The network and the disks recover for good. *)
Settle ==
    /\ calm' = TRUE
    /\ UNCHANGED <<emitted, dropped, spool, ahead, clientVars, netVars, ctlVars>>

Fault ==
    /\ ~calm
    /\ \/ \E k \in Streams : Break(k) \/ StartError(k) \/ StoreError(k)
       \/ \E s \in Sensors : AckError(s) \/ SensorCrash(s)
       \/ ControllerCrash

Next ==
    \/ \E r \in Records : Emit(r) \/ EmitFull(r)
    \/ \E s \in Sensors : ClientStep(s)
    \/ \E k \in Streams : HandlerStep(k)
    \/ Fault
    \/ ControllerStart
    \/ Settle

Spec == Init /\ [][Next]_vars

(* Goroutines on both sides run, a stopped controller is restarted, and from
   some time on nothing fails: ADR 0002 promises replay "after controller or
   network recovery", which is what Settle describes. *)
Fairness ==
    /\ \A s \in Sensors : WF_vars(ClientStep(s))
    /\ \A k \in Streams : WF_vars(HandlerStep(k))
    /\ WF_vars(ControllerStart)
    /\ WF_vars(Settle)

FairSpec == Spec /\ Fairness
-------------------------------------------------------------------------------
(* One row per event: a record that is sent again, by a retry or by a stale
   handler working beside the new one, does not enter the events table twice
   (UNIQUE and INSERT OR IGNORE, store.go 142-151). *)
ExactlyOnce == \A r \in Records : rows[r] <= 1

(* A record that was accepted by the spool is in the spool, or it is in the
   database and the alert rules have seen it: it is never given up between
   the two, whatever fails (client.go 97-112, server.go 66-77). *)
HandedOver ==
    \A r \in emitted \ dropped :
        r \in spool[Owner[r]] \/ (rows[r] > 0 /\ r \in published)

(* Live views and alert rules only ever see an event that is committed: no
   alert points at a row that a crash can take back (server.go 66-73). *)
PublishedIsStored == \A r \in published : rows[r] > 0

(* The database receives, and the rules see, the events of a sensor in the
   order in which they were spooled: no later event overtakes one that is
   refused, lost or still with a stale handler.  (The rules read the rows of
   earlier events.) *)
InOrder ==
    \A r \in Records : \A q \in ahead[r] :
        /\ rows[r] > 0 => rows[q] > 0
        /\ r \in published => q \in published

(* runOnce never meets an answer to a message it is not waiting for: the
   "ack mismatch" branches (client.go 104-106, 127-129) are unreachable, a
   late answer cannot release the wrong record. *)
AnswersMatch ==
    \A s \in Sensors :
        (pc[s] = "recv" /\ toSensor[conn[s]] # None)
            => toSensor[conn[s]].id = msg[s]

(* Once failures stop, every spooled record that is neither larger than the
   server accepts nor queued behind such a record is stored and leaves the
   spool: no retry, stale handler or lost answer holds it up for ever. *)
ReplayedInTurn ==
    \A r \in Records :
        /\ r \in spool[Owner[r]]
        /\ spool[Owner[r]] \cap (ahead[r] \cup {r}) \cap Oversize = {}
        ~> (rows[r] > 0 /\ r \notin spool[Owner[r]])

(* How far a record has come, in the terms of EvidenceLog. *)
Stage(r) ==
    IF r \notin emitted THEN "new"
    ELSE IF r \in dropped THEN "refused"
    ELSE IF rows[r] = 0 THEN "held"
    ELSE IF r \in spool[Owner[r]] THEN "logged" ELSE "released"

Evidence == INSTANCE EvidenceLog WITH
    state <- [r \in Records |-> Stage(r)],
    announced <- published

(* The whole path, with its retries, stale handlers and crashes, behaves as a
   log that holds each event until it is recorded and announced, records it
   once, and only then lets it go. *)
ImplementsLog == Evidence!Spec
===============================================================================
