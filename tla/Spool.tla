-------------------------------- MODULE Spool --------------------------------
(***************************************************************************)
(* The sensor's crash-safe record queue, internal/spool/spool.go, with the *)
(* goroutines that use it: sessions that Put (through Client.Emit) and the *)
(* upload loop Client.runOnce, which Lists, waits on the wake channel and  *)
(* Acks.  A record is a file <stamp>-<id>.rec; it is written as a .tmp and *)
(* renamed.  Put, List and Ack hold s.mu throughout, so only a crash can   *)
(* come between the steps of a Put; the wake channel is read without it.   *)
(*                                                                         *)
(* An event id is emitted once.  Contents and encryption are left out; a   *)
(* file is its id and its size.                                            *)
(***************************************************************************)
EXTENDS Naturals, FiniteSets, FiniteSetsExt

CONSTANTS Producers,   \* session goroutines
          Records,     \* event ids
          Size,        \* sealed length of each record
          MaxBytes,    \* s.max, config SpoolBytes
          None

ASSUME SpoolAssumption ==
    /\ MaxBytes \in Nat
    /\ Size \in [Records -> Nat \ {0}]
    /\ None \notin Producers \cup Records

VARIABLES
    rec,      \* records with a .rec file
    tmp,      \* records with a .tmp file
    up,       \* the sensor process is running
    used,     \* s.used
    wake,     \* the one-slot channel s.wake holds a token
    lock,     \* holder of s.mu
    pc,       \* per producer, where Put is
    arg,      \* per producer, the record being Put
    client,   \* where runOnce is
    batch,    \* records of the last List still to be sent
    tried,    \* history: ids some producer has emitted
    stored,   \* history: ids whose Put returned nil
    acked     \* history: ids removed by Ack

files == <<rec, tmp>>
loop  == <<client, batch>>
vars  == <<rec, tmp, up, used, wake, lock, pc, arg, client, batch,
           tried, stored, acked>>

Bytes(S) == MapThenSumSet(LAMBDA r : Size[r], S)

TypeOK ==
    /\ rec \subseteq Records /\ tmp \subseteq Records
    /\ up \in BOOLEAN /\ wake \in BOOLEAN
    /\ used \in Nat
    /\ lock \in Producers \cup {None}
    /\ \A p \in Producers : lock = p <=> pc[p] # "idle"
    /\ pc \in [Producers -> {"idle", "checked", "written", "renamed"}]
    /\ arg \in [Producers -> Records \cup {None}]
    /\ client \in {"list", "beat", "wait", "send"}
    /\ batch \subseteq Records
    /\ tried \subseteq Records /\ stored \subseteq tried /\ acked \subseteq tried

Init ==
    /\ rec = {} /\ tmp = {}
    /\ up = TRUE /\ used = 0 /\ wake = FALSE /\ lock = None
    /\ pc = [p \in Producers |-> "idle"]
    /\ arg = [p \in Producers |-> None]
    /\ client = "list" /\ batch = {}
    /\ tried = {} /\ stored = {} /\ acked = {}
-------------------------------------------------------------------------------
(* Otherwise Put returns ErrFull. *)
Fits(r) == used + Size[r] <= MaxBytes

(* Leave Put: the deferred Unlock and the return to the caller. *)
Return(p) ==
    /\ lock' = None
    /\ pc' = [pc EXCEPT ![p] = "idle"]
    /\ arg' = [arg EXCEPT ![p] = None]

(* Put takes the mutex, seals the data and compares used with max. *)
PutBegin(p, r) ==
    /\ up /\ lock = None /\ pc[p] = "idle"
    /\ r \notin tried
    /\ Fits(r)
    /\ tried' = tried \cup {r}
    /\ lock' = p
    /\ pc' = [pc EXCEPT ![p] = "checked"]
    /\ arg' = [arg EXCEPT ![p] = r]
    /\ UNCHANGED <<files, loop, up, used, wake, stored, acked>>

(* Put returns ErrFull and the caller's event is gone. *)
PutFull(p, r) ==
    /\ up /\ lock = None /\ pc[p] = "idle"
    /\ r \notin tried
    /\ ~Fits(r)
    /\ tried' = tried \cup {r}
    /\ UNCHANGED <<files, loop, up, used, wake, lock, pc, arg, stored, acked>>

(* os.WriteFile of the hidden .tmp file. *)
PutWrite(p) ==
    /\ up /\ pc[p] = "checked"
    /\ tmp' = tmp \cup {arg[p]}
    /\ pc' = [pc EXCEPT ![p] = "written"]
    /\ UNCHANGED <<rec, loop, up, used, wake, lock, arg, tried, stored, acked>>

(* Mutant: an error path that returns nil. *)
PutErrorIgnored(p) ==
    /\ up /\ pc[p] = "written"
    /\ stored' = stored \cup {arg[p]}
    /\ Return(p)
    /\ UNCHANGED <<files, loop, up, used, wake, tried, acked>>

(* WriteFile or Rename fails: Put returns the error, a .tmp may stay behind. *)
PutError(p) ==
    /\ up
    /\ \/ pc[p] = "checked" /\ \E partial \in SUBSET {arg[p]} : tmp' = tmp \cup partial
       \/ pc[p] = "written" /\ UNCHANGED tmp
    /\ Return(p)
    /\ UNCHANGED <<rec, loop, up, used, wake, tried, stored, acked>>

(* os.Rename gives the record its final name. *)
PutRename(p) ==
    /\ up /\ pc[p] = "written"
    /\ tmp' = tmp \ {arg[p]}
    /\ rec' = rec \cup {arg[p]}
    /\ pc' = [pc EXCEPT ![p] = "renamed"]
    /\ UNCHANGED <<loop, up, used, wake, lock, arg, tried, stored, acked>>

(* Mutants: the file is not counted; the upload loop is not told. *)
PutDoneUncounted(p) ==
    /\ up /\ pc[p] = "renamed"
    /\ wake' = TRUE
    /\ stored' = stored \cup {arg[p]}
    /\ Return(p)
    /\ UNCHANGED <<files, loop, up, used, tried, acked>>

PutDoneSilent(p) ==
    /\ up /\ pc[p] = "renamed"
    /\ used' = used + Size[arg[p]]
    /\ stored' = stored \cup {arg[p]}
    /\ Return(p)
    /\ UNCHANGED <<files, loop, up, wake, tried, acked>>

(* Account for the file, send to wake without blocking, return nil. *)
PutDone(p) ==
    /\ up /\ pc[p] = "renamed"
    /\ used' = used + Size[arg[p]]
    /\ wake' = TRUE
    /\ stored' = stored \cup {arg[p]}
    /\ Return(p)
    /\ UNCHANGED <<files, loop, up, tried, acked>>
-------------------------------------------------------------------------------
(* One round of runOnce: List. *)
List ==
    /\ up /\ lock = None /\ client = "list"
    /\ batch' = rec
    /\ client' = IF rec = {} THEN "beat" ELSE "send"
    /\ UNCHANGED <<files, up, used, wake, lock, pc, arg, tried, stored, acked>>

(* An empty List is followed by a heartbeat exchange, then by the select. *)
Heartbeat ==
    /\ up /\ client = "beat"
    /\ client' = "wait"
    /\ UNCHANGED <<files, batch, up, used, wake, lock, pc, arg, tried, stored, acked>>

(* The select receives from Wake(). *)
Woken ==
    /\ up /\ client = "wait" /\ wake
    /\ wake' = FALSE
    /\ client' = "list"
    /\ UNCHANGED <<files, batch, up, used, lock, pc, arg, tried, stored, acked>>

(* The select times out after 30 s. *)
Tick ==
    /\ up /\ client = "wait"
    /\ client' = "list"
    /\ UNCHANGED <<files, batch, up, used, wake, lock, pc, arg, tried, stored, acked>>

(* The controller accepted a record of the batch: Ack removes its file.
   (Ingest keeps the order in which the batch is sent.) *)
Ack(r) ==
    /\ up /\ lock = None /\ client = "send"
    /\ r \in batch
    /\ rec' = rec \ {r}
    /\ used' = IF r \in rec THEN used - Size[r] ELSE used
    /\ acked' = acked \cup {r}
    /\ batch' = batch \ {r}
    /\ client' = IF batch = {r} THEN "list" ELSE "send"
    /\ UNCHANGED <<tmp, up, wake, lock, pc, arg, tried, stored>>

(* The stream breaks: runOnce returns, Run backs off and starts it again. *)
StreamError ==
    /\ up /\ client \in {"beat", "wait", "send"}
    /\ client' = "list"
    /\ batch' = {}
    /\ UNCHANGED <<files, up, used, wake, lock, pc, arg, tried, stored, acked>>
-------------------------------------------------------------------------------
(* The process dies between any two steps; the files stay. *)
Crash ==
    /\ up
    /\ up' = FALSE
    /\ used' = 0 /\ wake' = FALSE /\ lock' = None
    /\ pc' = [p \in Producers |-> "idle"]
    /\ arg' = [p \in Producers |-> None]
    /\ client' = "list" /\ batch' = {}
    /\ UNCHANGED <<files, tried, stored, acked>>

(* Open counts the .rec files again. *)
Open ==
    /\ ~up
    /\ up' = TRUE
    /\ used' = Bytes(rec)
    /\ UNCHANGED <<files, loop, wake, lock, pc, arg, tried, stored, acked>>
-------------------------------------------------------------------------------
PutStep(p) == PutWrite(p) \/ PutRename(p) \/ PutDone(p)

ClientStep == List \/ Heartbeat \/ Woken \/ \E r \in Records : Ack(r)

Next ==
    \/ \E p \in Producers, r \in Records : PutBegin(p, r) \/ PutFull(p, r)
    \/ \E p \in Producers : PutStep(p) \/ PutError(p)
    \/ ClientStep
    \/ Tick \/ StreamError \/ Crash \/ Open

Spec == Init /\ [][Next]_vars

(* Goroutines that can run do run, the container is restarted.  Nothing is *)
(* assumed of the 30 s timer: the wake token alone must be enough.  A      *)
(* stream may break again and again, but not every time before an answer.  *)
Fairness ==
    /\ \A p \in Producers : WF_vars(PutStep(p))
    /\ SF_vars(List) /\ WF_vars(Heartbeat) /\ WF_vars(Woken)
    /\ SF_vars(\E r \in Records : Ack(r))
    /\ WF_vars(Open)

FairSpec == Spec /\ Fairness
-------------------------------------------------------------------------------
(* Whenever no Put is under way and the process runs, s.used is exactly the
   size of the .rec files: no crash, failed write or rename between the
   steps of Put, and no restart, makes the account drift.  And the queue never
   holds more than s.max, although the check in Put is made against that account
   and not against the directory (spool.go 72-77, 88-100, 159). *)
Accounted ==
    /\ (up /\ lock = None) => used = Bytes(rec)
    /\ Bytes(rec) <= MaxBytes

(* No lost wake-up: the upload loop never sleeps on a non-empty spool unless a
   token is waiting for it or a Put that renamed its file is about to send
   one (spool.go 97-104 against client.go 78-91). *)
NoLostWakeup ==
    (up /\ client = "wait" /\ rec # {})
        => wake \/ \E p \in Producers : pc[p] = "renamed"

(* A record whose Put returned nil is on disk until it is acknowledged,
   through crashes and restarts. *)
Kept == stored \subseteq rec \cup acked

(* Every record that reaches the disk is taken up by the upload loop and
   acknowledged, although the loop may sleep for ever without its timer. *)
EventuallyAcked == \A r \in Records : r \in rec ~> r \in acked

(* The queue the spool implements. *)
Queue == INSTANCE DurableQueue WITH
    status <- [r \in Records |-> IF r \in rec THEN "queued"
                                 ELSE IF r \in acked THEN "taken" ELSE "new"],
    promised <- stored

ImplementsQueue == Queue!Spec
===============================================================================
