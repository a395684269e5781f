--------------------------- MODULE MaintenanceProofs ---------------------------
(***************************************************************************)
(* Proofs about the controller's background jobs.  Retention, for any      *)
(* events, evidence, periods, cap and batch size: evidence on record can   *)
(* be read, what goes first when the cap is exceeded, and that a Prune     *)
(* without an error ends within the cap.  SensorHealth, for any sensors:   *)
(* one silence is alerted about once.                                      *)
(***************************************************************************)
EXTENDS Retention, SensorHealth, FiniteSetTheorems, TLAPS

USE DEF disk, rows, local

-----------------------------------------------------------------------------
(* The inductive invariant *)

(* Each set is finite: it grows one event or one piece of evidence at a time. *)
Finite == /\ IsFiniteSet(events) /\ IsFiniteSet(evid)
          /\ IsFiniteSet(files) /\ IsFiniteSet(txEvid)

(* The open transaction of an insert only adds rows, each with its file; that of
   Prune only drops rows, each of them stale. *)
Transaction ==
    /\ pc = "insert" => /\ new \in Events
                        /\ evid \subseteq txEvid /\ txEvid \subseteq evid \cup Owned({new})
                        /\ txEvid \ chosen \subseteq files
    /\ pc = "expire" => /\ txEvid \subseteq evid
                        /\ \A v \in evid \ txEvid : Stale(v)

(* enforceCap's list is what is on record; past it, nothing is. *)
Worklist ==
    /\ pc \in {"evidence", "recount"} => list = evid
    /\ pc \in {"compact", "events"} => evid = {}

IInv == TypeOK /\ Finite /\ Transaction /\ Worklist /\ Readable

-----------------------------------------------------------------------------
(* Sizes *)

LEMMA MaxOfTwo ==
  ASSUME NEW a \in Nat, NEW b \in Nat
  PROVE  Max({a, b}) \in Nat /\ Max({a, b}) >= b
<1>1. \E x \in {a, b} : \A y \in {a, b} : x >= y
  <2>1. CASE a >= b
    BY <2>1
  <2>2. CASE b >= a
    BY <2>2
  <2> QED
    BY <2>1, <2>2
<1>2. Max({a, b}) \in {a, b} /\ \A y \in {a, b} : Max({a, b}) >= y
  BY <1>1 DEF Max
<1> QED
  BY <1>2

LEMMA CommitSize ==
  ASSUME db \in Nat, NEW E, NEW V, IsFiniteSet(E), IsFiniteSet(V), Commit(E, V)
  PROVE  /\ Cardinality(E) + Cardinality(V) \in Nat
         /\ db' \in Nat /\ db' >= Cardinality(events') + Cardinality(evid')
<1>1. Cardinality(E) \in Nat /\ Cardinality(V) \in Nat
  BY FS_CardinalityType
<1> QED
  BY <1>1, MaxOfTwo DEF Commit

LEMMA ForgetSize ==
  ASSUME orphans \in Nat, IsFiniteSet(files), NEW V, Forget(V)
  PROVE  orphans' \in Nat /\ IsFiniteSet(files')
<1>1. IsFiniteSet(files \ V) /\ IsFiniteSet(files \cap V)
  BY FS_Subset
<1>2. Cardinality(files \ V) \in Nat
  BY <1>1, FS_CardinalityType
<1> QED
  BY <1>1, <1>2 DEF Forget

LEMMA UsageType ==
  ASSUME NEW f, IsFiniteSet(f), NEW o \in Nat, NEW d \in Nat
  PROVE  Usage(f, o, d) \in Nat
<1>1. Cardinality(f) \in Nat
  BY FS_CardinalityType
<1> QED
  BY <1>1 DEF Usage

(* The state after a return: only the rows, the files and the history matter. *)
LEMMA ReturnKeeps ==
  ASSUME NEW res \in {"nil", "error"}, Return(res),
         now' \in 0..MaxNow, events' \subseteq Events, evid' \subseteq Owned(events'),
         files' \subseteq Evidence, orphans' \in Nat,
         db' \in Nat, db' >= Cardinality(events') + Cardinality(evid'), chosen' \subseteq Evidence,
         IsFiniteSet(events'), IsFiniteSet(evid'), IsFiniteSet(files'), Readable'
  PROVE  IInv'
<1>1. TypeOK'
  <2>1. deleted' \in BOOLEAN
    BY Zenon DEF Return
  <2>2. /\ pc' = "free" /\ result' = res /\ new' = None
        /\ txEvid' = {} /\ list' = {} /\ used' = 0
    BY DEF Return
  <2> QED
    BY <2>1, <2>2 DEF TypeOK
<1>2. Finite'
  BY FS_EmptySet DEF Finite, Return
<1>3. Transaction' /\ Worklist'
  BY DEF Transaction, Worklist, Return
<1> QED
  BY <1>1, <1>2, <1>3 DEF IInv

-----------------------------------------------------------------------------
(* Store.Insert *)

LEMMA InsertBeginKeeps ==
  ASSUME IInv, NEW e \in Events, InsertBegin(e)
  PROVE  IInv'
<1>1. TypeOK'
  BY RetentionAssumption DEF IInv, TypeOK, InsertBegin, Owned
<1>2. Finite'
  BY DEF IInv, Finite, InsertBegin
<1>3. Transaction' /\ Worklist' /\ Readable'
  BY DEF IInv, Transaction, Worklist, Readable, InsertBegin
<1> QED
  BY <1>1, <1>2, <1>3 DEF IInv

LEMMA InsertWriteKeeps ==
  ASSUME IInv, NEW v \in Evidence, InsertWrite(v)
  PROVE  IInv'
<1>1. TypeOK'
  BY DEF IInv, TypeOK, InsertWrite
<1>2. Finite'
  BY FS_AddElement DEF IInv, Finite, InsertWrite
<1>3. Transaction' /\ Worklist' /\ Readable'
  BY DEF IInv, Transaction, Worklist, Readable, InsertWrite
<1> QED
  BY <1>1, <1>2, <1>3 DEF IInv

LEMMA InsertCommitKeeps ==
  ASSUME IInv, InsertCommit
  PROVE  IInv'
<1>1. /\ events' = events \cup {new} /\ evid' = txEvid /\ Return("nil")
      /\ UNCHANGED <<now, files, orphans, chosen>>
  BY DEF InsertCommit, Commit
<1>2. new \in Events /\ evid \subseteq txEvid /\ txEvid \subseteq evid \cup Owned({new})
      /\ txEvid \ chosen \subseteq files
  BY DEF InsertCommit, IInv, Transaction
<1>3. IsFiniteSet(events') /\ IsFiniteSet(evid') /\ IsFiniteSet(files')
  BY <1>1, FS_AddElement DEF IInv, Finite
<1>4. db' \in Nat /\ db' >= Cardinality(events') + Cardinality(evid')
  BY <1>1, <1>3, CommitSize DEF InsertCommit, IInv, TypeOK
<1>5. now' \in 0..MaxNow /\ events' \subseteq Events /\ evid' \subseteq Owned(events')
      /\ files' \subseteq Evidence /\ orphans' \in Nat /\ chosen' \subseteq Evidence
  BY <1>1, <1>2 DEF IInv, TypeOK, Owned
<1>6. Readable'
  BY <1>1, <1>2 DEF Readable
<1> QED
  BY <1>1, <1>3, <1>4, <1>5, <1>6, ReturnKeeps

LEMMA InsertErrorKeeps ==
  ASSUME IInv, InsertError
  PROVE  IInv'
<1>1. /\ files' = files \ (txEvid \ evid) /\ Return("error")
      /\ UNCHANGED <<now, events, evid, db, chosen>>
  BY DEF InsertError
<1>2. orphans' \in Nat
  BY DEF InsertError, IInv, TypeOK
<1>3. IsFiniteSet(events') /\ IsFiniteSet(evid') /\ IsFiniteSet(files')
  BY <1>1, FS_Subset DEF IInv, Finite
<1>4. Readable'
  BY <1>1 DEF Readable, IInv
<1>5. now' \in 0..MaxNow /\ events' \subseteq Events /\ evid' \subseteq Owned(events')
      /\ files' \subseteq Evidence /\ chosen' \subseteq Evidence
      /\ db' \in Nat /\ db' >= Cardinality(events') + Cardinality(evid')
  BY <1>1 DEF IInv, TypeOK, Owned
<1> QED
  BY <1>1, <1>2, <1>3, <1>4, <1>5, ReturnKeeps

-----------------------------------------------------------------------------
(* Prune *)

LEMMA PruneBeginKeeps ==
  ASSUME IInv, PruneBegin
  PROVE  IInv'
<1>1. TypeOK'
  BY DEF IInv, TypeOK, PruneBegin, Owned
<1>2. Finite'
  BY DEF IInv, Finite, PruneBegin
<1>3. Transaction' /\ Worklist' /\ Readable'
  BY DEF IInv, Transaction, Worklist, Readable, PruneBegin
<1> QED
  BY <1>1, <1>2, <1>3 DEF IInv

LEMMA PruneExpireKeeps ==
  ASSUME IInv, NEW v \in Evidence, PruneExpire(v)
  PROVE  IInv'
<1>1. TypeOK'
  BY DEF IInv, TypeOK, PruneExpire, Owned
<1>2. Finite'
  BY FS_RemoveElement DEF IInv, Finite, PruneExpire
<1>3. Transaction'
  BY DEF IInv, Transaction, PruneExpire, Stale
<1>4. Worklist' /\ Readable'
  BY DEF IInv, Worklist, Readable, PruneExpire
<1> QED
  BY <1>1, <1>2, <1>3, <1>4 DEF IInv

LEMMA PruneCommitKeeps ==
  ASSUME IInv, PruneCommit
  PROVE  IInv'
<1> DEFINE keep == {e \in events : ~Expired(e)}
<1>1. /\ Commit(keep, txEvid \cap Owned(keep)) /\ Forget(Owned(keep))
      /\ pc' = "cap" /\ UNCHANGED <<now, new, txEvid, list, used, deleted, result, chosen>>
  BY DEF PruneCommit
<1>2. keep \subseteq events
  OBVIOUS
<1> HIDE DEF keep
<1>3. events' = keep /\ evid' = txEvid \cap Owned(keep) /\ files' = files \cap Owned(keep)
  BY <1>1 DEF Commit, Forget
<1>4. txEvid \subseteq evid
  BY DEF PruneCommit, IInv, Transaction
<1>5. IsFiniteSet(keep) /\ IsFiniteSet(txEvid \cap Owned(keep))
  BY <1>2, FS_Subset DEF IInv, Finite
<1>6. orphans' \in Nat /\ IsFiniteSet(files')
  BY <1>1, ForgetSize DEF IInv, TypeOK, Finite
<1>7. db' \in Nat /\ db' >= Cardinality(events') + Cardinality(evid')
  BY <1>1, <1>5, CommitSize DEF IInv, TypeOK
<1>8. TypeOK'
  BY <1>1, <1>2, <1>3, <1>6, <1>7 DEF IInv, TypeOK, Owned
<1>9. Finite'
  BY <1>1, <1>3, <1>5, <1>6 DEF IInv, Finite
<1>10. Readable'
  BY <1>1, <1>3, <1>4 DEF IInv, Readable
<1>11. Transaction' /\ Worklist'
  BY <1>1 DEF Transaction, Worklist
<1> QED
  BY <1>8, <1>9, <1>10, <1>11 DEF IInv

(* A return that leaves rows and files alone. *)
LEMMA PlainReturn ==
  ASSUME IInv, NEW res \in {"nil", "error"}, Return(res),
         UNCHANGED <<now, events, evid, db, files, orphans, chosen>>
  PROVE  IInv'
<1>1. now' \in 0..MaxNow /\ events' \subseteq Events /\ evid' \subseteq Owned(events')
      /\ files' \subseteq Evidence /\ orphans' \in Nat /\ chosen' \subseteq Evidence
      /\ db' \in Nat /\ db' >= Cardinality(events') + Cardinality(evid')
  BY DEF IInv, TypeOK, Owned
<1>2. IsFiniteSet(events') /\ IsFiniteSet(evid') /\ IsFiniteSet(files') /\ Readable'
  BY DEF IInv, Finite, Readable
<1> QED
  BY <1>1, <1>2, ReturnKeeps

-----------------------------------------------------------------------------
(* enforceCap *)

LEMMA CapStartKeeps ==
  ASSUME IInv, CapStart
  PROVE  IInv'
<1>1. CASE Usage(files, orphans, db) <= Cap
  BY <1>1, PlainReturn DEF CapStart
<1>2. CASE ~(Usage(files, orphans, db) <= Cap)
  <2>1. /\ pc' = "evidence" /\ list' = evid /\ used' = Usage(files, orphans, db)
        /\ UNCHANGED <<now, events, evid, db, files, orphans, new, txEvid, deleted, result, chosen>>
    BY <1>2 DEF CapStart
  <2>2. used' \in Int
    BY <2>1, UsageType DEF IInv, TypeOK, Finite
  <2>3. TypeOK'
    BY <2>1, <2>2 DEF IInv, TypeOK, Owned
  <2> QED
    BY <2>1, <2>3 DEF IInv, Finite, Transaction, Worklist, Readable
<1> QED
  BY <1>1, <1>2

LEMMA CapEvidenceKeeps ==
  ASSUME IInv, NEW v \in Evidence, CapEvidence(v)
  PROVE  IInv'
<1>1. /\ pc = "evidence" /\ files' = files \ {v} /\ events' = events /\ evid' = evid \ {v}
      /\ list' = list \ {v} /\ deleted' = TRUE /\ chosen' = chosen \cup {v}
      /\ UNCHANGED <<now, orphans, pc, new, txEvid, result>>
  BY DEF CapEvidence, Commit
<1>2. IsFiniteSet(events) /\ IsFiniteSet(evid \ {v}) /\ IsFiniteSet(files \ {v}) /\ IsFiniteSet(files \cap {v})
  BY FS_RemoveElement, FS_Subset DEF IInv, Finite
<1>3. db' \in Nat /\ db' >= Cardinality(events') + Cardinality(evid')
  BY <1>2, CommitSize DEF IInv, TypeOK, CapEvidence
<1>4. used' \in Int
  <2>1. Cardinality(files \cap {v}) \in Nat
    BY <1>2, FS_CardinalityType
  <2> QED
    BY <2>1 DEF CapEvidence, IInv, TypeOK
<1>5. TypeOK'
  BY <1>1, <1>3, <1>4 DEF IInv, TypeOK, Owned
<1>6. Finite'
  BY <1>1, <1>2 DEF IInv, Finite
<1>7. Transaction' /\ Worklist' /\ Readable'
  BY <1>1 DEF IInv, Transaction, Worklist, Readable
<1> QED
  BY <1>5, <1>6, <1>7 DEF IInv

LEMMA CapEvidenceEndKeeps ==
  ASSUME IInv, CapEvidenceEnd
  PROVE  IInv'
<1>1. TypeOK' /\ Finite'
  BY DEF IInv, TypeOK, Finite, CapEvidenceEnd, Owned
<1>2. Transaction' /\ Worklist' /\ Readable'
  BY DEF IInv, Transaction, Worklist, Readable, CapEvidenceEnd
<1> QED
  BY <1>1, <1>2 DEF IInv

LEMMA CapRecountKeeps ==
  ASSUME IInv, CapRecount
  PROVE  IInv'
<1>1. CASE Usage(files, orphans, db) <= Cap
  BY <1>1, PlainReturn DEF CapRecount
<1>2. CASE ~(Usage(files, orphans, db) <= Cap)
  <2>1. /\ used' = Usage(files, orphans, db)
        /\ UNCHANGED <<now, events, evid, db, files, orphans, new, txEvid, list, deleted, result, chosen>>
    BY <1>2 DEF CapRecount
  <2>2. /\ pc' \in {"evidence", "compact", "events"}
        /\ pc' # "evidence" => list = {}
    BY <1>2 DEF CapRecount
  <2>3. used' \in Int
    BY <2>1, UsageType DEF IInv, TypeOK, Finite
  <2>4. TypeOK'
    BY <2>1, <2>2, <2>3 DEF IInv, TypeOK, Owned
  <2>5. list = evid
    BY DEF IInv, Worklist, CapRecount
  <2> QED
    BY <2>1, <2>2, <2>4, <2>5 DEF IInv, Finite, Transaction, Worklist, Readable
<1> QED
  BY <1>1, <1>2

LEMMA CapCompactKeeps ==
  ASSUME IInv, CapCompact
  PROVE  IInv'
<1>1. Cardinality(events) \in Nat /\ Cardinality(evid) \in Nat
  BY FS_CardinalityType DEF IInv, Finite
<1>2. Compacted \in Nat /\ db' = Compacted /\ Compacted = Cardinality(events) + Cardinality(evid)
  BY <1>1 DEF Compacted, CapCompact
<1>3. UNCHANGED <<now, events, evid, files, orphans, chosen>>
  BY DEF CapCompact
<1>4. db' \in Nat /\ db' >= Cardinality(events') + Cardinality(evid')
  BY <1>1, <1>2, <1>3
<1>5. CASE Usage(files, orphans, Compacted) <= Cap
  <2>1. Return("nil")
    BY <1>5 DEF CapCompact
  <2>2. now' \in 0..MaxNow /\ events' \subseteq Events /\ evid' \subseteq Owned(events')
        /\ files' \subseteq Evidence /\ orphans' \in Nat /\ chosen' \subseteq Evidence
    BY <1>3 DEF IInv, TypeOK, Owned
  <2>3. IsFiniteSet(events') /\ IsFiniteSet(evid') /\ IsFiniteSet(files') /\ Readable'
    BY <1>3 DEF IInv, Finite, Readable
  <2> QED
    BY <1>4, <2>1, <2>2, <2>3, ReturnKeeps
<1>6. CASE ~(Usage(files, orphans, Compacted) <= Cap)
  <2>1. /\ used' = Usage(files, orphans, Compacted) /\ pc' = "events"
        /\ UNCHANGED <<new, txEvid, list, deleted, result>>
    BY <1>6 DEF CapCompact
  <2>2. used' \in Int
    BY <1>2, <2>1, UsageType DEF IInv, TypeOK, Finite
  <2>3. TypeOK'
    BY <1>3, <1>4, <2>1, <2>2 DEF IInv, TypeOK, Owned
  <2>4. evid = {}
    BY DEF IInv, Worklist, CapCompact
  <2> QED
    BY <1>3, <2>1, <2>3, <2>4 DEF IInv, Finite, Transaction, Worklist, Readable
<1> QED
  BY <1>5, <1>6

LEMMA CapEventsKeeps ==
  ASSUME IInv, CapEvents
  PROVE  IInv'
<1>1. PICK B \in SUBSET events :
        Oldest(B) /\ Commit(events \ B, evid \ Owned(B)) /\ Forget(evid \ Owned(B))
  BY DEF CapEvents
<1>2. /\ pc' = "compact"
      /\ UNCHANGED <<now, new, txEvid, list, used, deleted, result, chosen>>
  BY DEF CapEvents
<1>3. events' = events \ B /\ evid' = evid \ Owned(B) /\ files' = files \cap (evid \ Owned(B))
  BY <1>1 DEF Commit, Forget
<1>4. IsFiniteSet(events \ B) /\ IsFiniteSet(evid \ Owned(B))
  BY FS_Subset DEF IInv, Finite
<1>5. orphans' \in Nat /\ IsFiniteSet(files')
  BY <1>1, ForgetSize DEF IInv, TypeOK, Finite
<1>6. db' \in Nat /\ db' >= Cardinality(events') + Cardinality(evid')
  BY <1>1, <1>4, CommitSize DEF IInv, TypeOK
<1>7. evid' \subseteq Owned(events')
  BY <1>3 DEF IInv, TypeOK, Owned
<1>8. TypeOK'
  BY <1>2, <1>3, <1>5, <1>6, <1>7 DEF IInv, TypeOK
<1>9. Finite'
  BY <1>2, <1>3, <1>4, <1>5 DEF IInv, Finite
<1>10. evid = {}
  BY DEF IInv, Worklist, CapEvents
<1>11. Transaction' /\ Worklist' /\ Readable'
  BY <1>2, <1>3, <1>10 DEF Transaction, Worklist, Readable
<1> QED
  BY <1>8, <1>9, <1>11 DEF IInv

LEMMA CapErrorKeeps ==
  ASSUME IInv, CapError
  PROVE  IInv'
<1>1. Return("error") /\ UNCHANGED <<now, events, evid, db, orphans>>
  BY DEF CapError
<1>2. CASE UNCHANGED <<files, chosen>>
  BY <1>1, <1>2, PlainReturn
<1>3. CASE \E v \in list : files' = files \ {v} /\ chosen' = chosen \cup {v}
  <2>1. PICK v \in list : files' = files \ {v} /\ chosen' = chosen \cup {v}
    BY <1>3
  <2>2. now' \in 0..MaxNow /\ events' \subseteq Events /\ evid' \subseteq Owned(events')
        /\ files' \subseteq Evidence /\ orphans' \in Nat /\ chosen' \subseteq Evidence
        /\ db' \in Nat /\ db' >= Cardinality(events') + Cardinality(evid')
    BY <1>1, <2>1 DEF IInv, TypeOK, Owned
  <2>3. IsFiniteSet(events') /\ IsFiniteSet(evid') /\ IsFiniteSet(files')
    BY <1>1, <2>1, FS_RemoveElement DEF IInv, Finite
  <2>4. Readable'
    BY <1>1, <2>1 DEF IInv, Readable
  <2> QED
    BY <1>1, <2>2, <2>3, <2>4, ReturnKeeps
<1> QED
  BY <1>2, <1>3 DEF CapError

LEMMA CrashKeeps ==
  ASSUME IInv, Crash
  PROVE  IInv'
<1>1. Return("error") /\ Forget(evid) /\ UNCHANGED <<now, events, evid, db, chosen>>
  BY DEF Crash
<1>2. files' = files \cap evid
  BY <1>1 DEF Forget
<1>3. orphans' \in Nat /\ IsFiniteSet(files')
  BY <1>1, ForgetSize DEF IInv, TypeOK, Finite
<1>4. now' \in 0..MaxNow /\ events' \subseteq Events /\ evid' \subseteq Owned(events')
      /\ files' \subseteq Evidence /\ chosen' \subseteq Evidence
      /\ db' \in Nat /\ db' >= Cardinality(events') + Cardinality(evid')
  BY <1>1, <1>2 DEF IInv, TypeOK, Owned
<1>5. IsFiniteSet(events') /\ IsFiniteSet(evid')
  BY <1>1 DEF IInv, Finite
<1>6. Readable'
  BY <1>1, <1>2 DEF IInv, Readable
<1> QED
  BY <1>1, <1>3, <1>4, <1>5, <1>6, ReturnKeeps

LEMMA IdleKeeps ==
  ASSUME IInv, Tick \/ UNCHANGED vars
  PROVE  IInv'
<1>1. /\ UNCHANGED <<events, evid, db, files, orphans, pc, new, txEvid, list, used, deleted, result, chosen>>
      /\ UNCHANGED now \/ (pc = "free" /\ now' \in 0..MaxNow)
  <2>1. CASE Tick
    <3>1. now' \in 0..MaxNow
      BY <2>1, RetentionAssumption DEF Tick, IInv, TypeOK
    <3> QED
      BY <2>1, <3>1 DEF Tick
  <2>2. CASE UNCHANGED vars
    BY <2>2 DEF vars
  <2> QED
    BY <2>1, <2>2
<1>2. TypeOK' /\ Finite'
  BY <1>1 DEF IInv, TypeOK, Finite, Owned
<1>3. Transaction'
  BY <1>1 DEF IInv, Transaction, Stale, Owned
<1>4. Worklist' /\ Readable'
  BY <1>1 DEF IInv, Worklist, Readable
<1> QED
  BY <1>2, <1>3, <1>4 DEF IInv

-----------------------------------------------------------------------------
(* The theorems *)

LEMMA InitIInv == Init => IInv
<1> SUFFICES ASSUME Init PROVE IInv
  OBVIOUS
<1>1. IsFiniteSet({}) /\ Cardinality({}) = 0
  BY FS_EmptySet
<1>2. deleted \in BOOLEAN
  BY Zenon DEF Init
<1>3. now \in 0..MaxNow
  BY RetentionAssumption DEF Init
<1>4. TypeOK
  BY <1>1, <1>2, <1>3 DEF Init, TypeOK, Owned
<1> QED
  BY <1>1, <1>4 DEF Init, IInv, Finite, Transaction, Worklist, Readable

LEMMA NextIInv == IInv /\ [Next]_vars => IInv'
<1> SUFFICES ASSUME IInv, [Next]_vars PROVE IInv'
  OBVIOUS
<1>1. CASE InsertStep \/ InsertError
  BY <1>1, InsertBeginKeeps, InsertWriteKeeps, InsertCommitKeeps, InsertErrorKeeps DEF InsertStep
<1>2. CASE PruneBegin \/ PruneStep
  BY <1>2, PruneBeginKeeps, PruneExpireKeeps, PruneCommitKeeps, CapStartKeeps, CapEvidenceKeeps,
     CapEvidenceEndKeeps, CapRecountKeeps, CapCompactKeeps, CapEventsKeeps, PlainReturn
     DEF PruneStep, CapTooSmall
<1>3. CASE PruneError
  BY <1>3, PlainReturn DEF PruneError
<1>4. CASE CapError \/ Crash
  BY <1>4, CapErrorKeeps, CrashKeeps
<1>5. CASE Tick \/ UNCHANGED vars
  BY <1>5, IdleKeeps
<1> QED
  BY <1>1, <1>2, <1>3, <1>4, <1>5 DEF Next

(* In every reachable state rows belong to events on record and the database
   file holds them. *)
THEOREM TypeCorrect == Spec => []TypeOK
<1>1. IInv => TypeOK
  BY DEF IInv
<1> QED
  BY <1>1, InitIInv, NextIInv, PTL DEF Spec

(* Whatever fails or crashes between the files and the rows of Store.Insert, and
   between the files and the rows of Prune, evidence that retention has not set
   about to remove can be read. *)
THEOREM EvidenceReadable == Spec => []Readable
<1>1. IInv => Readable
  BY DEF IInv
<1> QED
  BY <1>1, InitIInv, NextIInv, PTL DEF Spec

(* What a step may remove. *)
RemovalOrder ==
    /\ \A e \in events \ events' :
          \/ Expired(e)
          \/ evid = {} /\ \A d \in events' : Stamp[e] <= Stamp[d]
    /\ \A v \in evid \ evid' :
          \/ Stale(v) \/ Expired(Of[v])
          \/ \A w \in evid' : Rank[v] <= Rank[w]

LEMMA StepRemoves ==
  ASSUME IInv, Next
  PROVE  RemovalOrder
<1>1. CASE UNCHANGED <<events, evid>>
  BY <1>1 DEF RemovalOrder
<1>2. CASE InsertCommit
  <2>1. events \subseteq events' /\ evid \subseteq evid'
    BY <1>2 DEF InsertCommit, Commit, IInv, Transaction
  <2> QED
    BY <2>1 DEF RemovalOrder
<1>3. CASE PruneCommit
  <2> DEFINE keep == {e \in events : ~Expired(e)}
  <2>1. events' = keep /\ evid' = txEvid \cap Owned(keep)
    BY <1>3 DEF PruneCommit, Commit
  <2>2. \A v \in evid \ txEvid : Stale(v)
    BY <1>3 DEF PruneCommit, IInv, Transaction
  <2>3. \A v \in evid : v \in Evidence /\ Of[v] \in events
    BY DEF IInv, TypeOK, Owned
  <2>4. \A v \in evid \ evid' : Stale(v) \/ Expired(Of[v])
    BY <2>1, <2>2, <2>3 DEF Owned
  <2>5. \A e \in events \ events' : Expired(e)
    BY <2>1
  <2> QED
    BY <2>4, <2>5 DEF RemovalOrder
<1>4. CASE \E v \in Evidence : CapEvidence(v)
  <2>1. PICK v \in Evidence : CapEvidence(v)
    BY <1>4
  <2>2. events' = events /\ evid' = evid \ {v} /\ First(v, evid)
    BY <2>1 DEF CapEvidence, Commit, IInv, Worklist
  <2>3. \A w \in evid' : w \in Evidence /\ ~(Rank[w] < Rank[v])
    BY <2>2 DEF First, Before, IInv, TypeOK, Owned
  <2>4. \A w \in evid' : Rank[v] <= Rank[w]
    BY <2>3, RetentionAssumption
  <2> QED
    BY <2>2, <2>4 DEF RemovalOrder
<1>5. CASE CapEvents
  <2>1. PICK B \in SUBSET events : Oldest(B) /\ Commit(events \ B, evid \ Owned(B))
    BY <1>5 DEF CapEvents
  <2>2. events' = events \ B /\ evid = {}
    BY <1>5, <2>1 DEF CapEvents, Commit, IInv, Worklist
  <2>3. \A e \in events \ events', d \in events' : Stamp[e] <= Stamp[d]
    BY <2>1, <2>2 DEF Oldest
  <2> QED
    BY <2>2, <2>3 DEF RemovalOrder
<1>6. CASE \/ Tick \/ PruneBegin \/ PruneError \/ InsertError \/ CapError \/ Crash
           \/ (\E e \in Events : InsertBegin(e)) \/ (\E v \in Evidence : InsertWrite(v) \/ PruneExpire(v))
  BY <1>1, <1>6 DEF Tick, PruneBegin, PruneError, InsertError, CapError, Crash, InsertBegin,
     InsertWrite, PruneExpire
<1>7. CASE CapStart \/ CapEvidenceEnd \/ CapRecount \/ CapCompact \/ CapTooSmall
  BY <1>1, <1>7 DEF CapStart, CapEvidenceEnd, CapRecount, CapCompact, CapTooSmall
<1> QED
  BY <1>2, <1>3, <1>4, <1>5, <1>6, <1>7 DEF Next, InsertStep, PruneStep

(* Metadata within its period goes only when no evidence is on record, and oldest
   first; evidence goes before its period only in the order of its kinds. *)
THEOREM RemovesOldestFirst == Spec => OldestFirst
<1>1. IInv /\ [Next]_vars => [RemovalOrder]_vars
  BY StepRemoves
<1>2. []IInv /\ [][Next]_vars => [][RemovalOrder]_vars
  BY <1>1, PTL
<1>3. [][RemovalOrder]_vars => OldestFirst
  BY PTL DEF RemovalOrder, OldestFirst
<1> QED
  BY <1>2, <1>3, InitIInv, NextIInv, PTL DEF Spec

(* A Prune that returns without an error has measured the directory, after its
   last change to it, and found it within the cap. *)
THEOREM PruneEndsWithinCap == Spec => WithinCap
<1> DEFINE Ends == (pc \notin {"free", "insert"} /\ pc' = "free" /\ result' = "nil")
                     => Usage(files', orphans', db') <= Cap
<1>1. ASSUME Next PROVE Ends
  <2> SUFFICES ASSUME pc \notin {"free", "insert"}, pc' = "free", result' = "nil"
               PROVE  Usage(files', orphans', db') <= Cap
    OBVIOUS
  <2>1. CASE CapStart
    BY <2>1 DEF CapStart
  <2>2. CASE CapRecount
    BY <2>2 DEF CapRecount
  <2>3. CASE CapCompact
    BY <2>3 DEF CapCompact
  <2>4. ~(Tick \/ PruneBegin \/ InsertStep \/ InsertError)
    BY DEF Tick, PruneBegin, InsertStep, InsertError, InsertBegin, InsertWrite, InsertCommit
  <2>5. ~(PruneError \/ CapError \/ Crash \/ CapTooSmall)
    BY DEF PruneError, CapError, Crash, CapTooSmall, Return
  <2>6. ~(PruneCommit \/ CapEvidenceEnd \/ CapEvents \/ \E v \in Evidence : PruneExpire(v) \/ CapEvidence(v))
    BY DEF PruneCommit, CapEvidenceEnd, CapEvents, PruneExpire, CapEvidence
  <2> QED
    BY <1>1, <2>1, <2>2, <2>3, <2>4, <2>5, <2>6 DEF Next, PruneStep
<1>2. [Next]_vars => [Ends]_vars
  BY <1>1
<1>3. [][Next]_vars => [][Ends]_vars
  BY <1>2, PTL
<1>4. [][Ends]_vars => WithinCap
  BY PTL DEF WithinCap
<1> QED
  BY <1>3, <1>4, PTL DEF Spec

-----------------------------------------------------------------------------
(* The sensor health monitor *)

(* A sensor that has been alerted about, and whose mark was not lost, is marked
   or about to be, and is not handled again: it is not in the rest of the
   snapshot the monitor works on. *)
Settled(s) ==
    /\ told[s] <= 1
    /\ told[s] = 1 => /\ s \notin todo /\ ~(mpc = "process" /\ cur = s)
                     /\ (recorded[s] = "unhealthy" \/ (mpc = "mark" /\ cur = s))

HealthInv == /\ HealthTypeOK
             /\ cur \notin todo
             /\ \A s \in Sensors : s \notin lapsed => Settled(s)

LEMMA HealthStarts ==
  ASSUME HealthInit
  PROVE  HealthInv
<1>1. HealthTypeOK
  BY SensorHealthAssumption DEF HealthInit, HealthTypeOK, Late
<1> QED
  BY <1>1 DEF HealthInit, HealthInv, Settled

(* A contact of the sensor s: the row of s may be refreshed, its history starts
   afresh; the monitor and the other sensors are left alone. *)
LEMMA HeardKeeps ==
  ASSUME HealthInv, NEW s \in Sensors, Heard(s),
         UNCHANGED <<mpc, todo, cur>>, linked' \subseteq Sensors,
         backlog' \in [Sensors -> 0..Backlog], age' \in [Sensors -> 0..(Window + 1)],
         recorded' \in [Sensors -> {"healthy", "unhealthy"}],
         \A t \in Sensors \ {s} : recorded'[t] = recorded[t]
  PROVE  HealthInv'
<1>1. quiet' \in [Sensors -> 0..(Window + 1)] /\ told' \in [Sensors -> 0..2] /\ lapsed' = lapsed \ {s}
  BY SensorHealthAssumption DEF Heard, HealthInv, HealthTypeOK, Late
<1>2. HealthTypeOK'
  BY <1>1 DEF HealthInv, HealthTypeOK, Late
<1>3. told'[s] = 0 /\ \A t \in Sensors \ {s} : told'[t] = told[t]
  BY DEF Heard, HealthInv, HealthTypeOK
<1>4. \A t \in Sensors : t \notin lapsed' => Settled(t)'
  <2> SUFFICES ASSUME NEW t \in Sensors, t \notin lapsed' PROVE Settled(t)'
    OBVIOUS
  <2>1. CASE t = s
    BY <1>3, <2>1 DEF Settled
  <2>2. CASE t # s
    BY <1>1, <1>3, <2>2 DEF HealthInv, Settled
  <2> QED
    BY <2>1, <2>2
<1> QED
  BY <1>2, <1>4 DEF HealthInv

LEMMA ContactKeeps ==
  ASSUME HealthInv, NEW s \in Sensors, Contact(s)
  PROVE  HealthInv'
<1> USE DEF monitor, history, Late
<1>1. ASSUME NEW a \in 0..(Window + 1), Refresh(s, a)
      PROVE  /\ age' \in [Sensors -> 0..(Window + 1)]
             /\ recorded' \in [Sensors -> {"healthy", "unhealthy"}]
             /\ \A t \in Sensors \ {s} : recorded'[t] = recorded[t]
  BY <1>1 DEF Refresh, HealthInv, HealthTypeOK
<1>2. 0 \in 0..(Window + 1)
  BY SensorHealthAssumption
<1>3. linked \subseteq Sensors /\ backlog \in [Sensors -> 0..Backlog]
  BY DEF HealthInv, HealthTypeOK
<1>4. backlog[s] > 0 => [backlog EXCEPT ![s] = @ - 1] \in [Sensors -> 0..Backlog]
  <2>1. Backlog \in Nat
    BY SensorHealthAssumption
  <2>2. backlog[s] > 0 => backlog[s] - 1 \in 0..Backlog
    BY <1>3, <2>1
  <2> QED
    BY <1>3, <2>2
<1>5. CASE Connect(s) \/ Heartbeat(s) \/ Deliver(s)
  <2>1. Refresh(s, 0) /\ Heard(s) /\ UNCHANGED <<mpc, todo, cur, backlog>>
        /\ linked' \subseteq Sensors
    BY <1>3, <1>5 DEF Connect, Heartbeat, Deliver
  <2> QED
    BY <1>1, <1>2, <1>3, <2>1, HeardKeeps
<1>6. CASE \E a \in 0..(Window + 1) : Replay(s, a)
  <2>1. PICK a \in 0..(Window + 1) : Replay(s, a)
    BY <1>6
  <2>2. /\ Refresh(s, a) /\ Heard(s) /\ UNCHANGED <<mpc, todo, cur>>
        /\ linked' \subseteq Sensors /\ backlog' \in [Sensors -> 0..Backlog]
    BY <1>3, <1>4, <2>1 DEF Replay
  <2> QED
    BY <1>1, <2>2, HeardKeeps
<1>7. CASE Repeat(s)
  <2>1. /\ Heard(s) /\ UNCHANGED <<mpc, todo, cur, age, recorded>>
        /\ linked' \subseteq Sensors /\ backlog' \in [Sensors -> 0..Backlog]
    BY <1>3, <1>4, <1>7 DEF Repeat
  <2>2. /\ age' \in [Sensors -> 0..(Window + 1)]
        /\ recorded' \in [Sensors -> {"healthy", "unhealthy"}]
        /\ \A t \in Sensors \ {s} : recorded'[t] = recorded[t]
    BY <2>1 DEF HealthInv, HealthTypeOK
  <2> QED
    BY <2>1, <2>2, HeardKeeps
<1>8. CASE Disconnect(s)
  BY <1>8 DEF Disconnect, HealthInv, HealthTypeOK, Settled
<1> QED
  BY <1>5, <1>6, <1>7, <1>8 DEF Contact

LEMMA HealthTickKeeps ==
  ASSUME HealthInv, HealthTick
  PROVE  HealthInv'
<1> USE DEF monitor, Late
<1>1. ASSUME NEW f \in [Sensors -> 0..(Window + 1)]
      PROVE  Older(f) \in [Sensors -> 0..(Window + 1)]
  BY SensorHealthAssumption DEF Older
<1>2. age' \in [Sensors -> 0..(Window + 1)] /\ quiet' \in [Sensors -> 0..(Window + 1)]
  BY <1>1 DEF HealthTick, HealthInv, HealthTypeOK
<1>3. UNCHANGED <<recorded, linked, backlog, mpc, todo, cur, told, lapsed>>
  BY DEF HealthTick
<1> QED
  BY <1>2, <1>3 DEF HealthInv, HealthTypeOK, Settled

LEMMA MonitorKeeps ==
  ASSUME HealthInv, MonitorStep \/ Abort
  PROVE  HealthInv'
<1> USE DEF history, Late
<1>1. CASE Check
  <2>1. todo' = {s \in Sensors : Silent(s)} /\ mpc = "idle" /\ mpc' = "loop" /\ cur' = cur /\ cur = NoSensor
        /\ UNCHANGED <<age, recorded, linked, backlog, quiet, told, lapsed>>
    BY <1>1 DEF Check, HealthInv, HealthTypeOK
  <2>2. HealthTypeOK'
    BY <2>1 DEF HealthInv, HealthTypeOK
  <2>3. cur' \notin todo'
    BY <2>1, SensorHealthAssumption
  <2>4. \A s \in Sensors : s \notin lapsed => Settled(s)'
    BY <2>1 DEF HealthInv, Settled, Silent
  <2> QED
    BY <2>1, <2>2, <2>3, <2>4 DEF HealthInv
<1>2. CASE \E s \in Sensors : Trigger(s)
  <2>1. PICK s \in Sensors : Trigger(s)
    BY <1>2
  <2>2. /\ mpc = "loop" /\ s \in todo /\ todo' = todo \ {s} /\ cur' = s /\ mpc' = "process"
        /\ age' = [age EXCEPT ![s] = 0] /\ recorded' = [recorded EXCEPT ![s] = "healthy"]
        /\ UNCHANGED <<linked, backlog, quiet, told, lapsed>>
    BY <2>1 DEF Trigger, Refresh
  <2>3. HealthTypeOK'
    <3>1. s # NoSensor /\ 0 \in 0..(Window + 1)
      BY SensorHealthAssumption
    <3> QED
      BY <2>2, <3>1 DEF HealthInv, HealthTypeOK
  <2>4. ASSUME NEW t \in Sensors, t \notin lapsed PROVE Settled(t)'
    <3>1. Settled(t) /\ (t = s => told[t] # 1)
      BY <2>2, <2>4 DEF HealthInv, Settled
    <3>2. t # s => recorded'[t] = recorded[t]
      BY <2>2 DEF HealthInv, HealthTypeOK
    <3> QED
      BY <2>2, <3>1, <3>2 DEF Settled
  <2> QED
    BY <2>2, <2>3, <2>4 DEF HealthInv
<1>3. CASE Process
  <2>1. /\ mpc = "process" /\ mpc' = "mark" /\ cur \in Sensors
        /\ told' = [told EXCEPT ![cur] = IF @ < 2 THEN @ + 1 ELSE 2]
        /\ UNCHANGED <<age, recorded, linked, backlog, todo, cur, quiet, lapsed>>
    BY <1>3 DEF Process, HealthInv, HealthTypeOK
  <2>2. told' \in [Sensors -> 0..2] /\ \A t \in Sensors \ {cur} : told'[t] = told[t]
    BY <2>1 DEF HealthInv, HealthTypeOK
  <2>3. HealthTypeOK'
    BY <2>1, <2>2 DEF HealthInv, HealthTypeOK
  <2>4. ASSUME NEW t \in Sensors, t \notin lapsed PROVE Settled(t)'
    <3>1. Settled(t)
      BY <2>4 DEF HealthInv
    <3>2. CASE t = cur
      <4>1. told[t] = 0
        BY <2>1, <3>1, <3>2 DEF HealthInv, Settled, HealthTypeOK
      <4>2. told'[t] = 1
        BY <2>1, <3>2, <4>1 DEF HealthInv, HealthTypeOK
      <4> QED
        BY <2>1, <3>2, <4>2 DEF HealthInv, Settled
    <3>3. CASE t # cur
      BY <2>1, <2>2, <3>1, <3>3 DEF Settled
    <3> QED
      BY <3>2, <3>3
  <2> QED
    BY <2>1, <2>3, <2>4 DEF HealthInv
<1>4. CASE Mark
  <2>1. /\ mpc = "mark" /\ mpc' = "loop" /\ cur \in Sensors /\ cur' = NoSensor
        /\ recorded' = [recorded EXCEPT ![cur] = "unhealthy"]
        /\ UNCHANGED <<age, linked, backlog, todo, quiet, told, lapsed>>
    BY <1>4 DEF Mark, HealthInv, HealthTypeOK
  <2>2. HealthTypeOK' /\ cur' \notin todo'
    BY <2>1, SensorHealthAssumption DEF HealthInv, HealthTypeOK
  <2>3. \A t \in Sensors : recorded'[t] = IF t = cur THEN "unhealthy" ELSE recorded[t]
    BY <2>1 DEF HealthInv, HealthTypeOK
  <2>4. \A t \in Sensors : t \notin lapsed => Settled(t)'
    BY <2>1, <2>3 DEF HealthInv, Settled
  <2> QED
    BY <2>1, <2>2, <2>4 DEF HealthInv
<1>5. CASE CheckEnd
  BY <1>5 DEF CheckEnd, HealthInv, HealthTypeOK, Settled
<1>6. CASE Abort
  <2>1. /\ mpc' = "idle" /\ todo' = {} /\ cur' = NoSensor /\ lapsed' = lapsed \cup ({cur} \ {NoSensor})
        /\ UNCHANGED <<age, recorded, linked, backlog, quiet, told>>
    BY <1>6 DEF Abort
  <2>2. HealthTypeOK'
    BY <2>1 DEF HealthInv, HealthTypeOK
  <2>3. \A t \in Sensors : t \notin lapsed' => Settled(t)'
    BY <2>1, SensorHealthAssumption DEF HealthInv, Settled
  <2> QED
    BY <2>1, <2>2, <2>3 DEF HealthInv
<1> QED
  BY <1>1, <1>2, <1>3, <1>4, <1>5, <1>6 DEF MonitorStep

LEMMA HealthInvariance == HealthSpec => []HealthInv
<1>1. HealthInit => HealthInv
  BY HealthStarts
<1>2. HealthInv /\ [HealthNext]_healthVars => HealthInv'
  <2> SUFFICES ASSUME HealthInv, [HealthNext]_healthVars PROVE HealthInv'
    OBVIOUS
  <2>1. CASE HealthNext
    BY <2>1, ContactKeeps, HealthTickKeeps, MonitorKeeps DEF HealthNext
  <2>2. CASE UNCHANGED healthVars
    BY <2>2 DEF healthVars, HealthInv, HealthTypeOK, Settled
  <2> QED
    BY <2>1, <2>2
<1> QED
  BY <1>1, <1>2, PTL DEF HealthSpec

(* In every reachable state the sensors table and the monitor have their types,
   and the monitor handles a sensor exactly between its trigger and its mark. *)
THEOREM HealthTypeCorrect == HealthSpec => []HealthTypeOK
<1>1. HealthInv => HealthTypeOK
  BY DEF HealthInv
<1> QED
  BY <1>1, HealthInvariance, PTL

(* However checks, heartbeats, replays and reconnections interleave with the
   separate transactions of checkSensorHealth, a sensor that is not heard is
   alerted about once, unless a failure lost the mark that goes with the alert. *)
THEOREM OneAlertPerSilence == HealthSpec => []AtMostOneAlert
<1>1. HealthInv => AtMostOneAlert
  BY DEF HealthInv, Settled, AtMostOneAlert, HealthTypeOK
<1> QED
  BY <1>1, HealthInvariance, PTL
===============================================================================
