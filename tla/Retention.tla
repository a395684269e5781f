------------------------------- MODULE Retention -------------------------------
(***************************************************************************)
(* The controller's data directory: rows in SQLite and one encrypted file  *)
(* per piece of evidence.  Store.Insert (store/store.go) writes the files  *)
(* before it commits the rows, Store.Prune and enforceCap                  *)
(* (store/retention.go) remove both.  writeMu serialises the two; files    *)
(* are not transactional, so an error or a crash can leave a file without  *)
(* its row or a row without its file.                                      *)
(*                                                                         *)
(* A file and a row each weigh one unit.  SQLite reuses free pages, and    *)
(* gives them back only when it is compacted.                              *)
(***************************************************************************)
EXTENDS Integers, FiniteSets, FiniteSetsExt

CONSTANTS Events, Evidence,
          Of,            \* the event a piece of evidence belongs to
          Stamp,         \* event timestamps
          Rank,          \* priority of its kind: pcap 0 ... other kinds 4
          Period,        \* age at which its kind expires, or Never
          MetadataAge,   \* MetadataDays
          Cap,           \* TotalBytes
          BatchSize,     \* 500 events in enforceCap
          MaxNow,        \* bound on the clock
          MaxOrphans,    \* bound on the files that lost their row
          Never, None

ASSUME RetentionAssumption ==
    /\ Of \in [Evidence -> Events]
    /\ Stamp \in [Events -> Nat] /\ Rank \in [Evidence -> Nat]
    /\ Period \in [Evidence -> Nat \cup {Never}]
    /\ MetadataAge \in Nat /\ Cap \in Nat \ {0} /\ BatchSize \in Nat \ {0}
    /\ MaxNow \in Nat /\ MaxOrphans \in Nat
    /\ Never \notin Nat /\ None \notin Events

VARIABLES
    now,
    events,     \* committed rows of events
    evid,       \* committed rows of evidence
    files,      \* evidence whose file is there for its row or open transaction
    orphans,    \* number of files in the directory that no row refers to
    db,         \* size of the database file
    pc,         \* what the holder of writeMu is doing
    new,        \* the event being inserted
    txEvid,     \* evidence rows as the open transaction sees them
    list,       \* enforceCap: evidence still to be visited
    used,       \* enforceCap: its running account of the disk
    deleted,    \* out.EvidenceDeleted > 0
    result,     \* what the last call returned: nil or an error
    chosen      \* history: evidence that retention has set about to remove

rows  == <<events, evid, db>>
disk  == <<files, orphans>>
local == <<new, txEvid, list, used, deleted, result>>
vars  == <<now, events, evid, files, orphans, db, pc, new, txEvid, list, used, deleted,
          result, chosen>>

Owned(E) == {v \in Evidence : Of[v] \in E}

(* diskUsage: the artifact directory and the database. *)
Usage(f, o, d) == Cardinality(f) + o + d

TypeOK ==
    /\ now \in 0..MaxNow
    /\ events \subseteq Events
    /\ evid \subseteq Owned(events) /\ txEvid \subseteq Evidence
    /\ files \subseteq Evidence /\ orphans \in Nat
    /\ db \in Nat /\ db >= Cardinality(events) + Cardinality(evid)
    /\ pc \in {"free", "insert", "expire", "cap", "evidence", "recount", "compact", "events"}
    /\ new \in Events \cup {None}
    /\ list \subseteq Evidence /\ chosen \subseteq Evidence
    /\ used \in Int /\ deleted \in BOOLEAN
    /\ result \in {"nil", "error"}

Init ==
    /\ now = 0
    /\ events = {} /\ evid = {} /\ files = {} /\ orphans = 0 /\ db = 0
    /\ pc = "free" /\ new = None /\ txEvid = {} /\ list = {}
    /\ used = 0 /\ deleted = FALSE /\ result = "nil" /\ chosen = {}

(* The call returns res; the deferred Unlock. *)
Return(res) ==
    /\ pc' = "free" /\ result' = res
    /\ new' = None /\ txEvid' = {} /\ list' = {} /\ used' = 0 /\ deleted' = FALSE

(* The database file grows to hold the rows, it does not shrink. *)
Commit(E, V) ==
    /\ events' = E /\ evid' = V
    /\ db' = Max({db, Cardinality(E) + Cardinality(V)})

(* Rows other than V are gone, their files lie about. *)
Forget(V) ==
    /\ files' = files \cap V
    /\ orphans' = orphans + Cardinality(files \ V)

(* Prune reads the clock once, at its start. *)
Tick ==
    /\ pc = "free" /\ now < MaxNow
    /\ now' = now + 1
    /\ UNCHANGED <<rows, disk, pc, local, chosen>>
-------------------------------------------------------------------------------
(* Store.Insert of an event that is not there yet. *)
InsertBegin(e) ==
    /\ pc = "free" /\ e \notin events /\ Stamp[e] <= now
    /\ orphans <= MaxOrphans
    /\ pc' = "insert" /\ new' = e /\ txEvid' = evid
    /\ UNCHANGED <<now, rows, disk, list, used, deleted, result, chosen>>

(* Seal, WriteFile under a fresh name, and the evidence row of the transaction. *)
InsertWrite(v) ==
    /\ pc = "insert" /\ v \in Owned({new}) \ txEvid
    /\ files' = files \cup {v}
    /\ txEvid' = txEvid \cup {v}
    /\ chosen' = chosen \ {v}
    /\ UNCHANGED <<now, rows, orphans, pc, new, list, used, deleted, result>>

(* Mutant: the rows are committed before the files are written. *)
CommitEarly ==
    /\ pc = "insert"
    /\ Commit(events \cup {new}, evid \cup Owned({new}))
    /\ Return("nil")
    /\ UNCHANGED <<now, disk, chosen>>

InsertCommit ==
    /\ pc = "insert" /\ Owned({new}) \subseteq txEvid
    /\ Commit(events \cup {new}, txEvid)
    /\ Return("nil")
    /\ UNCHANGED <<now, disk, chosen>>

(* Any error: rollback, and the deferred function removes the files created;
   a file whose WriteFile failed half-way is not among them. *)
InsertError ==
    /\ pc = "insert"
    /\ files' = files \ (txEvid \ evid)
    /\ orphans' \in {orphans} \cup {orphans + 1 : v \in Owned({new}) \ txEvid}
    /\ Return("error")
    /\ UNCHANGED <<now, rows, chosen>>
-------------------------------------------------------------------------------
(* Prune: evidence past the period of its kind, in one transaction. *)
Expired(e) == Stamp[e] + MetadataAge < now

Stale(v) == Period[v] # Never /\ Stamp[Of[v]] + Period[v] < now

PruneBegin ==
    /\ pc = "free"
    /\ pc' = "expire" /\ txEvid' = evid
    /\ UNCHANGED <<now, rows, disk, new, list, used, deleted, result, chosen>>

PruneExpire(v) ==
    /\ pc = "expire" /\ v \in txEvid /\ Stale(v)
    /\ files' = files \ {v}
    /\ txEvid' = txEvid \ {v}
    /\ deleted' = TRUE
    /\ chosen' = chosen \cup {v}
    /\ UNCHANGED <<now, rows, orphans, pc, new, list, used, result>>

(* ... then old events; their evidence rows go with them, their files do not. *)
PruneCommit ==
    /\ pc = "expire" /\ \A v \in txEvid : ~Stale(v)
    /\ LET keep == {e \in events : ~Expired(e)}
       IN  /\ Commit(keep, txEvid \cap Owned(keep))
           /\ Forget(Owned(keep))
    /\ pc' = "cap"
    /\ UNCHANGED <<now, new, txEvid, list, used, deleted, result, chosen>>

(* An error, or the context cancelled: rollback.  Removed files stay removed. *)
PruneError ==
    /\ pc = "expire"
    /\ Return("error")
    /\ UNCHANGED <<now, rows, disk, chosen>>
-------------------------------------------------------------------------------
(* enforceCap measures the directory and returns if it is small enough. *)
CapStart ==
    /\ pc = "cap"
    /\ IF Usage(files, orphans, db) <= Cap
       THEN Return("nil")
       ELSE /\ pc' = "evidence" /\ list' = evid /\ used' = Usage(files, orphans, db)
            /\ UNCHANGED <<new, txEvid, deleted, result>>
    /\ UNCHANGED <<now, rows, disk, chosen>>

Before(v, w) == \/ Rank[v] < Rank[w]
                \/ Rank[v] = Rank[w] /\ Stamp[Of[v]] < Stamp[Of[w]]

First(v, S) == v \in S /\ \A w \in S : ~Before(w, v)

(* Mutant: next is not advanced. *)
CapEvidenceStuck(v) ==
    /\ pc = "evidence" /\ used > Cap /\ First(v, list)
    /\ files' = files \ {v}
    /\ Commit(events, evid \ {v})
    /\ used' = used - Cardinality(files \cap {v})
    /\ deleted' = TRUE
    /\ chosen' = chosen \cup {v}
    /\ UNCHANGED <<now, orphans, pc, new, txEvid, list, result>>

(* Remove the next file and delete its row, while over the cap. *)
CapEvidence(v) ==
    /\ pc = "evidence" /\ used > Cap /\ First(v, list)
    /\ files' = files \ {v}
    /\ Commit(events, evid \ {v})
    /\ used' = used - Cardinality(files \cap {v})
    /\ list' = list \ {v}
    /\ deleted' = TRUE
    /\ chosen' = chosen \cup {v}
    /\ UNCHANGED <<now, orphans, pc, new, txEvid, result>>

CapEvidenceEnd ==
    /\ pc = "evidence" /\ (list = {} \/ used <= Cap)
    /\ pc' = "recount"
    /\ UNCHANGED <<now, rows, disk, local, chosen>>

(* Mutant: when the evidence is used up enforceCap returns. *)
CapRecountEnd ==
    /\ pc = "recount"
    /\ Return("nil")
    /\ UNCHANGED <<now, rows, disk, chosen>>

(* checkpoint and measure again: back to the evidence, done, or on to rows. *)
CapRecount ==
    /\ pc = "recount"
    /\ IF Usage(files, orphans, db) <= Cap
       THEN Return("nil")
       ELSE /\ used' = Usage(files, orphans, db)
            /\ pc' = IF list # {} THEN "evidence" ELSE IF deleted THEN "compact" ELSE "events"
            /\ UNCHANGED <<new, txEvid, list, deleted, result>>
    /\ UNCHANGED <<now, rows, disk, chosen>>

(* VACUUM gives free pages back. *)
Compacted == Cardinality(events) + Cardinality(evid)

CapCompact ==
    /\ pc = "compact"
    /\ db' = Compacted
    /\ IF Usage(files, orphans, Compacted) <= Cap
       THEN Return("nil")
       ELSE /\ used' = Usage(files, orphans, Compacted)
            /\ pc' = "events"
            /\ UNCHANGED <<new, txEvid, list, deleted, result>>
    /\ UNCHANGED <<now, events, evid, disk, chosen>>

(* Mutant: no ORDER BY. *)
AnyEvents(B) ==
    /\ B \subseteq events
    /\ Cardinality(B) = Min({BatchSize, Cardinality(events)})

(* The oldest events go, a batch at a time, each followed by a compaction. *)
Oldest(B) ==
    /\ B \subseteq events
    /\ Cardinality(B) = Min({BatchSize, Cardinality(events)})
    /\ \A b \in B, e \in events \ B : Stamp[b] <= Stamp[e]

CapEvents ==
    /\ pc = "events" /\ events # {}
    /\ \E B \in SUBSET events :
          /\ Oldest(B)
          /\ Commit(events \ B, evid \ Owned(B))
          /\ Forget(evid \ Owned(B))
    /\ pc' = "compact"
    /\ UNCHANGED <<now, local, chosen>>

(* "retention cap is smaller than ...": nothing is left to delete. *)
CapTooSmall ==
    /\ pc = "events" /\ events = {}
    /\ Return("error")
    /\ UNCHANGED <<now, rows, disk, chosen>>

(* An error ends the run; the last file may be gone and its row still there. *)
CapError ==
    /\ pc \in {"cap", "evidence", "recount", "compact", "events"}
    /\ \/ UNCHANGED <<files, chosen>>
       \/ /\ pc = "evidence" /\ used > Cap
          /\ \E v \in list : /\ First(v, list)
                             /\ files' = files \ {v}
                             /\ chosen' = chosen \cup {v}
    /\ Return("error")
    /\ UNCHANGED <<now, rows, orphans>>

(* The controller dies and starts again: SQLite rolls back, files stay. *)
Crash ==
    /\ pc # "free"
    /\ Forget(evid)
    /\ Return("error")
    /\ UNCHANGED <<now, rows, chosen>>
-------------------------------------------------------------------------------
InsertStep ==
    \/ \E e \in Events : InsertBegin(e)
    \/ \E v \in Evidence : InsertWrite(v)
    \/ InsertCommit

PruneStep ==
    \/ \E v \in Evidence : PruneExpire(v) \/ CapEvidence(v)
    \/ PruneCommit
    \/ CapStart \/ CapEvidenceEnd \/ CapRecount \/ CapCompact \/ CapEvents \/ CapTooSmall

Next ==
    \/ Tick \/ InsertStep \/ PruneBegin \/ PruneStep
    \/ InsertError \/ PruneError \/ CapError \/ Crash

Spec == Init /\ [][Next]_vars

(* The goroutine that holds writeMu runs. *)
FairSpec == Spec /\ WF_vars(PruneStep)
-------------------------------------------------------------------------------
(* Evidence on record can be read unless retention has set about to remove
   it: no failed or interrupted insert commits a row whose file is missing or
   takes back the file of a committed row (store.go 132-141, 161-203). *)
Readable == evid \ chosen \subseteq files

(* What goes first when the cap is exceeded.  Metadata within its period is
   removed only when no evidence row is left, and oldest first; evidence is
   removed before its period only in the order of its kinds: nothing of a later
   kind goes while an earlier kind is on record.  (Rows, not files: a file whose
   row was cascaded away outlives them all.)  Code: retention.go 83-185. *)
OldestFirst ==
    [][/\ \A e \in events \ events' :
          \/ Expired(e)
          \/ evid = {} /\ \A d \in events' : Stamp[e] <= Stamp[d]
       /\ \A v \in evid \ evid' :
          \/ Stale(v) \/ Expired(Of[v])
          \/ \A w \in evid' : Rank[v] <= Rank[w]]_vars

(* A run of Prune ends. *)
PruneEnds == pc = "expire" ~> pc = "free"

(* A Prune that returns no error leaves the directory within the cap,
   "measured on the complete controller data directory": not only by the
   running account enforceCap keeps, and although it sees rows and not files
   (retention.go 83-200). *)
WithinCap ==
    [][(pc \notin {"free", "insert"} /\ pc' = "free" /\ result' = "nil")
          => (Usage(files', orphans', db') <= Cap)]_vars

===============================================================================
