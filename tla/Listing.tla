--------------------------------- MODULE Listing ---------------------------------
(***************************************************************************)
(* Reading the whole event table in pages while it changes.  Two readers:  *)
(* the hooks useCompleteEvents and useCompletePage (frontend/src/App.tsx), *)
(* which page by offset through the API behind the session, source and     *)
(* finding views, and Store.ForEachSnapshot (store/reporting.go), which    *)
(* pages by rowid behind every export.  Meanwhile events are               *)
(* inserted, with any timestamp since sensors replay late, and retention   *)
(* deletes the oldest and, under the storage cap, rewrites the database.   *)
(*                                                                         *)
(* An event is its timestamp; timestamps are distinct.  The table has no   *)
(* INTEGER PRIMARY KEY: SQLite (external) gives a new row the rowid after  *)
(* the greatest one in use, so the rowid of a deleted last row comes back, *)
(* and VACUUM may number the rows anew.                                    *)
(***************************************************************************)
EXTENDS Integers, FiniteSets, FiniteSetsExt

CONSTANTS
    Stamps,      \* the timestamps of the events there can be
    PageSize,    \* 500, rows of a page of the hooks
    ExportPage   \* 500, rows of a page of ForEachSnapshot

ASSUME ListingAssumption ==
    /\ Stamps \subseteq Nat /\ IsFiniteSet(Stamps)
    /\ PageSize \in Nat \ {0} /\ ExportPage \in Nat \ {0}

VARIABLES
    rowid,    \* per event, its row in the table; 0 when it is not there
    used,     \* events that have been inserted
    kind, lpc, offset, items, total, all,  \* the hook: which list, where it is,
              \* and its variables; a page and the list are sets of events
    lkept,    \* history: events that were there all the time since it began
    xpc, highWater, cursor, visited,       \* ForEachSnapshot
    xbegan, xkept,                         \* history: there when it began, and since;
    xmoved                                 \* rows were renumbered in the middle of it

tableVars == <<rowid, used>>
loadVars  == <<kind, lpc, offset, items, total, all>>
exportVars == <<xpc, highWater, cursor, visited>>
history == <<xbegan, xkept, xmoved>>
vars == <<rowid, used, kind, lpc, offset, items, total, all, lkept,
          xpc, highWater, cursor, visited, xbegan, xkept, xmoved>>

Table == {s \in Stamps : rowid[s] # 0}
LastRow == IF Table = {} THEN 0 ELSE Max({rowid[s] : s \in Table})

Init ==
    /\ used \in SUBSET Stamps
    /\ \E f \in [used -> 1..Cardinality(used)] :
         /\ \A s, t \in used : f[s] = f[t] => s = t
         /\ rowid = [s \in Stamps |-> IF s \in used THEN f[s] ELSE 0]
    /\ kind = "events" /\ lpc = "idle" /\ offset = 0 /\ items = {} /\ total = 0 /\ all = {}
    /\ lkept = {}
    /\ xpc = "idle" /\ highWater = 0 /\ cursor = 0 /\ visited = {}
    /\ xbegan = {} /\ xkept = {} /\ xmoved = FALSE

-----------------------------------------------------------------------------
(* The table *)

Insert(s) ==
    /\ s \notin used
    /\ used' = used \cup {s}
    /\ rowid' = [rowid EXCEPT ![s] = LastRow + 1]
    /\ UNCHANGED <<loadVars, lkept, exportVars, history>>

(* Retention, by age and by the cap, deletes the events with the oldest
   timestamps first. *)
DeleteOldest ==
    /\ Table # {}
    /\ LET s == Min(Table) IN
         /\ rowid' = [rowid EXCEPT ![s] = 0]
         /\ lkept' = lkept \ {s} /\ xkept' = xkept \ {s}
    /\ UNCHANGED <<used, loadVars, exportVars, xbegan, xmoved>>

(* The cap's compact(): VACUUM may give the rows of a table without INTEGER
   PRIMARY KEY new rowids, says SQLite; it copies them in the order of the old
   ones. *)
NewRow(s) == Cardinality({t \in Table : rowid[t] <= rowid[s]})

Compact ==
    /\ rowid' = [s \in Stamps |-> IF s \in Table THEN NewRow(s) ELSE 0]
    /\ rowid' # rowid
    /\ xmoved' = (xmoved \/ xpc = "page")
    /\ UNCHANGED <<used, loadVars, lkept, exportVars, xbegan, xkept>>

-----------------------------------------------------------------------------
(* useCompleteEvents and useCompletePage *)

(* GET /events reads the page and then counts; GET /findings/{id}/events counts
   first. *)
FirstStep(k) == IF k = "events" THEN "list" ELSE "count"

(* The effect runs: on mount, and when the list wanted is another one; the run
   before it has lost its flag active and changes nothing any more. *)
Open(k) ==
    /\ kind' = k /\ lpc' = FirstStep(k)
    /\ offset' = 0 /\ items' = {} /\ total' = 0 /\ all' = {}
    /\ lkept' = Table
    /\ UNCHANGED <<tableVars, exportVars, history>>

(* Mutant: the oldest events come first. *)
RankOldest(s) == Cardinality({t \in Table : t < s})

(* ORDER BY timestamp DESC: the number of rows before s. *)
Rank(s) == Cardinality({t \in Table : t > s})

(* SELECT ... ORDER BY timestamp DESC LIMIT PageSize OFFSET offset *)
ListRows ==
    /\ lpc = "list"
    /\ items' = {s \in Table : Rank(s) \in offset..(offset + PageSize - 1)}
    /\ lpc' = IF kind = "events" THEN "count" ELSE "apply"
    /\ UNCHANGED <<tableVars, kind, offset, total, all, lkept, exportVars, history>>

(* SELECT count( * ) *)
CountRows ==
    /\ lpc = "count"
    /\ total' = Cardinality(Table)
    /\ lpc' = IF kind = "events" THEN "apply" ELSE "list"
    /\ UNCHANGED <<tableVars, kind, offset, items, all, lkept, exportVars, history>>

(* The page arrives: it is added to the list, and the loop goes on until the
   offset reaches the total or a page is empty. *)
Apply ==
    /\ lpc = "apply"
    /\ all' = all \cup items
    /\ offset' = offset + Cardinality(items)
    /\ lpc' = IF offset' >= total \/ items = {} THEN "done" ELSE FirstStep(kind)
    /\ UNCHANGED <<tableVars, kind, items, total, lkept, exportVars, history>>

(* A request fails: an error is shown and no list. *)
LoadFails ==
    /\ lpc \in {"list", "count"}
    /\ lpc' = "failed"
    /\ UNCHANGED <<tableVars, kind, offset, items, total, all, lkept, exportVars, history>>

-----------------------------------------------------------------------------
(* ForEachSnapshot *)

BeginExport ==
    /\ xpc = "idle"
    /\ highWater' = LastRow
    /\ xpc' = IF LastRow = 0 THEN "done" ELSE "page"
    /\ xbegan' = Table /\ xkept' = Table
    /\ UNCHANGED <<tableVars, loadVars, lkept, cursor, visited, xmoved>>

(* Mutant: the page of the export is taken by offset. *)
PageRowsByOffset ==
    LET n == Cardinality(visited) IN
      {s \in Table : /\ rowid[s] <= highWater
                     /\ Cardinality({t \in Table : rowid[t] < rowid[s]}) \in n..(n + ExportPage - 1)}

(* WHERE rowid>cursor AND rowid<=highWater ORDER BY rowid LIMIT ExportPage *)
PageRows ==
    LET rest == {s \in Table : cursor < rowid[s] /\ rowid[s] <= highWater} IN
      {s \in rest : Cardinality({t \in rest : rowid[t] < rowid[s]}) < ExportPage}

(* A page is read and its records are handed to the caller one by one; they are
   copies, so what happens to the table meanwhile does not matter to them. *)
ExportRows ==
    /\ xpc = "page"
    /\ visited' = visited \cup PageRows
    /\ cursor' = IF PageRows = {} THEN cursor ELSE Max({rowid[s] : s \in PageRows})
    /\ xpc' = IF PageRows = {} \/ cursor' >= highWater THEN "done" ELSE "page"
    /\ UNCHANGED <<tableVars, loadVars, lkept, highWater, history>>

(* The query, the evidence lookup or the write to the client fails somewhere in
   the page.  The handler logs it; the download ends as if it were complete. *)
ExportFails ==
    /\ xpc = "page"
    /\ \E m \in cursor..highWater : visited' = visited \cup {s \in PageRows : rowid[s] <= m}
    /\ xpc' = "cut"
    /\ UNCHANGED <<tableVars, loadVars, lkept, highWater, cursor, history>>

-----------------------------------------------------------------------------
Next ==
    \/ \E s \in Stamps : Insert(s)
    \/ DeleteOldest \/ Compact
    \/ \E k \in {"events", "linked"} : Open(k)
    \/ ListRows \/ CountRows \/ Apply \/ LoadFails
    \/ BeginExport \/ ExportRows \/ ExportFails

Spec == Init /\ [][Next]_vars

-----------------------------------------------------------------------------
(* Properties *)

TypeOK ==
    /\ rowid \in [Stamps -> Nat] /\ used \subseteq Stamps /\ Table \subseteq used
    /\ \A s, t \in Table : rowid[s] = rowid[t] => s = t
    /\ kind \in {"events", "linked"}
    /\ lpc \in {"idle", "list", "count", "apply", "done", "failed"}
    /\ offset \in Nat /\ items \subseteq Stamps /\ total \in Nat /\ all \subseteq Stamps
    /\ lkept \subseteq Table
    /\ xpc \in {"idle", "page", "done", "cut"} /\ highWater \in Nat /\ cursor \in Nat
    /\ visited \subseteq Stamps /\ xbegan \subseteq Stamps /\ xkept \subseteq Table
    /\ xmoved \in BOOLEAN

(* A complete list is complete: every event that was in the table from the
   moment the view was opened until it finished loading is in it, however many
   events were inserted and deleted between its pages, and between the page and
   the count of one request.  The newest-first order does it: an event never
   moves to an earlier place while only the oldest are deleted.  Where the count
   is read before the page the list may end one page early, but only when the
   last page it read was full.  Code: useCompleteEvents, useCompletePage, List
   and Count, FindingEvents. *)
SurvivorsListed ==
    lpc = "done" => \/ lkept \subseteq all
                    \/ kind = "linked" /\ Cardinality(items) = PageSize

(* An export is complete: every event that was in the table when it began and
   was not deleted before it ended was handed to the caller, if ForEachSnapshot
   returned no error (when it does, the handler only logs it) and no VACUUM
   renumbered the rows under its cursor.  The comment on ForEachSnapshot promises
   more, every event present at the beginning: one deleted before the cursor
   reaches it is missing too.  Code: ForEachSnapshot pages by rowid. *)
ExportComplete == (xpc = "done" /\ ~xmoved) => xkept \subseteq visited

(* An export is a snapshot: it hands out no event that was inserted after it
   began.  This is what the comment on ForEachSnapshot says of concurrent
   inserts; a rowid freed by retention and given to a new event breaks it. *)
NotExtended == visited \subseteq xbegan
=============================================================================
