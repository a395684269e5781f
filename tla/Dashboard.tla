------------------------------- MODULE Dashboard -------------------------------
(***************************************************************************)
(* The operator's single-page dashboard (frontend/src/App.tsx): the route, *)
(* the one page mounted for it, and the hook useData through which a page  *)
(* reads the controller's API while events are stored, deleted and         *)
(* streamed.  A page keeps its filter, page number, page size and refresh  *)
(* counter in React state; the URL it wants is a function of them.  React  *)
(* runs effects after it has shown the new state, so the URL a page shows  *)
(* and the URL it last asked for differ for a while, and several requests  *)
(* may be out at once: each effect run has its own flag `active', cleared  *)
(* when the effect is cleaned up.                                          *)
(*                                                                         *)
(* The store behind the API is the events numbered deleted+1..stored.  A   *)
(* path is the sequence of its non-empty, decoded parts: encodeURIComponent*)
(* escapes the slash, so an id is one part.                                *)
(***************************************************************************)
EXTENDS Integers, FiniteSets, FiniteSetsExt, Sequences

CONSTANTS
    Filters,      \* what the filter panel can select
    NoFilter,     \* its initial and its cleared value
    Matching,     \* per filter, the events it selects
    Group,        \* per event, the row of the sessions or sources list it is in
    PageSizes,    \* 10, 25, 100
    DefaultSize,  \* 25
    Paths,        \* the addresses that are visited
    Present,      \* number of events in the table when the dashboard opens
    MaxEvents,    \* bound on events stored
    MaxActs,      \* bound on what the operator does
    MaxOut,       \* bound on requests out at once, for the operator's actions
    None

ASSUME DashboardAssumption ==
    /\ NoFilter \in Filters
    /\ DefaultSize \in PageSizes /\ PageSizes \subseteq Nat \ {0}
    /\ Present \in 0..MaxEvents
    /\ MaxEvents \in Nat /\ MaxActs \in Nat /\ MaxOut \in Nat
    /\ Matching \in [Filters -> SUBSET Nat]
    /\ DOMAIN Group = 1..MaxEvents
    /\ Paths \subseteq Seq(STRING)

VARIABLES
    location,  \* window.location.pathname
    route,     \* the state of useRoute
    filter, page, pageSize, refresh, pending,  \* state of the mounted page
    asked,     \* the URL of the last run of the effect of useData
    reqs,      \* requests that are out: URL, the flag active, the answer
    data, error, loading,                      \* state of useData
    stored, deleted,                           \* the event table
    heard,     \* the last event the page's EventSource received
    acts

pageVars  == <<filter, page, pageSize, refresh, pending>>
dataVars  == <<asked, reqs, data, error, loading>>
storeVars == <<stored, deleted>>
dashVars == <<location, route, filter, page, pageSize, refresh, pending, asked,
          reqs, data, error, loading, stored, deleted, heard, acts>>

-----------------------------------------------------------------------------
(* Routes *)

Route(p, i, k) == [page |-> p, id |-> i, rawKind |-> k]
Detail   == [sessions |-> "session", sources |-> "source", events |-> "event"]
RawKinds == DOMAIN Detail
Lists    == {"activity", "sessions", "sources", "artifacts", "alerts", "settings"}

parseRoute(parts) ==
    CASE parts = <<>> -> Route("overview", "", "")
      [] Len(parts) >= 2 /\ parts[1] \in RawKinds -> Route(Detail[parts[1]], parts[2], "")
      [] Len(parts) >= 3 /\ parts[1] = "raw" /\ parts[2] \in RawKinds
            -> Route("raw", parts[3], parts[2])
      [] Len(parts) = 1 /\ parts[1] \in Lists -> Route(parts[1], "", "")
      [] OTHER -> Route("not-found", "", "")

(* The key of the error boundary around the page: a change of key remounts. *)
Key(r) == <<r.page, r.id>>

-----------------------------------------------------------------------------
(* The URL a page wants, and what the API knows about it *)

Paged    == {"activity", "sessions", "sources", "artifacts"}
HasData  == route.page # "not-found"

buildEventQuery(f, p, s, n) ==
    LET size    == IF s \in PageSizes THEN s ELSE DefaultSize
        current == Max({1, p})
    IN  [res |-> "events", key |-> f, offset |-> (current - 1) * size,
         limit |-> size, refresh |-> n]

Single(res, key) == [res |-> res, key |-> key, offset |-> 0, limit |-> 0, refresh |-> 0]

RawUrl(r) ==
    CASE r.rawKind = "events"   -> Single("event", r.id)
      [] r.rawKind = "sessions" -> Single("sessionEvents", r.id)
      [] r.rawKind = "sources"  -> Single("sourceEvents", r.id)

(* Mutant: the refresh counter is not part of the URL. *)
UrlNoRefresh ==
    CASE route.page = "activity" -> buildEventQuery(filter, page, pageSize, 0)
      [] route.page \in Paged \ {"activity"} ->
            [res |-> route.page, key |-> "", offset |-> (page - 1) * pageSize,
             limit |-> pageSize, refresh |-> 0]
      [] route.page = "raw" -> RawUrl(route)
      [] OTHER -> Single(route.page, route.id)

Url ==
    CASE route.page = "activity" -> buildEventQuery(filter, page, pageSize, refresh)
      [] route.page \in Paged \ {"activity"} ->
            [res |-> route.page, key |-> "", offset |-> (page - 1) * pageSize,
             limit |-> pageSize, refresh |-> 0]
      [] route.page = "raw" -> RawUrl(route)
      [] OTHER -> Single(route.page, route.id)

Alive == (deleted + 1)..stored

Total(u) ==
    CASE u.res = "events" -> Cardinality(Alive \cap Matching[u.key])
      [] u.res \in Paged  -> Cardinality({Group[i] : i \in Alive})
      [] OTHER -> 0

totalRows == IF data = None THEN 0 ELSE data.total
CeilDiv(n, d) == (n + d - 1) \div d
PageCount == Max({1, CeilDiv(totalRows, pageSize)})

(* Mutant: the window does not move back at the last pages. *)
paginationWindowOff(p, n) ==
    LET count   == Max({1, n})
        current == Min({Max({1, p}), count})
        start   == Max({1, current - 2})
        end     == Min({count, start + 4})
    IN  start..end

(* The numbered page buttons. *)
paginationWindow(p, n) ==
    LET count   == Max({1, n})
        current == Min({Max({1, p}), count})
        start   == Max({1, Min({current - 2, count - 4})})
        end     == Min({count, start + 4})
    IN  start..end

(* All page buttons that are not disabled. *)
Buttons == paginationWindow(page, PageCount)
           \cup (IF page # 1 THEN {1, page - 1} ELSE {})
           \cup (IF page # PageCount THEN {page + 1, PageCount} ELSE {})

-----------------------------------------------------------------------------
(* Mounting a page, and navigation *)

DashInit ==
    /\ location \in Paths
    /\ route = parseRoute(location)
    /\ filter = NoFilter /\ page = 1 /\ pageSize = DefaultSize
    /\ refresh = 0 /\ pending = 0
    /\ asked = None /\ reqs = {} /\ data = None /\ error = FALSE /\ loading = TRUE
    /\ stored = Present /\ deleted = 0 /\ heard = stored
    /\ acts = 0

Deactivated(rs) == {[url |-> r.url, active |-> FALSE, ans |-> r.ans] : r \in rs}

(* Another key: the old page's state and effects go, the new page starts with
   its initial state and opens its stream. *)
Mount ==
    /\ filter' = NoFilter /\ page' = 1 /\ pageSize' = DefaultSize
    /\ refresh' = 0 /\ pending' = 0
    /\ asked' = None /\ reqs' = Deactivated(reqs)
    /\ data' = None /\ error' = FALSE /\ loading' = TRUE
    /\ heard' = stored

SetRoute(path) ==
    /\ location' = path
    /\ route' = parseRoute(path)
    /\ IF Key(parseRoute(path)) # Key(route)
       THEN Mount
       ELSE UNCHANGED <<pageVars, dataVars, heard>>
    /\ UNCHANGED storeVars

Act == acts < MaxActs /\ Cardinality(reqs) < MaxOut /\ acts' = acts + 1

(* go: a click on a link; it does nothing for the current address. *)
Go(path) == Act /\ path # location /\ SetRoute(path)

(* popstate: back and forward bring any address the window has had. *)
PopState(path) == Act /\ SetRoute(path)

-----------------------------------------------------------------------------
(* useData *)

(* The effect of useData runs: the URL shown is not the one last asked for. *)
Ask ==
    /\ HasData /\ asked # Url
    /\ asked' = Url /\ loading' = TRUE /\ error' = FALSE
    /\ reqs' = Deactivated(reqs) \cup {[url |-> Url, active |-> TRUE, ans |-> None]}
    /\ UNCHANGED <<location, route, pageVars, data, storeVars, heard, acts>>

Answer(u) == [url |-> u, failed |-> FALSE, total |-> Total(u), newest |-> stored]
Failure(u) == [url |-> u, failed |-> TRUE, total |-> 0, newest |-> 0]

(* The controller reads the table and answers, or the request fails (no
   connection, an error status); the answer is still under way. *)
Serve(r) ==
    /\ r.ans = None
    /\ \E a \in {Answer(r.url), Failure(r.url)} :
         reqs' = (reqs \ {r}) \cup {[url |-> r.url, active |-> r.active, ans |-> a]}
    /\ UNCHANGED <<location, route, pageVars, asked, data, error, loading, storeVars, heard, acts>>

(* Mutant: answers are applied without a look at the flag active. *)
ArriveAnyway(r) ==
    /\ r.ans # None
    /\ reqs' = reqs \ {r}
    /\ data' = IF ~r.ans.failed THEN r.ans ELSE data
    /\ error' = (error \/ r.ans.failed)
    /\ loading' = FALSE
    /\ UNCHANGED <<location, route, pageVars, asked, storeVars, heard, acts>>

(* then, catch and finally of the effect run that sent the request. *)
Arrive(r) ==
    /\ r.ans # None
    /\ reqs' = reqs \ {r}
    /\ data' = IF r.active /\ ~r.ans.failed THEN r.ans ELSE data
    /\ error' = (error \/ (r.active /\ r.ans.failed))
    /\ loading' = (loading /\ ~r.active)
    /\ UNCHANGED <<location, route, pageVars, asked, storeVars, heard, acts>>

-----------------------------------------------------------------------------
(* ActivityPage, and the paged lists *)

OnPage(pages) == route.page \in pages /\ UNCHANGED <<location, route, dataVars, storeVars, heard>>

(* Mutant: the page after the last one counts as the last. *)
ClampOver ==
    /\ OnPage({"activity"})
    /\ asked = Url /\ page > PageCount
    /\ page' = PageCount + 1
    /\ UNCHANGED <<filter, pageSize, refresh, pending, acts>>

(* The effect that brings the page back into range; only ActivityPage has it. *)
Clamp ==
    /\ OnPage({"activity"})
    /\ asked = Url /\ page > PageCount
    /\ page' = PageCount
    /\ UNCHANGED <<filter, pageSize, refresh, pending, acts>>

(* update, search and clear: another filter, the first page. *)
Update(f) ==
    /\ Act /\ OnPage({"activity"})
    /\ filter' = f /\ page' = 1
    /\ UNCHANGED <<pageSize, refresh, pending>>

(* The button "new events available"; it is there while pending > 0. *)
Reload ==
    /\ Act /\ OnPage({"activity"}) /\ pending > 0
    /\ refresh' = refresh + 1 /\ pending' = 0 /\ page' = 1
    /\ UNCHANGED <<filter, pageSize>>

(* Pagination is shown once the page has loaded. *)
TurnPage(p) ==
    /\ Act /\ OnPage(Paged) /\ ~loading
    /\ p \in Buttons
    /\ page' = p
    /\ UNCHANGED <<filter, pageSize, refresh, pending>>

TurnSize(s) ==
    /\ Act /\ OnPage(Paged) /\ ~loading
    /\ pageSize' = s /\ page' = 1
    /\ UNCHANGED <<filter, refresh, pending>>

(* The stream of ActivityPage brings an event that is stored; events before it
   that it did not bring are lost (a full channel, a reconnection). *)
Receive(i) ==
    /\ route.page = "activity"
    /\ i > heard
    /\ heard' = i /\ pending' = pending + 1
    /\ UNCHANGED <<location, route, filter, page, pageSize, refresh, dataVars, storeVars, acts>>

(* The controller stores an event, and retention deletes the oldest. *)
Collect ==
    /\ stored < MaxEvents /\ stored' = stored + 1
    /\ UNCHANGED <<location, route, pageVars, dataVars, deleted, heard, acts>>

Retain ==
    /\ deleted < stored /\ deleted' = deleted + 1
    /\ UNCHANGED <<location, route, pageVars, dataVars, stored, heard, acts>>

-----------------------------------------------------------------------------
DashNext ==
    \/ \E path \in Paths : Go(path) \/ PopState(path)
    \/ Ask
    \/ \E r \in reqs : Serve(r)
    \/ \E r \in reqs : Arrive(r)
    \/ Clamp \/ Reload
    \/ \E f \in Filters : Update(f)
    \/ \E p \in 1..(MaxEvents + MaxActs) : TurnPage(p)
    \/ \E s \in PageSizes : TurnSize(s)
    \/ \E i \in 1..stored : Receive(i)
    \/ Collect \/ Retain

DashSpec == DashInit /\ [][DashNext]_dashVars

(* React runs the effects of what it has shown, and the browser settles every
   request; nothing obliges the operator or the sensors. *)
DashFairSpec ==
    /\ DashSpec
    /\ WF_dashVars(Ask) /\ WF_dashVars(Clamp)
    /\ WF_dashVars(\E r \in reqs : Serve(r))
    /\ WF_dashVars(\E r \in reqs : Arrive(r))
-----------------------------------------------------------------------------
(* Properties *)

Names == {""} \cup UNION {{p[i] : i \in 1..Len(p)} : p \in Paths}
Resources == (Lists \ {"activity"}) \cup {"overview", "session", "source", "event", "events",
                                         "sessionEvents", "sourceEvents"}
Urls == [res : Resources, key : Names \cup Filters, offset : Nat, limit : Nat, refresh : Nat]
Answers == [url : Urls, failed : BOOLEAN, total : Nat, newest : Nat]

DashTypeOK ==
    /\ location \in Paths /\ route = parseRoute(location)
    /\ filter \in Filters /\ page \in Nat \ {0} /\ pageSize \in PageSizes
    /\ refresh \in Nat /\ pending \in Nat
    /\ asked # None => asked \in Urls
    /\ \A r \in reqs : /\ r.url \in Urls /\ r.active \in BOOLEAN
                       /\ r.ans # None => r.ans \in Answers
    /\ data # None => data \in Answers
    /\ error \in BOOLEAN /\ loading \in BOOLEAN
    /\ stored \in 0..MaxEvents /\ deleted \in 0..stored /\ heard \in 0..stored
    /\ acts \in 0..MaxActs

(* What a page shows is its own.  At any moment its data comes from a request
   this page made, never from one of a page that was there before; and once
   the effect for its URL has run and loading has ended without an error, the
   data is the answer for exactly that URL, whatever answers came late and in
   whatever order.  Code: the key in App, the flag active in useData. *)
Resource == IF route.page = "activity" THEN {"events"}
            ELSE IF route.page = "raw" THEN {"event", "sessionEvents", "sourceEvents"}
            ELSE {route.page}
ShownMatches ==
    /\ data # None => data.url.res \in Resource
    /\ (HasData /\ asked = Url /\ ~loading /\ ~error) => (data # None /\ data.url = Url)

(* The activity log hides no event it was told of: when it has loaded without
   an error and offers no "new events available", its answer was read after
   every event its stream has delivered was stored.  Code: reload, pending and
   the order of store and publish in the controller. *)
NothingUnannounced ==
    (route.page = "activity" /\ asked = Url /\ ~loading /\ ~error /\ pending = 0)
        => heard <= data.newest

(* The page buttons: the numbered ones are consecutive, at most five, as many
   as there are pages when there are fewer, within range, and include the page
   shown when it is in range; for page numbers up to some beyond the one shown,
   since a list may shrink or grow under it.  Code: paginationWindow. *)
WindowRight ==
    \A p \in page..(page + 3), n \in 0..6 :
      LET w == paginationWindow(p, n) IN
        /\ Cardinality(w) = Min({5, Max({1, n})})
        /\ w \subseteq 1..Max({1, n})
        /\ p \in 1..n => p \in w

(* A dashboard that is left alone comes to rest: no request is out, what was
   wanted was asked for, loading has ended, and the activity log stands on a
   page that exists - the effect that corrects the page and the request it
   causes do not chase each other.  Code: the two effects of ActivityPage. *)
AtRest ==
    /\ reqs = {}
    /\ HasData => (asked = Url /\ ~loading)
    /\ route.page = "activity" => page <= PageCount
Settles == <>[]AtRest
=============================================================================
