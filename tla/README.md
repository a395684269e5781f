# Fyke: a TLA+ verification project

Fyke is a honeypot for one VPS. Four protocol sensors (SSH, Telnet, HTTP, HTTPS) each run in a
process of their own, record what visitors do as events with encrypted evidence, keep them in an
encrypted spool, and upload them over gRPC to one controller. The controller stores events in
SQLite and evidence in files, evaluates detection rules, delivers webhook alerts from an outbox,
watches whether its sensors report, prunes old data, and serves a dashboard.

What has to be right is the hand-over of evidence: ADR 0002
(`docs/adr/0002-make-external-handoffs-trustworthy.md`) promises durable queues, replay after
recovery, and no silent omissions. Most of the modules are about that promise. The others are about
what the operator sees: a dashboard whose requests, answers and live stream overtake each other.

## Inventory

| Part | State | Operations | Interacts with | Hard because | Must hold |
| --- | --- | --- | --- | --- | --- |
| Sensor spool `spool/spool.go` | files, `used`, wake channel, mutex | `Open` `Put` `List` `Ack` | sessions, upload loop | crash between file steps, wake-up outside the mutex, limit | account exact, bounded, no lost wake-up, nothing lost |
| Upload client `transport/client.go` | stream, batch, message in hand | `Emit` `Run` `runOnce` `heartbeat` | spool, server | breaking streams, lost answers, retry | nothing acknowledged that is not stored, order kept |
| Ingest server `transport/server.go` | handler per stream | `Stream` | store, broker, rules | stale handlers beside new ones, cancelled contexts, crash before the answer | one row per event, rules run before the answer |
| Event store `store/store.go` | SQLite tables, evidence files | `Insert` `TouchSensor` `SetSensorStatus` queries, settings | everything in the controller | files are not transactional | rows and files agree |
| Findings `controller/alerts.go`, `store/investigation.go` | findings, links, cooldown | `Process` `recordFinding` `raise` `UpsertFinding` `ReserveFindingAlert` | stream handlers, operator, outbox | several transactions per event, concurrent and repeated evaluation, crash in between | exact counts, cooldown, no alert lost |
| Webhook outbox (same files) | `alert_deliveries`, wake channel | `EnqueueAlertDeliveries` `deliver` `deliverDue` `deliverOne`, marks, manual retry | endpoint, operator, retention | at-least-once, stale attempt count, shutdown | delivered means accepted, retries bounded, every row settles |
| Sensor health (same files) | `sensors` table | `TouchSensor` `Insert` `checkSensorHealth` `SetSensorStatus` | stream handlers | snapshot used after it is stale, replay of old time stamps | one alert per silence, recovery shown |
| Retention `store/retention.go` | rows, files, disk size | `Prune` `enforceCap` `compact` | `Insert`, readers | files and rows apart, crash and rollback, limit | right things removed in the right order, cap kept, ends |
| Live view `controller/broker.go`, `api.go` `stream`, `App.tsx` `useEventFeed` | subscriber channels, the feed | `Publish` `Subscribe` `Unsubscribe`, connect, fetch | handlers, the overview page | slow subscriber, close against send, list and stream both fill the feed | no send on a closed channel, `Publish` returns, the newest events kept, nothing missed silently |
| Artifact analysis `controller/artifacts.go`, `artifactworker/worker.go` | `artifact_analysis` rows, wake channel | `Wake` `run` `process`, queue and read over the API | worker process, artifacts page | crash while busy, wake-ups, failing writes | every queued artifact settles |
| Lists, exports, bundles `App.tsx` hooks, `store/store.go`, `store/reporting.go`, `controller/bundle.go` | offset or snapshot cursor | `List` `Count` `FindingEvents`, `useCompleteEvents` `useCompletePage` `ForEachSnapshot` | retention, inserts | rows inserted, deleted and rowids reused between two pages | complete, a snapshot |
| Dashboard `frontend/src/App.tsx` | route, request state per page, page number, filter, live counter | navigation, `useData`, activity log, pagination | controller API | late and failed answers, effects that cause requests | what is shown belongs to the page shown; no event hidden |
| Preferences and finding status `controller/api.go`, `alerts.go`, `App.tsx` | settings rows, running engine, forms | `alertPreferences` `UpdateConfig` `updateFinding`, the pages | operator, restarts | two steps that can part, concurrent PUTs, lost answers | what runs is what a restart loads; the list shows what was done |
| Sessions and limits `sensor/` | sequence, limiter, auth gate | `Emit` `Acquire` `Accept` | protocols | concurrent emitters, leaks at the limit | numbers unique, slots returned (not modelled) |
| Decoys and emulator `protocol/`, `emulator/` | session state, virtual files | parsers, shell | sessions | long input sequences | not modelled |
| Backup and restore `ops/archive.go` | archive, data directory | `Backup` `Restore` `Export` | operator | failure half-way | restored set equals saved set (not modelled) |
| Operations, configuration, cryptography, personas | | | | | see "Not modelled" |

## Modules

`Spool` and `Ingest` model the sensor side down to single file and network steps; `Ingest` uses the
spool only through what `DurableQueue` says of it, and `Spool` is shown to implement
`DurableQueue`. `Ingest` in turn is shown to implement `EvidenceLog`, the promise of ADR 0002.
`Findings` starts where `Ingest` calls `publish`; `Outbox` starts where `Findings` enqueues.
`SensorHealth` and `Retention` share `Store.Insert` with `Ingest`, each keeping the part of its
effect that matters to it. `Dashboard`, `LiveFeed` and `Listing` model the frontend with the part of
the controller it talks to. `Console` composes `Preferences`, `FindingStatus` and `Analysis`: they
share the page that is mounted and the controller's stop, death and restart (`ConsoleState`).

| Module | Models | State and actions against the code |
| --- | --- | --- |
| `DurableQueue` | promise of the spool | a record is new, queued or taken; `promised` when `Put` returned nil |
| `Spool` | `spool.Spool`, its producers and upload loop | `.rec` and `.tmp` files, `s.used`, `s.wake`, `s.mu`; the steps of `Put`, `List`, `Ack`, `Open`; crash of the process |
| `EvidenceLog` | promise of the whole path | an event is held until logged and announced |
| `Ingest` | `Client.Run/runOnce/heartbeat`, `Server.Stream`, the row of `Store.Insert`, `publish` | one client loop per sensor, one handler per stream; one action per step between two awaits; faults: broken stream, store error, failed `Ack`, crash of either side |
| `SpoolProofs`, `IngestProofs`, `FindingsProofs`, `OutboxProofs`, `ConsoleProofs` | theorems about these modules | |
| `ListingProofs` | theorems about `Listing` and `Dashboard` | |
| `MaintenanceProofs` | theorems about `Retention` and `SensorHealth` | |
| `ViewProofs` | theorems about `LiveFeed` | |
| `Findings` | `Process`, `recordFinding`, `raise` and the store transactions below them; retention's deletes underneath | a worker per handler that is inside `Process`; one action per transaction; a rule that queries the store or the clock may decline, or its query fail, at each evaluation (`Decline`); deleting an event cascades to its links (`Prune`) |
| `Outbox` | `alert_deliveries`, `deliver`, `deliverDue`, `deliverOne`, the manual retry | one action per select branch, query, POST and mark |
| `SensorHealth` | the `sensors` table, `checkSensorHealth` | ages instead of times; one action per transaction of the monitor |
| `Retention` | evidence files against rows in `Insert`, `Prune`, `enforceCap` | one action per file removed or written and per commit |
| `Dashboard` | `App`: `parseRoute`, the keyed mount, `useData`, the activity log with `reload`, its stream and its filter, the sessions and sources lists, the raw pages, `paginationWindow` | one action per navigation, effect, served request, arrived answer and click; a request carries the flag `active` of its effect |
| `LiveFeed` | `Broker.Publish`, `Subscribe`, `Unsubscribe`, the handler `stream`, `useEventFeed` | one action per select of `Publish`, per step of the stream handler and per message, fetch and reconnection of the page |
| `Listing` | `useCompleteEvents`, `useCompletePage`, `List`, `Count`, `FindingEvents`, `ForEachSnapshot`, `export` | one action per query; events inserted with any time stamp, the oldest deleted, rowids as SQLite gives them, also anew when the cap runs VACUUM (`Compact`) |
| `ConsoleState` | the mounted page and whether the controller runs | |
| `Preferences` | `SettingsPage`, `alertPreferences`, `UpdateConfig`, `setSigningSecret`, loading at start | one action per form event and per write; two handlers may overlap |
| `FindingStatus` | `AlertsPage`, `updateFinding`, `findings` | versions of the list against versions of the finding; PUTs applied, answered, lost |
| `Analysis` | `ArtifactAnalyzer`, the analysis API, `ArtifactsPage` | one action per select branch, query, worker call and closing write; preview and analysis as they arrive |
| `Console` | one operator, one page at a time, one controller | `Visit`, `Operate`, `Stop`, `Exit`, `Kill`, `Start` |
| `MC...` | the instances TLC checks | |

Abstractions worth knowing: payloads, encryption and rule predicates are left out (a record is its
id, a rule the findings an event can contribute to); what a rule that queries the store or the clock
finds, and an operator's preferences and source marks, which may change at any moment, are a choice
made where and whenever the code reads them; clocks are ages or a small bounded
counter. `RFC3339Nano` strings are compared as text by SQLite, which differs from time order only
for times that share all but their last digits; the models compare times. The spool's records have
distinct file names (nanosecond stamp and event id). The frontend's answers are abstracted to the URL
they answer and the number or version of what was in the table when they were read; a finding list is
the version it shows; preferences are one value and the signing secret. React runs an effect after the
render that changed its dependencies, in a step of its own, and answers come in any order.

## Runs

Passing runs, one per module or composition, each with its invariants, action properties, refinement and
liveness properties under the fair specification:

| Run | Instance | Shows |
| --- | --- | --- |
| `Spool` | 2 producers, 3 records of sizes 1, 1, 2, limit 3 | the account is exact, the limit kept, no wake-up lost, `Put`'s promise kept through crashes; `Spool` implements `DurableQueue`; every record on disk is uploaded, on the wake token alone |
| `Ingest` | 1 sensor, 3 records, one of them too large for the server, 2 streams, room for 2 | one row per event, nothing lost between spool and rules, order, no mismatched answer; `Ingest` implements `EvidenceLog`; replay completes once failures stop, up to a record that is too large |
| `Findings` | 2 events of which 1 can be deleted, 2 findings of which 1 has a rule with a query, 2 workers, cooldowns 1 and 2, 2 clock values | counts differ from the links by what retention took, cooldown kept, resolved findings reopen on new evidence only; an acknowledged event is under its findings and a reserved alert is queued, except where a query did not confirm, a call failed or the controller crashed at that very place |
| `Outbox` | 2 deliveries, 2 attempts, batch of 1, 1 manual retry | delivered means accepted, attempts bounded, ends final, every delivery settles |
| `Health` | 2 sensors, window 1, 1 replayed event each, failing monitor | at most one alert per silence unless its mark was lost; silence and recovery are shown in the end |
| `Retention` | 3 events, 3 pieces of evidence, cap 3, batch of 1 | recorded evidence that retention has not set about to remove readable, removals in order, success means within the cap, pruning ends |
| `Dashboard` | 2 events and a third that comes, 2 filters, pages of 1 and 2 rows, 5 addresses, 3 clicks, 2 requests out | a page shows answers to its own request and, once loaded, to its current URL; the activity log hides no event its stream announced; the page window is right; left alone, the dashboard comes to rest on a page that exists |
| `LiveFeed` | 2 publishers, channels and a feed of 2, 1 event present and 3 that come, 2 connections | a channel holds the newest events in order; none is sent on after it is closed; `Publish` returns whatever viewers do; every event is in the feed once, on its way, or given up at a place the design has for it |
| `Listing` | 4 time stamps, pages of 2, export pages of 1 | a list read by offset and an export read by rowid contain everything that was there all the time, the export if no VACUUM came in its middle |
| `Console` | 2 artifacts of which 1 is queued at the start, batch of 1, 2 handlers, 2 acts of the operator, 1 stop | what runs is what a restart would load; the findings list shows what the operator did; the artifact panel is about the selected artifact; every queued inspection is closed |

Runs that TLC refutes, each a disagreement between the code and what the repository says of it
(`PROJECT.json`, `findings`):

| Run | Shows |
| --- | --- |
| `FindingsCrash` | a crash between reservation and enqueue loses the alert: replay sees the event as linked |
| `ExportExtended` | an event inserted during an export is exported when it gets the rowid that retention freed |

Some passing properties carry an exception, which is where the code does less than one might expect;
each is stated in the property and its comment:

- A record above the server's message limit blocks the spool for ever (`ReplayedInTurn` speaks of the
  records before it).
- A shutdown cancels requests in flight and counts them as attempts, so a delivery can be given up
  that the endpoint never refused (`EventuallySettled` only says that it settles).
- A replayed event sets `last_seen` back and can raise an alert about a connected sensor (`Heals`
  says that this passes; `AtMostOneAlert` that it is one alert).
- Files whose rows were cascaded away are never removed, and metadata goes before them (`OldestFirst`
  speaks of rows; `WithinCap` counts the files, so such a run reports an error).
- `event_count` is not reduced when retention deletes an event, and an event deleted and sent again
  counts again (`CountExact` adds what retention took).
- A rule that queries the store or the clock decides by what it finds when it runs: it can decide
  differently in a replay, and when its query fails it is skipped without a word, for good once the
  event is acknowledged (`RulesApplied` says of such rules only that they were evaluated).
- A row whose expiry is rolled back after its file was removed has no file until the next expiry
  (`Readable` leaves out what retention has set about to remove).
- An event that is deleted before the export reaches it is missing, although `reporting.go:11`, ADR
  0002 and `README.md:253` promise every event present at the beginning; so may be one behind a
  cursor whose rows VACUUM numbered anew; an export that fails half-way ends like a complete one
  (`ExportComplete`, `ExportFails`).
- The fetched list of the overview replaces events that the stream brought first (`FeedAccounted`).
- A list whose count is read before its page can end early after a full page (`SurvivorsListed`).
- Overlapping PUTs of preferences can leave the engine running with other values than are stored; a
  failed protected write of the secret is ignored; a save made before the form was filled stores the
  form's built-in values; a secret in the configuration file replaces the operator's at every start
  (`PreferencesKept`).
- A lost answer to a status change leaves the list as it was (`ViewCurrent`).
- A late answer about another artifact replaces the preview (`PanelMatches`).
- A stop marks the artifacts of the batch in hand as failed (`EveryQueuedSettles` counts that as
  closed).

Read off the code while modelling, without a run of their own: `Put` does not sync, so a power
failure can leave an empty record; `.tmp` files left behind are outside the spool's limit; a full
spool refuses an event where `README.md` says the protocol waits (`EmitFull`); an event whose
`UpsertFinding` failed is acknowledged (`UpsertFails`); a mark made from a stale snapshot of the
sensors suppresses the alert for a silence that begins right after it; rules of the configuration file
are merged by name into the stored ones at every start; the sessions, sources and artifacts pages do
not bring their page number into range when the list shrinks; `openEvidence` of the event
page is as unguarded against late answers as the artifact panel; `deriveInsights` has no caller.

Bounds. Two producers, workers or handlers are the smallest number that can race: with two
streams a stale handler works beside a new one. Several sensors share nothing but the controller; the
theorems cover them. Three records give an order in which
one can be overtaken, and one more than the spool has room for. Batches of one and limits of two
make every loop go round more than once. Four time stamps and pages of two let an insert and a
deletion fall between two pages of a list; four events overflow a channel and a feed of two, and a
second connection shows what a reconnection misses. Two requests out at once are an old one and its
successor, and three clicks change the page, the page size and the filter under them. Two acts of the
operator are two PUTs that overlap, or an artifact opened while another is loading. `MaxClock`,
`MaxNow`, `MaxGone`, `MaxManual`, `MaxOrphans`, `Backlog`, `MaxEvents`, `MaxActs`, `MaxOut`, `MaxConns` and
`MaxStops` cap counters that the code leaves unbounded; ages are cut off where the code stops telling
them apart. `Marks` are the statuses operators use in the instance of `Findings` (the code tells
"resolved" from the others only), `Aged` the events retention may delete there. The instances of `Findings`, `Dashboard`, `LiveFeed`, `Listing` and
`Console` end when their events, clicks or stops are used up, so these runs do not check for deadlock;
all others do.

Fairness. Goroutines that can run do run (weak fairness of the loops), containers are restarted
(`restart: unless-stopped`), tickers tick. `Spool` assumes nothing of its 30 s timer. Where the
promise is conditional on recovery, a step `Settle` ends the faults (`Ingest`, `Outbox`), or each
call succeeds now and then (strong fairness in `SensorHealth` and of `List` and `Ack` in `Spool`, and of
the analyzer's query and closing write in `Console`). In `Dashboard` React runs the effects of what it
has rendered and the browser settles every request, with an answer or an error; the operator, the
sensors and retention may do nothing. `LiveFeed` assumes of the publishers only that they run: a viewer
may be stuck in a write for ever.

Every property of a passing run has a mutant: an operator defined beside the original (marked
"Mutant") that changes it as a plausible mistake would, and under which TLC finds the property
violated.

## Theorems

Every invariant, action property and refinement that a passing run checks is also a theorem. They
are proved for every value of the constants under the named assumption of the module that declares
them (`SpoolAssumption`, `ListingAssumption` and so on): markers differ from the values they stand
beside, functions of constants have their types, limits are natural numbers, the time stamps in
`Listing` are finitely many. `TypeOK`, `PublishedIsStored` and `Kept` are in no run: they are parts of
what is proved. `Dashboard` and `SensorHealth` share a proof module with `Listing` and `Retention`;
their `Init`, `Next`, `Spec` and `TypeOK` therefore have a prefix (`Dash`, `Health`).
In each proof module `IInv` (and `DashInv`, `HealthInv`) is the inductive invariant, one lemma or step
per action shows that it is preserved, and the theorems follow from it. TLC checked each of these
invariants on the instance of the module's run before it was proved.

**`IngestProofs`** (all sets of sensors, records and streams). `Ingest` satisfies
`TypeOK`, `ExactlyOnce`, `HandedOver`, `PublishedIsStored`, `InOrder` and `AnswersMatch`, and
implements `EvidenceLog`.

None of the safety invariants is inductive: whether a record may leave the spool depends on an answer
that was formed two processes earlier. The inductive invariant `IInv` says what must hold of every
place a record can be in. Spool and batch hold the sensor's own accepted records, and a batch holds
everything in the spool that sorts before one of its members (`Spooled`, `Queued`). Whatever is under
way, on a live stream or in a stale handler, has nothing ahead of it that is still to be done
(`InFlight`); this gives `InOrder`, because a stale handler can then only repeat a record whose
predecessors are done. A handler past the insert has its row, and an acceptance on its way back names
a record that is stored and published (`Handled`, `Stored`); this gives `HandedOver`. A stream in use
belongs to one client and carries one message or its answer, in one place (`Lockstep`); this gives
`AnswersMatch`. The proof has one lemma per part and one step per action; `Refinement` follows from
the same invariant. TLC checked `IInv` also on an instance with two sensors.

**`SpoolProofs`** (any number of sessions and records): `TypeOK`, `NoLostWakeup`, `Kept`, `Accounted`,
and `Spool` implements `DurableQueue`. `NoLostWakeup` speaks of a loop that sleeps; it is inductive
only when it holds from the empty `List` on, which is where the loop decides to sleep (`Watchful`).
The refinement needs to know what each step of a `Put` knows of its record (`InHand`), that a batch
holds what is on disk or acknowledged (`Listed`), and that a process that is down holds nothing
(`DownIdle`). `Accounted` needs where `s.used` is behind the files, between rename and return, and
that the check of a `Put` under way still holds because it has the mutex (`Account`). `Bytes`, the sum
of the file sizes, is a fold over a set, and the library's induction takes an operator: the lemmas
`FoldExists`, `FoldValue` and `FoldRemove` show instead, by the least counterexample in a set of
numbers (`Induction`), that the fold is defined and does not depend on the order.

**`FindingsProofs`** (any events, findings, workers, rules, answers of their queries and cooldowns,
and any events deleted underneath): `TypeOK`, `CountExact`,
`CooldownKept`, `RulesApplied`, `ReservedAccounted` and `ReopenedByEvidence`. `CooldownKept` is about
raised alerts only; the invariant says the same of the reservations still in the hands of a worker,
and that none is later than the finding's last (`Spaced`). `RulesApplied` needs what a worker in the
middle of `Process` has achieved (`Progress`) and that a finding once treated stays treated, by its
link or by the reason for not having one (lemma `TreatedStep`); `CountExact` that finitely many events
are linked (`Counted`), `ReopenedByEvidence` that a finding with events exists (`Known`).

**`OutboxProofs`** (any number of deliveries, limit and batch size): `TypeOK`, `DeliveredWasAccepted`,
`AttemptsBounded` and `EndsAreFinal`. The marks are updates by id that act on the attempt count the
row was loaded with. They are right because a loaded row cannot change before its mark except by being
pruned (`LoadedOpen`): one loop owns it, and the manual retry applies to failed rows only.

**`ListingProofs`** (any finite set of time stamps, any page sizes): `TypeOK`, `SurvivorsListed` and
`ExportComplete`. A list is paged by offset over a table that changes: what is still missing has its
place at or after the next offset, comes after a full page, and makes the total counted later exceed
what was read (`StillAhead`). The lemmas `Places`, `FewInRange`, `NoGap` and `PageFull` say what a
place in an ordered table is and that a page of `n` places holds `n` rows or the rest. An export is
paged by rowid: what was there at its beginning lies below the high-water mark, and what lies up to
the cursor was handed out (`BehindCursor`), also when rowids are given again, as long as no VACUUM
has renumbered the rows in the middle of the export.
About `Dashboard` (any addresses, filters and page sizes, any number of requests out): `DashTypeOK`,
`ShownMatches`, `NothingUnannounced` and `WindowRight`. An active effect run is for the URL asked
last, and data is for it too unless loading or failed (`Own`); while nothing is announced, every
answer for the present refresh count was read after the events heard were stored, because the count
moves on before `pending` is 0 again (`Told`). Lemma `Window` is about any page number and any count.

**`ViewProofs`** (any publishers, channel capacity and feed limit): `TypeOK`, `NoSendOnClosed`,
`KeepsNewest` and `FeedAccounted`. `Publish` is a critical section and serves registered channels only
(`Mutex`); each event is published once (`Once`); a channel holds the end of what was published, up to
the event before the one that `Publish` has still to bring it, and a full channel that was drained
between the second and the third select may be empty (`Channels`). `KeepsNewest` holds only after the
last select, which is why it needs all of these.

**`ConsoleProofs`** (any preferences, secrets, handlers, artifacts, clicks and stops):
`TypeOK`, `PreferencesKept`, `ViewCurrent` and `PanelMatches`. Between its two writes a PUT has the
table ahead of the engine by what is in its hands (`InStep`), and only one is there unless two
overlapped (`Alone`); the form's built-in values are nowhere but in a form that was not filled
(`BuiltIn`). The list request made last will show what was chosen while no answer to a PUT is out or
lost (`Recent`). All that is out is for the selected artifact unless requests overlapped (`OwnPanel`).

**`MaintenanceProofs`** (any events, kinds of evidence, periods and cap): `TypeOK`, `Readable`,
`OldestFirst` and `WithinCap`. A step of an open transaction is visible only at its commit, while its
files change at once: an insert's transaction only adds rows, each with its file, and Prune's only
drops stale rows (`Transaction`). The list `enforceCap` works through is what is on record
(`Worklist`), which makes the order of its removals the order of `OldestFirst`. About `SensorHealth`
(any sensors, window and backlog): `HealthTypeOK` and `AtMostOneAlert`, since a
sensor that was alerted about is marked, or about to be, and out of the rest of the snapshot
(`Settled`).

Only model-checked, because they are liveness under fairness and out of the prover's reach:
`EventuallyAcked`, `ReplayedInTurn`, `EventuallySettled`, `SilenceShown`, `Heals`, `PruneEnds`,
`Settles`, `PublishReturns` and `EveryQueuedSettles`. The two runs that expect a violation state what
does not hold.

## Plan

Done: all modules above, and the proofs of every safety property that a passing run checks. Left:

1. Lemmas that would make longer proofs shorter, `LiveFeed` and `Dashboard` first.
2. `LiveFeed` as an implementation of an abstract feed that may skip but not repeat or reorder.

## Not modelled

- Rest of the frontend: rendering, formatting and theme (no state a property could relate), the source
  context form and the event page's evidence panel (the unguarded pattern of the artifact panel over
  again), bundle downloads (a link).
- Sessions and limits (`sensor/`): sequence number, limiter and authentication gate are a few lines
  under one mutex each; the concurrency of sessions is in `Spool`'s producers.
- Protocol decoys: sequential handlers of one connection on top of protocol libraries; what they emit
  enters `Spool` and `Ingest` as records.
- Shell emulator: a sequential interpreter of strings; a model would transliterate its lexer.
- Personas, event model, configuration: validation and normalisation without state; the limits they
  set are constants here.
- Rule predicates: a rule is the findings an event can contribute to and, if it queries the store or
  the clock, a free choice at every evaluation; nothing is said of what it ought to answer. Whether a
  fingerprint is new is asked after the insert, so that with several SSH sensors no finding may be
  written for one that two of them bring at once.
- Full-text search, audit log, source context and health answers of the store and the API: single
  statements that nothing modelled reads.
- Retention under an artifact analysis (the cascade takes a pending row with its evidence) and a
  controller without an analysis worker: `Analysis` has a worker, and its rows stay.
- Bundles: a tar stream encrypted for one recipient, over the queries `Listing` models.
- Backup, restore and deployment operations: offline commands around tar, Docker, iptables and
  certificates; nothing else runs on the data meanwhile.
- Cryptography: thin wrappers around age and HMAC. Evidence is its id.
- Power failure: the models stop at the death of a process, where written data survives.
