-------------------------------- MODULE LiveFeed --------------------------------
(***************************************************************************)
(* The live view: Broker (controller/broker.go) hands every stored event   *)
(* to the server-sent-event handlers API.stream (controller/api.go), one   *)
(* per connection, and the hook useEventFeed (frontend/src/App.tsx) shows  *)
(* them on the overview page together with a list it fetches once.         *)
(*                                                                         *)
(* A handler has a buffered channel.  Publish holds the mutex while it     *)
(* goes through the channels and never blocks: it drops the oldest entry   *)
(* of a full channel, while the handler may take from the same channel     *)
(* between any two of its selects.  The browser's EventSource reconnects   *)
(* by itself, and nothing is replayed then.  The history `missed' records  *)
(* each place where the design gives an event up.                          *)
(***************************************************************************)
EXTENDS Naturals, FiniteSets, Sequences, SequencesExt

CONSTANTS
    Publishers,  \* request handlers and alert engines that publish
    Cap,         \* 128, the capacity of a channel
    Limit,       \* 1000, the items the feed keeps and fetches
    Present,     \* events in the table when the page opens
    MaxEvents,   \* bound on events stored
    MaxConns,    \* bound on connections the page opens
    None

ASSUME LiveFeedAssumption ==
    /\ Cap \in Nat \ {0} /\ Limit \in Nat \ {0}
    /\ MaxEvents \in Nat /\ Present \in 0..MaxEvents /\ MaxConns \in Nat
    /\ None \notin Nat \cup Publishers

Conns == 1..MaxConns

VARIABLES
    stored,  \* number of events in the table; an event is its number
    log,     \* history: the events in the order they were published
    mu,      \* the publisher that holds Broker.mu
    ppc, ev, todo, at,  \* per publisher: where it is, its event, the channels
                        \* it has not served, the one whose channel was full
    sub,     \* Broker.subs: connections whose channel is registered
    chan,    \* per connection, its channel
    hpc,     \* per connection, where API.stream is
    held,    \* per connection, the entry taken and not yet written
    pos,     \* history: per connection, how much of log it has behind it
    up,      \* connections that reach the browser
    opened,  \* connections the page has opened; the last one is current
    fetch,   \* the page's one request: out, served, done
    snapshot,\* the list it was answered with
    items,   \* the feed of the page, newest first
    missed   \* history: events the page was not given, or that it gave up

pubVars  == <<stored, log, mu, ppc, ev, todo, at>>
connVars == <<sub, chan, hpc, held, pos, up, opened>>
pageVars == <<fetch, snapshot, items>>
vars == <<stored, log, mu, ppc, ev, todo, at, sub, chan, hpc, held, pos, up,
          opened, fetch, snapshot, items, missed>>

Init ==
    /\ stored = Present /\ log = <<>> /\ mu = None
    /\ ppc = [p \in Publishers |-> "idle"] /\ ev = [p \in Publishers |-> None]
    /\ todo = [p \in Publishers |-> {}] /\ at = [p \in Publishers |-> None]
    /\ sub = {} /\ chan = [h \in Conns |-> <<>>]
    /\ hpc = [h \in Conns |-> "none"] /\ held = [h \in Conns |-> None]
    /\ pos = [h \in Conns |-> 0] /\ up = {} /\ opened = 0
    /\ fetch = "out" /\ snapshot = <<>> /\ items = <<>> /\ missed = {}

-----------------------------------------------------------------------------
(* Broker.Publish *)

(* A publisher stores its event, then publishes it. *)
Store(p) ==
    /\ ppc[p] = "idle" /\ stored < MaxEvents
    /\ stored' = stored + 1
    /\ ev' = [ev EXCEPT ![p] = stored + 1]
    /\ ppc' = [ppc EXCEPT ![p] = "publish"]
    /\ UNCHANGED <<log, mu, todo, at, connVars, pageVars, missed>>

Listening == opened \in sub /\ opened \in up

Lock(p) ==
    /\ ppc[p] = "publish" /\ mu = None
    /\ mu' = p
    /\ log' = Append(log, ev[p])
    /\ todo' = [todo EXCEPT ![p] = sub]
    /\ ppc' = [ppc EXCEPT ![p] = "loop"]
    /\ missed' = IF Listening THEN missed ELSE missed \cup {ev[p]}
    /\ UNCHANGED <<stored, ev, at, connVars, pageVars>>

(* The first select: send if there is room. *)
Offer(p, h) ==
    /\ ppc[p] = "loop" /\ h \in todo[p]
    /\ \/ /\ Len(chan[h]) < Cap
          /\ chan' = [chan EXCEPT ![h] = Append(@, ev[p])]
          /\ todo' = [todo EXCEPT ![p] = @ \ {h}]
          /\ UNCHANGED <<ppc, at>>
       \/ /\ Len(chan[h]) >= Cap
          /\ ppc' = [ppc EXCEPT ![p] = "drop"]
          /\ at' = [at EXCEPT ![p] = h]
          /\ UNCHANGED <<chan, todo>>
    /\ UNCHANGED <<stored, log, mu, ev, sub, hpc, held, pos, up, opened, pageVars, missed>>

(* The second select: take the oldest entry out, if there is one. *)
DropOldest(p) ==
    /\ ppc[p] = "drop"
    /\ LET h == at[p] IN
         IF chan[h] = <<>> THEN UNCHANGED <<chan, missed>>
         ELSE /\ chan' = [chan EXCEPT ![h] = Tail(@)]
              /\ missed' = IF h = opened THEN missed \cup {Head(chan[h])} ELSE missed
    /\ ppc' = [ppc EXCEPT ![p] = "again"]
    /\ UNCHANGED <<stored, log, mu, ev, todo, at, sub, hpc, held, pos, up, opened, pageVars>>

(* Mutant: the event that found the channel full is given up. *)
OfferAgainNot(p) ==
    /\ ppc[p] = "again"
    /\ missed' = missed \cup {ev[p]}
    /\ todo' = [todo EXCEPT ![p] = @ \ {at[p]}]
    /\ ppc' = [ppc EXCEPT ![p] = "loop"]
    /\ UNCHANGED <<stored, log, mu, ev, at, connVars, pageVars>>

(* The third select: send, or give the event up. *)
OfferAgain(p) ==
    /\ ppc[p] = "again"
    /\ chan' = IF Len(chan[at[p]]) < Cap
               THEN [chan EXCEPT ![at[p]] = Append(@, ev[p])] ELSE chan
    /\ todo' = [todo EXCEPT ![p] = @ \ {at[p]}]
    /\ ppc' = [ppc EXCEPT ![p] = "loop"]
    /\ UNCHANGED <<stored, log, mu, ev, at, sub, hpc, held, pos, up, opened, pageVars, missed>>

(* Mutant: the deferred unlock is lost. *)
UnlockNot(p) ==
    /\ ppc[p] = "loop" /\ todo[p] = {}
    /\ ppc' = [ppc EXCEPT ![p] = "idle"]
    /\ ev' = [ev EXCEPT ![p] = None]
    /\ UNCHANGED <<stored, log, mu, todo, at, connVars, pageVars, missed>>

Unlock(p) ==
    /\ ppc[p] = "loop" /\ todo[p] = {}
    /\ mu' = None
    /\ ppc' = [ppc EXCEPT ![p] = "idle"]
    /\ ev' = [ev EXCEPT ![p] = None]
    /\ UNCHANGED <<stored, log, todo, at, connVars, pageVars, missed>>

-----------------------------------------------------------------------------
(* The connection: EventSource in the browser (external), API.stream *)

(* The page opens its stream; after a broken connection the browser does. *)
Connect ==
    /\ opened < MaxConns /\ opened \notin up
    /\ opened' = opened + 1
    /\ up' = up \cup {opened + 1}
    /\ hpc' = [hpc EXCEPT ![opened + 1] = "start"]
    /\ UNCHANGED <<pubVars, sub, chan, held, pos, pageVars, missed>>

Subscribe(h) ==
    /\ hpc[h] = "start" /\ mu = None
    /\ sub' = sub \cup {h}
    /\ pos' = [pos EXCEPT ![h] = Len(log)]
    /\ hpc' = [hpc EXCEPT ![h] = "loop"]
    /\ UNCHANGED <<pubVars, chan, held, up, opened, pageVars, missed>>

Take(h) ==
    /\ hpc[h] = "loop" /\ chan[h] # <<>>
    /\ held' = [held EXCEPT ![h] = Head(chan[h])]
    /\ chan' = [chan EXCEPT ![h] = Tail(@)]
    /\ pos' = [pos EXCEPT ![h] = CHOOSE i \in 1..Len(log) : log[i] = Head(chan[h])]
    /\ hpc' = [hpc EXCEPT ![h] = "write"]
    /\ UNCHANGED <<pubVars, sub, up, opened, pageVars, missed>>

(* The connection breaks: what is in its channel, in its handler or about to be
   put into its channel does not reach the page. *)
Break(h) ==
    /\ h \in up
    /\ up' = up \ {h}
    /\ missed' = missed \cup ToSet(chan[h])
                        \cup ({held[h]} \ {None})
                        \cup {ev[p] : p \in {q \in Publishers : h \in todo[q]}}
    /\ UNCHANGED <<pubVars, sub, chan, hpc, held, pos, opened, pageVars>>

(* Mutant: Unsubscribe does not take the mutex. *)
UnsubscribeNoLock(h) ==
    /\ hpc[h] = "loop" /\ h \notin up
    /\ sub' = sub \ {h}
    /\ chan' = [chan EXCEPT ![h] = <<>>]
    /\ hpc' = [hpc EXCEPT ![h] = "closed"]
    /\ UNCHANGED <<pubVars, held, pos, up, opened, pageVars, missed>>

(* The request's context is done: the deferred Unsubscribe closes the channel. *)
Unsubscribe(h) ==
    /\ hpc[h] = "loop" /\ h \notin up /\ mu = None
    /\ sub' = sub \ {h}
    /\ chan' = [chan EXCEPT ![h] = <<>>]
    /\ hpc' = [hpc EXCEPT ![h] = "closed"]
    /\ UNCHANGED <<pubVars, held, pos, up, opened, pageVars, missed>>

-----------------------------------------------------------------------------
(* useEventFeed *)

(* Mutant: an event that is already listed is listed again. *)
WithItemTwice(list, e) ==
    IF Len(list) < Limit THEN <<e>> \o list ELSE SubSeq(<<e>> \o list, 1, Limit)

(* receive: a new event goes in front, the list is cut at its limit. *)
WithItem(list, e) ==
    IF e \in ToSet(list) THEN list
    ELSE IF Len(list) < Limit THEN <<e>> \o list
    ELSE SubSeq(<<e>> \o list, 1, Limit)

(* The handler writes and flushes the entry; the browser, if it is still there,
   gives it to receive. *)
Write(h) ==
    /\ hpc[h] = "write"
    /\ IF h \in up
       THEN /\ items' = WithItem(items, held[h])
            /\ missed' = missed \cup (ToSet(items) \ ToSet(items'))
       ELSE UNCHANGED <<items, missed>>
    /\ held' = [held EXCEPT ![h] = None]
    /\ hpc' = [hpc EXCEPT ![h] = "loop"]
    /\ UNCHANGED <<pubVars, sub, chan, pos, up, opened, fetch, snapshot>>

(* GET /api/v1/events?since=...&limit=1000 reads the table, newest first. *)
Serve ==
    /\ fetch = "out"
    /\ fetch' = "served"
    /\ LET n == IF stored < Limit THEN stored ELSE Limit IN
         /\ snapshot' = [i \in 1..n |-> stored + 1 - i]
         /\ missed' = missed \cup 1..(stored - n)
    /\ UNCHANGED <<pubVars, connVars, items>>

(* The answer arrives and the effect on data replaces the list: what the stream
   brought before, and the answer does not hold, is gone. *)
Fill ==
    /\ fetch = "served"
    /\ fetch' = "done"
    /\ items' = snapshot
    /\ missed' = missed \cup (ToSet(items) \ ToSet(snapshot))
    /\ UNCHANGED <<pubVars, connVars, snapshot>>

(* The request fails: an error is shown, the list is left alone. *)
FetchFails ==
    /\ fetch \in {"out", "served"}
    /\ fetch' = "done"
    /\ UNCHANGED <<pubVars, connVars, snapshot, items, missed>>

-----------------------------------------------------------------------------
Publish(p) == \/ Lock(p) \/ DropOldest(p) \/ OfferAgain(p) \/ Unlock(p)
              \/ \E h \in Conns : Offer(p, h)

Next ==
    \/ \E p \in Publishers : Store(p) \/ Publish(p)
    \/ \E h \in Conns : Subscribe(h) \/ Take(h) \/ Write(h) \/ Break(h) \/ Unsubscribe(h)
    \/ Connect \/ Serve \/ Fill \/ FetchFails

Spec == Init /\ [][Next]_vars

(* Publishers run; handlers may be stuck in a write for ever.  Weak fairness is
   enough for the mutex: other publishers take it finitely often. *)
FairSpec == Spec /\ \A p \in Publishers : WF_vars(Publish(p))

-----------------------------------------------------------------------------
(* Properties *)

TypeOK ==
    /\ stored \in 0..MaxEvents /\ log \in Seq(1..MaxEvents)
    /\ mu \in Publishers \cup {None}
    /\ ppc \in [Publishers -> {"idle", "publish", "loop", "drop", "again"}]
    /\ ev \in [Publishers -> (1..MaxEvents) \cup {None}]
    /\ todo \in [Publishers -> SUBSET Conns] /\ at \in [Publishers -> Conns \cup {None}]
    /\ sub \subseteq Conns /\ up \subseteq Conns /\ opened \in 0..MaxConns
    /\ chan \in [Conns -> Seq(1..MaxEvents)]
    /\ hpc \in [Conns -> {"none", "start", "loop", "write", "closed"}]
    /\ held \in [Conns -> (1..MaxEvents) \cup {None}] /\ pos \in [Conns -> Nat]
    /\ fetch \in {"out", "served", "done"}
    /\ snapshot \in Seq(1..MaxEvents) /\ items \in Seq(1..MaxEvents)
    /\ missed \subseteq 1..MaxEvents

(* A slow viewer sees the newest events: outside Publish, a registered channel
   holds the latest published events, all of them from some point on and in the
   order of publication, at most Cap, and when it is empty the handler has taken
   the very last one - whatever the handler took while Publish was between its
   selects.  Code: the three selects of Broker.Publish. *)
KeepsNewest ==
    mu = None => \A h \in sub :
      /\ Len(chan[h]) <= Cap
      /\ chan[h] = SubSeq(log, Len(log) - Len(chan[h]) + 1, Len(log))
      /\ pos[h] <= Len(log) - Len(chan[h])
      /\ chan[h] = <<>> => pos[h] = Len(log)

(* Publish never sends on a closed channel, which would panic and take the
   controller down: the channels it still has to serve are registered and open,
   also while viewers leave.  Code: Publish and Unsubscribe under Broker.mu. *)
NoSendOnClosed ==
    \A p \in Publishers : \A h \in todo[p] : h \in sub /\ hpc[h] # "closed"

(* Every published event is accounted for on the page: it is in the feed, once,
   or on its way there, unless it was given up at one of the places the design
   has for that - the page was not connected, its channel was full, its
   connection broke, the limit cut the list, or the fetched list replaced an
   event that the stream brought first.  Code: useEventFeed on top of stream
   and Publish. *)
OnItsWay == ToSet(chan[opened]) \cup {held[opened]}
            \cup {ev[p] : p \in {q \in Publishers : opened \in todo[q]}}
FeedAccounted ==
    /\ \A e \in ToSet(log) \ (ToSet(items) \cup missed) : Listening /\ e \in OnItsWay
    /\ IsInjective(items)

(* Publish returns, so the request that stored the event is answered: no viewer,
   stuck in a write or never reading, can hold it up.  Code: the selects of
   Broker.Publish have defaults, and no other holder of the mutex waits. *)
PublishReturns == \A p \in Publishers : ppc[p] = "publish" ~> ppc[p] = "idle"
=============================================================================
