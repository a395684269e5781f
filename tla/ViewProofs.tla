------------------------------- MODULE ViewProofs -------------------------------
(***************************************************************************)
(* Proofs about what the operator sees.  LiveFeed, for any publishers,     *)
(* capacities and connections: Publish never sends on a closed channel, a  *)
(* slow viewer is left with the newest events, and every published event   *)
(* is accounted for on the page.                                           *)
(***************************************************************************)
EXTENDS LiveFeed, SequenceTheorems, TLAPS

-----------------------------------------------------------------------------
(* The inductive invariant *)

(* Publish is a critical section, and only it has channels to serve; they are
   registered, which the handlers in their loop are and no others. *)
Publishing(p) == ppc[p] \in {"loop", "drop", "again"}
Mutex ==
    /\ \A p \in Publishers : Publishing(p) <=> mu = p
    /\ \A p \in Publishers : todo[p] # {} => mu = p
    /\ \A p \in Publishers : todo[p] \subseteq sub
    /\ \A p \in Publishers : ppc[p] \in {"drop", "again"} => at[p] \in todo[p]
    /\ \A h \in Conns : h \in sub <=> hpc[h] \in {"loop", "write"}
    /\ \A h \in Conns : hpc[h] = "write" => held[h] # None
    /\ \A h \in Conns : hpc[h] # "write" => held[h] = None
    /\ \A h \in Conns : h > opened => hpc[h] = "none"

(* Every event is published once: the log has no duplicates, and its last entry
   is the one Publish is busy with. *)
Once ==
    /\ \A p \in Publishers : ppc[p] = "idle" <=> ev[p] = None
    /\ \A p \in Publishers : ev[p] # None => ev[p] <= stored
    /\ \A p, q \in Publishers : (p # q /\ ev[p] # None) => ev[p] # ev[q]
    /\ \A i \in 1..Len(log) : log[i] <= stored
    /\ \A p \in Publishers : ppc[p] = "publish" => \A i \in 1..Len(log) : log[i] # ev[p]
    /\ \A i, j \in 1..Len(log) : log[i] = log[j] => i = j
    /\ \A p \in Publishers : mu = p => Len(log) > 0 /\ log[Len(log)] = ev[p]

(* A channel holds the end of what was published up to Top: the last event is
   still to come while Publish has not served the channel.  Between the second
   and the third select a channel that was full may be empty, and has room. *)
Top(h) == IF \E p \in Publishers : h \in todo[p] THEN Len(log) - 1 ELSE Len(log)
Between(h) == \E p \in Publishers : ppc[p] = "again" /\ at[p] = h
Suffix(h) ==
    /\ Len(chan[h]) <= Cap /\ Len(chan[h]) <= Top(h)
    /\ \A i \in 1..Len(chan[h]) : chan[h][i] = log[Top(h) - Len(chan[h]) + i]
    /\ pos[h] <= Top(h) - Len(chan[h])
    /\ Len(chan[h]) = 0 => (pos[h] = Top(h) \/ Between(h))
Channels ==
    /\ \A h \in sub : Suffix(h)
    /\ \A h \in Conns \ sub : chan[h] = <<>>
    /\ \A p \in Publishers : ppc[p] = "again" => Len(chan[at[p]]) < Cap

Page == FeedAccounted /\ IsInjective(snapshot)

IInv == TypeOK /\ Mutex /\ Once /\ Channels /\ Page

-----------------------------------------------------------------------------
(* Sequences *)

LEMMA AppendSeq ==
  ASSUME NEW S, NEW s \in Seq(S), NEW e \in S
  PROVE  /\ Append(s, e) \in Seq(S) /\ Len(Append(s, e)) = Len(s) + 1
         /\ \A i \in 1..Len(s) : Append(s, e)[i] = s[i]
         /\ Append(s, e)[Len(s) + 1] = e
         /\ ToSet(Append(s, e)) = ToSet(s) \cup {e}
<1>1. /\ Append(s, e) \in Seq(S) /\ Len(Append(s, e)) = Len(s) + 1
      /\ \A i \in 1..Len(s) : Append(s, e)[i] = s[i]
      /\ Append(s, e)[Len(s) + 1] = e
  OBVIOUS
<1>2. Len(s) \in Nat /\ DOMAIN s = 1..Len(s) /\ DOMAIN Append(s, e) = 1..(Len(s) + 1)
  BY <1>1, LenProperties
<1>3. 1..(Len(s) + 1) = (1..Len(s)) \cup {Len(s) + 1}
  BY <1>2
<1> QED
  BY <1>1, <1>2, <1>3 DEF ToSet

LEMMA TailSeq ==
  ASSUME NEW S, NEW s \in Seq(S), s # <<>>
  PROVE  /\ Head(s) \in S /\ Head(s) = s[1] /\ Tail(s) \in Seq(S)
         /\ Len(s) \in Nat \ {0} /\ Len(Tail(s)) = Len(s) - 1
         /\ \A i \in 1..Len(Tail(s)) : Tail(s)[i] = s[i + 1]
         /\ ToSet(s) = {Head(s)} \cup ToSet(Tail(s))
<1>1. /\ Head(s) \in S /\ Head(s) = s[1] /\ Tail(s) \in Seq(S) /\ Len(Tail(s)) = Len(s) - 1
      /\ \A i \in 1..Len(Tail(s)) : Tail(s)[i] = s[i + 1]
  BY HeadTailProperties
<1>2. Len(s) \in Nat \ {0} /\ DOMAIN s = 1..Len(s) /\ DOMAIN Tail(s) = 1..(Len(s) - 1)
  BY <1>1, LenProperties, EmptySeq
<1>3. ASSUME NEW x PROVE x \in ToSet(s) <=> x \in {Head(s)} \cup ToSet(Tail(s))
  <2>1. x \in ToSet(s) <=> \E i \in 1..Len(s) : x = s[i]
    BY <1>2 DEF ToSet
  <2>2. x \in ToSet(Tail(s)) <=> \E i \in 1..(Len(s) - 1) : x = s[i + 1]
    BY <1>1, <1>2 DEF ToSet
  <2>3. ASSUME NEW i \in 1..Len(s), x = s[i], i # 1 PROVE \E j \in 1..(Len(s) - 1) : x = s[j + 1]
    <3>1. i - 1 \in 1..(Len(s) - 1) /\ (i - 1) + 1 = i
      BY <1>2, <2>3
    <3> QED
      BY <2>3, <3>1
  <2>4. \A j \in 1..(Len(s) - 1) : j + 1 \in 1..Len(s)
    BY <1>2
  <2>5. 1 \in 1..Len(s)
    BY <1>2
  <2> QED
    BY <1>1, <2>1, <2>2, <2>3, <2>4, <2>5
<1> QED
  BY <1>1, <1>2, <1>3

LEMMA SetOfSeq ==
  ASSUME NEW S, NEW s \in Seq(S)
  PROVE  ToSet(s) \subseteq S
BY LenProperties DEF ToSet

LEMMA EndOfSeq ==
  ASSUME NEW S, NEW s \in Seq(S), NEW c \in Seq(S), NEW d \in Nat, d = Len(s) - Len(c),
         \A i \in 1..Len(c) : c[i] = s[d + i]
  PROVE  c = SubSeq(s, d + 1, Len(s))
<1>1. Len(s) \in Nat /\ Len(c) \in Nat /\ Len(s) = d + Len(c)
  BY LenProperties
<1>2. PICK m \in Int : m = d + 1
  OBVIOUS
<1>3. PICK n \in Int : n = Len(s)
  BY <1>1
<1>4. ASSUME NEW i \in m..n PROVE s[i] \in S
  <2>1. i \in 1..Len(s)
    BY <1>2, <1>3
  <2> QED
    BY <2>1, ElementOfSeq
<1>5. PICK t : t = SubSeq(s, m, n)
  OBVIOUS
<1>6. /\ t \in Seq(S) /\ Len(t) = (IF m <= n THEN n - m + 1 ELSE 0)
      /\ \A i \in 1..(n - m + 1) : t[i] = s[m + i - 1]
  BY <1>4, <1>5, SubSeqProperties
<1>7. Len(t) = Len(c)
  BY <1>1, <1>2, <1>3, <1>6
<1>8. ASSUME NEW i \in 1..Len(c) PROVE c[i] = t[i]
  <2>1. i \in 1..(n - m + 1) /\ m + i - 1 = d + i
    BY <1>1, <1>2, <1>3
  <2> QED
    BY <1>6, <2>1
<1>9. c = t
  BY <1>6, <1>7, <1>8, SeqEqual
<1> QED
  BY <1>2, <1>3, <1>5, <1>9

(* receive puts an event at the front of the feed, once. *)
LEMMA WithItemSeq ==
  ASSUME NEW S, NEW list \in Seq(S), NEW e \in S, IsInjective(list)
  PROVE  /\ WithItem(list, e) \in Seq(S) /\ e \in ToSet(WithItem(list, e))
         /\ IsInjective(WithItem(list, e))
<1>1. CASE e \in ToSet(list)
  BY <1>1 DEF WithItem
<1>2. CASE e \notin ToSet(list)
  <2> DEFINE more == <<e>> \o list
  <2>1. <<e>> \in Seq(S) /\ Len(<<e>>) = 1 /\ <<e>>[1] = e
    OBVIOUS
  <2>2. Len(list) \in Nat /\ DOMAIN list = 1..Len(list)
    BY LenProperties
  <2>3. more \in Seq(S) /\ Len(more) = Len(list) + 1
        /\ \A i \in 1..(Len(list) + 1) : more[i] = IF i <= 1 THEN e ELSE list[i - 1]
    BY <2>1, ConcatProperties
  <2> HIDE DEF more
  <2>4. \A i \in 1..Len(list) : list[i] # e
    BY <1>2, <2>2 DEF ToSet
  <2>5. ASSUME NEW i \in 1..Len(more), NEW j \in 1..Len(more), more[i] = more[j] PROVE i = j
    <3>1. i \in 1..(Len(list) + 1) /\ j \in 1..(Len(list) + 1)
      BY <2>3
    <3>2. \A k \in 1..(Len(list) + 1) : k # 1 => k - 1 \in 1..Len(list) /\ more[k] = list[k - 1]
      BY <2>2, <2>3
    <3>3. more[1] = e
      BY <2>2, <2>3
    <3>4. CASE i = 1 \/ j = 1
      BY <2>4, <2>5, <3>1, <3>2, <3>3, <3>4
    <3>5. CASE i # 1 /\ j # 1
      <4>1. i - 1 = j - 1
        BY <2>2, <2>5, <3>1, <3>2, <3>5 DEF IsInjective
      <4> QED
        BY <2>2, <3>1, <4>1
    <3> QED
      BY <3>4, <3>5
  <2>6. CASE Len(list) < Limit
    <3>1. WithItem(list, e) = more /\ DOMAIN more = 1..Len(more) /\ 1 \in 1..Len(more) /\ more[1] = e
      BY <1>2, <2>2, <2>3, <2>6, LenProperties DEF WithItem, more
    <3> QED
      BY <2>3, <2>5, <3>1 DEF IsInjective, ToSet
  <2>7. CASE ~(Len(list) < Limit)
    <3> DEFINE cutAt == SubSeq(more, 1, Limit)
    <3>1. Limit \in Nat \ {0} /\ Limit <= Len(list) + 1
      BY <2>2, <2>7, LiveFeedAssumption
    <3>2. \A i \in 1..Limit : i \in 1..Len(more) /\ more[i] \in S
      BY <2>2, <2>3, <3>1, ElementOfSeq
    <3>3. /\ cutAt \in Seq(S) /\ Len(cutAt) = Limit
          /\ \A i \in 1..Limit : cutAt[i] = more[i]
      BY <3>1, <3>2, SubSeqProperties
    <3> HIDE DEF cutAt
    <3>4. DOMAIN cutAt = 1..Limit /\ 1 \in 1..Limit /\ more[1] = e
      BY <2>2, <2>3, <3>1, <3>3, LenProperties
    <3>5. WithItem(list, e) = cutAt
      BY <1>2, <2>7 DEF WithItem, cutAt, more
    <3> QED
      BY <2>5, <3>2, <3>3, <3>4, <3>5 DEF IsInjective, ToSet
  <2> QED
    BY <2>6, <2>7
<1> QED
  BY <1>1, <1>2

-----------------------------------------------------------------------------
(* Facts of a single state *)

USE DEF pubVars, connVars, pageVars

Known == 1..MaxEvents

(* The publisher in Publish, its event and the channels it has to serve. *)
LEMMA InPublish ==
  ASSUME IInv, NEW p \in Publishers, Publishing(p)
  PROVE  /\ mu = p /\ mu # None /\ ev[p] \in Known /\ ev[p] # None
         /\ Len(log) \in Nat \ {0} /\ log[Len(log)] = ev[p]
         /\ todo[p] \subseteq sub /\ sub \subseteq Conns
         /\ \A q \in Publishers : q # p => todo[q] = {} /\ ~Publishing(q)
         /\ ppc[p] \in {"drop", "again"} => at[p] \in todo[p] /\ at[p] \in Conns
<1>1. mu = p /\ mu # None
  BY LiveFeedAssumption DEF IInv, Mutex
<1>2. ev[p] # None /\ ev[p] \in Known
  BY DEF IInv, Once, TypeOK, Publishing, Known
<1>3. Len(log) \in Nat \ {0} /\ log[Len(log)] = ev[p]
  BY <1>1, LenProperties DEF IInv, Once, TypeOK
<1>4. todo[p] \subseteq sub /\ sub \subseteq Conns
  BY DEF IInv, Mutex, TypeOK
<1>5. \A q \in Publishers : q # p => todo[q] = {} /\ ~Publishing(q)
  BY <1>1 DEF IInv, Mutex
<1>6. ppc[p] \in {"drop", "again"} => at[p] \in todo[p]
  BY DEF IInv, Mutex
<1> QED
  BY <1>1, <1>2, <1>3, <1>4, <1>5, <1>6

LEMMA Unlocked ==
  ASSUME IInv, mu = None
  PROVE  \A p \in Publishers : todo[p] = {} /\ ~Publishing(p)
BY LiveFeedAssumption DEF IInv, Mutex

LEMMA TopType ==
  ASSUME IInv, NEW h
  PROVE  Top(h) \in Nat /\ Len(log) \in Nat /\ Top(h) <= Len(log)
<1>1. Len(log) \in Nat
  BY LenProperties DEF IInv, TypeOK
<1>2. ASSUME NEW p \in Publishers, h \in todo[p] PROVE Len(log) > 0
  BY <1>2 DEF IInv, Mutex, Once
<1> QED
  BY <1>1, <1>2 DEF Top

(* What the handler takes is where it stands in the log. *)
LEMMA TakeIndex ==
  ASSUME IInv, NEW h \in Conns, hpc[h] = "loop", chan[h] # <<>>
  PROVE  /\ h \in sub /\ Len(chan[h]) \in Nat \ {0} /\ Len(chan[h]) <= Top(h)
         /\ (CHOOSE i \in 1..Len(log) : log[i] = Head(chan[h])) = Top(h) - Len(chan[h]) + 1
<1>1. h \in sub /\ Suffix(h)
  BY DEF IInv, Mutex, Channels
<1>2. Len(chan[h]) \in Nat \ {0} /\ Head(chan[h]) = chan[h][1]
  BY TailSeq DEF IInv, TypeOK
<1>3. Top(h) \in Nat /\ Len(log) \in Nat /\ Top(h) <= Len(log) /\ Len(chan[h]) <= Top(h)
  BY <1>1, TopType DEF Suffix
<1> DEFINE k == Top(h) - Len(chan[h]) + 1
<1>4. k \in 1..Len(log)
  BY <1>2, <1>3
<1>5. log[k] = Head(chan[h])
  BY <1>1, <1>2 DEF Suffix
<1> HIDE DEF k
<1>6. \A i \in 1..Len(log) : log[i] = Head(chan[h]) => i = k
  BY <1>4, <1>5 DEF IInv, Once
<1>7. (CHOOSE i \in 1..Len(log) : log[i] = Head(chan[h])) = k
  BY <1>4, <1>5, <1>6
<1> QED
  BY <1>1, <1>2, <1>3, <1>7 DEF k

-----------------------------------------------------------------------------
(* Types *)

LEMMA PublishTypes ==
  ASSUME IInv, NEW p \in Publishers, Store(p) \/ Publish(p)
  PROVE  TypeOK'
<1> TypeOK
  BY DEF IInv
<1>1. CASE Store(p)
  <2>1. stored + 1 \in 1..MaxEvents /\ stored + 1 \in 0..MaxEvents
    BY <1>1, LiveFeedAssumption DEF Store, TypeOK
  <2> QED
    BY <1>1, <2>1 DEF Store, TypeOK
<1>2. CASE Lock(p)
  <2>1. ev[p] \in Known
    BY <1>2 DEF Lock, IInv, Once, TypeOK, Known
  <2>2. log' \in Seq(Known) /\ missed' \subseteq Known
    BY <1>2, <2>1, AppendSeq DEF Lock, TypeOK, Known
  <2> QED
    BY <1>2, <2>2 DEF Lock, TypeOK, Known
<1>3. CASE DropOldest(p)
  <2>1. at[p] \in Conns
    BY <1>3, InPublish DEF DropOldest, Publishing
  <2>2. chan[at[p]] # <<>> => Tail(chan[at[p]]) \in Seq(Known) /\ Head(chan[at[p]]) \in Known
    BY <2>1, TailSeq DEF TypeOK, Known
  <2>3. chan' \in [Conns -> Seq(Known)] /\ missed' \subseteq Known
    BY <1>3, <2>1, <2>2 DEF DropOldest, TypeOK, Known
  <2> QED
    BY <1>3, <2>3 DEF DropOldest, TypeOK, Known
<1>4. CASE OfferAgain(p)
  <2>1. at[p] \in Conns /\ ev[p] \in Known
    BY <1>4, InPublish DEF OfferAgain, Publishing
  <2>2. Append(chan[at[p]], ev[p]) \in Seq(Known)
    BY <2>1, AppendSeq DEF TypeOK, Known
  <2>3. chan' \in [Conns -> Seq(Known)]
    BY <1>4, <2>1, <2>2 DEF OfferAgain, TypeOK, Known
  <2> QED
    BY <1>4, <2>3 DEF OfferAgain, TypeOK, Known
<1>5. CASE Unlock(p)
  BY <1>5 DEF Unlock, TypeOK
<1>6. CASE \E h \in Conns : Offer(p, h)
  <2>1. PICK h \in Conns : Offer(p, h)
    BY <1>6
  <2>2. ev[p] \in Known
    BY <2>1, InPublish DEF Offer, Publishing
  <2>3. Append(chan[h], ev[p]) \in Seq(Known)
    BY <2>2, AppendSeq DEF TypeOK, Known
  <2>4. chan' \in [Conns -> Seq(Known)]
    BY <2>1, <2>3 DEF Offer, TypeOK, Known
  <2>5. todo' \in [Publishers -> SUBSET Conns] /\ at' \in [Publishers -> Conns \cup {None}]
        /\ ppc' \in [Publishers -> {"idle", "publish", "loop", "drop", "again"}]
    <3>1. CASE /\ todo' = [todo EXCEPT ![p] = @ \ {h}] /\ UNCHANGED <<ppc, at>>
      BY <3>1 DEF TypeOK
    <3>2. CASE /\ ppc' = [ppc EXCEPT ![p] = "drop"] /\ at' = [at EXCEPT ![p] = h] /\ UNCHANGED todo
      BY <3>2 DEF TypeOK
    <3> QED
      BY <2>1, <3>1, <3>2 DEF Offer
  <2> QED
    BY <2>1, <2>4, <2>5 DEF Offer, TypeOK, Known
<1> QED
  BY <1>1, <1>2, <1>3, <1>4, <1>5, <1>6 DEF Publish

LEMMA ConnTypes ==
  ASSUME IInv, NEW h \in Conns, Subscribe(h) \/ Take(h) \/ Write(h) \/ Break(h) \/ Unsubscribe(h)
  PROVE  TypeOK'
<1> TypeOK
  BY DEF IInv
<1>1. CASE Subscribe(h)
  <2>1. Len(log) \in Nat
    BY LenProperties DEF TypeOK
  <2> QED
    BY <1>1, <2>1 DEF Subscribe, TypeOK
<1>2. CASE Take(h)
  <2>1. Head(chan[h]) \in Known /\ Tail(chan[h]) \in Seq(Known)
    BY <1>2, TailSeq DEF Take, TypeOK, Known
  <2>2. Top(h) - Len(chan[h]) + 1 \in Nat
    BY <1>2, TakeIndex, TopType DEF Take
  <2>3. pos' = [pos EXCEPT ![h] = Top(h) - Len(chan[h]) + 1]
    BY <1>2, TakeIndex DEF Take
  <2>4. pos' \in [Conns -> Nat]
    BY <2>2, <2>3 DEF TypeOK
  <2>5. chan' \in [Conns -> Seq(Known)] /\ held' \in [Conns -> Known \cup {None}]
    BY <1>2, <2>1 DEF Take, TypeOK, Known
  <2> QED
    BY <1>2, <2>4, <2>5 DEF Take, TypeOK, Known
<1>3. CASE Write(h)
  <2>1. held[h] \in Known
    BY <1>3 DEF Write, IInv, Mutex, TypeOK, Known
  <2>2. WithItem(items, held[h]) \in Seq(Known)
    BY <2>1, WithItemSeq DEF TypeOK, Known, IInv, Page, FeedAccounted
  <2>3. ToSet(items) \subseteq Known
    BY SetOfSeq DEF TypeOK, Known
  <2>4. items' \in Seq(Known) /\ missed' \subseteq Known
    BY <1>3, <2>2, <2>3 DEF Write, TypeOK, Known
  <2> QED
    BY <1>3, <2>4 DEF Write, TypeOK, Known
<1>4. CASE Break(h)
  <2>1. ToSet(chan[h]) \subseteq Known
    BY SetOfSeq DEF TypeOK, Known
  <2>2. {held[h]} \ {None} \subseteq Known
    BY DEF TypeOK, Known
  <2>3. {ev[p] : p \in {q \in Publishers : h \in todo[q]}} \subseteq Known
    <3> SUFFICES ASSUME NEW p \in Publishers, h \in todo[p] PROVE ev[p] \in Known
      OBVIOUS
    <3>1. Publishing(p)
      BY DEF IInv, Mutex
    <3> QED
      BY <3>1, InPublish
  <2>4. missed' \subseteq Known
    BY <1>4, <2>1, <2>2, <2>3 DEF Break, TypeOK, Known
  <2> QED
    BY <1>4, <2>4 DEF Break, TypeOK, Known
<1>5. CASE Unsubscribe(h)
  <2>1. <<>> \in Seq(Known)
    BY EmptySeq
  <2>2. chan' \in [Conns -> Seq(Known)]
    BY <1>5, <2>1 DEF Unsubscribe, TypeOK, Known
  <2> QED
    BY <1>5, <2>2 DEF Unsubscribe, TypeOK, Known
<1> QED
  BY <1>1, <1>2, <1>3, <1>4, <1>5

(* The list the request is answered with. *)
LEMMA Served ==
  ASSUME IInv, Serve
  PROVE  /\ snapshot' \in Seq(Known) /\ IsInjective(snapshot')
         /\ missed \subseteq missed' /\ missed' \subseteq Known
<1> DEFINE n == IF stored < Limit THEN stored ELSE Limit
<1>1. n \in 0..stored /\ stored \in 0..MaxEvents /\ MaxEvents \in Nat
  BY LiveFeedAssumption DEF IInv, TypeOK
<1>2. snapshot' = [i \in 1..n |-> stored + 1 - i] /\ missed' = missed \cup 1..(stored - n)
  BY DEF Serve
<1> HIDE DEF n
<1>3. \A i \in 1..n : stored + 1 - i \in Known
  BY <1>1 DEF Known
<1>4. snapshot' \in [1..n -> Known]
  BY <1>2, <1>3
<1>5. snapshot' \in Seq(Known)
  BY <1>1, <1>4, SeqDef
<1>6. IsInjective(snapshot')
  <2> SUFFICES ASSUME NEW i \in 1..n, NEW j \in 1..n, stored + 1 - i = stored + 1 - j PROVE i = j
    BY <1>2 DEF IsInjective
  <2> QED
    BY <1>1
<1>7. 1..(stored - n) \subseteq Known
  BY <1>1 DEF Known
<1> QED
  BY <1>2, <1>5, <1>6, <1>7 DEF IInv, TypeOK, Known

LEMMA PageTypes ==
  ASSUME IInv, Connect \/ Serve \/ Fill \/ FetchFails
  PROVE  TypeOK'
<1> TypeOK
  BY DEF IInv
<1>1. CASE Connect
  <2>1. opened + 1 \in Conns /\ opened + 1 \in 0..MaxConns
    BY <1>1, LiveFeedAssumption DEF Connect, TypeOK, Conns
  <2> QED
    BY <1>1, <2>1 DEF Connect, TypeOK
<1>2. CASE Serve
  BY <1>2, Served DEF Serve, TypeOK, Known
<1>3. CASE Fill
  <2>1. ToSet(items) \subseteq Known
    BY SetOfSeq DEF TypeOK, Known
  <2> QED
    BY <1>3, <2>1 DEF Fill, TypeOK, Known
<1>4. CASE FetchFails
  BY <1>4 DEF FetchFails, TypeOK
<1> QED
  BY <1>1, <1>2, <1>3, <1>4

-----------------------------------------------------------------------------
(* The critical section *)

LEMMA PublishMutex ==
  ASSUME IInv, NEW p \in Publishers, Store(p) \/ Publish(p)
  PROVE  Mutex'
<1> TypeOK /\ Mutex
  BY DEF IInv
<1>0. mu # p => ~Publishing(p) /\ todo[p] = {}
  BY DEF Mutex
<1>1. CASE Store(p)
  BY <1>1 DEF Store, Mutex, Publishing, TypeOK
<1>2. CASE Lock(p)
  <2>1. \A q \in Publishers : todo[q] = {} /\ ~Publishing(q)
    BY <1>2, Unlocked DEF Lock
  <2>2. p # None
    BY LiveFeedAssumption
  <2>3. /\ todo' = [todo EXCEPT ![p] = sub] /\ ppc' = [ppc EXCEPT ![p] = "loop"] /\ mu' = p
        /\ UNCHANGED <<at, sub, hpc, held, opened>>
    BY <1>2 DEF Lock
  <2>4. \A q \in Publishers : q # p => todo'[q] = {} /\ ~Publishing(q)'
    BY <2>1, <2>3 DEF TypeOK, Publishing
  <2>5. todo'[p] = sub /\ ppc'[p] = "loop"
    BY <2>3 DEF TypeOK
  <2>6. \A q \in Publishers : (Publishing(q)' <=> mu' = q) /\ (todo'[q] # {} => mu' = q) /\ todo'[q] \subseteq sub'
                             /\ ~(ppc'[q] \in {"drop", "again"})
    BY <2>3, <2>4, <2>5 DEF Publishing
  <2> QED
    BY <2>3, <2>6 DEF Mutex
<1>3. CASE DropOldest(p) \/ OfferAgain(p) \/ Unlock(p) \/ \E h \in Conns : Offer(p, h)
  <2>1. Publishing(p)
    BY <1>3 DEF DropOldest, OfferAgain, Unlock, Offer, Publishing
  <2>2. /\ mu = p /\ p # None /\ \A q \in Publishers : q # p => todo[q] = {} /\ ~Publishing(q)
        /\ todo[p] \subseteq sub
    BY <2>1, InPublish, LiveFeedAssumption
  <2>3. UNCHANGED <<sub, hpc, held, opened>>
    BY <1>3 DEF DropOldest, OfferAgain, Unlock, Offer
  <2>4. \A q \in Publishers : q # p => todo'[q] = {} /\ ~Publishing(q)'
    <3>1. \A q \in Publishers : q # p => todo'[q] = todo[q] /\ ppc'[q] = ppc[q]
      BY <1>3 DEF DropOldest, OfferAgain, Unlock, Offer, TypeOK
    <3> QED
      BY <2>2, <3>1 DEF Publishing
  <2>5. todo'[p] \subseteq sub
    BY <1>3, <2>2 DEF DropOldest, OfferAgain, Unlock, Offer, TypeOK
  <2>6. CASE Unlock(p)
    <3>1. mu' = None /\ ppc'[p] = "idle" /\ todo'[p] = {} /\ UNCHANGED at
      BY <2>6 DEF Unlock, TypeOK
    <3>2. \A q \in Publishers : q # None /\ todo'[q] = {} /\ ~Publishing(q)'
      BY <2>4, <3>1, LiveFeedAssumption DEF Publishing
    <3>3. \A q \in Publishers : ppc'[q] \notin {"drop", "again"}
      BY <3>2 DEF Publishing
    <3> QED
      BY <2>3, <3>1, <3>2, <3>3 DEF Mutex
  <2>7. CASE ~Unlock(p)
    <3>1. mu' = p /\ Publishing(p)'
      BY <1>3, <2>2, <2>7 DEF DropOldest, OfferAgain, Offer, Publishing, TypeOK
    <3>2. ppc'[p] \in {"drop", "again"} => at'[p] \in todo'[p]
      <4>1. CASE DropOldest(p)
        BY <4>1 DEF DropOldest, Mutex
      <4>2. CASE OfferAgain(p)
        BY <4>2 DEF OfferAgain, TypeOK
      <4>3. CASE \E h \in Conns : Offer(p, h)
        BY <4>3 DEF Offer, TypeOK
      <4> QED
        BY <1>3, <2>7, <4>1, <4>2, <4>3
    <3>3. \A q \in Publishers : ppc'[q] \in {"drop", "again"} => at'[q] \in todo'[q]
      BY <2>4, <3>2 DEF Publishing
    <3>4. \A q \in Publishers : (Publishing(q)' <=> mu' = q) /\ (todo'[q] # {} => mu' = q) /\ todo'[q] \subseteq sub'
      BY <2>3, <2>4, <2>5, <3>1
    <3> QED
      BY <2>3, <3>3, <3>4 DEF Mutex
  <2> QED
    BY <2>6, <2>7
<1> QED
  BY <1>1, <1>2, <1>3 DEF Publish

LEMMA ConnMutex ==
  ASSUME IInv, NEW h \in Conns, Subscribe(h) \/ Take(h) \/ Write(h) \/ Break(h) \/ Unsubscribe(h)
  PROVE  Mutex'
<1> TypeOK /\ Mutex
  BY DEF IInv
<1>0. UNCHANGED <<mu, ppc, todo, at>> /\ \A p \in Publishers : Publishing(p)' <=> Publishing(p)
  BY DEF Subscribe, Take, Write, Break, Unsubscribe, Publishing
<1>1. \A p \in Publishers : todo[p] \subseteq sub'
  <2>1. CASE mu = None
    BY <2>1, Unlocked
  <2>2. CASE mu # None
    <3>1. sub' = sub
      BY <2>2 DEF Subscribe, Take, Write, Break, Unsubscribe
    <3> QED
      BY <3>1 DEF Mutex
  <2> QED
    BY <2>1, <2>2
<1>2. \A g \in Conns : /\ (g \in sub' <=> hpc'[g] \in {"loop", "write"})
                      /\ (hpc'[g] = "write" => held'[g] # None)
                      /\ (hpc'[g] # "write" => held'[g] = None)
                      /\ (g > opened' => hpc'[g] = "none")
  <2>1. CASE Subscribe(h)
    <3>1. held[h] = None
      BY <2>1 DEF Subscribe, Mutex, TypeOK
    <3> QED
      BY <2>1, <3>1 DEF Subscribe, Mutex, TypeOK
  <2>2. CASE Take(h)
    <3>1. Head(chan[h]) \in Known /\ h \in sub
      BY <2>2, TailSeq DEF Take, TypeOK, Known, Mutex
    <3>2. Head(chan[h]) # None
      BY <3>1, LiveFeedAssumption DEF Known
    <3> QED
      BY <2>2, <3>1, <3>2 DEF Take, Mutex, TypeOK
  <2>3. CASE Write(h)
    BY <2>3 DEF Write, Mutex, TypeOK
  <2>4. CASE Break(h)
    BY <2>4 DEF Break, Mutex
  <2>5. CASE Unsubscribe(h)
    BY <2>5 DEF Unsubscribe, Mutex, TypeOK
  <2> QED
    BY <2>1, <2>2, <2>3, <2>4, <2>5
<1> QED
  BY <1>0, <1>1, <1>2 DEF Mutex

LEMMA PageMutex ==
  ASSUME IInv, Connect \/ Serve \/ Fill \/ FetchFails
  PROVE  Mutex'
<1> TypeOK /\ Mutex
  BY DEF IInv
<1>1. CASE Connect
  <2>1. opened + 1 \in Conns /\ opened + 1 > opened
    BY <1>1, LiveFeedAssumption DEF Connect, TypeOK, Conns
  <2>2. hpc[opened + 1] = "none"
    BY <2>1 DEF Mutex
  <2>3. \A h \in Conns : h > opened + 1 => h > opened /\ h # opened + 1
    BY DEF TypeOK, Conns
  <2>4. /\ hpc' = [hpc EXCEPT ![opened + 1] = "start"] /\ opened' = opened + 1
        /\ UNCHANGED <<mu, ppc, todo, at, sub, held>>
    BY <1>1 DEF Connect
  <2>5. \A h \in Conns : hpc'[h] = IF h = opened + 1 THEN "start" ELSE hpc[h]
    BY <2>4 DEF TypeOK
  <2>6. \A h \in Conns : /\ (h \in sub' <=> hpc'[h] \in {"loop", "write"})
                        /\ (hpc'[h] = "write" => held'[h] # None)
                        /\ (hpc'[h] # "write" => held'[h] = None)
                        /\ (h > opened' => hpc'[h] = "none")
    BY <2>2, <2>3, <2>4, <2>5 DEF Mutex
  <2> QED
    BY <2>4, <2>6 DEF Mutex, Publishing
<1>2. CASE Serve \/ Fill \/ FetchFails
  <2>1. UNCHANGED <<mu, ppc, todo, at, sub, hpc, held, opened>>
    BY <1>2 DEF Serve, Fill, FetchFails
  <2> QED
    BY <2>1 DEF Mutex, Publishing
<1> QED
  BY <1>1, <1>2

-----------------------------------------------------------------------------
(* Every event is published once *)

LEMMA StoreOnce ==
  ASSUME IInv, NEW p \in Publishers, Store(p)
  PROVE  Once'
<1> TypeOK /\ Mutex /\ Once
  BY DEF IInv
<1>1. /\ ppc[p] = "idle" /\ stored' = stored + 1 /\ UNCHANGED <<log, mu>>
      /\ ev' = [ev EXCEPT ![p] = stored + 1] /\ ppc' = [ppc EXCEPT ![p] = "publish"]
  BY DEF Store
<1>2. stored \in Nat /\ stored + 1 # None
  BY LiveFeedAssumption DEF TypeOK
<1>3. \A q \in Publishers : ev[q] # None => ev[q] \in Nat /\ ev[q] <= stored
  BY DEF TypeOK, Once
<1>4. \A i \in 1..Len(log) : log[i] \in Nat /\ log[i] <= stored
  <2>1. \A i \in 1..Len(log) : log[i] \in 1..MaxEvents
    BY ElementOfSeq DEF TypeOK
  <2> QED
    BY <2>1 DEF Once
<1>5. \A q \in Publishers : /\ ev'[q] = IF q = p THEN stored + 1 ELSE ev[q]
                           /\ ppc'[q] = IF q = p THEN "publish" ELSE ppc[q]
  BY <1>1 DEF TypeOK
<1>6. \A q \in Publishers : ev'[q] # None => ev'[q] <= stored'
  BY <1>1, <1>2, <1>3, <1>5
<1>7. \A q, r \in Publishers : (q # r /\ ev'[q] # None) => ev'[q] # ev'[r]
  <2>1. \A q \in Publishers : ev[q] # stored + 1
    BY <1>2, <1>3
  <2> QED
    BY <1>5, <2>1 DEF Once
<1>8. \A i \in 1..Len(log) : log[i] <= stored' /\ log[i] # stored + 1
  BY <1>1, <1>2, <1>4
<1>9. \A q \in Publishers : ppc'[q] = "publish" => \A i \in 1..Len(log) : log[i] # ev'[q]
  BY <1>5, <1>8 DEF Once
<1>10. \A q \in Publishers : ppc'[q] = "idle" <=> ev'[q] = None
  BY <1>2, <1>5 DEF Once
<1>11. \A q \in Publishers : mu = q => Len(log) > 0 /\ log[Len(log)] = ev'[q]
  BY <1>1, <1>5 DEF Once, Mutex, Publishing
<1> QED
  BY <1>1, <1>6, <1>7, <1>8, <1>9, <1>10, <1>11 DEF Once

LEMMA LockOnce ==
  ASSUME IInv, NEW p \in Publishers, Lock(p)
  PROVE  Once'
<1> TypeOK /\ Once
  BY DEF IInv
<1>1. /\ ppc[p] = "publish" /\ mu' = p /\ log' = Append(log, ev[p])
      /\ ppc' = [ppc EXCEPT ![p] = "loop"] /\ UNCHANGED <<stored, ev>>
  BY DEF Lock
<1>2. ev[p] # None /\ ev[p] \in Known /\ ev[p] <= stored
  BY <1>1 DEF TypeOK, Once, Known
<1>3. /\ Len(log) \in Nat /\ Len(log') = Len(log) + 1 /\ log'[Len(log) + 1] = ev[p]
      /\ \A i \in 1..Len(log) : log'[i] = log[i]
  BY <1>1, <1>2, AppendSeq, LenProperties DEF TypeOK, Known
<1>4. \A i \in 1..Len(log') : i \in 1..Len(log) \/ i = Len(log) + 1
  BY <1>3
<1>5. \A i \in 1..Len(log) : log[i] # ev[p] /\ log[i] <= stored
  BY <1>1 DEF Once
<1>6. \A i \in 1..Len(log') : log'[i] <= stored
  BY <1>2, <1>3, <1>4, <1>5
<1>7. \A i, j \in 1..Len(log') : log'[i] = log'[j] => i = j
  BY <1>3, <1>4, <1>5 DEF Once
<1>8. \A q \in Publishers : ppc'[q] = IF q = p THEN "loop" ELSE ppc[q]
  BY <1>1 DEF TypeOK
<1>9. ASSUME NEW q \in Publishers, ppc'[q] = "publish", NEW i \in 1..Len(log') PROVE log'[i] # ev[q]
  <2>1. q # p /\ ppc[q] = "publish"
    BY <1>8, <1>9
  <2>2. ev[q] # ev[p]
    BY <1>2, <2>1 DEF Once
  <2> QED
    BY <1>3, <1>4, <2>1, <2>2 DEF Once
<1>10. \A q \in Publishers : ppc'[q] = "idle" <=> ev[q] = None
  BY <1>1, <1>2, <1>8 DEF Once
<1>11. Len(log') > 0 /\ log'[Len(log')] = ev[p]
  BY <1>3
<1> QED
  BY <1>1, <1>6, <1>7, <1>9, <1>10, <1>11 DEF Once

LEMMA RestOnce ==
  ASSUME IInv, NEW p \in Publishers,
         DropOldest(p) \/ OfferAgain(p) \/ Unlock(p) \/ \E h \in Conns : Offer(p, h)
  PROVE  Once'
<1> TypeOK /\ Once /\ Publishing(p)
  BY DEF IInv, DropOldest, OfferAgain, Unlock, Offer, Publishing
<1>1. UNCHANGED <<stored, log>>
  BY DEF DropOldest, OfferAgain, Unlock, Offer
<1>2. CASE Unlock(p)
  <2>1. \A q \in Publishers : q # None /\ ev'[q] = (IF q = p THEN None ELSE ev[q])
                             /\ ppc'[q] = (IF q = p THEN "idle" ELSE ppc[q])
    BY <1>2, LiveFeedAssumption DEF Unlock, TypeOK
  <2>2. mu' = None
    BY <1>2 DEF Unlock
  <2> QED
    BY <1>1, <2>1, <2>2 DEF Once
<1>3. CASE ~Unlock(p)
  <2>1. UNCHANGED <<mu, ev>> /\ ppc'[p] \in {"loop", "drop", "again"}
        /\ \A q \in Publishers : q # p => ppc'[q] = ppc[q]
    BY <1>3 DEF DropOldest, OfferAgain, Offer, TypeOK
  <2>2. ev[p] # None
    BY InPublish
  <2> QED
    BY <1>1, <2>1, <2>2 DEF Once
<1> QED
  BY <1>2, <1>3

-----------------------------------------------------------------------------
(* The channels *)

LEMMA SuffixKept ==
  ASSUME NEW h, Suffix(h), UNCHANGED <<log, todo, ppc, at>>, chan'[h] = chan[h], pos'[h] = pos[h]
  PROVE  Suffix(h)'
<1>1. Top(h)' = Top(h) /\ (Between(h)' <=> Between(h))
  BY DEF Top, Between
<1> QED
  BY <1>1 DEF Suffix

LEMMA LockChannels ==
  ASSUME IInv, NEW p \in Publishers, Lock(p)
  PROVE  Channels'
<1> TypeOK /\ Channels
  BY DEF IInv
<1>1. /\ mu = None /\ log' = Append(log, ev[p]) /\ todo' = [todo EXCEPT ![p] = sub]
      /\ ppc' = [ppc EXCEPT ![p] = "loop"] /\ UNCHANGED <<at, sub, chan, pos>>
  BY DEF Lock
<1>2. \A q \in Publishers : todo[q] = {} /\ ~Publishing(q)
  BY <1>1, Unlocked
<1>3. ev[p] \in Known
  BY DEF Lock, IInv, Once, TypeOK, Known
<1>4. /\ Len(log) \in Nat /\ Len(log') = Len(log) + 1
      /\ \A i \in 1..Len(log) : log'[i] = log[i]
  BY <1>1, <1>3, AppendSeq, LenProperties DEF TypeOK, Known
<1>5. \A q \in Publishers : ppc'[q] # "again" /\ ppc[q] # "again"
  BY <1>1, <1>2 DEF TypeOK, Publishing
<1>6. ASSUME NEW h \in sub PROVE Suffix(h)'
  <2>1. Top(h) = Len(log)
    BY <1>2 DEF Top
  <2>2. Top(h)' = Len(log)
    <3>1. h \in todo'[p]
      BY <1>1 DEF TypeOK
    <3>2. Top(h)' = Len(log') - 1
      BY <3>1 DEF Top
    <3> QED
      BY <1>4, <3>2
  <2>3. Suffix(h) /\ ~Between(h) /\ chan'[h] = chan[h] /\ pos'[h] = pos[h]
    BY <1>1, <1>5 DEF Channels, Between
  <2>4. Len(chan[h]) \in Nat /\ Len(chan[h]) <= Len(log)
    BY <2>1, <2>3, LenProperties DEF Suffix, TypeOK
  <2>5. \A i \in 1..Len(chan[h]) : Len(log) - Len(chan[h]) + i \in 1..Len(log)
    BY <1>4, <2>4
  <2>6. \A i \in 1..Len(chan[h]) : chan[h][i] = log'[Len(log) - Len(chan[h]) + i]
    BY <1>4, <2>1, <2>3, <2>5 DEF Suffix
  <2> QED
    BY <2>1, <2>2, <2>3, <2>6 DEF Suffix
<1> QED
  BY <1>1, <1>5, <1>6 DEF Channels

(* The publisher puts its event into the channel h, which has room. *)
LEMMA SendSuffix ==
  ASSUME IInv, NEW p \in Publishers, Publishing(p), NEW h \in todo[p], Len(chan[h]) < Cap,
         chan' = [chan EXCEPT ![h] = Append(@, ev[p])], todo' = [todo EXCEPT ![p] = @ \ {h}],
         UNCHANGED <<log, pos>>
  PROVE  Suffix(h)'
<1> TypeOK /\ Channels
  BY DEF IInv
<1>1. /\ ev[p] \in Known /\ Len(log) \in Nat \ {0} /\ log[Len(log)] = ev[p] /\ h \in sub /\ h \in Conns
      /\ \A q \in Publishers : q # p => todo[q] = {}
  BY InPublish
<1>2. Suffix(h) /\ Top(h) = Len(log) - 1
  BY <1>1 DEF Channels, Top
<1>3. \A q \in Publishers : h \notin todo'[q]
  BY <1>1 DEF TypeOK
<1>4. Top(h)' = Len(log)
  BY <1>3 DEF Top
<1> DEFINE n == Len(chan[h])
<1>5. /\ n \in Nat /\ Len(chan'[h]) = n + 1 /\ chan'[h][n + 1] = ev[p]
      /\ \A i \in 1..n : chan'[h][i] = chan[h][i]
  <2>1. chan[h] \in Seq(Known) /\ chan'[h] = Append(chan[h], ev[p])
    BY <1>1 DEF TypeOK, Known
  <2> QED
    BY <1>1, <2>1, AppendSeq, LenProperties
<1>6. \A i \in 1..n : chan[h][i] = log[Len(log) - 1 - n + i]
  BY <1>2 DEF Suffix
<1>7. n <= Len(log) - 1 /\ pos[h] <= Len(log) - 1 - n
  BY <1>2 DEF Suffix
<1>8. pos[h] \in Nat /\ Cap \in Nat /\ n < Cap
  BY <1>1, LiveFeedAssumption DEF TypeOK
<1> HIDE DEF n
<1>9. ASSUME NEW i \in 1..(n + 1) PROVE chan'[h][i] = log[Len(log) - (n + 1) + i]
  <2>1. CASE i \in 1..n
    <3>1. Len(log) - (n + 1) + i = Len(log) - 1 - n + i
      BY <1>1, <1>5
    <3> QED
      BY <1>5, <1>6, <2>1, <3>1
  <2>2. CASE i = n + 1
    <3>1. Len(log) - (n + 1) + i = Len(log)
      BY <1>1, <1>5, <2>2
    <3> QED
      BY <1>1, <1>5, <2>2, <3>1
  <2> QED
    BY <1>5, <2>1, <2>2
<1>10. n + 1 <= Cap /\ n + 1 <= Len(log) /\ pos[h] <= Len(log) - (n + 1) /\ n + 1 # 0
  BY <1>1, <1>5, <1>7, <1>8
<1> QED
  BY <1>4, <1>5, <1>9, <1>10 DEF Suffix

LEMMA OfferChannels ==
  ASSUME IInv, NEW p \in Publishers, NEW h \in Conns, Offer(p, h)
  PROVE  Channels'
<1> TypeOK /\ Channels /\ Publishing(p) /\ h \in todo[p]
  BY DEF IInv, Offer, Publishing
<1>0. h \in sub /\ \A q \in Publishers : q # p => todo[q] = {} /\ ~Publishing(q)
  BY InPublish
<1>1. CASE Len(chan[h]) < Cap
  <2>1. /\ chan' = [chan EXCEPT ![h] = Append(@, ev[p])] /\ todo' = [todo EXCEPT ![p] = @ \ {h}]
        /\ UNCHANGED <<ppc, at, log, pos, sub>> /\ ppc[p] = "loop"
    <3>1. Len(chan[h]) \in Nat /\ Cap \in Nat
      BY LenProperties, LiveFeedAssumption DEF TypeOK
    <3> QED
      BY <1>1, <3>1 DEF Offer
  <2>2. Suffix(h)'
    BY <1>1, <2>1, SendSuffix
  <2>3. ASSUME NEW g \in sub, g # h PROVE Suffix(g)'
    <3>1. chan'[g] = chan[g] /\ Suffix(g) /\ \A q \in Publishers : g \in todo'[q] <=> g \in todo[q]
      BY <2>1, <2>3 DEF TypeOK, Channels
    <3>2. Top(g)' = Top(g) /\ (Between(g)' <=> Between(g))
      BY <2>1, <3>1 DEF Top, Between
    <3> QED
      BY <2>1, <3>1, <3>2 DEF Suffix
  <2>4. \A g \in Conns \ sub : chan'[g] = <<>>
    BY <1>0, <2>1 DEF TypeOK, Channels
  <2>5. \A q \in Publishers : ppc'[q] # "again"
    BY <1>0, <2>1 DEF Publishing
  <2> QED
    BY <2>1, <2>2, <2>3, <2>4, <2>5 DEF Channels
<1>2. CASE ~(Len(chan[h]) < Cap)
  <2>1. /\ ppc' = [ppc EXCEPT ![p] = "drop"] /\ at' = [at EXCEPT ![p] = h]
        /\ UNCHANGED <<todo, chan, log, pos, sub>> /\ ppc[p] = "loop"
    BY <1>2 DEF Offer
  <2>2. \A q \in Publishers : ppc'[q] # "again" /\ ppc[q] # "again"
    BY <1>0, <2>1 DEF Publishing, TypeOK
  <2>3. ASSUME NEW g \in sub PROVE Suffix(g)'
    <3>1. Top(g)' = Top(g) /\ ~Between(g)' /\ ~Between(g) /\ Suffix(g)
      BY <2>1, <2>2 DEF Top, Between, Channels
    <3> QED
      BY <2>1, <3>1 DEF Suffix
  <2> QED
    BY <2>1, <2>2, <2>3 DEF Channels
<1> QED
  BY <1>1, <1>2

(* The oldest entry of the channel h goes, to a publisher or to the handler. *)
LEMMA TailSuffix ==
  ASSUME IInv, NEW h \in sub, chan[h] # <<>>, chan'[h] = Tail(chan[h]), UNCHANGED <<log, todo>>,
         pos'[h] \in Nat, pos'[h] <= Top(h) - (Len(chan[h]) - 1),
         pos'[h] = Top(h) - (Len(chan[h]) - 1) \/ Between(h)'
  PROVE  Suffix(h)' /\ Len(chan'[h]) < Cap
<1> TypeOK /\ Channels
  BY DEF IInv
<1>1. Suffix(h) /\ h \in Conns /\ Top(h)' = Top(h) /\ Top(h) \in Nat
  BY TopType DEF Channels, TypeOK, Top
<1> DEFINE n == Len(chan[h])
<1>2. n \in Nat \ {0} /\ Len(chan'[h]) = n - 1 /\ \A i \in 1..(n - 1) : chan'[h][i] = chan[h][i + 1]
  BY <1>1, TailSeq DEF TypeOK
<1>3. n <= Cap /\ n <= Top(h) /\ Cap \in Nat
  BY <1>1, LiveFeedAssumption DEF Suffix
<1>4. \A i \in 1..n : chan[h][i] = log[Top(h) - n + i]
  BY <1>1 DEF Suffix
<1>5. /\ pos'[h] \in Nat /\ pos'[h] <= Top(h) - (n - 1)
      /\ pos'[h] = Top(h) - (n - 1) \/ Between(h)'
  OBVIOUS
<1> HIDE DEF n
<1>6. ASSUME NEW i \in 1..(n - 1) PROVE chan'[h][i] = log'[Top(h) - (n - 1) + i]
  <2>1. i + 1 \in 1..n /\ Top(h) - n + (i + 1) = Top(h) - (n - 1) + i
    BY <1>1, <1>2
  <2> QED
    BY <1>2, <1>4, <2>1
<1>7. n - 1 <= Cap /\ n - 1 < Cap /\ n - 1 <= Top(h) /\ (n - 1 = 0 => Top(h) - (n - 1) = Top(h))
  BY <1>1, <1>2, <1>3
<1> QED
  BY <1>1, <1>2, <1>5, <1>6, <1>7 DEF Suffix

LEMMA DropChannels ==
  ASSUME IInv, NEW p \in Publishers, DropOldest(p)
  PROVE  Channels'
<1> TypeOK /\ Channels /\ Publishing(p)
  BY DEF IInv, DropOldest, Publishing
<1> DEFINE h == at[p]
<1>1. /\ h \in todo[p] /\ h \in sub /\ h \in Conns
      /\ \A q \in Publishers : q # p => todo[q] = {} /\ ~Publishing(q)
  BY InPublish DEF DropOldest
<1>2. /\ ppc[p] = "drop" /\ ppc' = [ppc EXCEPT ![p] = "again"] /\ UNCHANGED <<log, todo, at, sub, pos>>
      /\ IF chan[h] = <<>> THEN chan' = chan ELSE chan' = [chan EXCEPT ![h] = Tail(@)]
  BY DEF DropOldest
<1>3. Between(h)' /\ \A q \in Publishers : (ppc'[q] = "again" <=> q = p) /\ ppc[q] # "again"
  BY <1>1, <1>2 DEF Between, TypeOK, Publishing
<1>4. Suffix(h)' /\ Len(chan'[h]) < Cap
  <2>0. Suffix(h) /\ Top(h) \in Nat /\ pos[h] \in Nat /\ Len(chan[h]) \in Nat /\ pos'[h] = pos[h]
    BY <1>1, <1>2, TopType, LenProperties DEF Channels, TypeOK
  <2>1. CASE chan[h] = <<>>
    <3>1. Len(chan[h]) = 0 /\ 0 < Cap /\ chan' = chan
      BY <1>2, <2>1, LiveFeedAssumption
    <3>2. Top(h)' = Top(h)
      BY <1>2 DEF Top
    <3> QED
      BY <1>2, <1>3, <2>0, <3>1, <3>2 DEF Suffix
  <2>2. CASE chan[h] # <<>>
    <3>1. chan'[h] = Tail(chan[h])
      BY <1>1, <1>2, <2>2 DEF TypeOK
    <3>2. pos'[h] <= Top(h) - (Len(chan[h]) - 1)
      BY <2>0 DEF Suffix
    <3> QED
      BY <1>1, <1>2, <1>3, <2>0, <2>2, <3>1, <3>2, TailSuffix
  <2> QED
    BY <2>1, <2>2
<1>5. ASSUME NEW g \in sub, g # h PROVE Suffix(g)'
  <2>1. chan'[g] = chan[g] /\ Suffix(g)
    BY <1>2, <1>5 DEF TypeOK, Channels
  <2>2. Top(g)' = Top(g) /\ ~Between(g)
    BY <1>2, <1>3 DEF Top, Between
  <2> QED
    BY <1>2, <2>1, <2>2 DEF Suffix
<1>6. \A g \in Conns \ sub : chan'[g] = <<>>
  BY <1>1, <1>2 DEF TypeOK, Channels
<1> QED
  BY <1>2, <1>3, <1>4, <1>5, <1>6 DEF Channels

LEMMA AgainChannels ==
  ASSUME IInv, NEW p \in Publishers, OfferAgain(p)
  PROVE  Channels' /\ chan' = [chan EXCEPT ![at[p]] = Append(@, ev[p])]
<1> TypeOK /\ Channels /\ Publishing(p)
  BY DEF IInv, OfferAgain, Publishing
<1> DEFINE h == at[p]
<1>1. /\ h \in todo[p] /\ h \in sub /\ h \in Conns
      /\ \A q \in Publishers : q # p => todo[q] = {} /\ ~Publishing(q)
  BY InPublish DEF OfferAgain
<1>2. Len(chan[h]) < Cap
  BY DEF Channels, OfferAgain
<1>3. /\ ppc' = [ppc EXCEPT ![p] = "loop"] /\ UNCHANGED <<log, at, sub, pos>> /\ ppc[p] = "again"
      /\ chan' = [chan EXCEPT ![h] = Append(@, ev[p])] /\ todo' = [todo EXCEPT ![p] = @ \ {h}]
  BY <1>2 DEF OfferAgain
<1>4. Suffix(h)'
  BY <1>1, <1>2, <1>3, SendSuffix
<1>5. \A q \in Publishers : ppc'[q] # "again" /\ (q # p => ppc[q] # "again")
  BY <1>1, <1>3 DEF TypeOK, Publishing
<1>6. ASSUME NEW g \in sub, g # h PROVE Suffix(g)'
  <2>1. chan'[g] = chan[g] /\ Suffix(g) /\ \A q \in Publishers : g \in todo'[q] <=> g \in todo[q]
    BY <1>3, <1>6 DEF TypeOK, Channels
  <2>2. Top(g)' = Top(g) /\ ~Between(g)
    BY <1>3, <1>5, <1>6, <2>1 DEF Top, Between
  <2> QED
    BY <1>3, <2>1, <2>2 DEF Suffix
<1>7. \A g \in Conns \ sub : chan'[g] = <<>>
  BY <1>1, <1>3 DEF TypeOK, Channels
<1> QED
  BY <1>3, <1>4, <1>5, <1>6, <1>7 DEF Channels

LEMMA PublishChannels ==
  ASSUME IInv, NEW p \in Publishers, Store(p) \/ Publish(p)
  PROVE  Channels'
<1>1. CASE Store(p) \/ Unlock(p)
  <2>1. UNCHANGED <<log, todo, at, chan, pos, sub>>
    BY <1>1 DEF Store, Unlock
  <2>2. \A q \in Publishers : ppc'[q] = "again" <=> ppc[q] = "again"
    BY <1>1 DEF Store, Unlock, IInv, TypeOK
  <2>3. ASSUME NEW g \in sub PROVE Suffix(g)'
    <3>1. Top(g)' = Top(g) /\ (Between(g)' <=> Between(g)) /\ Suffix(g)
      BY <2>1, <2>2 DEF Top, Between, IInv, Channels
    <3> QED
      BY <2>1, <3>1 DEF Suffix
  <2> QED
    BY <2>1, <2>2, <2>3 DEF IInv, Channels
<1> QED
  BY <1>1, LockChannels, DropChannels, AgainChannels, OfferChannels DEF Publish

LEMMA ConnChannels ==
  ASSUME IInv, NEW h \in Conns, Subscribe(h) \/ Take(h) \/ Write(h) \/ Break(h) \/ Unsubscribe(h)
  PROVE  Channels'
<1> TypeOK /\ Mutex /\ Channels
  BY DEF IInv
<1>0. UNCHANGED <<log, todo, ppc, at>>
  BY DEF Subscribe, Take, Write, Break, Unsubscribe
<1>1. CASE Subscribe(h)
  <2>1. /\ sub' = sub \cup {h} /\ pos' = [pos EXCEPT ![h] = Len(log)] /\ chan' = chan /\ mu = None
    BY <1>1 DEF Subscribe
  <2>2. h \notin sub /\ chan[h] = <<>> /\ Len(chan[h]) = 0
    BY <1>1 DEF Subscribe, Mutex, Channels
  <2>3. Top(h)' = Len(log) /\ Len(log) \in Nat /\ log' = log
    BY <1>0, <2>1, Unlocked, TopType DEF Top
  <2>4. Suffix(h)'
    <3>1. pos'[h] = Len(log) /\ Cap \in Nat
      BY <2>1, LiveFeedAssumption DEF TypeOK
    <3> QED
      BY <2>1, <2>2, <2>3, <3>1 DEF Suffix
  <2>5. \A g \in sub : Suffix(g)'
    BY <1>0, <2>1, <2>2, SuffixKept DEF Channels, TypeOK
  <2> QED
    BY <1>0, <2>1, <2>4, <2>5 DEF Channels
<1>2. CASE Take(h)
  <2>1. h \in sub /\ chan[h] # <<>> /\ chan' = [chan EXCEPT ![h] = Tail(@)] /\ sub' = sub
        /\ pos' = [pos EXCEPT ![h] = Top(h) - Len(chan[h]) + 1]
    BY <1>2, TakeIndex DEF Take
  <2>2. Len(chan[h]) \in Nat \ {0} /\ Len(chan[h]) <= Top(h) /\ Top(h) \in Nat
    BY <1>2, TakeIndex, TopType DEF Take
  <2>3. pos'[h] = Top(h) - Len(chan[h]) + 1 /\ chan'[h] = Tail(chan[h])
        /\ \A g \in Conns : g # h => pos'[g] = pos[g] /\ chan'[g] = chan[g]
    BY <2>1 DEF TypeOK
  <2>4. pos'[h] \in Nat /\ pos'[h] = Top(h) - (Len(chan[h]) - 1) /\ pos'[h] <= Top(h) - (Len(chan[h]) - 1)
    BY <2>2, <2>3
  <2>5. Suffix(h)' /\ Len(chan'[h]) < Cap
    BY <1>0, <2>1, <2>3, <2>4, TailSuffix
  <2>6. \A g \in sub : g # h => Suffix(g)'
    BY <1>0, <2>3, SuffixKept DEF Channels, TypeOK
  <2>7. \A g \in Conns \ sub : chan'[g] = <<>>
    BY <2>1, <2>3 DEF Channels
  <2>8. \A p \in Publishers : ppc[p] = "again" => Len(chan'[at[p]]) < Cap
    <3>1. \A p \in Publishers : ppc[p] = "again" => at[p] \in Conns /\ Len(chan[at[p]]) < Cap
      BY DEF Mutex, Channels, TypeOK
    <3> QED
      BY <2>3, <2>5, <3>1
  <2> QED
    BY <1>0, <2>1, <2>5, <2>6, <2>7, <2>8 DEF Channels
<1>3. CASE Write(h) \/ Break(h)
  <2>1. UNCHANGED <<chan, pos, sub>>
    BY <1>3 DEF Write, Break
  <2>2. \A g \in sub : Suffix(g)'
    BY <1>0, <2>1, SuffixKept DEF Channels
  <2> QED
    BY <1>0, <2>1, <2>2 DEF Channels
<1>4. CASE Unsubscribe(h)
  <2>1. sub' = sub \ {h} /\ chan' = [chan EXCEPT ![h] = <<>>] /\ UNCHANGED pos /\ mu = None
    BY <1>4 DEF Unsubscribe
  <2>2. chan'[h] = <<>> /\ \A g \in Conns : g # h => chan'[g] = chan[g]
    BY <2>1 DEF TypeOK
  <2>3. \A g \in sub' : Suffix(g)'
    BY <1>0, <2>1, <2>2, SuffixKept DEF Channels, TypeOK
  <2>4. \A p \in Publishers : ppc[p] # "again"
    BY <2>1, Unlocked DEF Publishing
  <2> QED
    BY <1>0, <2>1, <2>2, <2>3, <2>4 DEF Channels
<1> QED
  BY <1>1, <1>2, <1>3, <1>4

-----------------------------------------------------------------------------
(* The page *)

Gone == ToSet(items) \cup missed
Promised(h) == {ev[p] : p \in {q \in Publishers : h \in todo[q]}}

(* A step that publishes nothing accounts for everything that was on its way. *)
LEMMA AccountKept ==
  ASSUME IInv, UNCHANGED log, Gone \subseteq Gone', IsInjective(items'),
         Listening => \A e \in OnItsWay : \/ e = None \/ e \in Gone'
                                          \/ Listening' /\ e \in OnItsWay'
  PROVE  FeedAccounted'
<1>1. ASSUME NEW e \in ToSet(log), e \notin Gone' PROVE Listening' /\ e \in OnItsWay'
  <2>1. e \notin ToSet(items) /\ e \notin missed
    BY <1>1 DEF Gone
  <2>2. Listening /\ e \in OnItsWay
    BY <2>1 DEF IInv, Page, FeedAccounted
  <2>3. e # None
    <3>1. e \in Known
      BY SetOfSeq DEF IInv, TypeOK, Known
    <3> QED
      BY <3>1, LiveFeedAssumption DEF Known
  <2> QED
    BY <1>1, <2>2, <2>3
<1> QED
  BY <1>1 DEF FeedAccounted, Gone

LEMMA ListeningConn ==
  ASSUME IInv, Listening
  PROVE  opened \in Conns /\ opened \in sub /\ opened \in up
BY DEF IInv, TypeOK, Listening

LEMMA LockPage ==
  ASSUME IInv, NEW p \in Publishers, Lock(p)
  PROVE  FeedAccounted'
<1> TypeOK /\ Page
  BY DEF IInv
<1>1. /\ ppc[p] = "publish" /\ mu = None /\ log' = Append(log, ev[p]) /\ todo' = [todo EXCEPT ![p] = sub]
      /\ missed' = (IF Listening THEN missed ELSE missed \cup {ev[p]})
      /\ UNCHANGED <<ev, sub, chan, held, up, opened, items>>
  BY DEF Lock
<1>2. ev[p] \in Known
  BY <1>1 DEF IInv, Once, TypeOK, Known
<1>3. ToSet(log') = ToSet(log) \cup {ev[p]}
  <2>1. log \in Seq(Known)
    BY DEF TypeOK, Known
  <2>2. ToSet(Append(log, ev[p])) = ToSet(log) \cup {ev[p]}
    BY <1>2, <2>1, AppendSeq
  <2> QED
    BY <1>1, <2>2
<1>4. Listening' <=> Listening
  BY <1>1 DEF Listening
<1>5. \A q \in Publishers : todo[q] = {}
  BY <1>1, Unlocked
<1>6. OnItsWay \subseteq OnItsWay'
  BY <1>1, <1>5 DEF OnItsWay
<1>7. Listening => ev[p] \in OnItsWay'
  <2> SUFFICES ASSUME Listening PROVE ev[p] \in OnItsWay'
    OBVIOUS
  <2>1. opened' \in todo'[p] /\ ev'[p] = ev[p]
    BY <1>1, ListeningConn DEF TypeOK
  <2> QED
    BY <2>1 DEF OnItsWay
<1>8. ASSUME NEW e \in ToSet(log'), e \notin ToSet(items), e \notin missed'
      PROVE  Listening /\ e \in OnItsWay'
  <2>1. CASE e = ev[p]
    BY <1>1, <1>7, <1>8, <2>1
  <2>2. CASE e # ev[p]
    <3>1. e \in ToSet(log) /\ e \notin missed
      BY <1>1, <1>3, <1>8, <2>2
    <3> QED
      BY <1>6, <1>8, <3>1 DEF Page, FeedAccounted
  <2> QED
    BY <2>1, <2>2
<1> QED
  BY <1>1, <1>4, <1>8 DEF Page, FeedAccounted

(* The event of the publisher has gone into the channel h. *)
LEMMA SendPage ==
  ASSUME IInv, NEW p \in Publishers, Publishing(p), NEW h \in todo[p],
         chan' = [chan EXCEPT ![h] = Append(@, ev[p])], todo' = [todo EXCEPT ![p] = @ \ {h}],
         UNCHANGED <<log, ev, sub, held, up, opened, items, missed>>
  PROVE  FeedAccounted'
<1> TypeOK /\ Page
  BY DEF IInv
<1>1. ev[p] \in Known /\ h \in Conns /\ \A q \in Publishers : q # p => todo[q] = {}
  BY InPublish
<1>2. (Listening' <=> Listening) /\ Gone' = Gone /\ IsInjective(items')
  BY DEF Listening, Gone, Page, FeedAccounted
<1>3. ASSUME Listening, NEW e \in OnItsWay PROVE e \in OnItsWay'
  <2>1. opened \in Conns
    BY <1>3, ListeningConn
  <2>2. ToSet(chan'[h]) = ToSet(chan[h]) \cup {ev[p]}
    <3>1. chan[h] \in Seq(Known) /\ chan'[h] = Append(chan[h], ev[p])
      BY <1>1 DEF TypeOK, Known
    <3>2. ToSet(Append(chan[h], ev[p])) = ToSet(chan[h]) \cup {ev[p]}
      BY <1>1, <3>1, AppendSeq
    <3> QED
      BY <3>1, <3>2
  <2>3. CASE e \in ToSet(chan[opened])
    <3>1. e \in ToSet(chan'[opened])
      BY <2>1, <2>2, <2>3 DEF TypeOK
    <3> QED
      BY <3>1 DEF OnItsWay
  <2>4. CASE e = held[opened]
    BY <2>4 DEF OnItsWay
  <2>5. CASE e = ev[p] /\ opened \in todo[p]
    <3>1. CASE opened = h
      BY <2>2, <2>5, <3>1 DEF OnItsWay
    <3>2. CASE opened # h
      <4>1. opened \in todo'[p]
        BY <2>5, <3>2 DEF TypeOK
      <4> QED
        BY <2>5, <4>1 DEF OnItsWay
    <3> QED
      BY <3>1, <3>2
  <2> QED
    BY <1>1, <1>3, <2>3, <2>4, <2>5 DEF OnItsWay
<1> QED
  BY <1>2, <1>3, AccountKept

LEMMA PublishPage ==
  ASSUME IInv, NEW p \in Publishers, Store(p) \/ Publish(p)
  PROVE  Page'
<1> TypeOK /\ Page
  BY DEF IInv
<1>0. snapshot' = snapshot
  BY DEF Store, Publish, Lock, DropOldest, OfferAgain, Unlock, Offer
<1>1. CASE Store(p) \/ Unlock(p)
  <2>1. todo[p] = {}
    BY <1>1 DEF Store, Unlock, IInv, Mutex, Publishing
  <2>2. UNCHANGED <<log, todo, sub, chan, held, up, opened, items, missed>>
        /\ \A q \in Publishers : q # p => ev'[q] = ev[q]
    BY <1>1 DEF Store, Unlock, TypeOK
  <2>3. (Listening' <=> Listening) /\ Gone' = Gone /\ IsInjective(items')
    BY <2>2 DEF Listening, Gone, Page, FeedAccounted
  <2>4. OnItsWay \subseteq OnItsWay'
    <3> SUFFICES ASSUME NEW e \in OnItsWay PROVE e \in OnItsWay'
      OBVIOUS
    <3>1. CASE e \in ToSet(chan[opened]) \/ e = held[opened]
      BY <2>2, <3>1 DEF OnItsWay
    <3>2. CASE \E q \in Publishers : opened \in todo[q] /\ e = ev[q]
      <4>1. PICK q \in Publishers : opened \in todo[q] /\ e = ev[q]
        BY <3>2
      <4>2. opened' \in todo'[q] /\ ev'[q] = e
        BY <2>1, <2>2, <4>1
      <4> QED
        BY <4>2 DEF OnItsWay
    <3> QED
      BY <3>1, <3>2 DEF OnItsWay
  <2> QED
    BY <1>0, <2>2, <2>3, <2>4, AccountKept DEF Page
<1>2. CASE Lock(p)
  BY <1>0, <1>2, LockPage DEF Page
<1>3. CASE DropOldest(p)
  <2> DEFINE h == at[p]
  <2>1. h \in Conns
    BY <1>3, InPublish DEF DropOldest, Publishing
  <2>2. UNCHANGED <<log, ev, todo, sub, held, up, opened, items>>
    BY <1>3 DEF DropOldest
  <2>3. missed \subseteq missed'
    BY <1>3 DEF DropOldest
  <2>4. (Listening' <=> Listening) /\ Gone \subseteq Gone' /\ IsInjective(items')
    BY <2>2, <2>3 DEF Listening, Gone, Page, FeedAccounted
  <2>5. ASSUME Listening, NEW e \in ToSet(chan[opened]) PROVE e \in missed' \/ e \in ToSet(chan'[opened])
    <3>1. opened \in Conns
      BY <2>5, ListeningConn
    <3>2. CASE chan[h] = <<>> \/ h # opened
      <4>1. chan'[opened] = chan[opened]
        BY <1>3, <3>1, <3>2 DEF DropOldest, TypeOK
      <4> QED
        BY <2>5, <4>1
    <3>3. CASE chan[h] # <<>> /\ h = opened
      <4>1. chan'[opened] = Tail(chan[opened]) /\ missed' = missed \cup {Head(chan[opened])}
        BY <1>3, <3>1, <3>3 DEF DropOldest, TypeOK
      <4>2. ToSet(chan[opened]) = {Head(chan[opened])} \cup ToSet(Tail(chan[opened]))
        BY <3>1, <3>3, TailSeq DEF TypeOK
      <4> QED
        BY <2>5, <4>1, <4>2
    <3> QED
      BY <3>2, <3>3
  <2>6. ASSUME Listening, NEW e \in OnItsWay PROVE e \in Gone' \/ e \in OnItsWay'
    <3>1. CASE e \in ToSet(chan[opened])
      BY <2>2, <2>5, <2>6, <3>1 DEF OnItsWay, Gone
    <3>2. CASE e \notin ToSet(chan[opened])
      BY <2>2, <2>6, <3>2 DEF OnItsWay
    <3> QED
      BY <3>1, <3>2
  <2>7. FeedAccounted'
    BY <2>2, <2>4, <2>6, AccountKept
  <2> QED
    BY <1>0, <2>7 DEF Page
<1>4. CASE OfferAgain(p)
  <2>1. Publishing(p) /\ at[p] \in todo[p]
    BY <1>4, InPublish DEF OfferAgain, Publishing
  <2>2. FeedAccounted'
    BY <1>4, <2>1, AgainChannels, SendPage DEF OfferAgain
  <2> QED
    BY <1>0, <2>2 DEF Page
<1>5. CASE \E h \in Conns : Offer(p, h)
  <2>1. PICK h \in Conns : Offer(p, h)
    BY <1>5
  <2>2. Publishing(p) /\ h \in todo[p] /\ UNCHANGED <<log, ev, sub, held, up, opened, items, missed>>
    BY <2>1 DEF Offer, Publishing
  <2>3. CASE chan' = [chan EXCEPT ![h] = Append(@, ev[p])] /\ todo' = [todo EXCEPT ![p] = @ \ {h}]
    BY <1>0, <2>2, <2>3, SendPage DEF Page
  <2>4. CASE UNCHANGED <<chan, todo>>
    <3>1. (Listening' <=> Listening) /\ Gone' = Gone /\ IsInjective(items') /\ OnItsWay' = OnItsWay
      BY <2>2, <2>4 DEF Listening, Gone, Page, FeedAccounted, OnItsWay
    <3> QED
      BY <1>0, <2>2, <3>1, AccountKept DEF Page
  <2> QED
    BY <2>1, <2>3, <2>4 DEF Offer
<1> QED
  BY <1>1, <1>2, <1>3, <1>4, <1>5 DEF Publish

LEMMA ConnPage ==
  ASSUME IInv, NEW h \in Conns, Subscribe(h) \/ Take(h) \/ Write(h) \/ Break(h) \/ Unsubscribe(h)
  PROVE  Page'
<1> TypeOK /\ Page /\ Mutex
  BY DEF IInv
<1>0. UNCHANGED <<log, ev, todo, opened, snapshot>>
  BY DEF Subscribe, Take, Write, Break, Unsubscribe
<1>1. CASE Subscribe(h)
  <2>1. UNCHANGED <<chan, held, up, items, missed>> /\ sub \subseteq sub'
    BY <1>1 DEF Subscribe
  <2>2. (Listening => Listening') /\ Gone' = Gone /\ IsInjective(items') /\ OnItsWay' = OnItsWay
    BY <1>0, <2>1 DEF Listening, Gone, Page, FeedAccounted, OnItsWay
  <2> QED
    BY <1>0, <2>2, AccountKept DEF Page
<1>2. CASE Take(h)
  <2>1. /\ chan' = [chan EXCEPT ![h] = Tail(@)] /\ held' = [held EXCEPT ![h] = Head(chan[h])]
        /\ hpc[h] = "loop" /\ chan[h] # <<>> /\ UNCHANGED <<sub, up, items, missed>>
    BY <1>2 DEF Take
  <2>2. (Listening => Listening') /\ Gone' = Gone /\ IsInjective(items')
    BY <1>0, <2>1 DEF Listening, Gone, Page, FeedAccounted
  <2>3. ASSUME Listening, NEW e \in OnItsWay PROVE e = None \/ e \in OnItsWay'
    <3>1. opened \in Conns
      BY <2>3, ListeningConn
    <3>2. CASE opened # h
      <4>1. chan'[opened] = chan[opened] /\ held'[opened] = held[opened]
        BY <2>1, <3>1, <3>2 DEF TypeOK
      <4> QED
        BY <1>0, <2>3, <4>1 DEF OnItsWay
    <3>3. CASE opened = h
      <4>1. held[h] = None /\ held'[h] = Head(chan[h]) /\ chan'[h] = Tail(chan[h])
        BY <2>1 DEF Mutex, TypeOK
      <4>2. ToSet(chan[h]) = {Head(chan[h])} \cup ToSet(Tail(chan[h]))
        BY <2>1, TailSeq DEF TypeOK
      <4> QED
        BY <1>0, <2>3, <3>3, <4>1, <4>2 DEF OnItsWay
    <3> QED
      BY <3>2, <3>3
  <2> QED
    BY <1>0, <2>2, <2>3, AccountKept DEF Page
<1>3. CASE Write(h)
  <2>1. held' = [held EXCEPT ![h] = None] /\ UNCHANGED <<sub, chan, up>>
    BY <1>3 DEF Write
  <2>2. Listening' <=> Listening
    BY <1>0, <2>1 DEF Listening
  <2>3. held[h] \in Known
    BY <1>3 DEF Write, Mutex, TypeOK, Known
  <2>4. Gone \subseteq Gone' /\ IsInjective(items') /\ (h \in up => held[h] \in Gone')
    <3>1. CASE h \in up
      <4>1. items' = WithItem(items, held[h]) /\ missed' = missed \cup (ToSet(items) \ ToSet(items'))
        BY <1>3, <3>1 DEF Write
      <4>2. IsInjective(items)
        BY DEF Page, FeedAccounted
      <4>3. held[h] \in ToSet(items') /\ IsInjective(items')
        BY <2>3, <4>1, <4>2, WithItemSeq DEF TypeOK, Known
      <4> QED
        BY <4>1, <4>3 DEF Gone
    <3>2. CASE h \notin up
      BY <1>3, <3>2 DEF Write, Gone, Page, FeedAccounted
    <3> QED
      BY <3>1, <3>2
  <2>5. ASSUME Listening, NEW e \in OnItsWay PROVE e \in Gone' \/ e \in OnItsWay'
    <3>1. opened \in Conns /\ opened \in up
      BY <2>5, ListeningConn
    <3>2. CASE opened # h
      <4>1. held'[opened] = held[opened]
        BY <2>1, <3>1, <3>2 DEF TypeOK
      <4> QED
        BY <1>0, <2>1, <2>5, <4>1 DEF OnItsWay
    <3>3. CASE opened = h
      BY <1>0, <2>1, <2>4, <2>5, <3>1, <3>3 DEF OnItsWay
    <3> QED
      BY <3>2, <3>3
  <2> QED
    BY <1>0, <2>2, <2>4, <2>5, AccountKept DEF Page
<1>4. CASE Break(h)
  <2>1. /\ missed' = missed \cup ToSet(chan[h]) \cup ({held[h]} \ {None}) \cup Promised(h)
        /\ up' = up \ {h} /\ UNCHANGED <<sub, chan, held, items>>
    BY <1>4 DEF Break, Promised
  <2>2. Gone \subseteq Gone' /\ IsInjective(items')
    BY <2>1 DEF Gone, Page, FeedAccounted
  <2>3. ASSUME Listening, NEW e \in OnItsWay
        PROVE  e = None \/ e \in Gone' \/ (Listening' /\ e \in OnItsWay')
    <3>1. CASE opened = h
      BY <2>1, <2>3, <3>1 DEF OnItsWay, Promised, Gone
    <3>2. CASE opened # h
      BY <1>0, <2>1, <2>3, <3>2 DEF OnItsWay, Listening
    <3> QED
      BY <3>1, <3>2
  <2> QED
    BY <1>0, <2>2, <2>3, AccountKept DEF Page
<1>5. CASE Unsubscribe(h)
  <2>1. /\ h \notin up /\ sub' = sub \ {h} /\ chan' = [chan EXCEPT ![h] = <<>>]
        /\ UNCHANGED <<held, up, items, missed>>
    BY <1>5 DEF Unsubscribe
  <2>2. Gone' = Gone /\ IsInjective(items')
    BY <2>1 DEF Gone, Page, FeedAccounted
  <2>3. ASSUME Listening, NEW e \in OnItsWay PROVE Listening' /\ e \in OnItsWay'
    <3>1. opened \in Conns /\ opened # h /\ opened \in sub
      BY <2>1, <2>3, ListeningConn
    <3>2. chan'[opened] = chan[opened] /\ Listening'
      BY <1>0, <2>1, <2>3, <3>1 DEF TypeOK, Listening
    <3> QED
      BY <1>0, <2>1, <2>3, <3>2 DEF OnItsWay
  <2> QED
    BY <1>0, <2>2, <2>3, AccountKept DEF Page
<1> QED
  BY <1>1, <1>2, <1>3, <1>4, <1>5

LEMMA ViewPage ==
  ASSUME IInv, Connect \/ Serve \/ Fill \/ FetchFails
  PROVE  Page'
<1> TypeOK /\ Page
  BY DEF IInv
<1>1. CASE Connect
  <2>1. UNCHANGED <<log, items, missed, snapshot>> /\ ~Listening
    BY <1>1 DEF Connect, Listening
  <2>2. Gone' = Gone /\ IsInjective(items')
    BY <2>1 DEF Gone, Page, FeedAccounted
  <2> QED
    BY <2>1, <2>2, AccountKept DEF Page
<1>2. CASE Serve \/ Fill \/ FetchFails
  <2>1. UNCHANGED <<log, ev, todo, sub, chan, held, up, opened>>
    BY <1>2 DEF Serve, Fill, FetchFails
  <2>2. (Listening' <=> Listening) /\ OnItsWay' = OnItsWay
    BY <2>1 DEF Listening, OnItsWay
  <2>3. CASE Serve
    <3>1. items' = items /\ IsInjective(snapshot') /\ missed \subseteq missed'
      BY <2>3, Served DEF Serve
    <3>2. Gone \subseteq Gone' /\ IsInjective(items')
      BY <3>1 DEF Gone, Page, FeedAccounted
    <3> QED
      BY <2>1, <2>2, <3>1, <3>2, AccountKept DEF Page
  <2>4. CASE Fill
    <3>1. items' = snapshot /\ missed' = missed \cup (ToSet(items) \ ToSet(snapshot)) /\ snapshot' = snapshot
      BY <2>4 DEF Fill
    <3>2. Gone \subseteq Gone' /\ IsInjective(items')
      BY <3>1 DEF Gone, Page
    <3> QED
      BY <2>1, <2>2, <3>1, <3>2, AccountKept DEF Page
  <2>5. CASE FetchFails
    <3>1. UNCHANGED <<items, missed, snapshot>>
      BY <2>5 DEF FetchFails
    <3>2. Gone' = Gone /\ IsInjective(items')
      BY <3>1 DEF Gone, Page, FeedAccounted
    <3> QED
      BY <2>1, <2>2, <3>1, <3>2, AccountKept DEF Page
  <2> QED
    BY <1>2, <2>3, <2>4, <2>5
<1> QED
  BY <1>1, <1>2

-----------------------------------------------------------------------------
(* The theorems about LiveFeed *)

LEMMA InitIInv == Init => IInv
<1> SUFFICES ASSUME Init PROVE IInv
  OBVIOUS
<1>1. <<>> \in Seq(1..MaxEvents) /\ Len(<<>>) = 0 /\ ToSet(<<>>) = {} /\ IsInjective(<<>>)
  BY EmptySeq DEF ToSet, IsInjective
<1>2. Present \in 0..MaxEvents /\ 0 \in 0..MaxConns
  BY LiveFeedAssumption
<1>3. TypeOK
  BY <1>1, <1>2 DEF Init, TypeOK
<1>4. Mutex
  BY LiveFeedAssumption DEF Init, Mutex, Publishing, Conns
<1>5. Once
  BY <1>1, LiveFeedAssumption DEF Init, Once
<1>6. Channels
  BY DEF Init, Channels
<1>7. Page
  BY <1>1 DEF Init, Page, FeedAccounted
<1> QED
  BY <1>3, <1>4, <1>5, <1>6, <1>7 DEF IInv

LEMMA NextIInv == IInv /\ [Next]_vars => IInv'
<1> SUFFICES ASSUME IInv, [Next]_vars PROVE IInv'
  OBVIOUS
<1>1. ASSUME NEW p \in Publishers, Store(p) \/ Publish(p) PROVE IInv'
  <2>1. Once'
    BY <1>1, StoreOnce, LockOnce, RestOnce DEF Publish
  <2> QED
    BY <1>1, <2>1, PublishTypes, PublishMutex, PublishChannels, PublishPage DEF IInv
<1>2. ASSUME NEW h \in Conns, Subscribe(h) \/ Take(h) \/ Write(h) \/ Break(h) \/ Unsubscribe(h)
      PROVE  IInv'
  <2>1. UNCHANGED <<stored, log, mu, ppc, ev>>
    BY <1>2 DEF Subscribe, Take, Write, Break, Unsubscribe
  <2>2. Once'
    BY <2>1 DEF IInv, Once
  <2> QED
    BY <1>2, <2>2, ConnTypes, ConnMutex, ConnChannels, ConnPage DEF IInv
<1>3. CASE Connect \/ Serve \/ Fill \/ FetchFails
  <2>1. UNCHANGED <<stored, log, mu, ppc, ev, todo, at, chan, pos, sub>>
    BY <1>3 DEF Connect, Serve, Fill, FetchFails
  <2>2. Once'
    BY <2>1 DEF IInv, Once
  <2>3. \A g \in sub : Suffix(g)'
    BY <2>1, SuffixKept DEF IInv, Channels
  <2>4. Channels'
    BY <2>1, <2>3 DEF IInv, Channels
  <2> QED
    BY <1>3, <2>2, <2>4, PageTypes, PageMutex, ViewPage DEF IInv
<1>4. CASE UNCHANGED vars
  <2>1. UNCHANGED <<stored, log, mu, ppc, ev, todo, at, sub, chan, hpc, held, pos, up, opened,
                    fetch, snapshot, items, missed>>
    BY <1>4 DEF vars
  <2>2. TypeOK' /\ Mutex' /\ Once'
    BY <2>1 DEF IInv, TypeOK, Mutex, Publishing, Once
  <2>3. Channels'
    BY <2>1, SuffixKept DEF IInv, Channels
  <2>4. Page'
    BY <2>1 DEF IInv, Page, FeedAccounted, Listening, OnItsWay
  <2> QED
    BY <2>2, <2>3, <2>4 DEF IInv
<1> QED
  BY <1>1, <1>2, <1>3, <1>4 DEF Next

(* In every reachable state the broker, the connections and the page have their
   types. *)
THEOREM TypeCorrect == Spec => []TypeOK
<1>1. IInv => TypeOK
  BY DEF IInv
<1> QED
  BY <1>1, InitIInv, NextIInv, PTL DEF Spec

(* However viewers come and leave, a channel Publish has still to serve is
   registered and open. *)
THEOREM NeverSendsOnClosed == Spec => []NoSendOnClosed
<1>1. IInv => NoSendOnClosed
  BY DEF IInv, Mutex, TypeOK, NoSendOnClosed
<1> QED
  BY <1>1, InitIInv, NextIInv, PTL DEF Spec

(* Whatever the handlers take between the selects of Publish, once it has
   returned every registered channel holds the end of the log, in order, with at
   most Cap entries, and an empty one has been read to the end. *)
THEOREM SlowViewersSeeNewest == Spec => []KeepsNewest
<1>1. IInv => KeepsNewest
  <2> SUFFICES ASSUME IInv, mu = None, NEW h \in sub
               PROVE  /\ Len(chan[h]) <= Cap
                      /\ chan[h] = SubSeq(log, Len(log) - Len(chan[h]) + 1, Len(log))
                      /\ pos[h] <= Len(log) - Len(chan[h])
                      /\ chan[h] = <<>> => pos[h] = Len(log)
    BY DEF KeepsNewest
  <2>1. Top(h) = Len(log) /\ ~Between(h)
    BY Unlocked DEF Top, Between, Publishing
  <2>2. /\ Len(chan[h]) <= Cap /\ Len(chan[h]) <= Len(log)
        /\ \A i \in 1..Len(chan[h]) : chan[h][i] = log[Len(log) - Len(chan[h]) + i]
        /\ pos[h] <= Len(log) - Len(chan[h])
        /\ Len(chan[h]) = 0 => pos[h] = Len(log)
    BY <2>1 DEF IInv, Channels, Suffix
  <2>3. chan[h] \in Seq(Known) /\ log \in Seq(Known)
    BY DEF IInv, TypeOK, Known
  <2>4. Len(chan[h]) \in Nat /\ Len(log) \in Nat
    BY <2>3, LenProperties
  <2>5. PICK k \in Nat, m \in Nat : k = Len(chan[h]) /\ m = Len(log)
    BY <2>4
  <2>6. k <= m /\ k <= Cap /\ pos[h] <= m - k /\ (k = 0 => pos[h] = m)
    BY <2>2, <2>5
  <2>7. \A i \in 1..k : chan[h][i] = log[m - k + i]
    BY <2>2, <2>5
  <2>8. m - k \in Nat
    BY <2>6
  <2>9. chan[h] = SubSeq(log, m - k + 1, m)
    <3>1. PICK c \in Seq(Known), s \in Seq(Known), d \in Nat :
              c = chan[h] /\ s = log /\ d = m - k
      BY <2>3, <2>8
    <3>2. k = Len(c) /\ m = Len(s)
      BY <2>5, <3>1
    <3>3. \A i \in 1..Len(c) : c[i] = s[d + i]
      BY <2>7, <3>1, <3>2
    <3>4. d = Len(s) - Len(c)
      BY <3>1, <3>2
    <3>5. c = SubSeq(s, d + 1, Len(s))
      BY <3>3, <3>4, EndOfSeq
    <3> QED
      BY <3>1, <3>2, <3>5
  <2>10. chan[h] = <<>> => k = 0
    BY <2>5
  <2> QED
    BY <2>5, <2>6, <2>9, <2>10
<1> QED
  BY <1>1, InitIInv, NextIInv, PTL DEF Spec

(* Every published event is in the feed, once, or on its way there, or was given
   up at one of the places the design has for that. *)
THEOREM EveryEventAccounted == Spec => []FeedAccounted
<1>1. IInv => FeedAccounted
  BY DEF IInv, Page
<1> QED
  BY <1>1, InitIInv, NextIInv, PTL DEF Spec
=============================================================================
