------------------------------ MODULE SpoolProofs ------------------------------
(***************************************************************************)
(* Proofs about Spool, for any number of sessions and records: the         *)
(* wake-up protocol, durability, that it implements DurableQueue, and that *)
(* the account of the bytes on disk is right.                              *)
(***************************************************************************)
EXTENDS Spool, FiniteSetTheorems, TLAPS

(* Types, without the account. *)
Shape ==
    /\ rec \subseteq Records /\ tmp \subseteq Records
    /\ up \in BOOLEAN /\ wake \in BOOLEAN
    /\ lock \in Producers \cup {None}
    /\ \A p \in Producers : lock = p <=> pc[p] # "idle"
    /\ pc \in [Producers -> {"idle", "checked", "written", "renamed"}]
    /\ arg \in [Producers -> Records \cup {None}]
    /\ client \in {"list", "beat", "wait", "send"}
    /\ tried \subseteq Records /\ stored \subseteq tried /\ acked \subseteq tried

(* What the steps of a Put know of the record in hand. *)
InHand ==
    \A p \in Producers :
        /\ pc[p] # "idle" => arg[p] \in tried
        /\ pc[p] \in {"checked", "written"} => arg[p] \notin rec \cup acked \cup stored
        /\ pc[p] = "renamed" => arg[p] \in rec

(* A batch holds records that are on disk or acknowledged since, and no
   acknowledged record is on disk. *)
Listed == batch \subseteq rec \cup acked /\ rec \subseteq tried /\ rec \cap acked = {}

(* From the empty List on, before the loop sleeps, no wake-up is lost. *)
Watchful ==
    (up /\ client \in {"beat", "wait"} /\ rec # {})
        => wake \/ \E p \in Producers : pc[p] = "renamed"

(* A process that is down holds nothing. *)
DownIdle == ~up => client = "list" /\ \A p \in Producers : pc[p] = "idle"

IInv == Shape /\ InHand /\ Listed /\ Watchful /\ DownIdle /\ Kept
-------------------------------------------------------------------------------
LEMMA InitIInv == Init => IInv
<1> SUFFICES ASSUME Init PROVE IInv
  OBVIOUS
<1> USE SpoolAssumption DEF Init
<1>1. Shape
  BY DEF Shape
<1>2. InHand /\ Listed /\ Watchful /\ DownIdle /\ Kept
  BY DEF InHand, Listed, Watchful, DownIdle, Kept
<1> QED
  BY <1>1, <1>2 DEF IInv

(* A step of Next, split into its actions. *)
LEMMA Actions ==
  ASSUME Next
  PROVE  \/ \E p \in Producers, r \in Records : PutBegin(p, r) \/ PutFull(p, r)
         \/ \E p \in Producers : PutWrite(p) \/ PutRename(p) \/ PutDone(p) \/ PutError(p)
         \/ \E r \in Records : Ack(r)
         \/ List \/ Heartbeat \/ Woken \/ Tick \/ StreamError \/ Crash \/ Open
BY DEF Next, PutStep, ClientStep

(* Types; an acknowledged record was emitted, because the batch was on disk. *)
LEMMA ShapeStep ==
  ASSUME IInv, [Next]_vars
  PROVE  Shape'
<1> USE SpoolAssumption DEF IInv, Shape, InHand, Listed, files, loop
<1>1. ASSUME NEW p \in Producers, NEW r \in Records, PutBegin(p, r) PROVE Shape'
  BY <1>1 DEF PutBegin
<1>2. ASSUME NEW p \in Producers, NEW r \in Records, PutFull(p, r) PROVE Shape'
  BY <1>2 DEF PutFull
<1>3. ASSUME NEW p \in Producers, PutWrite(p) PROVE Shape'
  BY <1>3 DEF PutWrite
<1>4. ASSUME NEW p \in Producers, PutRename(p) PROVE Shape'
  BY <1>4 DEF PutRename
<1>5. ASSUME NEW p \in Producers, PutDone(p) PROVE Shape'
  BY <1>5 DEF PutDone, Return
<1>6. ASSUME NEW p \in Producers, PutError(p) PROVE Shape'
  BY <1>6 DEF PutError, Return
<1>7. ASSUME NEW r \in Records, Ack(r) PROVE Shape'
  BY <1>7 DEF Ack
<1>8. CASE List
  BY <1>8 DEF List
<1>9. CASE Heartbeat \/ Woken \/ Tick \/ StreamError
  BY <1>9 DEF Heartbeat, Woken, Tick, StreamError
<1>10. CASE Crash
  BY <1>10 DEF Crash
<1>11. CASE Open
  BY <1>11 DEF Open
<1>12. CASE UNCHANGED vars
  BY <1>12 DEF vars
<1> QED
  BY <1>1, <1>2, <1>3, <1>4, <1>5, <1>6, <1>7, <1>8, <1>9, <1>10, <1>11, <1>12, Actions

(* The mutex keeps the record of a Put out of reach of List and Ack. *)
LEMMA InHandStep ==
  ASSUME IInv, [Next]_vars
  PROVE  InHand'
<1> USE SpoolAssumption DEF IInv, Shape, InHand, Listed, files, loop
<1>1. ASSUME NEW p \in Producers, NEW r \in Records, PutBegin(p, r) PROVE InHand'
  BY <1>1 DEF PutBegin
<1>2. ASSUME NEW p \in Producers, NEW r \in Records, PutFull(p, r) PROVE InHand'
  BY <1>2 DEF PutFull
<1>3. ASSUME NEW p \in Producers, PutWrite(p) PROVE InHand'
  BY <1>3 DEF PutWrite
<1>4. ASSUME NEW p \in Producers, PutRename(p) PROVE InHand'
  BY <1>4 DEF PutRename
<1>5. ASSUME NEW p \in Producers, PutDone(p) PROVE InHand'
  BY <1>5 DEF PutDone, Return
<1>6. ASSUME NEW p \in Producers, PutError(p) PROVE InHand'
  BY <1>6 DEF PutError, Return
<1>7. ASSUME NEW r \in Records, Ack(r) PROVE InHand'
  BY <1>7 DEF Ack
<1>8. CASE List
  BY <1>8 DEF List
<1>9. CASE Heartbeat \/ Woken \/ Tick \/ StreamError
  BY <1>9 DEF Heartbeat, Woken, Tick, StreamError
<1>10. CASE Crash
  BY <1>10 DEF Crash
<1>11. CASE Open
  BY <1>11 DEF Open
<1>12. CASE UNCHANGED vars
  BY <1>12 DEF vars
<1> QED
  BY <1>1, <1>2, <1>3, <1>4, <1>5, <1>6, <1>7, <1>8, <1>9, <1>10, <1>11, <1>12, Actions

(* A record leaves the disk through Ack only, and does not come back. *)
LEMMA ListedStep ==
  ASSUME IInv, [Next]_vars
  PROVE  Listed'
<1> USE SpoolAssumption DEF IInv, Shape, InHand, Listed, files, loop
<1>1. ASSUME NEW p \in Producers, NEW r \in Records, PutBegin(p, r) PROVE Listed'
  BY <1>1 DEF PutBegin
<1>2. ASSUME NEW p \in Producers, NEW r \in Records, PutFull(p, r) PROVE Listed'
  BY <1>2 DEF PutFull
<1>3. ASSUME NEW p \in Producers, PutWrite(p) PROVE Listed'
  BY <1>3 DEF PutWrite
<1>4. ASSUME NEW p \in Producers, PutRename(p) PROVE Listed'
  BY <1>4 DEF PutRename
<1>5. ASSUME NEW p \in Producers, PutDone(p) PROVE Listed'
  BY <1>5 DEF PutDone, Return
<1>6. ASSUME NEW p \in Producers, PutError(p) PROVE Listed'
  BY <1>6 DEF PutError, Return
<1>7. ASSUME NEW r \in Records, Ack(r) PROVE Listed'
  BY <1>7 DEF Ack
<1>8. CASE List
  BY <1>8 DEF List
<1>9. CASE Heartbeat \/ Woken \/ Tick \/ StreamError
  BY <1>9 DEF Heartbeat, Woken, Tick, StreamError
<1>10. CASE Crash
  BY <1>10 DEF Crash
<1>11. CASE Open
  BY <1>11 DEF Open
<1>12. CASE UNCHANGED vars
  BY <1>12 DEF vars
<1> QED
  BY <1>1, <1>2, <1>3, <1>4, <1>5, <1>6, <1>7, <1>8, <1>9, <1>10, <1>11, <1>12, Actions

(* A rename is followed by a token before the mutex is free again. *)
LEMMA WatchfulStep ==
  ASSUME IInv, [Next]_vars
  PROVE  Watchful'
<1> USE SpoolAssumption DEF IInv, Shape, Watchful, DownIdle, files, loop
<1>1. ASSUME NEW p \in Producers, NEW r \in Records, PutBegin(p, r) PROVE Watchful'
  BY <1>1 DEF PutBegin
<1>2. ASSUME NEW p \in Producers, NEW r \in Records, PutFull(p, r) PROVE Watchful'
  BY <1>2 DEF PutFull
<1>3. ASSUME NEW p \in Producers, PutWrite(p) PROVE Watchful'
  BY <1>3 DEF PutWrite
<1>4. ASSUME NEW p \in Producers, PutRename(p) PROVE Watchful'
  BY <1>4 DEF PutRename
<1>5. ASSUME NEW p \in Producers, PutDone(p) PROVE Watchful'
  BY <1>5 DEF PutDone, Return
<1>6. ASSUME NEW p \in Producers, PutError(p) PROVE Watchful'
  BY <1>6 DEF PutError, Return
<1>7. ASSUME NEW r \in Records, Ack(r) PROVE Watchful'
  BY <1>7 DEF Ack
<1>8. CASE List
  BY <1>8 DEF List
<1>9. CASE Heartbeat \/ Woken \/ Tick \/ StreamError
  BY <1>9 DEF Heartbeat, Woken, Tick, StreamError
<1>10. CASE Crash
  BY <1>10 DEF Crash
<1>11. CASE Open
  BY <1>11 DEF Open
<1>12. CASE UNCHANGED vars
  BY <1>12 DEF vars
<1> QED
  BY <1>1, <1>2, <1>3, <1>4, <1>5, <1>6, <1>7, <1>8, <1>9, <1>10, <1>11, <1>12, Actions

(* A crash ends every Put. *)
LEMMA DownIdleStep ==
  ASSUME IInv, [Next]_vars
  PROVE  DownIdle'
<1> USE SpoolAssumption DEF IInv, Shape, DownIdle, files, loop
<1>1. ASSUME NEW p \in Producers, NEW r \in Records, PutBegin(p, r) PROVE DownIdle'
  BY <1>1 DEF PutBegin
<1>2. ASSUME NEW p \in Producers, NEW r \in Records, PutFull(p, r) PROVE DownIdle'
  BY <1>2 DEF PutFull
<1>3. ASSUME NEW p \in Producers, PutWrite(p) PROVE DownIdle'
  BY <1>3 DEF PutWrite
<1>4. ASSUME NEW p \in Producers, PutRename(p) PROVE DownIdle'
  BY <1>4 DEF PutRename
<1>5. ASSUME NEW p \in Producers, PutDone(p) PROVE DownIdle'
  BY <1>5 DEF PutDone, Return
<1>6. ASSUME NEW p \in Producers, PutError(p) PROVE DownIdle'
  BY <1>6 DEF PutError, Return
<1>7. ASSUME NEW r \in Records, Ack(r) PROVE DownIdle'
  BY <1>7 DEF Ack
<1>8. CASE List
  BY <1>8 DEF List
<1>9. CASE Heartbeat \/ Woken \/ Tick \/ StreamError
  BY <1>9 DEF Heartbeat, Woken, Tick, StreamError
<1>10. CASE Crash
  BY <1>10 DEF Crash
<1>11. CASE Open
  BY <1>11 DEF Open
<1>12. CASE UNCHANGED vars
  BY <1>12 DEF vars
<1> QED
  BY <1>1, <1>2, <1>3, <1>4, <1>5, <1>6, <1>7, <1>8, <1>9, <1>10, <1>11, <1>12, Actions

(* Put returns nil after the rename only. *)
LEMMA KeptStep ==
  ASSUME IInv, [Next]_vars
  PROVE  Kept'
<1> USE SpoolAssumption DEF IInv, Shape, InHand, Listed, Kept, files, loop
<1>1. ASSUME NEW p \in Producers, NEW r \in Records, PutBegin(p, r) PROVE Kept'
  BY <1>1 DEF PutBegin
<1>2. ASSUME NEW p \in Producers, NEW r \in Records, PutFull(p, r) PROVE Kept'
  BY <1>2 DEF PutFull
<1>3. ASSUME NEW p \in Producers, PutWrite(p) PROVE Kept'
  BY <1>3 DEF PutWrite
<1>4. ASSUME NEW p \in Producers, PutRename(p) PROVE Kept'
  BY <1>4 DEF PutRename
<1>5. ASSUME NEW p \in Producers, PutDone(p) PROVE Kept'
  BY <1>5 DEF PutDone, Return
<1>6. ASSUME NEW p \in Producers, PutError(p) PROVE Kept'
  BY <1>6 DEF PutError, Return
<1>7. ASSUME NEW r \in Records, Ack(r) PROVE Kept'
  BY <1>7 DEF Ack
<1>8. CASE List
  BY <1>8 DEF List
<1>9. CASE Heartbeat \/ Woken \/ Tick \/ StreamError
  BY <1>9 DEF Heartbeat, Woken, Tick, StreamError
<1>10. CASE Crash
  BY <1>10 DEF Crash
<1>11. CASE Open
  BY <1>11 DEF Open
<1>12. CASE UNCHANGED vars
  BY <1>12 DEF vars
<1> QED
  BY <1>1, <1>2, <1>3, <1>4, <1>5, <1>6, <1>7, <1>8, <1>9, <1>10, <1>11, <1>12, Actions

LEMMA Invariance == Spec => []IInv
<1>1. IInv /\ [Next]_vars => IInv'
  BY ShapeStep, InHandStep, ListedStep, WatchfulStep, DownIdleStep, KeptStep DEF IInv
<1> QED
  BY <1>1, InitIInv, PTL DEF Spec
-------------------------------------------------------------------------------
(* The upload loop never sleeps on a non-empty spool without a token on its
   way, for any number of sessions and any crash (spool.go 97-104 against
   client.go 78-91). *)
THEOREM WakeUps == Spec => []NoLostWakeup
<1>1. IInv => NoLostWakeup
  BY DEF IInv, Watchful, NoLostWakeup
<1> QED
  BY <1>1, Invariance, PTL

(* A record whose Put returned nil is on disk until it is acknowledged
   (spool.go 80-106, 145-164). *)
THEOREM Durability == Spec => []Kept
  BY Invariance, PTL DEF IInv

(* The steps of Put, List and Ack, with crashes between them, implement a queue
   that a record enters once and indivisibly and leaves by Ack only. *)
THEOREM Refinement == Spec => ImplementsQueue
<1> DEFINE where == [r \in Records |-> IF r \in rec THEN "queued"
                                      ELSE IF r \in acked THEN "taken" ELSE "new"]
<1>1. Init => Queue!Init
  BY DEF Init, Queue!Init
<1>2. IInv /\ [Next]_vars => [Queue!Next]_(Queue!vars)
  <2> SUFFICES ASSUME IInv, [Next]_vars PROVE [Queue!Next]_(Queue!vars)
    OBVIOUS
  <2> USE DEF IInv, Shape
  <2>1. ASSUME NEW p \in Producers, PutRename(p) PROVE Queue!Next
    <3>1. PICK r \in Records : r = arg[p]
      BY <2>1, SpoolAssumption DEF PutRename, InHand
    <3>2. where[r] = "new" /\ where' = [where EXCEPT ![r] = "queued"]
      BY <2>1, <3>1 DEF PutRename, InHand
    <3> QED
      BY <2>1, <3>1, <3>2 DEF PutRename, Queue!Next, Queue!Enqueue
  <2>2. ASSUME NEW p \in Producers, PutDone(p) PROVE Queue!Next
    <3>1. PICK r \in Records : r = arg[p]
      BY <2>2 DEF PutDone, InHand
    <3>2. where[r] # "new" /\ where' = where /\ stored' = stored \cup {r}
      BY <2>2, <3>1 DEF PutDone, InHand, files
    <3> QED
      BY <3>1, <3>2 DEF Queue!Next, Queue!Confirm
  <2>3. ASSUME NEW r \in Records, Ack(r) PROVE [Queue!Next]_(Queue!vars)
    <3>1. CASE r \in rec
      <4>1. where[r] = "queued" /\ where' = [where EXCEPT ![r] = "taken"]
        BY <2>3, <3>1 DEF Ack
      <4> QED
        BY <2>3, <4>1 DEF Ack, Queue!Next, Queue!Take
    <3>2. CASE r \notin rec
      <4>1. rec' = rec /\ acked' = acked /\ stored' = stored
        BY <2>3, <3>2 DEF Ack, Listed
      <4> QED
        BY <4>1 DEF Queue!vars
    <3> QED
      BY <3>1, <3>2
  <2>4. CASE UNCHANGED <<rec, acked, stored>>
    BY <2>4 DEF Queue!vars
  <2>5. \/ \E p \in Producers : PutRename(p) \/ PutDone(p)
        \/ \E r \in Records : Ack(r)
        \/ UNCHANGED <<rec, acked, stored>>
    BY Actions DEF vars, files, loop, PutBegin, PutFull, PutWrite, PutError, List, Heartbeat,
       Woken, Tick, StreamError, Crash, Open
  <2> QED
    BY <2>1, <2>2, <2>3, <2>4, <2>5
<1> QED
  BY <1>1, <1>2, Invariance, PTL DEF Spec, ImplementsQueue, Queue!Spec
-------------------------------------------------------------------------------
(* The sum of the file sizes.  Bytes is a fold: a function on the subsets of its
   argument, each of which gives up one element at a time. *)

pick(s) == CHOOSE x \in s : TRUE
Body(f, s) == IF s = {} THEN 0 ELSE Size[pick(s)] + f[s \ {pick(s)}]
Fold(T) == CHOOSE f : f = [s \in SUBSET T |-> Body(f, s)]

LEMMA BytesFold == ASSUME NEW S PROVE Bytes(S) = Fold(S)[S]
BY DEF Bytes, MapThenSumSet, MapThenFoldSet, Fold, Body, pick

(* Induction, for a set of numbers. *)
LEMMA Induction ==
  ASSUME NEW S \in SUBSET Nat, 0 \in S, \A n \in S : n + 1 \in S
  PROVE  \A n \in Nat : n \in S
<1> DEFINE R == OpToRel(<, Nat)
           B == Nat \ S
<1>1. IsWellFoundedOn(R, Nat)
  BY NatLessThanWellFounded, Zenon
<1>2. \A x, y \in Nat : y < x => <<y, x>> \in R
  BY DEF OpToRel
<1> HIDE DEF R
<1>3. B \subseteq Nat
  OBVIOUS
<1>4. SUFFICES ASSUME B # {} PROVE FALSE
  OBVIOUS
<1> HIDE DEF B
<1>5. PICK m \in B : \A y \in B : ~ (<<y, m>> \in R)
  BY <1>1, <1>3, <1>4, WFMin
<1>6. m \in Nat /\ m # 0 /\ m \notin S
  BY <1>5 DEF B
<1>7. m - 1 \in Nat /\ m - 1 < m
  BY <1>6
<1>8. m - 1 \notin B
  BY <1>2, <1>5, <1>6, <1>7
<1>9. (m - 1) + 1 \in S
  BY <1>7, <1>8 DEF B
<1> QED
  BY <1>6, <1>9

LEMMA Picked ==
  ASSUME NEW s, s # {}, IsFiniteSet(s)
  PROVE  /\ pick(s) \in s /\ IsFiniteSet(s \ {pick(s)})
         /\ Cardinality(s) \in Nat /\ Cardinality(s \ {pick(s)}) = Cardinality(s) - 1
<1>1. pick(s) \in s
  BY DEF pick
<1> QED
  BY <1>1, FS_RemoveElement, FS_CardinalityType

(* There is such a function: from one for the sets of up to n elements one for
   up to n + 1 is made. *)
LEMMA FoldExists ==
  ASSUME NEW T, IsFiniteSet(T)
  PROVE  \E f : f = [s \in SUBSET T |-> Body(f, s)]
<1> DEFINE Small(n) == {s \in SUBSET T : Cardinality(s) <= n}
           Good == {n \in Nat : \E f : f = [s \in Small(n) |-> Body(f, s)]}
<1>1. \A s \in SUBSET T : IsFiniteSet(s) /\ Cardinality(s) \in Nat
  BY FS_Subset, FS_CardinalityType
<1>2. 0 \in Good
  <2> DEFINE f == [s \in Small(0) |-> 0]
  <2>1. \A s \in Small(0) : s = {}
    BY <1>1, FS_EmptySet
  <2>2. \A s \in Small(0) : Body(f, s) = 0
    BY <2>1 DEF Body
  <2>3. f = [s \in Small(0) |-> Body(f, s)]
    BY <2>2
  <2> QED
    BY <2>3
<1>3. ASSUME NEW n \in Good PROVE n + 1 \in Good
  <2>1. PICK f : f = [s \in Small(n) |-> Body(f, s)]
    BY <1>3
  <2> DEFINE g == [s \in Small(n + 1) |-> Body(f, s)]
  <2>2. ASSUME NEW s \in Small(n + 1) PROVE Body(g, s) = Body(f, s)
    <3>1. CASE s = {}
      BY <3>1 DEF Body
    <3>2. CASE s # {}
      <4> DEFINE t == s \ {pick(s)}
      <4>1. Cardinality(t) = Cardinality(s) - 1 /\ Cardinality(s) \in Nat
        BY <1>1, <3>2, Picked
      <4>2. t \in Small(n) /\ t \in Small(n + 1)
        BY <4>1
      <4>3. g[t] = Body(f, t) /\ f[t] = Body(f, t)
        BY <2>1, <4>2
      <4> QED
        BY <3>2, <4>3 DEF Body
    <3> QED
      BY <3>1, <3>2
  <2>3. g = [s \in Small(n + 1) |-> Body(g, s)]
    BY <2>2
  <2>4. \E h : h = [s \in Small(n + 1) |-> Body(h, s)]
    <3> HIDE DEF g
    <3> QED
      BY <2>3
  <2>5. n + 1 \in Nat
    BY <1>3
  <2> QED
    BY <2>4, <2>5
<1>4. Cardinality(T) \in Good
  <2>1. \A n \in Nat : n \in Good
    <3> HIDE DEF Good
    <3>1. Good \subseteq Nat
      BY DEF Good
    <3> QED
      BY <1>2, <1>3, <3>1, Induction
  <2> QED
    BY <2>1, FS_CardinalityType
<1>5. Small(Cardinality(T)) = SUBSET T
  BY FS_Subset
<1> QED
  BY <1>4, <1>5

LEMMA FoldValue ==
  ASSUME NEW T, IsFiniteSet(T), NEW s \in SUBSET T
  PROVE  /\ s = {} => Fold(T)[s] = 0
         /\ s # {} => Fold(T)[s] = Size[pick(s)] + Fold(T)[s \ {pick(s)}]
<1>1. Fold(T) = [t \in SUBSET T |-> Body(Fold(T), t)]
  BY FoldExists DEF Fold
<1>2. Fold(T)[s] = Body(Fold(T), s)
  BY <1>1
<1> QED
  BY <1>2 DEF Body

(* Sums are numbers, ... *)
LEMMA FoldNat ==
  ASSUME NEW T \in SUBSET Records, IsFiniteSet(T)
  PROVE  \A s \in SUBSET T : Fold(T)[s] \in Nat
<1> DEFINE Good == {n \in Nat : \A s \in SUBSET T : Cardinality(s) = n => Fold(T)[s] \in Nat}
<1>1. \A s \in SUBSET T : IsFiniteSet(s) /\ Cardinality(s) \in Nat
  BY FS_Subset, FS_CardinalityType
<1>2. 0 \in Good
  <2>1. ASSUME NEW s \in SUBSET T, Cardinality(s) = 0 PROVE Fold(T)[s] \in Nat
    <3>1. s = {}
      BY <1>1, <2>1, FS_EmptySet
    <3>2. Fold(T)[s] = 0
      BY <3>1, FoldValue
    <3> QED
      BY <3>2
  <2> QED
    BY <2>1
<1>3. ASSUME NEW n \in Good PROVE n + 1 \in Good
  <2>1. ASSUME NEW s \in SUBSET T, Cardinality(s) = n + 1 PROVE Fold(T)[s] \in Nat
    <3> DEFINE x == pick(s)
               t == s \ {x}
    <3>0. n \in Nat /\ n + 1 # 0
      BY <1>3
    <3>1. s # {}
      BY <2>1, <3>0, FS_EmptySet
    <3>2. x \in s /\ Cardinality(t) = n
      BY <1>1, <1>3, <2>1, <3>1, Picked
    <3>3. Fold(T)[t] \in Nat
      BY <1>3, <3>2
    <3>4. Fold(T)[s] = Size[x] + Fold(T)[t]
      BY <3>1, FoldValue
    <3>5. Size[x] \in Nat
      BY <3>2, SpoolAssumption
    <3> HIDE DEF x, t
    <3> QED
      BY <3>3, <3>4, <3>5
  <2>2. n + 1 \in Nat
    BY <1>3
  <2> QED
    BY <2>1, <2>2
<1>4. \A n \in Nat : n \in Good
  <2>1. Good \subseteq Nat
    OBVIOUS
  <2> HIDE DEF Good
  <2> QED
    BY <1>2, <1>3, <2>1, Induction
<1> QED
  BY <1>1, <1>4

(* ... any element can be taken out first, ... *)
LEMMA FoldRemove ==
  ASSUME NEW T \in SUBSET Records, IsFiniteSet(T)
  PROVE  \A s \in SUBSET T : \A r \in s : Fold(T)[s] = Size[r] + Fold(T)[s \ {r}]
<1> DEFINE Good == {n \in Nat : \A s \in SUBSET T : Cardinality(s) = n =>
                        \A r \in s : Fold(T)[s] = Size[r] + Fold(T)[s \ {r}]}
<1>1. \A s \in SUBSET T : IsFiniteSet(s) /\ Cardinality(s) \in Nat
  BY FS_Subset, FS_CardinalityType
<1>2. 0 \in Good
  BY <1>1, FS_EmptySet
<1>3. ASSUME NEW n \in Good PROVE n + 1 \in Good
  <2>1. ASSUME NEW s \in SUBSET T, Cardinality(s) = n + 1, NEW r \in s
        PROVE  Fold(T)[s] = Size[r] + Fold(T)[s \ {r}]
    <3>1. PICK x \in s : x = pick(s) /\ Fold(T)[s] = Size[x] + Fold(T)[s \ {x}]
      <4>1. s # {} /\ IsFiniteSet(s)
        BY <1>1
      <4>2. pick(s) \in s
        BY <4>1, Picked
      <4>3. Fold(T)[s] = Size[pick(s)] + Fold(T)[s \ {pick(s)}]
        BY <4>1, FoldValue
      <4> QED
        BY <4>2, <4>3
    <3>2. CASE r = x
      BY <3>1, <3>2
    <3>3. CASE r # x
      <4>1. Cardinality(s \ {x}) = n /\ Cardinality(s \ {r}) = n
        BY <1>1, <1>3, <2>1, <3>1, FS_RemoveElement
      <4>2. Fold(T)[s \ {x}] = Size[r] + Fold(T)[(s \ {x}) \ {r}]
        BY <1>3, <3>3, <4>1
      <4>3. Fold(T)[s \ {r}] = Size[x] + Fold(T)[(s \ {r}) \ {x}]
        BY <1>3, <3>3, <4>1
      <4>4. PICK u \in SUBSET T : u = (s \ {x}) \ {r} /\ u = (s \ {r}) \ {x}
        OBVIOUS
      <4>5. PICK a \in Nat : a = Fold(T)[u]
        BY FoldNat
      <4>6. PICK b \in Nat, c \in Nat : b = Size[x] /\ c = Size[r]
        BY SpoolAssumption
      <4>7. Fold(T)[s \ {x}] = c + a /\ Fold(T)[s \ {r}] = b + a
        BY <4>2, <4>3, <4>4, <4>5, <4>6
      <4>8. Fold(T)[s] = b + (c + a)
        BY <3>1, <4>6, <4>7
      <4>9. b + (c + a) = c + (b + a)
        OBVIOUS
      <4> QED
        BY <4>6, <4>7, <4>8, <4>9
    <3> QED
      BY <3>2, <3>3
  <2>2. n + 1 \in Nat
    BY <1>3
  <2> QED
    BY <2>1, <2>2
<1>4. \A n \in Nat : n \in Good
  <2>1. Good \subseteq Nat
    OBVIOUS
  <2> HIDE DEF Good
  <2> QED
    BY <1>2, <1>3, <2>1, Induction
<1> QED
  BY <1>1, <1>4

(* ... and the sum over a part is the same in every whole. *)
LEMMA FoldPart ==
  ASSUME NEW T \in SUBSET Records, IsFiniteSet(T), NEW U \in SUBSET T
  PROVE  \A s \in SUBSET U : Fold(U)[s] = Fold(T)[s]
<1> DEFINE Good == {n \in Nat : \A s \in SUBSET U : Cardinality(s) = n => Fold(U)[s] = Fold(T)[s]}
<1>0. IsFiniteSet(U)
  BY FS_Subset
<1>1. \A s \in SUBSET U : IsFiniteSet(s) /\ Cardinality(s) \in Nat
  BY <1>0, FS_Subset, FS_CardinalityType
<1>2. 0 \in Good
  <2>1. ASSUME NEW s \in SUBSET U, Cardinality(s) = 0 PROVE Fold(U)[s] = Fold(T)[s]
    <3>1. s = {} /\ s \in SUBSET T
      BY <1>1, <2>1, FS_EmptySet
    <3>2. Fold(U)[s] = 0 /\ Fold(T)[s] = 0
      BY <1>0, <3>1, FoldValue
    <3> QED
      BY <3>2
  <2> QED
    BY <2>1
<1>3. ASSUME NEW n \in Good PROVE n + 1 \in Good
  <2>1. ASSUME NEW s \in SUBSET U, Cardinality(s) = n + 1 PROVE Fold(U)[s] = Fold(T)[s]
    <3> DEFINE x == pick(s)
               t == s \ {x}
    <3>1. s # {} /\ s \in SUBSET T
      BY <2>1, <1>3, FS_EmptySet
    <3>2. x \in s /\ Cardinality(t) = n
      BY <1>1, <1>3, <2>1, <3>1, Picked
    <3>3. Fold(U)[t] = Fold(T)[t]
      BY <1>3, <3>2
    <3>4. Fold(U)[s] = Size[x] + Fold(U)[t] /\ Fold(T)[s] = Size[x] + Fold(T)[t]
      BY <1>0, <3>1, FoldValue
    <3> QED
      BY <3>3, <3>4
  <2>2. n + 1 \in Nat
    BY <1>3
  <2> QED
    BY <2>1, <2>2
<1>4. \A n \in Nat : n \in Good
  <2>1. Good \subseteq Nat
    OBVIOUS
  <2> HIDE DEF Good
  <2> QED
    BY <1>2, <1>3, <2>1, Induction
<1> QED
  BY <1>1, <1>4

(* What the account needs of the sum of sizes. *)
LEMMA BytesEmpty == Bytes({}) = 0
<1>1. IsFiniteSet({})
  BY FS_EmptySet
<1> QED
  BY <1>1, BytesFold, FoldValue

LEMMA BytesType ==
  ASSUME NEW S \in SUBSET Records, IsFiniteSet(S)
  PROVE  Bytes(S) \in Nat
BY BytesFold, FoldNat

LEMMA BytesRemove ==
  ASSUME NEW S \in SUBSET Records, IsFiniteSet(S), NEW r \in S
  PROVE  Bytes(S) = Size[r] + Bytes(S \ {r})
<1>1. Bytes(S) = Size[r] + Fold(S)[S \ {r}]
  BY BytesFold, FoldRemove
<1>2. Bytes(S \ {r}) = Fold(S)[S \ {r}]
  <2>1. PICK U \in SUBSET S : U = S \ {r}
    OBVIOUS
  <2>2. Fold(U)[U] = Fold(S)[U]
    BY FoldPart
  <2> QED
    BY <2>1, <2>2, BytesFold
<1> QED
  BY <1>1, <1>2

LEMMA BytesAdd ==
  ASSUME NEW S \in SUBSET Records, IsFiniteSet(S), NEW r \in Records, r \notin S
  PROVE  Bytes(S \cup {r}) = Size[r] + Bytes(S)
<1>1. PICK U \in SUBSET Records : U = S \cup {r}
  OBVIOUS
<1>2. IsFiniteSet(U) /\ r \in U /\ U \ {r} = S
  BY <1>1, FS_AddElement
<1>3. Bytes(U) = Size[r] + Bytes(U \ {r})
  BY <1>2, BytesRemove
<1> QED
  BY <1>1, <1>2, <1>3

-------------------------------------------------------------------------------
(* The account: s.used is the size of the files, except that it is behind by the
   record in hand between the rename and the end of Put; and the check of a Put
   under way still holds, since it holds the mutex. *)
Account ==
    /\ IsFiniteSet(rec) /\ used \in Nat
    /\ Bytes(rec) <= MaxBytes
    /\ (up /\ \A p \in Producers : pc[p] # "renamed") => used = Bytes(rec)
    /\ \A p \in Producers :
         /\ pc[p] \in {"checked", "written"} => used + Size[arg[p]] <= MaxBytes
         /\ pc[p] = "renamed" => Bytes(rec) = used + Size[arg[p]]

LEMMA InitAccount == Init => Account
BY FS_EmptySet, BytesEmpty, SpoolAssumption DEF Init, Account

(* The producer at work holds the mutex, so the others are idle. *)
LEMMA OneAtWork ==
  ASSUME Shape, NEW p \in Producers, pc[p] # "idle"
  PROVE  \A q \in Producers \ {p} : pc[q] = "idle"
BY DEF Shape

LEMMA Idle ==
  ASSUME Shape, lock = None
  PROVE  \A q \in Producers : pc[q] = "idle"
BY SpoolAssumption DEF Shape

LEMMA AccountStep ==
  ASSUME IInv, Account, [Next]_vars
  PROVE  Account'
<1>0. /\ Shape /\ IsFiniteSet(rec) /\ rec \in SUBSET Records /\ used \in Nat
      /\ Bytes(rec) \in Nat /\ Bytes(rec) <= MaxBytes /\ MaxBytes \in Nat
      /\ Size \in [Records -> Nat] /\ pc \in [Producers -> {"idle", "checked", "written", "renamed"}]
      /\ arg \in [Producers -> Records \cup {None}]
  BY BytesType, SpoolAssumption DEF IInv, Shape, Account
<1>1. ASSUME NEW p \in Producers, NEW r \in Records, PutBegin(p, r) PROVE Account'
  <2>1. used = Bytes(rec) /\ \A q \in Producers : pc[q] = "idle"
    BY <1>0, <1>1, Idle DEF PutBegin, Account
  <2>2. UNCHANGED <<rec, used, up>> /\ pc'[p] = "checked" /\ arg'[p] = r
    BY <1>0, <1>1 DEF PutBegin, files
  <2>3. \A q \in Producers \ {p} : pc'[q] = "idle"
    BY <1>0, <1>1, <2>1 DEF PutBegin
  <2>4. used + Size[r] <= MaxBytes
    BY <1>1 DEF PutBegin, Fits
  <2> QED
    BY <1>0, <2>1, <2>2, <2>3, <2>4 DEF Account
<1>2. ASSUME NEW p \in Producers, PutWrite(p) PROVE Account'
  <2>1. /\ UNCHANGED <<rec, used, up, arg>> /\ pc[p] = "checked" /\ pc'[p] = "written"
        /\ \A q \in Producers \ {p} : pc'[q] = pc[q]
    BY <1>0, <1>2 DEF PutWrite
  <2> QED
    BY <1>0, <2>1 DEF Account
<1>3. ASSUME NEW p \in Producers, PutError(p) PROVE Account'
  <2>1. /\ UNCHANGED <<rec, used, up>> /\ pc[p] \in {"checked", "written"} /\ up
        /\ pc'[p] = "idle" /\ \A q \in Producers \ {p} : pc'[q] = pc[q]
    BY <1>0, <1>3 DEF PutError, Return
  <2>2. \A q \in Producers \ {p} : pc[q] = "idle"
    BY <1>0, <2>1, OneAtWork
  <2>3. used = Bytes(rec)
    BY <2>1, <2>2 DEF Account
  <2> QED
    BY <1>0, <2>1, <2>2, <2>3 DEF Account
<1>4. ASSUME NEW p \in Producers, PutRename(p) PROVE Account'
  <2>1. /\ UNCHANGED <<used, up, arg>> /\ pc[p] = "written" /\ pc'[p] = "renamed" /\ up
        /\ \A q \in Producers \ {p} : pc'[q] = pc[q]
        /\ rec' = rec \cup {arg[p]}
    BY <1>0, <1>4 DEF PutRename
  <2>2. PICK r \in Records : r = arg[p] /\ r \notin rec
    BY <2>1 DEF IInv, InHand, Shape
  <2>3. \A q \in Producers \ {p} : pc[q] = "idle"
    BY <1>0, <2>1, OneAtWork
  <2>4. used = Bytes(rec) /\ used + Size[r] <= MaxBytes
    BY <2>1, <2>2, <2>3 DEF Account
  <2>5. Bytes(rec') = Size[r] + Bytes(rec) /\ IsFiniteSet(rec')
    BY <1>0, <2>1, <2>2, BytesAdd, FS_AddElement
  <2>6. Bytes(rec') = used + Size[r]
    BY <1>0, <2>4, <2>5
  <2> QED
    BY <1>0, <2>1, <2>2, <2>3, <2>4, <2>5, <2>6 DEF Account
<1>5. ASSUME NEW p \in Producers, PutDone(p) PROVE Account'
  <2>1. /\ UNCHANGED <<rec, up>> /\ pc[p] = "renamed" /\ pc'[p] = "idle"
        /\ \A q \in Producers \ {p} : pc'[q] = pc[q]
        /\ used' = used + Size[arg[p]]
    BY <1>0, <1>5 DEF PutDone, Return, files
  <2>2. \A q \in Producers \ {p} : pc[q] = "idle"
    BY <1>0, <2>1, OneAtWork
  <2>3. used' = Bytes(rec)
    BY <2>1 DEF Account
  <2> QED
    BY <1>0, <2>1, <2>2, <2>3 DEF Account
<1>6. ASSUME NEW r \in Records, Ack(r) PROVE Account'
  <2>1. UNCHANGED <<up, pc, arg>> /\ up /\ lock = None /\ rec' = rec \ {r}
    BY <1>6 DEF Ack
  <2>2. used = Bytes(rec) /\ \A q \in Producers : pc[q] = "idle"
    BY <1>0, <2>1, Idle DEF Account
  <2>3. CASE r \in rec
    <3>1. used' = used - Size[r] /\ Size[r] \in Nat
      BY <1>0, <1>6, <2>3 DEF Ack
    <3>2. Bytes(rec) = Size[r] + Bytes(rec') /\ IsFiniteSet(rec') /\ rec' \in SUBSET Records
      BY <1>0, <2>1, <2>3, BytesRemove, FS_RemoveElement
    <3>3. Bytes(rec') \in Nat
      BY <3>2, BytesType
    <3>4. used' = Bytes(rec') /\ Bytes(rec') <= MaxBytes
      BY <1>0, <2>2, <3>1, <3>2, <3>3
    <3> QED
      BY <2>1, <2>2, <3>2, <3>3, <3>4 DEF Account
  <2>4. CASE r \notin rec
    <3>1. used' = used /\ rec' = rec
      BY <1>6, <2>1, <2>4 DEF Ack
    <3> QED
      BY <1>0, <2>1, <2>2, <3>1 DEF Account
  <2> QED
    BY <2>3, <2>4
<1>7. CASE Crash
  BY <1>0, <1>7 DEF Crash, files, Account
<1>8. CASE Open
  <2>1. \A p \in Producers : pc[p] = "idle"
    BY <1>8 DEF Open, IInv, DownIdle
  <2> QED
    BY <1>0, <1>8, <2>1 DEF Open, files, Account
<1>9. CASE UNCHANGED <<rec, used, up, pc, arg>>
  BY <1>9 DEF Account
<1>10. ASSUME NEW p \in Producers, NEW r \in Records, PutFull(p, r)
       PROVE  UNCHANGED <<rec, used, up, pc, arg>>
  BY <1>10 DEF PutFull, files
<1>11. CASE List \/ Heartbeat \/ Woken \/ Tick \/ StreamError \/ UNCHANGED vars
  <2>1. UNCHANGED <<rec, used, up, pc, arg>>
    BY <1>11 DEF List, Heartbeat, Woken, Tick, StreamError, files, vars
  <2> QED
    BY <1>9, <2>1
<1> QED
  BY <1>1, <1>2, <1>3, <1>4, <1>5, <1>6, <1>7, <1>8, <1>9, <1>10, <1>11, Actions

LEMMA AccountInvariance == Spec => [](IInv /\ Account)
<1>1. Account /\ IInv /\ [Next]_vars => Account'
  BY AccountStep
<1> QED
  BY <1>1, InitAccount, Invariance, PTL DEF Spec

(* In every reachable state the files, the account, the mutex and the steps of Put
   have their types. *)
THEOREM TypeCorrect == Spec => []TypeOK
<1>1. IInv /\ Account => TypeOK
  BY DEF IInv, Shape, Listed, Account, TypeOK
<1> QED
  BY <1>1, AccountInvariance, PTL

(* For any records of any sizes, through crashes, failed writes and restarts: s.used
   is the size of the files whenever no Put is under way, and the files never exceed
   s.max (spool.go 72-77, 88-100, 159). *)
THEOREM AccountRight == Spec => []Accounted
<1>1. IInv /\ Account => Accounted
  <2> SUFFICES ASSUME IInv, Account PROVE Accounted
    OBVIOUS
  <2>1. (up /\ lock = None) => used = Bytes(rec)
    BY Idle DEF IInv, Account
  <2> QED
    BY <2>1 DEF Account, Accounted
<1> QED
  BY <1>1, AccountInvariance, PTL
===============================================================================
