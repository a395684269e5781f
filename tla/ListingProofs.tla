----------------------------- MODULE ListingProofs -----------------------------
(***************************************************************************)
(* Proofs about the frontend's pages.  Listing, for any set of timestamps  *)
(* and any page sizes: an export by rowid and a list by offset are         *)
(* complete.  Dashboard, for any filters, addresses and page sizes: what a *)
(* page shows, what it announces, and its page buttons.                    *)
(***************************************************************************)
EXTENDS Listing, Dashboard, FiniteSetTheorems, TLAPS

-----------------------------------------------------------------------------
(* Least and greatest elements *)

LEMMA NatMin ==
  ASSUME NEW S \in SUBSET Nat, S # {}
  PROVE  \E m \in S : \A k \in S : m <= k
<1> DEFINE R == OpToRel(<, Nat)
<1>1. IsWellFoundedOn(R, Nat)
  BY NatLessThanWellFounded, Zenon
<1>2. \A x, y \in Nat : y < x => <<y, x>> \in R
  BY DEF OpToRel
<1> HIDE DEF R
<1>3. PICK m \in S : \A y \in S : ~ (<<y, m>> \in R)
  BY <1>1, WFMin
<1>4. \A y \in S : ~(y < m)
  BY <1>2, <1>3
<1>5. \A y \in S : m <= y
  BY <1>4
<1> QED
  BY <1>5

LEMMA MinOf ==
  ASSUME NEW S \in SUBSET Nat, S # {}
  PROVE  Min(S) \in S /\ \A y \in S : Min(S) <= y
BY NatMin DEF Min

LEMMA MaxOf ==
  ASSUME NEW S \in SUBSET Nat, S # {}, NEW b \in Nat, \A x \in S : x <= b
  PROVE  Max(S) \in S /\ \A y \in S : y <= Max(S)
<1> DEFINE U == {u \in Nat : \A x \in S : x <= u}
<1>1. PICK u \in U : \A k \in U : u <= k
  <2>1. b \in U /\ U \in SUBSET Nat
    OBVIOUS
  <2> QED
    BY <2>1, NatMin
<1>2. u \in S
  <2>1. SUFFICES ASSUME u \notin S PROVE FALSE
    OBVIOUS
  <2>2. \A x \in S : x < u
    BY <2>1
  <2> u \in Nat
    OBVIOUS
  <2>3. u - 1 \in Nat /\ \A x \in S : x <= u - 1
    <3>1. PICK x \in S : TRUE
      OBVIOUS
    <3>2. u - 1 \in Nat
      BY <2>2, <3>1
    <3> QED
      BY <2>2, <3>2
  <2>4. u - 1 \in U
    BY <2>3
  <2> QED
    BY <1>1, <2>3, <2>4
<1>3. \E m \in S : \A y \in S : m >= y
  BY <1>2
<1> QED
  BY <1>3 DEF Max
-----------------------------------------------------------------------------
(* Places in a list that is ordered newest first *)

Above(T, s) == {t \in T : t > s}
Place(T, s) == Cardinality(Above(T, s))

(* The places are natural numbers below the length, in the order of the list. *)
LEMMA Places ==
  ASSUME NEW T \in SUBSET Nat, IsFiniteSet(T)
  PROVE  /\ \A s \in T : Place(T, s) \in Nat /\ Place(T, s) < Cardinality(T)
         /\ \A s, t \in T : t > s => Place(T, t) < Place(T, s)
<1>1. \A s \in Nat : IsFiniteSet(Above(T, s)) /\ Place(T, s) \in Nat
  BY FS_Subset, FS_CardinalityType DEF Above, Place
<1>2. Cardinality(T) \in Nat
  BY FS_CardinalityType
<1>3. ASSUME NEW s \in T PROVE Place(T, s) < Cardinality(T)
  <2>1. Above(T, s) \in SUBSET T /\ s \notin Above(T, s)
    BY DEF Above
  <2>2. Place(T, s) <= Cardinality(T) /\ Place(T, s) # Cardinality(T)
    BY <2>1, FS_Subset DEF Place
  <2> QED
    BY <1>1, <1>2, <2>2
<1>4. ASSUME NEW s \in T, NEW t \in T, t > s PROVE Place(T, t) < Place(T, s)
  <2>1. Above(T, t) \in SUBSET Above(T, s) /\ t \in Above(T, s) /\ t \notin Above(T, t)
    <3>1. \A u \in T : u \in Nat /\ (u > t => u > s)
      BY <1>4
    <3>2. s \in Nat /\ t \in Nat /\ ~(t > t)
      OBVIOUS
    <3> QED
      BY <1>4, <3>1, <3>2 DEF Above
  <2>2. IsFiniteSet(Above(T, s))
    BY <1>1
  <2>3. Place(T, t) <= Place(T, s) /\ (Place(T, s) = Place(T, t) => Above(T, s) = Above(T, t))
    BY <2>1, <2>2, FS_Subset DEF Place
  <2>4. Place(T, t) # Place(T, s)
    BY <2>1, <2>3
  <2> QED
    BY <1>1, <2>3, <2>4
<1> QED
  BY <1>1, <1>3, <1>4

(* At most n events have one of n consecutive places. *)
LEMMA FewInRange ==
  ASSUME NEW T \in SUBSET Nat, IsFiniteSet(T), NEW P \in SUBSET T,
         NEW a \in Nat, NEW n \in Nat, \A s \in P : Place(T, s) \in a..(a + n - 1)
  PROVE  /\ Cardinality(P) \in Nat /\ Cardinality(P) <= n
         /\ (\A k \in a..(a + n - 1) : \E s \in P : Place(T, s) = k) => Cardinality(P) = n
<1> DEFINE f == [s \in P |-> Place(T, s)]
<1>1. \A s, t \in P : Place(T, s) = Place(T, t) => s = t
  <2> SUFFICES ASSUME NEW s \in P, NEW t \in P, Place(T, s) = Place(T, t) PROVE s = t
    OBVIOUS
  <2>1. ~(s > t) /\ ~(t > s) /\ s \in Nat /\ t \in Nat
    BY Places
  <2> QED
    BY <2>1
<1>2. f \in Injection(P, a..(a + n - 1))
  BY <1>1 DEF Injection, IsInjective
<1>3. IsFiniteSet(a..(a + n - 1)) /\ Cardinality(a..(a + n - 1)) = n
  BY FS_Interval
<1>4. IsFiniteSet(P) /\ Cardinality(P) <= n
  BY <1>2, <1>3, FS_Injection
<1>5. Cardinality(P) = n <=> f \in Surjection(P, a..(a + n - 1))
  BY <1>2, <1>3, FS_Injection
<1>6. (\A k \in a..(a + n - 1) : \E s \in P : Place(T, s) = k)
         => f \in Surjection(P, a..(a + n - 1))
  BY DEF Surjection
<1> QED
  BY <1>4, <1>5, <1>6, FS_CardinalityType

(* No place before a taken one is empty. *)
LEMMA NoGap ==
  ASSUME NEW T \in SUBSET Nat, IsFiniteSet(T), NEW s \in T, NEW k \in Nat, k <= Place(T, s)
  PROVE  \E m \in T : Place(T, m) = k
<1> DEFINE D == {Place(T, t) : t \in {u \in T : Place(T, u) >= k}}
<1>1. D \in SUBSET Nat /\ D # {}
  BY Places
<1>2. PICK r \in D : \A d \in D : r <= d
  BY <1>1, NatMin
<1>3. PICK m \in T : Place(T, m) = r /\ r >= k
  BY <1>2
<1>4. \A t \in Above(T, m) : Place(T, t) \in 0..(0 + k - 1)
  <2> SUFFICES ASSUME NEW t \in Above(T, m) PROVE Place(T, t) \in 0..(k - 1)
    OBVIOUS
  <2>1. t \in T /\ Place(T, t) < r /\ Place(T, t) \in Nat
    BY <1>3, Places DEF Above
  <2>2. ~(Place(T, t) >= k)
    BY <1>1, <1>2, <2>1
  <2> QED
    BY <2>1, <2>2
<1>5. Cardinality(Above(T, m)) <= k
  BY <1>4, FewInRange DEF Above
<1>6. r = k
  BY <1>1, <1>2, <1>3, <1>5 DEF Place
<1> QED
  BY <1>3, <1>6

(* The rows of a page: at most n, and n of them when an event comes after it. *)
LEMMA PageFull ==
  ASSUME NEW T \in SUBSET Nat, IsFiniteSet(T), NEW a \in Nat, NEW n \in Nat,
         NEW P, P = {s \in T : Place(T, s) \in a..(a + n - 1)}
  PROVE  /\ Cardinality(P) \in Nat /\ Cardinality(P) <= n
         /\ (\E s \in T : Place(T, s) >= a + n) => Cardinality(P) = n
<1>1. P \in SUBSET T /\ \A s \in P : Place(T, s) \in a..(a + n - 1)
  OBVIOUS
<1>2. Cardinality(P) \in Nat /\ Cardinality(P) <= n
  BY <1>1, FewInRange
<1>3. ASSUME NEW s \in T, Place(T, s) >= a + n
      PROVE  \A k \in a..(a + n - 1) : \E t \in P : Place(T, t) = k
  <2> SUFFICES ASSUME NEW k \in a..(a + n - 1) PROVE \E t \in P : Place(T, t) = k
    OBVIOUS
  <2>1. k \in Nat /\ k <= Place(T, s)
    BY <1>3, Places
  <2>2. PICK t \in T : Place(T, t) = k
    BY <2>1, NoGap
  <2> QED
    BY <2>2
<1> QED
  BY <1>1, <1>2, <1>3, FewInRange

-----------------------------------------------------------------------------
(* The inductive invariant *)

(* The rows have different rowids, none beyond some b: there is a greatest one. *)
TableInv ==
    /\ rowid \in [Stamps -> Nat] /\ used \subseteq Stamps /\ Table \subseteq used
    /\ \A s, t \in Table : rowid[s] = rowid[t] => s = t
    /\ \E b \in Nat : \A s \in Stamps : rowid[s] <= b

LoadType ==
    /\ kind \in {"events", "linked"}
    /\ lpc \in {"idle", "list", "count", "apply", "done", "failed"}
    /\ offset \in Nat /\ items \subseteq Stamps /\ total \in Nat /\ all \subseteq Stamps
    /\ lkept \subseteq Table

(* The page of this round has been read, or not yet. *)
Read   == lpc = "apply" \/ (lpc = "count" /\ kind = "events")
Unread == lpc = "list" \/ (lpc = "count" /\ kind = "linked")

(* What is still missing from the list comes at or after the next offset; it
   comes after a full page; and the total counted after the page exceeds it. *)
Missing(s) == s \notin all /\ s \notin items
StillAhead ==
    /\ Unread => \A s \in lkept : s \in all \/ Rank(s) >= offset
    /\ Read => \A s \in lkept : Missing(s) =>
                  Rank(s) >= offset + Cardinality(items) /\ Cardinality(items) = PageSize
    /\ (lpc = "apply" /\ kind = "events") =>
          \A s \in lkept : Missing(s) => offset + Cardinality(items) < total

LoadInv == LoadType /\ StillAhead /\ SurvivorsListed

ExportType ==
    /\ xpc \in {"idle", "page", "done", "cut"} /\ highWater \in Nat /\ cursor \in Nat
    /\ visited \subseteq Stamps /\ xbegan \subseteq Stamps /\ xkept \subseteq Table
    /\ xmoved \in BOOLEAN

(* What was there when the export began lies below its high-water mark, and the
   rows up to the cursor have been handed out, as long as the rows keep their
   numbers. *)
BehindCursor ==
    /\ xpc = "idle" => cursor = 0 /\ ~xmoved
    /\ (xpc = "page" /\ ~xmoved) =>
         \A s \in xkept : /\ rowid[s] <= highWater
                          /\ rowid[s] <= cursor => s \in visited

ExportInv == ExportType /\ BehindCursor /\ ExportComplete

IInv == TableInv /\ LoadInv /\ ExportInv

LEMMA LastRowIsGreatest ==
  ASSUME TableInv
  PROVE  LastRow \in Nat /\ \A s \in Stamps : rowid[s] <= LastRow
<1> DEFINE rows == {rowid[s] : s \in Table}
<1>1. rowid \in [Stamps -> Nat] /\ Table \in SUBSET Stamps
  BY DEF TableInv, Table
<1>2. rows \in SUBSET Nat
  BY <1>1
<1>3. \A s \in Stamps : s \in Table \/ rowid[s] = 0
  BY DEF Table
<1>4. CASE Table = {}
  BY <1>3, <1>4 DEF LastRow
<1>5. CASE Table # {}
  <2>1. rows # {}
    BY <1>5
  <2>2. PICK b \in Nat : \A x \in rows : x <= b
    BY <1>1 DEF TableInv
  <2>3. Max(rows) \in rows /\ \A y \in rows : y <= Max(rows)
    BY <1>2, <2>1, <2>2, MaxOf
  <2>4. LastRow = Max(rows)
    BY <1>5 DEF LastRow
  <2> QED
    BY <1>2, <1>3, <2>3, <2>4
<1> QED
  BY <1>4, <1>5

(* The table as a list: finite, and ranks are places. *)
LEMMA TableIsList ==
  /\ Table \in SUBSET Nat /\ IsFiniteSet(Table) /\ Cardinality(Table) \in Nat
  /\ \A s \in Table : Rank(s) = Place(Table, s) /\ Rank(s) \in Nat /\ Rank(s) < Cardinality(Table)
<1>1. Table \in SUBSET Stamps
  BY DEF Table
<1>2. Table \in SUBSET Nat /\ IsFiniteSet(Table)
  BY <1>1, ListingAssumption, FS_Subset
<1>3. \A s \in Table : Rank(s) = Place(Table, s)
  BY DEF Rank, Place, Above
<1> QED
  BY <1>2, <1>3, Places, FS_CardinalityType

LEMMA ItemsCount ==
  ASSUME LoadType
  PROVE  Cardinality(items) \in Nat
BY ListingAssumption, FS_Subset, FS_CardinalityType DEF LoadType

-----------------------------------------------------------------------------
(* The table *)

(* An insert takes a rowid beyond every other and moves no event to an earlier
   place. *)
LEMMA InsertKeeps ==
  ASSUME TableInv, NEW s \in Stamps, Insert(s)
  PROVE  /\ TableInv' /\ Table \subseteq Table'
         /\ \A t \in Table : rowid'[t] = rowid[t] /\ Rank(t)' \in Nat /\ Rank(t)' >= Rank(t)
<1>1. LastRow \in Nat /\ \A t \in Stamps : rowid[t] <= LastRow
  BY LastRowIsGreatest
<1>2. rowid' \in [Stamps -> Nat] /\ used' \subseteq Stamps
  BY <1>1 DEF TableInv, Insert
<1>3. s \notin Table /\ rowid'[s] = LastRow + 1 /\ \A t \in Stamps \ {s} : rowid'[t] = rowid[t]
  BY DEF TableInv, Insert
<1>4. Table' = Table \cup {s}
  BY <1>1, <1>2, <1>3 DEF Table
<1>5. \A t, u \in Table' : rowid'[t] = rowid'[u] => t = u
  <2>1. \A t \in Table : t # s /\ rowid'[t] = rowid[t] /\ rowid'[t] # LastRow + 1
    <3>1. \A t \in Table : t \in Stamps /\ t # s /\ rowid[t] \in Nat /\ rowid[t] <= LastRow
      BY <1>1, <1>3 DEF TableInv, Table
    <3> QED
      BY <1>1, <1>3, <3>1
  <2>2. \A t, u \in Table : rowid[t] = rowid[u] => t = u
    BY DEF TableInv
  <2> QED
    BY <1>3, <1>4, <2>1, <2>2, Zenon
<1>6. LastRow + 1 \in Nat /\ \A t \in Stamps : rowid'[t] <= LastRow + 1
  <2>1. \A t \in Stamps : rowid[t] \in Nat
    BY DEF TableInv
  <2> QED
    BY <1>1, <1>3, <2>1
<1>7. ASSUME NEW t \in Table PROVE rowid'[t] = rowid[t] /\ Rank(t)' \in Nat /\ Rank(t)' >= Rank(t)
  <2>1. Above(Table, t) \in SUBSET Above(Table', t)
    BY <1>4 DEF Above
  <2>2. IsFiniteSet(Table')
    BY <1>4, TableIsList, FS_AddElement
  <2>3. IsFiniteSet(Above(Table', t))
    BY <2>2, FS_Subset DEF Above
  <2>4. Cardinality(Above(Table, t)) <= Cardinality(Above(Table', t))
    BY <2>1, <2>3, FS_Subset
  <2>5. Cardinality(Above(Table, t)) \in Nat /\ Cardinality(Above(Table', t)) \in Nat
    BY <2>1, <2>3, FS_Subset, FS_CardinalityType
  <2>6. Rank(t) = Cardinality(Above(Table, t)) /\ Rank(t)' = Cardinality(Above(Table', t))
    BY DEF Rank, Above
  <2> QED
    BY <1>3, <2>4, <2>5, <2>6 DEF Table
<1>8. Table' \subseteq used'
  BY <1>4 DEF TableInv, Insert
<1> QED
  BY <1>2, <1>4, <1>5, <1>6, <1>7, <1>8 DEF TableInv

(* Deleting the oldest event leaves the places of the others alone. *)
LEMMA DeleteKeeps ==
  ASSUME TableInv, DeleteOldest
  PROVE  \E s \in Table : /\ TableInv' /\ Table' = Table \ {s}
                         /\ lkept' = lkept \ {s} /\ xkept' = xkept \ {s}
                         /\ \A t \in Table' : rowid'[t] = rowid[t] /\ Rank(t)' = Rank(t)
<1> DEFINE s == Min(Table)
<1>1. s \in Table /\ \A t \in Table : s <= t
  BY MinOf, TableIsList DEF DeleteOldest
<1>2. s \in Stamps /\ rowid' = [rowid EXCEPT ![s] = 0] /\ lkept' = lkept \ {s} /\ xkept' = xkept \ {s}
      /\ used' = used
  BY <1>1 DEF DeleteOldest, Table
<1> HIDE DEF s
<1>3. rowid' \in [Stamps -> Nat] /\ rowid'[s] = 0 /\ \A t \in Stamps \ {s} : rowid'[t] = rowid[t]
  BY <1>2 DEF TableInv
<1>4. Table' = Table \ {s}
  BY <1>2, <1>3 DEF Table
<1>5. \A t \in Table' : t \in Table /\ rowid'[t] = rowid[t]
  BY <1>3, <1>4 DEF Table
<1>6. ASSUME NEW t \in Table' PROVE Rank(t)' = Rank(t)
  <2>1. t \in Nat /\ s \in Nat /\ s <= t
    BY <1>1, <1>5, TableIsList
  <2>2. {u \in Table' : u > t} = {u \in Table : u > t}
    BY <1>4, <2>1
  <2> QED
    BY <2>2 DEF Rank
<1>7. TableInv'
  <2>1. PICK b \in Nat : \A t \in Stamps : rowid[t] <= b
    BY DEF TableInv
  <2>2. \A t \in Stamps : rowid'[t] <= b
    BY <1>3, <2>1
  <2>3. Table' \subseteq used' /\ used' \subseteq Stamps
    BY <1>2, <1>4 DEF TableInv
  <2>4. \A t, u \in Table' : rowid'[t] = rowid'[u] => t = u
    BY <1>5 DEF TableInv
  <2> QED
    BY <1>3, <2>1, <2>2, <2>3, <2>4 DEF TableInv
<1> QED
  BY <1>1, <1>2, <1>4, <1>5, <1>6, <1>7

(* VACUUM leaves the events and their places alone, and their rows different. *)
LEMMA CompactKeeps ==
  ASSUME TableInv, Compact
  PROVE  TableInv' /\ Table' = Table /\ \A s \in Table : Rank(s)' = Rank(s)
<1> DEFINE Upto(s) == {t \in Table : rowid[t] <= rowid[s]}
<1>1. /\ rowid' = [s \in Stamps |-> IF s \in Table THEN Cardinality(Upto(s)) ELSE 0]
      /\ used' = used /\ Table \subseteq Stamps
  BY DEF Compact, NewRow, Table
<1>2. \A s \in Table : rowid[s] \in Nat
  BY <1>1 DEF TableInv
<1>3. /\ IsFiniteSet(Table) /\ Cardinality(Table) \in Nat
      /\ \A s \in Table : Upto(s) \subseteq Table /\ s \in Upto(s)
  BY <1>2, TableIsList
<1>4. ASSUME NEW s \in Table
      PROVE  /\ IsFiniteSet(Upto(s)) /\ Cardinality(Upto(s)) \in Nat \ {0}
             /\ Cardinality(Upto(s)) <= Cardinality(Table)
  <2>1. IsFiniteSet(Upto(s)) /\ Cardinality(Upto(s)) <= Cardinality(Table)
    BY <1>3, FS_Subset
  <2>2. Cardinality(Upto(s)) \in Nat /\ (Cardinality(Upto(s)) = 0 => Upto(s) = {})
    BY <2>1, FS_CardinalityType, FS_EmptySet
  <2>3. s \in Upto(s)
    BY <1>3
  <2> QED
    BY <2>1, <2>2, <2>3
<1>5. ASSUME NEW s \in Table, NEW t \in Table, Cardinality(Upto(s)) = Cardinality(Upto(t))
      PROVE  s = t
  <2>1. Upto(s) \subseteq Upto(t) \/ Upto(t) \subseteq Upto(s)
    BY <1>2
  <2>2. Upto(s) = Upto(t)
    BY <1>4, <1>5, <2>1, FS_Subset
  <2>3. rowid[s] <= rowid[t] /\ rowid[t] <= rowid[s]
    BY <1>3, <2>2
  <2>4. rowid[s] = rowid[t]
    BY <1>2, <2>3
  <2> QED
    BY <2>4 DEF TableInv
<1> HIDE DEF Upto
<1>6. \A s \in Stamps : rowid'[s] = IF s \in Table THEN Cardinality(Upto(s)) ELSE 0
  BY <1>1
<1>7. Table' = Table
  <2>1. \A s \in Stamps : rowid'[s] # 0 <=> s \in Table
    BY <1>4, <1>6
  <2> QED
    BY <1>1, <2>1 DEF Table
<1>8. TableInv'
  <2>1. rowid' \in [Stamps -> Nat]
    BY <1>1, <1>4
  <2>2. \A s \in Stamps : rowid'[s] <= Cardinality(Table)
    BY <1>3, <1>4, <1>6
  <2>3. \A s, t \in Table' : rowid'[s] = rowid'[t] => s = t
    BY <1>1, <1>5, <1>6, <1>7
  <2>4. used' \subseteq Stamps /\ Table' \subseteq used'
    BY <1>1, <1>7 DEF TableInv
  <2> QED
    BY <1>3, <2>1, <2>2, <2>3, <2>4 DEF TableInv
<1> QED
  BY <1>7, <1>8 DEF Rank

-----------------------------------------------------------------------------
(* The hooks *)

(* Steps of the others: no event that is still there moves to an earlier place. *)
LEMMA LoadKept ==
  ASSUME LoadInv, UNCHANGED loadVars, lkept' \subseteq lkept, lkept' \subseteq Table',
         \A t \in lkept' : Rank(t)' \in Nat /\ Rank(t)' >= Rank(t)
  PROVE  LoadInv'
<1>1. LoadType'
  BY DEF LoadInv, LoadType, loadVars
<1>2. SurvivorsListed'
  BY DEF LoadInv, SurvivorsListed, loadVars
<1>3. offset \in Nat /\ Cardinality(items) \in Nat /\ \A t \in lkept : Rank(t) \in Nat
  BY ItemsCount, TableIsList DEF LoadInv, LoadType
<1>4. \A t \in lkept', n \in Nat : Rank(t) >= n => Rank(t)' >= n
  BY <1>3
<1>5. offset + Cardinality(items) \in Nat
  BY <1>3
<1>6. UNCHANGED <<kind, lpc, offset, items, total, all>> /\ (Read' <=> Read) /\ (Unread' <=> Unread)
  BY DEF loadVars, Read, Unread
<1>7. \A t : Missing(t)' <=> Missing(t)
  BY <1>6 DEF Missing
<1>8. StillAhead'
  <2>1. Unread' => \A t \in lkept' : t \in all' \/ Rank(t)' >= offset'
    BY <1>3, <1>4, <1>6 DEF LoadInv, StillAhead
  <2>2. Read' => \A t \in lkept' : Missing(t)' =>
                   Rank(t)' >= offset' + Cardinality(items') /\ Cardinality(items') = PageSize
    <3> SUFFICES ASSUME Read, NEW t \in lkept', Missing(t)
                 PROVE  Rank(t)' >= offset + Cardinality(items) /\ Cardinality(items) = PageSize
      BY <1>6, <1>7
    <3>1. t \in lkept /\ Rank(t) >= offset + Cardinality(items) /\ Cardinality(items) = PageSize
      BY DEF LoadInv, StillAhead
    <3> QED
      BY <1>4, <1>5, <3>1
  <2>3. (lpc' = "apply" /\ kind' = "events") =>
          \A t \in lkept' : Missing(t)' => offset' + Cardinality(items') < total'
    BY <1>6, <1>7 DEF LoadInv, StillAhead
  <2> QED
    BY <2>1, <2>2, <2>3 DEF StillAhead
<1> QED
  BY <1>1, <1>2, <1>8 DEF LoadInv

LEMMA LoadSame ==
  ASSUME LoadInv, UNCHANGED <<tableVars, loadVars, lkept>>
  PROVE  LoadInv'
<1>1. lkept' = lkept /\ Table' = Table
  BY DEF tableVars, Table
<1>2. \A t \in lkept : Rank(t)' = Rank(t)
  BY <1>1 DEF Rank
<1>3. lkept \subseteq Table /\ \A t \in lkept : Rank(t) \in Nat
  BY TableIsList DEF LoadInv, LoadType
<1>4. \A t \in lkept' : Rank(t)' \in Nat /\ Rank(t)' >= Rank(t)
  BY <1>1, <1>2, <1>3
<1> QED
  BY <1>1, <1>3, <1>4, LoadKept DEF loadVars

LEMMA OpenKeeps ==
  ASSUME TableInv, NEW k \in {"events", "linked"}, Open(k)
  PROVE  LoadInv'
<1>1. LoadType' /\ SurvivorsListed'
  BY DEF Open, FirstStep, LoadType, SurvivorsListed, tableVars, Table
<1>2. Unread' /\ ~Read'
  BY DEF Open, FirstStep, Read, Unread
<1>3. Table' = Table /\ lkept' = Table /\ offset' = 0 /\ lpc' # "apply"
  BY DEF Open, FirstStep, Table, tableVars
<1>4. \A t \in lkept' : Rank(t)' >= 0
  BY <1>3, TableIsList DEF Rank
<1> QED
  BY <1>1, <1>2, <1>3, <1>4 DEF LoadInv, StillAhead

LEMMA ListRowsKeeps ==
  ASSUME TableInv, LoadInv, ListRows
  PROVE  LoadInv'
<1>1. LoadType' /\ SurvivorsListed' /\ Read' /\ ~Unread'
  BY DEF ListRows, LoadInv, LoadType, SurvivorsListed, Read, Unread, tableVars, Table
<1>2. Table' = Table /\ lkept' = lkept /\ offset' = offset /\ all' = all /\ lkept \subseteq Table
  BY DEF ListRows, tableVars, Table, LoadInv, LoadType
<1>3. items' = {s \in Table : Place(Table, s) \in offset..(offset + PageSize - 1)}
  BY TableIsList DEF ListRows
<1>4. offset \in Nat /\ PageSize \in Nat
  BY ListingAssumption DEF LoadInv, LoadType
<1>5. /\ Cardinality(items') \in Nat /\ Cardinality(items') <= PageSize
      /\ (\E s \in Table : Place(Table, s) >= offset + PageSize) => Cardinality(items') = PageSize
  BY <1>3, <1>4, TableIsList, PageFull
<1>6. ASSUME NEW s \in lkept, s \notin all, s \notin items'
      PROVE  Rank(s)' >= offset + Cardinality(items') /\ Cardinality(items') = PageSize
  <2>1. Rank(s) >= offset
    BY <1>6 DEF LoadInv, StillAhead, Unread, ListRows
  <2>2. s \in Table /\ Rank(s) = Place(Table, s) /\ Rank(s) \in Nat
    BY <1>2, TableIsList
  <2>3. Place(Table, s) >= offset + PageSize
    BY <1>3, <1>4, <1>6, <2>1, <2>2
  <2>4. Cardinality(items') = PageSize
    BY <1>5, <2>2, <2>3
  <2>5. Rank(s)' = Rank(s)
    BY <1>2 DEF Rank
  <2> QED
    BY <2>2, <2>3, <2>4, <2>5
<1>7. ~(lpc' = "apply" /\ kind' = "events")
  BY DEF ListRows
<1>8. StillAhead'
  BY <1>1, <1>2, <1>6, <1>7 DEF StillAhead, Missing
<1> QED
  BY <1>1, <1>8 DEF LoadInv

LEMMA CountRowsKeeps ==
  ASSUME TableInv, LoadInv, CountRows
  PROVE  LoadInv'
<1>1. LoadType'
  BY TableIsList DEF CountRows, LoadInv, LoadType, tableVars, Table
<1>2. SurvivorsListed'
  BY DEF CountRows, SurvivorsListed
<1>3. Table' = Table /\ UNCHANGED <<kind, lkept, offset, items, all>> /\ lkept \subseteq Table
      /\ total' = Cardinality(Table)
  BY DEF CountRows, tableVars, Table, LoadInv, LoadType
<1>4. \A s \in lkept : Rank(s)' = Rank(s) /\ Rank(s) \in Nat /\ Rank(s) < Cardinality(Table)
  BY <1>3, TableIsList DEF Rank
<1>5. \A s : Missing(s)' <=> Missing(s)
  BY <1>3 DEF Missing
<1>6. CASE kind = "events"
  <2>1. Read /\ Read' /\ ~Unread'
    BY <1>6 DEF Read, Unread, CountRows
  <2>2. \A s \in lkept : Missing(s) =>
          Rank(s) >= offset + Cardinality(items) /\ Cardinality(items) = PageSize
    BY <2>1 DEF LoadInv, StillAhead
  <2>3. offset \in Nat /\ Cardinality(items) \in Nat /\ Cardinality(Table) \in Nat
    BY ItemsCount, TableIsList DEF LoadInv, LoadType
  <2>4. offset + Cardinality(items) \in Nat
    BY <2>3
  <2>5. \A s \in lkept : Missing(s) => offset + Cardinality(items) < Cardinality(Table)
    BY <1>4, <2>2, <2>3, <2>4
  <2> QED
    BY <1>1, <1>2, <1>3, <1>4, <1>5, <2>1, <2>2, <2>5 DEF LoadInv, StillAhead
<1>7. CASE kind = "linked"
  <2>1. Unread /\ Unread' /\ ~Read' /\ lpc' # "apply"
    BY <1>7 DEF Read, Unread, CountRows
  <2> QED
    BY <1>1, <1>2, <1>3, <1>4, <2>1 DEF LoadInv, StillAhead
<1> QED
  BY <1>6, <1>7 DEF LoadInv, LoadType

LEMMA ApplyKeeps ==
  ASSUME TableInv, LoadInv, Apply
  PROVE  LoadInv'
<1>1. offset \in Nat /\ Cardinality(items) \in Nat /\ PageSize \in Nat \ {0} /\ total \in Nat
  BY ItemsCount, ListingAssumption DEF LoadInv, LoadType
<1>2. Table' = Table /\ UNCHANGED <<kind, lkept, items, total>>
      /\ offset' = offset + Cardinality(items) /\ all' = all \cup items
  BY DEF Apply, tableVars, Table
<1>3. lpc' \in {"list", "count", "done"} /\ (lpc' # "done" => lpc' = FirstStep(kind))
  BY DEF Apply, FirstStep
<1>4. LoadType'
  BY <1>1, <1>2, <1>3 DEF LoadInv, LoadType
<1>5. Read /\ ~Read' /\ lpc' # "apply"
  BY <1>2, <1>3 DEF Read, Apply, FirstStep
<1>6. \A s \in lkept : s \in all' \/ Missing(s)
  BY <1>2 DEF Missing
<1>7. \A s \in lkept : Missing(s) => Rank(s)' >= offset' /\ Cardinality(items) = PageSize
  BY <1>2, <1>5 DEF LoadInv, StillAhead, Rank
<1>8. SurvivorsListed'
  <2> SUFFICES ASSUME lpc' = "done", NEW s \in lkept, s \notin all'
               PROVE  kind = "linked" /\ Cardinality(items) = PageSize
    BY <1>2 DEF SurvivorsListed
  <2>1. Missing(s) /\ Cardinality(items) = PageSize
    BY <1>6, <1>7
  <2>2. items # {}
    BY <1>1, <2>1, FS_EmptySet
  <2>3. offset' >= total
    BY <2>2 DEF Apply, FirstStep
  <2>4. kind # "events"
    <3>1. kind = "events" => offset + Cardinality(items) < total
      BY <2>1 DEF LoadInv, StillAhead, Apply
    <3> QED
      BY <1>1, <1>2, <2>3, <3>1
  <2> QED
    BY <2>1, <2>4 DEF LoadInv, LoadType
<1>9. StillAhead'
  BY <1>2, <1>5, <1>6, <1>7 DEF StillAhead
<1> QED
  BY <1>4, <1>8, <1>9 DEF LoadInv

LEMMA LoadFailsKeeps ==
  ASSUME LoadInv, LoadFails
  PROVE  LoadInv'
BY DEF LoadFails, LoadInv, LoadType, StillAhead, SurvivorsListed, Read, Unread, tableVars, Table

-----------------------------------------------------------------------------
(* The export *)

LEMMA ExportKept ==
  ASSUME ExportInv, UNCHANGED <<exportVars, xbegan, xmoved>>, xkept' \subseteq xkept,
         xkept' \subseteq Table', \A t \in xkept' : rowid'[t] = rowid[t]
  PROVE  ExportInv'
<1>1. UNCHANGED <<xpc, highWater, cursor, visited, xbegan, xmoved>>
  BY DEF exportVars
<1>2. ExportType' /\ ExportComplete'
  BY <1>1 DEF ExportInv, ExportType, ExportComplete
<1>3. BehindCursor'
  BY <1>1 DEF ExportInv, BehindCursor
<1> QED
  BY <1>2, <1>3 DEF ExportInv

LEMMA ExportSame ==
  ASSUME ExportInv, UNCHANGED <<tableVars, exportVars, history>>
  PROVE  ExportInv'
<1>1. Table' = Table /\ rowid' = rowid /\ xkept' = xkept /\ xkept \subseteq Table
  BY DEF tableVars, history, Table, ExportInv, ExportType
<1> QED
  BY <1>1, ExportKept DEF history

(* Renumbering in the middle of an export is put on record. *)
LEMMA ExportMoved ==
  ASSUME TableInv, ExportInv, Compact
  PROVE  ExportInv'
<1>1. Table' = Table /\ UNCHANGED <<xpc, highWater, cursor, visited, xbegan, xkept>>
      /\ xmoved' = (xmoved \/ xpc = "page")
  BY CompactKeeps DEF Compact, exportVars
<1>2. ExportType'
  BY <1>1 DEF ExportInv, ExportType
<1>3. BehindCursor' /\ ExportComplete'
  BY <1>1 DEF ExportInv, BehindCursor, ExportComplete
<1> QED
  BY <1>2, <1>3 DEF ExportInv

LEMMA BeginExportKeeps ==
  ASSUME TableInv, ExportInv, BeginExport
  PROVE  ExportInv'
<1>1. LastRow \in Nat /\ \A s \in Stamps : rowid[s] <= LastRow
  BY LastRowIsGreatest
<1>2. Table' = Table /\ rowid' = rowid /\ Table \subseteq Stamps /\ xkept' = Table /\ xbegan' = Table
      /\ highWater' = LastRow /\ cursor' = 0 /\ visited' = visited /\ xmoved' = xmoved
  BY DEF BeginExport, tableVars, Table, ExportInv, BehindCursor
<1>3. \A s \in Table : rowid[s] \in Nat /\ rowid[s] # 0 /\ rowid[s] <= LastRow /\ ~(rowid[s] <= 0)
  BY <1>1 DEF Table, TableInv
<1>4. ExportType'
  BY <1>1, <1>2 DEF BeginExport, ExportInv, ExportType
<1>5. BehindCursor'
  BY <1>2, <1>3 DEF BehindCursor, BeginExport
<1>6. ExportComplete'
  <2>1. LastRow = 0 => Table = {}
    BY <1>3
  <2> QED
    BY <1>2, <2>1 DEF BeginExport, ExportComplete
<1> QED
  BY <1>4, <1>5, <1>6 DEF ExportInv

(* The rows a page may hold, and those before one of them. *)
Rest == {s \in Table : cursor < rowid[s] /\ rowid[s] <= highWater}
Before(s) == {t \in Rest : rowid[t] < rowid[s]}

(* A page is a prefix of the rest, and it is empty only when the rest is. *)
LEMMA PageIsPrefix ==
  ASSUME TableInv, ExportInv
  PROVE  /\ PageRows \subseteq Rest
         /\ \A s \in PageRows, t \in Rest : rowid[t] <= rowid[s] => t \in PageRows
         /\ PageRows = {} => Rest = {}
<1>1. PageRows = {s \in Rest : Cardinality(Before(s)) < ExportPage} /\ ExportPage \in Nat \ {0}
  BY ListingAssumption DEF PageRows, Rest, Before
<1>2. Rest \in SUBSET Table /\ IsFiniteSet(Rest) /\ \A s \in Rest : rowid[s] \in Nat
  BY TableIsList, FS_Subset DEF Rest, TableInv, Table
<1>3. \A s \in Rest : IsFiniteSet(Before(s)) /\ Cardinality(Before(s)) \in Nat
  BY <1>2, FS_Subset, FS_CardinalityType DEF Before
<1>4. ASSUME NEW s \in PageRows, NEW t \in Rest, rowid[t] <= rowid[s]
      PROVE  t \in PageRows
  <2>1. s \in Rest /\ Cardinality(Before(s)) < ExportPage
    BY <1>1
  <2>2. Before(t) \in SUBSET Before(s)
    BY <1>2, <1>4, <2>1 DEF Before
  <2>3. Cardinality(Before(t)) <= Cardinality(Before(s))
    BY <1>3, <2>1, <2>2, FS_Subset
  <2> QED
    BY <1>1, <1>3, <2>1, <2>3
<1>5. ASSUME Rest # {} PROVE PageRows # {}
  <2> DEFINE rows == {rowid[s] : s \in Rest}
  <2>1. rows \in SUBSET Nat /\ rows # {}
    BY <1>2, <1>5
  <2>2. PICK m \in rows : \A r \in rows : m <= r
    BY <2>1, NatMin
  <2>3. PICK s \in Rest : m = rowid[s]
    BY <2>2
  <2>4. Before(s) = {}
    BY <1>2, <2>2, <2>3 DEF Before
  <2>5. Cardinality(Before(s)) = 0
    BY <2>4, FS_EmptySet
  <2> QED
    BY <1>1, <2>3, <2>5
<1> QED
  BY <1>1, <1>4, <1>5

LEMMA ExportRowsKeeps ==
  ASSUME TableInv, ExportInv, ExportRows
  PROVE  ExportInv'
<1>1. /\ xpc = "page" /\ visited' = visited \cup PageRows /\ Table' = Table
      /\ UNCHANGED <<rowid, highWater, xbegan, xkept, xmoved>>
  BY DEF ExportRows, tableVars, history, Table
<1>2. highWater \in Nat /\ cursor \in Nat /\ xkept \subseteq Table /\ \A s \in Table : rowid[s] \in Nat
  BY DEF TableInv, ExportInv, ExportType, Table
<1>3. ~xmoved => \A s \in xkept : rowid[s] <= highWater /\ (s \in visited \/ s \in Rest)
  <2> SUFFICES ASSUME ~xmoved
               PROVE  \A s \in xkept : rowid[s] <= highWater /\ (s \in visited \/ s \in Rest)
    OBVIOUS
  <2>1. \A s \in xkept : rowid[s] <= highWater /\ (rowid[s] <= cursor => s \in visited)
    BY <1>1 DEF ExportInv, BehindCursor
  <2> QED
    BY <1>2, <2>1 DEF Rest
<1>4. PageRows \subseteq Rest /\ Rest \subseteq Table /\ Table \subseteq Stamps
  BY PageIsPrefix DEF Rest, Table
<1>5. CASE PageRows = {}
  <2>1. Rest = {}
    BY <1>5, PageIsPrefix
  <2>2. xpc' = "done" /\ cursor' = cursor /\ visited' = visited /\ (~xmoved => xkept' \subseteq visited)
    BY <1>1, <1>3, <1>5, <2>1 DEF ExportRows
  <2>3. ExportType'
    BY <1>1, <2>2 DEF ExportInv, ExportType
  <2> QED
    BY <1>1, <2>2, <2>3 DEF ExportInv, ExportComplete, BehindCursor
<1>6. CASE PageRows # {}
  <2> DEFINE rows == {rowid[s] : s \in PageRows}
  <2>1. rows \in SUBSET Nat /\ rows # {}
    BY <1>2, <1>4, <1>6
  <2>2. PICK b \in Nat : \A x \in rows : x <= b
    BY <1>4 DEF TableInv
  <2>3. Max(rows) \in rows /\ \A y \in rows : y <= Max(rows)
    BY <2>1, <2>2, MaxOf
  <2>4. cursor' = Max(rows)
    BY <1>6 DEF ExportRows
  <2>5. PICK m \in PageRows : cursor' = rowid[m]
    BY <2>3, <2>4
  <2>6. cursor' \in Nat
    BY <2>1, <2>3, <2>4
  <2>7. ~xmoved => \A s \in xkept : rowid[s] <= cursor' => s \in visited'
    BY <1>1, <1>3, <2>5, PageIsPrefix
  <2>8. ExportType'
    <3>1. xpc' \in {"page", "done"}
      BY DEF ExportRows
    <3> QED
      BY <1>1, <1>4, <2>6, <3>1 DEF ExportInv, ExportType
  <2>9. BehindCursor'
    BY <1>1, <1>3, <2>7 DEF BehindCursor, ExportRows
  <2>10. ExportComplete'
    <3> SUFFICES ASSUME xpc' = "done", ~xmoved PROVE xkept \subseteq visited'
      BY <1>1 DEF ExportComplete
    <3>1. cursor' >= highWater
      BY <1>6 DEF ExportRows
    <3>2. \A s \in xkept : rowid[s] <= cursor'
      BY <1>2, <1>3, <2>6, <3>1
    <3> QED
      BY <2>7, <3>2
  <2> QED
    BY <2>8, <2>9, <2>10 DEF ExportInv
<1> QED
  BY <1>5, <1>6

LEMMA ExportFailsKeeps ==
  ASSUME TableInv, ExportInv, ExportFails
  PROVE  ExportInv'
<1>1. PageRows \subseteq Stamps
  BY PageIsPrefix DEF Rest, Table
<1>2. visited' \subseteq Stamps /\ xpc' = "cut" /\ Table' = Table
      /\ UNCHANGED <<highWater, cursor, xbegan, xkept, xmoved>>
  BY <1>1 DEF ExportFails, ExportInv, ExportType, tableVars, history, Table
<1> QED
  BY <1>2 DEF ExportInv, ExportType, ExportComplete, BehindCursor

-----------------------------------------------------------------------------
(* The theorems *)

LEMMA InitIInv == Init => IInv
<1> SUFFICES ASSUME Init PROVE IInv
  OBVIOUS
<1>1. PICK f \in [used -> 1..Cardinality(used)] :
        /\ \A s, t \in used : f[s] = f[t] => s = t
        /\ rowid = [s \in Stamps |-> IF s \in used THEN f[s] ELSE 0]
  BY DEF Init
<1>2. used \in SUBSET Stamps
  BY DEF Init
<1>3. IsFiniteSet(used) /\ Cardinality(used) \in Nat
  BY <1>2, ListingAssumption, FS_Subset, FS_CardinalityType
<1>4. \A s \in used : f[s] \in Nat /\ f[s] # 0 /\ f[s] <= Cardinality(used)
  BY <1>1, <1>3
<1>5. \A s \in Stamps : rowid[s] = IF s \in used THEN f[s] ELSE 0
  BY <1>1
<1>6. rowid \in [Stamps -> Nat] /\ \A s \in Stamps : rowid[s] <= Cardinality(used)
  BY <1>1, <1>3, <1>4, <1>5
<1>7. Table = used
  BY <1>2, <1>4, <1>5 DEF Table
<1>8. TableInv
  BY <1>1, <1>2, <1>3, <1>5, <1>6, <1>7 DEF TableInv
<1>9. LoadInv
  BY DEF Init, LoadInv, LoadType, StillAhead, SurvivorsListed, Read, Unread
<1>10. ExportInv
  BY DEF Init, ExportInv, ExportType, BehindCursor, ExportComplete
<1> QED
  BY <1>8, <1>9, <1>10 DEF IInv

LEMMA TableSame ==
  ASSUME TableInv, UNCHANGED tableVars
  PROVE  TableInv'
BY DEF TableInv, tableVars, Table

LEMMA NextIInv == IInv /\ [Next]_vars => IInv'
<1> SUFFICES ASSUME IInv, [Next]_vars PROVE IInv'
  OBVIOUS
<1> TableInv /\ LoadInv /\ ExportInv
  BY DEF IInv
<1>1. CASE \E s \in Stamps : Insert(s)
  <2>1. PICK s \in Stamps : Insert(s)
    BY <1>1
  <2>2. /\ TableInv' /\ Table \subseteq Table'
        /\ \A t \in Table : rowid'[t] = rowid[t] /\ Rank(t)' \in Nat /\ Rank(t)' >= Rank(t)
    BY <2>1, InsertKeeps
  <2>3. UNCHANGED <<loadVars, lkept, exportVars, history>>
    BY <2>1 DEF Insert
  <2>4. lkept \subseteq Table /\ xkept \subseteq Table
    BY DEF LoadInv, LoadType, ExportInv, ExportType
  <2>5. LoadInv'
    BY <2>2, <2>3, <2>4, LoadKept
  <2>6. ExportInv'
    BY <2>2, <2>3, <2>4, ExportKept DEF history
  <2> QED
    BY <2>2, <2>5, <2>6 DEF IInv
<1>2. CASE DeleteOldest
  <2>1. PICK s \in Table :
          /\ TableInv' /\ Table' = Table \ {s}
          /\ lkept' = lkept \ {s} /\ xkept' = xkept \ {s}
          /\ \A t \in Table' : rowid'[t] = rowid[t] /\ Rank(t)' = Rank(t)
    BY <1>2, DeleteKeeps
  <2>2. UNCHANGED <<loadVars, exportVars, xbegan, xmoved>>
    BY <1>2 DEF DeleteOldest
  <2>3. lkept' \subseteq Table' /\ xkept' \subseteq Table'
    BY <2>1 DEF LoadInv, LoadType, ExportInv, ExportType
  <2>4. \A t \in lkept' : Rank(t)' \in Nat /\ Rank(t)' >= Rank(t)
    BY <2>1, <2>3, TableIsList
  <2>5. LoadInv'
    BY <2>1, <2>2, <2>3, <2>4, LoadKept
  <2>6. ExportInv'
    BY <2>1, <2>2, <2>3, ExportKept
  <2> QED
    BY <2>1, <2>5, <2>6 DEF IInv
<1>3. CASE \E k \in {"events", "linked"} : Open(k)
  <2>1. LoadInv' /\ UNCHANGED <<tableVars, exportVars, history>>
    BY <1>3, OpenKeeps DEF Open
  <2> QED
    BY <2>1, TableSame, ExportSame DEF IInv
<1>4. CASE ListRows \/ CountRows \/ Apply \/ LoadFails
  <2>1. LoadInv'
    BY <1>4, ListRowsKeeps, CountRowsKeeps, ApplyKeeps, LoadFailsKeeps
  <2>2. UNCHANGED <<tableVars, exportVars, history>>
    BY <1>4 DEF ListRows, CountRows, Apply, LoadFails
  <2> QED
    BY <2>1, <2>2, TableSame, ExportSame DEF IInv
<1>5. CASE BeginExport \/ ExportRows \/ ExportFails
  <2>1. ExportInv'
    BY <1>5, BeginExportKeeps, ExportRowsKeeps, ExportFailsKeeps
  <2>2. UNCHANGED <<tableVars, loadVars, lkept>>
    BY <1>5 DEF BeginExport, ExportRows, ExportFails
  <2> QED
    BY <2>1, <2>2, TableSame, LoadSame DEF IInv
<1>6. CASE UNCHANGED vars
  <2>1. UNCHANGED <<tableVars, loadVars, lkept, exportVars, history>>
    BY <1>6 DEF vars, tableVars, loadVars, exportVars, history
  <2> QED
    BY <2>1, TableSame, LoadSame, ExportSame DEF IInv
<1>7. CASE Compact
  <2>1. TableInv' /\ Table' = Table /\ \A s \in Table : Rank(s)' = Rank(s)
    BY <1>7, CompactKeeps
  <2>2. UNCHANGED <<loadVars, lkept>>
    BY <1>7 DEF Compact
  <2>3. lkept' \subseteq Table' /\ \A t \in lkept' : Rank(t)' \in Nat /\ Rank(t)' >= Rank(t)
    BY <2>1, <2>2, TableIsList DEF LoadInv, LoadType
  <2>4. LoadInv'
    BY <2>2, <2>3, LoadKept
  <2> QED
    BY <1>7, <2>1, <2>4, ExportMoved DEF IInv
<1> QED
  BY <1>1, <1>2, <1>3, <1>4, <1>5, <1>6, <1>7 DEF Next

(* In every reachable state rowids are distinct, pages, lists and cursors have
   their types, and what the histories call kept is still in the table. *)
THEOREM TypeCorrect == Spec => []TypeOK
<1>1. IInv => TypeOK
  BY DEF IInv, TypeOK, TableInv, LoadInv, LoadType, ExportInv, ExportType
<1> QED
  BY <1>1, InitIInv, NextIInv, PTL DEF Spec

(* However many events are inserted and deleted between two pages of
   ForEachSnapshot, an export that ends without an error has handed out every
   event that was there from its beginning to its end, unless the storage cap's
   VACUUM renumbered the rows under its cursor. *)
THEOREM ExportsAreComplete == Spec => []ExportComplete
<1>1. IInv => ExportComplete
  BY DEF IInv, ExportInv
<1> QED
  BY <1>1, InitIInv, NextIInv, PTL DEF Spec

(* However the table changes between the pages, and between the page and the
   count of one request, useCompleteEvents and useCompletePage end with every
   event that was there all the time; for the list of a finding this excepts a
   load whose last page was full. *)
THEOREM ListsAreComplete == Spec => []SurvivorsListed
<1>1. IInv => SurvivorsListed
  BY DEF IInv, LoadInv
<1> QED
  BY <1>1, InitIInv, NextIInv, PTL DEF Spec

-----------------------------------------------------------------------------
(* The dashboard *)

(* An effect run that is active asked for what was asked for last, on this page;
   an answer names its URL; and data is what was asked for last, unless loading
   or failed. *)
Own ==
    /\ \A r \in reqs :
         /\ r.active => /\ r.url = asked /\ r.url.res \in Resource
                        /\ r.url.refresh <= refresh
         /\ r.ans # None => r.ans.url = r.url
    /\ data # None => data.url.res \in Resource /\ data.url.refresh <= refresh
    /\ loading \/ error \/ (data # None /\ data.url = asked)

(* While no new event is announced, an answer for the present refresh count, shown
   or under way, was read after every event heard was stored: the count moves on
   before pending is 0 again. *)
Told ==
    (route.page = "activity" /\ pending = 0) =>
        /\ \A r \in reqs :
             (r.active /\ r.ans # None /\ ~r.ans.failed /\ r.url.refresh = refresh)
                => heard <= r.ans.newest
        /\ (data # None /\ data.url.refresh = refresh) => heard <= data.newest

DashInv == DashTypeOK /\ Own /\ Told

LEMMA MaxOfTwo ==
  ASSUME NEW a \in Int, NEW b \in Int
  PROVE  Max({a, b}) = IF a >= b THEN a ELSE b
<1>1. CASE a >= b
  BY <1>1 DEF Max
<1>2. CASE ~(a >= b)
  BY <1>2 DEF Max
<1> QED
  BY <1>1, <1>2

LEMMA MinOfTwo ==
  ASSUME NEW a \in Int, NEW b \in Int
  PROVE  Min({a, b}) = IF a <= b THEN a ELSE b
<1>1. CASE a <= b
  BY <1>1 DEF Min
<1>2. CASE ~(a <= b)
  BY <1>2 DEF Min
<1> QED
  BY <1>1, <1>2

(* paginationWindow, for any page number and any page count: consecutive buttons,
   five of them or one for each page, within range, with the page shown. *)
LEMMA Window ==
  ASSUME NEW p \in Int, NEW n \in Int
  PROVE  LET w == paginationWindow(p, n)
         IN  /\ Cardinality(w) = Min({5, Max({1, n})})
             /\ w \subseteq 1..Max({1, n})
             /\ p \in 1..n => p \in w
<1> DEFINE count   == Max({1, n})
           wanted   == Max({1, p})
           current == Min({wanted, count})
           low     == Min({current - 2, count - 4})
           start   == Max({1, low})
           end     == Min({count, start + 4})
<1>1. count \in Int /\ count >= 1 /\ count >= n /\ (n >= 1 => count = n)
  BY MaxOfTwo
<1>2. wanted \in Int /\ wanted >= 1 /\ (p >= 1 => wanted = p)
  BY MaxOfTwo
<1> HIDE DEF count, wanted
<1>3. /\ current \in Int /\ 1 <= current /\ current <= count
      /\ wanted <= count => current = wanted
  BY <1>1, <1>2, MinOfTwo
<1> HIDE DEF current
<1>4. low \in Int /\ low <= current - 2 /\ low <= count - 4 /\ low \in {current - 2, count - 4}
  BY <1>1, <1>3, MinOfTwo
<1> HIDE DEF low
<1>5. start \in Int /\ start >= 1 /\ start >= low /\ start \in {1, low}
  BY <1>4, MaxOfTwo
<1> HIDE DEF start
<1>6. end \in Int /\ end <= count /\ end <= start + 4 /\ end \in {count, start + 4}
  BY <1>1, <1>5, MinOfTwo
<1>7. Min({5, count}) = IF 5 <= count THEN 5 ELSE count
  BY <1>1, MinOfTwo
<1> HIDE DEF end
<1>8. start <= current /\ current <= end /\ end - start + 1 = Min({5, count})
  BY <1>1, <1>3, <1>4, <1>5, <1>6, <1>7
<1>9. Cardinality(start..end) = end - start + 1
  BY <1>5, <1>6, <1>3, <1>8, FS_Interval
<1>10. start..end \subseteq 1..count
  BY <1>1, <1>5, <1>6
<1>11. p \in 1..n => p \in start..end
  BY <1>1, <1>2, <1>3, <1>5, <1>6, <1>8
<1>12. paginationWindow(p, n) = start..end
  BY DEF paginationWindow, count, wanted, current, low, start, end
<1> QED
  BY <1>8, <1>9, <1>10, <1>11, <1>12 DEF count

PageNames == Lists \cup {"overview", "session", "source", "event", "raw", "not-found"}
Kinds == {"sessions", "sources", "events"}
RouteKinds == Kinds \cup {""}

LEMMA NameType ==
  ASSUME NEW path \in Paths, NEW k \in 1..Len(path)
  PROVE  path[k] \in Names
<1>1. path[k] \in {path[i] : i \in 1..Len(path)}
  OBVIOUS
<1> QED
  BY <1>1 DEF Names

LEMMA RouteFields ==
  ASSUME NEW p, NEW i, NEW k, NEW r, r = Route(p, i, k)
  PROVE  r.page = p /\ r.id = i /\ r.rawKind = k
BY DEF Route

LEMMA SingleType ==
  ASSUME NEW s \in Resources, NEW i \in Names, NEW u, u = Single(s, i)
  PROVE  u \in Urls /\ u.res = s /\ u.refresh = 0
BY DEF Single, Urls

(* A raw page has one of the three kinds that the API can list. *)
LEMMA RouteCases ==
  ASSUME NEW path \in Paths
  PROVE  \E p \in PageNames, i \in Names, k \in RouteKinds :
            parseRoute(path) = Route(p, i, k) /\ (p = "raw" => k \in Kinds)
<1>1. PICK n \in Nat : n = Len(path) /\ (path = <<>> <=> n = 0)
  BY DashboardAssumption
<1>2. RawKinds = Kinds /\ "" \in Names
  BY DEF RawKinds, Detail, Kinds, Names
<1>3. \A k \in Kinds : Detail[k] \in {"session", "source", "event"}
  BY DEF Detail, Kinds
<1>0. Kinds \subseteq RouteKinds /\ "" \in RouteKinds
  BY Zenon DEF RouteKinds
<1>4. {"overview", "session", "source", "event", "raw", "not-found"} \cup Lists \subseteq PageNames
  BY DEF PageNames
<1>5. /\ n = 0 => ~(n >= 2) /\ ~(n >= 3) /\ n # 1
      /\ n >= 3 => n >= 2 /\ 3 \in 1..n
      /\ n >= 2 => n # 0 /\ n # 1 /\ 2 \in 1..n
      /\ n = 1 => n # 0 /\ ~(n >= 2) /\ ~(n >= 3)
  BY SMT
<1>6. CASE path = <<>>
  <2>1. parseRoute(path) = Route("overview", "", "")
    BY <1>1, <1>5, <1>6, Zenon DEF parseRoute
  <2> QED
    BY <1>0, <1>2, <1>4, <2>1
<1>7. CASE n >= 2 /\ path[1] \in Kinds
  <2>1. path[1] # "raw"
    BY <1>7 DEF Kinds
  <2>2. parseRoute(path) = Route(Detail[path[1]], path[2], "")
    BY <1>1, <1>2, <1>5, <1>7, <2>1, Zenon DEF parseRoute
  <2>3. path[2] \in Names
    BY <1>1, <1>5, <1>7, NameType, Zenon
  <2>4. Detail[path[1]] \in {"session", "source", "event"}
    BY <1>3, <1>7, Zenon
  <2>5. Detail[path[1]] \in PageNames /\ Detail[path[1]] # "raw"
    BY <1>4, <2>4
  <2> QED
    BY <1>0, <2>2, <2>3, <2>5, Zenon
<1>8. CASE n >= 3 /\ path[1] = "raw" /\ path[2] \in Kinds
  <2>1. path[1] \notin Kinds
    BY <1>8 DEF Kinds
  <2>2. parseRoute(path) = Route("raw", path[3], path[2])
    BY <1>1, <1>2, <1>5, <1>8, <2>1, Zenon DEF parseRoute
  <2>3. path[3] \in Names
    BY <1>1, <1>5, <1>8, NameType, Zenon
  <2> QED
    BY <1>0, <1>4, <1>8, <2>2, <2>3, Zenon
<1>9. CASE n = 1 /\ path[1] \in Lists
  <2>1. parseRoute(path) = Route(path[1], "", "")
    BY <1>1, <1>5, <1>9, Zenon DEF parseRoute
  <2>2. path[1] # "raw"
    BY <1>9 DEF Lists
  <2> QED
    BY <1>0, <1>2, <1>4, <1>9, <2>1, <2>2, Zenon
<1>10. CASE /\ path # <<>> /\ ~(n >= 2 /\ path[1] \in Kinds)
            /\ ~(n >= 3 /\ path[1] = "raw" /\ path[2] \in Kinds)
            /\ ~(n = 1 /\ path[1] \in Lists)
  <2>1. parseRoute(path) = Route("not-found", "", "")
    BY <1>1, <1>2, <1>10, Zenon DEF parseRoute
  <2> QED
    BY <1>0, <1>2, <1>4, <2>1
<1> QED
  BY <1>6, <1>7, <1>8, <1>9, <1>10, Zenon

LEMMA RouteType ==
  ASSUME NEW path \in Paths, NEW r, r = parseRoute(path)
  PROVE  /\ r.page \in PageNames /\ r.id \in Names
         /\ r.page = "raw" => r.rawKind \in Kinds
<1>1. PICK p \in PageNames, i \in Names, k \in RouteKinds :
          r = Route(p, i, k) /\ (p = "raw" => k \in Kinds)
  BY RouteCases
<1>2. r.page = p /\ r.id = i /\ r.rawKind = k
  BY <1>1, RouteFields
<1> QED
  BY <1>1, <1>2

LEMMA Product ==
  ASSUME NEW a \in Nat \ {0}, NEW b \in Nat
  PROVE  (a - 1) * b \in Nat
<1>1. a - 1 \in Nat
  OBVIOUS
<1>2. \A x, y \in Nat : x * y \in Nat
  OBVIOUS
<1> QED
  BY <1>1, <1>2

(* The URL a page wants is one of the page's own resource, and names the present
   refresh count if the page is the activity log. *)
LEMMA UrlType ==
  ASSUME DashTypeOK, HasData
  PROVE  /\ Url \in Urls /\ Url.res \in Resource
         /\ Url.refresh <= refresh
         /\ route.page = "activity" => Url.refresh = refresh
<1>1. /\ route.page \in PageNames /\ route.id \in Names /\ "" \in Names
      /\ route.page = "raw" => route.rawKind \in Kinds
  BY RouteType DEF DashTypeOK, Names
<1>2. /\ page \in Nat \ {0} /\ pageSize \in Nat \ {0} /\ pageSize \in PageSizes
      /\ filter \in Filters /\ refresh \in Nat
  BY DashboardAssumption DEF DashTypeOK
<1>3. (page - 1) * pageSize \in Nat
  BY <1>2, Product
<1>4. CASE route.page = "activity"
  <2>1. Max({1, page}) = page
    BY <1>2, MaxOfTwo
  <2>2. Url = [res |-> "events", key |-> filter, offset |-> (page - 1) * pageSize,
                    limit |-> pageSize, refresh |-> refresh]
    BY <1>2, <1>4, <2>1 DEF Url, buildEventQuery
  <2> QED
    BY <1>2, <1>3, <1>4, <2>2 DEF Urls, Resource, Resources
<1>5. CASE route.page \in Paged \ {"activity"}
  <2>1. Url = [res |-> route.page, key |-> "", offset |-> (page - 1) * pageSize,
                    limit |-> pageSize, refresh |-> 0]
    BY <1>5 DEF Url, Paged
  <2>2. route.page \in Resources /\ route.page \notin {"activity", "raw"}
    BY <1>5 DEF Paged, Resources, Lists
  <2> QED
    <3>1. Url \in Urls /\ Url.res = route.page /\ Url.refresh = 0
      BY <1>1, <1>2, <1>3, <2>1, <2>2 DEF Urls
    <3>2. Url.res \in Resource
      BY <2>2, <3>1, Zenon DEF Resource
    <3> QED
      BY <1>2, <2>2, <3>1, <3>2
<1>6. CASE route.page = "raw"
  <2>1. Url = RawUrl(route)
    BY <1>6 DEF Url, Paged
  <2>2. PICK s \in {"event", "sessionEvents", "sourceEvents"} :
            RawUrl(route) = Single(s, route.id)
    BY <1>1, <1>6 DEF RawUrl, Kinds
  <2>3. PICK i \in Names, u \in {Url} : i = route.id /\ u = Url
    BY <1>1, Zenon
  <2>4. u = Single(s, i) /\ s \in Resources
    BY <2>1, <2>2, <2>3, Zenon DEF Resources
  <2>5. u \in Urls /\ u.res = s /\ u.refresh = 0
    BY <2>4, SingleType
  <2>6. Url.res \in Resource
    BY <1>6, <2>2, <2>3, <2>5, Zenon DEF Resource
  <2>7. Url \in Urls /\ Url.refresh = 0
    BY <2>3, <2>5, Zenon
  <2>8. 0 <= refresh
    BY <1>2
  <2> QED
    BY <1>6, <2>6, <2>7, <2>8, Zenon
<1>7. CASE route.page \notin Paged \cup {"raw"}
  <2>1. Url = Single(route.page, route.id)
    BY <1>7 DEF Url, Paged
  <2>2. route.page \in Resources /\ route.page \notin {"activity", "raw"}
    BY <1>1, <1>7 DEF Paged, Resources, Lists, PageNames, HasData
  <2> QED
    <3>1. Url \in Urls /\ Url.res = route.page /\ Url.refresh = 0
      <4>1. PICK s \in Resources, i \in Names, u \in {Url} :
                s = route.page /\ i = route.id /\ u = Url
        BY <1>1, <2>2, Zenon
      <4>2. u = Single(s, i)
        BY <2>1, <4>1, Zenon
      <4> QED
        BY <4>1, <4>2, SingleType
    <3>2. Url.res \in Resource
      BY <2>2, <3>1, Zenon DEF Resource
    <3> QED
      BY <1>2, <2>2, <3>1, <3>2
<1> QED
  BY <1>4, <1>5, <1>6, <1>7 DEF Paged

LEMMA TotalType ==
  ASSUME DashTypeOK, NEW u
  PROVE  Total(u) \in Nat
<1>1. IsFiniteSet(Alive)
  BY FS_Interval, DashboardAssumption DEF Alive, DashTypeOK
<1>2. Cardinality(Alive \cap Matching[u.key]) \in Nat
  BY <1>1, FS_Intersection, FS_CardinalityType
<1>3. Cardinality({Group[i] : i \in Alive}) \in Nat
  <2> DEFINE f == [i \in Alive |-> Group[i]]
             T == {Group[i] : i \in Alive}
  <2>1. f \in Surjection(Alive, T)
    BY DEF Surjection
  <2>2. IsFiniteSet(T)
    BY <1>1, <2>1, FS_Surjection
  <2> QED
    BY <2>2, FS_CardinalityType
<1> QED
  <2>1. CASE u.res = "events"
    <3>1. u.res \notin Paged
      BY <2>1 DEF Paged
    <3> QED
      BY <1>2, <2>1, <3>1, Zenon DEF Total
  <2>2. CASE u.res \in Paged
    <3>1. u.res # "events"
      BY <2>2 DEF Paged
    <3> QED
      BY <1>3, <2>2, <3>1, Zenon DEF Total
  <2>3. CASE u.res # "events" /\ u.res \notin Paged
    BY <2>3 DEF Total
  <2> QED
    BY <2>1, <2>2, <2>3

LEMMA PageCountType ==
  ASSUME DashTypeOK
  PROVE  PageCount \in Nat \ {0}
<1>1. totalRows \in Nat
  BY DEF totalRows, DashTypeOK, Answers
<1>2. pageSize \in Nat \ {0}
  BY DashboardAssumption DEF DashTypeOK
<1>3. CeilDiv(totalRows, pageSize) \in Int
  BY <1>1, <1>2 DEF CeilDiv
<1> QED
  BY <1>3, MaxOfTwo DEF PageCount

(* The invariant, with what concerns the requests apart. *)
ReqType ==
    \A r \in reqs : /\ r.url \in Urls /\ r.active \in BOOLEAN
                    /\ r.ans # None => r.ans \in Answers
ReqOwn ==
    \A r \in reqs :
      /\ r.active => r.url = asked /\ r.url.res \in Resource /\ r.url.refresh <= refresh
      /\ r.ans # None => r.ans.url = r.url
ReqTold ==
    \A r \in reqs :
      (r.active /\ r.ans # None /\ ~r.ans.failed /\ r.url.refresh = refresh)
          => heard <= r.ans.newest

LEMMA Inactive ==
  ASSUME NEW r \in Deactivated(reqs)
  PROVE  \E q \in reqs : r.url = q.url /\ r.active = FALSE /\ r.ans = q.ans
BY DEF Deactivated

LEMMA DashStarts == DashInit => DashInv
<1> SUFFICES ASSUME DashInit PROVE DashInv
  OBVIOUS
<1>1. /\ NoFilter \in Filters /\ DefaultSize \in PageSizes
      /\ Present \in 0..MaxEvents /\ MaxActs \in Nat
  BY DashboardAssumption
<1>3. stored \in 0..MaxEvents /\ deleted \in 0..stored /\ heard \in 0..stored /\ acts \in 0..MaxActs
  BY <1>1 DEF DashInit
<1>5. /\ location \in Paths /\ route = parseRoute(location)
      /\ filter \in Filters /\ pageSize \in PageSizes /\ asked = None /\ data = None
      /\ reqs = {} /\ error \in BOOLEAN /\ loading \in BOOLEAN
  BY <1>1, Zenon DEF DashInit
<1>6. page \in Nat \ {0} /\ refresh \in Nat /\ pending \in Nat
  BY DEF DashInit
<1>4. DashTypeOK
  BY <1>3, <1>5, <1>6, Zenon DEF DashTypeOK
<1>2. Own /\ Told
  BY DEF DashInit, Own, Told
<1> QED
  BY <1>2, <1>4 DEF DashInv

LEMMA VisitKeeps ==
  ASSUME DashInv, NEW path \in Paths, Act, SetRoute(path)
  PROVE  DashInv'
<1>1. acts' \in 0..MaxActs
  BY DashboardAssumption DEF Act, DashInv, DashTypeOK
<1>2. CASE Key(parseRoute(path)) # Key(route)
  <2>1. Mount /\ UNCHANGED <<stored, deleted>>
    BY <1>2 DEF SetRoute, storeVars
  <2>2. ReqType' /\ \A r \in reqs' : ~r.active /\ (r.ans # None => r.ans.url = r.url)
    <3> SUFFICES ASSUME NEW r \in reqs'
                 PROVE  /\ r.url \in Urls /\ r.active = FALSE
                        /\ r.ans # None => r.ans \in Answers /\ r.ans.url = r.url
      BY DEF ReqType, Urls, Answers
    <3>1. PICK q \in reqs : r.url = q.url /\ r.active = FALSE /\ r.ans = q.ans
      BY <2>1, Inactive DEF Mount
    <3> QED
      BY <3>1 DEF DashInv, DashTypeOK, Own
  <2>3. DashTypeOK'
    <3>1. NoFilter \in Filters /\ DefaultSize \in PageSizes
      BY DashboardAssumption
    <3>2. /\ stored' \in 0..MaxEvents /\ deleted' \in 0..stored' /\ heard' \in 0..stored'
      BY <2>1 DEF DashInv, DashTypeOK, Mount
    <3>3. /\ location' \in Paths /\ route' = parseRoute(location')
          /\ filter' \in Filters /\ pageSize' \in PageSizes /\ asked' = None /\ data' = None
          /\ error' \in BOOLEAN /\ loading' \in BOOLEAN
      BY <2>1, <3>1, Zenon DEF Mount, SetRoute
    <3>4. page' \in Nat \ {0} /\ refresh' \in Nat /\ pending' \in Nat
      BY <2>1 DEF Mount
    <3> QED
      BY <1>1, <2>2, <3>2, <3>3, <3>4, Zenon DEF DashTypeOK, ReqType
  <2>4. Own' /\ Told'
    BY <2>1, <2>2 DEF Own, Told, Mount
  <2> QED
    BY <2>3, <2>4 DEF DashInv
<1>3. CASE Key(parseRoute(path)) = Key(route)
  <2>1. UNCHANGED <<filter, page, pageSize, refresh, pending, asked, reqs, data, error,
                    loading, heard, stored, deleted>>
    BY <1>3 DEF SetRoute, pageVars, dataVars, storeVars
  <2>2. route'.page = route.page
    BY <1>3 DEF SetRoute, Key
  <2>3. Resource' = Resource
    BY <2>2 DEF Resource
  <2>4. DashTypeOK'
    BY <1>1, <2>1 DEF DashTypeOK, DashInv, SetRoute, Answers, Urls
  <2>5. Own' /\ Told'
    BY <2>1, <2>2, <2>3 DEF Own, Told, DashInv
  <2> QED
    BY <2>4, <2>5 DEF DashInv
<1> QED
  BY <1>2, <1>3

LEMMA AskKeeps ==
  ASSUME DashInv, Ask
  PROVE  DashInv'
<1>1. /\ UNCHANGED <<location, route, filter, page, pageSize, refresh, pending, data,
                     stored, deleted, heard, acts>>
      /\ asked' = Url /\ loading' = TRUE /\ error' = FALSE
  BY DEF Ask, pageVars, storeVars
<1>2. /\ Url \in Urls /\ Url.res \in Resource
      /\ Url.refresh <= refresh
  BY UrlType DEF DashInv, Ask
<1>3. Resource' = Resource
  BY <1>1 DEF Resource
<1>4. ASSUME NEW r \in reqs'
      PROVE  /\ r.url \in Urls /\ r.active \in BOOLEAN
             /\ r.ans # None => r.ans \in Answers /\ r.ans.url = r.url
             /\ r.active => r.url = Url /\ r.ans = None
  <2>1. CASE r \in Deactivated(reqs)
    <3>1. PICK q \in reqs : r.url = q.url /\ r.active = FALSE /\ r.ans = q.ans
      BY <2>1, Inactive
    <3> QED
      BY <3>1 DEF DashInv, DashTypeOK, Own
  <2>2. CASE r = [url |-> Url, active |-> TRUE, ans |-> None]
    BY <1>2, <2>2
  <2> QED
    BY <1>4, <2>1, <2>2 DEF Ask
<1>5. DashTypeOK'
  BY <1>1, <1>2, <1>4 DEF DashTypeOK, DashInv, Answers, Urls
<1>6. Own'
  BY <1>1, <1>2, <1>3, <1>4 DEF Own, DashInv
<1>7. Told'
  BY <1>1, <1>4 DEF Told, DashInv
<1> QED
  BY <1>5, <1>6, <1>7 DEF DashInv

(* A request keeps its URL and its flag while its answer comes in. *)
LEMMA ServeKeeps ==
  ASSUME DashInv, NEW q \in reqs, Serve(q)
  PROVE  DashInv'
<1>1. UNCHANGED <<location, route, filter, page, pageSize, refresh, pending, asked, data,
                  error, loading, stored, deleted, heard, acts>>
  BY DEF Serve, pageVars, storeVars
<1>2. PICK a \in {Answer(q.url), Failure(q.url)} :
          reqs' = (reqs \ {q}) \cup {[url |-> q.url, active |-> q.active, ans |-> a]}
  BY DEF Serve
<1>3. q.url \in Urls /\ q.active \in BOOLEAN /\ stored \in Nat /\ heard <= stored
  BY DEF DashInv, DashTypeOK
<1>4. /\ a \in Answers /\ a.url = q.url
      /\ ~a.failed => heard <= a.newest
  <2>1. CASE a = Answer(q.url)
    <3>1. PICK n \in Nat : n = Total(q.url)
      BY TotalType DEF DashInv
    <3>2. a = [url |-> q.url, failed |-> FALSE, total |-> n, newest |-> stored]
      BY <2>1, <3>1 DEF Answer
    <3> QED
      BY <1>3, <3>2 DEF Answers
  <2>2. CASE a = Failure(q.url)
    BY <1>3, <2>2 DEF Failure, Answers
  <2> QED
    BY <1>2, <2>1, <2>2
<1>5. ASSUME NEW r \in reqs'
      PROVE  \/ r \in reqs
             \/ r.url = q.url /\ r.active = q.active /\ r.ans = a
  BY <1>2
<1>6. Resource' = Resource
  BY <1>1 DEF Resource
<1>7. ReqType'
  BY <1>1, <1>3, <1>4, <1>5 DEF ReqType, DashInv, DashTypeOK, Urls, Answers
<1>8. ReqOwn'
  BY <1>1, <1>4, <1>5, <1>6 DEF ReqOwn, DashInv, Own
<1>9. (route.page = "activity" /\ pending = 0) => ReqTold'
  BY <1>1, <1>4, <1>5 DEF ReqTold, DashInv, Told
<1>10. DashTypeOK'
  BY <1>1, <1>7 DEF DashTypeOK, DashInv, ReqType, Urls, Answers
<1>11. Own'
  BY <1>1, <1>6, <1>8 DEF Own, DashInv, ReqOwn
<1>12. Told'
  BY <1>1, <1>9 DEF Told, DashInv, ReqTold
<1> QED
  BY <1>10, <1>11, <1>12 DEF DashInv

LEMMA ArriveKeeps ==
  ASSUME DashInv, NEW q \in reqs, Arrive(q)
  PROVE  DashInv'
<1>1. /\ UNCHANGED <<location, route, filter, page, pageSize, refresh, pending, asked,
                     stored, deleted, heard, acts>>
      /\ q.ans # None /\ reqs' = reqs \ {q}
      /\ data' = IF q.active /\ ~q.ans.failed THEN q.ans ELSE data
      /\ error' = (error \/ (q.active /\ q.ans.failed))
      /\ loading' = (loading /\ ~q.active)
  BY DEF Arrive, pageVars, storeVars
<1>2. q.active \in BOOLEAN /\ q.ans \in Answers /\ q.ans.failed \in BOOLEAN
  BY <1>1 DEF DashInv, DashTypeOK, Answers
<1>3. Resource' = Resource
  BY <1>1 DEF Resource
<1>4. error' \in BOOLEAN /\ loading' \in BOOLEAN
  BY <1>1, <1>2, Zenon DEF DashInv, DashTypeOK
<1>5. data' # None => data' \in Answers
  BY <1>1, <1>2, Zenon DEF DashInv, DashTypeOK
<1>6. DashTypeOK'
  BY <1>1, <1>4, <1>5 DEF DashTypeOK, DashInv, Urls, Answers
<1>7. q.active => /\ q.ans.url = asked /\ q.ans.url.res \in Resource
                  /\ q.ans.url.refresh <= refresh /\ q.ans.url = q.url
  BY <1>1, Zenon DEF DashInv, Own
<1>8. data' # None => data'.url.res \in Resource /\ data'.url.refresh <= refresh
  BY <1>1, <1>7, Zenon DEF DashInv, Own
<1>9. loading' \/ error' \/ (data' # None /\ data'.url = asked)
  <2>1. CASE q.active /\ q.ans.failed
    BY <1>1, <2>1, Zenon
  <2>2. CASE q.active /\ ~q.ans.failed
    BY <1>1, <1>7, <2>2, Zenon
  <2>3. CASE ~q.active
    BY <1>1, <2>3, Zenon DEF DashInv, Own
  <2> QED
    BY <2>1, <2>2, <2>3
<1>10. Own'
  BY <1>1, <1>3, <1>8, <1>9 DEF Own, DashInv
<1>11. Told'
  BY <1>1, <1>7, Zenon DEF Told, DashInv
<1> QED
  BY <1>6, <1>10, <1>11 DEF DashInv

(* What happens on a page leaves the requests and the answers alone. *)
LEMMA PageKeeps ==
  ASSUME DashInv,
         UNCHANGED <<location, route, asked, reqs, data, error, loading, stored, deleted, heard>>,
         filter' \in Filters, page' \in Nat \ {0}, pageSize' \in PageSizes,
         acts' \in 0..MaxActs,
         \/ refresh' = refresh /\ pending' = pending
         \/ refresh' = refresh + 1 /\ pending' = 0
  PROVE  DashInv'
<1>1. refresh \in Nat /\ pending \in Nat /\ refresh' \in Nat /\ pending' \in Nat /\ refresh <= refresh'
  BY DEF DashInv, DashTypeOK
<1>2. Resource' = Resource
  BY DEF Resource
<1>3. DashTypeOK'
  BY <1>1 DEF DashTypeOK, DashInv, Urls, Answers
<1>4. \A n \in Nat : n <= refresh => n <= refresh'
  BY <1>1
<1>5. /\ \A r \in reqs : r.url.refresh \in Nat
      /\ data # None => data.url.refresh \in Nat
  BY DEF DashInv, DashTypeOK, Urls, Answers
<1>6. Own'
  BY <1>2, <1>4, <1>5, Zenon DEF Own, DashInv
<1>7. Told'
  <2>1. CASE refresh' = refresh /\ pending' = pending
    BY <2>1 DEF Told, DashInv
  <2>2. CASE refresh' = refresh + 1 /\ pending' = 0
    <3>1. /\ \A r \in reqs : r.active => r.url.refresh # refresh'
          /\ data # None => data.url.refresh # refresh'
      BY <1>1, <1>5, <2>2 DEF Own, DashInv
    <3> QED
      BY <3>1, Zenon DEF Told
  <2> QED
    BY <2>1, <2>2
<1> QED
  BY <1>3, <1>6, <1>7 DEF DashInv

LEMMA DashSteps == DashInv /\ [DashNext]_dashVars => DashInv'
<1> SUFFICES ASSUME DashInv, [DashNext]_dashVars PROVE DashInv'
  OBVIOUS
<1>0. /\ filter \in Filters /\ page \in Nat \ {0} /\ pageSize \in PageSizes
      /\ acts \in 0..MaxActs /\ MaxActs \in Nat
  BY DashboardAssumption DEF DashInv, DashTypeOK
<1>1. ASSUME NEW path \in Paths, Go(path) \/ PopState(path) PROVE DashInv'
  BY <1>1, VisitKeeps DEF Go, PopState
<1>2. CASE Ask
  BY <1>2, AskKeeps
<1>3. ASSUME NEW r \in reqs, Serve(r) PROVE DashInv'
  BY <1>3, ServeKeeps
<1>4. ASSUME NEW r \in reqs, Arrive(r) PROVE DashInv'
  BY <1>4, ArriveKeeps
<1>5. CASE Clamp
  <2>1. PageCount \in Nat \ {0}
    BY PageCountType DEF DashInv
  <2> QED
    BY <1>0, <1>5, <2>1, PageKeeps DEF Clamp, OnPage, dataVars, storeVars
<1>6. CASE Reload
  <2>1. acts' \in 0..MaxActs
    BY <1>0, <1>6 DEF Reload, Act
  <2> QED
    BY <1>0, <1>6, <2>1, PageKeeps DEF Reload, OnPage, dataVars, storeVars
<1>7. ASSUME NEW f \in Filters, Update(f) PROVE DashInv'
  <2>1. acts' \in 0..MaxActs
    BY <1>0, <1>7 DEF Update, Act
  <2> QED
    BY <1>0, <1>7, <2>1, PageKeeps DEF Update, OnPage, dataVars, storeVars
<1>8. ASSUME NEW p \in 1..(MaxEvents + MaxActs), TurnPage(p) PROVE DashInv'
  <2>1. acts' \in 0..MaxActs
    BY <1>0, <1>8 DEF TurnPage, Act
  <2>2. p \in Nat \ {0}
    BY <1>8, DashboardAssumption
  <2> QED
    BY <1>0, <1>8, <2>1, <2>2, PageKeeps DEF TurnPage, OnPage, dataVars, storeVars
<1>9. ASSUME NEW s \in PageSizes, TurnSize(s) PROVE DashInv'
  <2>1. acts' \in 0..MaxActs
    BY <1>0, <1>9 DEF TurnSize, Act
  <2> QED
    BY <1>0, <1>9, <2>1, PageKeeps DEF TurnSize, OnPage, dataVars, storeVars
<1>10. ASSUME NEW i \in 1..stored, Receive(i) PROVE DashInv'
  <2>1. /\ UNCHANGED <<location, route, filter, page, pageSize, refresh, asked, reqs, data,
                       error, loading, stored, deleted, acts>>
        /\ heard' = i /\ pending' = pending + 1
    BY <1>10 DEF Receive, dataVars, storeVars
  <2>2. Resource' = Resource
    BY <2>1 DEF Resource
  <2>3. pending' \in Nat /\ pending' # 0 /\ heard' \in 0..stored
    BY <2>1 DEF DashInv, DashTypeOK
  <2>4. DashTypeOK'
    BY <2>1, <2>3 DEF DashTypeOK, DashInv, Urls, Answers
  <2>5. Own' /\ Told'
    BY <2>1, <2>2, <2>3 DEF Own, Told, DashInv
  <2> QED
    BY <2>4, <2>5 DEF DashInv
<1>11. CASE Collect \/ Retain
  <2>1. UNCHANGED <<location, route, filter, page, pageSize, refresh, pending, asked, reqs, data,
                    error, loading, heard, acts>>
    BY <1>11 DEF Collect, Retain, pageVars, dataVars
  <2>2. Resource' = Resource
    BY <2>1 DEF Resource
  <2>3. stored' \in 0..MaxEvents /\ deleted' \in 0..stored' /\ heard' \in 0..stored'
    <3>1. MaxEvents \in Nat /\ stored \in 0..MaxEvents /\ deleted \in 0..stored /\ heard \in 0..stored
      BY DashboardAssumption DEF DashInv, DashTypeOK
    <3> QED
      BY <1>11, <3>1 DEF Collect, Retain
  <2>4. DashTypeOK'
    BY <2>1, <2>3 DEF DashTypeOK, DashInv, Urls, Answers
  <2>5. Own' /\ Told'
    BY <2>1, <2>2 DEF Own, Told, DashInv
  <2> QED
    BY <2>4, <2>5 DEF DashInv
<1>12. CASE UNCHANGED dashVars
  BY <1>12 DEF dashVars, DashInv, Own, Told, DashTypeOK, Resource, Urls, Answers
<1> QED
  BY <1>1, <1>2, <1>3, <1>4, <1>5, <1>6, <1>7, <1>8, <1>9, <1>10, <1>11, <1>12 DEF DashNext

LEMMA DashInvariance == DashSpec => []DashInv
<1>1. DashInit => DashInv
  BY DashStarts
<1>2. DashInv /\ [DashNext]_dashVars => DashInv'
  BY DashSteps
<1> QED
  BY <1>1, <1>2, PTL DEF DashSpec

(* In every reachable state the route, the page, its requests and what it shows have
   their types. *)
THEOREM DashTypeCorrect == DashSpec => []DashTypeOK
<1>1. DashInv => DashTypeOK
  BY DEF DashInv
<1> QED
  BY <1>1, DashInvariance, PTL

(* In whatever order the answers of useData come in, late and failed ones included, a
   page shows only what it asked for itself, and, loaded without an error, the answer
   for the URL it stands on. *)
THEOREM PageShowsItsOwn == DashSpec => []ShownMatches
<1>1. DashInv => ShownMatches
  BY Zenon DEF DashInv, Own, ShownMatches
<1> QED
  BY <1>1, DashInvariance, PTL

(* Whatever was streamed, lost and reloaded, an activity log that has loaded and
   announces nothing was read after every event it was told of was stored. *)
THEOREM ActivityAnnounces == DashSpec => []NothingUnannounced
<1>1. DashInv => NothingUnannounced
  <2> SUFFICES ASSUME DashInv, route.page = "activity", asked = Url, ~loading, ~error,
                      pending = 0
               PROVE  heard <= data.newest
    BY DEF NothingUnannounced
  <2>1. HasData
    BY DEF HasData
  <2>2. Url.refresh = refresh
    BY <2>1, UrlType DEF DashInv
  <2>3. data # None /\ data.url = Url
    BY Zenon DEF DashInv, Own
  <2> QED
    BY <2>2, <2>3, Zenon DEF DashInv, Told
<1> QED
  BY <1>1, DashInvariance, PTL

(* The page buttons are right for the page shown and beyond it, in every state. *)
THEOREM ButtonsRight == DashSpec => []WindowRight
<1>1. DashInv => WindowRight
  <2> SUFFICES ASSUME DashInv, NEW p \in page..(page + 3), NEW n \in 0..6
               PROVE  LET w == paginationWindow(p, n)
                      IN  /\ Cardinality(w) = Min({5, Max({1, n})})
                          /\ w \subseteq 1..Max({1, n})
                          /\ p \in 1..n => p \in w
    BY DEF WindowRight
  <2>1. p \in Int /\ n \in Int
    BY DEF DashInv, DashTypeOK
  <2> QED
    BY <2>1, Window
<1> QED
  BY <1>1, DashInvariance, PTL
=============================================================================
