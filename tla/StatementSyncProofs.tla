------------------------- MODULE StatementSyncProofs -------------------------
(* Proofs about StatementSync, for any accounts, syncs, page sizes, caps   *)
(* and overlap: the slot of background syncs is given back, and no         *)
(* transaction is forgotten.                                               *)
EXTENDS StatementSync, FiniteSetTheorems, WellFoundedInduction, TLAPS

(* The slot names a sync that runs.  SlotIsHeld alone is not inductive:    *)
(* what a sync's step does to pc is known only of a function on Syncs, and *)
(* that a step of another sync leaves the holder running only when the     *)
(* holder is one of them.                                                  *)
SlotInv ==
    /\ pc \in [Syncs -> Steps]
    /\ busy \in Syncs \cup {None}
    /\ SlotIsHeld

LEMMA InitSlot == Init => SlotInv
BY DEF Init, SlotInv, SlotIsHeld, Steps

(* A step that keeps the slot and leaves p running.                        *)
LEMMA Runs ==
    ASSUME NEW p \in Syncs, NEW s \in Steps \ {"idle"},
           SlotInv, pc' = [pc EXCEPT ![p] = s], busy' = busy
    PROVE  SlotInv'
BY DEF SlotInv, SlotIsHeld

(* A step that ends p: the slot is given back exactly if it was p's.       *)
LEMMA Ends ==
    ASSUME NEW p \in Syncs, SlotInv, Return(p)
    PROVE  SlotInv'
<1>1. pc' = [pc EXCEPT ![p] = "idle"] /\ busy' = IF busy = p THEN None ELSE busy
  BY DEF Return
<1>2. pc' \in [Syncs -> Steps] /\ busy' \in Syncs \cup {None}
  BY <1>1 DEF SlotInv, Steps
<1>3. CASE busy = p
  <2>1. busy' = None
    BY <1>1, <1>3
  <2>. QED  BY <2>1, <1>2 DEF SlotInv, SlotIsHeld
<1>4. CASE busy # p
  <2>1. busy' = busy /\ (busy # None => pc'[busy] = pc[busy])
    BY <1>1, <1>4 DEF SlotInv
  <2>. QED  BY <2>1, <1>2 DEF SlotInv, SlotIsHeld
<1>. QED  BY <1>3, <1>4

LEMMA StepSlot == SlotInv /\ [Next]_vars => SlotInv'
<1>. SUFFICES ASSUME SlotInv, [Next]_vars PROVE SlotInv'
  OBVIOUS
<1>1. CASE UNCHANGED vars
  BY <1>1 DEF vars, job, SlotInv, SlotIsHeld
<1>2. CASE Tick
  BY <1>2 DEF Tick, job, SlotInv, SlotIsHeld
<1>3. ASSUME NEW a \in Accounts, MirrorAdd(a)
      PROVE  SlotInv'
  BY <1>3 DEF MirrorAdd, job, SlotInv, SlotIsHeld
<1>4. ASSUME NEW a \in Accounts, NEW d \in 0..LastDay, Post(a, d)
      PROVE  SlotInv'
  BY <1>4 DEF Post, job, SlotInv, SlotIsHeld
<1>5. ASSUME NEW p \in Syncs, SyncUser(p)
      PROVE  SlotInv'
  BY <1>5, Runs DEF SyncUser, Begin, Steps
<1>6. ASSUME NEW p \in Syncs, triggerSpendSyncInBackground(p)
      PROVE  SlotInv'
  BY <1>6 DEF triggerSpendSyncInBackground, Begin, SlotInv, SlotIsHeld, Steps
<1>7. ASSUME NEW p \in Syncs, SyncStep(p)
      PROVE  SlotInv'
  <2>1. CASE Done(p)
    BY <2>1, Ends DEF Done
  <2>2. CASE Crash(p)
    BY <2>2, Ends DEF Crash
  <2>3. CASE FirstPage(p)
    BY <2>3, Runs DEF FirstPage, Steps
  <2>9. CASE ReadWatermark(p)
    BY <2>9, Runs DEF ReadWatermark, Steps
  <2>10. CASE TakeTime(p)
    BY <2>10, Runs DEF TakeTime, Steps
  <2>4. CASE FurtherPage(p)
    BY <2>4, Runs DEF FurtherPage, Steps
  <2>5. CASE NextPage(p)
    BY <2>5, Runs DEF NextPage, UpsertSpendTransactions, Steps
  <2>6. CASE AccountRead(p)
    BY <2>6, Runs DEF AccountRead, UpsertSpendTransactions, Steps
  <2>7. CASE AccountCapped(p)
    BY <2>7, Runs DEF AccountCapped, UpsertSpendTransactions, Steps
  <2>8. CASE AccountFailed(p)
    BY <2>8, Runs DEF AccountFailed, Steps
  <2>. QED  BY <1>7, <2>1, <2>2, <2>3, <2>4, <2>5, <2>6, <2>7, <2>8, <2>9,
               <2>10 DEF SyncStep
<1>. QED  BY <1>1, <1>2, <1>3, <1>4, <1>5, <1>6, <1>7 DEF Next

(* However a background sync ends, its slot is given back, so the next     *)
(* refresh of the mirror can start one (triggerSpendSyncInBackground's     *)
(* deferred Delete).                                                       *)
THEOREM SlotGivenBack == Spec => []SlotIsHeld
<1>1. SlotInv => SlotIsHeld
  BY DEF SlotInv
<1>. QED  BY <1>1, InitSlot, StepSlot, PTL DEF Spec
-----------------------------------------------------------------------------
(* Least and greatest numbers.  The induction theorems of the library take *)
(* the property as an operator; that there is no infinite descent in Nat   *)
(* needs none.                                                             *)

Below == {ss \in Nat \X Nat : ss[1] < ss[2]}

LEMMA LeastNat ==
  ASSUME NEW S \in SUBSET Nat, S # {}
  PROVE  \E n \in S : \A m \in S : n <= m
<1>1. IsWellFoundedOn(Below, Nat)
  BY NatLessThanWellFounded DEF OpToRel, Below
<1>2. PICK n \in S : \A m \in S : ~(<<m, n>> \in Below)
  BY <1>1, WFMin
<1>3. ASSUME NEW m \in S PROVE n <= m
  <2>1. m \in Nat /\ n \in Nat
    OBVIOUS
  <2>2. ~(m < n)
    BY <1>2, <2>1 DEF Below
  <2> QED BY <2>1, <2>2
<1> QED BY <1>3

LEMMA GreatestNat ==
  ASSUME NEW n \in Nat, NEW S \in SUBSET (0..n), S # {}
  PROVE  \E g \in S : \A m \in S : m <= g
<1> DEFINE R == {n - m : m \in S}
<1>1. R \in SUBSET Nat /\ R # {}
  <2>1. \A m \in S : n - m \in Nat
    OBVIOUS
  <2> QED BY <2>1
<1>2. PICK l \in R : \A r \in R : l <= r
  BY <1>1, LeastNat
<1>3. PICK g \in S : l = n - g
  BY <1>2
<1>4. \A m \in S : n - g <= n - m
  BY <1>2, <1>3
<1>5. \A m \in S : m <= g
  BY <1>4
<1> QED BY <1>5

-----------------------------------------------------------------------------
(* The bank's list and its pages.                                          *)

Posting == [acct: Accounts, date: 0..LastDay]

Banked ==
    /\ clock \in 0..LastDay
    /\ bank \in Seq(Posting) /\ Len(bank) <= MaxPosts
    /\ \A t \in Txns : Date(t) <= clock
    /\ mirrored \subseteq Accounts
    /\ stored \subseteq Txns /\ excused \subseteq Txns

LEMMA TxnTypes ==
  ASSUME Banked
  PROVE  /\ Len(bank) \in Nat
         /\ \A t \in Txns : t \in Nat \ {0} /\ Date(t) \in 0..LastDay /\ Acct(t) \in Accounts
<1>1. Len(bank) \in Nat /\ \A t \in Txns : bank[t] \in Posting
  BY DEF Banked, Txns
<1>2. \A t \in Txns : t \in Nat \ {0}
  BY <1>1 DEF Txns
<1> QED BY <1>1, <1>2 DEF Date, Acct, Posting

LEMMA ListOrder ==
  ASSUME Banked
  PROVE  /\ \A t, u \in Txns : t = u \/ After(t, u) \/ After(u, t)
         /\ \A t, u \in Txns : ~(After(t, u) /\ After(u, t)) /\ ~After(t, t)
         /\ \A t, u, v \in Txns : After(t, u) /\ After(u, v) => After(t, v)
BY TxnTypes DEF After

(* A set of transactions has an oldest and a newest one. *)
LEMMA OldestExists ==
  ASSUME Banked, NEW S \in SUBSET Txns, S # {}
  PROVE  \E t \in S : \A u \in S : u = t \/ After(t, u)
<1> DEFINE D == {Date(t) : t \in S}
<1>1. D \in SUBSET Nat /\ D # {}
  BY TxnTypes
<1>2. PICK d \in D : \A e \in D : d <= e
  BY <1>1, LeastNat
<1> DEFINE F == {t \in S : Date(t) = d}
<1>3. F \in SUBSET Nat /\ F # {}
  BY TxnTypes
<1>4. PICK t \in F : \A u \in F : t <= u
  BY <1>3, LeastNat
<1>5. ASSUME NEW u \in S PROVE u = t \/ After(t, u)
  <2>1. Date(t) = d /\ d <= Date(u) /\ Date(u) \in Nat /\ d \in Nat /\ t \in Nat /\ u \in Nat
    BY <1>2, TxnTypes
  <2>2. Date(u) = d => t <= u
    BY <1>4
  <2> QED BY <2>1, <2>2 DEF After
<1> QED BY <1>5

LEMMA NewestExists ==
  ASSUME Banked, NEW S \in SUBSET Txns, S # {}
  PROVE  \E t \in S : \A u \in S : u = t \/ After(u, t)
<1> DEFINE D == {Date(t) : t \in S}
<1>1. D \in SUBSET (0..LastDay) /\ D # {} /\ LastDay \in Nat
  BY TxnTypes, SyncAssumption
<1>2. PICK d \in D : \A e \in D : e <= d
  BY <1>1, GreatestNat
<1> DEFINE F == {t \in S : Date(t) = d}
<1>3. F \in SUBSET (0..Len(bank)) /\ F # {} /\ Len(bank) \in Nat
  BY TxnTypes DEF Txns
<1>4. PICK t \in F : \A u \in F : u <= t
  BY <1>3, GreatestNat
<1>5. ASSUME NEW u \in S PROVE u = t \/ After(u, t)
  <2>1. Date(t) = d /\ Date(u) <= d /\ Date(u) \in Nat /\ d \in Nat /\ t \in Nat /\ u \in Nat
    BY <1>2, TxnTypes
  <2>2. Date(u) = d => u <= t
    BY <1>4
  <2> QED BY <2>1, <2>2 DEF After
<1> QED BY <1>5

LEMMA OldestIs ==
  ASSUME Banked, NEW S \in SUBSET Txns, S # {}
  PROVE  Oldest(S) \in S
BY OldestExists DEF Oldest

LEMMA TxnsFinite ==
  ASSUME Banked, NEW S \in SUBSET Txns
  PROVE  IsFiniteSet(S) /\ Cardinality(S) \in Nat
<1>1. IsFiniteSet(Txns)
  BY TxnTypes, FS_Interval DEF Txns
<1> QED BY <1>1, FS_Subset, FS_CardinalityType

(* A row that is not on a page comes after all that are, and is announced. *)
LEMMA PageSplits ==
  ASSUME Banked, NEW S \in SUBSET Txns, NEW t \in S
  PROVE  \/ t \in Page(S).rows
         \/ Page(S).more /\ \A u \in Page(S).rows : After(t, u)
<1> DEFINE Newer(u) == {v \in S : After(u, v)}
<1>1. \A u \in S : /\ Newer(u) \in SUBSET Txns /\ IsFiniteSet(Newer(u))
                   /\ Cardinality(Newer(u)) \in Nat
  BY TxnsFinite
<1>2. Page(S).rows = {u \in S : Cardinality(Newer(u)) < PageSize}
  BY DEF Page, FirstRows
<1>3. SUFFICES ASSUME t \notin Page(S).rows
               PROVE  Page(S).more /\ \A u \in Page(S).rows : After(t, u)
  OBVIOUS
<1>4. Cardinality(Newer(t)) >= PageSize
  <2>1. ~(Cardinality(Newer(t)) < PageSize) /\ Cardinality(Newer(t)) \in Nat
    BY <1>1, <1>2, <1>3
  <2> HIDE DEF Newer
  <2> QED BY <2>1, SyncAssumption
<1>5. Page(S).more
  <2>1. IsFiniteSet(S) /\ Cardinality(S) \in Nat
    BY TxnsFinite
  <2>2. IsFiniteSet(S \ {t}) /\ Cardinality(S \ {t}) = Cardinality(S) - 1
    BY <2>1, FS_RemoveElement
  <2>3. Newer(t) \subseteq S \ {t}
    BY ListOrder
  <2>4. Cardinality(Newer(t)) <= Cardinality(S \ {t})
    BY <2>2, <2>3, FS_Subset
  <2> HIDE DEF Newer
  <2>5. Cardinality(S) > PageSize
    BY <1>1, <1>4, <2>1, <2>2, <2>4, SyncAssumption
  <2> QED BY <2>5 DEF Page
<1>6. ASSUME NEW u \in Page(S).rows PROVE After(t, u)
  <2>1. u \in S /\ Cardinality(Newer(u)) < PageSize
    BY <1>2, <1>6
  <2>2. ASSUME After(u, t) PROVE FALSE
    <3>1. Newer(t) \subseteq Newer(u)
      BY <2>1, <2>2, ListOrder
    <3>2. Cardinality(Newer(t)) <= Cardinality(Newer(u))
      BY <1>1, <2>1, <3>1, FS_Subset
    <3> QED BY <1>1, <1>4, <2>1, <3>2, SyncAssumption
  <2> QED BY <1>3, <2>1, <2>2, ListOrder
<1> QED BY <1>5, <1>6

LEMMA PageTypes ==
  ASSUME Banked, NEW S \in SUBSET Txns
  PROVE  /\ Page(S) \in [rows: SUBSET Nat, more: BOOLEAN]
         /\ Page(S).rows \subseteq S
         /\ Page(S).more => Page(S).rows # {}
<1>1. Page(S).rows \subseteq S
  BY DEF Page, FirstRows
<1>2. Page(S) \in [rows: SUBSET Nat, more: BOOLEAN]
  BY <1>1, TxnTypes DEF Page
<1>3. ASSUME Page(S).more PROVE Page(S).rows # {}
  <2>1. Cardinality(S) > PageSize
    BY <1>3 DEF Page
  <2>2. S # {}
    BY <2>1, FS_EmptySet, SyncAssumption
  <2>3. PICK t \in S : \A u \in S : u = t \/ After(u, t)
    BY <2>2, NewestExists
  <2>4. {u \in S : After(t, u)} = {}
    BY <2>3, ListOrder
  <2>5. Cardinality({u \in S : After(t, u)}) = 0
    BY <2>4, FS_EmptySet
  <2>6. Cardinality({u \in S : After(t, u)}) < PageSize
    BY <2>5, SyncAssumption
  <2> QED BY <2>6 DEF Page, FirstRows
<1> QED BY <1>1, <1>2, <1>3

(* The watermark is the date of a stored row, and no stored row is newer.  *)
LEMMA WatermarkIsLatest ==
  ASSUME Banked, stored # {}
  PROVE  /\ LatestSpendSync \in {Date(s) : s \in stored}
         /\ \A s \in stored : Date(s) <= LatestSpendSync
<1>1. PICK t \in stored : \A u \in stored : u = t \/ After(u, t)
  BY NewestExists DEF Banked
<1>2. \A u \in stored : Date(u) <= Date(t)
  BY <1>1, TxnTypes DEF After, Banked
<1>3. \E d \in {Date(u) : u \in stored} : \A u \in stored : Date(u) <= d
  BY <1>2
<1> QED BY <1>3 DEF LatestSpendSync
-----------------------------------------------------------------------------
(* The invariant.                                                          *)

SyncsTyped ==
    /\ pc \in [Syncs -> Steps]
    /\ from \in [Syncs -> Int] /\ to \in [Syncs -> 0..LastDay]
    /\ todo \in [Syncs -> SUBSET Accounts]
    /\ cur \in [Syncs -> Accounts \cup {None}]
    /\ cursor \in [Syncs -> Nat]
    /\ page \in [Syncs -> 0..MaxPages - 1]
    /\ ans \in [Syncs -> [rows: SUBSET Nat, more: BOOLEAN]]

(* What a sync holds is of the bank's list and of its window, which began  *)
(* within the reach of the watermark.                                      *)
SyncFits(p) ==
    /\ to[p] <= clock
    /\ pc[p] = "idle" => todo[p] = {}
    /\ ~Reading(p) => cur[p] = None
    /\ cur[p] = None => cursor[p] = 0
    /\ pc[p] = "write" => cur[p] # None
    /\ pc[p] # "write" => ans[p] = NoAnswer
    /\ cursor[p] \in {0} \cup Txns /\ ans[p].rows \subseteq Txns
    /\ ans[p].more => ans[p].rows # {}
    /\ \A u \in ans[p].rows : Date(u) <= to[p]
    /\ pc[p] = "since" \/ Reading(p) =>
          from[p] <= 0 \/ \E s \in stored : from[p] <= Date(s) - Overlap

(* Sync p is sure to reach t: Pending, but for what was posted to an       *)
(* account after the page it is on was read.                               *)
Reaches(p, t) ==
    \/ Reading(p) /\ \E a \in todo[p] : InWindow(p, a, t)
    \/ /\ cur[p] # None /\ t \in Unread(p)
       /\ \/ pc[p] = "read"
          \/ t \in ans[p].rows
          \/ ans[p].more /\ \A u \in ans[p].rows : After(t, u)

(* Every missing transaction of its window that is out of the overlap of   *)
(* the newest row p may store is one that p will reach.                    *)
Covers(p) ==
    Reading(p) => \A t \in Missing :
        from[p] <= Date(t) => Reaches(p, t) \/ Date(t) >= to[p] - Overlap

Behind(t) == \E s \in stored : Date(t) < Date(s) - Overlap
Kept == \A t \in Missing : Behind(t) => \E p \in Syncs : Reaches(p, t)

SyncInv ==
    /\ Banked /\ SyncsTyped
    /\ \A p \in Syncs : SyncFits(p) /\ Covers(p)
    /\ Kept

-----------------------------------------------------------------------------
(* Steps of one sync.                                                      *)

Same(q) ==
    /\ pc'[q] = pc[q] /\ from'[q] = from[q] /\ to'[q] = to[q] /\ todo'[q] = todo[q]
    /\ cur'[q] = cur[q] /\ cursor'[q] = cursor[q] /\ ans'[q] = ans[q]

LEMMA SameFits ==
  ASSUME bank' = bank, clock' = clock, stored \subseteq stored', NEW q, Same(q), SyncFits(q)
  PROVE  SyncFits(q)'
BY DEF SyncFits, Same, Txns, Date, Reading

LEMMA SameReaches ==
  ASSUME bank' = bank, NEW q, Same(q), NEW t, Reaches(q, t)
  PROVE  Reaches(q, t)'
BY DEF Reaches, Same, InWindow, Unread, Txns, Date, Acct, After, Reading

LEMMA MissingShrinks ==
  ASSUME bank' = bank, mirrored' = mirrored, stored \subseteq stored', excused \subseteq excused'
  PROVE  Missing' \subseteq Missing
BY DEF Missing, Txns, Acct

(* A sync may stop reaching a transaction only by storing it or by what    *)
(* excuses it.                                                             *)
LEMMA SyncStepKeeps ==
  ASSUME SyncInv, NEW p \in Syncs, UNCHANGED bankside,
         stored \subseteq stored', stored' \subseteq stored \cup ans[p].rows,
         excused \subseteq excused', excused' \subseteq Txns,
         SyncsTyped', SyncFits(p)', \A q \in Syncs \ {p} : Same(q),
         \A t \in Missing' : Reaches(p, t) => Reaches(p, t)',
         Covers(p)'
  PROVE  SyncInv'
<1>1. bank' = bank /\ clock' = clock /\ mirrored' = mirrored
  BY DEF bankside
<1>2. Missing' \subseteq Missing
  BY <1>1, MissingShrinks
<1>3. SyncFits(p) /\ Covers(p) /\ Banked /\ SyncsTyped
  BY DEF SyncInv
<1>4. Banked'
  BY <1>1, <1>3 DEF Banked, SyncFits, Txns, Date, Reading
<1>5. ASSUME NEW q \in Syncs, NEW t \in Missing', Reaches(q, t)
      PROVE  Reaches(q, t)'
  BY <1>1, <1>5, SameReaches
<1>6. ASSUME NEW q \in Syncs
      PROVE  SyncFits(q)' /\ Covers(q)'
  <2>1. CASE q # p
    <3>1. Same(q) /\ SyncFits(q) /\ Covers(q)
      BY <2>1 DEF SyncInv
    <3>2. Covers(q)'
      BY <1>1, <1>2, <1>5, <3>1 DEF Covers, Same, Date, Reading
    <3> QED BY <1>1, <3>1, <3>2, SameFits
  <2> QED BY <2>1
<1>7. ASSUME NEW t \in Missing', Behind(t)' PROVE \E q \in Syncs : Reaches(q, t)'
  <2>1. CASE Behind(t)
    BY <1>2, <1>5, <2>1 DEF SyncInv, Kept
  <2>2. CASE ~Behind(t)
    <3>1. PICK s \in stored' : Date(t) < Date(s) - Overlap
      BY <1>1, <1>7 DEF Behind, Date
    <3>2. s \in ans[p].rows /\ s \notin stored
      BY <2>2, <3>1 DEF Behind
    <3>3. Reading(p)
      BY <1>3, <3>2 DEF SyncFits, NoAnswer, Reading
    <3>4. t \in Missing /\ t \in Txns /\ s \in Txns
      BY <1>2, <1>3, <3>2 DEF Missing, SyncFits, Reading
    <3>5. /\ Date(t) \in Nat /\ Date(s) \in Nat /\ Date(s) <= to[p]
          /\ to[p] \in Int /\ from[p] \in Int /\ Overlap \in Nat
      BY <1>3, <3>2, <3>4, TxnTypes, SyncAssumption DEF SyncFits, SyncsTyped, Reading
    <3>6. from[p] <= Date(t)
      <4>1. CASE from[p] <= 0
        BY <3>5, <4>1
      <4>2. ASSUME NEW r \in stored, from[p] <= Date(r) - Overlap PROVE from[p] <= Date(t)
        <5>1. ~(Date(t) < Date(r) - Overlap)
          BY <2>2 DEF Behind
        <5>2. Date(r) \in Nat
          BY <1>3, TxnTypes DEF Banked
        <5> QED BY <3>5, <4>2, <5>1, <5>2
      <4> QED BY <1>3, <3>3, <4>1, <4>2 DEF SyncFits, Reading
    <3>7. ~(Date(t) >= to[p] - Overlap)
      BY <3>1, <3>5
    <3>8. Reaches(p, t)
      BY <1>3, <3>3, <3>4, <3>6, <3>7 DEF Covers, Reading
    <3> QED BY <1>5, <3>8
  <2> QED BY <2>1, <2>2
<1> QED BY <1>4, <1>6, <1>7 DEF SyncInv, Kept

(* A running sync that stays within its window.                            *)
LEMMA CoversOn ==
  ASSUME SyncInv, NEW p \in Syncs, UNCHANGED bankside, Reading(p),
         from'[p] = from[p], to'[p] = to[p],
         stored \subseteq stored', excused \subseteq excused',
         \A t \in Missing' : Reaches(p, t) => Reaches(p, t)'
  PROVE  Covers(p)'
<1>1. bank' = bank /\ mirrored' = mirrored /\ Covers(p)
  BY DEF bankside, SyncInv
<1>2. Missing' \subseteq Missing
  BY <1>1, MissingShrinks
<1> QED BY <1>1, <1>2 DEF Covers, Date, Reading

LEMMA BeginKeeps ==
  ASSUME SyncInv, NEW p \in Syncs, Begin(p)
  PROVE  SyncInv'
<1>0. SyncFits(p) /\ Banked /\ SyncsTyped
  BY DEF SyncInv
<1>1. /\ pc[p] = "idle" /\ todo' = [todo EXCEPT ![p] = mirrored]
      /\ pc' = [pc EXCEPT ![p] = "listed"]
      /\ UNCHANGED <<bankside, stored, excused, from, to, cur, cursor, page, ans>>
  BY DEF Begin, scan
<1>2. SyncsTyped'
  BY <1>0, <1>1 DEF SyncsTyped, Steps, Banked
<1>3. pc'[p] = "listed" /\ \A q \in Syncs \ {p} : Same(q)
  BY <1>0, <1>1 DEF SyncsTyped, Same
<1>4. SyncFits(p)' /\ Covers(p)'
  BY <1>0, <1>1, <1>3 DEF SyncFits, Covers, Reading, bankside, Txns, Date
<1>5. \A t \in Missing' : ~Reaches(p, t)
  BY <1>0, <1>1 DEF Reaches, SyncFits, Reading
<1> QED BY <1>0, <1>1, <1>2, <1>3, <1>4, <1>5, SyncStepKeeps DEF Banked

LEMMA ReadWatermarkKeeps ==
  ASSUME SyncInv, NEW p \in Syncs, ReadWatermark(p)
  PROVE  SyncInv'
<1>0. SyncFits(p) /\ Banked /\ SyncsTyped
  BY DEF SyncInv
<1> DEFINE f == From(LatestSpendSync)
<1>1. /\ pc[p] = "listed" /\ from' = [from EXCEPT ![p] = f]
      /\ pc' = [pc EXCEPT ![p] = "since"]
      /\ UNCHANGED <<bankside, stored, excused, to, todo, cur, cursor, page, ans>>
  BY DEF ReadWatermark, scan
<1>2. f \in Int /\ (f <= 0 \/ \E s \in stored : f <= Date(s) - Overlap)
  <2>1. CASE stored = {}
    <3>1. f = Epoch - Overlap
      BY <2>1 DEF From, LatestSpendSync, Epoch, ZeroTime
    <3> QED BY <3>1, SyncAssumption DEF Epoch
  <2>2. CASE stored # {}
    <3>1. PICK s \in stored : LatestSpendSync = Date(s)
      BY <1>0, <2>2, WatermarkIsLatest
    <3>2. Date(s) \in Nat
      BY <1>0, <3>1, TxnTypes DEF Banked
    <3>3. f = Date(s) - Overlap
      BY <3>1, <3>2 DEF From, ZeroTime
    <3> QED BY <3>1, <3>2, <3>3, SyncAssumption
  <2> QED BY <2>1, <2>2
<1> HIDE DEF f
<1>3. SyncsTyped'
  BY <1>0, <1>1, <1>2 DEF SyncsTyped, Steps
<1>4. pc'[p] = "since" /\ from'[p] = f /\ \A q \in Syncs \ {p} : Same(q)
  BY <1>0, <1>1 DEF SyncsTyped, Same
<1>5. SyncFits(p)' /\ Covers(p)'
  BY <1>0, <1>1, <1>2, <1>4 DEF SyncFits, Covers, Reading, bankside, Txns, Date
<1>6. \A t \in Missing' : ~Reaches(p, t)
  BY <1>0, <1>1 DEF Reaches, SyncFits, Reading
<1> QED BY <1>0, <1>1, <1>3, <1>4, <1>5, <1>6, SyncStepKeeps DEF Banked

(* What a sync is about to read it reaches, unless its account was not     *)
(* listed.                                                                 *)
LEMMA TakeTimeKeeps ==
  ASSUME SyncInv, NEW p \in Syncs, TakeTime(p)
  PROVE  SyncInv'
<1>0. SyncFits(p) /\ Banked /\ SyncsTyped
  BY DEF SyncInv
<1>1. /\ pc[p] = "since" /\ to' = [to EXCEPT ![p] = clock]
      /\ pc' = [pc EXCEPT ![p] = "read"] /\ excused' = excused \cup Unlisted(p)
      /\ UNCHANGED <<bankside, stored, from, todo, cur, cursor, page, ans>>
  BY DEF TakeTime, scan
<1>2. excused' \subseteq Txns
  BY <1>0, <1>1 DEF Banked, Unlisted
<1>3. SyncsTyped'
  BY <1>0, <1>1 DEF SyncsTyped, Steps, Banked
<1>4. /\ pc'[p] = "read" /\ todo'[p] = todo[p] /\ from'[p] = from[p] /\ to'[p] = clock
      /\ \A q \in Syncs \ {p} : Same(q)
  BY <1>0, <1>1 DEF SyncsTyped, Same
<1>5. bank' = bank /\ clock' = clock /\ mirrored' = mirrored /\ clock \in Int
  BY <1>0, <1>1 DEF bankside, Banked
<1>6. SyncFits(p)'
  BY <1>0, <1>1, <1>4, <1>5 DEF SyncFits, Reading, Txns, Date, NoAnswer
<1>7. Covers(p)'
  <2> SUFFICES ASSUME NEW t \in Missing', from[p] <= Date(t)
               PROVE  Reaches(p, t)' \/ Date(t) >= clock - Overlap
    BY <1>4, <1>5 DEF Covers, Date, Reading
  <2>1. t \in Txns /\ Acct(t) \in mirrored /\ t \notin Unlisted(p)
    BY <1>1, <1>5 DEF Missing, Txns, Acct
  <2>2. Date(t) \in Int /\ Date(t) <= clock
    BY <1>0, <2>1, TxnTypes DEF Banked
  <2>3. CASE Acct(t) \in todo[p]
    BY <1>4, <1>5, <2>2, <2>3 DEF Reaches, Reading, InWindow, Acct, Date
  <2>4. CASE Acct(t) \notin todo[p]
    <3>1. ~(Date(t) < clock - Overlap)
      BY <2>1, <2>4 DEF Unlisted
    <3> QED BY <1>5, <2>2, <3>1, SyncAssumption
  <2> QED BY <2>3, <2>4
<1>8. \A t \in Missing' : ~Reaches(p, t)
  BY <1>0, <1>1 DEF Reaches, SyncFits, Reading
<1> QED BY <1>0, <1>1, <1>2, <1>3, <1>4, <1>6, <1>7, <1>8, SyncStepKeeps DEF Banked

(* A sync that returns has excused what it would have reached.             *)
LEMMA ReturnKeeps ==
  ASSUME SyncInv, NEW p \in Syncs, Return(p), LeaveAccount(p), UNCHANGED <<bankside, stored>>,
         excused \subseteq excused', excused' \subseteq Txns,
         \A t \in Missing' : ~Reaches(p, t)
  PROVE  SyncInv'
<1>0. SyncFits(p) /\ Banked /\ SyncsTyped
  BY DEF SyncInv
<1>1. /\ SyncsTyped' /\ \A q \in Syncs \ {p} : Same(q)
      /\ pc'[p] = "idle" /\ todo'[p] = {} /\ cur'[p] = None /\ cursor'[p] = 0
      /\ ans'[p] = NoAnswer /\ to'[p] = 0
  BY <1>0, SyncAssumption
  DEF Return, LeaveAccount, SyncsTyped, Steps, Same, NoAnswer
<1>2. SyncFits(p)'
  BY <1>0, <1>1 DEF SyncFits, bankside, Banked, NoAnswer, Reading
<1>3. Covers(p)'
  BY <1>1 DEF Covers, Reading
<1> QED BY <1>0, <1>1, <1>2, <1>3, SyncStepKeeps DEF Banked

LEMMA CrashKeeps == ASSUME SyncInv, NEW p \in Syncs, Crash(p) PROVE SyncInv'
<1>0. Banked /\ SyncFits(p)
  BY DEF SyncInv
<1>1. /\ Return(p) /\ LeaveAccount(p) /\ UNCHANGED <<bankside, stored>>
      /\ excused' = excused \cup Ahead(p)
  BY DEF Crash
<1>2. Ahead(p) \subseteq Txns
  BY DEF Ahead, Unread
<1>3. \A t \in Txns : Reaches(p, t) => t \in Ahead(p)
  BY <1>0 DEF SyncFits, Reaches, Ahead, Unread, Reading
<1>4. \A t \in Missing' : t \in Txns /\ t \notin excused'
  BY <1>1 DEF Missing, bankside, Txns
<1> QED BY <1>0, <1>1, <1>2, <1>3, <1>4, ReturnKeeps DEF Banked

LEMMA DoneKeeps == ASSUME SyncInv, NEW p \in Syncs, Done(p) PROVE SyncInv'
<1>0. SyncFits(p) /\ Banked /\ SyncsTyped
  BY DEF SyncInv
<1>1. /\ pc[p] = "read" /\ cur[p] = None /\ todo[p] = {} /\ Return(p)
      /\ UNCHANGED <<bankside, stored, excused, cur, cursor, page, ans>>
  BY DEF Done, scan
<1>2. \A t : ~Reaches(p, t)
  BY <1>1 DEF Reaches, Reading
<1>3. /\ SyncsTyped' /\ \A q \in Syncs \ {p} : Same(q)
      /\ pc'[p] = "idle" /\ todo'[p] = {} /\ to'[p] = 0
  BY <1>0, <1>1, SyncAssumption DEF Return, SyncsTyped, Steps, Same
<1>4. SyncFits(p)'
  BY <1>0, <1>1, <1>3 DEF SyncFits, bankside, Banked, NoAnswer, Reading
<1>5. Covers(p)'
  BY <1>3 DEF Covers, Reading
<1> QED BY <1>0, <1>1, <1>2, <1>3, <1>4, <1>5, SyncStepKeeps DEF Banked

(* A page is asked for of rows that p has still to read.                   *)
LEMMA AskKeeps ==
  ASSUME SyncInv, NEW p \in Syncs, pc[p] = "read", NEW a \in Accounts, NEW S,
         S = {t \in Txns : InWindow(p, a, t) /\ (cursor[p] = 0 \/ After(t, cursor[p]))},
         cur' = [cur EXCEPT ![p] = a], NEW rest, todo' = [todo EXCEPT ![p] = rest],
         (cur[p] = None /\ rest = todo[p] \ {a}) \/ (cur[p] = a /\ rest = todo[p]),
         ans' = [ans EXCEPT ![p] = Page(S)], pc' = [pc EXCEPT ![p] = "write"],
         UNCHANGED <<bankside, stored, excused, from, to, cursor, page>>
  PROVE  SyncInv'
<1>0. SyncFits(p) /\ Banked /\ SyncsTyped /\ S \in SUBSET Txns
  BY DEF SyncInv
<1>1. /\ Page(S) \in [rows: SUBSET Nat, more: BOOLEAN] /\ Page(S).rows \subseteq S
      /\ Page(S).more => Page(S).rows # {}
  BY <1>0, PageTypes
<1>2. /\ SyncsTyped' /\ \A q \in Syncs \ {p} : Same(q)
      /\ pc'[p] = "write" /\ cur'[p] = a /\ ans'[p] = Page(S) /\ todo'[p] = rest
      /\ from'[p] = from[p] /\ to'[p] = to[p] /\ cursor'[p] = cursor[p]
  BY <1>0, <1>1 DEF SyncsTyped, Steps, Same
<1>3. bank' = bank /\ clock' = clock /\ mirrored' = mirrored /\ stored' = stored /\ a # None
  BY SyncAssumption DEF bankside
<1>4. SyncFits(p)'
  <2>1. \A u \in Page(S).rows : u \in Txns /\ Date(u) <= to[p]
    BY <1>1 DEF InWindow
  <2> QED BY <1>0, <1>1, <1>2, <1>3, <2>1 DEF SyncFits, Txns, Date, Reading
<1>5. ASSUME NEW t \in Missing', Reaches(p, t) PROVE Reaches(p, t)'
  <2>1. ASSUME NEW b \in rest, InWindow(p, b, t) PROVE Reaches(p, t)'
    BY <1>2, <1>3, <2>1 DEF Reaches, InWindow, Acct, Date, Reading
  <2>2. CASE t \in S
    <3>1. t \in Unread(p)'
      BY <1>2, <1>3, <2>2 DEF Unread, InWindow, Acct, Date, After, Txns
    <3>2. t \in Page(S).rows \/ (Page(S).more /\ \A u \in Page(S).rows : After(t, u))
      BY <1>0, <2>2, PageSplits
    <3> QED BY <1>2, <1>3, <3>1, <3>2 DEF Reaches, After, Date, Reading
  <2>3. t \in Txns
    BY <1>3 DEF Missing, Txns
  <2>4. CASE cur[p] = None
    <3>1. PICK b \in todo[p] : InWindow(p, b, t)
      BY <1>5, <2>4 DEF Reaches, Reading
    <3>2. b = a => t \in S
      BY <1>0, <2>3, <2>4, <3>1 DEF SyncFits, Reading
    <3> QED BY <1>3, <2>1, <2>2, <2>4, <3>1, <3>2
  <2>5. CASE cur[p] = a
    <3>1. t \in Unread(p) => t \in S
      BY <2>5 DEF Unread
    <3> QED BY <1>3, <1>5, <2>1, <2>2, <2>5, <3>1 DEF Reaches, Reading
  <2> QED BY <2>4, <2>5
<1>6. Covers(p)'
  BY <1>2, <1>5, CoversOn DEF Reading
<1> QED BY <1>0, <1>2, <1>4, <1>5, <1>6, SyncStepKeeps DEF Banked

LEMMA PagesKeep ==
  ASSUME SyncInv, NEW p \in Syncs, FirstPage(p) \/ FurtherPage(p)
  PROVE  SyncInv'
<1>0. SyncFits(p) /\ Banked /\ SyncsTyped
  BY DEF SyncInv
<1>1. CASE FirstPage(p)
  <2>1. PICK a \in todo[p] :
          /\ cur' = [cur EXCEPT ![p] = a] /\ todo' = [todo EXCEPT ![p] = @ \ {a}]
          /\ ans' = [ans EXCEPT ![p] = Page({t \in Txns : InWindow(p, a, t)})]
    BY <1>1 DEF FirstPage
  <2> DEFINE S == {t \in Txns : InWindow(p, a, t) /\ (cursor[p] = 0 \/ After(t, cursor[p]))}
  <2>2. S = {t \in Txns : InWindow(p, a, t)} /\ a \in Accounts
    BY <1>0, <1>1, <2>1 DEF FirstPage, SyncFits, SyncsTyped, Reading
  <2>3. ans' = [ans EXCEPT ![p] = Page(S)]
    BY <2>1, <2>2
  <2> HIDE DEF S
  <2> QED BY <1>1, <2>1, <2>2, <2>3, AskKeeps DEF FirstPage, S
<1>2. CASE FurtherPage(p)
  <2>1. PICK a \in Accounts : a = cur[p]
    BY <1>0, <1>2 DEF FurtherPage, SyncsTyped
  <2>2. Unread(p) = {t \in Txns : InWindow(p, a, t) /\ (cursor[p] = 0 \/ After(t, cursor[p]))}
    BY <2>1 DEF Unread
  <2>3. /\ cur' = [cur EXCEPT ![p] = a] /\ todo' = [todo EXCEPT ![p] = todo[p]]
        /\ ans' = [ans EXCEPT ![p] = Page(Unread(p))]
    BY <1>0, <1>2, <2>1 DEF FurtherPage, SyncsTyped
  <2> QED BY <1>2, <2>1, <2>2, <2>3, AskKeeps DEF FurtherPage
<1> QED BY <1>1, <1>2

(* What becomes of the page that p holds: the rows are stored, or it fails. *)
LEMMA WriteKeeps ==
  ASSUME SyncInv, NEW p \in Syncs, pc[p] = "write", pc' = [pc EXCEPT ![p] = "read"],
         UNCHANGED <<bankside, from, to, todo>>,
         stored' \in {stored, stored \cup ans[p].rows},
         excused \subseteq excused', excused' \subseteq Txns,
         LeaveAccount(p), \A t \in Missing' : t \notin Unread(p)
                             \/ (t \notin ans[p].rows /\ ~ans[p].more)
  PROVE  SyncInv'
<1>0. SyncFits(p) /\ Banked /\ SyncsTyped
  BY DEF SyncInv
<1>1. /\ SyncsTyped' /\ \A q \in Syncs \ {p} : Same(q)
      /\ pc'[p] = "read" /\ cur'[p] = None /\ ans'[p] = NoAnswer /\ todo'[p] = todo[p]
      /\ from'[p] = from[p] /\ to'[p] = to[p] /\ cursor'[p] = 0
  BY <1>0, SyncAssumption DEF SyncsTyped, Steps, Same, LeaveAccount, NoAnswer
<1>2. bank' = bank /\ clock' = clock /\ mirrored' = mirrored
  BY DEF bankside
<1>3. SyncFits(p)'
  BY <1>0, <1>1, <1>2 DEF SyncFits, NoAnswer, Txns, Date, Reading
<1>4. ASSUME NEW t \in Missing', Reaches(p, t) PROVE Reaches(p, t)'
  BY <1>1, <1>2, <1>4 DEF Reaches, InWindow, Acct, Date, Reading
<1>5. Covers(p)'
  BY <1>1, <1>4, CoversOn DEF Reading
<1> QED BY <1>0, <1>1, <1>3, <1>4, <1>5, SyncStepKeeps DEF Banked

LEMMA LeavesKeep ==
  ASSUME SyncInv, NEW p \in Syncs, AccountRead(p) \/ AccountCapped(p) \/ AccountFailed(p)
  PROVE  SyncInv'
<1>0. SyncFits(p) /\ Banked /\ Unread(p) \subseteq Txns
  BY DEF SyncInv, Unread
<1>1. \A t \in Missing' : t \notin stored' /\ t \notin excused'
  BY DEF Missing
<1>2. CASE AccountRead(p)
  BY <1>0, <1>1, <1>2, WriteKeeps DEF AccountRead, UpsertSpendTransactions, Banked
<1>3. CASE AccountCapped(p)
  BY <1>0, <1>1, <1>3, WriteKeeps DEF AccountCapped, UpsertSpendTransactions, Banked
<1>4. CASE AccountFailed(p)
  BY <1>0, <1>1, <1>4, WriteKeeps DEF AccountFailed, Banked
<1> QED BY <1>2, <1>3, <1>4

(* The cursor moves to the last row of the page: what comes after every row *)
(* comes after the cursor.                                                  *)
LEMMA NextPageKeeps == ASSUME SyncInv, NEW p \in Syncs, NextPage(p) PROVE SyncInv'
<1>0. SyncFits(p) /\ Banked /\ SyncsTyped
  BY DEF SyncInv
<1>1. /\ pc[p] = "write" /\ pc' = [pc EXCEPT ![p] = "read"] /\ ans[p].more
      /\ page[p] + 1 < MaxPages /\ page' = [page EXCEPT ![p] = @ + 1]
      /\ cursor' = [cursor EXCEPT ![p] = Oldest(ans[p].rows)]
      /\ ans' = [ans EXCEPT ![p] = NoAnswer] /\ stored' = stored \cup ans[p].rows
      /\ UNCHANGED <<bankside, from, to, todo, excused, cur>>
  BY DEF NextPage, UpsertSpendTransactions, MorePages
<1> DEFINE c == Oldest(ans[p].rows)
<1>2. c \in ans[p].rows /\ c \in Txns /\ c \in Nat /\ c # 0
  BY <1>0, <1>1, OldestIs, TxnTypes DEF SyncFits, Reading
<1> HIDE DEF c
<1>3. page[p] + 1 \in 0..MaxPages - 1
  BY <1>0, <1>1, SyncAssumption DEF SyncsTyped
<1>4. cursor' = [cursor EXCEPT ![p] = c]
  BY <1>1 DEF c
<1>5. /\ SyncsTyped' /\ \A q \in Syncs \ {p} : Same(q)
      /\ pc'[p] = "read" /\ cur'[p] = cur[p] /\ ans'[p] = NoAnswer /\ todo'[p] = todo[p]
      /\ from'[p] = from[p] /\ to'[p] = to[p] /\ cursor'[p] = c
  BY <1>0, <1>1, <1>2, <1>3, <1>4 DEF SyncsTyped, Steps, Same, NoAnswer
<1>6. bank' = bank /\ clock' = clock /\ mirrored' = mirrored
  BY <1>1 DEF bankside
<1>7. SyncFits(p)'
  BY <1>0, <1>1, <1>2, <1>5, <1>6 DEF SyncFits, NoAnswer, Txns, Date, Reading
<1>8. ASSUME NEW t \in Missing', Reaches(p, t) PROVE Reaches(p, t)'
  <2>1. CASE \E a \in todo[p] : InWindow(p, a, t)
    BY <1>5, <1>6, <2>1 DEF Reaches, InWindow, Acct, Date, Reading
  <2>2. CASE cur[p] # None /\ t \in Unread(p) /\ \A u \in ans[p].rows : After(t, u)
    <3>1. After(t, c)
      BY <1>2, <2>2
    <3>2. t \in Unread(p)'
      BY <1>5, <1>6, <2>2, <3>1 DEF Unread, InWindow, Acct, Date, After, Txns
    <3> QED BY <1>5, <2>2, <3>2 DEF Reaches, Reading
  <2>3. t \notin ans[p].rows
    BY <1>1 DEF Missing
  <2> QED BY <1>1, <1>8, <2>1, <2>2, <2>3 DEF Reaches, Reading
<1>9. Covers(p)'
  BY <1>1, <1>5, <1>8, CoversOn DEF Reading
<1> QED BY <1>0, <1>1, <1>5, <1>7, <1>8, <1>9, SyncStepKeeps DEF Banked
-----------------------------------------------------------------------------
(* Steps of the bank, the mirror and the clock.                            *)

(* What comes to be missing is dated within the overlap of today.          *)
LEMMA BankKeeps ==
  ASSUME SyncInv, Banked', UNCHANGED <<stored, job, scan>>, clock <= clock',
         Txns \subseteq Txns', \A t \in Txns : bank'[t] = bank[t],
         \A t \in Missing' \ Missing : Date(t)' >= clock - Overlap
  PROVE  SyncInv'
<1>0. Banked /\ SyncsTyped /\ clock \in Int /\ clock' \in Int
  BY DEF SyncInv, Banked
<1>1. \A t \in Txns : Date(t)' = Date(t) /\ Acct(t)' = Acct(t)
  BY DEF Date, Acct
<1>2. SyncsTyped' /\ \A q \in Syncs : Same(q)
  BY <1>0 DEF SyncsTyped, Same, job, scan
<1>3. ASSUME NEW q \in Syncs PROVE SyncFits(q)'
  <2>1. SyncFits(q) /\ Same(q) /\ to[q] \in Int
    BY <1>0, <1>2 DEF SyncInv, SyncsTyped
  <2>2. \A u \in ans[q].rows : u \in Txns
    BY <2>1 DEF SyncFits, Reading
  <2>3. \A s \in stored : s \in Txns
    BY <1>0 DEF Banked
  <2> QED BY <1>0, <1>1, <2>1, <2>2, <2>3 DEF SyncFits, Same, Reading
<1>4. ASSUME NEW q \in Syncs, NEW t \in Txns, Reaches(q, t) PROVE Reaches(q, t)'
  <2>1. SyncFits(q) /\ Same(q)
    BY <1>2 DEF SyncInv
  <2>2. \A a : InWindow(q, a, t) => InWindow(q, a, t)'
    BY <1>1, <2>1 DEF InWindow, Same
  <2>3. cursor[q] \in {0} \cup Txns /\ \A u \in ans[q].rows : u \in Txns
    BY <2>1 DEF SyncFits, Reading
  <2>4. \A u \in Txns : After(t, u) => After(t, u)'
    BY <1>1 DEF After
  <2>5. t \in Unread(q) => t \in Unread(q)'
    BY <2>1, <2>2, <2>3, <2>4 DEF Unread, Same
  <2> QED BY <1>4, <2>1, <2>2, <2>3, <2>4, <2>5 DEF Reaches, Same, Reading
<1>5. ASSUME NEW t \in Missing', t \notin Missing
      PROVE  ~Behind(t)' /\ \A q \in Syncs : Date(t)' >= to'[q] - Overlap
  <2>1. Date(t)' >= clock - Overlap /\ Date(t)' \in Int /\ Overlap \in Nat
    <3>1. bank' \in Seq(Posting)
      BY DEF Banked
    <3>2. t \in 1..Len(bank')
      BY DEF Missing, Txns
    <3>3. bank'[t] \in Posting
      BY <3>1, <3>2
    <3>4. Date(t)' \in Int
      BY <3>3 DEF Posting, Date
    <3> QED BY <1>5, <3>4, SyncAssumption
  <2>2. ASSUME NEW s \in stored PROVE ~(Date(t)' < Date(s)' - Overlap)
    <3>1. s \in Txns /\ Date(s) <= clock /\ Date(s) \in Int
      BY <1>0, TxnTypes DEF Banked
    <3> QED BY <1>0, <1>1, <2>1, <3>1
  <2>3. ASSUME NEW q \in Syncs PROVE Date(t)' >= to'[q] - Overlap
    <3>1. to'[q] = to[q] /\ to[q] <= clock /\ to[q] \in Int
      BY <1>0, <1>2 DEF SyncInv, SyncFits, SyncsTyped, Same, Reading
    <3> QED BY <1>0, <2>1, <3>1
  <2> QED BY <2>2, <2>3 DEF Behind
<1>6. \A t \in Missing' : t \in Missing => t \in Txns
  BY DEF Missing
<1>7. ASSUME NEW q \in Syncs PROVE Covers(q)'
  <2>1. Covers(q) /\ Same(q)
    BY <1>2 DEF SyncInv
  <2> QED BY <1>1, <1>4, <1>5, <1>6, <2>1 DEF Covers, Same, Reading
<1>8. Kept'
  <2> SUFFICES ASSUME NEW t \in Missing', Behind(t)' PROVE \E q \in Syncs : Reaches(q, t)'
    BY DEF Kept
  <2>1. t \in Missing /\ t \in Txns
    BY <1>5, <1>6
  <2>2. Behind(t)
    BY <1>0, <1>1, <2>1 DEF Behind, Banked
  <2> QED BY <1>4, <2>1, <2>2 DEF SyncInv, Kept
<1> QED BY <1>2, <1>3, <1>7, <1>8 DEF SyncInv

LEMMA TickKeeps == ASSUME SyncInv, Tick \/ UNCHANGED vars PROVE SyncInv'
<1>0. Banked /\ clock \in Nat
  BY DEF SyncInv, Banked
<1>1. /\ clock' \in 0..LastDay /\ clock <= clock'
      /\ UNCHANGED <<bank, mirrored, stored, excused, job, scan>>
  BY <1>0, SyncAssumption DEF Tick, vars, bankside, Banked
<1>2. Txns' = Txns /\ \A t \in Txns : Date(t)' = Date(t) /\ Date(t) \in Int
  BY <1>0, <1>1, TxnTypes DEF Txns, Date
<1>3. Banked'
  BY <1>0, <1>1, <1>2 DEF Banked
<1>4. Missing' = Missing
  BY <1>1 DEF Missing, Txns, Acct
<1> QED BY <1>1, <1>2, <1>3, <1>4, BankKeeps

LEMMA MirrorAddKeeps ==
  ASSUME SyncInv, NEW a \in Accounts, MirrorAdd(a)
  PROVE  SyncInv'
<1>0. Banked /\ clock \in Int
  BY DEF SyncInv, Banked
<1>1. /\ mirrored' = mirrored \cup {a}
      /\ excused' = excused \cup {t \in Txns : Acct(t) = a /\ Date(t) < clock - Overlap}
      /\ UNCHANGED <<clock, bank, stored, job, scan>>
  BY DEF MirrorAdd
<1>2. Banked' /\ Txns' = Txns /\ \A t \in Txns : Date(t)' = Date(t) /\ Acct(t)' = Acct(t)
  BY <1>0, <1>1 DEF Banked, Txns, Date, Acct
<1>3. ASSUME NEW t \in Missing' \ Missing PROVE Date(t)' >= clock - Overlap
  <2>1. t \in Txns /\ Acct(t) = a /\ ~(Date(t) < clock - Overlap)
    BY <1>1, <1>2 DEF Missing
  <2>2. Date(t) \in Int
    BY <1>0, <2>1, TxnTypes
  <2> QED BY <1>0, <1>2, <2>1, <2>2, SyncAssumption
<1> QED BY <1>0, <1>1, <1>2, <1>3, BankKeeps

LEMMA PostKeeps ==
  ASSUME SyncInv, NEW a \in Accounts, NEW d \in 0..LastDay, Post(a, d)
  PROVE  SyncInv'
<1>0. Banked /\ clock \in Int /\ Len(bank) \in Nat /\ bank \in Seq(Posting)
  BY TxnTypes DEF SyncInv, Banked
<1>a. PICK n \in Nat : n = Len(bank) + 1
  BY <1>0
<1> DEFINE e == [acct |-> a, date |-> d]
<1>1. /\ Len(bank) < MaxPosts /\ d <= clock /\ bank' = Append(bank, e)
      /\ excused' = IF d < clock - Overlap THEN excused \cup {n} ELSE excused
      /\ UNCHANGED <<clock, mirrored, stored, job, scan>>
  BY <1>a DEF Post
<1>2. e \in Posting /\ e.date = d
  BY DEF Posting
<1> HIDE DEF e
<1>3. /\ bank' \in Seq(Posting) /\ Len(bank') = n /\ bank'[n] = e
      /\ \A t \in 1..Len(bank) : bank'[t] = bank[t]
  BY <1>0, <1>a, <1>1, <1>2
<1>4. /\ Txns' = Txns \cup {n} /\ \A t \in Txns : bank'[t] = bank[t]
      /\ Date(n)' = d
  <2>1. Txns' = Txns \cup {n} /\ \A t \in Txns : bank'[t] = bank[t]
    BY <1>0, <1>a, <1>3 DEF Txns
  <2>2. Date(n)' = d
    BY <1>2, <1>3 DEF Date
  <2> QED BY <2>1, <2>2
<1>5. \A t \in Txns : Date(t)' = Date(t) /\ Acct(t)' = Acct(t)
  BY <1>4 DEF Date, Acct
<1>6. Banked'
  <2>1. Len(bank') <= MaxPosts
    BY <1>0, <1>a, <1>1, <1>3, SyncAssumption
  <2>2. \A t \in Txns' : Date(t)' <= clock'
    BY <1>0, <1>1, <1>4, <1>5 DEF Banked
  <2>3. stored' \subseteq Txns' /\ excused' \subseteq Txns'
    BY <1>0, <1>1, <1>4 DEF Banked
  <2> QED BY <1>0, <1>1, <1>3, <2>1, <2>2, <2>3 DEF Banked
<1>7. ASSUME NEW t \in Missing' \ Missing PROVE Date(t)' >= clock - Overlap
  <2>1. t \in Txns' /\ t \notin excused' /\ excused \subseteq excused'
    BY <1>1 DEF Missing
  <2>2. CASE t \in Txns
    BY <1>1, <1>5, <2>1, <2>2 DEF Missing
  <2>3. CASE t = n
    <3>1. ~(d < clock - Overlap)
      BY <1>1, <2>1, <2>3
    <3> QED BY <1>0, <1>4, <2>3, <3>1, SyncAssumption
  <2> QED BY <1>4, <2>1, <2>2, <2>3
<1>8. Txns \subseteq Txns' /\ clock <= clock'
  BY <1>0, <1>1, <1>4
<1> QED BY <1>1, <1>4, <1>6, <1>7, <1>8, BankKeeps

-----------------------------------------------------------------------------
LEMMA SyncInvInit == ASSUME Init PROVE SyncInv
<1>1. bank = <<>> /\ bank \in Seq(Posting) /\ Len(bank) = 0
  BY DEF Init
<1>2. Txns = {}
  BY <1>1 DEF Txns
<1>3. 0 \in 0..LastDay /\ 0 <= MaxPosts /\ 0 \in 0..MaxPages - 1
  BY SyncAssumption
<1>4. Banked
  BY <1>1, <1>2, <1>3 DEF Init, Banked
<1>5. SyncsTyped
  BY <1>3 DEF Init, SyncsTyped, Steps, NoAnswer
<1>6. \A p \in Syncs : SyncFits(p) /\ Covers(p)
  BY DEF Init, SyncFits, Covers, NoAnswer, Reading
<1>7. Missing = {}
  BY <1>2 DEF Missing
<1> QED BY <1>4, <1>5, <1>6, <1>7 DEF SyncInv, Kept

LEMMA SyncInvNext == ASSUME SyncInv, [Next]_vars PROVE SyncInv'
<1>1. ASSUME NEW p \in Syncs,
             SyncUser(p) \/ triggerSpendSyncInBackground(p) \/ SyncStep(p)
      PROVE  SyncInv'
  BY <1>1, BeginKeeps, ReadWatermarkKeeps, TakeTimeKeeps, DoneKeeps, PagesKeep,
     NextPageKeeps, LeavesKeep, CrashKeeps
  DEF SyncUser, triggerSpendSyncInBackground, SyncStep
<1> QED BY <1>1, TickKeeps, MirrorAddKeeps, PostKeeps DEF Next

LEMMA SyncInvAlways == Spec => [](SlotInv /\ SyncInv)
BY SyncInvInit, SyncInvNext, InitSlot, StepSlot, PTL DEF Spec

(* The bank's list, the stored rows and every sync stay well formed: in    *)
(* particular the cursor of a further page is always a row of the bank.    *)
THEOREM SyncTypeCorrect == Spec => []TypeOK
<1>1. SlotInv /\ SyncInv => TypeOK
  BY DEF SlotInv, SyncInv, Banked, SyncsTyped, SyncFits, TypeOK, Posting, Reading
<1> QED BY <1>1, SyncInvAlways, PTL

(* No transaction of a mirrored account is forgotten, however many syncs   *)
(* overlap and whichever of them moves the watermark: one that is not      *)
(* stored, and that nothing excuses, is within the reach of the next sync  *)
(* or ahead of one that runs.                                              *)
THEOREM NoneForgotten == Spec => []NothingForgotten
<1>1. ASSUME SyncInv, NEW t \in Missing, ~(Date(t) >= LatestSpendSync - Overlap)
      PROVE  \E p \in Syncs : Pending(p, t)
  <2>1. Banked /\ t \in Txns
    BY <1>1 DEF SyncInv, Missing
  <2>2. Date(t) \in Nat /\ Overlap \in Nat
    BY <2>1, TxnTypes, SyncAssumption
  <2>3. stored # {}
    BY <1>1, <2>2 DEF LatestSpendSync, Epoch
  <2>4. PICK s \in stored : LatestSpendSync = Date(s)
    BY <2>1, <2>3, WatermarkIsLatest
  <2>5. Date(s) \in Nat
    BY <2>1, TxnTypes DEF Banked
  <2>6. Date(t) < Date(s) - Overlap
    BY <1>1, <2>2, <2>4, <2>5
  <2>7. PICK p \in Syncs : Reaches(p, t)
    BY <1>1, <2>6 DEF Behind, SyncInv, Kept
  <2>8. pc[p] = "read" => ans[p] = NoAnswer
    BY <1>1 DEF SyncInv, SyncFits, Reading
  <2> QED BY <2>7, <2>8 DEF Reaches, Pending, Reading
<1>2. SlotInv /\ SyncInv => NothingForgotten
  BY <1>1 DEF NothingForgotten
<1> QED BY <1>2, SyncInvAlways, PTL

(* service.go says "Lookback is how far back to pull on a first sync (no   *)
(* prior rows)".  It is not: LatestSpendSync answers 1970 for an empty     *)
(* table, never Go's zero time, so a first sync asks for everything since  *)
(* 1970 less the overlap, whatever Lookback is configured to be.           *)
THEOREM FirstSyncReadsAll ==
  Spec => [][\A p \in Syncs : ReadWatermark(p) /\ stored = {} => from'[p] = Epoch - Overlap]_vars
<1>1. ASSUME SyncInv, NEW p \in Syncs, ReadWatermark(p), stored = {}
      PROVE  from'[p] = Epoch - Overlap
  <2>1. LatestSpendSync = Epoch /\ Epoch # ZeroTime
    BY <1>1 DEF LatestSpendSync, Epoch, ZeroTime
  <2>2. from' = [from EXCEPT ![p] = Epoch - Overlap]
    BY <1>1, <2>1 DEF ReadWatermark, From
  <2> QED BY <1>1, <2>2 DEF SyncInv, SyncsTyped
<1>2. SyncInv /\ [Next]_vars =>
        [\A p \in Syncs : ReadWatermark(p) /\ stored = {} => from'[p] = Epoch - Overlap]_vars
  BY <1>1
<1> QED BY <1>2, SyncInvAlways, PTL DEF Spec
=============================================================================
