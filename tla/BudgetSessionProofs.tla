------------------------ MODULE BudgetSessionProofs ------------------------
(* Proofs about BudgetSession, for any categories, callers, months and     *)
(* bounds: what a caller has read still holds when it acts on it, unless   *)
(* another caller committed in between.                                    *)
EXTENDS BudgetSession, TLAPS

Session == [status: Statuses, month: Months, alloc: Allocs]
Finalizing == {"replace", "wait", "fill", "limit", "mark"}

SessTyped == sess \in Seq(Session) /\ Len(sess) <= MaxSessions + 1
RowsTyped == rows \in [Months -> [Cats -> 0..Len(sess)]] /\ live \in BOOLEAN
Jobs == [id: 0..Len(sess), month: Months, alloc: Allocs]
JobTyped == job \in [Procs -> Jobs]
CallersTyped ==
    /\ pc \in [Procs -> Steps]
    /\ snap \in [Procs -> SUBSET Cats]
    /\ held \in [Procs -> SUBSET Cats]
    /\ calm \subseteq Procs
    /\ \A p \in Procs : held[p] # {} => pc[p] = "fill"

(* A finalization works for the month of its session. *)
JobFits(p) ==
    pc[p] \in Finalizing => job[p].id \in Ids /\ sess[job[p].id].month = job[p].month

(* What an undisturbed caller has read is still so. *)
CalmFits(p) ==
    /\ pc[p] \in {"insert", "wait", "fill", "unset", "unwait", "clear"}
    /\ pc[p] = "insert" => In(job[p].month, {"pending"}) = {}
    /\ pc[p] \in {"wait", "unwait"} => ActiveIn(job[p].month) \subseteq snap[p]
    /\ pc[p] = "fill" => ActiveIn(job[p].month) \subseteq held[p]
    /\ pc[p] = "clear" => ActiveIn(job[p].month) = {}

BudgetInv ==
    /\ SessTyped /\ RowsTyped /\ JobTyped /\ CallersTyped
    /\ \A p \in Procs : JobFits(p)
    /\ \A p \in calm : CalmFits(p)

-----------------------------------------------------------------------------
(* What a step leaves to the callers it does not move.                     *)

Unmoved(q) ==
    /\ pc'[q] = pc[q] /\ job'[q] = job[q] /\ snap'[q] = snap[q] /\ held'[q] = held[q]

(* No session of q's month comes to have one of the statuses. *)
NoNew(q, statuses) ==
    \A k \in 1..Len(sess') :
        sess'[k].month = job[q].month /\ sess'[k].status \in statuses =>
            k \in Ids /\ sess[k].month = job[q].month /\ sess[k].status \in statuses

NoNewRow(q) ==
    \A c \in Cats : rows'[job[q].month][c] # 0 => rows[job[q].month][c] # 0

Harmless(q) ==
    /\ pc[q] = "insert" => NoNew(q, {"pending"})
    /\ pc[q] \in {"wait", "unwait", "fill", "clear"} => NoNewRow(q)

SessionsKept ==
    /\ Len(sess') \in Nat /\ Len(sess') >= Len(sess)
    /\ \A k \in Ids : sess'[k].month = sess[k].month

LEMMA StillCalm ==
  ASSUME NEW q, CalmFits(q), Unmoved(q), Harmless(q)
  PROVE  CalmFits(q)'
<1>1. pc'[q] = "insert" => In(job[q].month, {"pending"})' = {}
  BY DEF CalmFits, Unmoved, Harmless, NoNew, In, Ids
<1>2. pc'[q] \in {"wait", "unwait", "fill", "clear"} =>
        ActiveIn(job[q].month)' \subseteq ActiveIn(job[q].month)
  BY DEF Unmoved, Harmless, NoNewRow, ActiveIn
<1> QED BY <1>1, <1>2 DEF CalmFits, Unmoved

LEMMA StepKeeps ==
  ASSUME BudgetInv, SessTyped', RowsTyped', JobTyped', CallersTyped', SessionsKept,
         NEW p, \A q \in Procs \ {p} : Unmoved(q),
         JobFits(p)', p \in calm' => CalmFits(p)',
         \A q \in calm' \ {p} : q \in calm /\ Harmless(q)
  PROVE  BudgetInv'
<1>1. ASSUME NEW q \in Procs PROVE JobFits(q)'
  <2>1. CASE q # p
    <3>1. Unmoved(q) /\ JobFits(q) /\ Len(sess) \in Nat
      BY <2>1 DEF BudgetInv, SessTyped
    <3> QED BY <3>1 DEF JobFits, Unmoved, SessionsKept, Ids
  <2> QED BY <2>1
<1>2. ASSUME NEW q \in calm' PROVE CalmFits(q)'
  <2>1. CASE q # p
    <3>1. q \in calm /\ Harmless(q) /\ Unmoved(q) /\ CalmFits(q)
      BY <2>1 DEF BudgetInv, CallersTyped
    <3> QED BY <3>1, StillCalm
  <2> QED BY <1>2, <2>1
<1> QED BY <1>1, <1>2 DEF BudgetInv
-----------------------------------------------------------------------------
(* The steps that callers share.                                           *)

LEMMA Standing ==
  ASSUME SessTyped, sess' = sess
  PROVE  SessTyped' /\ SessionsKept /\ Len(sess') = Len(sess)
BY DEF SessTyped, SessionsKept, Ids

LEMMA Added ==
  ASSUME SessTyped, NEW s \in Session, Len(sess) <= MaxSessions, sess' = Append(sess, s)
  PROVE  /\ SessTyped' /\ SessionsKept /\ Len(sess') = Len(sess) + 1
         /\ \A k \in Ids : sess'[k] = sess[k]
         /\ sess'[Len(sess')] = s
         /\ \A k \in 1..Len(sess') : k \in Ids \/ k = Len(sess')
BY BudgetAssumption DEF SessTyped, SessionsKept, Ids

LEMMA Rewritten ==
  ASSUME SessTyped, DOMAIN sess' = Ids, \A k \in Ids : sess'[k] \in Session,
         sess' = [k \in Ids |-> sess'[k]],
         \A k \in Ids : sess'[k].month = sess[k].month
  PROVE  SessTyped' /\ SessionsKept /\ Len(sess') = Len(sess)
<1>1. Len(sess) \in Nat /\ sess' \in [1..Len(sess) -> Session]
  BY DEF SessTyped, Ids
<1>2. sess' \in Seq(Session) /\ Len(sess') = Len(sess)
  BY <1>1
<1> QED BY <1>1, <1>2 DEF SessTyped, SessionsKept, Ids

(* What depends only on how many sessions there are.                       *)
LEMMA TypesKept ==
  ASSUME RowsTyped, JobTyped, SessTyped, SessionsKept
  PROVE  /\ rows' = rows /\ live' \in BOOLEAN => RowsTyped'
         /\ job' = job => JobTyped'
         /\ \A p \in Procs, j \in Jobs :
               job' = [job EXCEPT ![p] = j] => JobTyped'
<1>1. 0..Len(sess) \subseteq 0..Len(sess')
  BY DEF SessionsKept, SessTyped
<1>2. rows' = rows /\ live' \in BOOLEAN => RowsTyped'
  BY <1>1 DEF RowsTyped
<1>3. Jobs \subseteq Jobs'
  BY <1>1 DEF Jobs
<1>4. job \in [Procs -> Jobs']
  BY <1>3 DEF JobTyped
<1> QED BY <1>2, <1>3, <1>4 DEF JobTyped

LEMMA FreshJob ==
  ASSUME SessTyped, NEW m \in Months
  PROVE  /\ NoJob \in Jobs
         /\ [NoJob EXCEPT !.month = m] \in Jobs
         /\ [NoJob EXCEPT !.month = m].month = m
<1>1. 1 \in Months /\ 0 \in 0..Len(sess) /\ {} \in Allocs
  BY BudgetAssumption DEF SessTyped, Months
<1>2. NoJob \in Jobs
  BY <1>1 DEF NoJob, Jobs
<1>3. [NoJob EXCEPT !.month = m] = [id |-> 0, month |-> m, alloc |-> {}]
  BY DEF NoJob
<1> QED BY <1>1, <1>2, <1>3 DEF Jobs

LEMMA Returned ==
  ASSUME BudgetInv, NEW p \in Procs, Return(p), calm' \subseteq calm, p \notin calm'
  PROVE  /\ CallersTyped' /\ JobFits(p)'
         /\ \A q \in Procs \ {p} : Unmoved(q)
         /\ \E j \in Jobs :
               job' = [job EXCEPT ![p] = j]
<1>1. CallersTyped' /\ JobFits(p)'
  BY DEF BudgetInv, CallersTyped, JobTyped, Return, Go, JobFits, Steps, Finalizing
<1>2. \A q \in Procs \ {p} : Unmoved(q)
  BY DEF BudgetInv, CallersTyped, JobTyped, Return, Go, Unmoved
<1>3. NoJob \in Jobs
  <2>1. 1 \in Months
    BY BudgetAssumption DEF Months
  <2> QED BY <2>1, FreshJob DEF BudgetInv
<1> QED BY <1>1, <1>2, <1>3 DEF Return

(* A caller that returns changes no row.                                   *)
LEMMA ReturnKeeps ==
  ASSUME BudgetInv, NEW p \in Procs, Return(p), calm' \subseteq calm, p \notin calm',
         SessTyped', SessionsKept, rows' = rows, live' \in BOOLEAN,
         \A q \in calm' : pc[q] = "insert" => NoNew(q, {"pending"})
  PROVE  BudgetInv'
<1>1. /\ CallersTyped' /\ JobFits(p)' /\ JobTyped' /\ RowsTyped'
      /\ \A q \in Procs \ {p} : Unmoved(q)
  BY Returned, TypesKept DEF BudgetInv
<1>2. \A q \in calm' : Harmless(q)
  BY DEF Harmless, NoNewRow
<1> QED BY <1>1, <1>2, StepKeeps

(* A step that writes nothing leaves everybody else undisturbed.           *)
LEMMA Untouched ==
  ASSUME BudgetInv, sess' = sess, rows' = rows
  PROVE  \A q \in calm : Harmless(q)
BY DEF Harmless, NoNew, NoNewRow, Ids, BudgetInv, SessTyped

LEMMA GiveUpKeeps == ASSUME BudgetInv, NEW p \in Procs, GiveUp(p) PROVE BudgetInv'
<1>1. Return(p) /\ calm' = calm \ {p} /\ sess' = sess /\ rows' = rows /\ live' = live
  BY DEF GiveUp, store
<1>2. SessTyped' /\ SessionsKept /\ live' \in BOOLEAN
  BY <1>1, Standing DEF BudgetInv, RowsTyped
<1> QED BY <1>1, <1>2, ReturnKeeps, Untouched DEF Harmless
-----------------------------------------------------------------------------
(* Steps that write neither a session nor a row.                           *)

LEMMA QuietKeeps ==
  ASSUME BudgetInv, NEW p \in Procs, sess' = sess, rows' = rows, live' \in BOOLEAN,
         JobTyped', CallersTyped', \A q \in Procs \ {p} : Unmoved(q),
         JobFits(p)', p \in calm' => CalmFits(p)', calm' \subseteq calm \cup {p}
  PROVE  BudgetInv'
<1>1. SessTyped' /\ SessionsKept /\ RowsTyped'
  BY Standing DEF BudgetInv, RowsTyped
<1>2. \A q \in calm' \ {p} : q \in calm /\ Harmless(q)
  BY Untouched
<1> QED BY <1>1, <1>2, StepKeeps

LEMMA FinalizeSessionKeeps ==
  ASSUME BudgetInv, NEW p \in Procs, NEW k \in ActedOn, FinalizeSession(p, k)
  PROVE  BudgetInv'
<1> DEFINE j == [id |-> k, month |-> sess[k].month, alloc |-> sess[k].alloc]
           l == IF sess[k].alloc = {} THEN "limit" ELSE "replace"
<1>1. /\ pc[p] = "idle" /\ job' = [job EXCEPT ![p] = j] /\ pc' = [pc EXCEPT ![p] = l]
      /\ UNCHANGED <<sess, rows, live, snap, held, calm>>
  BY DEF FinalizeSession, store, Go
<1>2. k \in Ids /\ sess[k] \in Session
  BY DEF ActedOn, Ids, BudgetInv, SessTyped
<1>3. j \in Jobs /\ j.id = k /\ j.month = sess[k].month
  BY <1>2 DEF Jobs, Session, Ids
<1>4. l \in Finalizing \cap Steps /\ l # "idle"
  BY DEF Finalizing, Steps
<1> HIDE DEF j, l
<1>5. JobTyped' /\ CallersTyped' /\ \A q \in Procs \ {p} : Unmoved(q)
  BY <1>1, <1>3, <1>4 DEF BudgetInv, JobTyped, CallersTyped, Unmoved, Jobs
<1>6. JobFits(p)'
  BY <1>1, <1>2, <1>3 DEF BudgetInv, JobTyped, JobFits, Ids
<1>7. p \notin calm' /\ live' \in BOOLEAN
  BY <1>1 DEF BudgetInv, RowsTyped, CalmFits
<1> QED BY <1>1, <1>5, <1>6, <1>7, QuietKeeps

(* A caller of the current step moves on with the session it has.          *)
LEMMA MoveKeeps ==
  ASSUME BudgetInv, NEW p \in Procs, NEW l \in Steps, Go(p, l),
         sess' = sess, rows' = rows, live' \in BOOLEAN, job' = job,
         snap' \in [Procs -> SUBSET Cats], held' \in [Procs -> SUBSET Cats],
         \A q \in Procs \ {p} : snap'[q] = snap[q] /\ held'[q] = held[q],
         held'[p] # {} => l = "fill",
         calm' \subseteq calm \cup {p}, p \in calm' => CalmFits(p)',
         l \in Finalizing => pc[p] \in Finalizing
  PROVE  BudgetInv'
<1>1. pc' \in [Procs -> Steps] /\ pc'[p] = l /\ \A q \in Procs \ {p} : pc'[q] = pc[q]
  BY DEF Go, BudgetInv, CallersTyped
<1>2. JobTyped' /\ CallersTyped' /\ \A q \in Procs \ {p} : Unmoved(q)
  BY <1>1 DEF BudgetInv, JobTyped, CallersTyped, Unmoved, Jobs
<1>3. JobFits(p)'
  BY <1>1 DEF BudgetInv, JobFits, Ids
<1> QED BY <1>2, <1>3, QuietKeeps

LEMMA ReplaceKeeps ==
  ASSUME BudgetInv, NEW p \in Procs,
         ReplaceMonth(p) \/ ReplaceLocked(p) \/ SetSpendingLimit(p)
  PROVE  BudgetInv'
<1>0. /\ pc \in [Procs -> Steps] /\ snap \in [Procs -> SUBSET Cats] /\ live \in BOOLEAN
      /\ held \in [Procs -> SUBSET Cats]
      /\ held[p] # {} => pc[p] = "fill"
      /\ p \in calm => CalmFits(p)
  BY DEF BudgetInv, CallersTyped, RowsTyped
<1>1. CASE ReplaceMonth(p)
  <2>1. /\ pc[p] = "replace" /\ Go(p, "wait") /\ "wait" \in Steps /\ pc'[p] = "wait"
        /\ UNCHANGED <<sess, rows, live, job, held>> /\ calm' = calm \cup {p}
        /\ snap' = [snap EXCEPT ![p] = ActiveIn(job[p].month)]
    BY <1>0, <1>1 DEF ReplaceMonth, Pick, store, Go, Steps
  <2>2. snap' \in [Procs -> SUBSET Cats] /\ snap'[p] = ActiveIn(job[p].month)
    BY <1>0, <2>1 DEF ActiveIn
  <2>3. CalmFits(p)'
    BY <2>1, <2>2 DEF CalmFits, ActiveIn
  <2>4. /\ snap' \in [Procs -> SUBSET Cats] /\ held' \in [Procs -> SUBSET Cats]
        /\ \A q \in Procs \ {p} : snap'[q] = snap[q] /\ held'[q] = held[q]
        /\ (held'[p] # {} => "wait" = "fill") /\ calm' \subseteq calm \cup {p}
        /\ ("wait" \in Finalizing => pc[p] \in Finalizing)
    BY <1>0, <2>1, <2>2 DEF Finalizing
  <2> QED BY <2>1, <2>2, <2>3, <1>0, <2>4, MoveKeeps
<1>2. CASE ReplaceLocked(p)
  <2>1. /\ pc[p] = "wait" /\ Go(p, "fill") /\ "fill" \in Steps /\ pc'[p] = "fill"
        /\ UNCHANGED <<sess, rows, live, job, calm>>
        /\ snap' = [snap EXCEPT ![p] = {}] /\ held' = [held EXCEPT ![p] = StillActive(p)]
    BY <1>0, <1>2 DEF ReplaceLocked, store, Go, Steps
  <2>2. held' \in [Procs -> SUBSET Cats] /\ held'[p] = StillActive(p)
    <3>1. StillActive(p) \subseteq Cats
      BY DEF StillActive, ActiveIn
    <3> QED BY <1>0, <2>1, <3>1
  <2>3. p \in calm' => CalmFits(p)'
    BY <1>0, <2>1, <2>2 DEF CalmFits, StillActive, ActiveIn
  <2>4. /\ snap' \in [Procs -> SUBSET Cats] /\ held' \in [Procs -> SUBSET Cats]
        /\ \A q \in Procs \ {p} : snap'[q] = snap[q] /\ held'[q] = held[q]
        /\ (held'[p] # {} => "fill" = "fill") /\ calm' \subseteq calm \cup {p}
        /\ ("fill" \in Finalizing => pc[p] \in Finalizing)
    BY <1>0, <2>1, <2>2 DEF Finalizing
  <2> QED BY <2>1, <2>2, <2>3, <1>0, <2>4, MoveKeeps
<1>3. CASE SetSpendingLimit(p)
  <2>1. /\ pc[p] = "limit" /\ Go(p, "mark") /\ "mark" \in Steps
        /\ UNCHANGED <<sess, rows, job, snap, held>> /\ live' \in BOOLEAN
        /\ calm' \subseteq calm
    BY <1>0, <1>3 DEF SetSpendingLimit, Steps
  <2>2. p \notin calm'
    BY <1>0, <2>1 DEF CalmFits
  <2>3. /\ snap' \in [Procs -> SUBSET Cats] /\ held' \in [Procs -> SUBSET Cats]
        /\ \A q \in Procs \ {p} : snap'[q] = snap[q] /\ held'[q] = held[q]
        /\ (held'[p] # {} => "mark" = "fill") /\ calm' \subseteq calm \cup {p}
        /\ ("mark" \in Finalizing => pc[p] \in Finalizing)
    BY <1>0, <2>1, <2>2 DEF Finalizing
  <2> QED BY <2>1, <2>2, <1>0, <2>3, MoveKeeps
<1> QED BY <1>1, <1>2, <1>3

LEMMA ResetKeeps ==
  ASSUME BudgetInv, NEW p \in Procs, DeactivateMonth(p) \/ DeactivateFailed(p)
  PROVE  BudgetInv'
<1>0. /\ pc \in [Procs -> Steps] /\ snap \in [Procs -> SUBSET Cats] /\ live \in BOOLEAN
      /\ held \in [Procs -> SUBSET Cats]
      /\ held[p] # {} => pc[p] = "fill"
      /\ p \in calm => CalmFits(p)
  BY DEF BudgetInv, CallersTyped, RowsTyped
<1>1. CASE DeactivateMonth(p)
  <2>1. /\ pc[p] = "unset" /\ Go(p, "unwait") /\ "unwait" \in Steps /\ pc'[p] = "unwait"
        /\ UNCHANGED <<sess, rows, live, job, held, calm>>
        /\ snap' = [snap EXCEPT ![p] = ActiveIn(job[p].month)]
    BY <1>0, <1>1 DEF DeactivateMonth, Pick, store, Go, Steps
  <2>2. snap' \in [Procs -> SUBSET Cats] /\ snap'[p] = ActiveIn(job[p].month)
    BY <1>0, <2>1 DEF ActiveIn
  <2>3. p \in calm' => CalmFits(p)'
    BY <2>1, <2>2 DEF CalmFits, ActiveIn
  <2>4. /\ snap' \in [Procs -> SUBSET Cats] /\ held' \in [Procs -> SUBSET Cats]
        /\ \A q \in Procs \ {p} : snap'[q] = snap[q] /\ held'[q] = held[q]
        /\ (held'[p] # {} => "unwait" = "fill") /\ calm' \subseteq calm \cup {p}
        /\ ("unwait" \in Finalizing => pc[p] \in Finalizing)
    BY <1>0, <2>1, <2>2 DEF Finalizing
  <2> QED BY <2>1, <2>2, <2>3, <1>0, <2>4, MoveKeeps
<1>2. CASE DeactivateFailed(p)
  <2>1. /\ pc[p] \in {"unset", "unwait"} /\ Go(p, "clear") /\ "clear" \in Steps
        /\ UNCHANGED <<sess, rows, live, job, held>> /\ calm' = calm \ {p}
        /\ snap' = [snap EXCEPT ![p] = {}]
    BY <1>0, <1>2 DEF DeactivateFailed, store, Steps
  <2>2. /\ snap' \in [Procs -> SUBSET Cats] /\ held' \in [Procs -> SUBSET Cats]
        /\ \A q \in Procs \ {p} : snap'[q] = snap[q] /\ held'[q] = held[q]
        /\ (held'[p] # {} => "clear" = "fill") /\ calm' \subseteq calm \cup {p}
        /\ ("clear" \in Finalizing => pc[p] \in Finalizing)
    BY <1>0, <2>1 DEF Finalizing
  <2> QED BY <2>1, <1>0, <2>2, MoveKeeps
<1> QED BY <1>1, <1>2

(* A caller that starts on a month it names. *)
LEMMA OpenKeeps ==
  ASSUME BudgetInv, NEW p \in Procs, NEW l \in Steps \ Finalizing, NEW m \in Months,
         pc[p] = "idle", Go(p, l), job' = [job EXCEPT ![p] = [NoJob EXCEPT !.month = m]],
         UNCHANGED <<rows, live, snap, held>>, SessTyped', SessionsKept,
         calm' \subseteq calm \cup {p}, p \in calm' => CalmFits(p)',
         \A q \in calm \ {p} : Harmless(q)
  PROVE  BudgetInv'
<1>1. [NoJob EXCEPT !.month = m] \in Jobs
  BY FreshJob DEF BudgetInv
<1>2. JobTyped' /\ RowsTyped'
  BY <1>1, TypesKept DEF BudgetInv, RowsTyped
<1>3. pc' \in [Procs -> Steps] /\ pc'[p] = l /\ \A q \in Procs \ {p} : pc'[q] = pc[q]
  BY DEF Go, BudgetInv, CallersTyped
<1>4. CallersTyped' /\ \A q \in Procs \ {p} : Unmoved(q)
  BY <1>3 DEF BudgetInv, JobTyped, CallersTyped, Unmoved
<1>5. JobFits(p)'
  BY <1>3 DEF JobFits
<1> QED BY <1>2, <1>4, <1>5, StepKeeps

LEMMA ResetActiveKeeps ==
  ASSUME BudgetInv, NEW p \in Procs, ResetActive(p)
  PROVE  BudgetInv'
<1>1. PICK m \in Months : job' = [job EXCEPT ![p] = [NoJob EXCEPT !.month = m]]
  BY DEF ResetActive
<1>2. /\ pc[p] = "idle" /\ Go(p, "unset") /\ "unset" \in Steps \ Finalizing
      /\ UNCHANGED <<sess, rows, live, snap, held>> /\ calm' = calm \cup {p}
  BY DEF ResetActive, store, Steps, Finalizing
<1>3. CalmFits(p)'
  BY <1>2 DEF Go, CalmFits, BudgetInv, CallersTyped
<1>4. SessTyped' /\ SessionsKept /\ \A q \in calm : Harmless(q)
  BY <1>2, Standing, Untouched DEF BudgetInv
<1> QED BY <1>1, <1>2, <1>3, <1>4, OpenKeeps

LEMMA RolloverKeeps ==
  ASSUME BudgetInv, NEW p \in Procs, RolloverForUser(p)
  PROVE  BudgetInv'
<1>1. PICK m \in Months : m = LatestMonth + 1
  BY DEF RolloverForUser
<1>2. /\ pc[p] = "idle" /\ Go(p, "draft") /\ "draft" \in Steps \ Finalizing
      /\ UNCHANGED <<sess, rows, live, snap, held, calm>>
      /\ job' = [job EXCEPT ![p] = [NoJob EXCEPT !.month = m]]
  BY <1>1 DEF RolloverForUser, store, Steps, Finalizing
<1>3. p \notin calm
  BY <1>2 DEF BudgetInv, CalmFits
<1>4. SessTyped' /\ SessionsKept /\ \A q \in calm : Harmless(q)
  BY <1>2, Standing, Untouched DEF BudgetInv
<1> QED BY <1>2, <1>3, <1>4, OpenKeeps
-----------------------------------------------------------------------------
(* Steps that write the month's rows.                                      *)

LEMMA RowsKeep ==
  ASSUME BudgetInv, NEW p \in Procs, NEW l \in Steps \ {"fill"}, Go(p, l),
         sess' = sess, RowsTyped', JobTyped', JobFits(p)',
         \A q \in Procs \ {p} : job'[q] = job[q],
         snap' \in [Procs -> SUBSET Cats], \A q \in Procs \ {p} : snap'[q] = snap[q],
         held' = [held EXCEPT ![p] = {}],
         calm' \subseteq calm, p \in calm' => CalmFits(p)',
         \A q \in calm' \ {p} : Harmless(q)
  PROVE  BudgetInv'
<1>1. pc' \in [Procs -> Steps] /\ pc'[p] = l /\ \A q \in Procs \ {p} : pc'[q] = pc[q]
  BY DEF Go, BudgetInv, CallersTyped
<1>2. CallersTyped' /\ \A q \in Procs \ {p} : Unmoved(q)
  BY <1>1 DEF BudgetInv, CallersTyped, Unmoved
<1>3. SessTyped' /\ SessionsKept
  BY Standing DEF BudgetInv
<1> QED BY <1>2, <1>3, StepKeeps

LEMMA ReplaceCommitKeeps ==
  ASSUME BudgetInv, NEW p \in Procs, ReplaceCommit(p)
  PROVE  BudgetInv'
<1>1. PICK m \in Months : m = job[p].month
  BY DEF BudgetInv, JobTyped, Jobs
<1>2. /\ pc[p] = "fill" /\ rows' = [rows EXCEPT ![m] = Filled(p)]
      /\ job' = [job EXCEPT ![p].alloc = {}]
      /\ calm' = calm \ At(m, {"wait", "fill", "unset", "unwait", "clear"})
      /\ Go(p, "limit") /\ UNCHANGED <<sess, live, snap>>
      /\ held' = [held EXCEPT ![p] = {}]
  BY <1>1 DEF ReplaceCommit
<1>3. job[p] \in Jobs /\ job \in [Procs -> Jobs]
  BY DEF BudgetInv, JobTyped
<1>4. Filled(p) \in [Cats -> 0..Len(sess)]
  BY <1>1, <1>3 DEF Filled, Jobs, BudgetInv, RowsTyped
<1>5. RowsTyped'
  BY <1>2, <1>4 DEF BudgetInv, RowsTyped
<1> DEFINE j == [job[p] EXCEPT !.alloc = {}]
<1>6. j \in Jobs /\ j.id = job[p].id /\ j.month = job[p].month
  BY <1>3, BudgetAssumption DEF Jobs
<1>7. job' = [job EXCEPT ![p] = j]
  BY <1>2
<1> HIDE DEF j
<1>8. JobTyped' /\ \A q \in Procs \ {p} : job'[q] = job[q]
  <2>1. \A q \in Procs \ {p} : job'[q] = job[q]
    BY <1>3, <1>7
  <2>2. SessionsKept
    BY <1>2, Standing DEF BudgetInv
  <2>3. JobTyped'
    BY <1>6, <1>7, <2>2, TypesKept DEF BudgetInv
  <2> QED BY <2>1, <2>3
<1>9. JobFits(p)'
  BY <1>2, <1>3, <1>6, <1>7 DEF JobFits, Ids, BudgetInv, Finalizing
<1>10. p \notin calm' /\ calm' \subseteq calm
  BY <1>1, <1>2 DEF At
<1>11. ASSUME NEW q \in calm' PROVE Harmless(q)
  <2>1. q \in calm /\ q \in Procs /\ job[q].month \in Months
    BY <1>3, <1>10, <1>11 DEF BudgetInv, CallersTyped, Jobs
  <2>2. pc[q] \in {"wait", "fill", "unwait", "clear"} => job[q].month # m
    BY <1>2, <1>11, <2>1 DEF At
  <2>3. pc[q] \in {"wait", "fill", "unwait", "clear"} => NoNewRow(q)
    BY <1>2, <2>1, <2>2 DEF NoNewRow, BudgetInv, RowsTyped
  <2> QED BY <1>2, <2>1, <2>3, Untouched DEF Harmless, NoNew, Ids, BudgetInv, SessTyped
<1>12. snap' \in [Procs -> SUBSET Cats] /\ snap' = snap
  BY <1>2 DEF BudgetInv, CallersTyped
<1> QED BY <1>2, <1>5, <1>8, <1>9, <1>10, <1>11, <1>12, RowsKeep DEF Steps

LEMMA DeactivateKeeps ==
  ASSUME BudgetInv, NEW p \in Procs, DeactivateLocked(p)
  PROVE  BudgetInv'
<1>1. PICK m \in Months : m = job[p].month
  BY DEF BudgetInv, JobTyped, Jobs
<1> DEFINE f == [c \in Cats |-> IF c \in snap[p] THEN 0 ELSE rows[m][c]]
<1>2. /\ pc[p] = "unwait" /\ rows' = [rows EXCEPT ![m] = f]
      /\ Go(p, "clear") /\ UNCHANGED <<sess, live, job, held, calm>>
      /\ snap' = [snap EXCEPT ![p] = {}]
  BY <1>1 DEF DeactivateLocked
<1>3. rows \in [Months -> [Cats -> 0..Len(sess)]] /\ Len(sess) \in Nat
  BY DEF BudgetInv, RowsTyped, SessTyped
<1>4. /\ f \in [Cats -> 0..Len(sess)]
      /\ \A c \in Cats : f[c] # 0 => rows[m][c] # 0 /\ c \notin snap[p]
  BY <1>3
<1> HIDE DEF f
<1>5. RowsTyped' /\ rows'[m] = f
  BY <1>2, <1>3, <1>4 DEF BudgetInv, RowsTyped
<1>6. \A q \in calm : Harmless(q)
  <2> TAKE q \in calm
  <2>1. q \in Procs /\ job[q].month \in Months
    BY DEF BudgetInv, CallersTyped, JobTyped, Jobs
  <2>2. NoNewRow(q)
    BY <1>2, <1>3, <1>4, <2>1 DEF NoNewRow
  <2> QED BY <1>2, <2>2 DEF Harmless, NoNew, Ids, BudgetInv, SessTyped
<1>7. pc'[p] = "clear" /\ (p \in calm => ActiveIn(m) \subseteq snap[p])
  BY <1>1, <1>2 DEF Go, BudgetInv, CallersTyped, CalmFits
<1>8. p \in calm => ActiveIn(m)' = {}
  BY <1>4, <1>5, <1>7 DEF ActiveIn
<1>9. p \in calm' => CalmFits(p)'
  BY <1>1, <1>2, <1>7, <1>8 DEF CalmFits, ActiveIn
<1>10. /\ JobTyped' /\ JobFits(p)' /\ snap' \in [Procs -> SUBSET Cats]
       /\ held' = [held EXCEPT ![p] = {}]
  BY <1>2, <1>7 DEF BudgetInv, JobTyped, Jobs, JobFits, Finalizing, CallersTyped
<1>11. \A q \in Procs \ {p} : job'[q] = job[q] /\ snap'[q] = snap[q]
  BY <1>2 DEF BudgetInv, CallersTyped
<1> QED BY <1>2, <1>5, <1>6, <1>9, <1>10, <1>11, RowsKeep DEF Steps

LEMMA ResetClearedKeeps ==
  ASSUME BudgetInv, NEW p \in Procs, ResetCleared(p)
  PROVE  BudgetInv'
<1>1. Return(p) /\ calm' = calm \ {p} /\ sess' = sess /\ rows' = rows /\ live' \in BOOLEAN
  BY DEF ResetCleared, ClearActive
<1>2. SessTyped' /\ SessionsKept
  BY <1>1, Standing DEF BudgetInv
<1> QED BY <1>1, <1>2, ReturnKeeps, Untouched DEF Harmless

-----------------------------------------------------------------------------
(* Steps that write a session.                                             *)

LEMMA CreateSessionKeeps ==
  ASSUME BudgetInv, NEW p \in Procs, NEW m \in Months, CreateSession(p, m)
  PROVE  BudgetInv'
<1>1. /\ pc[p] = "idle" /\ ExpirePendingSessions(m) /\ Go(p, "insert")
      /\ job' = [job EXCEPT ![p] = [NoJob EXCEPT !.month = m]]
      /\ calm' = calm \cup {p} /\ UNCHANGED <<rows, live, snap, held>>
  BY DEF CreateSession
<1>2. \A k \in Ids : sess[k] \in Session
  BY DEF BudgetInv, SessTyped, Ids
<1>3. DOMAIN sess' = Ids /\ sess' = [k \in Ids |-> sess'[k]]
  BY <1>1 DEF ExpirePendingSessions
<1>4. ASSUME NEW k \in Ids
      PROVE  /\ sess'[k] \in Session /\ sess'[k].month = sess[k].month
             /\ sess'[k] = sess[k] \/ sess'[k].status = "abandoned"
             /\ sess[k].month = m => sess'[k].status # "pending"
  <2>1. sess'[k] = IF k \in In(m, {"pending"}) THEN [sess[k] EXCEPT !.status = "abandoned"]
                   ELSE sess[k]
    BY <1>1 DEF ExpirePendingSessions
  <2>2. /\ [sess[k] EXCEPT !.status = "abandoned"] \in Session
        /\ [sess[k] EXCEPT !.status = "abandoned"].status = "abandoned"
        /\ [sess[k] EXCEPT !.status = "abandoned"].month = sess[k].month
    BY <1>2 DEF Session, Statuses
  <2> QED BY <1>2, <2>1, <2>2 DEF In
<1>5. SessTyped' /\ SessionsKept /\ Len(sess') = Len(sess)
  BY <1>3, <1>4, Rewritten DEF BudgetInv
<1>6. \A q \in calm : Harmless(q)
  BY <1>1, <1>4, <1>5 DEF Harmless, NoNew, NoNewRow, Ids
<1>7. pc'[p] = "insert" /\ job'[p].month = m
  BY <1>1, FreshJob DEF Go, BudgetInv, CallersTyped, JobTyped
<1>8. CalmFits(p)'
  <2>1. In(m, {"pending"})' = {}
    BY <1>4, <1>5 DEF In, Ids
  <2> QED BY <1>7, <2>1 DEF CalmFits, In
<1> QED BY <1>1, <1>5, <1>6, <1>8, OpenKeeps DEF Steps, Finalizing

(* A session that a caller adds before it returns. *)
LEMMA AddKeeps ==
  ASSUME BudgetInv, NEW p \in Procs, NEW s \in Session, sess' = Append(sess, s),
         Len(sess) <= MaxSessions, Return(p), rows' = rows, live' = live,
         calm' \subseteq calm, p \notin calm',
         s.status = "pending" =>
             \A q \in calm' : job[q].month = s.month => pc[q] # "insert"
  PROVE  BudgetInv'
<1>1. /\ SessTyped' /\ SessionsKept /\ Len(sess') = Len(sess) + 1
      /\ \A k \in Ids : sess'[k] = sess[k]
      /\ sess'[Len(sess')] = s
      /\ \A k \in 1..Len(sess') : k \in Ids \/ k = Len(sess')
  BY Added DEF BudgetInv
<1>2. \A q \in calm' : pc[q] = "insert" => NoNew(q, {"pending"})
  BY <1>1 DEF NoNew
<1>3. live' \in BOOLEAN
  BY DEF BudgetInv, RowsTyped
<1> QED BY <1>1, <1>2, <1>3, ReturnKeeps

LEMMA InsertSessionKeeps ==
  ASSUME BudgetInv, NEW p \in Procs, InsertSession(p)
  PROVE  BudgetInv'
<1> DEFINE s == [status |-> "pending", month |-> job[p].month, alloc |-> {}]
<1>1. s \in Session /\ Len(sess) <= MaxSessions
  BY BudgetAssumption
  DEF BudgetInv, JobTyped, Jobs, SessTyped, Session, Statuses, InsertSession
<1>2. /\ sess' = Append(sess, s) /\ Return(p) /\ rows' = rows /\ live' = live
      /\ calm' \subseteq calm /\ p \notin calm'
  BY DEF InsertSession, AddSession, At
<1>3. \A q \in calm' : job[q].month = s.month => pc[q] # "insert"
  BY DEF InsertSession, At, BudgetInv, CallersTyped
<1> HIDE DEF s
<1> QED BY <1>1, <1>2, <1>3, AddKeeps

LEMMA CreateDraftKeeps ==
  ASSUME BudgetInv, NEW p \in Procs, CreateDraftSession(p)
  PROVE  BudgetInv'
<1>1. PICK alloc \in Allocs : AddSession("rollover_draft", job[p].month, alloc)
  BY DEF CreateDraftSession
<1> DEFINE s == [status |-> "rollover_draft", month |-> job[p].month, alloc |-> alloc]
<1>2. s \in Session /\ Len(sess) <= MaxSessions /\ s.status # "pending"
  BY DEF BudgetInv, JobTyped, Jobs, Session, Statuses, CreateDraftSession
<1>3. /\ sess' = Append(sess, s) /\ Return(p) /\ rows' = rows /\ live' = live
      /\ calm' = calm
  BY <1>1 DEF CreateDraftSession, AddSession
<1>4. p \notin calm
  BY DEF CreateDraftSession, BudgetInv, CalmFits
<1> HIDE DEF s
<1> QED BY <1>2, <1>3, <1>4, AddKeeps

(* A session that is changed where it stands, to a status of its own. *)
LEMMA ChangeInPlace ==
  ASSUME BudgetInv, NEW k \in Ids, NEW s \in Session, sess' = [sess EXCEPT ![k] = s],
         s.month = sess[k].month
  PROVE  /\ SessTyped' /\ SessionsKept /\ Len(sess') = Len(sess)
         /\ sess'[k] = s /\ \A i \in Ids \ {k} : sess'[i] = sess[i]
<1>0. sess \in [Ids -> Session]
  BY DEF BudgetInv, SessTyped, Ids
<1>1. /\ sess' \in [Ids -> Session]
      /\ sess'[k] = s /\ \A i \in Ids \ {k} : sess'[i] = sess[i]
  BY <1>0
<1>2. \A i \in Ids : sess'[i] \in Session /\ sess'[i].month = sess[i].month
  BY <1>0, <1>1
<1>3. DOMAIN sess' = Ids /\ sess' = [i \in Ids |-> sess'[i]]
  BY <1>1
<1> QED BY <1>1, <1>2, <1>3, Rewritten DEF BudgetInv

LEMMA MarkKeeps ==
  ASSUME BudgetInv, NEW p \in Procs, MarkSessionFinalized(p)
  PROVE  BudgetInv'
<1>1. PICK k \in Ids : k = job[p].id /\ sess[k].month = job[p].month
  BY DEF BudgetInv, JobFits, MarkSessionFinalized, Finalizing
<1> DEFINE s == [sess[k] EXCEPT !.status = "finalized"]
<1>2. sess[k] \in Session
  BY DEF BudgetInv, SessTyped, Ids
<1>3. s \in Session /\ s.status = "finalized" /\ s.month = sess[k].month
  BY <1>2 DEF Session, Statuses
<1>4. /\ sess' = [sess EXCEPT ![k] = s] /\ Return(p) /\ rows' = rows /\ live' = live
      /\ calm' = calm /\ pc[p] = "mark"
  BY <1>1 DEF MarkSessionFinalized
<1> HIDE DEF s
<1>5. /\ SessTyped' /\ SessionsKept /\ Len(sess') = Len(sess)
      /\ sess'[k] = s /\ \A i \in Ids \ {k} : sess'[i] = sess[i]
  BY <1>3, <1>4, ChangeInPlace
<1>6. \A q \in calm' : pc[q] = "insert" => NoNew(q, {"pending"})
  BY <1>1, <1>3, <1>5 DEF NoNew, Ids
<1>7. p \notin calm' /\ calm' \subseteq calm /\ live' \in BOOLEAN
  BY <1>4 DEF BudgetInv, CalmFits, RowsTyped
<1> QED BY <1>4, <1>5, <1>6, <1>7, ReturnKeeps

LEMMA StoreKeeps ==
  ASSUME BudgetInv, SessTyped', SessionsKept, UNCHANGED <<rows, live, caller, calm>>,
         \A q \in calm : NoNew(q, {"pending"})
  PROVE  BudgetInv'
<1>1. RowsTyped' /\ JobTyped'
  BY TypesKept DEF BudgetInv, RowsTyped, caller
<1>2. CallersTyped' /\ \A q \in Procs : Unmoved(q)
  BY DEF BudgetInv, CallersTyped, Unmoved, caller
<1>3. \A q \in calm : Harmless(q) /\ CalmFits(q)
  BY DEF Harmless, NoNewRow, BudgetInv
<1>4. \A q \in calm' : CalmFits(q)'
  BY <1>2, <1>3, StillCalm DEF BudgetInv, CallersTyped
<1>5. \A k \in Ids : k \in Ids' /\ sess'[k].month = sess[k].month
  BY DEF SessionsKept, BudgetInv, SessTyped, Ids
<1>6. ASSUME NEW q \in Procs PROVE JobFits(q)'
  <2>1. JobFits(q) /\ Unmoved(q)
    BY <1>2 DEF BudgetInv
  <2> QED BY <1>5, <2>1 DEF JobFits, Unmoved
<1> QED BY <1>1, <1>2, <1>4, <1>6 DEF BudgetInv

LEMMA EditKeeps ==
  ASSUME BudgetInv, NEW k \in Ids,
         DeleteSession(k) \/ \E alloc \in Allocs : UpdateSession(k, alloc)
  PROVE  BudgetInv'
<1>1. sess[k] \in Session
  BY DEF BudgetInv, SessTyped, Ids
<1>2. PICK s \in Session :
        /\ sess' = [sess EXCEPT ![k] = s] /\ s.month = sess[k].month
        /\ s.status \in {sess[k].status, "abandoned"}
  <2>1. CASE DeleteSession(k)
    <3>1. LET s == [sess[k] EXCEPT !.status = "abandoned"]
          IN  s \in Session /\ s.status = "abandoned" /\ s.month = sess[k].month
      BY <1>1 DEF Session, Statuses
    <3> QED BY <2>1, <3>1 DEF DeleteSession
  <2>2. ASSUME NEW alloc \in Allocs, UpdateSession(k, alloc)
        PROVE  \E s \in Session : /\ sess' = [sess EXCEPT ![k] = s]
                                  /\ s.month = sess[k].month /\ s.status = sess[k].status
    <3>1. LET s == [sess[k] EXCEPT !.alloc = alloc]
          IN  s \in Session /\ s.status = sess[k].status /\ s.month = sess[k].month
      BY <1>1 DEF Session
    <3> QED BY <2>2, <3>1 DEF UpdateSession
  <2> QED BY <2>1, <2>2
<1>3. /\ SessTyped' /\ SessionsKept /\ Len(sess') = Len(sess)
      /\ sess'[k] = s /\ \A i \in Ids \ {k} : sess'[i] = sess[i]
  BY <1>2, ChangeInPlace
<1>4. \A q \in calm : NoNew(q, {"pending"})
  BY <1>2, <1>3 DEF NoNew, Ids
<1>5. UNCHANGED <<rows, live, caller, calm>>
  BY DEF DeleteSession, UpdateSession
<1> QED BY <1>3, <1>4, <1>5, StoreKeeps
-----------------------------------------------------------------------------
(* The invariant.                                                          *)

LEMMA BudgetInvInit == ASSUME Init PROVE BudgetInv
<1>0. sess = <<>> /\ sess \in Seq(Session) /\ Len(sess) = 0
  BY DEF Init
<1>1. SessTyped /\ RowsTyped
  <2>1. 0 <= MaxSessions + 1 /\ 0 \in 0..Len(sess)
    BY <1>0, BudgetAssumption
  <2>2. SessTyped
    BY <1>0, <2>1 DEF SessTyped
  <2>3. RowsTyped
    BY <2>1 DEF Init, RowsTyped
  <2> QED BY <2>2, <2>3
<1>2. NoJob \in Jobs
  BY <1>1, BudgetAssumption, 1 \in Months, FreshJob DEF Months
<1>3. JobTyped /\ CallersTyped
  BY <1>2 DEF Init, JobTyped, CallersTyped, Steps
<1>4. (\A p \in Procs : JobFits(p)) /\ \A p \in calm : CalmFits(p)
  BY DEF Init, JobFits, Finalizing
<1> QED BY <1>1, <1>3, <1>4 DEF BudgetInv

LEMMA StillKeeps == ASSUME BudgetInv, UNCHANGED vars PROVE BudgetInv'
<1>1. SessTyped' /\ SessionsKept
  BY Standing DEF BudgetInv, vars, store
<1>2. \A q \in calm : NoNew(q, {"pending"})
  BY DEF NoNew, vars, store, Ids
<1> QED BY <1>1, <1>2, StoreKeeps DEF vars, store

LEMMA BudgetInvNext == ASSUME BudgetInv, [Next]_vars PROVE BudgetInv'
<1>1. ASSUME NEW p \in Procs, ProcStep(p) PROVE BudgetInv'
  BY <1>1, InsertSessionKeeps, ReplaceKeeps, ReplaceCommitKeeps, MarkKeeps, ResetKeeps,
     DeactivateKeeps, ResetClearedKeeps, CreateDraftKeeps, GiveUpKeeps DEF ProcStep
<1>2. ASSUME NEW p \in Procs,
             \/ ResetActive(p) \/ RolloverForUser(p)
             \/ \E m \in Months : CreateSession(p, m)
             \/ \E k \in ActedOn : FinalizeSession(p, k)
      PROVE  BudgetInv'
  BY <1>2, ResetActiveKeeps, RolloverKeeps, CreateSessionKeeps, FinalizeSessionKeeps
<1>3. ASSUME NEW k \in ActedOn,
             DeleteSession(k) \/ \E alloc \in Allocs : UpdateSession(k, alloc)
      PROVE  BudgetInv'
  BY <1>3, EditKeeps DEF ActedOn
<1>4. CASE UNCHANGED vars
  BY <1>4, StillKeeps
<1> QED BY <1>1, <1>2, <1>3, <1>4 DEF Next

LEMMA BudgetInvAlways == Spec => []BudgetInv
<1>1. Init => BudgetInv
  BY BudgetInvInit
<1>2. BudgetInv /\ [Next]_vars => BudgetInv'
  BY BudgetInvNext
<1> QED BY <1>1, <1>2, PTL DEF Spec

-----------------------------------------------------------------------------
(* The theorems.                                                           *)

(* Sessions, rows and callers stay well formed: no row is ever filled from *)
(* a session that does not exist, and only a caller that is about to fill  *)
(* a month has rows locked.                                                *)
THEOREM BudgetTypeCorrect == Spec => []TypeOK
<1>1. BudgetInv => TypeOK
  BY DEF BudgetInv, TypeOK, SessTyped, RowsTyped, JobTyped, CallersTyped, Session, Jobs
<1> QED BY <1>1, BudgetInvAlways, PTL

(* A month is replaced whole by any number of racing finalizations, resets *)
(* and rollovers: what the UPDATE of ReplaceMonth picked is all there is   *)
(* to deactivate, unless another finalization of the month committed.      *)
THEOREM MonthReplacedWhole == Spec => ReplacedWhole
<1>1. ASSUME BudgetInv, NEW p \in Procs, ReplaceCommit(p), p \in calm
      PROVE  \A c \in Cats : rows'[job[p].month][c] \in {0, job[p].id}
  <2>1. PICK m \in Months : m = job[p].month
    BY <1>1 DEF BudgetInv, JobTyped, Jobs
  <2>2. rows' = [rows EXCEPT ![m] = Filled(p)] /\ pc[p] = "fill"
    BY <1>1, <2>1 DEF ReplaceCommit
  <2>3. ActiveIn(m) \subseteq held[p]
    BY <1>1, <2>1, <2>2 DEF BudgetInv, CalmFits
  <2>4. rows'[m] = Filled(p)
    BY <1>1, <2>2 DEF BudgetInv, RowsTyped
  <2>5. \A c \in Cats : Filled(p)[c] \in {0, job[p].id}
    BY <2>1, <2>3 DEF Filled, ActiveIn
  <2> QED BY <2>1, <2>4, <2>5
<1>2. BudgetInv /\ [Next]_vars =>
        [\A p \in Procs : (ReplaceCommit(p) /\ p \in calm) =>
             \A c \in Cats : rows'[job[p].month][c] \in {0, job[p].id}]_vars
  BY <1>1
<1> QED BY <1>2, BudgetInvAlways, PTL DEF Spec, ReplacedWhole

(* A new session is the only pending one of its month, unless another was  *)
(* inserted between the expiry of the old ones and its own insertion.      *)
THEOREM WizardStartsClean == Spec => StartsClean
<1>1. BudgetInv /\ [Next]_vars =>
        [\A p \in Procs : (InsertSession(p) /\ p \in calm) =>
             In(job[p].month, {"pending"}) = {}]_vars
  BY DEF BudgetInv, CalmFits, InsertSession
<1> QED BY <1>1, BudgetInvAlways, PTL DEF Spec, StartsClean

(* A reset whose statements succeed leaves its month without an active row *)
(* and the settings without a budget, unless a finalization committed or   *)
(* set its limit meanwhile.                                                *)
THEOREM ResetLeavesNothing == Spec => ResetClears
<1>1. BudgetInv /\ [Next]_vars =>
        [\A p \in Procs : (ResetCleared(p) /\ p \in calm) =>
             ActiveIn(job[p].month) = {} /\ ~live']_vars
  BY DEF BudgetInv, CalmFits, ResetCleared, ClearActive
<1> QED BY <1>1, BudgetInvAlways, PTL DEF Spec, ResetClears
=============================================================================
