---------------------------- MODULE BudgetSession ----------------------------
(***************************************************************************)
(* Budget set-up: sessions of the wizard, finalizing one into the month's  *)
(* budgets, resetting, and the rollover that drafts the next month          *)
(* (internal/service/budget/service.go and rollover.go over                 *)
(* internal/repository/budget_repo.go, internal/handler/budget_handler.go,  *)
(* and the scheduler of cmd/api/main.go), for one user.                     *)
(*                                                                          *)
(* Every repository call is a statement of its own but ReplaceMonth, which  *)
(* is a transaction: so an operation is several steps, and requests and the *)
(* scheduler interleave.  An UPDATE in PostgreSQL's READ COMMITTED mode     *)
(* picks its rows when it starts, waits for the locks other transactions    *)
(* hold on them, looks at those rows again and changes the ones that still  *)
(* qualify; a row that qualifies only since it started is not seen.         *)
(*                                                                          *)
(* Abstracted: amounts.  An active budget row carries the session whose     *)
(* allocation it was filled from, so patching an amount (PatchLatestCategory,*)
(* ApplyReallocation) changes nothing here; of the settings row the flag    *)
(* last_reset_at is kept.  Expiry dates of sessions are stored and read by  *)
(* nobody.                                                                  *)
(***************************************************************************)
EXTENDS Naturals, Sequences, FiniteSets

CONSTANTS
    Cats,          \* budget categories
    Allocs,        \* bound: sets of tracked categories a session may hold
    Procs,         \* requests and the rollover run
    LastMonth,     \* bound: months 1..LastMonth
    MaxSessions    \* bound: sessions that are acted on, and one draft more

ASSUME BudgetAssumption ==
    /\ LastMonth \in Nat \ {0} /\ MaxSessions \in Nat
    /\ {} \in Allocs /\ Allocs \subseteq SUBSET Cats

VARIABLES
    sess,          \* budget_setup_sessions, in order of creation
    rows,          \* budgets: rows[m][c] is 0, or the session an active row is from
    live,          \* budget_settings.last_reset_at is set
    pc, job, snap, held,   \* per caller: next step, its session's data,
                           \* rows its UPDATE picked, rows it has locked
    calm           \* history: callers whose statements have all succeeded and
                   \* whom no commit of another caller has disturbed since

store == <<sess, rows, live>>
caller == <<pc, job, snap, held>>
vars == <<store, caller, calm>>

-----------------------------------------------------------------------------
Months == 1..LastMonth
Ids == 1..Len(sess)
ActedOn == {k \in Ids : k <= MaxSessions}
Statuses == {"pending", "rollover_draft", "finalized", "abandoned"}
Steps == {"idle", "insert", "replace", "wait", "fill", "limit", "mark",
          "unset", "unwait", "clear", "draft"}
NoJob == [id |-> 0, month |-> 1, alloc |-> {}]

TypeOK ==
    /\ sess \in Seq([status: Statuses, month: Months, alloc: Allocs])
    /\ Len(sess) <= MaxSessions + 1
    /\ rows \in [Months -> [Cats -> 0..Len(sess)]]
    /\ live \in BOOLEAN
    /\ pc \in [Procs -> Steps]
    /\ job \in [Procs -> [id: 0..Len(sess), month: Months, alloc: Allocs]]
    /\ snap \in [Procs -> SUBSET Cats]
    /\ held \in [Procs -> SUBSET Cats]
    /\ calm \subseteq Procs
    /\ \A p \in Procs : held[p] # {} => pc[p] = "fill"

Init ==
    /\ sess = <<>>
    /\ rows = [m \in Months |-> [c \in Cats |-> 0]]
    /\ live = FALSE
    /\ pc = [p \in Procs |-> "idle"]
    /\ job = [p \in Procs |-> NoJob]
    /\ snap = [p \in Procs |-> {}]
    /\ held = [p \in Procs |-> {}]
    /\ calm = {}

-----------------------------------------------------------------------------
ActiveIn(m) == {c \in Cats : rows[m][c] # 0}

(* LatestBudgets: the newest month with an active row; 0 if there is none. *)
LatestMonth == CHOOSE m \in 0..LastMonth :
                   /\ m = 0 \/ ActiveIn(m) # {}
                   /\ \A n \in Months : n > m => ActiveIn(n) = {}

In(m, statuses) == {k \in Ids : sess[k].month = m /\ sess[k].status \in statuses}

Go(p, step) == pc' = [pc EXCEPT ![p] = step]
At(m, steps) == {p \in Procs : job[p].month = m /\ pc[p] \in steps}
LockedByOthers(p) == UNION {held[q] : q \in At(job[p].month, Steps) \ {p}}

ReturnHolding(p) ==
    /\ Go(p, "idle")
    /\ job' = [job EXCEPT ![p] = NoJob]
    /\ snap' = [snap EXCEPT ![p] = {}]
    /\ UNCHANGED held

(* A caller returns, with or without an error, and forgets.  What it has   *)
(* locked is released.                                                     *)
Return(p) ==
    /\ Go(p, "idle")
    /\ job' = [job EXCEPT ![p] = NoJob]
    /\ snap' = [snap EXCEPT ![p] = {}]
    /\ held' = [held EXCEPT ![p] = {}]

(* The database errs, a context ends, or the process stops: what was       *)
(* committed stays.                                                        *)
GiveUp(p) ==
    /\ pc[p] # "idle"
    /\ Return(p)
    /\ calm' = calm \ {p}
    /\ UNCHANGED <<store>>

AddSession(status, m, alloc) ==
    sess' = Append(sess, [status |-> status, month |-> m, alloc |-> alloc])

-----------------------------------------------------------------------------
(* CreateSession: pending sessions of the month are abandoned, then a new  *)
(* one is inserted.                                                        *)

ExpireNothing(m) == sess' = sess
ExpirePendingSessions(m) ==
    sess' = [k \in Ids |-> IF k \in In(m, {"pending"})
                           THEN [sess[k] EXCEPT !.status = "abandoned"] ELSE sess[k]]

CreateSession(p, m) ==
    /\ pc[p] = "idle"
    /\ Len(sess) < MaxSessions
    /\ ExpirePendingSessions(m)
    /\ job' = [job EXCEPT ![p] = [NoJob EXCEPT !.month = m]]
    /\ calm' = calm \cup {p}
    /\ Go(p, "insert")
    /\ UNCHANGED <<rows, live, snap, held>>

InsertSession(p) ==
    /\ pc[p] = "insert"
    /\ Len(sess) < MaxSessions
    /\ AddSession("pending", job[p].month, {})
    /\ calm' = calm \ At(job[p].month, {"insert"})
    /\ Return(p)
    /\ UNCHANGED <<rows, live>>

(* UpdateSession and DeleteSession: one statement, whatever the status.    *)
(* Bound: a session is filled in once.                                     *)
UpdateSession(k, alloc) ==
    /\ sess[k].alloc = {} /\ alloc # {}
    /\ sess' = [sess EXCEPT ![k].alloc = alloc]
    /\ UNCHANGED <<rows, live, caller, calm>>

DeleteSession(k) ==
    /\ sess' = [sess EXCEPT ![k].status = "abandoned"]
    /\ UNCHANGED <<rows, live, caller, calm>>

-----------------------------------------------------------------------------
(* FinalizeSession: the session is read, whatever its status; then the     *)
(* month is replaced unless nothing is tracked, the limit is set, and the  *)
(* session is marked.                                                      *)

FinalizeSession(p, k) ==
    /\ pc[p] = "idle"
    /\ job' = [job EXCEPT ![p] = [id |-> k, month |-> sess[k].month,
                                  alloc |-> sess[k].alloc]]
    /\ Go(p, IF sess[k].alloc = {} THEN "limit" ELSE "replace")
    /\ UNCHANGED <<store, snap, held, calm>>

(* UPDATE budgets SET is_active = false, for ReplaceMonth: its snapshot,   *)
(* then the rows it locks when nobody else holds them.                     *)
Pick(p) == snap' = [snap EXCEPT ![p] = ActiveIn(job[p].month)]
StillActive(p) == snap[p] \cap ActiveIn(job[p].month)
Granted(p) == snap[p] \cap LockedByOthers(p) = {}

ReplaceMonth(p) ==
    /\ pc[p] = "replace"
    /\ Pick(p)
    /\ calm' = calm \cup {p}
    /\ Go(p, "wait")
    /\ UNCHANGED <<store, job, held>>

ReplaceLocked(p) ==
    /\ pc[p] = "wait"
    /\ Granted(p)
    /\ held' = [held EXCEPT ![p] = StillActive(p)]
    /\ snap' = [snap EXCEPT ![p] = {}]
    /\ Go(p, "fill")
    /\ UNCHANGED <<store, job, calm>>

(* The inserts, on rows nobody else holds, and the commit. *)
FilledOver(p) == [c \in Cats |-> IF c \in job[p].alloc THEN job[p].id
                                 ELSE rows[job[p].month][c]]
Filled(p) == [c \in Cats |-> IF c \in job[p].alloc THEN job[p].id
                             ELSE IF c \in held[p] THEN 0
                             ELSE rows[job[p].month][c]]

ReplaceCommit(p) ==
    LET m == job[p].month IN
    /\ pc[p] = "fill"
    /\ job[p].alloc \cap LockedByOthers(p) = {}
    /\ rows' = [rows EXCEPT ![m] = Filled(p)]
    /\ held' = [held EXCEPT ![p] = {}]
    /\ job' = [job EXCEPT ![p].alloc = {}]
    /\ calm' = calm \ At(m, {"wait", "fill", "unset", "unwait", "clear"})
    /\ Go(p, "limit")
    /\ UNCHANGED <<sess, live, snap>>

(* SetSpendingLimitAndActivate; a total of zero leaves the settings alone. *)
SetSpendingLimit(p) ==
    /\ pc[p] = "limit"
    /\ live' \in {live, TRUE}
    /\ calm' = calm \ {q \in Procs : pc[q] \in {"unset", "unwait", "clear"}}
    /\ Go(p, "mark")
    /\ UNCHANGED <<sess, rows, job, snap, held>>

(* MarkSessionFinalized: an error is ignored. *)
MarkSessionFinalized(p) ==
    /\ pc[p] = "mark"
    /\ sess' = [sess EXCEPT ![job[p].id].status = "finalized"]
    /\ Return(p)
    /\ UNCHANGED <<rows, live, calm>>

-----------------------------------------------------------------------------
(* ResetActive: the latest month, or the current one if there is none or   *)
(* the read fails, is deactivated, then the flag is cleared, even if the   *)
(* month could not be.                                                     *)

ResetActive(p) ==
    /\ pc[p] = "idle"
    /\ \E m \in Months : job' = [job EXCEPT ![p] = [NoJob EXCEPT !.month = m]]
    /\ calm' = calm \cup {p}
    /\ Go(p, "unset")
    /\ UNCHANGED <<store, snap, held>>

DeactivateMonth(p) ==
    /\ pc[p] = "unset"
    /\ Pick(p)
    /\ Go(p, "unwait")
    /\ UNCHANGED <<store, job, held, calm>>

DeactivateLocked(p) ==
    /\ pc[p] = "unwait"
    /\ Granted(p)
    /\ rows' = [rows EXCEPT ![job[p].month] =
                   [c \in Cats |-> IF c \in snap[p] THEN 0 ELSE @[c]]]
    /\ snap' = [snap EXCEPT ![p] = {}]
    /\ Go(p, "clear")
    /\ UNCHANGED <<sess, live, job, held, calm>>

DeactivateFailed(p) ==
    /\ pc[p] \in {"unset", "unwait"}
    /\ snap' = [snap EXCEPT ![p] = {}]
    /\ calm' = calm \ {p}
    /\ Go(p, "clear")
    /\ UNCHANGED <<store, job, held>>

ClearNothing == live' = live
ClearActive == live' = FALSE
ResetCleared(p) ==
    /\ pc[p] = "clear"
    /\ ClearActive
    /\ calm' = calm \ {p}
    /\ Return(p)
    /\ UNCHANGED <<sess, rows>>

-----------------------------------------------------------------------------
(* RolloverForUser: the month after the latest; then the diagnosis, which  *)
(* calls the model, and the draft.  SessionExistsForMonth stops it only if *)
(* it finds a session and does not err, its error is ignored, and the      *)
(* draft is a statement of its own long after: so the check rules out no   *)
(* step here, whatever sessions the month has.                             *)

RolloverForUser(p) ==
    LET next == LatestMonth + 1 IN
    /\ pc[p] = "idle"
    /\ next \in Months \ {1}
    /\ job' = [job EXCEPT ![p] = [NoJob EXCEPT !.month = next]]
    /\ Go(p, "draft")
    /\ UNCHANGED <<store, snap, held, calm>>

CreateDraftSession(p) ==
    /\ pc[p] = "draft"
    /\ Len(sess) <= MaxSessions
    /\ \E alloc \in Allocs \ {{}} :
          AddSession("rollover_draft", job[p].month, alloc)
    /\ Return(p)
    /\ UNCHANGED <<rows, live, calm>>

-----------------------------------------------------------------------------
ProcStep(p) ==
    \/ InsertSession(p) \/ ReplaceMonth(p) \/ ReplaceLocked(p) \/ ReplaceCommit(p)
    \/ SetSpendingLimit(p) \/ MarkSessionFinalized(p)
    \/ DeactivateMonth(p) \/ DeactivateLocked(p) \/ DeactivateFailed(p)
    \/ ResetCleared(p)
    \/ CreateDraftSession(p) \/ GiveUp(p)

Next ==
    \/ \E p \in Procs :
          \/ ProcStep(p) \/ ResetActive(p) \/ RolloverForUser(p)
          \/ \E m \in Months : CreateSession(p, m)
          \/ \E k \in ActedOn : FinalizeSession(p, k)
    \/ \E k \in ActedOn : DeleteSession(k) \/ \E alloc \in Allocs : UpdateSession(k, alloc)

Spec == Init /\ [][Next]_vars

-----------------------------------------------------------------------------
(* A month is replaced whole: when a finalization commits, every active    *)
(* row of the month is from its session, although rows are written one by  *)
(* one and only those its UPDATE picked are deactivated, unless another    *)
(* finalization of the month committed since it picked them (ReplaceMonth: *)
(* "atomically deactivates the month's existing budgets and inserts the    *)
(* given allocations fresh").                                              *)
ReplacedWhole ==
    [][\A p \in Procs :
          (ReplaceCommit(p) /\ p \in calm) =>
             \A c \in Cats : rows'[job[p].month][c] \in {0, job[p].id}]_vars

(* A wizard starts clean: the month of a new session has no other pending  *)
(* session, unless one was inserted between its two statements             *)
(* (ExpirePendingSessions: "so each wizard run starts clean").             *)
StartsClean ==
    [][\A p \in Procs :
          (InsertSession(p) /\ p \in calm) => In(job[p].month, {"pending"}) = {}]_vars

(* A reset whose two statements succeed clears: the month has no active    *)
(* row and the settings say there is no budget, whatever else ran, unless  *)
(* a finalization committed to the month or set its limit in between.      *)
(* ResetActive ignores the errors of both statements and answers "Budget   *)
(* cleared" all the same: of a reset one of them failed for, nothing is    *)
(* claimed.                                                                *)
ResetClears ==
    [][\A p \in Procs :
          (ResetCleared(p) /\ p \in calm) => ActiveIn(job[p].month) = {} /\ ~live']_vars
=============================================================================
