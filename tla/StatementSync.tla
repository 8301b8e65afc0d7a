---------------------------- MODULE StatementSync ----------------------------
(***************************************************************************)
(* Statement sync: internal/service/statementsync/service.go over           *)
(* UpsertSpendTransactions and LatestSpendSync of idbi_repo.go, called at    *)
(* midnight (cmd/api/main.go), on demand, and in the background after a       *)
(* refresh of the account mirror (idbi_handler.go).  Only the last kind is   *)
(* kept to one at a time, so two syncs of one user may overlap.              *)
(*                                                                           *)
(* One watermark, the newest stored transaction of any account, decides how  *)
(* far back every account is read.  An account that falls behind is caught   *)
(* up only as far as the overlap reaches, so what is read, stored and passed *)
(* over by whom is what the properties are about.                            *)
(*                                                                           *)
(* Abstracted: one user (syncs of two users share nothing); an amount,       *)
(* merchant or category; rows without an id or a date, which are skipped;    *)
(* revoking the link, which AccountMirror has.  A transaction is its posting *)
(* number at the bank, and the numbers are distinct: external_id is the      *)
(* bank's txnId.                                                             *)
(***************************************************************************)
EXTENDS Integers, Sequences, FiniteSets

CONSTANTS
    Accounts,     \* accounts of the user at the bank
    Syncs,        \* SyncUser calls running at once
    None,         \* no account, no sync
    Lookback, Overlap, MaxPages,   \* Config
    PageSize,     \* external: rows on a page of 393
    LastDay,      \* bound: days
    MaxPosts      \* bound: transactions at the bank

ASSUME SyncAssumption ==
    /\ Lookback \in Nat /\ Overlap \in Nat /\ LastDay \in Nat /\ MaxPosts \in Nat
    /\ MaxPages \in Nat \ {0} /\ PageSize \in Nat \ {0}
    /\ None \notin Accounts \cup Syncs

VARIABLES
    clock,        \* today
    bank,         \* external: transactions posted, as [acct, date]
    mirrored,     \* idbi_accounts
    stored,       \* spend_transactions with source 'idbi'
    excused,      \* history: transactions a known event lets a sync pass over
    busy,         \* spendSyncInFlight: the background sync, or None
    pc, from, to, todo, cur, cursor, page, ans   \* per sync

bankside == <<clock, bank, mirrored>>
scan == <<cur, cursor, page, ans>>
job == <<busy, pc, from, to, todo>>
vars == <<bankside, stored, excused, job, scan>>

-----------------------------------------------------------------------------
(* Days count from the first day of the run; the Unix epoch lies decades,  *)
(* Go's zero time two thousand years before it.                            *)
Epoch == -20000
ZeroTime == -739000

Txns == 1..Len(bank)
Acct(t) == bank[t].acct
Date(t) == bank[t].date

(* LatestSpendSync: COALESCE(MAX(occurred_at), '1970-01-01'). *)
LatestSpendSync ==
    IF stored = {} THEN Epoch
    ELSE CHOOSE d \in {Date(t) : t \in stored} : \A t \in stored : Date(t) <= d

(* SyncUser: from the watermark less the overlap; the lookback is for a    *)
(* user without rows.                                                      *)
From(last) == IF last = ZeroTime THEN clock - Lookback ELSE last - Overlap

(* Newest first: t comes after c on the bank's list (SortIn "D"). *)
After(t, c) == Date(t) < Date(c) \/ (Date(t) = Date(c) /\ t < c)

InOpenWindow(p, a, t) == Acct(t) = a /\ from[p] < Date(t) /\ Date(t) <= to[p]
InWindow(p, a, t) ==
    /\ Acct(t) = a
    /\ from[p] <= Date(t)
    /\ Date(t) <= to[p]

(* What sync p has not read yet of the account it is reading: everything   *)
(* behind the cursor, which is 0 before the first page.                    *)
Unread(p) ==
    {t \in Txns : InWindow(p, cur[p], t) /\ (cursor[p] = 0 \/ After(t, cursor[p]))}

(* The bank's answer: the first PageSize rows, and whether more follow. *)
FirstRows(S) == {t \in S : Cardinality({u \in S : After(t, u)}) < PageSize}
Oldest(S) == CHOOSE t \in S : \A u \in S : u = t \/ After(t, u)
NoAnswer == [rows |-> {}, more |-> FALSE]

-----------------------------------------------------------------------------
Steps == {"idle", "listed", "since", "read", "write"}
Reading(p) == pc[p] \in {"read", "write"}

TypeOK ==
    /\ clock \in 0..LastDay
    /\ bank \in Seq([acct: Accounts, date: 0..LastDay]) /\ Len(bank) <= MaxPosts
    /\ mirrored \subseteq Accounts
    /\ stored \subseteq Txns /\ excused \subseteq Txns
    /\ busy \in Syncs \cup {None}
    /\ pc \in [Syncs -> Steps]
    /\ from \in [Syncs -> Int] /\ to \in [Syncs -> 0..LastDay]
    /\ todo \in [Syncs -> SUBSET Accounts]
    /\ cur \in [Syncs -> Accounts \cup {None}]
    /\ cursor \in [Syncs -> Nat]
    /\ page \in [Syncs -> 0..MaxPages - 1]
    /\ ans \in [Syncs -> [rows: SUBSET Nat, more: BOOLEAN]]
    /\ \A p \in Syncs : cursor[p] \in {0} \cup Txns /\ ans[p].rows \subseteq Txns

Init ==
    /\ clock = 0
    /\ bank = <<>>
    /\ mirrored = {}
    /\ stored = {}
    /\ excused = {}
    /\ busy = None
    /\ pc = [p \in Syncs |-> "idle"]
    /\ from = [p \in Syncs |-> 0]
    /\ to = [p \in Syncs |-> 0]
    /\ todo = [p \in Syncs |-> {}]
    /\ cur = [p \in Syncs |-> None]
    /\ cursor = [p \in Syncs |-> 0]
    /\ page = [p \in Syncs |-> 0]
    /\ ans = [p \in Syncs |-> NoAnswer]

-----------------------------------------------------------------------------
(* The bank (external) and the account mirror.                             *)

Tick ==
    /\ clock < LastDay
    /\ clock' = clock + 1
    /\ UNCHANGED <<bank, mirrored, stored, excused, job, scan>>

(* A transaction is posted, dated today or earlier.  One dated before the  *)
(* overlap is too late to be caught for certain.                           *)
Post(a, d) ==
    /\ Len(bank) < MaxPosts
    /\ d <= clock
    /\ bank' = Append(bank, [acct |-> a, date |-> d])
    /\ excused' = IF d < clock - Overlap THEN excused \cup {Len(bank) + 1}
                  ELSE excused
    /\ UNCHANGED <<clock, mirrored, stored, job, scan>>

(* A refresh of the mirror adds an account, with what it holds by then: its *)
(* older history is behind a watermark other accounts may have moved.      *)
MirrorAdd(a) ==
    /\ a \notin mirrored
    /\ mirrored' = mirrored \cup {a}
    /\ excused' = excused \cup
          {t \in Txns : Acct(t) = a /\ Date(t) < clock - Overlap}
    /\ UNCHANGED <<clock, bank, stored, job, scan>>

-----------------------------------------------------------------------------
(* SyncUser, step by step; it fails at once without a mirrored account.    *)
(* The accounts are listed, the watermark is read, and then the clock.     *)

Begin(p) ==
    /\ pc[p] = "idle"
    /\ mirrored # {}
    /\ todo' = [todo EXCEPT ![p] = mirrored]
    /\ pc' = [pc EXCEPT ![p] = "listed"]
    /\ UNCHANGED <<bankside, stored, excused, from, to, scan>>

ReadWatermark(p) ==
    /\ pc[p] = "listed"
    /\ from' = [from EXCEPT ![p] = From(LatestSpendSync)]
    /\ pc' = [pc EXCEPT ![p] = "since"]
    /\ UNCHANGED <<bankside, stored, excused, busy, to, todo, scan>>

(* An account that was mirrored after the listing is not read, while the   *)
(* watermark may come to be as late as the clock says now.                 *)
Unlisted(p) ==
    {t \in Txns : Acct(t) \in mirrored \ todo[p] /\ Date(t) < clock - Overlap}

TakeTime(p) ==
    /\ pc[p] = "since"
    /\ to' = [to EXCEPT ![p] = clock]
    /\ excused' = excused \cup Unlisted(p)
    /\ pc' = [pc EXCEPT ![p] = "read"]
    /\ UNCHANGED <<bankside, stored, busy, from, todo, scan>>

(* On demand, or by the nightly run over all linked users. *)
SyncUser(p) == Begin(p) /\ UNCHANGED busy

(* After a refresh of the mirror, unless such a sync is in flight. *)
triggerSpendSyncInBackground(p) ==
    /\ busy = None
    /\ Begin(p)
    /\ busy' = p

ReturnHolding(p) ==
    /\ todo' = [todo EXCEPT ![p] = {}]
    /\ from' = [from EXCEPT ![p] = 0]
    /\ to' = [to EXCEPT ![p] = 0]
    /\ pc' = [pc EXCEPT ![p] = "idle"]
    /\ UNCHANGED busy

(* The sync returns; a background one gives its slot back, however it ends. *)
Return(p) ==
    /\ todo' = [todo EXCEPT ![p] = {}]
    /\ from' = [from EXCEPT ![p] = 0]
    /\ to' = [to EXCEPT ![p] = 0]
    /\ pc' = [pc EXCEPT ![p] = "idle"]
    /\ busy' = IF busy = p THEN None ELSE busy

Done(p) ==
    /\ pc[p] = "read"
    /\ cur[p] = None
    /\ todo[p] = {}
    /\ Return(p)
    /\ UNCHANGED <<bankside, stored, excused, scan>>

(* syncAccount: a page is asked for, the first of the next account ...     *)
Page(rows) == [rows |-> FirstRows(rows), more |-> Cardinality(rows) > PageSize]

FirstPage(p) ==
    /\ pc[p] = "read"
    /\ cur[p] = None
    /\ \E a \in todo[p] :
          /\ cur' = [cur EXCEPT ![p] = a]
          /\ todo' = [todo EXCEPT ![p] = @ \ {a}]
          /\ ans' = [ans EXCEPT ![p] = Page({t \in Txns : InWindow(p, a, t)})]
    /\ pc' = [pc EXCEPT ![p] = "write"]
    /\ UNCHANGED <<bankside, stored, excused, busy, from, to, cursor, page>>

(* ... or the next of this one, from behind the cursor ...                 *)
FurtherPage(p) ==
    /\ pc[p] = "read"
    /\ cur[p] # None
    /\ ans' = [ans EXCEPT ![p] = Page(Unread(p))]
    /\ pc' = [pc EXCEPT ![p] = "write"]
    /\ UNCHANGED <<bankside, stored, excused, busy, from, to, todo, cur, cursor, page>>

(* ... and stored by one transaction, keyed by (user, source, external_id). *)
UpsertSpendTransactions(p) ==
    /\ pc[p] = "write"
    /\ stored' = stored \cup ans[p].rows
    /\ pc' = [pc EXCEPT ![p] = "read"]
    /\ UNCHANGED <<bankside, busy, from, to, todo>>

LeaveAccount(p) ==
    /\ cur' = [cur EXCEPT ![p] = None]
    /\ cursor' = [cursor EXCEPT ![p] = 0]
    /\ page' = [page EXCEPT ![p] = 0]
    /\ ans' = [ans EXCEPT ![p] = NoAnswer]

(* More pages, and the cap not reached: the cursor moves to the last row.  *)
MorePagesByOne(p) == page[p] + 1 <= MaxPages
MorePages(p) == page[p] + 1 < MaxPages

NextPage(p) ==
    /\ UpsertSpendTransactions(p)
    /\ ans[p].more /\ MorePages(p)
    /\ cursor' = [cursor EXCEPT ![p] = Oldest(ans[p].rows)]
    /\ page' = [page EXCEPT ![p] = @ + 1]
    /\ ans' = [ans EXCEPT ![p] = NoAnswer]
    /\ UNCHANGED <<excused, cur>>

AccountRead(p) ==
    /\ UpsertSpendTransactions(p)
    /\ ~ans[p].more
    /\ LeaveAccount(p)
    /\ UNCHANGED excused

(* The cap: what is left of the account is passed over without a word. *)
AccountCapped(p) ==
    /\ UpsertSpendTransactions(p)
    /\ ans[p].more /\ ~MorePages(p)
    /\ LeaveAccount(p)
    /\ excused' = excused \cup (Unread(p) \ ans[p].rows)

(* The gateway or the database errs: the account is skipped with a warning *)
(* and the others are read.                                                *)
AccountFailed(p) ==
    /\ pc[p] = "write"
    /\ excused' = excused \cup Unread(p)
    /\ LeaveAccount(p)
    /\ pc' = [pc EXCEPT ![p] = "read"]
    /\ UNCHANGED <<bankside, stored, busy, from, to, todo>>

(* The process stops, the request's context ends, or the watermark could   *)
(* not be read.                                                            *)
Ahead(p) == {t \in Txns : /\ Reading(p)
                           /\ \/ \E a \in todo[p] : InWindow(p, a, t)
                              \/ cur[p] # None /\ t \in Unread(p)}
Crash(p) ==
    /\ pc[p] # "idle"
    /\ excused' = excused \cup Ahead(p)
    /\ Return(p)
    /\ LeaveAccount(p)
    /\ UNCHANGED <<bankside, stored>>

SyncStep(p) ==
    \/ ReadWatermark(p) \/ TakeTime(p) \/ Done(p) \/ FirstPage(p) \/ FurtherPage(p)
    \/ NextPage(p) \/ AccountRead(p) \/ AccountCapped(p)
    \/ AccountFailed(p) \/ Crash(p)

Next ==
    \/ Tick
    \/ \E a \in Accounts : MirrorAdd(a) \/ \E d \in 0..LastDay : Post(a, d)
    \/ \E p \in Syncs : SyncUser(p) \/ triggerSpendSyncInBackground(p) \/ SyncStep(p)

Spec == Init /\ [][Next]_vars

-----------------------------------------------------------------------------
(* Sync p will still store t: it holds t on a page, or has it before it.   *)
Pending(p, t) ==
    \/ Reading(p) /\ \E a \in todo[p] : InWindow(p, a, t)
    \/ cur[p] # None /\ t \in Unread(p) /\ (ans[p] = NoAnswer \/ ans[p].more
                                            \/ t \in ans[p].rows)

Missing == {t \in Txns : Acct(t) \in mirrored} \ (stored \cup excused)

(* No transaction of a mirrored account is forgotten: one that is not      *)
(* stored is dated within the reach of the next sync, or a running sync    *)
(* still has it to read, or one of five things happened to it: it was      *)
(* posted too late for the overlap, its account was mirrored too late, for *)
(* the overlap or for a sync that had listed the accounts on an earlier    *)
(* day, its account failed, was cut off by the page cap, or the sync died. *)
(* However many syncs run, the watermark one of them moves takes nothing   *)
(* from the accounts another has not read yet.                             *)
NothingForgotten ==
    \A t \in Missing :
        \/ Date(t) >= LatestSpendSync - Overlap
        \/ \E p \in Syncs : Pending(p, t)

(* The slot of background syncs is held by a sync that runs: however one   *)
(* ends, the next refresh of the mirror can start another                  *)
(* (idbi_handler.go: "Deduped per user so overlapping account refreshes    *)
(* don't pile up syncs").                                                  *)
SlotIsHeld == busy # None => pc[busy] # "idle"
=============================================================================
