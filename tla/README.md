# Verification of the Astra backend

TLA+ models of the concurrent core of this Go service, the TLC runs that check
them and the TLAPS proofs about them. Paths are relative to the repository.

## 1. The system

One Go process (`cmd/api/main.go` wires it) serves a mobile app and a portal for
Relationship Managers (RMs) over HTTP and WebSocket, keeps its state in Postgres
and mirrors data from a bank gateway (IDBI). Handlers call services, services
call repositories and providers. Requests run concurrently; besides them there
are fire-and-forget goroutines (event publishers, background refreshes), two
optional daily schedulers and the goroutines of each portal WebSocket.
Transactions run at Postgres's default level, READ COMMITTED.

| Component | State | Operations | What is hard | What makes it correct |
|---|---|---|---|---|
| RM assignment engine (`repository/rm_repo.go`, `service/rm_admin.go`, `repository/user_repo.go`) | `users.assigned_rm_id`, `users.wants_rm`, `rm_assignment_history`, `rm_queue_state`, `rm_users` | signup, opt-in and opt-out, Assign, Transfer, Remove, Offboard, UpdateRM | racing transactions, only some of which lock the queue row; failures between statements | owner column and log change together; the rotation pointer is never stale; an offboarded RM keeps no client; capacity and fairness |
| Assignment ring (`domain/rm/ring.go`) | none | PickNextRM | wrap-around, a full desk, an RM that has left | picks the next RM with room, the least loaded when there is none |
| Event hub (`events/hub.go`) | topic to channels, RWMutex | Subscribe, cancel, Publish, UserChanged, AssignmentChanged | cancel against a publisher, full channels | never sends on a closed channel, never stalls, a drop loses no change |
| RM portal stream (`handler/rm_events_handler.go`) | a map of subscriptions, `out`, `fwdDone`, the socket | open, subscribe and unsubscribe frames, forward, unwind | three kinds of goroutine, deferred clean-up | goroutines end, the hub is left |
| IDBI account mirror (`service/idbiaccounts`, `repository/idbi_repo.go`) | `idbi_customer_link`, `idbi_accounts`, a TTL cache, single-flight marks | SeedLink, ResolveLinkByAccount, Refresh, Revoke, List | a slow bank call between a check and a write; racing replace-alls; cache fills that lose races | only lists without a common account mix in the mirror; it needs a link; the cache catches up, after a Revoke at once |
| Payments, mandates, deposits (`provider/payments`, `provider/fd`, `handler/aa_handler.go`) | `bank_accounts`, `payments`, `mandates`, `mandate_executions`, `fd_accounts` | InitiatePayment, CreateMandate, MandateAction, the catch-up behind every list, OpenFD, Withdraw, UnlinkAccount | several writers of one balance, cycles caught up by racing reads, nested pool queries | money is conserved and never overdrawn, a cycle runs once and on its date, a cancelled mandate stays so |
| Statement sync (`service/statementsync`, `handler/idbi_handler.go`) | `spend_transactions` and its newest date as watermark, the in-flight slot | SyncUser, SyncAllLinkedUsers, the background trigger | one watermark for all accounts, paging, partial failure, two syncs at once | what is skipped was skipped for a known reason; the slot is given back |
| Account-aggregator consents (`service/idbiaa`, `repository/idbi_aa_repo.go`) | status and consent id, linked accounts, statements | Request, Refresh, CompleteRedirect, the two webhooks, FetchConsentData | gateway answers stored late; webhooks late, twice, out of order or lost; two transactions per refresh | links have their consent id, an undisturbed refresh tells the truth, refreshes heal |
| Authentication (`handler/auth.go`, `service/rmauth.go`, `repository/user_repo.go`) | `refresh_tokens`, `rm_refresh_tokens`, one-time codes | sign in, Refresh, Logout | concurrent rotation, failed rotation | a sign-in is a chain of tokens of which one is live, until it is ended for good |
| Budget (`service/budget`, `repository/budget_repo.go`) | setup sessions, monthly budgets, the reset flag, cool-downs, a diagnosis cache | CreateSession, UpdateSession, DeleteSession, FinalizeSession, ResetActive, rollover, RespondToSuggestion | check-then-insert, several writes without a transaction | a finalization replaces its month, a wizard starts alone, a reset clears, except against operations of one named kind |
| Chat, memory, tips (`service/ai.go`, `memory.go`, `advisortips`) | chat sessions, memories, a tip cache | a turn, observe, tip | last writer wins | degraded tips are not cached |
| RM service, analytics, catalogue services | mostly read | aggregation and arithmetic | snapshot single-flight | numeric, covered by unit tests |

Interactions: the login path calls the assignment engine inside `FindOrCreateUser`
and then announces the signup; the admin handlers call the engine and announce
after the commit (`go h.events.AssignmentChanged`); the hub fans a hint out to
the portal sessions, which fetch afresh; a session asks the engine's `OwnerOf`
before it subscribes to a client; the account handlers trigger a statement sync
after a refresh of the mirror; an approved consent is refreshed by the webhook that
announces it and its statements land in the table the statement sync writes, under a
source of their own; one daily scheduler runs the statement sync of every linked user,
another the budget rollover of everybody with a budget.

The hazards this code is exposed to are listed with their lines in
`PROJECT.json`; sections 3 to 9 say which property answers which.

## 2. Modules

| Module | Kind | Contents |
|---|---|---|
| `Ring` | pure | `PickNextRM` over a sequence of slots |
| `Ledger` | abstract specification | owner column and append-only log; one step moves a set of clients |
| `RMAssignment` | detailed | the engine, EXTENDS `Ring`, implements `Ledger` |
| `RMAssignmentProofs` | proofs | what `PickNextRM` returns for every ring, type correctness, the pointer, the refinement, offboarding, what the log rows say, fairness, capacity, no circle of waits |
| `MCRMAssignment` | TLC | a desk of two |
| `Hub` | detailed and contract | the hub under any listeners (`HubSpec`) |
| `EventStream` | composition | a portal session on the hub, EXTENDS `Hub` |
| `EventStreamProofs` | proofs | the hub is safe, a session uses it as it must, types of a session, no change lost |
| `MCEventStream` | TLC | small topics |
| `AccountMirror` | detailed | the account mirror, its cache and background refresh |
| `AccountMirrorProofs` | proofs | type correctness, single flight, which answers can mix, one answer of the bank |
| `MCAccountMirror` | TLC | two accounts; the bank lists both, one or none |
| `BankBook` | detailed | payments, mandates, deposits and unlinking over one user's accounts |
| `BankBookProofs` | proofs | type correctness, no overdraft, one execution a cycle, cancellation, no circle of row locks, money is conserved |
| `MCBankBook` | TLC | one account, amounts, terms, a calendar of a long and a short month |
| `ConsentLifecycle` | detailed | consents, the gateway as environment, webhooks |
| `ConsentProofs` | proofs | type correctness, links and their id, what a refresh leaves |
| `MCConsentLifecycle` | TLC | single-account grants |
| `StatementSync` | detailed | watermark, pages and failures of overlapping syncs |
| `StatementSyncProofs` | proofs | type correctness, the background slot, nothing forgotten, where a first sync begins |
| `MCStatementSync` | TLC | symmetry |
| `BudgetSession` | detailed | wizard, finalization, reset and rollover |
| `BudgetSessionProofs` | proofs | type correctness and the three action properties |
| `MCBudgetSession` | TLC | allocations, symmetry |
| `TokenChain` | abstract specification | sessions with one live token each; begin, replace, end |
| `RefreshTokens` | detailed | sign-in, refresh and logout of app and console, implements `TokenChain` |
| `RefreshTokenProofs` | proofs | type correctness, one live token, nothing burned, logout is final, the refinement, whose a token is |
| `MCRefreshTokens` | TLC | symmetry |

Operators named after a slip (`LockQueueUnlocked`, `SendBlocking`, ...) are
plausible mistakes in the definition that follows them. No specification uses
them; `PROJECT.json` pairs each with the property that must catch it.

## 3. The assignment engine

**State.** `owner` and `history` are the committed `assigned_rm_id` and
`rm_assignment_history`, `optin` is `wants_rm` (with "absent" before the row
exists), `status` and `cap` come from `rm_users`, `lastAssigned` and `rotation`
from `rm_queue_state`, and `queueLock` is the request holding that row FOR
UPDATE. A request is a record with a program counter; its uncommitted writes are
`write[u]` (new owner) and `from[u]` (what the history row will call the old
one). `write[u] # Unset` doubles as the row lock an UPDATE takes until the end.

**Grain.** One action per statement that reads or writes what other requests
write: `LockQueue`, `ListClients`, `Pick` (the ring query and PickNextRM),
`ReadCurrent` and `Begin` (currentRMTx), `UpdateRow` (the UPDATE in
applyAssignmentTx), `Commit`. A statement sees what is committed when it runs
and its own transaction's writes (`OwnerSeen`). The INSERT of the history row
and the UPDATE of the queue row are seen by nobody before the commit, so they
are part of `Commit`. `requireStaff` and `OwnerOf`, which decide assign against
transfer, are one action with the request's begin. `Fail` is a cancelled
context, a failed statement or a crash at any point: Postgres undoes everything.
A crash between the UPDATE of `wants_rm` and the assignment is covered, because
these are separate actions.

**Abstractions.** An offboarding takes its clients in `created_at` order in the
code and in any order here. `Desk` fixes the RMs' creation order. Admins, who
hold no clients, deletion of users and staff, and `reason` and `actor` are left
out. Rows created by the seeding tool are not modelled; the tables start empty.

**Properties.**
- `ImplementsLedger`: owner column and log change in one step or not at all, one row per
  client moved, which names the new owner (migration 000017: "rm_assignment_history below
  is the append-only log of how it got there"). The log of the model is in commit order.
  The table does not keep that order: a row has `created_at`, the start of its transaction,
  and History sorts by it, so a transaction that waited for the queue row can be listed
  before one that committed earlier. No property says that the newest row names the owner.
- `RowsNameOldRM`: the row of a router or an offboarding names as `from_rm_id` the RM the
  client leaves at that commit, though it was read some statements before; only an opt-out
  can come in between. Rows of racing admin requests, which take no lock, can be stale, so
  it is checked without them.
- `PointerIsFresh`: from the locked read to the commit, a router's pointer is the
  committed one ("concurrent signups can't hand the same "next" slot to two users").
- `OffboardEmptiesBook`: when an offboarding commits, its RM has no client, even
  with signups and opt-ins running. It is checked without admin assignments,
  which take no queue lock and can add a client to the RM who leaves.
- `SignupsFitDesk`: while only the router places clients and the desk has room for more
  than all of them, concurrent signups never overfill an RM. A desk with room for exactly
  all of them can overflow: a client who opts in again is counted with the RM they have
  (AssignNextRM does not look whether there is one), so the ring looks full to them. With
  `>=` TLC finds this for two clients and an RM with `max_portfolios` 1 each.
- `RotationIsFair`: while only the router places clients and there is room everywhere,
  the clients it has dealt to any two RMs differ by one at most, in whatever order
  concurrent signups commit. Both are stated for any desk.
- `RequestsFinish`: no request waits for ever on a row. Two more predicates, of the proofs
  only, state what it takes in a single state: `NoCircleOfWaits` (waits are at most two deep:
  whoever keeps the holder of an awaited row waiting has only its COMMIT left) and
  `SomeoneMoves` (while a request is under way, one can take its next step).

Seen while modelling, and in no need of a run: user_repo.go:115-116 says of an opt-in changed
at login that it assigns an RM "if the user has none". AssignNextRM (user_repo.go:182-183)
does not look; a client whom an admin placed while they were opted out is moved to the next
RM of the ring. The action `Login` does as the code does.

## 4. The hub and a portal session

**State.** `subs` is the hub's map; `made`, `closed` and `buf` describe the
channels (hints are counted, not distinguished); `pub[p]` is a publisher's list
of topics to do, whether it holds the read lock, and the channels left of the
range. A session has its loop (`main`), the reader (`reader`, `who`, `joined`),
the forwarders (`fwd[c]`), `clientSubs`, `out`, `stop` (fwdDone closed), and
`stale`: the RM's book has changed since the portal was last told to fetch.

**Grain.** Publish is lock, one send at a time, unlock. Subscribe happens at a
moment with no reader. cancel is two steps, off the map under the lock and close
after it. The deferred calls of `Stream` run in reverse: close fwdDone, sweep
`clientSubs`, cancelOwn, close the connection. The sweep and the reader share the
map without a lock; a write during the sweep may go unnoticed or end the process
(`alive`), both of which the Go runtime can produce.

**Properties.**
- `NoSendOnClosed`: no publisher still has to send on a channel that is closed.
- `PublishersNeverStall`: every announcement ends, with no assumption on the portal.
- `BookCatchesUp`: a change of the book announced while the session is open is
  followed by a hint, although a full channel drops hints.
- `GoroutinesEnd`: once Stream has returned, the reader and all forwarders end.
- `SessionLeavesHub` does **not** hold (section 11). `UsesHub`, that a session is
  an implementation of `HubSpec`, is proved.

One session is modelled: sessions meet only in the hub, and `HubSpec` has any
number of listeners and publishers.

## 5. The account mirror

**State.** `mirror[a]` is the number of the bank answer a row comes from (0:
none), `answered` the lists handed out, `link` is none, without a cifId or with
one, `cache` is an entry with an age in ticks, `inflight` the single-flight mark.

**Grain.** Refresh: read the link, ask the bank, upsert row by row (a written row
stays locked), choose the rows to prune, delete them one by one, commit, evict.
Revoke: choose, delete, commit with the link, evict. List: a hit, or a read of
the table and then the fill, with the background refresh it may start. The
pruning DELETE chooses its rows from what is committed at its start. Time is
`Tick`; the entry's age counts up to `TTL + 1`. The gateway's per-account
enquiries only enrich an answer and are part of it. Whether rows are older than
`StaleAfter` is a free choice, except that an empty table always is. `Restart`
loses the cache, the marks and every transaction in flight.

**Properties.**
- `MixedAreApart`: rows of two answers stand side by side only if the answers have no
  account in common, whatever refreshes and revocations race. An account both lists have
  serialises their transactions; two lists without one can be left as their union, because
  neither prune sees the other's uncommitted rows, and the code does nothing against that
  (ReplaceAccounts takes an empty or an unrelated list like any other).
- `MirrorIsOneAnswer`: until a Revoke begins, and as long as no two of the lists handed out
  are without a common account, the mirror is exactly one of them. This is a condition
  on what the bank has said so far, not on the constants: the run's bank also gives the
  disjoint and the empty list. A Revoke racing a Refresh can leave part of an answer.
- `CacheCatchesUp`: once writes are over, what the cache serves is the table, in spite of
  fills that lose a race: such a fill is served until its entry expires, and a hit does
  not renew it.
- `RevokeIsSeen`, that no List is served revoked accounts once Revoke has returned, does
  **not** hold (section 11).
- `SingleFlight`: the mark is set exactly while a background refresh runs, so no
  List starts a second one beside it, however the first ended.
- `RefreshMarkReturned`: the single-flight mark is given back on every path.
- `MirrorNeedsLink` does **not** hold (section 11).

## 6. Payments, mandates and deposits

**State.** The tables of one user: `balance` and `linked` (`unlinked_at` is NULL) of
`bank_accounts`, `payment` by txn_id, `mandate`, `executions` in commit order, `deposit`.
`lock` is who holds a row FOR UPDATE or has updated it. A request has a label (`pc`),
what it asked for (`want`), what it read under a lock (`seen`, `row`), and, for a read
that catches mandates up, the mandates to do and the cycles left (`todo`, `left`).
`withdrawals` is kept for the bookkeeping property only.

**Grain.** One action per statement that may wait, for a row or for a connection; what
a transaction writes is the action that commits it, since it holds the rows until then.
`BeginCycle` to `CycleWrite` is one round of `runOneMandateCycle`, a transaction each;
`processDueMandates` lists the due mandates once and works them off one by one, at most
`MaxCatchUp` cycles each. `ConnFree` counts the pool: `payResolve` and `fdResolve` are
the queries InitiatePayment and OpenFD send to the pool from inside a transaction.
`Fail` is an error or a timeout at any point.

**Calendar.** A date is a month and a day; `MonthLengths` gives the lengths of the months
in turn, over and over. `nextDebitDate` is Go's AddDate: months are added and a day the
month does not have runs over into the next (`Before`, `NextDay` and `DaysIn` are the
calendar's). Cycles are numbers of months: 1, 3 or 12 in the code.

**Abstractions.** Amounts are paise. Interest, maturity,
merchants, UPI names and the idempotent answer to a replay are left out; a replay of a
recorded payment is a request that changes nothing and does not begin. The early-exit
charge is modelled as computed, rounding included (`netPayable`).

**Properties.**
- `NoOverdraft`: the column has no CHECK, so it rests on reading the balance under the
  lock held to the commit.
- `BooksBalance`: what is missing from an account is what its payments, executions and
  deposits account for, whatever raced or failed.
- `EachCycleOnce`: however many reads catch a mandate up, its first cycle is on the start
  date and each further one on the date nextDebitDate gives for the one before it, which
  is later; none is repeated or left out of that order, and none runs before its day. It
  does not say that every calendar month has a cycle: a mandate of the 31st of January is
  next due on the 3rd of March (recurring_test.go:17 pins this) and stays on the 3rd.
- `CancelIsFinal`: a catch-up under way neither undoes a cancellation nor debits again.
- `OnlyThePoolStarves`: requests can all be stuck at once only over the pool, when
  every connection belongs to a transaction that wants a second one; the rows are
  locked in an order without a circle.

Seen while modelling, claimed by no property because nothing in the repository promises
otherwise: a mandate on an unlinked account stops the catch-up of every mandate listed
after it; `MandateAction` does not catch up although the comment at recurring.go:96-99
says so; mock.go:34-36 says payments move no money, while they debit the account.

## 7. Consents

**State.** `row` and `linked` are the two tables, `landed` the handles whose statements
were stored. `gw` is what the gateway holds, `wire` the webhooks not yet delivered. A
caller holds a handle (`on`), the gateway's answer (`ans`), and the links its DELETE
picked (`doomed`). `calm` is the set of refreshes nobody disturbed: it is set by the
gateway's answer and lost when another caller writes the handle or the gateway moves.

**Grain.** A step ends where the code waits for the gateway or commits. A refresh asks,
stamps the row in one transaction, and replaces the links in another: upserts, the
choice of the rows to prune, and the DELETE with the commit. Both wait for links that
another replacement has upserted, and two may wait for each other (`DeadlockVictim`).
A webhook is delivered in any order, again (`Take`), or never.

**Abstractions.** The owner of a handle, times and URLs; an account is its link
reference; a 591 answer is the list of the handles the gateway knows.

**Properties.** The repository promises no order of webhooks, and overwriting REVOKED
by a late ACTIVE is possible; what it promises is that a refresh repairs it.
- `LinkedIsIdentified`: whoever sees a linked account, or fetched statements, has the
  consent id to fetch with.
- `RefreshTells`: a refresh nobody disturbed leaves status and links as the gateway has
  them (aa_handler.go: "the app can always recover state via POST
  /consents/{handle}/refresh").
- `Recovers`: once the gateway is quiet, refreshes bring every consent to its state for
  good, whatever mess went before. A webhook that arrives before the row exists is
  dropped and healed the same way.

## 8. Statement sync and budgets

**Statement sync.** `bank` is the sequence of transactions posted, each with account and
date; `stored` is `spend_transactions`; a sync has its window (`from`, `to`), the accounts
to do, the account and the cursor it is at, and the bank's answer in hand. A sync lists the
accounts (`Begin`), reads the watermark (`ReadWatermark`) and takes the time (`TakeTime`) in
three steps. One action then asks for a page, another stores it (one transaction) and goes
on to the next page, the next account, or over the cap. `AccountFailed` skips an account as
the code does, with a warning; `Crash` ends the sync at any point. `busy` is the slot of the
background sync, `excused` the transactions that a known event let a sync pass over.
- `NothingForgotten`: a transaction of a mirrored account that is not stored is within
  reach of the next sync, or a running sync still has it to read, or one of five things
  befell it: it was posted later than the overlap reaches; its account was mirrored late
  (for the overlap, or after a running sync had listed the accounts and before that sync
  took the time, with midnight in between), failed, or was cut off at the cap; or a sync
  died. There is one watermark per user; the one a sync moves takes nothing from another.
- `SlotIsHeld`: the slot is held by a sync that runs, so a refresh can start another
  after it, however it ended.
- The look-back of a first sync is never used (section 11, disagreement 4): the theorem
  `FirstSyncReadsAll` says what is read instead.

**Budgets.** `sess` is the list of setup sessions, `rows[m][c]` the session an active
row of a month was filled from (0: none), `live` whether the settings say there is a
budget. Every repository call is a statement of its own but `ReplaceMonth`, which is a
transaction. An UPDATE picks its rows when it starts (`snap`), waits for those that others
hold (`held`), and changes those that still qualify. `calm` is the set of callers that
nothing of the kind the property names has disturbed since they read.
- `ReplacedWhole`: a committed finalization leaves a month of its own rows only, unless
  another finalization of the month committed since its UPDATE picked its rows.
- `StartsClean`: a new wizard's session is the only pending one of its month, unless
  another was inserted between the two statements that create it.
- `ResetClears`: a reset whose two statements succeed leaves its month without active rows
  and the settings without a budget, unless a finalization committed to the month or set
  its limit meanwhile.

What these leave open. Two finalizations of one month that overlap can leave a mixture of
their rows, and two wizards started together two pending sessions. ResetActive ignores the
errors of its statements and answers "Budget cleared" all the same (service.go:619-622):
such resets are modelled (`DeactivateFailed`, `GiveUp`), and `ResetClears` says nothing of
them. Of a rollover's draft nothing is claimed: its check is a statement long before the
insert, an error of the check counts as "no session", and no unique index backs it
(migration 000025:46-58), so a draft can stand beside any session of its month.

## 9. Refresh tokens

**State.** `rows` is `refresh_tokens` and `rm_refresh_tokens` together (the two repositories
issue the same statements), a row under its token; `origin`, the sign-in a row descends
from, is no column but names the chain. `lock` is who holds a row, `job` what a request
has at its label `pc`: the token it sent, the one made up for it, whose row it was, and
the day its transaction began, which is Postgres's now() throughout. `known` are the tokens
some client was given, `active` the staff that may sign in.

**Grain.** A refresh makes up a token and begins (`Refresh`), updates the row once nobody
holds it, looking at it again then (`Consume`: a second UPDATE that waited finds the row
revoked), and inserts and commits (`Commit`). What a transaction wrote is seen at its commit, so
the UPDATE only takes the lock and the commit writes both rows. `Answer` is the console's
GetByID and the answer: staff deactivated meanwhile get none. A logout is one UPDATE that
waits alike. `Fail` is an error before the commit, or of GetByID after it; an INSERT or a
Commit may report an error and have been made. Clients may send any token they were
ever given, the used ones too.

**Abstractions.** A token is its hash, and a fresh one is new (32 random bytes). The codes and
access tokens around a sign-in are left out; VerifyOTP looks at the status long before
its INSERT, so the row may be that of somebody deactivated since, and `SignIn` has
no guard on it. A request for a token of no row changes nothing and does not begin.

**Properties.**
- `OneLiveToken`: two requests replaying one token cannot both win (auth.go:175-178), nor
  can tokens of one chain be live beside each other in any other way.
- `SessionKept`: while no logout has ended a sign-in, one of its rows is not revoked,
  wherever rotations fail ("rolls back instead of stranding the user", auth.go:179-180).
- `IsChain`: every step begins a chain, replaces its live token, ends it, or does nothing
  to any; so a token is used once, and a refresh under way when the last token of a
  sign-in is revoked does not bring it back. The latter, `LogoutIsFinal`, is also proved by itself.

Seen while modelling: the row `SessionKept` speaks of may be one whose token nobody was sent.
When GetByID fails after the commit (rmauth.go:289), the old token is used, the new one is
dropped with the error, and an active member of staff must sign in again. The comment at
rmauth.go:278-280 excludes this of the rotation only, which keeps it. A logout with a token
already used revokes nothing and reports success; the session goes on with its newer token.

## 10. Runs, bounds, fairness

| Run | Bounds | Shows |
|---|---|---|
| `RMAssignment` | 3 clients, 2 RMs, capacities 1 or 3, 2 requests at a time, 4 in all, 1 UpdateRM | the invariants of section 3, all operations |
| `RMDesk` | 2 clients, 2 RMs, logins and offboardings, 4 requests | refinement, offboarding, the log's old RMs, liveness |
| `EventStream` | 1 client, buffers of 1, 2 publishers, 2 events, 2 frames | section 4, safety and liveness |
| `SessionLeak` | 2 clients, 3 channels, 1 publisher, 3 frames | a counterexample to `SessionLeavesHub` |
| `AccountMirror` | 2 accounts (the bank lists both, either or none), 2 callers and the background refresh, 2 answers, 3 writes, TTL 1 | section 5 |
| `MirrorRevoke` | the same | a counterexample to `MirrorNeedsLink` |
| `RevokeCache` | the same | a counterexample to `RevokeIsSeen` |
| `BankBook` | 1 account with 300, amounts 100 and 200, 1 txn id, 2 mandates of 100 a month that end after 2 cycles, months of 3 and 2 days from the 1st of the second to the 1st of the third, 1 deposit, 2 requests, 2 connections | section 6 |
| `ConsentLifecycle` | 1 handle, 2 accounts granted singly, 2 callers, 3 moves of gateway, failures and redeliveries together | section 7, safety and liveness |
| `StatementSync` | 2 accounts, 2 syncs, 3 transactions, 2 days, pages of 1, cap 2, overlap 0 | section 8 |
| `BudgetSession` | 2 categories, allocations of none or one, 2 months, 2 callers, 2 sessions and a draft | section 8 |
| `RefreshTokens` | 1 user, 1 member of staff, 4 tokens, 2 requests, tokens good for 1 day, 2 days | section 9 |

Why these are enough: two requests at a time already give every pair of
transactions every interleaving, and a third client lets a desk of two with
capacities 1 and 3 be short of room on one side, full, and with room on both.
Four requests allow a signup, an opt-out, an opt-in and an offboarding one after
the other. Buffers of one fill with a single hint; two publishers are the least
that meet in the read lock, two frames a subscription and its cancellation. Two
answers and two callers make two refreshes race, with lists that meet, are disjoint or
empty, and three writes add a revocation or a new link. 300 against amounts of 100 and 200 makes two writers overdraw
the account together and neither alone; two connections and two requests can exhaust the
pool; a mandate that starts on the last day of a long month, which the short one after it
lacks, is due, late, carried over the month's end and over within the days of the run. Two single-account
grants give two disjoint answers, which is when two replacements pass each other, and
three moves allow an approval, a turn, and a redelivery or failure after it. Pages of one
with a cap of two and three transactions give a full page, a further page and a cut-off;
two accounts let one fall behind the watermark of the other; with an overlap of zero
every late day shows. Two categories with sessions of one let two finalizations of a
month write disjoint rows. Four tokens are two sign-ins with a rotation each, or one rotated
three times; two requests replay a token together or race a logout; over two days a token
can expire while its row is waited for. The proofs lift the bounds for what they cover.

All configurations set `CHECK_DEADLOCK FALSE`: when a bound is used up the model
stops, as a server without requests does.
`RMAssignment.cfg`, `BankBook.cfg`, `StatementSync.cfg`, `BudgetSession.cfg` and `RefreshTokens.cfg`
use symmetry; they check invariants, action properties and a refinement without liveness only.

Fairness. *Engine*: a request that can take its next step takes it (the Go
scheduler, and Postgres's queue for a row lock); nothing makes requests arrive,
fail or succeed. Weak fairness is enough as the number of requests is bounded,
so a lock cannot be taken away for ever. *Stream*: every goroutine that can run
does, and the write lock is handed to a cancel or subscribe that waits for it
(Go's RWMutex holds back new readers behind a waiting writer); the portal owes
nothing. *Mirror*: time passes, processes run, and a background refresh ends
within its 45 seconds (`context.WithTimeout` in refreshInBackground). *Consents*: callers
go on, one that waits for a row gets its turn, and the app refreshes again and again (the
POST route the handler's comment names; an assumption about the app); strong fairness,
because webhooks may take the callers' places in between. Failures and moves of the
gateway are bounded.

## 11. Disagreements between code and text

1. **A session can leave a subscription behind** (`SessionLeak`). hub.go:57-59
   asks for cancel to be called exactly once; a subscribe frame that is being
   handled while Stream unwinds registers after the sweep.
2. **Account rows outlive the link** (`MirrorRevoke`). idbi_repo.go:102-104 says
   they never do; a Refresh that read the link before a Revoke leaves its rows, whether it
   commits before the Revoke (whose DELETE did not see them) or after it.
3. **Revoked accounts are served again** (`RevokeCache`). service.go:128-131 says that the
   next List after a Revoke reflects it; a List that had read the table fills the cache
   after the eviction, and the old accounts are served until the entry expires.
4. **The look-back of a first sync is never used** (proved: `FirstSyncReadsAll`).
   statementsync/service.go:43 says it is "how far back to pull on a first sync"; the
   query (idbi_loans.sql:51) answers 1970 for an empty table, which is not Go's zero time.

## 12. Proofs

All theorems hold for every value of the constants that satisfies the named assumptions
of their module; TLC evaluates each on the runs. `ConstantsAssumption`: NULL, the "unset"
mark, RMs and requests are distinct values, capacities are numbers, users are finitely
many. `DeskAssumption`: `Desk` lists every RM once. `HubAssumption`: channels are numbered
and have room for a hint (`ChanCap` is 16 in the code; without room every hint is dropped).
`SessionAssumption`: the topics of a session are topics, and no channel is "no channel".
`MirrorAssumption`: answers are lists of accounts, the background refresh is no caller,
`Same` is not a number, the TTL is one. `AmountsAssumption`: amounts are positive, rows of
different tables and "none" are distinct. `CalendarAssumption`: months have at least one day
and less than twice the days of any other, cycles are one month or more, "none" is no date. `ConsentAssumption`: there is a handle, grants
are sets of accounts. `SyncAssumption`, `BudgetAssumption`: bounds are numbers, pages are
not empty. `TokensAssumption`: users and staff are different people, "none" is no token, request or
person, the days are numbers. `NoneAssumption` of `BankBook`, of `ConsentLifecycle` and of
`RefreshTokens`: "no row" is no row.

Two theorems have a hypothesis of their own, which the constants of `RMDesk` satisfy and
section 3 explains: `OffboardingEmpties` and `OldRMNamed` assume `NobodyAssigns` (no Assign
and no Remove among the operations: they take no queue lock).

- `RMAssignmentProofs`. The inductive invariant `LockInv` is `TypeOK`,
  `PointerIsFresh` and `QueueHeld`: a request past `LockQueue` in a routed or
  offboarding transaction holds the queue row, and its label fits its kind of
  operation (`OpFitsLabel`). `PointerIsFresh` alone is not inductive: the commit
  of an offboarding writes the pointer, and only mutual exclusion says that no
  router has read it. `LedgerRefinement` maps `Commit` to a `Move` of the written
  clients and every other action to a stutter.
  `OffboardingEmpties`: `EmptyInv` says that, because everything that adds clients to a
  book holds the queue row, the list an offboarding made of its clients stays complete
  and each listed client is either still to do or written away.
  `OldRMNamed`: `KnowInv` says that past the read of the old RM only an opt-out can have changed
  the owner, since every other commit needs the queue row that the reader holds.
  `RotationFair`: in `FairInv` the log is a deal of so many full laps of the desk plus the
  RMs before the one that comes after `lastAssigned` (`Dealt`), and the RM a router has
  picked is that one. `SignupsFit`: in `FitInv` nobody is over their limit and the RM
  picked has room when the pick is committed; `FullDeskHolds` supplies the counting: a
  desk whose RMs are all at their limit holds as many clients as its capacity. The ring
  query and the capacity are recursive functions; that they exist and what they compute
  is proved by induction written out (`CountingUp`).
  `NoCircle` and `NoDeadlock` are by `WaitInv`: the holder of the queue row has it behind it
  and waits for client rows only, an offboarding has not written the clients it has still to
  move, and nobody else writes more than one. So a wait for the queue row leads to its holder,
  a wait for a client's row to whoever wrote that client; a router or an admin who did is at its
  commit, and an offboarding holds the queue row, so no second one writes beside it.
  `PickIsSound` and `PickSkipsNobody` are about `PickNextRM` alone, from lemmas on the least
  element of a set of naturals and on the lap: every position of the ring is
  reached from the start by exactly some offset below its length.
- `EventStreamProofs`. `HubInv`: every registered channel is made and open, the
  channels a publisher still has to send on are all registered, and a publisher
  has such channels only while it holds the read lock. `NoSendOnClosed` alone is
  not inductive: closing a channel preserves it only because an unregistered
  channel is on no publisher's list, and taking it off the map only because no
  publisher is inside its range then. `SessionUsesHub` shows every action of a
  session to be a hub step or a stutter, given `Wiring` (a session that has
  started has its own channel, a reader looking up has a client in hand);
  `SessionSafe` puts the two together. `SessionTyped` is the session's half of
  `TypeOK`, which every step keeps. `NoChangeLost` (`HintUnderWay`) is the safety half of
  `BookCatchesUp`: while the loop runs, a stale book has a hint in the session's own channel or
  ahead of a publisher that is on its way to it. A full channel drops hints but holds one
  already; and no frame the reader handles meanwhile can take the session's channel off its
  topic or read from it (`OwnApart`, `Listening`).
- `AccountMirrorProofs`. `MirrorInv` is `TypeOK` and that nobody holds rows of an
  answer the bank has yet to give; without it a commit could write rows from
  nowhere. `SingleFlightHolds` needs `NeverFills` besides: the place where a List
  starts a refresh is one that Background never reaches. `OnlyApartMix` and
  `MirrorStaysOneAnswer` are by `RaceInv`: the rows a refresh has written are exactly those its
  label says (`Fits`) and locked by it (`RowsLocked`), so two refreshes cannot both be past an
  account their answers share, and the prune of the later one sees the earlier's rows.
- `BankBookProofs`. `BookInv`: the tables and the requests are typed, every request's
  wish, row and balance fit its label (`Fits`), and the dates of each mandate's executions
  and its next one follow one another (`InStep`, which `DatesAdvance` keeps: AddDate leads to a
  later day of any calendar). `NoOverdraft` alone is not inductive: a debit compares
  the amount with `seen`, and only that the lock has been held since makes `seen` the
  balance (`BalanceFits`); a step of another request keeps this because it needs the same
  lock to write. Likewise `MandateFits` makes the row a cycle writes back the row in the
  table, which `EachCycleOnce` and `CancelIsFinal` need. `NoCircleOfRows` is by
  `LocksUsed`: which rows a request may hold at each label. An account is locked last, by
  a request that then only writes, so whoever waits for an account waits for somebody who
  runs, and whoever waits for a mandate or deposit waits for one of those.
  `MoneyIsConserved` is by `BooksInv`: a direct debit is of its mandate's amount and
  account, a withdrawal of the principal of a deposit whose row has been locked since it
  was read (`TermsFit`), and only finitely many rows are filed (`Filed`), so that the sums
  mean something when the tables' keys are infinitely many. The library defines its sum by
  recursion over the set; `SumIs`, `AnyOrder` and `SumWithout` say what it computes, by
  induction on the size written out (`BySize`), and each write then moves the balance and
  one of the three sums by the same amount.
- `ConsentProofs`. `ConsentInv`: types, `LinkedIsIdentified`, what the gateway can hold
  (`GwFits`: an approved consent has an id), and per caller what its label implies: one
  that has stamped has a row, one with links to store has stored their id, and a calm one
  holds the gateway's present answer, has it in the row once stamped, and has picked
  exactly the links the answer lacks. `RefreshTells` is then the step of `RefreshLink`.
- `StatementSyncProofs`. `SlotInv` adds to `SlotIsHeld` that the slot names a sync and
  that labels are a function over the syncs. `NoneForgotten` is by `SyncInv`: the types
  of the bank and of the syncs, that the watermark a sync read is one the table still
  reaches (`SyncFits`), that what is missing from the window of a sync that reads lies ahead of
  its cursor or within the overlap of the window's end (`Covers`), and that what is missing and
  out of the next sync's reach lies ahead of some sync (`Kept`). `TakeTime` establishes `Covers`
  only because it excuses the accounts that were mirrored since `Begin`.
- `BudgetSessionProofs`. `BudgetInv`: types, which session a job is about at each label
  (`JobFits`), and `CalmFits`: what a caller that nobody has disturbed read still holds
  (no pending session of the month, no active row but those its UPDATE picked, ...). Each action property
  is then a step from it.
- `RefreshTokenProofs`. `TokenInv`: types; what a request's label says of its tokens (`Fits`:
  the old one has a row, the new one has none, and one that inserts holds a row that is not
  revoked); no two requests have made up the same token (`Apart`); every row descends from a
  sign-in (`Rooted`). `OneLiveToken` alone is not inductive: a commit keeps it only because
  the row it replaces is still the live one, which the lock has kept since the UPDATE
  looked. `SignInChains`, `CommitChains` and `RevokeChains` say what each writing step does to
  the live tokens of every sign-in; the four properties and the steps of `TokensAreChains`
  (sign-in to begin, commit to replace, an effective revoke to end, all others to a
  stutter) follow from them. `NobodyElses` and `RowsNeverRewritten` have no property of a run:
  a row keeps its holder, expiry and sign-in for ever, and since a rotation takes the holder
  from the row it replaces, every token of a chain belongs to whoever signed in.

Only model-checked: the liveness properties (fairness and ENABLED are outside the
prover's reach): `RequestsFinish` and `BookCatchesUp`, whose safety halves are proved as said
above; `RefreshMarkReturned` and `Recovers`, which rest on `SingleFlightHolds` (the mark is set
exactly while the refresh that returns it runs) and on `RefreshRecovers` (an undisturbed refresh
leaves the gateway's state); `PublishersNeverStall`, `GoroutinesEnd` and `CacheCatchesUp`.

## 13. Not modelled

Not modelled for good, and most of the repository's lines: arithmetic over read data
(analytics, portfolio analysis, budget suggestions, RM narrative), the vendored
statement parser, gateway clients and their types, mocks, formatting and routing,
middleware, migrations as such, seeding. None of it keeps state that steps could race on,
and transcribing it would only repeat the code.

Left out of modelled components:
- budgets: `PatchCategoryAmount`, `ApplyReallocation`, suggestions and their cool-downs.
  They change amounts, of which the model keeps the origin, and each write stands alone
  with its error ignored, so nothing relates them;
- authentication: one-time codes, access tokens, and the rows that go with a deleted user;
- payments: seeding of demo subscriptions, adding accounts, the catalogue;
- schedulers: their tickers, and panics that end a daily job (a hazard in `PROJECT.json`);
- the loan mirror and the snapshots, which repeat the account mirror's single flight.

A further module this development has room for is the engine and the hub composed: which
books are told of a transfer when transfers race (the handlers read the old owner before the
transaction; Assign names none; opt-outs and offboardings announce nothing).
