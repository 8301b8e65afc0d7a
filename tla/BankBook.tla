------------------------------ MODULE BankBook ------------------------------
(***************************************************************************)
(* One user's bank accounts and everything that moves money on them:       *)
(* payments, mandates and their catch-up (internal/provider/payments),     *)
(* fixed deposits (internal/provider/fd) and unlinking an account          *)
(* (internal/handler/aa_handler.go).                                       *)
(*                                                                         *)
(* A request runs in a transaction of its own.  Row locks (SELECT ... FOR  *)
(* UPDATE, and UPDATE itself) are held to its end; what it writes becomes  *)
(* visible when it commits, so the writes of a transaction are the action  *)
(* that commits it.  Begin takes a connection of the pool; a query that    *)
(* the code sends to the pool from inside a transaction needs another.     *)
(* Dates are days of a calendar with months of uneven length; amounts are  *)
(* in paise.                                                               *)
(***************************************************************************)
EXTENDS Integers, Sequences, FiniteSets, Functions

CONSTANTS
    Accounts, Txns, Mandates, Deposits, \* rows of the four tables
    Requests,                           \* requests of the user in flight
    None,
    Opening,      \* [Accounts -> Nat], the balances to begin with
    Amounts,      \* amounts a request may name
    Terms,        \* [amount, cycle, start, end]: what a mandate may ask for,
                  \* the cycle in months (MONTHLY, QUARTERLY, YEARLY)
    MonthLengths, \* days of the months of the calendar, over and over
    MaxCatchUp,   \* maxCatchUpPerRead
    PoolSize,     \* connections of the pool
    FirstDay, LastDay \* bounds on the clock

\* Months count from some January, the days of a month from 0.
Date == [month : Nat, day : Nat]
DaysIn(n) == MonthLengths[(n % Len(MonthLengths)) + 1]
Before(d, e) == d.month < e.month \/ (d.month = e.month /\ d.day < e.day)

\* What sticks out of a month fits into the next one, whichever they are.
ASSUME CalendarAssumption ==
    /\ MonthLengths \in Seq(Nat \ {0}) /\ MonthLengths # << >>
    /\ \A i, j \in DOMAIN MonthLengths : MonthLengths[i] < 2 * MonthLengths[j]
    /\ FirstDay \in Date /\ LastDay \in Date
    /\ None \notin Date

ASSUME AmountsAssumption ==
    /\ Opening \in [Accounts -> Nat]
    /\ Amounts \subseteq Nat \ {0}
    /\ Terms \subseteq [amount : Nat \ {0}, cycle : Nat \ {0}, start : Date,
                        end : Date \cup {None}]
    /\ MaxCatchUp \in Nat \ {0}
    /\ None \notin Nat \cup Requests \cup Accounts
    /\ Accounts \cap (Mandates \cup Deposits) = {}
    /\ Mandates \cap Deposits = {}

VARIABLES
    today,
    balance,     \* bank_accounts.balance
    linked,      \* accounts whose unlinked_at is NULL
    payment,     \* payments by txn_id
    mandate,     \* mandates
    executions,  \* mandate_executions, in the order they were committed
    deposit,     \* fd_accounts
    withdrawals, \* amounts taken out of each deposit (kept for BooksBalance)
    lock,        \* row locks
    pc,          \* where each request is
    want,        \* what it asked for: a row, an account and an amount
    seen,        \* the balance it read under the lock
    row,         \* the mandate or deposit it read
    todo,        \* due mandates a read has yet to catch up
    left         \* cycles it may still run for the current one

tables == <<payment, mandate, executions, deposit, withdrawals>>
memory == <<want, seen, row, todo, left>>
vars == <<today, balance, linked, tables, lock, pc, memory>>

Rows == Accounts \cup Mandates \cup Deposits
Statuses == {"ACTIVE", "PAUSED", "REVOKED", "EXPIRED"}
PaymentRow == [acct : Accounts, amount : Amounts, status : {"SUCCESS", "FAILURE"}]
MandateRow == [acct : Accounts, amount : Nat, cycle : Nat \ {0},
               next : Date, end : Date \cup {None}, start : Date, status : Statuses]
DepositRow == [acct : Accounts, principal : Nat,
               status : {"ACTIVE", "PREMATURE_CLOSED"}]
ASSUME NoneAssumption == None \notin PaymentRow \cup MandateRow \cup DepositRow

NoWish == [item |-> None, acct |-> None, amt |-> 0]

\* Requests that hold a connection: they are inside a transaction, or wait
\* for a row in a statement of their own.
Connected == {p \in Requests : pc[p] \notin {"idle", "create", "cycle"}}
ConnFree == Cardinality(Connected) < PoolSize

Init ==
    /\ today = FirstDay
    /\ balance = Opening
    /\ linked = Accounts
    /\ payment = [t \in Txns |-> None]
    /\ mandate = [m \in Mandates |-> None]
    /\ executions = [m \in Mandates |-> <<>>]
    /\ deposit = [d \in Deposits |-> None]
    /\ withdrawals = [d \in Deposits |-> <<>>]
    /\ lock = [x \in Rows |-> None]
    /\ pc = [p \in Requests |-> "idle"]
    /\ want = [p \in Requests |-> NoWish]
    /\ seen = [p \in Requests |-> 0]
    /\ row = [p \in Requests |-> None]
    /\ todo = [p \in Requests |-> {}]
    /\ left = [p \in Requests |-> 0]

-----------------------------------------------------------------------------
(* Steps that several requests share.                                      *)

Ask(p, item, acct, amt) ==
    want' = [want EXCEPT ![p] = [item |-> item, acct |-> acct, amt |-> amt]]
Goto(p, l) == pc' = [pc EXCEPT ![p] = l]
FreeAlways(x, p) == TRUE                  \* slip: no FOR UPDATE
Free(x, p) == lock[x] \in {None, p}
Acquire(x, p) == lock' = [lock EXCEPT ![x] = p]
Release(p) == lock' = [x \in Rows |-> IF lock[x] = p THEN None ELSE lock[x]]

Forget(p) ==
    /\ Goto(p, "idle")
    /\ want' = [want EXCEPT ![p] = NoWish]
    /\ seen' = [seen EXCEPT ![p] = 0]
    /\ row' = [row EXCEPT ![p] = None]
    /\ todo' = [todo EXCEPT ![p] = {}]
    /\ left' = [left EXCEPT ![p] = 0]

ReturnHolding(p) == UNCHANGED lock /\ Forget(p) \* slip: no deferred Rollback

\* The request returns: Commit, or else the deferred Rollback, has given its
\* locks and its connection back.
Return(p) == Release(p) /\ Forget(p)

\* It returns without having written anything.
GiveUp(p) == Return(p) /\ UNCHANGED <<today, balance, linked, tables>>

\* SELECT balance ... AND unlinked_at IS NULL FOR UPDATE.  Waits for the row;
\* an account that is unlinked by then is not found, and the request ends.
LockAccount(p, acct, enough, next) ==
    /\ Free(acct, p)
    /\ IF acct \in linked /\ balance[acct] >= enough
       THEN /\ Acquire(acct, p)
            /\ seen' = [seen EXCEPT ![p] = balance[acct]]
            /\ Goto(p, next)
            /\ UNCHANGED <<today, balance, linked, tables, want, row, todo, left>>
       ELSE GiveUp(p)

Debit(acct, n) == balance' = [balance EXCEPT ![acct] = @ - n]

-----------------------------------------------------------------------------
(* InitiatePayment                                                         *)

\* Begin, then the look-up by txn_id: a replay of a recorded payment returns
\* it and changes nothing.
Pay(p, t, acct, n) ==
    /\ pc[p] = "idle" /\ ConnFree
    /\ payment[t] = None
    /\ Ask(p, t, acct, n)
    /\ Goto(p, "payResolve")
    /\ UNCHANGED <<today, balance, linked, tables, lock, seen, row, todo, left>>

\* resolveBankAccountID asks the pool, not the transaction.
PayResolve(p) ==
    /\ pc[p] = "payResolve" /\ ConnFree
    /\ IF want[p].acct \in linked
       THEN /\ Goto(p, "payLock")
            /\ UNCHANGED <<today, balance, linked, tables, lock, memory>>
       ELSE GiveUp(p)

PayLock(p) == pc[p] = "payLock" /\ LockAccount(p, want[p].acct, 0, "payWrite")

\* The debit, the insert and the commit.
InsertPayment(p) ==
    LET n == want[p].amt IN
    /\ payment' = [payment EXCEPT ![want[p].item] =
         [acct |-> want[p].acct, amount |-> n,
          status |-> IF seen[p] < n THEN "FAILURE" ELSE "SUCCESS"]]
    /\ IF seen[p] < n THEN UNCHANGED balance ELSE Debit(want[p].acct, n)
    /\ Return(p)
    /\ UNCHANGED <<today, linked, mandate, executions, deposit, withdrawals>>

PayWriteTwice(p) == pc[p] = "payWrite" /\ InsertPayment(p) \* slip: not UNIQUE

\* txn_id is UNIQUE: a second insert fails and takes its debit back.
PayWrite(p) ==
    /\ pc[p] = "payWrite"
    /\ IF payment[want[p].item] = None THEN InsertPayment(p) ELSE GiveUp(p)

-----------------------------------------------------------------------------
(* Mandates                                                                *)

\* CreateMandate: the account is checked, the row inserted by a statement of
\* its own, which takes a connection and, for its foreign key, waits for a
\* transaction that has the account FOR UPDATE.
CreateMandate(p, m, acct) ==
    /\ pc[p] = "idle" /\ ConnFree
    /\ acct \in linked
    /\ Ask(p, m, acct, 0)
    /\ Goto(p, "create")
    /\ UNCHANGED <<today, balance, linked, tables, lock, seen, row, todo, left>>

InsertBegins(p) ==
    /\ pc[p] = "create" /\ ConnFree
    /\ Goto(p, "insert")
    /\ UNCHANGED <<today, balance, linked, tables, lock, memory>>

InsertMandate(p) ==
    LET m == want[p].item IN
    /\ pc[p] = "insert" /\ Free(want[p].acct, p)
    /\ IF mandate[m] # None THEN GiveUp(p) ELSE
       /\ \E t \in Terms :
            mandate' = [mandate EXCEPT ![m] =
              [acct |-> want[p].acct, amount |-> t.amount, cycle |-> t.cycle,
               next |-> t.start, start |-> t.start, end |-> t.end,
               status |-> "ACTIVE"]]
       /\ Return(p)
       /\ UNCHANGED <<today, balance, linked, payment, executions, deposit,
                      withdrawals>>

mandateTransitions == [
    PAUSE  |-> [ACTIVE |-> "PAUSED"],
    RESUME |-> [PAUSED |-> "ACTIVE"],
    CANCEL |-> [ACTIVE |-> "REVOKED", PAUSED |-> "REVOKED"]]

\* MandateAction: lock the mandate, look the transition up, write it.
MandateAction(p, m, act) ==
    /\ pc[p] = "idle" /\ ConnFree
    /\ mandate[m] # None
    /\ want' = [want EXCEPT ![p] = [item |-> m, acct |-> act, amt |-> 0]]
    /\ Goto(p, "actLock")
    /\ UNCHANGED <<today, balance, linked, tables, lock, seen, row, todo, left>>

ActLock(p) ==
    LET m == want[p].item  moves == mandateTransitions[want[p].acct] IN
    /\ pc[p] = "actLock" /\ Free(m, p)
    /\ IF mandate[m].status \in DOMAIN moves
       THEN /\ Acquire(m, p)
            /\ row' = [row EXCEPT ![p] = mandate[m]]
            /\ Goto(p, "actWrite")
            /\ UNCHANGED <<today, balance, linked, tables, want, seen, todo, left>>
       ELSE GiveUp(p)

ActWrite(p) ==
    /\ pc[p] = "actWrite"
    /\ mandate' = [mandate EXCEPT ![want[p].item].status =
                     mandateTransitions[want[p].acct][row[p].status]]
    /\ Return(p)
    /\ UNCHANGED <<today, balance, linked, payment, executions, deposit,
                   withdrawals>>

IsDue(m) == /\ mandate[m] # None
            /\ mandate[m].status = "ACTIVE" /\ ~ Before(today, mandate[m].next)

\* ListMandates, MandateHistory and RecurringSummary begin with
\* processDueMandates: the due mandates are listed once, without locks.
ListDue(p) ==
    LET due == {m \in Mandates : IsDue(m)} IN
    /\ pc[p] = "idle" /\ ConnFree
    /\ due # {}
    /\ todo' = [todo EXCEPT ![p] = due]
    /\ left' = [left EXCEPT ![p] = MaxCatchUp]
    /\ Goto(p, "cycle")
    /\ UNCHANGED <<today, balance, linked, tables, lock, want, seen, row>>

\* One transaction per cycle, mandate after mandate.
BeginCycle(p) ==
    /\ pc[p] = "cycle" /\ ConnFree
    /\ \E m \in todo[p] :
         /\ want[p].item \in todo[p] => m = want[p].item
         /\ want' = [want EXCEPT ![p].item = m]
    /\ Goto(p, "cycleLock")
    /\ UNCHANGED <<today, balance, linked, tables, lock, seen, row, todo, left>>

\* The loop of catchUpMandate is over for this mandate; so is the read after
\* the last of them.
NextMandate(p) ==
    LET rest == todo[p] \ {want[p].item} IN
    IF rest = {} THEN Return(p) ELSE
    /\ Release(p)
    /\ Goto(p, "cycle")
    /\ todo' = [todo EXCEPT ![p] = rest]
    /\ left' = [left EXCEPT ![p] = MaxCatchUp]
    /\ want' = [want EXCEPT ![p] = NoWish]
    /\ seen' = [seen EXCEPT ![p] = 0]
    /\ row' = [row EXCEPT ![p] = None]

\* Another cycle of the same mandate.
NextCycle(p) ==
    /\ Release(p)
    /\ Goto(p, "cycle")
    /\ left' = [left EXCEPT ![p] = @ - 1]
    /\ want' = [want EXCEPT ![p] = [NoWish EXCEPT !.item = want[p].item]]
    /\ seen' = [seen EXCEPT ![p] = 0]
    /\ row' = [row EXCEPT ![p] = None]
    /\ UNCHANGED todo

\* Slip: a mandate that was due when it was listed is taken to be due still.
CycleLockStale(p) ==
    LET m == want[p].item IN
    /\ pc[p] = "cycleLock" /\ Free(m, p)
    /\ IF mandate[m].status = "ACTIVE"
       THEN /\ Acquire(m, p)
            /\ row' = [row EXCEPT ![p] = mandate[m]]
            /\ Ask(p, m, mandate[m].acct, mandate[m].amount)
            /\ Goto(p, "debit")
            /\ UNCHANGED <<seen, todo, left>>
       ELSE NextMandate(p)
    /\ UNCHANGED <<today, balance, linked, tables>>

\* The row is read again under its lock, and may be due no more.
CycleLock(p) ==
    LET m == want[p].item IN
    /\ pc[p] = "cycleLock" /\ Free(m, p)
    /\ IF IsDue(m)
       THEN /\ Acquire(m, p)
            /\ row' = [row EXCEPT ![p] = mandate[m]]
            /\ Ask(p, m, mandate[m].acct, mandate[m].amount)
            /\ Goto(p, "debit")
            /\ UNCHANGED <<seen, todo, left>>
       ELSE NextMandate(p)
    /\ UNCHANGED <<today, balance, linked, tables>>

CycleDebit(p) == pc[p] = "debit" /\ LockAccount(p, want[p].acct, 0, "cycleWrite")

\* AddDate: the same day of a month `cycle` months on; a day that month does
\* not have is carried into the month after it (Jan 31 is followed by Mar 3).
nextDebitDate(from, cycle) ==
    LET month == from.month + cycle IN
    IF from.day < DaysIn(month)
    THEN [month |-> month, day |-> from.day]
    ELSE [month |-> month + 1, day |-> from.day - DaysIn(month)]

\* The row after a cycle: the date moves on whether or not the debit went
\* through, and a mandate whose next date reaches its end expires.
Advanced(r) ==
    LET next == nextDebitDate(r.next, r.cycle) IN
    [r EXCEPT !.next = next,
              !.status = IF r.end # None /\ ~ Before(next, r.end) THEN "EXPIRED" ELSE @]

CycleWrite(p) ==
    LET m == want[p].item  n == want[p].amt  ok == seen[p] >= n IN
    /\ pc[p] = "cycleWrite"
    /\ IF ok THEN Debit(want[p].acct, n) ELSE UNCHANGED balance
    /\ executions' = [executions EXCEPT ![m] =
         Append(@, [date |-> row[p].next,
                    status |-> IF ok THEN "SUCCESS" ELSE "FAILED"])]
    /\ mandate' = [mandate EXCEPT ![m] = Advanced(row[p])]
    /\ IF left[p] = 1 THEN NextMandate(p) ELSE NextCycle(p)
    /\ UNCHANGED <<today, linked, payment, deposit, withdrawals>>

-----------------------------------------------------------------------------
(* Fixed deposits                                                          *)

\* 1% of what is withdrawn early, rounded to the paisa.
netPayable(w) == (w * 99 + 50) \div 100

\* A request that names no account asks the pool for the primary one.
OpenFD(p, d, acct, n) ==
    /\ pc[p] = "idle" /\ ConnFree
    /\ Ask(p, d, acct, n)
    /\ \E l \in {"fdResolve", "fdLock"} : Goto(p, l)
    /\ UNCHANGED <<today, balance, linked, tables, lock, seen, row, todo, left>>

FdResolve(p) ==
    /\ pc[p] = "fdResolve" /\ ConnFree
    /\ IF want[p].acct \in linked
       THEN /\ Goto(p, "fdLock")
            /\ UNCHANGED <<today, balance, linked, tables, lock, memory>>
       ELSE GiveUp(p)

FdLock(p) ==
    pc[p] = "fdLock" /\ LockAccount(p, want[p].acct, want[p].amt, "fdWrite")

FdWrite(p) ==
    LET d == want[p].item IN
    /\ pc[p] = "fdWrite"
    /\ IF deposit[d] # None THEN GiveUp(p) ELSE
       /\ Debit(want[p].acct, want[p].amt)
       /\ deposit' = [deposit EXCEPT ![d] =
            [acct |-> want[p].acct, principal |-> want[p].amt,
             status |-> "ACTIVE"]]
       /\ Return(p)
       /\ UNCHANGED <<today, linked, payment, mandate, executions, withdrawals>>

\* n = 0 stands for a request without withdrawal_amount: all of it.
Withdraw(p, d, n) ==
    /\ pc[p] = "idle" /\ ConnFree
    /\ deposit[d] # None
    /\ Ask(p, d, deposit[d].acct, n)
    /\ Goto(p, "wdLock")
    /\ UNCHANGED <<today, balance, linked, tables, lock, seen, row, todo, left>>

MayWithdrawUnchecked(r, n) == r.status = "ACTIVE"   \* slip: no upper limit
MayWithdraw(r, n) == r.status = "ACTIVE" /\ n <= r.principal

WdLock(p) ==
    LET d == want[p].item IN
    /\ pc[p] = "wdLock" /\ Free(d, p)
    /\ IF MayWithdraw(deposit[d], want[p].amt)
       THEN /\ Acquire(d, p)
            /\ row' = [row EXCEPT ![p] = deposit[d]]
            /\ Goto(p, "wdCredit")
            /\ UNCHANGED <<today, balance, linked, tables, want, seen, todo, left>>
       ELSE GiveUp(p)

\* The credit takes the account's row lock and does not look at unlinked_at.
WdCredit(p) ==
    LET d == want[p].item  r == row[p]
        w == IF want[p].amt = 0 THEN r.principal ELSE want[p].amt IN
    /\ pc[p] = "wdCredit" /\ Free(want[p].acct, p)
    /\ balance' = [balance EXCEPT ![want[p].acct] = @ + netPayable(w)]
    /\ deposit' = [deposit EXCEPT ![d] =
         IF w = r.principal THEN [r EXCEPT !.status = "PREMATURE_CLOSED"]
         ELSE [r EXCEPT !.principal = @ - w]]
    /\ withdrawals' = [withdrawals EXCEPT ![d] = Append(@, w)]
    /\ Return(p)
    /\ UNCHANGED <<today, linked, payment, mandate, executions>>

-----------------------------------------------------------------------------
(* UnlinkAccount: one UPDATE, which waits for the row.                      *)

UnlinkAccount(p, acct) ==
    /\ pc[p] = "idle" /\ ConnFree
    /\ acct \in linked
    /\ Ask(p, None, acct, 0)
    /\ Goto(p, "unlink")
    /\ UNCHANGED <<today, balance, linked, tables, lock, seen, row, todo, left>>

Unlink(p) ==
    /\ pc[p] = "unlink" /\ Free(want[p].acct, p)
    /\ linked' = linked \ {want[p].acct}
    /\ Return(p)
    /\ UNCHANGED <<today, balance, tables>>

\* A database error, or the 60 s of the HTTP server, at any point.
Fail(p) == pc[p] # "idle" /\ GiveUp(p)

Tomorrow(d) == IF d.day + 1 < DaysIn(d.month)
               THEN [d EXCEPT !.day = @ + 1] ELSE [month |-> d.month + 1, day |-> 0]

NextDay ==
    /\ Before(today, LastDay)
    /\ today' = Tomorrow(today)
    /\ UNCHANGED <<balance, linked, tables, lock, pc, memory>>

Start(p) ==
    \/ \E t \in Txns, a \in Accounts, n \in Amounts : Pay(p, t, a, n)
    \/ \E m \in Mandates, a \in Accounts : CreateMandate(p, m, a)
    \/ \E m \in Mandates, act \in DOMAIN mandateTransitions :
         MandateAction(p, m, act)
    \/ ListDue(p)
    \/ \E d \in Deposits, a \in Accounts, n \in Amounts : OpenFD(p, d, a, n)
    \/ \E d \in Deposits, n \in Amounts \cup {0} : Withdraw(p, d, n)
    \/ \E a \in Accounts : UnlinkAccount(p, a)

Advance(p) ==
    \/ PayResolve(p) \/ PayLock(p) \/ PayWrite(p)
    \/ InsertBegins(p) \/ InsertMandate(p) \/ ActLock(p) \/ ActWrite(p)
    \/ BeginCycle(p) \/ CycleLock(p) \/ CycleDebit(p) \/ CycleWrite(p)
    \/ FdResolve(p) \/ FdLock(p) \/ FdWrite(p)
    \/ WdLock(p) \/ WdCredit(p)
    \/ Unlink(p)

Next == NextDay \/ \E p \in Requests : Start(p) \/ Advance(p) \/ Fail(p)

Spec == Init /\ [][Next]_vars

-----------------------------------------------------------------------------
(* Properties                                                              *)

Labels == {"idle", "payResolve", "payLock", "payWrite", "create", "insert",
           "actLock", "actWrite", "cycle", "cycleLock", "debit", "cycleWrite", "fdResolve",
           "fdLock", "fdWrite", "wdLock", "wdCredit", "unlink"}

\* Every table and every request is well formed; in particular no statement
\* ever leaves a deposit with a principal below zero.
TypeOK ==
    /\ today \in Date
    /\ balance \in [Accounts -> Int]
    /\ linked \subseteq Accounts
    /\ \A t \in Txns : payment[t] \in {None} \cup PaymentRow
    /\ \A m \in Mandates : mandate[m] \in {None} \cup MandateRow
    /\ \A d \in Deposits : deposit[d] \in {None} \cup DepositRow
    /\ lock \in [Rows -> Requests \cup {None}]
    /\ pc \in [Requests -> Labels]
    /\ \A p \in Requests : todo[p] \subseteq Mandates

\* The balance column has no CHECK: that payments, cycles and deposits never
\* overdraw an account rests on each of them reading it under the row lock it
\* holds to its commit.
NoOverdraft == \A a \in Accounts : balance[a] >= 0

Settled(a) == {t \in Txns : payment[t] # None /\ payment[t].acct = a
                               /\ payment[t].status = "SUCCESS"}
Paid(a) == SumFunction([t \in Settled(a) |-> payment[t].amount])

MandatesOn(a) == {m \in Mandates : mandate[m] # None /\ mandate[m].acct = a}
Debits(m) == {i \in DOMAIN executions[m] : executions[m][i].status = "SUCCESS"}
Collected(a) == SumFunction(
    [m \in MandatesOn(a) |-> mandate[m].amount * Cardinality(Debits(m))])

DepositsOn(a) == {d \in Deposits : deposit[d] # None /\ deposit[d].acct = a}
Booked(d) == SumFunction(withdrawals[d])
             + IF deposit[d].status = "ACTIVE" THEN deposit[d].principal ELSE 0
Returned(d) == SumFunction(
    [i \in DOMAIN withdrawals[d] |-> netPayable(withdrawals[d][i])])
Invested(a) == SumFunction([d \in DepositsOn(a) |-> Booked(d) - Returned(d)])

\* Money is conserved: what is missing from an account is what its recorded
\* payments, executions and deposits account for, whatever requests raced or
\* failed half way.
BooksBalance == \A a \in Accounts :
    balance[a] = Opening[a] - Paid(a) - Collected(a) - Invested(a)

\* The dates of the cycles of m that have run, and of the next one.
Dates(m) ==
    [i \in 1 .. Len(executions[m]) + 1 |->
       IF i \in DOMAIN executions[m] THEN executions[m][i].date ELSE mandate[m].next]

\* However many reads catch a mandate up at once, its cycles run one at a
\* time: the first on the start date, every other on the date that its
\* predecessor's calls for, each in its turn, none twice and none before its day.
EachCycleOnce == \A m \in Mandates : mandate[m] # None =>
    LET dates == Dates(m) IN
    /\ dates[1] = mandate[m].start
    /\ \A i \in DOMAIN executions[m] :
         /\ dates[i + 1] = nextDebitDate(dates[i], mandate[m].cycle)
         /\ Before(dates[i], dates[i + 1])
         /\ ~ Before(today, dates[i])

\* A mandate the user has cancelled is cancelled for good: no catch-up that
\* was under way writes its old status back or debits it once more.
CancelIsFinal == [][\A m \in Mandates :
    (mandate[m] # None /\ mandate[m].status = "REVOKED") =>
        mandate'[m] = mandate[m] /\ executions'[m] = executions[m]]_vars

\* The row a request waits for, if it waits for one.
Awaits(p) ==
    CASE pc[p] \in {"payLock", "insert", "debit", "fdLock", "wdCredit", "unlink"} -> want[p].acct
      [] pc[p] \in {"actLock", "cycleLock", "wdLock"} -> want[p].item
      [] OTHER -> None
Waiting(p) ==
    \/ pc[p] \in {"payResolve", "fdResolve", "create", "cycle"} /\ ~ConnFree
    \/ Awaits(p) # None /\ ~Free(Awaits(p), p)

\* Requests wait for rows and for connections.  All of them can be stuck at
\* once only when every connection is held by a transaction that asks the
\* pool for a second one to resolve its account: the order in which rows are
\* locked never closes a circle.
OnlyThePoolStarves ==
    (\A p \in Requests : pc[p] # "idle" /\ Waiting(p)) =>
        \A p \in Connected : pc[p] \in {"payResolve", "fdResolve"}
=============================================================================
