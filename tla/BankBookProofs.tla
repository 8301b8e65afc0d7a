--------------------------- MODULE BankBookProofs ---------------------------
(* Proofs about BankBook, for any accounts, mandates, deposits, requests,  *)
(* pool and terms: no account is overdrawn, each cycle of a mandate runs   *)
(* once and in order, a cancelled mandate stays as it is, the locks        *)
(* requests take on rows close no circle, and money is conserved.          *)
EXTENDS BankBook, FiniteSetTheorems, WellFoundedInduction, TLAPS

Acts == DOMAIN mandateTransitions
Items == Txns \cup Mandates \cup Deposits \cup {None}
Wish == [item : Items, acct : Accounts \cup Acts \cup {None}, amt : Nat]
Execution == [date : Date, status : {"SUCCESS", "FAILED"}]

TablesTyped ==
    /\ today \in Date
    /\ balance \in [Accounts -> Nat]
    /\ linked \subseteq Accounts
    /\ payment \in [Txns -> PaymentRow \cup {None}]
    /\ mandate \in [Mandates -> MandateRow \cup {None}]
    /\ executions \in [Mandates -> Seq(Execution)]
    /\ deposit \in [Deposits -> DepositRow \cup {None}]

MemoryTyped ==
    /\ lock \in [Rows -> Requests \cup {None}]
    /\ pc \in [Requests -> Labels]
    /\ want \in [Requests -> Wish]
    /\ seen \in [Requests -> Int]
    /\ row \in [Requests -> MandateRow \cup DepositRow \cup {None}]
    /\ todo \in [Requests -> SUBSET Mandates]
    /\ left \in [Requests -> Int]

(* What a request asked for is of the kind its step needs. *)
WishFits(p) ==
    /\ pc[p] \in {"payResolve", "payLock", "payWrite"} =>
          want[p].item \in Txns /\ want[p].acct \in Accounts /\ want[p].amt \in Amounts
    /\ pc[p] \in {"create", "insert"} =>
          want[p].item \in Mandates /\ want[p].acct \in Accounts
    /\ pc[p] \in {"actLock", "actWrite"} =>
          want[p].item \in Mandates /\ want[p].acct \in Acts
            /\ mandate[want[p].item] # None
    /\ pc[p] \in {"cycleLock", "debit", "cycleWrite"} => want[p].item \in Mandates
    /\ pc[p] \in {"debit", "cycleWrite"} => want[p].acct \in Accounts
    /\ pc[p] \in {"fdResolve", "fdLock", "fdWrite"} =>
          want[p].item \in Deposits /\ want[p].acct \in Accounts
    /\ pc[p] \in {"wdLock", "wdCredit"} =>
          want[p].item \in Deposits /\ want[p].acct \in Accounts
            /\ deposit[want[p].item] # None
    /\ pc[p] = "unlink" => want[p].acct \in Accounts

(* A balance that is about to be written is the one that was read, and the *)
(* account's row has been locked since.                                    *)
BalanceFits(p) ==
    /\ pc[p] \in {"payWrite", "cycleWrite", "fdWrite"} =>
          lock[want[p].acct] = p /\ seen[p] = balance[want[p].acct]
    /\ pc[p] = "fdWrite" => seen[p] >= want[p].amt

(* So is a mandate's row. *)
MandateFits(p) ==
    /\ pc[p] \in {"actWrite", "debit", "cycleWrite"} =>
          /\ lock[want[p].item] = p
          /\ mandate[want[p].item] # None /\ row[p] = mandate[want[p].item]
    /\ pc[p] = "actWrite" => row[p].status \in DOMAIN mandateTransitions[want[p].acct]
    /\ pc[p] \in {"debit", "cycleWrite"} =>
          row[p].status = "ACTIVE" /\ ~ Before(today, row[p].next)

DepositFits(p) ==
    pc[p] = "wdCredit" => row[p] \in DepositRow /\ want[p].amt <= row[p].principal

Fits(p) == WishFits(p) /\ BalanceFits(p) /\ MandateFits(p) /\ DepositFits(p)

(* The dates of m follow each other, one execution each, none early. *)
InStep(m) ==
    IF mandate[m] = None THEN executions[m] = <<>> ELSE
    /\ Dates(m)[1] = mandate[m].start
    /\ \A i \in DOMAIN executions[m] :
         /\ Dates(m)[i + 1] = nextDebitDate(Dates(m)[i], mandate[m].cycle)
         /\ Before(Dates(m)[i], Dates(m)[i + 1])
         /\ ~ Before(today, Dates(m)[i])

BookInv ==
    /\ TablesTyped
    /\ MemoryTyped
    /\ \A p \in Requests : Fits(p)
    /\ \A m \in Mandates : InStep(m)

-----------------------------------------------------------------------------
(* The operators.                                                          *)

LEMMA Transitions ==
  ASSUME NEW act \in Acts, NEW s \in DOMAIN mandateTransitions[act]
  PROVE  s \in {"ACTIVE", "PAUSED"} /\ mandateTransitions[act][s] \in Statuses
BY DEF Acts, mandateTransitions, Statuses

LEMMA NetIsPositive == ASSUME NEW w \in Nat PROVE netPayable(w) \in Nat
BY DEF netPayable

LEMMA MonthsHaveDays == ASSUME NEW n \in Nat PROVE DaysIn(n) \in Nat \ {0}
<1>1. Len(MonthLengths) \in Nat \ {0}
  BY CalendarAssumption
<1>2. (n % Len(MonthLengths)) + 1 \in 1 .. Len(MonthLengths)
  BY <1>1
<1> QED BY <1>2, CalendarAssumption DEF DaysIn

(* The next date of a mandate lies ahead of the last.                      *)
LEMMA DatesAdvance ==
  ASSUME NEW d \in Date, NEW n \in Nat \ {0}
  PROVE  nextDebitDate(d, n) \in Date /\ Before(d, nextDebitDate(d, n))
<1>1. DaysIn(d.month + n) \in Nat /\ d.month \in Nat /\ d.day \in Nat
  BY MonthsHaveDays DEF Date
<1> QED BY <1>1 DEF nextDebitDate, Date, Before

(* Of what is due, nothing is due no more tomorrow.                        *)
LEMMA DaysPass ==
  ASSUME NEW d \in Date
  PROVE  /\ Tomorrow(d) \in Date
         /\ \A e \in Date : ~ Before(d, e) => ~ Before(Tomorrow(d), e)
BY DEF Tomorrow, Date, Before

-----------------------------------------------------------------------------
(* What a step of one request leaves to the others: their memory, their    *)
(* locks, and the rows they have locked.                                   *)

Same(q) ==
    /\ pc'[q] = pc[q] /\ want'[q] = want[q] /\ seen'[q] = seen[q]
    /\ row'[q] = row[q]

Others(p) ==
    /\ \A q \in Requests \ {p} : Same(q)
    /\ \A x \in Rows : lock[x] \notin {None, p} => lock'[x] = lock[x]

MoneyKept(p) ==
    \A a \in Accounts : lock[a] \notin {None, p} => balance'[a] = balance[a]

MandatesKept(p) ==
    \A m \in Mandates : mandate[m] # None =>
        /\ mandate'[m] # None
        /\ lock[m] \notin {None, p} => mandate'[m] = mandate[m]

DepositsKept == \A d \in Deposits : deposit[d] # None => deposit'[d] # None

LEMMA OthersFit ==
  ASSUME MemoryTyped, NEW p \in Requests, NEW q \in Requests \ {p}, Fits(q), UNCHANGED today,
         Others(p), MoneyKept(p), MandatesKept(p), DepositsKept
  PROVE  Fits(q)'
<1>1. Same(q) /\ q # None
  BY AmountsAssumption DEF Others
<1>2. WishFits(q)'
  BY <1>1 DEF Fits, WishFits, Same, MandatesKept, DepositsKept
<1>3. BalanceFits(q)'
  <2>1. CASE pc[q] \in {"payWrite", "cycleWrite", "fdWrite"}
    <3>1. want[q].acct \in Accounts /\ want[q].acct \in Rows
      BY <2>1 DEF Fits, WishFits, Rows
    <3> QED BY <1>1, <2>1, <3>1 DEF Fits, BalanceFits, Same, Others, MoneyKept
  <2>2. CASE pc[q] \notin {"payWrite", "cycleWrite", "fdWrite"}
    BY <1>1, <2>2 DEF BalanceFits, Same
  <2> QED BY <2>1, <2>2
<1>4. MandateFits(q)'
  <2>1. CASE pc[q] \in {"actWrite", "debit", "cycleWrite"}
    <3>1. want[q].item \in Mandates /\ want[q].item \in Rows
      BY <2>1 DEF Fits, WishFits, Rows
    <3> QED BY <1>1, <2>1, <3>1 DEF Fits, MandateFits, Same, Others, MandatesKept
  <2>2. CASE pc[q] \notin {"actWrite", "debit", "cycleWrite"}
    BY <1>1, <2>2 DEF MandateFits, Same
  <2> QED BY <2>1, <2>2
<1>5. DepositFits(q)'
  BY <1>1 DEF Fits, DepositFits, Same
<1> QED BY <1>2, <1>3, <1>4, <1>5 DEF Fits

LEMMA StepKeeps ==
  ASSUME BookInv, NEW p \in Requests, TablesTyped', MemoryTyped', Fits(p)',
         Others(p), MoneyKept(p), MandatesKept(p), DepositsKept, UNCHANGED today,
         \A m \in Mandates : InStep(m)'
  PROVE  BookInv'
BY OthersFit DEF BookInv

LEMMA QuietKeeps ==
  ASSUME BookInv, NEW p \in Requests, UNCHANGED <<today, balance, linked, tables>>,
         MemoryTyped', Fits(p)', Others(p)
  PROVE  BookInv'
<1>1. TablesTyped'
  BY DEF BookInv, TablesTyped, tables
<1>2. MoneyKept(p) /\ MandatesKept(p) /\ DepositsKept
  BY DEF MoneyKept, MandatesKept, DepositsKept, tables
<1>3. \A m \in Mandates : InStep(m)'
  BY DEF BookInv, InStep, Dates, tables
<1> QED BY <1>1, <1>2, <1>3, StepKeeps

-----------------------------------------------------------------------------
(* The steps that requests share.                                          *)

LEMMA AtRest ==
  ASSUME NEW p \in Requests, pc'[p] \in {"idle", "cycle"}
  PROVE  Fits(p)'
BY DEF Fits, WishFits, BalanceFits, MandateFits, DepositFits

LEMMA Released ==
  ASSUME MemoryTyped, NEW p \in Requests, Release(p)
  PROVE  /\ lock' \in [Rows -> Requests \cup {None}]
         /\ \A x \in Rows : lock[x] \notin {None, p} => lock'[x] = lock[x]
BY DEF Release, MemoryTyped

LEMMA ReturnRests ==
  ASSUME MemoryTyped, NEW p \in Requests, Return(p)
  PROVE  MemoryTyped' /\ Fits(p)' /\ Others(p)
<1>1. /\ lock' \in [Rows -> Requests \cup {None}]
      /\ \A x \in Rows : lock[x] \notin {None, p} => lock'[x] = lock[x]
  BY Released DEF Return
<1>2. NoWish \in Wish
  BY DEF NoWish, Wish, Items
<1>3. MemoryTyped'
  BY <1>1, <1>2 DEF Return, Forget, Goto, MemoryTyped, Labels
<1>4. pc'[p] = "idle" /\ \A q \in Requests \ {p} : Same(q)
  BY DEF Return, Forget, Goto, MemoryTyped, Same
<1> QED BY <1>1, <1>3, <1>4, AtRest DEF Others

LEMMA GiveUpKeeps ==
  ASSUME BookInv, NEW p \in Requests, GiveUp(p)
  PROVE  BookInv'
BY ReturnRests, QuietKeeps DEF GiveUp, BookInv

LEMMA Acquired ==
  ASSUME MemoryTyped, NEW p \in Requests, NEW x \in Rows, Free(x, p), Acquire(x, p)
  PROVE  /\ lock' \in [Rows -> Requests \cup {None}]
         /\ lock'[x] = p
         /\ \A y \in Rows : lock[y] \notin {None, p} => lock'[y] = lock[y]
BY DEF MemoryTyped, Free, Acquire

-----------------------------------------------------------------------------
(* Steps that lock nothing yet.                                            *)

Calm == Labels \ {"payWrite", "cycleWrite", "fdWrite", "actWrite", "debit", "wdCredit"}

LEMMA MoveKeeps ==
  ASSUME BookInv, NEW p \in Requests, NEW l \in Calm, NEW w \in Wish,
         Goto(p, l), want' = [want EXCEPT ![p] = w],
         UNCHANGED <<today, balance, linked, tables, lock, seen, row>>,
         todo' \in [Requests -> SUBSET Mandates], left' \in [Requests -> Int],
         WishFits(p)'
  PROVE  BookInv'
<1>1. l \in Labels /\ l \notin {"payWrite", "cycleWrite", "fdWrite", "actWrite", "debit", "wdCredit"}
  BY DEF Calm
<1>2. MemoryTyped'
  BY <1>1 DEF Goto, BookInv, MemoryTyped
<1>3. pc'[p] = l
  BY DEF Goto, BookInv, MemoryTyped
<1>4. Fits(p)'
  BY <1>1, <1>3 DEF Fits, BalanceFits, MandateFits, DepositFits
<1>5. Others(p)
  BY DEF Goto, BookInv, MemoryTyped, Others, Same
<1> QED BY <1>2, <1>4, <1>5, QuietKeeps

LEMMA StartKeeps ==
  ASSUME BookInv, NEW p \in Requests, Start(p)
  PROVE  BookInv'
<1>0. todo \in [Requests -> SUBSET Mandates] /\ left \in [Requests -> Int]
      /\ pc \in [Requests -> Labels] /\ want \in [Requests -> Wish]
  BY DEF BookInv, MemoryTyped
<1>1. ASSUME NEW t \in Txns, NEW a \in Accounts, NEW n \in Amounts, Pay(p, t, a, n)
      PROVE  BookInv'
  <2> DEFINE w == [item |-> t, acct |-> a, amt |-> n]
  <2>1. w \in Wish /\ "payResolve" \in Calm
    BY AmountsAssumption DEF Wish, Items, Calm, Labels
  <2>2. pc'[p] = "payResolve" /\ want'[p] = w
    BY <1>0, <1>1 DEF Pay, Ask, Goto
  <2>3. WishFits(p)'
    BY <2>2 DEF WishFits
  <2> QED BY <1>0, <1>1, <2>1, <2>3, MoveKeeps DEF Pay, Ask
<1>2. ASSUME NEW m \in Mandates, NEW a \in Accounts, CreateMandate(p, m, a)
      PROVE  BookInv'
  <2> DEFINE w == [item |-> m, acct |-> a, amt |-> 0]
  <2>1. w \in Wish /\ "create" \in Calm
    BY DEF Wish, Items, Calm, Labels
  <2>2. pc'[p] = "create" /\ want'[p] = w
    BY <1>0, <1>2 DEF CreateMandate, Ask, Goto
  <2>3. WishFits(p)'
    BY <2>2 DEF WishFits
  <2> QED BY <1>0, <1>2, <2>1, <2>3, MoveKeeps DEF CreateMandate, Ask
<1>3. ASSUME NEW m \in Mandates, NEW act \in Acts, MandateAction(p, m, act)
      PROVE  BookInv'
  <2> DEFINE w == [item |-> m, acct |-> act, amt |-> 0]
  <2>1. w \in Wish /\ "actLock" \in Calm
    BY DEF Wish, Items, Calm, Labels
  <2>2. pc'[p] = "actLock" /\ want'[p] = w /\ mandate[m] # None /\ mandate' = mandate
    BY <1>0, <1>3 DEF MandateAction, Goto, tables
  <2>3. WishFits(p)'
    BY <2>2 DEF WishFits
  <2> QED BY <1>0, <1>3, <2>1, <2>3, MoveKeeps DEF MandateAction
<1>4. CASE ListDue(p)
  <2>1. pc'[p] = "cycle" /\ "cycle" \in Calm
    BY <1>0, <1>4 DEF ListDue, Goto, Calm, Labels
  <2>2. WishFits(p)'
    BY <2>1 DEF WishFits
  <2>3. todo' \in [Requests -> SUBSET Mandates] /\ left' \in [Requests -> Int]
    BY <1>0, <1>4, AmountsAssumption DEF ListDue
  <2>4. want' = [want EXCEPT ![p] = want[p]] /\ want[p] \in Wish
    BY <1>0, <1>4 DEF ListDue
  <2> QED BY <1>4, <2>1, <2>2, <2>3, <2>4, MoveKeeps DEF ListDue
<1>5. ASSUME NEW d \in Deposits, NEW a \in Accounts, NEW n \in Amounts, OpenFD(p, d, a, n)
      PROVE  BookInv'
  <2> DEFINE w == [item |-> d, acct |-> a, amt |-> n]
  <2>1. w \in Wish
    BY AmountsAssumption DEF Wish, Items
  <2>2. PICK l \in {"fdResolve", "fdLock"} : Goto(p, l)
    BY <1>5 DEF OpenFD
  <2>3. l \in Calm
    BY DEF Calm, Labels
  <2>4. pc'[p] = l /\ want'[p] = w
    BY <1>0, <1>5, <2>2 DEF OpenFD, Ask, Goto
  <2>5. WishFits(p)'
    BY <2>4 DEF WishFits
  <2> QED BY <1>0, <1>5, <2>1, <2>2, <2>3, <2>5, MoveKeeps DEF OpenFD, Ask
<1>6. ASSUME NEW d \in Deposits, NEW n \in Amounts \cup {0}, Withdraw(p, d, n)
      PROVE  BookInv'
  <2> DEFINE w == [item |-> d, acct |-> deposit[d].acct, amt |-> n]
  <2>1. deposit[d].acct \in Accounts /\ deposit[d] # None /\ deposit' = deposit
    BY <1>6 DEF Withdraw, BookInv, TablesTyped, DepositRow, tables
  <2>2. w \in Wish /\ "wdLock" \in Calm
    <3>1. n \in Nat
      BY AmountsAssumption
    <3> QED BY <2>1, <3>1 DEF Wish, Items, Calm, Labels
  <2>3. pc'[p] = "wdLock" /\ want'[p] = w
    BY <1>0, <1>6 DEF Withdraw, Ask, Goto
  <2>4. WishFits(p)'
    BY <2>1, <2>3 DEF WishFits
  <2> QED BY <1>0, <1>6, <2>2, <2>4, MoveKeeps DEF Withdraw, Ask
<1>7. ASSUME NEW a \in Accounts, UnlinkAccount(p, a)
      PROVE  BookInv'
  <2> DEFINE w == [item |-> None, acct |-> a, amt |-> 0]
  <2>1. w \in Wish /\ "unlink" \in Calm
    BY DEF Wish, Items, Calm, Labels
  <2>2. pc'[p] = "unlink" /\ want'[p] = w
    BY <1>0, <1>7 DEF UnlinkAccount, Ask, Goto
  <2>3. WishFits(p)'
    BY <2>2 DEF WishFits
  <2> QED BY <1>0, <1>7, <2>1, <2>3, MoveKeeps DEF UnlinkAccount, Ask
<1> QED BY <1>1, <1>2, <1>3, <1>4, <1>5, <1>6, <1>7 DEF Start, Acts

(* The look-up of an account, the start of an insert: only the label moves. *)
LEMMA LookUpKeeps ==
  ASSUME BookInv, NEW p \in Requests, PayResolve(p) \/ FdResolve(p) \/ InsertBegins(p)
  PROVE  BookInv'
<1>1. CASE GiveUp(p)
  BY <1>1, GiveUpKeeps
<1>2. ASSUME NEW l \in {"payLock", "fdLock", "insert"}, Goto(p, l),
             UNCHANGED <<today, balance, linked, tables, lock, memory>>,
             \/ pc[p] = "payResolve" /\ l = "payLock"
             \/ pc[p] = "fdResolve" /\ l = "fdLock"
             \/ pc[p] = "create" /\ l = "insert"
      PROVE  BookInv'
  <2>1. pc'[p] = l /\ l \in Calm
    BY <1>2 DEF Goto, BookInv, MemoryTyped, Calm, Labels
  <2>2. /\ want \in [Requests -> Wish] /\ todo \in [Requests -> SUBSET Mandates]
        /\ left \in [Requests -> Int] /\ Fits(p)
    BY DEF BookInv, MemoryTyped
  <2>3. want' = [want EXCEPT ![p] = want[p]] /\ want[p] \in Wish
    BY <1>2, <2>2 DEF memory
  <2>4. WishFits(p)'
    BY <1>2, <2>1, <2>2 DEF Fits, WishFits, memory
  <2> QED BY <1>2, <2>1, <2>2, <2>3, <2>4, MoveKeeps DEF memory
<1> QED BY <1>1, <1>2 DEF PayResolve, FdResolve, InsertBegins

LEMMA BeginCycleKeeps ==
  ASSUME BookInv, NEW p \in Requests, BeginCycle(p)
  PROVE  BookInv'
<1>1. /\ want \in [Requests -> Wish] /\ todo \in [Requests -> SUBSET Mandates]
      /\ left \in [Requests -> Int]
  BY DEF BookInv, MemoryTyped
<1>2. PICK m \in todo[p] : want' = [want EXCEPT ![p].item = m]
  BY DEF BeginCycle
<1> DEFINE w == [want[p] EXCEPT !.item = m]
<1>3. m \in Mandates
  BY <1>1
<1>4. w \in Wish /\ w.item = m
  BY <1>1, <1>3 DEF Wish, Items
<1>5. want' = [want EXCEPT ![p] = w]
  BY <1>2
<1>6. "cycleLock" \in Calm
  BY DEF Calm, Labels
<1> HIDE DEF w
<1>7. pc'[p] = "cycleLock" /\ want'[p].item \in Mandates
  BY <1>1, <1>3, <1>4, <1>5 DEF BeginCycle, Goto, BookInv, MemoryTyped
<1>8. WishFits(p)'
  BY <1>7 DEF WishFits
<1> QED BY <1>1, <1>4, <1>5, <1>6, <1>8, MoveKeeps DEF BeginCycle

-----------------------------------------------------------------------------
(* Steps that lock a row and read it.                                      *)

LEMMA LockAccountKeeps ==
  ASSUME BookInv, NEW p \in Requests, NEW a \in Accounts, NEW enough \in Nat,
         NEW next \in {"payWrite", "cycleWrite", "fdWrite"},
         LockAccount(p, a, enough, next), want[p].acct = a,
         \/ pc[p] = "payLock" /\ next = "payWrite"
         \/ pc[p] = "debit" /\ next = "cycleWrite"
         \/ pc[p] = "fdLock" /\ next = "fdWrite" /\ enough = want[p].amt
  PROVE  BookInv'
<1>1. CASE GiveUp(p)
  BY <1>1, GiveUpKeeps
<1>2. CASE ~GiveUp(p)
  <2>1. /\ Free(a, p) /\ Acquire(a, p) /\ balance[a] >= enough
        /\ seen' = [seen EXCEPT ![p] = balance[a]] /\ Goto(p, next)
        /\ UNCHANGED <<today, balance, linked, tables, want, row, todo, left>>
    BY <1>2 DEF LockAccount
  <2>2. a \in Rows /\ next \in Labels /\ MemoryTyped /\ Fits(p) /\ balance[a] \in Nat
    BY DEF Rows, Labels, BookInv, TablesTyped
  <2>3. /\ lock' \in [Rows -> Requests \cup {None}] /\ lock'[a] = p
        /\ \A y \in Rows : lock[y] \notin {None, p} => lock'[y] = lock[y]
    BY <2>1, <2>2, Acquired
  <2>4. MemoryTyped'
    BY <2>1, <2>2, <2>3 DEF Goto, MemoryTyped
  <2>5. Others(p)
    BY <2>1, <2>2, <2>3 DEF Goto, MemoryTyped, Others, Same
  <2>6. /\ pc'[p] = next /\ seen'[p] = balance[a] /\ want'[p] = want[p] /\ row'[p] = row[p]
        /\ mandate' = mandate /\ balance' = balance /\ today' = today
    BY <2>1, <2>2 DEF Goto, MemoryTyped, tables
  <2>7. WishFits(p)'
    BY <2>2, <2>6 DEF Fits, WishFits
  <2>8. BalanceFits(p)'
    BY <2>1, <2>3, <2>6 DEF BalanceFits
  <2>9. MandateFits(p)'
    <3>1. CASE next = "cycleWrite"
      <4>1. lock[want[p].item] = p /\ want[p].item \in Mandates
        BY <2>2, <3>1 DEF Fits, MandateFits, WishFits
      <4>2. want[p].item \in Rows /\ p # None
        BY <4>1, AmountsAssumption DEF Rows
      <4>3. lock'[want[p].item] = p
        BY <2>1, <2>2, <2>3, <4>1, <4>2 DEF Acquire, MemoryTyped
      <4> QED BY <2>2, <2>6, <3>1, <4>3 DEF Fits, MandateFits
    <3>2. CASE next # "cycleWrite"
      BY <2>6, <3>2 DEF MandateFits
    <3> QED BY <3>1, <3>2
  <2>10. DepositFits(p)'
    BY <2>6 DEF DepositFits
  <2> QED BY <2>1, <2>4, <2>5, <2>7, <2>8, <2>9, <2>10, QuietKeeps DEF Fits
<1> QED BY <1>1, <1>2

LEMMA AccountLocksKeep ==
  ASSUME BookInv, NEW p \in Requests, PayLock(p) \/ CycleDebit(p) \/ FdLock(p)
  PROVE  BookInv'
<1>1. Fits(p) /\ want[p].amt \in Nat
  BY DEF BookInv, MemoryTyped, Wish
<1>2. want[p].acct \in Accounts
  BY <1>1 DEF Fits, WishFits, PayLock, CycleDebit, FdLock
<1> QED BY <1>1, <1>2, LockAccountKeeps DEF PayLock, CycleDebit, FdLock

LEMMA ActLockKeeps ==
  ASSUME BookInv, NEW p \in Requests, ActLock(p)
  PROVE  BookInv'
<1> DEFINE m == want[p].item
<1>1. CASE GiveUp(p)
  BY <1>1, GiveUpKeeps
<1>2. CASE ~GiveUp(p)
  <2>1. /\ pc[p] = "actLock" /\ Free(m, p) /\ Acquire(m, p)
        /\ mandate[m].status \in DOMAIN mandateTransitions[want[p].acct]
        /\ row' = [row EXCEPT ![p] = mandate[m]] /\ Goto(p, "actWrite")
        /\ UNCHANGED <<today, balance, linked, tables, want, seen, todo, left>>
    BY <1>2 DEF ActLock
  <2>2. MemoryTyped /\ Fits(p) /\ mandate \in [Mandates -> MandateRow \cup {None}]
    BY DEF BookInv, TablesTyped
  <2>3. m \in Mandates /\ m \in Rows /\ mandate[m] # None /\ mandate[m] \in MandateRow
    BY <2>1, <2>2 DEF Fits, WishFits, Rows
  <2>4. /\ lock' \in [Rows -> Requests \cup {None}] /\ lock'[m] = p
        /\ \A y \in Rows : lock[y] \notin {None, p} => lock'[y] = lock[y]
    BY <2>1, <2>2, <2>3, Acquired
  <2>5. MemoryTyped'
    BY <2>1, <2>2, <2>3, <2>4 DEF Goto, MemoryTyped, Labels
  <2>6. Others(p)
    BY <2>1, <2>2, <2>4 DEF Goto, MemoryTyped, Others, Same
  <2>7. /\ pc'[p] = "actWrite" /\ row'[p] = mandate[m] /\ want' = want /\ mandate' = mandate
    BY <2>1, <2>2 DEF Goto, MemoryTyped, tables
  <2>8. Fits(p)'
    BY <2>1, <2>2, <2>3, <2>4, <2>7
       DEF Fits, WishFits, BalanceFits, MandateFits, DepositFits
  <2> QED BY <2>1, <2>5, <2>6, <2>8, QuietKeeps
<1> QED BY <1>1, <1>2

LEMMA WdLockKeeps ==
  ASSUME BookInv, NEW p \in Requests, WdLock(p)
  PROVE  BookInv'
<1> DEFINE d == want[p].item
<1>1. CASE GiveUp(p)
  BY <1>1, GiveUpKeeps
<1>2. CASE ~GiveUp(p)
  <2>1. /\ pc[p] = "wdLock" /\ Free(d, p) /\ Acquire(d, p)
        /\ MayWithdraw(deposit[d], want[p].amt)
        /\ row' = [row EXCEPT ![p] = deposit[d]] /\ Goto(p, "wdCredit")
        /\ UNCHANGED <<today, balance, linked, tables, want, seen, todo, left>>
    BY <1>2 DEF WdLock
  <2>2. MemoryTyped /\ Fits(p) /\ deposit \in [Deposits -> DepositRow \cup {None}]
    BY DEF BookInv, TablesTyped
  <2>3. d \in Deposits /\ d \in Rows /\ deposit[d] # None /\ deposit[d] \in DepositRow
    BY <2>1, <2>2 DEF Fits, WishFits, Rows
  <2>4. /\ lock' \in [Rows -> Requests \cup {None}]
        /\ \A y \in Rows : lock[y] \notin {None, p} => lock'[y] = lock[y]
    BY <2>1, <2>2, <2>3, Acquired
  <2>5. MemoryTyped'
    BY <2>1, <2>2, <2>3, <2>4 DEF Goto, MemoryTyped, Labels
  <2>6. Others(p)
    BY <2>1, <2>2, <2>4 DEF Goto, MemoryTyped, Others, Same
  <2>7. /\ pc'[p] = "wdCredit" /\ row'[p] = deposit[d] /\ want' = want /\ deposit' = deposit
    BY <2>1, <2>2 DEF Goto, MemoryTyped, tables
  <2>8. Fits(p)'
    BY <2>1, <2>2, <2>3, <2>7
       DEF Fits, WishFits, BalanceFits, MandateFits, DepositFits, MayWithdraw
  <2> QED BY <2>1, <2>5, <2>6, <2>8, QuietKeeps
<1> QED BY <1>1, <1>2

(* On to the next mandate, or the next cycle: nothing is held. *)
LEMMA NextRests ==
  ASSUME MemoryTyped, NEW p \in Requests, NextMandate(p) \/ NextCycle(p)
  PROVE  MemoryTyped' /\ Fits(p)' /\ Others(p)
<1>1. CASE Return(p)
  BY <1>1, ReturnRests
<1>2. CASE ~Return(p)
  <2>1. Release(p) /\ Goto(p, "cycle")
    BY <1>2 DEF NextMandate, NextCycle
  <2>2. /\ lock' \in [Rows -> Requests \cup {None}]
        /\ \A x \in Rows : lock[x] \notin {None, p} => lock'[x] = lock[x]
    BY <2>1, Released
  <2>3. [NoWish EXCEPT !.item = want[p].item] \in Wish /\ NoWish \in Wish
    BY DEF MemoryTyped, NoWish, Wish, Items
  <2>4. /\ want' \in [Requests -> Wish] /\ seen' \in [Requests -> Int]
        /\ row' \in [Requests -> MandateRow \cup DepositRow \cup {None}]
        /\ \A q \in Requests \ {p} : want'[q] = want[q] /\ seen'[q] = seen[q]
                                    /\ row'[q] = row[q]
    BY <1>2, <2>3 DEF NextMandate, NextCycle, MemoryTyped
  <2>5. todo' \in [Requests -> SUBSET Mandates] /\ left' \in [Requests -> Int]
    BY <1>2, AmountsAssumption DEF NextMandate, NextCycle, MemoryTyped
  <2>6. pc' \in [Requests -> Labels] /\ pc'[p] = "cycle"
        /\ \A q \in Requests \ {p} : pc'[q] = pc[q]
    BY <2>1 DEF Goto, MemoryTyped, Labels
  <2>7. MemoryTyped' /\ Others(p)
    BY <2>2, <2>4, <2>5, <2>6 DEF MemoryTyped, Others, Same
  <2> QED BY <2>6, <2>7, AtRest
<1> QED BY <1>1, <1>2

LEMMA CycleLockKeeps ==
  ASSUME BookInv, NEW p \in Requests, CycleLock(p)
  PROVE  BookInv'
<1> DEFINE m == want[p].item
<1>0. UNCHANGED <<today, balance, linked, tables>> /\ MemoryTyped /\ Fits(p)
      /\ mandate \in [Mandates -> MandateRow \cup {None}]
  BY DEF CycleLock, BookInv, TablesTyped
<1>1. CASE NextMandate(p)
  BY <1>0, <1>1, NextRests, QuietKeeps
<1>2. CASE ~NextMandate(p)
  <2> DEFINE w == [item |-> m, acct |-> mandate[m].acct, amt |-> mandate[m].amount]
  <2>1. /\ pc[p] = "cycleLock" /\ Free(m, p) /\ Acquire(m, p) /\ IsDue(m)
        /\ row' = [row EXCEPT ![p] = mandate[m]] /\ Goto(p, "debit")
        /\ want' = [want EXCEPT ![p] = w]
        /\ UNCHANGED <<seen, todo, left>>
    BY <1>2 DEF CycleLock, Ask
  <2>2. m \in Mandates
    BY <1>0, <2>1 DEF Fits, WishFits
  <2>3. mandate[m] # None /\ mandate[m] \in MandateRow /\ mandate[m].status = "ACTIVE"
        /\ m \in Rows
    BY <1>0, <2>1, <2>2 DEF IsDue, Rows
  <2>4. w \in Wish /\ w.item = m /\ w.acct \in Accounts
    BY <2>2, <2>3 DEF MandateRow, Wish, Items
  <2> HIDE DEF w
  <2>5. /\ lock' \in [Rows -> Requests \cup {None}] /\ lock'[m] = p
        /\ \A y \in Rows : lock[y] \notin {None, p} => lock'[y] = lock[y]
    BY <1>0, <2>1, <2>3, Acquired
  <2>6. MemoryTyped'
    BY <1>0, <2>1, <2>3, <2>4, <2>5 DEF Goto, MemoryTyped, Labels
  <2>7. Others(p)
    BY <1>0, <2>1, <2>5 DEF Goto, MemoryTyped, Others, Same
  <2>8. /\ pc'[p] = "debit" /\ row'[p] = mandate[m] /\ want'[p] = w /\ mandate' = mandate
        /\ today' = today /\ ~ Before(today, mandate[m].next)
    BY <1>0, <2>1 DEF Goto, MemoryTyped, tables, IsDue
  <2> HIDE DEF m
  <2>9. Fits(p)'
    BY <2>2, <2>3, <2>4, <2>5, <2>8
       DEF Fits, WishFits, BalanceFits, MandateFits, DepositFits
  <2> QED BY <1>0, <2>6, <2>7, <2>9, QuietKeeps
<1> QED BY <1>1, <1>2

-----------------------------------------------------------------------------
(* Steps that write.                                                       *)

LEMMA DebitKeeps ==
  ASSUME balance \in [Accounts -> Nat], NEW a \in Accounts, NEW n \in Nat,
         balance[a] >= n, Debit(a, n)
  PROVE  /\ balance' \in [Accounts -> Nat]
         /\ \A b \in Accounts \ {a} : balance'[b] = balance[b]
BY DEF Debit

LEMMA PayWriteKeeps ==
  ASSUME BookInv, NEW p \in Requests, PayWrite(p)
  PROVE  BookInv'
<1> DEFINE a == want[p].acct  n == want[p].amt  t == want[p].item
           r == [acct |-> a, amount |-> n,
                 status |-> IF seen[p] < n THEN "FAILURE" ELSE "SUCCESS"]
<1>1. CASE GiveUp(p)
  BY <1>1, GiveUpKeeps
<1>2. CASE ~GiveUp(p)
  <2>1. /\ pc[p] = "payWrite" /\ Return(p)
        /\ payment' = [payment EXCEPT ![t] = r]
        /\ IF seen[p] < n THEN UNCHANGED balance ELSE Debit(a, n)
        /\ UNCHANGED <<today, linked, mandate, executions, deposit, withdrawals>>
    BY <1>2 DEF PayWrite, InsertPayment
  <2>2. MemoryTyped /\ TablesTyped /\ Fits(p)
    BY DEF BookInv
  <2>3. t \in Txns /\ a \in Accounts /\ n \in Amounts /\ n \in Nat
        /\ lock[a] = p /\ seen[p] = balance[a]
    BY <2>1, <2>2, AmountsAssumption DEF Fits, WishFits, BalanceFits
  <2>4. r \in PaymentRow
    BY <2>3 DEF PaymentRow
  <2>5. /\ balance' \in [Accounts -> Nat]
        /\ \A b \in Accounts \ {a} : balance'[b] = balance[b]
    <3>1. balance \in [Accounts -> Nat] /\ balance[a] \in Nat
      BY <2>2, <2>3 DEF TablesTyped
    <3> QED BY <2>1, <2>3, <3>1, DebitKeeps
  <2> HIDE DEF r
  <2>6. TablesTyped'
    BY <2>1, <2>2, <2>4, <2>5 DEF TablesTyped
  <2>7. MoneyKept(p)
    BY <2>3, <2>5 DEF MoneyKept
  <2>8. MandatesKept(p) /\ DepositsKept /\ \A m \in Mandates : InStep(m)'
    BY <2>1 DEF MandatesKept, DepositsKept, BookInv, InStep, Dates
  <2>9. MemoryTyped' /\ Fits(p)' /\ Others(p)
    BY <2>1, <2>2, ReturnRests
  <2> QED BY <2>1, <2>6, <2>7, <2>8, <2>9, StepKeeps
<1> QED BY <1>1, <1>2

LEMMA FdWriteKeeps ==
  ASSUME BookInv, NEW p \in Requests, FdWrite(p)
  PROVE  BookInv'
<1> DEFINE a == want[p].acct  n == want[p].amt  d == want[p].item
           r == [acct |-> a, principal |-> n, status |-> "ACTIVE"]
<1>1. CASE GiveUp(p)
  BY <1>1, GiveUpKeeps
<1>2. CASE ~GiveUp(p)
  <2>1. /\ pc[p] = "fdWrite" /\ Return(p) /\ Debit(a, n)
        /\ deposit' = [deposit EXCEPT ![d] = r]
        /\ UNCHANGED <<today, linked, payment, mandate, executions, withdrawals>>
    BY <1>2 DEF FdWrite
  <2>2. MemoryTyped /\ TablesTyped /\ Fits(p) /\ n \in Nat
    BY DEF BookInv, MemoryTyped, Wish
  <2>3. d \in Deposits /\ a \in Accounts /\ lock[a] = p /\ balance[a] >= n
    BY <2>1, <2>2 DEF Fits, WishFits, BalanceFits
  <2>4. r \in DepositRow
    BY <2>2, <2>3 DEF DepositRow
  <2>5. /\ balance' \in [Accounts -> Nat]
        /\ \A b \in Accounts \ {a} : balance'[b] = balance[b]
    BY <2>1, <2>2, <2>3, DebitKeeps DEF TablesTyped
  <2> HIDE DEF r
  <2>6. TablesTyped'
    BY <2>1, <2>2, <2>4, <2>5 DEF TablesTyped
  <2>7. MoneyKept(p)
    BY <2>3, <2>5 DEF MoneyKept
  <2>8. MandatesKept(p) /\ \A m \in Mandates : InStep(m)'
    BY <2>1 DEF MandatesKept, BookInv, InStep, Dates
  <2>9. DepositsKept
    BY <2>1, <2>2, <2>3, <2>4, NoneAssumption DEF DepositsKept, TablesTyped
  <2>10. MemoryTyped' /\ Fits(p)' /\ Others(p)
    BY <2>1, <2>2, ReturnRests
  <2> QED BY <2>1, <2>6, <2>7, <2>8, <2>9, <2>10, StepKeeps
<1> QED BY <1>1, <1>2

LEMMA WdCreditKeeps ==
  ASSUME BookInv, NEW p \in Requests, WdCredit(p)
  PROVE  BookInv'
<1> DEFINE a == want[p].acct  d == want[p].item  r == row[p]
           w == IF want[p].amt = 0 THEN r.principal ELSE want[p].amt
           closed == [r EXCEPT !.status = "PREMATURE_CLOSED"]
           cut == [r EXCEPT !.principal = @ - w]
<1>1. /\ pc[p] = "wdCredit" /\ Free(a, p) /\ Return(p)
      /\ balance' = [balance EXCEPT ![a] = @ + netPayable(w)]
      /\ deposit' = [deposit EXCEPT ![d] = IF w = r.principal THEN closed ELSE cut]
      /\ UNCHANGED <<today, linked, payment, mandate, executions>>
  BY DEF WdCredit
<1>2. MemoryTyped /\ TablesTyped /\ Fits(p) /\ want[p].amt \in Nat
  BY DEF BookInv, MemoryTyped, Wish
<1>3. d \in Deposits /\ a \in Accounts /\ r \in DepositRow /\ want[p].amt <= r.principal
  BY <1>1, <1>2 DEF Fits, WishFits, DepositFits
<1>4. w \in Nat /\ w <= r.principal /\ r.principal \in Nat
  BY <1>2, <1>3 DEF DepositRow
<1> HIDE DEF w
<1>5. closed \in DepositRow /\ cut \in DepositRow
  BY <1>3, <1>4 DEF DepositRow
<1> HIDE DEF closed, cut
<1>6. /\ balance' \in [Accounts -> Nat]
      /\ \A b \in Accounts \ {a} : balance'[b] = balance[b]
  <2>1. netPayable(w) \in Nat
    BY <1>4, NetIsPositive
  <2> QED BY <1>1, <1>2, <1>3, <2>1 DEF TablesTyped
<1>7. TablesTyped' /\ DepositsKept
  BY <1>1, <1>2, <1>3, <1>5, <1>6, NoneAssumption DEF TablesTyped, DepositsKept
<1>8. MoneyKept(p)
  BY <1>1, <1>3, <1>6 DEF MoneyKept, Free
<1>9. MandatesKept(p) /\ \A m \in Mandates : InStep(m)'
  BY <1>1 DEF MandatesKept, BookInv, InStep, Dates
<1>10. MemoryTyped' /\ Fits(p)' /\ Others(p)
  BY <1>1, <1>2, ReturnRests
<1> QED BY <1>1, <1>7, <1>8, <1>9, <1>10, StepKeeps

LEMMA UnlinkKeeps ==
  ASSUME BookInv, NEW p \in Requests, Unlink(p)
  PROVE  BookInv'
<1>1. Return(p) /\ linked' \subseteq linked /\ UNCHANGED <<today, balance, tables>>
  BY DEF Unlink
<1>2. MemoryTyped /\ TablesTyped
  BY DEF BookInv
<1>3. TablesTyped'
  BY <1>1, <1>2 DEF TablesTyped, tables
<1>4. MoneyKept(p) /\ MandatesKept(p) /\ DepositsKept /\ \A m \in Mandates : InStep(m)'
  BY <1>1 DEF MoneyKept, MandatesKept, DepositsKept, tables, BookInv, InStep, Dates
<1>5. MemoryTyped' /\ Fits(p)' /\ Others(p)
  BY <1>1, <1>2, ReturnRests
<1> QED BY <1>1, <1>3, <1>4, <1>5, StepKeeps

(* The mandate m is given the row r, and runs the cycles in extra. *)
LEMMA MandateWriteKeeps ==
  ASSUME BookInv, NEW p \in Requests, NEW m \in Mandates, NEW r \in MandateRow,
         mandate' = [mandate EXCEPT ![m] = r],
         mandate[m] = None \/ lock[m] \in {None, p},
         balance' \in [Accounts -> Nat], MoneyKept(p),
         executions' \in [Mandates -> Seq(Execution)],
         \A k \in Mandates \ {m} : executions'[k] = executions[k],
         InStep(m)',
         UNCHANGED <<today, linked, payment, deposit>>,
         MemoryTyped', Fits(p)', Others(p)
  PROVE  BookInv'
<1>1. TablesTyped
  BY DEF BookInv
<1>2. /\ mandate' \in [Mandates -> MandateRow \cup {None}]
      /\ mandate'[m] = r /\ r # None
      /\ \A k \in Mandates \ {m} : mandate'[k] = mandate[k]
  BY <1>1, NoneAssumption DEF TablesTyped
<1>3. TablesTyped'
  BY <1>1, <1>2 DEF TablesTyped
<1>4. MandatesKept(p) /\ DepositsKept
  BY <1>2 DEF MandatesKept, DepositsKept
<1>5. ASSUME NEW k \in Mandates PROVE InStep(k)'
  <2>1. CASE k = m
    BY <2>1
  <2>2. CASE k # m
    <3>1. InStep(k) /\ mandate'[k] = mandate[k] /\ executions'[k] = executions[k]
      BY <1>2, <2>2 DEF BookInv
    <3>2. Dates(k)' = Dates(k)
      BY <3>1 DEF Dates
    <3> QED BY <3>1, <3>2 DEF InStep
  <2> QED BY <2>1, <2>2
<1> QED BY <1>3, <1>4, <1>5, StepKeeps

LEMMA InsertMandateKeeps ==
  ASSUME BookInv, NEW p \in Requests, InsertMandate(p)
  PROVE  BookInv'
<1>1. CASE GiveUp(p)
  BY <1>1, GiveUpKeeps
<1>2. CASE ~GiveUp(p)
  <2>0. PICK m \in Mandates : m = want[p].item
    BY <1>2 DEF InsertMandate, BookInv, Fits, WishFits
  <2>1. PICK t \in Terms :
          mandate' = [mandate EXCEPT ![m] =
              [acct |-> want[p].acct, amount |-> t.amount, cycle |-> t.cycle,
               next |-> t.start, start |-> t.start, end |-> t.end,
               status |-> "ACTIVE"]]
    BY <1>2, <2>0 DEF InsertMandate
  <2> DEFINE r == [acct |-> want[p].acct, amount |-> t.amount, cycle |-> t.cycle,
                   next |-> t.start, start |-> t.start, end |-> t.end,
                   status |-> "ACTIVE"]
  <2>2. /\ pc[p] = "insert" /\ mandate[m] = None /\ Return(p)
        /\ UNCHANGED <<today, balance, linked, payment, executions, deposit>>
    BY <1>2, <2>0 DEF InsertMandate
  <2>3. MemoryTyped /\ TablesTyped /\ Fits(p)
    BY DEF BookInv
  <2>4. want[p].acct \in Accounts
    BY <2>2, <2>3 DEF Fits, WishFits
  <2>5. t \in [amount : Nat \ {0}, cycle : Nat \ {0}, start : Date, end : Date \cup {None}]
    BY AmountsAssumption
  <2>6. r \in MandateRow
    BY <2>4, <2>5 DEF MandateRow, Statuses
  <2>7. r.next = r.start
    OBVIOUS
  <2>8. mandate' = [mandate EXCEPT ![m] = r]
    BY <2>1
  <2> HIDE DEF r
  <2>9. executions[m] = <<>>
    BY <2>2, <2>4 DEF BookInv, InStep
  <2>10. InStep(m)'
    <3>1. mandate'[m] = r /\ executions'[m] = <<>>
      BY <2>2, <2>3, <2>4, <2>8, <2>9 DEF TablesTyped
    <3>2. DOMAIN executions'[m] = {} /\ Len(executions'[m]) = 0
      BY <3>1
    <3>3. Dates(m)'[1] = r.start
      BY <2>7, <3>1, <3>2 DEF Dates
    <3>4. r # None
      BY <2>6, NoneAssumption
    <3> QED BY <3>1, <3>2, <3>3, <3>4 DEF InStep, Dates
  <2>11. MoneyKept(p)
    BY <2>2 DEF MoneyKept
  <2>12. MemoryTyped' /\ Fits(p)' /\ Others(p)
    BY <2>2, <2>3, ReturnRests
  <2>13. balance' \in [Accounts -> Nat] /\ executions' \in [Mandates -> Seq(Execution)]
         /\ \A k \in Mandates \ {m} : executions'[k] = executions[k]
    BY <2>2, <2>3 DEF TablesTyped
  <2> QED BY <2>2, <2>4, <2>6, <2>8, <2>10, <2>11, <2>12, <2>13, MandateWriteKeeps
<1> QED BY <1>1, <1>2

(* InStep is about the dates only. *)
LEMMA SameDates ==
  ASSUME NEW m \in Mandates, InStep(m), mandate[m] # None, mandate'[m] # None,
         UNCHANGED today, executions'[m] = executions[m], mandate'[m].next = mandate[m].next,
         mandate'[m].start = mandate[m].start, mandate'[m].cycle = mandate[m].cycle
  PROVE  InStep(m)'
<1>1. Dates(m)' = Dates(m)
  BY DEF Dates
<1> QED BY <1>1 DEF InStep

LEMMA ActWriteKeeps ==
  ASSUME BookInv, NEW p \in Requests, ActWrite(p)
  PROVE  BookInv'
<1>0. PICK m \in Mandates : m = want[p].item
  BY DEF ActWrite, BookInv, Fits, WishFits
<1> DEFINE s == mandateTransitions[want[p].acct][row[p].status]
           r == [mandate[m] EXCEPT !.status = s]
<1>1. /\ pc[p] = "actWrite" /\ Return(p)
      /\ mandate' = [mandate EXCEPT ![m] = r]
      /\ UNCHANGED <<today, balance, linked, payment, executions, deposit>>
  BY <1>0 DEF ActWrite
<1>2. MemoryTyped /\ TablesTyped /\ Fits(p)
  BY DEF BookInv
<1>3. /\ lock[m] = p /\ mandate[m] # None
      /\ want[p].acct \in Acts /\ row[p].status \in DOMAIN mandateTransitions[want[p].acct]
  BY <1>0, <1>1, <1>2 DEF Fits, WishFits, MandateFits
<1>4. s \in Statuses
  BY <1>3, Transitions
<1>5. mandate[m] \in MandateRow /\ InStep(m)
  BY <1>2, <1>3 DEF TablesTyped, BookInv
<1> HIDE DEF s
<1>6. r \in MandateRow /\ r.next = mandate[m].next /\ r.start = mandate[m].start
      /\ r.cycle = mandate[m].cycle
  BY <1>4, <1>5 DEF MandateRow
<1> HIDE DEF r
<1>7. InStep(m)'
  <2>1. mandate'[m] = r /\ executions'[m] = executions[m] /\ r # None
    BY <1>1, <1>2, <1>3, <1>6, NoneAssumption DEF TablesTyped
  <2> QED BY <1>1, <1>3, <1>5, <1>6, <2>1, SameDates
<1>8. MoneyKept(p)
  BY <1>1 DEF MoneyKept
<1>9. MemoryTyped' /\ Fits(p)' /\ Others(p)
  BY <1>1, <1>2, ReturnRests
<1>10. balance' \in [Accounts -> Nat] /\ executions' \in [Mandates -> Seq(Execution)]
       /\ \A k \in Mandates \ {m} : executions'[k] = executions[k]
  BY <1>1, <1>2 DEF TablesTyped
<1> QED BY <1>1, <1>3, <1>6, <1>7, <1>8, <1>9, <1>10, MandateWriteKeeps

LEMMA AdvancedRow ==
  ASSUME NEW r \in MandateRow
  PROVE  /\ Advanced(r) \in MandateRow
         /\ Advanced(r).next = nextDebitDate(r.next, r.cycle)
         /\ Advanced(r).start = r.start /\ Advanced(r).cycle = r.cycle
<1> DEFINE next == nextDebitDate(r.next, r.cycle)
           status == IF r.end # None /\ ~ Before(next, r.end) THEN "EXPIRED" ELSE r.status
<1>1. r.next \in Date /\ r.cycle \in Nat \ {0} /\ r.status \in Statuses
  BY DEF MandateRow
<1>2. next \in Date /\ status \in Statuses
  BY <1>1, DatesAdvance DEF Statuses
<1>3. Advanced(r) = [r EXCEPT !.next = next, !.status = status]
  BY DEF Advanced
<1> HIDE DEF next, status
<1>4. /\ Advanced(r) \in MandateRow /\ Advanced(r).next = next
      /\ Advanced(r).start = r.start /\ Advanced(r).cycle = r.cycle
  BY <1>2, <1>3 DEF MandateRow
<1> QED BY <1>4 DEF next

(* One more execution, on the date the row named, keeps a mandate in step. *)
LEMMA OneMoreCycle ==
  ASSUME NEW m \in Mandates, mandate[m] \in MandateRow, InStep(m), mandate[m] # None,
         executions[m] \in Seq(Execution), NEW e \in Execution, UNCHANGED today,
         e.date = mandate[m].next, executions'[m] = Append(executions[m], e),
         mandate'[m] = Advanced(mandate[m]), ~ Before(today, mandate[m].next)
  PROVE  mandate'[m] \in MandateRow /\ InStep(m)'
<1> DEFINE old == mandate[m]  new == mandate'[m]
           done == executions[m]  all == executions'[m]  n == Len(done)
           before == Dates(m)  dates == Dates(m)'
<1>1. /\ new \in MandateRow /\ new.next = nextDebitDate(old.next, old.cycle)
      /\ new.start = old.start /\ new.cycle = old.cycle
  BY AdvancedRow
<1>2. new # None
  BY <1>1, NoneAssumption
<1>3. Before(old.next, new.next)
  BY <1>1, DatesAdvance DEF MandateRow
<1>4. /\ Len(all) = n + 1 /\ n \in Nat /\ DOMAIN done = 1 .. n /\ DOMAIN all = 1 .. n + 1
      /\ all[n + 1] = e
      /\ \A i \in 1 .. n : all[i] = done[i]
  OBVIOUS
<1>5. /\ \A i \in 1 .. n : before[i] = done[i].date
      /\ before[n + 1] = old.next
  BY <1>4 DEF Dates
<1>6. /\ \A i \in 1 .. n + 1 : dates[i] = all[i].date
      /\ dates[n + 2] = new.next
  BY <1>4 DEF Dates
<1> HIDE DEF before, dates
<1>7. \A i \in 1 .. n + 1 : dates[i] = before[i]
  BY <1>4, <1>5, <1>6
<1>8. /\ before[1] = old.start
      /\ \A i \in 1 .. n : /\ before[i + 1] = nextDebitDate(before[i], old.cycle)
                           /\ Before(before[i], before[i + 1])
                           /\ ~ Before(today, before[i])
  BY <1>4 DEF InStep, before
<1>9. dates[1] = new.start
  BY <1>1, <1>4, <1>7, <1>8
<1>10. ASSUME NEW i \in 1 .. n + 1
       PROVE  /\ dates[i + 1] = nextDebitDate(dates[i], new.cycle)
              /\ Before(dates[i], dates[i + 1])
              /\ ~ Before(today, dates[i])
  <2>1. CASE i \in 1 .. n
    <3>1. dates[i] = before[i] /\ dates[i + 1] = before[i + 1]
      BY <1>4, <1>7, <2>1
    <3> QED BY <1>1, <1>8, <2>1, <3>1
  <2>2. CASE i = n + 1
    <3>1. dates[i] = old.next /\ dates[i + 1] = new.next
      BY <1>4, <1>5, <1>6, <1>7, <2>2
    <3> QED BY <1>1, <1>3, <3>1
  <2> QED BY <1>4, <2>1, <2>2
<1> HIDE DEF old, new, done, all, n
<1>11. InStep(m)'
  BY <1>2, <1>4, <1>9, <1>10 DEF InStep, new, all, dates
<1> QED BY <1>1, <1>11 DEF new

LEMMA CycleWriteKeeps ==
  ASSUME BookInv, NEW p \in Requests, CycleWrite(p)
  PROVE  BookInv'
<1>0. PICK m \in Mandates : m = want[p].item
  BY DEF CycleWrite, BookInv, Fits, WishFits
<1> DEFINE n == want[p].amt  a == want[p].acct  ok == seen[p] >= n
           e == [date |-> row[p].next, status |-> IF ok THEN "SUCCESS" ELSE "FAILED"]
<1>1. /\ pc[p] = "cycleWrite" /\ (NextMandate(p) \/ NextCycle(p))
      /\ IF ok THEN Debit(a, n) ELSE UNCHANGED balance
      /\ executions' = [executions EXCEPT ![m] = Append(@, e)]
      /\ mandate' = [mandate EXCEPT ![m] = Advanced(row[p])]
      /\ UNCHANGED <<today, linked, payment, deposit>>
  BY <1>0 DEF CycleWrite
<1>2. MemoryTyped /\ TablesTyped /\ Fits(p) /\ n \in Nat
  BY DEF BookInv, MemoryTyped, Wish
<1>3. /\ a \in Accounts /\ lock[m] = p /\ lock[a] = p
      /\ mandate[m] # None /\ row[p] = mandate[m] /\ seen[p] = balance[a]
      /\ ~ Before(today, row[p].next)
  BY <1>0, <1>1, <1>2 DEF Fits, WishFits, MandateFits, BalanceFits
<1>4. mandate[m] \in MandateRow /\ InStep(m) /\ executions[m] \in Seq(Execution)
  BY <1>2, <1>3 DEF TablesTyped, BookInv
<1>5. /\ balance' \in [Accounts -> Nat]
      /\ \A b \in Accounts \ {a} : balance'[b] = balance[b]
  <2>1. balance \in [Accounts -> Nat]
    BY <1>2 DEF TablesTyped
  <2> QED BY <1>1, <1>2, <1>3, <2>1, DebitKeeps
<1>6. e \in Execution /\ e.date = mandate[m].next
  BY <1>3, <1>4 DEF Execution, MandateRow
<1> HIDE DEF e
<1>7. /\ executions' \in [Mandates -> Seq(Execution)]
      /\ executions'[m] = Append(executions[m], e)
      /\ \A k \in Mandates \ {m} : executions'[k] = executions[k]
  <2>1. Append(executions[m], e) \in Seq(Execution)
    BY <1>4, <1>6
  <2> QED BY <1>1, <1>2, <1>3, <2>1 DEF TablesTyped
<1>8. mandate'[m] = Advanced(mandate[m]) /\ mandate' = [mandate EXCEPT ![m] = mandate'[m]]
  BY <1>1, <1>2, <1>3 DEF TablesTyped
<1>9. mandate'[m] \in MandateRow /\ InStep(m)'
  BY <1>1, <1>3, <1>4, <1>6, <1>7, <1>8, OneMoreCycle
<1>10. MoneyKept(p)
  BY <1>3, <1>5 DEF MoneyKept
<1>11. MemoryTyped' /\ Fits(p)' /\ Others(p)
  BY <1>1, <1>2, NextRests
<1> QED BY <1>1, <1>3, <1>5, <1>7, <1>8, <1>9, <1>10, <1>11, MandateWriteKeeps
-----------------------------------------------------------------------------
(* The invariant.                                                          *)

LEMMA BookInvInit == ASSUME Init PROVE BookInv
<1>1. NoWish \in Wish
  BY DEF NoWish, Wish, Items
<1>2. TablesTyped
  BY AmountsAssumption, CalendarAssumption DEF Init, TablesTyped
<1>3. MemoryTyped
  BY <1>1 DEF Init, MemoryTyped, Labels
<1>4. \A p \in Requests : Fits(p)
  BY DEF Init, Fits, WishFits, BalanceFits, MandateFits, DepositFits
<1>5. \A m \in Mandates : InStep(m)
  BY DEF Init, InStep
<1> QED BY <1>2, <1>3, <1>4, <1>5 DEF BookInv

LEMMA AdvanceKeeps ==
  ASSUME BookInv, NEW p \in Requests, Advance(p)
  PROVE  BookInv'
BY LookUpKeeps, AccountLocksKeep, PayWriteKeeps, InsertMandateKeeps, ActLockKeeps,
   ActWriteKeeps, BeginCycleKeeps, CycleLockKeeps, CycleWriteKeeps, FdWriteKeeps,
   WdLockKeeps, WdCreditKeeps, UnlinkKeeps DEF Advance

LEMMA StillKeeps ==
  ASSUME BookInv, today' \in Date,
         \A d \in Date : ~ Before(today, d) => ~ Before(today', d),
         UNCHANGED <<balance, linked, tables, lock, pc, memory>>
  PROVE  BookInv'
<1>1. TablesTyped' /\ MemoryTyped'
  BY DEF BookInv, TablesTyped, MemoryTyped, tables, memory
<1>2. ASSUME NEW p \in Requests PROVE Fits(p)'
  <2>1. Fits(p)
    BY DEF BookInv
  <2>2. pc[p] \in {"debit", "cycleWrite"} => row[p].next \in Date
    <3>1. pc[p] \in {"debit", "cycleWrite"} =>
            row[p] = mandate[want[p].item] /\ mandate[want[p].item] # None
              /\ want[p].item \in Mandates
      BY <2>1 DEF Fits, MandateFits, WishFits
    <3> QED BY <3>1 DEF BookInv, TablesTyped, MandateRow
  <2>3. MandateFits(p)'
    BY <2>1, <2>2 DEF Fits, MandateFits, tables, memory
  <2> QED BY <2>1, <2>3 DEF Fits, WishFits, BalanceFits, DepositFits, tables, memory
<1>3. ASSUME NEW m \in Mandates PROVE InStep(m)'
  <2>1. InStep(m) /\ Dates(m)' = Dates(m) /\ mandate' = mandate /\ executions' = executions
    BY DEF BookInv, Dates, tables
  <2>2. \A i \in DOMAIN executions[m] : Dates(m)[i] \in Date
    <3>1. executions[m] \in Seq(Execution)
      BY DEF BookInv, TablesTyped
    <3>2. ASSUME NEW i \in DOMAIN executions[m]
          PROVE  executions[m][i].date \in Date /\ i \in 1 .. Len(executions[m]) + 1
      <4>1. executions[m][i] \in Execution /\ i \in 1 .. Len(executions[m])
        BY <3>1, <3>2
      <4> QED BY <4>1, <3>1 DEF Execution
    <3> QED BY <3>2 DEF Dates
  <2> QED BY <2>1, <2>2 DEF InStep
<1> QED BY <1>1, <1>2, <1>3 DEF BookInv

LEMMA BookInvNext == ASSUME BookInv, [Next]_vars PROVE BookInv'
<1>1. ASSUME NEW p \in Requests, Start(p) \/ Advance(p) \/ Fail(p) PROVE BookInv'
  BY <1>1, StartKeeps, AdvanceKeeps, GiveUpKeeps DEF Fail
<1>2. CASE NextDay
  BY <1>2, StillKeeps, DaysPass DEF NextDay, BookInv, TablesTyped
<1>3. CASE UNCHANGED vars
  BY <1>3, StillKeeps DEF vars, BookInv, TablesTyped
<1> QED BY <1>1, <1>2, <1>3 DEF Next

-----------------------------------------------------------------------------
(* The theorems.                                                           *)

LEMMA BookInvAlways == Spec => []BookInv
<1>1. Init => BookInv
  BY BookInvInit
<1>2. BookInv /\ [Next]_vars => BookInv'
  BY BookInvNext
<1> QED BY <1>1, <1>2, PTL DEF Spec

(* Every table and every request stays well formed. *)
THEOREM BookTypeCorrect == Spec => []TypeOK
<1>1. BookInv => TypeOK
  BY DEF BookInv, TablesTyped, MemoryTyped, TypeOK, PaymentRow
<1> QED BY <1>1, BookInvAlways, PTL

(* No account is ever overdrawn, however many payments, cycles, deposits   *)
(* and withdrawals of the user race or fail half way, although the column  *)
(* has no CHECK: whoever writes a balance still holds the row lock under   *)
(* which it was read.                                                      *)
THEOREM NeverOverdrawn == Spec => []NoOverdraft
<1>1. BookInv => NoOverdraft
  BY DEF BookInv, TablesTyped, NoOverdraft
<1> QED BY <1>1, BookInvAlways, PTL

(* A mandate's cycles run one at a time, each in its turn and none before  *)
(* its date, in any calendar, for any terms, any number of reads that      *)
(* catch it up and any cap on the catch-up.                                *)
THEOREM CyclesRunOnce == Spec => []EachCycleOnce
<1>1. BookInv => EachCycleOnce
  BY DEF BookInv, InStep, EachCycleOnce
<1> QED BY <1>1, BookInvAlways, PTL

LEMMA RevokedIsKept ==
  ASSUME BookInv, [Next]_vars, NEW m \in Mandates, mandate[m] # None,
         mandate[m].status = "REVOKED"
  PROVE  mandate'[m] = mandate[m] /\ executions'[m] = executions[m]
<1>1. CASE UNCHANGED <<mandate, executions>>
  BY <1>1
<1>2. ASSUME NEW p \in Requests, InsertMandate(p)
      PROVE  mandate'[m] = mandate[m] /\ executions'[m] = executions[m]
  BY <1>2 DEF InsertMandate, GiveUp, tables, BookInv, TablesTyped
<1>3. ASSUME NEW p \in Requests, ActWrite(p)
      PROVE  mandate'[m] = mandate[m] /\ executions'[m] = executions[m]
  <2>1. row[p] = mandate[want[p].item] /\ row[p].status # "REVOKED"
    <3>1. /\ row[p] = mandate[want[p].item] /\ want[p].acct \in Acts
          /\ row[p].status \in DOMAIN mandateTransitions[want[p].acct]
      BY <1>3 DEF ActWrite, BookInv, Fits, WishFits, MandateFits
    <3> QED BY <3>1, Transitions
  <2>2. want[p].item # m
    BY <2>1
  <2> QED BY <1>3, <2>2 DEF ActWrite, BookInv, TablesTyped
<1>4. ASSUME NEW p \in Requests, CycleWrite(p)
      PROVE  mandate'[m] = mandate[m] /\ executions'[m] = executions[m]
  <2>1. row[p] = mandate[want[p].item] /\ row[p].status = "ACTIVE"
    BY <1>4 DEF CycleWrite, BookInv, Fits, MandateFits
  <2>2. want[p].item # m
    BY <2>1
  <2> QED BY <1>4, <2>2 DEF CycleWrite, BookInv, TablesTyped
<1>5. ASSUME NEW p \in Requests, Start(p) \/ Fail(p) PROVE UNCHANGED <<mandate, executions>>
  BY <1>5 DEF Start, Pay, CreateMandate, MandateAction, ListDue, OpenFD, Withdraw,
              UnlinkAccount, Fail, GiveUp, tables
<1>6. ASSUME NEW p \in Requests, Advance(p), ~InsertMandate(p), ~ActWrite(p), ~CycleWrite(p)
      PROVE  UNCHANGED <<mandate, executions>>
  BY <1>6 DEF Advance, PayResolve, PayLock, PayWrite, InsertPayment, InsertBegins, ActLock,
              BeginCycle, CycleLock, CycleDebit, FdResolve, FdLock, FdWrite, WdLock,
              WdCredit, Unlink, LockAccount, GiveUp, tables
<1>7. CASE NextDay \/ UNCHANGED vars
  BY <1>7 DEF NextDay, vars, tables
<1> QED BY <1>1, <1>2, <1>3, <1>4, <1>5, <1>6, <1>7 DEF Next

(* A cancelled mandate is left alone for good: a catch-up that was under   *)
(* way neither writes an older status back nor debits it once more.        *)
THEOREM CancelledForGood == Spec => CancelIsFinal
<1>1. BookInv /\ [Next]_vars =>
        [\A m \in Mandates :
            (mandate[m] # None /\ mandate[m].status = "REVOKED") =>
                mandate'[m] = mandate[m] /\ executions'[m] = executions[m]]_vars
  BY RevokedIsKept
<1> QED BY <1>1, BookInvAlways, PTL DEF Spec, CancelIsFinal

-----------------------------------------------------------------------------
(* Who waits for whom.                                                     *)

AccountHolders == {"payWrite", "cycleWrite", "fdWrite"}
MandateHolders == {"actWrite", "debit", "cycleWrite"}
HolderLabels == AccountHolders \cup MandateHolders \cup {"wdCredit"}

(* What a request at a label may have locked of the kind of x.             *)
MayHold(x, label) ==
    \/ x \in Accounts /\ label \in AccountHolders
    \/ x \in Mandates /\ label \in MandateHolders
    \/ x \in Deposits /\ label = "wdCredit"

(* Every lock is held by a request whose label says what it is for: an     *)
(* account is locked last, by a request that then only writes.             *)
LocksUsed == \A x \in Rows : lock[x] # None => MayHold(x, pc[lock[x]])

(* A step that takes no lock and leaves p where it holds none.             *)
LEMMA NoNewLock ==
  ASSUME MemoryTyped, LocksUsed, NEW p \in Requests, pc[p] \notin HolderLabels,
         NEW l, Goto(p, l), lock' = lock
  PROVE  LocksUsed'
<1>1. \A q \in Requests \ {p} : pc'[q] = pc[q]
  BY DEF Goto, MemoryTyped
<1>2. \A x \in Rows : lock[x] # None => lock[x] \in Requests \ {p}
  BY DEF MemoryTyped, LocksUsed, MayHold, HolderLabels
<1> QED BY <1>1, <1>2 DEF LocksUsed, MayHold

(* A step that gives back whatever p holds.                                *)
LEMMA LocksBack ==
  ASSUME MemoryTyped, LocksUsed, NEW p \in Requests, Release(p), NEW l, Goto(p, l)
  PROVE  LocksUsed'
<1>1. \A q \in Requests \ {p} : pc'[q] = pc[q]
  BY DEF Goto, MemoryTyped
<1>2. \A x \in Rows : lock'[x] # None => lock'[x] = lock[x] /\ lock[x] \in Requests \ {p}
  BY DEF MemoryTyped, Release
<1> QED BY <1>1, <1>2 DEF LocksUsed, MayHold

(* A step that locks x and goes where p may hold it, and what it held.     *)
LEMMA OneMoreLock ==
  ASSUME MemoryTyped, LocksUsed, NEW p \in Requests, NEW x \in Rows, Acquire(x, p),
         NEW l \in Labels, Goto(p, l), MayHold(x, l),
         pc[p] \notin HolderLabels \/ (pc[p] = "debit" /\ l = "cycleWrite")
  PROVE  LocksUsed'
<1>1. pc'[p] = l /\ \A q \in Requests \ {p} : pc'[q] = pc[q]
  BY DEF Goto, MemoryTyped
<1>2. lock'[x] = p /\ \A y \in Rows \ {x} : lock'[y] = lock[y]
  BY DEF MemoryTyped, Acquire
<1>3. ASSUME NEW y \in Rows \ {x}, lock[y] = p
      PROVE  MayHold(y, l)
  BY <1>3, AmountsAssumption
  DEF LocksUsed, MayHold, HolderLabels, AccountHolders, MandateHolders
<1>4. \A y \in Rows \ {x} : lock[y] # None => lock[y] = p \/ pc'[lock[y]] = pc[lock[y]]
  BY <1>1 DEF MemoryTyped
<1> QED BY <1>1, <1>2, <1>3, <1>4 DEF LocksUsed, MayHold

LEMMA LocksBackOnReturn ==
  ASSUME MemoryTyped, LocksUsed, NEW p \in Requests,
         Return(p) \/ GiveUp(p) \/ NextMandate(p) \/ NextCycle(p)
  PROVE  LocksUsed'
BY LocksBack DEF Return, GiveUp, Forget, NextMandate, NextCycle

LEMMA NoNewLockAt ==
  ASSUME MemoryTyped, LocksUsed, NEW p \in Requests,
         Start(p) \/ PayResolve(p) \/ FdResolve(p) \/ InsertBegins(p) \/ BeginCycle(p)
  PROVE  LocksUsed'
<1>1. CASE Start(p)
  <2>1. pc[p] = "idle" /\ lock' = lock /\ \E l : Goto(p, l)
    BY <1>1 DEF Start, Pay, CreateMandate, MandateAction, ListDue, OpenFD, Withdraw,
                UnlinkAccount
  <2> QED BY <2>1, NoNewLock DEF HolderLabels, AccountHolders, MandateHolders
<1>2. CASE GiveUp(p)
  BY <1>2, LocksBackOnReturn
<1>3. CASE (PayResolve(p) \/ FdResolve(p) \/ InsertBegins(p) \/ BeginCycle(p)) /\ ~GiveUp(p)
  <2>1. /\ pc[p] \in {"payResolve", "fdResolve", "create", "cycle"} /\ lock' = lock
        /\ \E l : Goto(p, l)
    BY <1>3 DEF PayResolve, FdResolve, InsertBegins, BeginCycle
  <2> QED BY <2>1, NoNewLock DEF HolderLabels, AccountHolders, MandateHolders
<1> QED BY <1>1, <1>2, <1>3

LEMMA AccountLocked ==
  ASSUME MemoryTyped, LocksUsed, NEW p \in Requests, NEW a \in Accounts, NEW n,
         NEW l \in AccountHolders, LockAccount(p, a, n, l),
         pc[p] \notin HolderLabels \/ (pc[p] = "debit" /\ l = "cycleWrite")
  PROVE  LocksUsed'
<1>1. CASE GiveUp(p)
  BY <1>1, LocksBackOnReturn
<1>2. CASE Acquire(a, p) /\ Goto(p, l)
  BY <1>2, OneMoreLock DEF Rows, MayHold, AccountHolders, Labels
<1> QED BY <1>1, <1>2 DEF LockAccount

LEMMA AccountLockedAt ==
  ASSUME BookInv, LocksUsed, NEW p \in Requests, PayLock(p) \/ CycleDebit(p) \/ FdLock(p)
  PROVE  LocksUsed'
<1>1. MemoryTyped /\ want[p].acct \in Accounts
  BY DEF BookInv, Fits, WishFits, PayLock, CycleDebit, FdLock
<1>2. CASE PayLock(p)
  BY <1>1, <1>2, AccountLocked
  DEF PayLock, AccountHolders, MandateHolders, HolderLabels
<1>3. CASE FdLock(p)
  BY <1>1, <1>3, AccountLocked
  DEF FdLock, AccountHolders, MandateHolders, HolderLabels
<1>4. CASE CycleDebit(p)
  BY <1>1, <1>4, AccountLocked DEF CycleDebit, AccountHolders
<1> QED BY <1>2, <1>3, <1>4

LEMMA RowLockedAt ==
  ASSUME BookInv, LocksUsed, NEW p \in Requests, ActLock(p) \/ CycleLock(p) \/ WdLock(p)
  PROVE  LocksUsed'
<1>1. MemoryTyped /\ Fits(p)
  BY DEF BookInv
<1>2. pc[p] \notin HolderLabels
  BY DEF ActLock, CycleLock, WdLock, HolderLabels, AccountHolders, MandateHolders
<1>3. CASE ActLock(p)
  <2>1. CASE GiveUp(p)
    BY <1>1, <2>1, LocksBackOnReturn
  <2>2. CASE Acquire(want[p].item, p) /\ Goto(p, "actWrite")
    <3>1. want[p].item \in Rows /\ MayHold(want[p].item, "actWrite")
      BY <1>1, <1>3 DEF ActLock, Fits, WishFits, Rows, MayHold, MandateHolders
    <3> QED BY <1>1, <1>2, <2>2, <3>1, OneMoreLock DEF Labels
  <2> QED BY <1>3, <2>1, <2>2 DEF ActLock
<1>4. CASE CycleLock(p)
  <2>1. CASE NextMandate(p)
    BY <1>1, <2>1, LocksBackOnReturn
  <2>2. CASE Acquire(want[p].item, p) /\ Goto(p, "debit")
    <3>1. want[p].item \in Rows /\ MayHold(want[p].item, "debit")
      BY <1>1, <1>4 DEF CycleLock, Fits, WishFits, Rows, MayHold, MandateHolders
    <3> QED BY <1>1, <1>2, <2>2, <3>1, OneMoreLock DEF Labels
  <2> QED BY <1>4, <2>1, <2>2 DEF CycleLock
<1>5. CASE WdLock(p)
  <2>1. CASE GiveUp(p)
    BY <1>1, <2>1, LocksBackOnReturn
  <2>2. CASE Acquire(want[p].item, p) /\ Goto(p, "wdCredit")
    <3>1. want[p].item \in Rows /\ MayHold(want[p].item, "wdCredit")
      BY <1>1, <1>5 DEF WdLock, Fits, WishFits, Rows, MayHold
    <3> QED BY <1>1, <1>2, <2>2, <3>1, OneMoreLock DEF Labels
  <2> QED BY <1>5, <2>1, <2>2 DEF WdLock
<1> QED BY <1>3, <1>4, <1>5

LEMMA LocksBackAt ==
  ASSUME MemoryTyped, LocksUsed, NEW p \in Requests,
         \/ PayWrite(p) \/ InsertMandate(p) \/ ActWrite(p) \/ CycleWrite(p)
         \/ FdWrite(p) \/ WdCredit(p) \/ Unlink(p) \/ Fail(p)
  PROVE  LocksUsed'
BY LocksBackOnReturn DEF PayWrite, InsertPayment, InsertMandate, ActWrite, CycleWrite,
   FdWrite, WdCredit, Unlink, Fail

LEMMA LocksUsedNext == ASSUME BookInv, LocksUsed, [Next]_vars PROVE LocksUsed'
<1>1. ASSUME NEW p \in Requests, Start(p) \/ Advance(p) \/ Fail(p) PROVE LocksUsed'
  BY <1>1, NoNewLockAt, AccountLockedAt, RowLockedAt, LocksBackAt DEF Advance, BookInv
<1>2. CASE NextDay \/ UNCHANGED vars
  BY <1>2 DEF NextDay, vars, LocksUsed
<1> QED BY <1>1, <1>2 DEF Next

AtAccount == {"payLock", "insert", "debit", "fdLock", "wdCredit", "unlink"}
AtRow == {"actLock", "cycleLock", "wdLock"}

(* A request that waits for a row waits for another request, which has it. *)
LEMMA WaitsForHolder ==
  ASSUME BookInv, LocksUsed, NEW p \in Requests, Waiting(p),
         pc[p] \in AtAccount \cup AtRow
  PROVE  \E q \in Requests :
            IF pc[p] \in AtAccount THEN pc[q] \in AccountHolders
            ELSE pc[q] \in MandateHolders \cup {"wdCredit"}
<1> DEFINE x == IF pc[p] \in AtAccount THEN want[p].acct ELSE want[p].item
<1>1. Fits(p) /\ MemoryTyped
  BY DEF BookInv
<1>2. /\ pc[p] \in AtAccount => x \in Accounts
      /\ pc[p] \notin AtAccount => x \in Mandates \cup Deposits
  BY <1>1 DEF Fits, WishFits, AtAccount, AtRow
<1>3. x = Awaits(p)
  BY DEF Awaits, AtAccount, AtRow
<1>4. ~Free(x, p)
  BY <1>3 DEF Waiting, AtAccount, AtRow
<1>5. x \in Rows
  BY <1>2 DEF Rows
<1> HIDE DEF x
<1>6. lock[x] \in Requests /\ MayHold(x, pc[lock[x]])
  BY <1>1, <1>4, <1>5 DEF Free, MemoryTyped, LocksUsed
<1>7. IF pc[p] \in AtAccount THEN pc[lock[x]] \in AccountHolders
      ELSE pc[lock[x]] \in MandateHolders \cup {"wdCredit"}
  BY <1>2, <1>6, AmountsAssumption DEF MayHold
<1> QED BY <1>6, <1>7

LEMMA WritersRun ==
  ASSUME NEW p \in Requests, pc[p] \in {"payWrite", "cycleWrite", "fdWrite", "actWrite"}
  PROVE  ~Waiting(p)
BY DEF Waiting, Awaits

LEMMA NoCircle == ASSUME BookInv, LocksUsed PROVE OnlyThePoolStarves
<1> SUFFICES ASSUME \A p \in Requests : pc[p] # "idle" /\ Waiting(p), NEW p \in Connected
             PROVE  pc[p] \in {"payResolve", "fdResolve"}
  BY DEF OnlyThePoolStarves
<1>1. \A q \in Requests : pc[q] \notin {"payWrite", "cycleWrite", "fdWrite", "actWrite"}
  BY WritersRun
<1>2. \A q \in Requests : pc[q] \notin AtAccount
  BY <1>1, WaitsForHolder DEF AccountHolders
<1>3. \A q \in Requests : pc[q] \notin AtRow
  BY <1>1, <1>2, WaitsForHolder DEF MandateHolders, AtAccount, AtRow
<1>4. p \in Requests /\ pc[p] \in Labels /\ pc[p] \notin {"idle", "create", "cycle"}
  BY DEF Connected, BookInv, MemoryTyped
<1> QED BY <1>1, <1>2, <1>3, <1>4 DEF Labels, AtAccount, AtRow

(* All requests of a user are stuck at once only when every connection is  *)
(* held by a transaction that asks the pool for another one to resolve its *)
(* account: however many payments, catch-ups, deposits and withdrawals are *)
(* under way, the order in which they lock rows closes no circle.          *)
THEOREM NoCircleOfRows == Spec => []OnlyThePoolStarves
<1>1. Init => LocksUsed
  BY DEF Init, LocksUsed
<1>2. BookInv /\ LocksUsed /\ [Next]_vars => LocksUsed'
  BY LocksUsedNext
<1>3. BookInv /\ LocksUsed => OnlyThePoolStarves
  BY NoCircle
<1> QED BY <1>1, <1>2, <1>3, BookInvAlways, PTL DEF Spec

-----------------------------------------------------------------------------
(* The library's sum of a function over a finite domain.  It is defined by *)
(* recursion on sets; what it computes is proved by counting.              *)

(* A set that holds 0 and every successor of a member holds them all.      *)
LEMMA CountingUp ==
    ASSUME NEW S \in SUBSET Nat, 0 \in S, \A n \in S : n + 1 \in S
    PROVE  S = Nat
<1> DEFINE R == {p \in Nat \X Nat : p[1] < p[2]}
<1> SUFFICES ASSUME Nat \ S # {}
             PROVE  FALSE
  OBVIOUS
<1>1. IsWellFoundedOn(R, Nat)
  BY NatLessThanWellFounded DEF OpToRel
<1>2. PICK i \in Nat \ S : \A j \in Nat \ S : <<j, i>> \notin R
  <2> HIDE DEF R
  <2> QED
    BY <1>1, WFMin
<1>3. i - 1 \in S
  <2>1. i # 0 /\ i - 1 \in Nat /\ i - 1 < i
    BY <1>2
  <2>2. <<i - 1, i>> \in R
    BY <1>2, <2>1
  <2> QED
    BY <1>2, <2>1, <2>2
<1> QED
  BY <1>2, <1>3

(* h holds the sums of f over the subsets of S, the elements being taken   *)
(* one after the other.                                                    *)
Pick(s) == CHOOSE x \in s : TRUE
Sums(h, f, S) ==
    h = [s \in SUBSET S |-> IF s = {} THEN 0 ELSE f[Pick(s)] + h[s \ {Pick(s)}]]

LEMMA Smaller ==
    ASSUME NEW s, IsFiniteSet(s), NEW x \in s
    PROVE  /\ IsFiniteSet(s \ {x}) /\ Cardinality(s) \in Nat /\ Cardinality(s) # 0
           /\ Cardinality(s \ {x}) = Cardinality(s) - 1
BY FS_RemoveElement, FS_CardinalityType, FS_EmptySet

LEMMA Picked == ASSUME NEW s, s # {} PROVE Pick(s) \in s
BY DEF Pick

LEMMA SumsBuilt ==
    ASSUME NEW S, IsFiniteSet(S), NEW f
    PROVE  \E h : Sums(h, f, S)
<1> DEFINE Few(n) == {s \in SUBSET S : Cardinality(s) <= n}
           Taken(h, s) == IF s = {} THEN 0 ELSE f[Pick(s)] + h[s \ {Pick(s)}]
           Built(h, n) == h = [s \in Few(n) |-> Taken(h, s)]
           N == {n \in Nat : \E h : Built(h, n)}
<1>1. 0 \in N
  <2> DEFINE h == [s \in Few(0) |-> 0]
  <2>1. \A s \in Few(0) : s = {}
    BY FS_Subset, FS_EmptySet, FS_CardinalityType
  <2>2. Built(h, 0)
    <3> HIDE DEF Few
    <3> QED BY <2>1
  <2> HIDE DEF h, Built
  <2> QED BY <2>2
<1>2. ASSUME NEW n \in N PROVE n + 1 \in N
  <2>1. PICK h : Built(h, n)
    OBVIOUS
  <2> DEFINE g == [s \in Few(n + 1) |-> Taken(h, s)]
  <2>2. ASSUME NEW s \in Few(n + 1) PROVE g[s] = Taken(g, s)
    <3>1. CASE s = {}
      <4> HIDE DEF Few
      <4> QED BY <3>1
    <3>2. CASE s # {}
      <4> DEFINE r == s \ {Pick(s)}
      <4>1. IsFiniteSet(s) /\ Pick(s) \in s
        BY <3>2, FS_Subset, Picked
      <4>2. r \in Few(n) /\ r \in Few(n + 1)
        BY <4>1, Smaller
      <4>3. h[r] = Taken(h, r) /\ g[r] = Taken(h, r)
        <5> HIDE DEF Few, r, Taken
        <5> QED BY <2>1, <4>2
      <4>4. g[s] = f[Pick(s)] + h[r]
        <5> HIDE DEF Few
        <5> QED BY <3>2
      <4>5. Taken(g, s) = f[Pick(s)] + g[r]
        <5> HIDE DEF g
        <5> QED BY <3>2
      <4> HIDE DEF g, r, Taken
      <4> QED BY <4>3, <4>4, <4>5
    <3> QED BY <3>1, <3>2
  <2>3. Built(g, n + 1)
    <3>1. g = [s \in Few(n + 1) |-> g[s]]
      <4> HIDE DEF Few, Taken
      <4> QED OBVIOUS
    <3> HIDE DEF g, Few, Taken
    <3> QED BY <2>2, <3>1
  <2> HIDE DEF g, Built
  <2> QED BY <2>3
<1>3. N = Nat
  <2> HIDE DEF Built
  <2>1. N \in SUBSET Nat
    OBVIOUS
  <2> HIDE DEF N
  <2> QED BY <1>1, <1>2, <2>1, CountingUp
<1>4. Cardinality(S) \in Nat
  BY FS_CardinalityType
<1>5. PICK h : Built(h, Cardinality(S))
  <2> HIDE DEF Built
  <2> QED BY <1>3, <1>4
<1>6. Few(Cardinality(S)) = SUBSET S
  BY FS_Subset
<1> HIDE DEF Few
<1> QED BY <1>5, <1>6 DEF Sums

(* What the library's sum is. *)
LEMMA SumIs ==
    ASSUME NEW f, IsFiniteSet(DOMAIN f)
    PROVE  \E h : Sums(h, f, DOMAIN f) /\ SumFunction(f) = h[DOMAIN f]
<1> DEFINE h == CHOOSE h : Sums(h, f, DOMAIN f)
<1>1. Sums(h, f, DOMAIN f)
  <2>1. \E g : Sums(g, f, DOMAIN f)
    BY SumsBuilt
  <2> QED BY <2>1
<1>2. SumFunction(f) = h[DOMAIN f]
  BY DEF SumFunction, SumFunctionOnSet, FoldFunctionOnSet, MapThenFoldSet, Sums, Pick
<1> HIDE DEF h
<1> QED BY <1>1, <1>2

(* A set of properties of subsets of S holds of all of them when it holds  *)
(* of a set as soon as it holds of all smaller ones.                       *)
LEMMA BySize ==
    ASSUME NEW S, IsFiniteSet(S), NEW G \in SUBSET SUBSET S,
           \A s \in SUBSET S :
              (\A r \in SUBSET S : Cardinality(r) < Cardinality(s) => r \in G) => s \in G
    PROVE  G = SUBSET S
<1> DEFINE N == {n \in Nat : \A s \in SUBSET S : Cardinality(s) < n => s \in G}
<1>1. \A s \in SUBSET S : Cardinality(s) \in Nat
  BY FS_Subset, FS_CardinalityType
<1>2. N = Nat
  <2>1. 0 \in N
    BY <1>1
  <2>2. ASSUME NEW n \in N PROVE n + 1 \in N
    BY <1>1
  <2>3. N \in SUBSET Nat
    OBVIOUS
  <2> HIDE DEF N
  <2> QED BY <2>1, <2>2, <2>3, CountingUp
<1>3. ASSUME NEW s \in SUBSET S PROVE s \in G
  <2>1. Cardinality(s) + 1 \in N
    BY <1>1, <1>2
  <2> QED BY <1>1, <2>1
<1> QED BY <1>3

(* The order in which the elements are taken does not matter.              *)
LEMMA AnyOrder ==
    ASSUME NEW S, IsFiniteSet(S), NEW f, \A x \in S : f[x] \in Int,
           NEW h, Sums(h, f, S)
    PROVE  \A s \in SUBSET S :
             h[s] \in Int /\ \A x \in S : x \in s => h[s] = f[x] + h[s \ {x}]
<1> DEFINE Good(s) == h[s] \in Int /\ \A x \in s : h[s] = f[x] + h[s \ {x}]
           G == {s \in SUBSET S : Good(s)}
<1>0. \A s \in SUBSET S : h[s] = IF s = {} THEN 0 ELSE f[Pick(s)] + h[s \ {Pick(s)}]
  BY DEF Sums
<1>1. ASSUME NEW s \in SUBSET S,
             \A r \in SUBSET S : Cardinality(r) < Cardinality(s) => r \in G
      PROVE  Good(s)
  <2>1. CASE s = {}
    <3>1. h[s] = 0
      BY <1>0, <2>1
    <3> QED BY <2>1, <3>1
  <2>2. CASE s # {}
    <3> DEFINE c == Pick(s)
    <3>1. c \in s /\ IsFiniteSet(s)
      BY <2>2, Picked, FS_Subset
    <3> HIDE DEF c
    <3>2. ASSUME NEW x \in s PROVE s \ {x} \in G
      <4>1. Cardinality(s \ {x}) < Cardinality(s)
        BY <3>1, Smaller
      <4> HIDE DEF G
      <4> QED BY <1>1, <4>1
    <3>3. h[s] = f[c] + h[s \ {c}]
      BY <1>0, <2>2 DEF c
    <3>4. h[s] \in Int
      BY <3>1, <3>2, <3>3
    <3>5. ASSUME NEW x \in s PROVE h[s] = f[x] + h[s \ {x}]
      <4>1. CASE x = c
        BY <3>3, <4>1
      <4>2. CASE x # c
        <5> DEFINE r == s \ {x, c}
        <5>1. (s \ {c}) \ {x} = r /\ (s \ {x}) \ {c} = r /\ x \in s \ {c} /\ c \in s \ {x}
          BY <3>1, <4>2
        <5>2. h[s \ {c}] = f[x] + h[r] /\ h[s \ {x}] = f[c] + h[r]
          BY <3>1, <3>2, <5>1
        <5>3. r \in SUBSET S /\ Cardinality(r) < Cardinality(s)
          <6>1. r = (s \ {c}) \ {x} /\ IsFiniteSet(s \ {c})
            BY <5>1, <3>1, Smaller
          <6>2. Cardinality(r) = Cardinality(s \ {c}) - 1 /\ Cardinality(s \ {c}) = Cardinality(s) - 1
                /\ Cardinality(s) \in Nat
            BY <3>1, <5>1, <6>1, Smaller
          <6> QED BY <6>2
        <5>4. h[r] \in Int
          BY <1>1, <5>3
        <5> HIDE DEF r
        <5> QED BY <3>1, <3>3, <5>2, <5>4
      <4> QED BY <4>1, <4>2
    <3> QED BY <3>4, <3>5
  <2> QED BY <2>1, <2>2
<1>2. G = SUBSET S
  <2>1. G \in SUBSET SUBSET S
    OBVIOUS
  <2>2. \A s \in SUBSET S :
              (\A r \in SUBSET S : Cardinality(r) < Cardinality(s) => r \in G) => s \in G
    BY <1>1
  <2> HIDE DEF G
  <2> QED BY <2>1, <2>2, BySize
<1> QED BY <1>2

(* The sums of a function are those of any that agrees with it.            *)
LEMMA SameSums ==
    ASSUME NEW S, NEW T \in SUBSET S, IsFiniteSet(T), NEW f, NEW g, NEW h, NEW k,
           \A x \in T : f[x] = g[x], Sums(h, f, S), Sums(k, g, T)
    PROVE  h[T] = k[T]
<1> DEFINE G == {s \in SUBSET T : h[s] = k[s]}
<1>1. ASSUME NEW s \in SUBSET T,
             \A r \in SUBSET T : Cardinality(r) < Cardinality(s) => r \in G
      PROVE  h[s] = k[s]
  <2>1. /\ h[s] = IF s = {} THEN 0 ELSE f[Pick(s)] + h[s \ {Pick(s)}]
        /\ k[s] = IF s = {} THEN 0 ELSE g[Pick(s)] + k[s \ {Pick(s)}]
    BY DEF Sums
  <2>2. CASE s = {}
    BY <2>1, <2>2
  <2>3. CASE s # {}
    <3>1. Pick(s) \in s /\ IsFiniteSet(s)
      BY <2>3, Picked, FS_Subset
    <3>2. Cardinality(s \ {Pick(s)}) < Cardinality(s)
      BY <3>1, Smaller
    <3>3. h[s \ {Pick(s)}] = k[s \ {Pick(s)}] /\ f[Pick(s)] = g[Pick(s)]
      BY <1>1, <3>1, <3>2
    <3> QED BY <2>1, <2>3, <3>3
  <2> QED BY <2>2, <2>3
<1>2. G = SUBSET T
  <2>1. G \in SUBSET SUBSET T
    OBVIOUS
  <2>2. \A s \in SUBSET T :
              (\A r \in SUBSET T : Cardinality(r) < Cardinality(s) => r \in G) => s \in G
    BY <1>1
  <2> HIDE DEF G
  <2> QED BY <2>1, <2>2, BySize
<1> QED BY <1>2

LEMMA SumOfNone ==
    ASSUME NEW f, DOMAIN f = {}
    PROVE  SumFunction(f) = 0
<1>1. PICK h : Sums(h, f, {}) /\ SumFunction(f) = h[{}]
  BY SumIs, FS_EmptySet
<1> QED BY <1>1 DEF Sums

LEMMA SumType ==
    ASSUME NEW f, IsFiniteSet(DOMAIN f), \A x \in DOMAIN f : f[x] \in Int
    PROVE  SumFunction(f) \in Int
<1>1. PICK h : Sums(h, f, DOMAIN f) /\ SumFunction(f) = h[DOMAIN f]
  BY SumIs
<1> QED BY <1>1, AnyOrder

(* The sum without one of the summands.                                    *)
LEMMA SumWithout ==
    ASSUME NEW f, IsFiniteSet(DOMAIN f), \A x \in DOMAIN f : f[x] \in Int,
           NEW c \in DOMAIN f, NEW g, DOMAIN g = DOMAIN f \ {c},
           \A x \in DOMAIN g : g[x] = f[x]
    PROVE  SumFunction(f) = SumFunction(g) + f[c]
<1>1. IsFiniteSet(DOMAIN g)
  BY Smaller
<1>2. PICK h : Sums(h, f, DOMAIN f) /\ SumFunction(f) = h[DOMAIN f]
  BY SumIs
<1>3. PICK k : Sums(k, g, DOMAIN g) /\ SumFunction(g) = k[DOMAIN g]
  BY <1>1, SumIs
<1>4. h[DOMAIN g] = k[DOMAIN g]
  BY <1>1, <1>2, <1>3, SameSums
<1>5. \A s \in SUBSET (DOMAIN f) :
        h[s] \in Int /\ \A x \in DOMAIN f : x \in s => h[s] = f[x] + h[s \ {x}]
  BY <1>2, AnyOrder
<1>6. DOMAIN f \in SUBSET (DOMAIN f) /\ DOMAIN f \ {c} \in SUBSET (DOMAIN f)
  OBVIOUS
<1>7. h[DOMAIN f] = f[c] + h[DOMAIN f \ {c}] /\ h[DOMAIN f \ {c}] \in Int
  BY <1>5, <1>6
<1> QED BY <1>2, <1>3, <1>4, <1>7

(* One summand changes.                                                    *)
LEMMA SumChanged ==
    ASSUME NEW f, IsFiniteSet(DOMAIN f), \A x \in DOMAIN f : f[x] \in Int,
           NEW g, DOMAIN g = DOMAIN f, NEW c \in DOMAIN f, g[c] \in Int,
           \A x \in DOMAIN f \ {c} : g[x] = f[x]
    PROVE  SumFunction(g) = SumFunction(f) + (g[c] - f[c])
<1> DEFINE r == [x \in DOMAIN f \ {c} |-> f[x]]
<1>1. DOMAIN r = DOMAIN f \ {c} /\ \A x \in DOMAIN r : r[x] = f[x] /\ r[x] = g[x]
  OBVIOUS
<1> HIDE DEF r
<1>2. SumFunction(f) = SumFunction(r) + f[c] /\ SumFunction(g) = SumFunction(r) + g[c]
  <2>1. \A x \in DOMAIN g : g[x] \in Int
    OBVIOUS
  <2> QED BY <1>1, <2>1, SumWithout
<1>3. SumFunction(r) \in Int
  BY <1>1, Smaller, SumType
<1> QED BY <1>2, <1>3

(* One summand more.                                                       *)
LEMMA SumOneMore ==
    ASSUME NEW f, IsFiniteSet(DOMAIN f), \A x \in DOMAIN f : f[x] \in Int,
           NEW c, c \notin DOMAIN f, NEW g, DOMAIN g = DOMAIN f \cup {c}, g[c] \in Int,
           \A x \in DOMAIN f : g[x] = f[x]
    PROVE  SumFunction(g) = SumFunction(f) + g[c]
<1>1. IsFiniteSet(DOMAIN g) /\ DOMAIN f = DOMAIN g \ {c} /\ c \in DOMAIN g
      /\ \A x \in DOMAIN g : g[x] \in Int
  BY FS_AddElement
<1> QED BY <1>1, SumWithout

-----------------------------------------------------------------------------
(* The books.                                                              *)

(* A direct debit is of its mandate's amount, a withdrawal of its deposit, *)
(* whose row is locked once it has been read.                              *)
TermsFit(p) ==
    /\ pc[p] \in {"debit", "cycleWrite"} =>
         want[p].acct = row[p].acct /\ want[p].amt = row[p].amount
    /\ pc[p] \in {"wdLock", "wdCredit"} => want[p].acct = deposit[want[p].item].acct
    /\ pc[p] = "wdCredit" =>
         /\ lock[want[p].item] = p /\ row[p] = deposit[want[p].item]
         /\ row[p].status = "ACTIVE"

Filed ==
    /\ withdrawals \in [Deposits -> Seq(Nat)]
    /\ \A d \in Deposits : deposit[d] = None => withdrawals[d] = <<>>
    /\ \A a \in Accounts : /\ IsFiniteSet(Settled(a)) /\ IsFiniteSet(MandatesOn(a))
                           /\ IsFiniteSet(DepositsOn(a))

TermsInv == \A p \in Requests : TermsFit(p)
BooksInv == TermsInv /\ Filed /\ BooksBalance

(* What a step of p leaves of the deposits to the others.                  *)
DepositsStay(p) ==
    \A d \in Deposits : deposit[d] # None =>
        /\ deposit'[d].acct = deposit[d].acct
        /\ lock[d] \notin {None, p} => deposit'[d] = deposit[d]

LEMMA OthersTerms ==
  ASSUME BookInv, TermsInv, NEW p \in Requests, Others(p), DepositsStay(p), TermsFit(p)'
  PROVE  TermsInv'
<1> SUFFICES ASSUME NEW q \in Requests \ {p} PROVE TermsFit(q)'
  BY DEF TermsInv
<1>1. Same(q) /\ TermsFit(q) /\ Fits(q) /\ q # None
  BY AmountsAssumption DEF Others, TermsInv, BookInv
<1>2. CASE pc[q] \in {"wdLock", "wdCredit"}
  <2>1. /\ want[q].item \in Deposits /\ deposit[want[q].item] # None
        /\ want[q].item \in Rows
    BY <1>1, <1>2 DEF Fits, WishFits, Rows
  <2> QED BY <1>1, <1>2, <2>1 DEF TermsFit, Same, Others, DepositsStay
<1>3. CASE pc[q] \notin {"wdLock", "wdCredit"}
  BY <1>1, <1>3 DEF TermsFit, Same
<1> QED BY <1>2, <1>3

LEMMA TermsAtRest ==
  ASSUME NEW p \in Requests, pc'[p] \notin {"debit", "cycleWrite", "wdLock", "wdCredit"}
  PROVE  TermsFit(p)'
BY DEF TermsFit

(* The steps that end, or turn to another cycle.                           *)
LEMMA RestTerms ==
  ASSUME BookInv, TermsInv, NEW p \in Requests,
         Return(p) \/ NextMandate(p) \/ NextCycle(p), DepositsStay(p)
  PROVE  TermsInv'
<1>1. MemoryTyped
  BY DEF BookInv
<1>2. Others(p)
  BY <1>1, ReturnRests, NextRests
<1>3. pc'[p] \in {"idle", "cycle"}
  BY <1>1 DEF Return, Forget, NextMandate, NextCycle, Goto, MemoryTyped
<1> QED BY <1>2, <1>3, TermsAtRest, OthersTerms

LEMMA DepositStays ==
  ASSUME NEW p \in Requests, deposit' = deposit
  PROVE  DepositsStay(p)
BY DEF DepositsStay

LEMMA GiveUpTerms ==
  ASSUME BookInv, TermsInv, NEW p \in Requests, GiveUp(p) \/ (NextMandate(p) /\ deposit' = deposit)
  PROVE  TermsInv'
<1>1. deposit' = deposit
  BY DEF GiveUp, tables
<1> QED BY <1>1, RestTerms, DepositStays DEF GiveUp

(* The steps that only look something up, or lock a row.                   *)
LEMMA StartTerms ==
  ASSUME BookInv, TermsInv, NEW p \in Requests, Start(p)
  PROVE  TermsInv'
<1>1. pc \in [Requests -> Labels] /\ want \in [Requests -> Wish]
  BY DEF BookInv, MemoryTyped
<1>2. deposit' = deposit /\ lock' = lock /\ row' = row /\ seen' = seen
  BY DEF Start, Pay, CreateMandate, MandateAction, ListDue, OpenFD, Withdraw,
         UnlinkAccount, tables
<1>3. \A q \in Requests \ {p} : pc'[q] = pc[q] /\ want'[q] = want[q]
  BY <1>1 DEF Start, Pay, CreateMandate, MandateAction, ListDue, OpenFD, Withdraw,
         UnlinkAccount, Goto, Ask
<1>4. Others(p) /\ DepositsStay(p)
  BY <1>2, <1>3, DepositStays DEF Others, Same
<1>5. TermsFit(p)'
  <2>1. CASE \E d \in Deposits, n \in Amounts \cup {0} : Withdraw(p, d, n)
    <3>1. PICK d \in Deposits : \E n : Withdraw(p, d, n)
      BY <2>1
    <3>2. PICK n : Withdraw(p, d, n)
      BY <3>1
    <3>3. pc'[p] = "wdLock" /\ want'[p].acct = deposit[d].acct /\ want'[p].item = d
      BY <1>1, <3>2 DEF Withdraw, Goto, Ask
    <3> QED BY <1>2, <3>3 DEF TermsFit
  <2>2. CASE ~ \E d \in Deposits, n \in Amounts \cup {0} : Withdraw(p, d, n)
    <3>1. pc'[p] \in {"payResolve", "create", "actLock", "cycle", "fdResolve", "fdLock", "unlink"}
      BY <1>1, <2>2 DEF Start, Pay, CreateMandate, MandateAction, ListDue, OpenFD,
         UnlinkAccount, Goto
    <3> QED BY <3>1, TermsAtRest
  <2> QED BY <2>1, <2>2
<1> QED BY <1>4, <1>5, OthersTerms

LEMMA LookUpTerms ==
  ASSUME BookInv, TermsInv, NEW p \in Requests,
         PayResolve(p) \/ FdResolve(p) \/ InsertBegins(p) \/ BeginCycle(p)
  PROVE  TermsInv'
<1>1. CASE GiveUp(p)
  BY <1>1, GiveUpTerms
<1>2. CASE ~GiveUp(p)
  <2>1. pc \in [Requests -> Labels] /\ want \in [Requests -> Wish]
    BY DEF BookInv, MemoryTyped
  <2>2. deposit' = deposit /\ lock' = lock /\ row' = row /\ seen' = seen
    BY <1>2 DEF PayResolve, FdResolve, InsertBegins, BeginCycle, tables, memory
  <2>3. \A q \in Requests \ {p} : pc'[q] = pc[q] /\ want'[q] = want[q]
    BY <1>2, <2>1 DEF PayResolve, FdResolve, InsertBegins, BeginCycle, memory, Goto
  <2>4. pc'[p] \in {"payLock", "fdLock", "insert", "cycleLock"}
    BY <1>2, <2>1 DEF PayResolve, FdResolve, InsertBegins, BeginCycle, Goto
  <2>5. Others(p)
    BY <2>2, <2>3 DEF Others, Same
  <2> QED BY <2>2, <2>4, <2>5, DepositStays, TermsAtRest, OthersTerms
<1> QED BY <1>1, <1>2

LEMMA AccountLockTerms ==
  ASSUME BookInv, TermsInv, NEW p \in Requests, PayLock(p) \/ CycleDebit(p) \/ FdLock(p)
  PROVE  TermsInv'
<1>1. CASE GiveUp(p)
  BY <1>1, GiveUpTerms
<1>2. CASE ~GiveUp(p)
  <2> DEFINE a == want[p].acct
  <2>1. MemoryTyped /\ a \in Accounts /\ a \in Rows
    BY DEF BookInv, Fits, WishFits, PayLock, CycleDebit, FdLock, Rows
  <2>2. /\ deposit' = deposit /\ want' = want /\ row' = row
        /\ Free(a, p) /\ Acquire(a, p)
        /\ \E n : seen' = [seen EXCEPT ![p] = n]
    BY <1>2 DEF PayLock, CycleDebit, FdLock, LockAccount, tables
  <2>3. \/ pc[p] = "debit" /\ Goto(p, "cycleWrite")
        \/ Goto(p, "payWrite") \/ Goto(p, "fdWrite")
    BY <1>2 DEF PayLock, CycleDebit, FdLock, LockAccount
  <2> HIDE DEF a
  <2>4. Others(p)
    <3>1. \A x \in Rows : lock[x] \notin {None, p} => lock'[x] = lock[x]
      BY <2>1, <2>2, Acquired
    <3>2. \A q \in Requests \ {p} : Same(q)
      BY <2>1, <2>2, <2>3 DEF Same, MemoryTyped, Goto
    <3> QED BY <3>1, <3>2 DEF Others
  <2>5. TermsFit(p)'
    <3>1. CASE pc[p] = "debit" /\ Goto(p, "cycleWrite")
      <4>1. pc'[p] = "cycleWrite" /\ TermsFit(p)
        BY <2>1, <3>1 DEF Goto, MemoryTyped, TermsInv
      <4> QED BY <2>2, <3>1, <4>1 DEF TermsFit
    <3>2. CASE Goto(p, "payWrite") \/ Goto(p, "fdWrite")
      <4>1. pc'[p] \in {"payWrite", "fdWrite"}
        BY <2>1, <3>2 DEF Goto, MemoryTyped
      <4> QED BY <4>1, TermsAtRest
    <3> QED BY <2>3, <3>1, <3>2
  <2> QED BY <2>2, <2>4, <2>5, DepositStays, OthersTerms
<1> QED BY <1>1, <1>2

LEMMA RowLockTerms ==
  ASSUME BookInv, TermsInv, NEW p \in Requests, ActLock(p) \/ CycleLock(p) \/ WdLock(p)
  PROVE  TermsInv'
<1> DEFINE x == want[p].item
<1>1. CASE GiveUp(p) \/ NextMandate(p)
  <2>1. deposit' = deposit
    BY DEF ActLock, CycleLock, WdLock, GiveUp, tables
  <2> QED BY <1>1, <2>1, GiveUpTerms
<1>2. CASE ~GiveUp(p) /\ ~NextMandate(p)
  <2>1. MemoryTyped /\ x \in Rows /\ TermsFit(p)
    BY DEF BookInv, TermsInv, Fits, WishFits, ActLock, CycleLock, WdLock, Rows
  <2>2. deposit' = deposit /\ seen' = seen /\ Free(x, p) /\ Acquire(x, p)
    BY <1>2 DEF ActLock, CycleLock, WdLock, tables
  <2>3. \E l, r : Goto(p, l) /\ row' = [row EXCEPT ![p] = r]
    BY <1>2 DEF ActLock, CycleLock, WdLock
  <2>4. want' = want \/ \E w : want' = [want EXCEPT ![p] = w]
    BY <1>2 DEF ActLock, CycleLock, WdLock, Ask
  <2>5. lock'[x] = p /\ \A y \in Rows : lock[y] \notin {None, p} => lock'[y] = lock[y]
    BY <2>1, <2>2, Acquired
  <2>6. Others(p)
    <3>1. \A q \in Requests \ {p} : Same(q)
      BY <2>1, <2>2, <2>3, <2>4 DEF Same, MemoryTyped, Goto
    <3> QED BY <2>5, <3>1 DEF Others
  <2>7. TermsFit(p)'
    <3>1. CASE ActLock(p)
      <4>1. pc'[p] = "actWrite"
        BY <1>2, <2>1, <3>1 DEF ActLock, Goto, MemoryTyped
      <4> QED BY <4>1, TermsAtRest
    <3>2. CASE CycleLock(p)
      <4>1. /\ pc'[p] = "debit" /\ row'[p] = mandate[x]
            /\ want'[p].acct = mandate[x].acct /\ want'[p].amt = mandate[x].amount
        BY <1>2, <2>1, <3>2 DEF CycleLock, Goto, Ask, MemoryTyped
      <4> QED BY <4>1 DEF TermsFit
    <3>3. CASE WdLock(p)
      <4>1. /\ pc'[p] = "wdCredit" /\ row'[p] = deposit[x] /\ want' = want
            /\ deposit[x].status = "ACTIVE" /\ pc[p] = "wdLock"
        BY <1>2, <2>1, <3>3 DEF WdLock, Goto, MemoryTyped, MayWithdraw
      <4> QED BY <2>1, <2>2, <2>5, <4>1 DEF TermsFit
    <3> QED BY <3>1, <3>2, <3>3
  <2> QED BY <2>2, <2>6, <2>7, DepositStays, OthersTerms
<1> QED BY <1>1, <1>2

LEMMA WriteTerms ==
  ASSUME BookInv, TermsInv, NEW p \in Requests,
         \/ PayWrite(p) \/ InsertMandate(p) \/ ActWrite(p) \/ CycleWrite(p)
         \/ FdWrite(p) \/ WdCredit(p) \/ Unlink(p) \/ Fail(p)
  PROVE  TermsInv'
<1>1. CASE GiveUp(p)
  BY <1>1, GiveUpTerms
<1>2. CASE ~GiveUp(p)
  <2>1. Return(p) \/ NextMandate(p) \/ NextCycle(p)
    BY <1>2 DEF PayWrite, InsertPayment, InsertMandate, ActWrite, CycleWrite, FdWrite,
                WdCredit, Unlink, Fail
  <2>2. DepositsStay(p)
    <3>0. TablesTyped /\ Fits(p) /\ MemoryTyped
      BY DEF BookInv
    <3>1. CASE FdWrite(p)
      <4>1. want[p].item \in Deposits /\ deposit[want[p].item] = None
            /\ \A d \in Deposits \ {want[p].item} : deposit'[d] = deposit[d]
        BY <1>2, <3>0, <3>1 DEF FdWrite, Fits, WishFits, TablesTyped
      <4> QED BY <4>1 DEF DepositsStay
    <3>2. CASE WdCredit(p)
      <4> DEFINE d == want[p].item  r == row[p]
                 w == IF want[p].amt = 0 THEN r.principal ELSE want[p].amt
                 s == IF w = r.principal THEN [r EXCEPT !.status = "PREMATURE_CLOSED"]
                      ELSE [r EXCEPT !.principal = @ - w]
      <4>1. d \in Deposits /\ r \in DepositRow /\ TermsFit(p) /\ pc[p] = "wdCredit"
        BY <3>0, <3>2 DEF WdCredit, Fits, WishFits, DepositFits, TermsInv
      <4>2. deposit' = [deposit EXCEPT ![d] = s]
        BY <3>2 DEF WdCredit
      <4>3. s.acct = r.acct
        BY <4>1 DEF DepositRow
      <4>4. r = deposit[d] /\ lock[d] = p
        BY <4>1 DEF TermsFit
      <4> HIDE DEF s
      <4>5. deposit'[d].acct = deposit[d].acct
            /\ \A e \in Deposits \ {d} : deposit'[e] = deposit[e]
        BY <3>0, <4>1, <4>2, <4>3, <4>4 DEF TablesTyped
      <4> QED BY <4>4, <4>5 DEF DepositsStay
    <3>3. CASE ~FdWrite(p) /\ ~WdCredit(p)
      <4>1. deposit' = deposit
        BY <1>2, <3>3 DEF PayWrite, InsertPayment, InsertMandate, ActWrite, CycleWrite,
                Unlink, Fail, tables
      <4> QED BY <4>1, DepositStays
    <3> QED BY <3>1, <3>2, <3>3
  <2> QED BY <2>1, <2>2, RestTerms
<1> QED BY <1>1, <1>2

LEMMA TermsNext == ASSUME BookInv, TermsInv, [Next]_vars PROVE TermsInv'
<1>1. ASSUME NEW p \in Requests, Start(p) \/ Advance(p) \/ Fail(p) PROVE TermsInv'
  BY <1>1, StartTerms, LookUpTerms, AccountLockTerms, RowLockTerms, WriteTerms DEF Advance
<1>2. CASE NextDay \/ UNCHANGED vars
  BY <1>2 DEF NextDay, vars, TermsInv, TermsFit, tables, memory
<1> QED BY <1>1, <1>2 DEF Next

-----------------------------------------------------------------------------
(* What a step does to the three sums of an account.                       *)

LEMMA PaymentTyped ==
  ASSUME BookInv
  PROVE  /\ \A r \in PaymentRow : r.amount \in Nat /\ r.amount \in Int
         /\ \A t \in Txns : payment[t] # None => payment[t] \in PaymentRow
<1>1. \A n \in Amounts : n \in Nat
  BY AmountsAssumption
<1>2. \A r \in PaymentRow : r.amount \in Amounts
  BY DEF PaymentRow
<1>3. payment \in [Txns -> PaymentRow \cup {None}]
  BY DEF BookInv, TablesTyped
<1> QED BY <1>1, <1>2, <1>3

LEMMA Times ==
  ASSUME NEW a \in Nat, NEW b \in Nat
  PROVE  b * a \in Int /\ b * (a + 1) = b * a + b
OBVIOUS

LEMMA PaidTyped ==
  ASSUME BookInv, Filed, NEW a \in Accounts
  PROVE  Paid(a) \in Int
<1> DEFINE f == [t \in Settled(a) |-> payment[t].amount]
<1>1. \A t \in DOMAIN f : f[t] \in Int
  BY PaymentTyped DEF Settled
<1>2. IsFiniteSet(DOMAIN f)
  BY DEF Filed
<1> HIDE DEF f
<1>3. SumFunction(f) \in Int
  BY <1>1, <1>2, SumType
<1> QED BY <1>3 DEF f, Paid

LEMMA PaymentAdds ==
  ASSUME BookInv, Filed, NEW t \in Txns, payment[t] = None, NEW r \in PaymentRow,
         payment' = [payment EXCEPT ![t] = r], NEW a \in Accounts
  PROVE  /\ IsFiniteSet(Settled(a)')
         /\ Paid(a)' = Paid(a) + IF r.acct = a /\ r.status = "SUCCESS" THEN r.amount ELSE 0
<1> DEFINE f == [x \in Settled(a) |-> payment[x].amount]
           g == [x \in Settled(a)' |-> payment'[x].amount]
<1>0. r # None
  BY NoneAssumption
<1>1. payment'[t] = r /\ \A x \in Txns \ {t} : payment'[x] = payment[x]
  BY DEF BookInv, TablesTyped
<1>2. Settled(a)' = Settled(a) \cup
          (IF r.acct = a /\ r.status = "SUCCESS" THEN {t} ELSE {})
  BY <1>0, <1>1 DEF Settled
<1>3. t \notin Settled(a) /\ IsFiniteSet(Settled(a))
  BY DEF Settled, Filed
<1>4. \A x \in Settled(a) : payment[x].amount \in Int /\ payment'[x] = payment[x]
  BY <1>1, <1>3, PaymentTyped DEF Settled
<1>5. CASE r.acct = a /\ r.status = "SUCCESS"
  <2>1. /\ DOMAIN g = DOMAIN f \cup {t} /\ g[t] = r.amount /\ g[t] \in Int
        /\ \A x \in DOMAIN f : g[x] = f[x] /\ f[x] \in Int
    <3>1. r.amount \in Int
      BY PaymentTyped
    <3> QED BY <1>1, <1>2, <1>4, <1>5, <3>1
  <2>2. IsFiniteSet(DOMAIN f) /\ t \notin DOMAIN f
    BY <1>3
  <2> HIDE DEF f, g
  <2>3. SumFunction(g) = SumFunction(f) + g[t]
    BY <2>1, <2>2, SumOneMore
  <2>4. Paid(a)' = Paid(a) + r.amount
    BY <2>1, <2>3 DEF f, g, Paid
  <2> QED BY <1>2, <1>3, <1>5, <2>4, FS_AddElement
<1>6. CASE ~(r.acct = a /\ r.status = "SUCCESS")
  <2>1. Settled(a)' = Settled(a) /\ f = g
    BY <1>2, <1>4, <1>6
  <2>2. Paid(a)' = Paid(a) /\ Paid(a) \in Int
    BY <2>1, PaidTyped DEF Paid
  <2> QED BY <1>3, <1>6, <2>1, <2>2
<1> QED BY <1>5, <1>6

Debited(m) == mandate[m].amount * Cardinality(Debits(m))

LEMMA DebitsCounted ==
  ASSUME BookInv, NEW m \in Mandates
  PROVE  /\ IsFiniteSet(Debits(m)) /\ Cardinality(Debits(m)) \in Nat
         /\ mandate[m] # None => Debited(m) \in Int
<1>1. executions[m] \in Seq(Execution)
  BY DEF BookInv, TablesTyped
<1>2. Debits(m) \in SUBSET (1 .. Len(executions[m])) /\ Len(executions[m]) \in Nat
  BY <1>1 DEF Debits
<1>3. IsFiniteSet(Debits(m)) /\ Cardinality(Debits(m)) \in Nat
  <2>1. IsFiniteSet(1 .. Len(executions[m]))
    BY <1>2, FS_Interval
  <2> QED BY <1>2, <2>1, FS_Subset, FS_CardinalityType
<1>4. ASSUME mandate[m] # None PROVE Debited(m) \in Int
  <2>1. mandate[m].amount \in Nat
    BY <1>4 DEF BookInv, TablesTyped, MandateRow
  <2> QED BY <1>3, <2>1 DEF Debited
<1> QED BY <1>3, <1>4

LEMMA CollectedTyped ==
  ASSUME BookInv, Filed, NEW a \in Accounts
  PROVE  Collected(a) \in Int
<1> DEFINE f == [m \in MandatesOn(a) |-> Debited(m)]
<1>1. \A m \in DOMAIN f : f[m] \in Int
  BY DebitsCounted DEF MandatesOn
<1>2. IsFiniteSet(DOMAIN f)
  BY DEF Filed
<1>3. Collected(a) = SumFunction(f)
  BY DEF Collected, Debited
<1> HIDE DEF f
<1> QED BY <1>1, <1>2, <1>3, SumType

LEMMA MandateAdds ==
  ASSUME BookInv, Filed, NEW m \in Mandates, mandate[m] = None, NEW r \in MandateRow,
         mandate' = [mandate EXCEPT ![m] = r], executions' = executions,
         NEW a \in Accounts
  PROVE  IsFiniteSet(MandatesOn(a)') /\ Collected(a)' = Collected(a)
<1> DEFINE f == [x \in MandatesOn(a) |-> Debited(x)]
           g == [x \in MandatesOn(a)' |-> Debited(x)']
<1>0. Collected(a) = SumFunction(f) /\ Collected(a)' = SumFunction(g)
  BY DEF Collected, Debited
<1>1. r # None /\ mandate'[m] = r /\ \A x \in Mandates \ {m} : mandate'[x] = mandate[x]
  BY NoneAssumption DEF BookInv, TablesTyped
<1>2. MandatesOn(a)' = MandatesOn(a) \cup (IF r.acct = a THEN {m} ELSE {})
  BY <1>1 DEF MandatesOn
<1>3. m \notin MandatesOn(a) /\ IsFiniteSet(MandatesOn(a))
  BY DEF MandatesOn, Filed
<1>4. \A x \in MandatesOn(a) : Debited(x)' = Debited(x) /\ Debited(x) \in Int
  BY <1>1, <1>3, DebitsCounted DEF Debited, Debits, MandatesOn
<1>5. Debited(m)' = 0
  <2>1. executions[m] = <<>>
    BY DEF BookInv, InStep
  <2>2. Debits(m)' = {}
    BY <2>1 DEF Debits
  <2>3. r.amount * 0 = 0
    BY DEF MandateRow
  <2> QED BY <1>1, <2>2, <2>3, FS_EmptySet DEF Debited
<1>6. CASE r.acct = a
  <2>1. DOMAIN g = DOMAIN f \cup {m} /\ g[m] = 0 /\ g[m] \in Int
        /\ \A x \in DOMAIN f : g[x] = f[x] /\ f[x] \in Int
    BY <1>2, <1>4, <1>5, <1>6
  <2>2. IsFiniteSet(DOMAIN f) /\ m \notin DOMAIN f
    BY <1>3
  <2> HIDE DEF f, g
  <2>3. SumFunction(g) = SumFunction(f) + 0 /\ SumFunction(f) \in Int
    BY <2>1, <2>2, SumOneMore, SumType
  <2> QED BY <1>0, <1>2, <1>3, <1>6, <2>3, FS_AddElement
<1>7. CASE r.acct # a
  <2>1. MandatesOn(a)' = MandatesOn(a)
    BY <1>2, <1>7
  <2>2. f = g
    BY <1>4, <2>1
  <2> QED BY <1>0, <1>3, <2>1, <2>2
<1> QED BY <1>6, <1>7

(* A mandate of the same account and amount, that has run k more cycles.   *)
LEMMA MandateMoves ==
  ASSUME BookInv, Filed, NEW m \in Mandates, mandate[m] # None, NEW r \in MandateRow,
         mandate' = [mandate EXCEPT ![m] = r],
         r.acct = mandate[m].acct, r.amount = mandate[m].amount,
         \A x \in Mandates \ {m} : executions'[x] = executions[x],
         NEW k \in {0, 1}, Cardinality(Debits(m))' = Cardinality(Debits(m)) + k,
         NEW a \in Accounts
  PROVE  /\ IsFiniteSet(MandatesOn(a)')
         /\ Collected(a)' = Collected(a) + IF r.acct = a /\ k = 1 THEN r.amount ELSE 0
<1> DEFINE f == [x \in MandatesOn(a) |-> Debited(x)]
           g == [x \in MandatesOn(a)' |-> Debited(x)']
<1>0. Collected(a) = SumFunction(f) /\ Collected(a)' = SumFunction(g)
  BY DEF Collected, Debited
<1>1. r # None /\ mandate'[m] = r /\ \A x \in Mandates \ {m} : mandate'[x] = mandate[x]
  BY NoneAssumption DEF BookInv, TablesTyped
<1>2. MandatesOn(a)' = MandatesOn(a) /\ IsFiniteSet(MandatesOn(a))
  <2>1. IsFiniteSet(MandatesOn(a))
    BY DEF Filed
  <2>2. MandatesOn(a)' = MandatesOn(a)
    BY <1>1 DEF MandatesOn
  <2> QED BY <2>1, <2>2
<1>3. \A x \in MandatesOn(a) : Debited(x) \in Int /\ (x # m => Debited(x)' = Debited(x))
  BY <1>1, DebitsCounted DEF Debited, Debits, MandatesOn
<1>4. /\ Debited(m) \in Int /\ Debited(m)' \in Int
      /\ Debited(m)' - Debited(m) = IF k = 1 THEN r.amount ELSE 0
  <2> DEFINE n == Cardinality(Debits(m))
  <2>1. n \in Nat /\ r.amount \in Nat
    BY DebitsCounted DEF MandateRow
  <2>2. Debited(m) = r.amount * n /\ Debited(m)' = r.amount * (n + k)
    BY <1>1 DEF Debited
  <2> HIDE DEF n
  <2>3. r.amount * n \in Int
    BY <2>1, Times
  <2>4. CASE k = 0
    BY <2>1, <2>2, <2>3, <2>4
  <2>5. CASE k = 1
    <3>1. r.amount * (n + 1) = r.amount * n + r.amount
      BY <2>1, Times
    <3> QED BY <2>1, <2>2, <2>3, <2>5, <3>1
  <2> QED BY <2>4, <2>5
<1>5. CASE r.acct = a
  <2>1. m \in DOMAIN f /\ DOMAIN g = DOMAIN f /\ IsFiniteSet(DOMAIN f)
    BY <1>2, <1>5 DEF MandatesOn
  <2>2. /\ \A x \in DOMAIN f : f[x] \in Int
        /\ \A x \in DOMAIN f \ {m} : g[x] = f[x]
        /\ f[m] = Debited(m) /\ g[m] = Debited(m)'
    BY <1>2, <1>3, <2>1
  <2> HIDE DEF f, g
  <2>3. SumFunction(g) = SumFunction(f) + (g[m] - f[m])
    BY <1>4, <2>1, <2>2, SumChanged
  <2> QED BY <1>0, <1>2, <1>4, <1>5, <2>2, <2>3
<1>6. CASE r.acct # a
  <2>1. m \notin MandatesOn(a)
    BY <1>6 DEF MandatesOn
  <2>2. f = g
    BY <1>2, <1>3, <2>1
  <2>3. Collected(a) \in Int
    BY CollectedTyped
  <2> QED BY <1>0, <1>2, <1>6, <2>2, <2>3
<1> QED BY <1>5, <1>6

Worth(d) == Booked(d) - Returned(d)

(* The sums over the withdrawals of a deposit.                             *)
LEMMA WithdrawalsTyped ==
  ASSUME NEW ws \in Seq(Nat)
  PROVE  /\ IsFiniteSet(DOMAIN ws)
         /\ SumFunction(ws) \in Int
         /\ SumFunction([i \in DOMAIN ws |-> netPayable(ws[i])]) \in Int
<1>1. IsFiniteSet(DOMAIN ws) /\ \A i \in DOMAIN ws : ws[i] \in Nat
  BY FS_Interval
<1> DEFINE f == [i \in DOMAIN ws |-> netPayable(ws[i])]
<1>2. DOMAIN f = DOMAIN ws /\ \A i \in DOMAIN f : f[i] \in Int
  BY <1>1, NetIsPositive
<1> HIDE DEF f
<1>3. SumFunction(f) \in Int
  BY <1>1, <1>2, SumType
<1>4. SumFunction(ws) \in Int
  BY <1>1, SumType
<1> QED BY <1>1, <1>3, <1>4 DEF f

LEMMA OneMoreWithdrawal ==
  ASSUME NEW ws \in Seq(Nat), NEW w \in Nat, NEW vs, vs = Append(ws, w)
  PROVE  /\ SumFunction(vs) = SumFunction(ws) + w
         /\ SumFunction([i \in DOMAIN vs |-> netPayable(vs[i])]) =
              SumFunction([i \in DOMAIN ws |-> netPayable(ws[i])]) + netPayable(w)
<1> DEFINE c == Len(ws) + 1
           f == [i \in DOMAIN ws |-> netPayable(ws[i])]
           g == [i \in DOMAIN vs |-> netPayable(vs[i])]
<1>1. /\ c \notin DOMAIN ws /\ DOMAIN vs = DOMAIN ws \cup {c} /\ vs[c] = w
      /\ vs[c] \in Int
      /\ \A i \in DOMAIN ws : vs[i] = ws[i] /\ ws[i] \in Nat /\ ws[i] \in Int
  OBVIOUS
<1>2. IsFiniteSet(DOMAIN ws)
  BY WithdrawalsTyped
<1> HIDE DEF c
<1>3. SumFunction(vs) = SumFunction(ws) + w
  <2>1. SumFunction(vs) = SumFunction(ws) + vs[c]
    BY <1>1, <1>2, SumOneMore
  <2> QED BY <1>1, <2>1
<1>4. /\ IsFiniteSet(DOMAIN f) /\ c \notin DOMAIN f /\ DOMAIN g = DOMAIN f \cup {c}
      /\ g[c] = netPayable(w) /\ g[c] \in Int
      /\ \A i \in DOMAIN f : g[i] = f[i] /\ f[i] \in Int
  <2>1. \A n \in Nat : netPayable(n) \in Int
    BY NetIsPositive
  <2> QED BY <1>1, <1>2, <2>1
<1> HIDE DEF f, g
<1>5. SumFunction(g) = SumFunction(f) + g[c]
  BY <1>4, SumOneMore
<1>6. SumFunction(g) = SumFunction(f) + netPayable(w)
  BY <1>4, <1>5
<1> QED BY <1>3, <1>6 DEF f, g

LEMMA WorthTyped ==
  ASSUME BookInv, Filed, NEW d \in Deposits, deposit[d] # None
  PROVE  Worth(d) \in Int
<1>1. withdrawals[d] \in Seq(Nat)
  BY DEF Filed
<1>2. deposit[d].principal \in Nat
  BY DEF BookInv, TablesTyped, DepositRow
<1> QED BY <1>1, <1>2, WithdrawalsTyped DEF Worth, Booked, Returned

LEMMA InvestedTyped ==
  ASSUME BookInv, Filed, NEW a \in Accounts
  PROVE  Invested(a) \in Int
<1> DEFINE f == [d \in DepositsOn(a) |-> Worth(d)]
<1>1. \A d \in DOMAIN f : f[d] \in Int
  BY WorthTyped DEF DepositsOn
<1>2. IsFiniteSet(DOMAIN f)
  BY DEF Filed
<1>3. Invested(a) = SumFunction(f)
  BY DEF Invested, Worth
<1> HIDE DEF f
<1> QED BY <1>1, <1>2, <1>3, SumType

LEMMA DepositAdds ==
  ASSUME BookInv, Filed, NEW d \in Deposits, deposit[d] = None, NEW r \in DepositRow,
         deposit' = [deposit EXCEPT ![d] = r], withdrawals' = withdrawals,
         r.status = "ACTIVE", NEW a \in Accounts
  PROVE  /\ IsFiniteSet(DepositsOn(a)')
         /\ Invested(a)' = Invested(a) + IF r.acct = a THEN r.principal ELSE 0
<1> DEFINE f == [x \in DepositsOn(a) |-> Worth(x)]
           g == [x \in DepositsOn(a)' |-> Worth(x)']
<1>0. Invested(a) = SumFunction(f) /\ Invested(a)' = SumFunction(g)
  BY DEF Invested, Worth
<1>1. r # None /\ deposit'[d] = r /\ \A x \in Deposits \ {d} : deposit'[x] = deposit[x]
  BY NoneAssumption DEF BookInv, TablesTyped
<1>2. DepositsOn(a)' = DepositsOn(a) \cup (IF r.acct = a THEN {d} ELSE {})
  BY <1>1 DEF DepositsOn
<1>3. d \notin DepositsOn(a) /\ IsFiniteSet(DepositsOn(a))
  BY DEF DepositsOn, Filed
<1>4. \A x \in DepositsOn(a) : Worth(x)' = Worth(x) /\ Worth(x) \in Int
  BY <1>1, <1>3, WorthTyped DEF Worth, Booked, Returned, DepositsOn
<1>5. Worth(d)' = r.principal /\ r.principal \in Int
  <2> DEFINE none == [i \in DOMAIN <<>> |-> netPayable(<<>>[i])]
  <2>1. withdrawals'[d] = <<>>
    BY DEF Filed
  <2>2. DOMAIN none = {}
    OBVIOUS
  <2>3. SumFunction(<<>>) = 0
    BY SumOfNone
  <2>4. SumFunction(none) = 0
    <3> HIDE DEF none
    <3> QED BY <2>2, SumOfNone
  <2>5. r.principal \in Nat
    BY DEF DepositRow
  <2> QED BY <1>1, <2>1, <2>3, <2>4, <2>5 DEF Worth, Booked, Returned
<1>6. CASE r.acct = a
  <2>1. DOMAIN g = DOMAIN f \cup {d} /\ g[d] = r.principal
        /\ \A x \in DOMAIN f : g[x] = f[x] /\ f[x] \in Int
    BY <1>2, <1>4, <1>5, <1>6
  <2>2. IsFiniteSet(DOMAIN f) /\ d \notin DOMAIN f
    BY <1>3
  <2> HIDE DEF f, g
  <2>3. SumFunction(g) = SumFunction(f) + r.principal
    BY <1>5, <2>1, <2>2, SumOneMore
  <2> QED BY <1>0, <1>2, <1>3, <1>6, <2>3, FS_AddElement
<1>7. CASE r.acct # a
  <2>1. DepositsOn(a)' = DepositsOn(a)
    BY <1>2, <1>7
  <2>2. f = g
    BY <1>4, <2>1
  <2> QED BY <1>0, <1>3, <1>7, <2>1, <2>2, InvestedTyped
<1> QED BY <1>6, <1>7

(* A deposit of the same account, that is worth k less.                    *)
LEMMA DepositMoves ==
  ASSUME BookInv, Filed, NEW d \in Deposits, deposit[d] # None, NEW r \in DepositRow,
         deposit' = [deposit EXCEPT ![d] = r], r.acct = deposit[d].acct,
         \A x \in Deposits \ {d} : withdrawals'[x] = withdrawals[x],
         NEW k \in Int, Worth(d)' = Worth(d) - k,
         NEW a \in Accounts
  PROVE  /\ IsFiniteSet(DepositsOn(a)')
         /\ Invested(a)' = Invested(a) - IF r.acct = a THEN k ELSE 0
<1> DEFINE f == [x \in DepositsOn(a) |-> Worth(x)]
           g == [x \in DepositsOn(a)' |-> Worth(x)']
<1>0. Invested(a) = SumFunction(f) /\ Invested(a)' = SumFunction(g)
  BY DEF Invested, Worth
<1>1. r # None /\ deposit'[d] = r /\ \A x \in Deposits \ {d} : deposit'[x] = deposit[x]
  BY NoneAssumption DEF BookInv, TablesTyped
<1>2. DepositsOn(a)' = DepositsOn(a) /\ IsFiniteSet(DepositsOn(a))
  <2>1. ASSUME NEW x \in Deposits
        PROVE  deposit'[x] # None /\ deposit'[x].acct = a
                 <=> deposit[x] # None /\ deposit[x].acct = a
    <3>1. CASE x = d
      BY <1>1, <3>1
    <3>2. CASE x # d
      BY <1>1, <3>2
    <3> QED BY <3>1, <3>2
  <2>2. DepositsOn(a)' = DepositsOn(a)
    BY <2>1 DEF DepositsOn
  <2> QED BY <2>2 DEF Filed
<1>3. \A x \in DepositsOn(a) : Worth(x) \in Int /\ (x # d => Worth(x)' = Worth(x))
  BY <1>1, WorthTyped DEF Worth, Booked, Returned, DepositsOn
<1>4. Worth(d) \in Int
  BY WorthTyped
<1>5. Invested(a) \in Int
  BY InvestedTyped
<1>6. CASE r.acct = a
  <2>1. d \in DOMAIN f /\ DOMAIN g = DOMAIN f /\ IsFiniteSet(DOMAIN f)
    BY <1>2, <1>6 DEF DepositsOn
  <2>2. /\ \A x \in DOMAIN f : f[x] \in Int
        /\ \A x \in DOMAIN f \ {d} : g[x] = f[x]
        /\ f[d] = Worth(d) /\ g[d] = Worth(d) - k
    BY <1>2, <1>3, <2>1
  <2> HIDE DEF f, g
  <2>3. SumFunction(g) = SumFunction(f) + (g[d] - f[d])
    BY <1>4, <2>1, <2>2, SumChanged
  <2> QED BY <1>0, <1>2, <1>4, <1>5, <1>6, <2>2, <2>3
<1>7. CASE r.acct # a
  <2>1. d \notin DepositsOn(a)
    BY <1>7 DEF DepositsOn
  <2>2. f = g
    BY <1>2, <1>3, <2>1
  <2> QED BY <1>0, <1>2, <1>5, <1>7, <2>2
<1> QED BY <1>6, <1>7

-----------------------------------------------------------------------------
(* The books after each step.                                              *)

LEMMA PaidStays ==
  ASSUME payment' = payment, NEW a \in Accounts
  PROVE  Settled(a)' = Settled(a) /\ Paid(a)' = Paid(a)
BY DEF Settled, Paid

LEMMA CollectedStays ==
  ASSUME mandate' = mandate, executions' = executions, NEW a \in Accounts
  PROVE  MandatesOn(a)' = MandatesOn(a) /\ Collected(a)' = Collected(a)
BY DEF MandatesOn, Collected, Debits

LEMMA InvestedStays ==
  ASSUME deposit' = deposit, withdrawals' = withdrawals, NEW a \in Accounts
  PROVE  DepositsOn(a)' = DepositsOn(a) /\ Invested(a)' = Invested(a)
BY DEF DepositsOn, Invested, Booked, Returned

LEMMA SumsTyped ==
  ASSUME BookInv, Filed, NEW a \in Accounts
  PROVE  Paid(a) \in Int /\ Collected(a) \in Int /\ Invested(a) \in Int
         /\ balance[a] \in Int /\ Opening[a] \in Int
BY PaidTyped, CollectedTyped, InvestedTyped, AmountsAssumption DEF BookInv, TablesTyped

LEMMA BooksStay ==
  ASSUME Filed, BooksBalance, UNCHANGED <<balance, tables>>
  PROVE  Filed' /\ BooksBalance'
<1>1. UNCHANGED <<payment, mandate, executions, deposit, withdrawals>>
  BY DEF tables
<1>2. ASSUME NEW a \in Accounts
      PROVE  /\ IsFiniteSet(Settled(a)') /\ IsFiniteSet(MandatesOn(a)')
             /\ IsFiniteSet(DepositsOn(a)')
             /\ balance'[a] = Opening[a] - Paid(a)' - Collected(a)' - Invested(a)'
  BY <1>1, PaidStays, CollectedStays, InvestedStays DEF Filed, BooksBalance
<1> QED BY <1>1, <1>2 DEF Filed, BooksBalance

LEMMA PayWriteBooks ==
  ASSUME BookInv, Filed, BooksBalance, NEW p \in Requests, PayWrite(p)
  PROVE  Filed' /\ BooksBalance'
<1> DEFINE a == want[p].acct  n == want[p].amt  t == want[p].item
           r == [acct |-> a, amount |-> n,
                 status |-> IF seen[p] < n THEN "FAILURE" ELSE "SUCCESS"]
<1>1. CASE GiveUp(p)
  BY <1>1, BooksStay DEF GiveUp
<1>2. CASE ~GiveUp(p)
  <2>1. /\ pc[p] = "payWrite" /\ payment[t] = None
        /\ payment' = [payment EXCEPT ![t] = r]
        /\ IF seen[p] < n THEN UNCHANGED balance ELSE Debit(a, n)
        /\ UNCHANGED <<mandate, executions, deposit, withdrawals>>
    BY <1>2 DEF PayWrite, InsertPayment
  <2>2. /\ t \in Txns /\ a \in Accounts /\ n \in Amounts /\ n \in Nat
        /\ seen[p] = balance[a] /\ balance \in [Accounts -> Nat]
    BY <2>1, AmountsAssumption DEF BookInv, TablesTyped, Fits, WishFits, BalanceFits
  <2>3. /\ r \in PaymentRow /\ r.acct = a /\ r.amount = n
        /\ r.status = "SUCCESS" <=> ~(seen[p] < n)
    BY <2>2 DEF PaymentRow
  <2> HIDE DEF r
  <2>4. ASSUME NEW b \in Accounts
        PROVE  /\ IsFiniteSet(Settled(b)') /\ IsFiniteSet(MandatesOn(b)')
               /\ IsFiniteSet(DepositsOn(b)')
               /\ balance'[b] = Opening[b] - Paid(b)' - Collected(b)' - Invested(b)'
    <3>1. /\ IsFiniteSet(Settled(b)')
          /\ Paid(b)' = Paid(b) + IF r.acct = b /\ r.status = "SUCCESS" THEN r.amount ELSE 0
      BY <2>1, <2>2, <2>3, PaymentAdds
    <3>2. /\ Collected(b)' = Collected(b) /\ Invested(b)' = Invested(b)
          /\ IsFiniteSet(MandatesOn(b)') /\ IsFiniteSet(DepositsOn(b)')
      BY <2>1, CollectedStays, InvestedStays DEF Filed
    <3>3. balance'[b] = balance[b] - IF r.acct = b /\ r.status = "SUCCESS" THEN r.amount ELSE 0
      BY <2>1, <2>2, <2>3 DEF Debit
    <3>4. balance[b] = Opening[b] - Paid(b) - Collected(b) - Invested(b)
      BY DEF BooksBalance
    <3>5. (IF r.acct = b /\ r.status = "SUCCESS" THEN r.amount ELSE 0) \in Int
      BY <2>2, <2>3
    <3> QED BY <3>1, <3>2, <3>3, <3>4, <3>5, SumsTyped
  <2> QED BY <2>1, <2>4 DEF Filed, BooksBalance
<1> QED BY <1>1, <1>2

LEMMA InsertMandateBooks ==
  ASSUME BookInv, Filed, BooksBalance, NEW p \in Requests, InsertMandate(p)
  PROVE  Filed' /\ BooksBalance'
<1>1. CASE GiveUp(p)
  BY <1>1, BooksStay DEF GiveUp
<1>2. CASE ~GiveUp(p)
  <2>0. PICK m \in Mandates : m = want[p].item
    BY <1>2 DEF InsertMandate, BookInv, Fits, WishFits
  <2>1. PICK t \in Terms :
          mandate' = [mandate EXCEPT ![m] =
              [acct |-> want[p].acct, amount |-> t.amount, cycle |-> t.cycle,
               next |-> t.start, start |-> t.start, end |-> t.end,
               status |-> "ACTIVE"]]
    BY <1>2, <2>0 DEF InsertMandate
  <2> DEFINE r == [acct |-> want[p].acct, amount |-> t.amount, cycle |-> t.cycle,
                   next |-> t.start, start |-> t.start, end |-> t.end,
                   status |-> "ACTIVE"]
  <2>2. /\ pc[p] = "insert" /\ mandate[m] = None
        /\ UNCHANGED <<balance, payment, executions, deposit, withdrawals>>
    BY <1>2, <2>0 DEF InsertMandate
  <2>3. r \in MandateRow
    <3>1. want[p].acct \in Accounts
      BY <2>2 DEF BookInv, Fits, WishFits
    <3>2. t \in [amount : Nat \ {0}, cycle : Nat \ {0}, start : Date, end : Date \cup {None}]
      BY AmountsAssumption
    <3> QED BY <3>1, <3>2 DEF MandateRow, Statuses
  <2>4. mandate' = [mandate EXCEPT ![m] = r]
    BY <2>1
  <2> HIDE DEF r
  <2>5. ASSUME NEW b \in Accounts
        PROVE  /\ IsFiniteSet(Settled(b)') /\ IsFiniteSet(MandatesOn(b)')
               /\ IsFiniteSet(DepositsOn(b)')
               /\ balance'[b] = Opening[b] - Paid(b)' - Collected(b)' - Invested(b)'
    <3>1. IsFiniteSet(MandatesOn(b)') /\ Collected(b)' = Collected(b)
      BY <2>2, <2>3, <2>4, MandateAdds
    <3> QED BY <2>2, <3>1, PaidStays, InvestedStays DEF Filed, BooksBalance
  <2> QED BY <2>2, <2>5 DEF Filed, BooksBalance
<1> QED BY <1>1, <1>2

LEMMA ActWriteBooks ==
  ASSUME BookInv, Filed, BooksBalance, NEW p \in Requests, ActWrite(p)
  PROVE  Filed' /\ BooksBalance'
<1>0. PICK m \in Mandates : m = want[p].item
  BY DEF ActWrite, BookInv, Fits, WishFits
<1> DEFINE s == mandateTransitions[want[p].acct][row[p].status]
           r == [mandate[m] EXCEPT !.status = s]
<1>1. /\ pc[p] = "actWrite" /\ mandate' = [mandate EXCEPT ![m] = r]
      /\ UNCHANGED <<balance, payment, executions, deposit, withdrawals>>
  BY <1>0 DEF ActWrite
<1>2. /\ mandate[m] # None /\ mandate[m] \in MandateRow
      /\ want[p].acct \in Acts /\ row[p].status \in DOMAIN mandateTransitions[want[p].acct]
  BY <1>0, <1>1 DEF BookInv, TablesTyped, Fits, WishFits, MandateFits
<1>3. s \in Statuses
  BY <1>2, Transitions
<1> HIDE DEF s
<1>4. r \in MandateRow /\ r.acct = mandate[m].acct /\ r.amount = mandate[m].amount
  BY <1>2, <1>3 DEF MandateRow
<1> HIDE DEF r
<1>5. Cardinality(Debits(m))' = Cardinality(Debits(m)) + 0
  BY <1>1, DebitsCounted DEF Debits
<1>6. ASSUME NEW b \in Accounts
      PROVE  /\ IsFiniteSet(Settled(b)') /\ IsFiniteSet(MandatesOn(b)')
             /\ IsFiniteSet(DepositsOn(b)')
             /\ balance'[b] = Opening[b] - Paid(b)' - Collected(b)' - Invested(b)'
  <2>1. /\ IsFiniteSet(MandatesOn(b)')
        /\ Collected(b)' = Collected(b) + IF r.acct = b /\ 0 = 1 THEN r.amount ELSE 0
    <3>1. /\ \A x \in Mandates \ {m} : executions'[x] = executions[x]
          /\ 0 \in {0, 1}
      BY <1>1
    <3> QED BY <1>1, <1>2, <1>4, <1>5, <3>1, MandateMoves
  <2>2. Collected(b)' = Collected(b)
    BY <2>1, SumsTyped
  <2> QED BY <1>1, <2>1, <2>2, PaidStays, InvestedStays DEF Filed, BooksBalance
<1> QED BY <1>1, <1>6 DEF Filed, BooksBalance

LEMMA OneMoreDebit ==
  ASSUME BookInv, NEW m \in Mandates, NEW e \in Execution,
         executions'[m] = Append(executions[m], e)
  PROVE  Cardinality(Debits(m))' =
           Cardinality(Debits(m)) + IF e.status = "SUCCESS" THEN 1 ELSE 0
<1> DEFINE n == Len(executions[m]) + 1
<1>1. executions[m] \in Seq(Execution)
  BY DEF BookInv, TablesTyped
<1>2. Debits(m)' = Debits(m) \cup (IF e.status = "SUCCESS" THEN {n} ELSE {})
  BY <1>1 DEF Debits
<1>3. n \notin Debits(m)
  BY <1>1 DEF Debits
<1> HIDE DEF n
<1>4. IsFiniteSet(Debits(m)) /\ Cardinality(Debits(m)) \in Nat
  BY DebitsCounted
<1>5. CASE e.status = "SUCCESS"
  <2>1. Debits(m)' = Debits(m) \cup {n}
    BY <1>2, <1>5
  <2> QED BY <1>3, <1>4, <1>5, <2>1, FS_AddElement
<1>6. CASE e.status # "SUCCESS"
  <2>1. Debits(m)' = Debits(m)
    BY <1>2, <1>6
  <2> QED BY <1>4, <1>6, <2>1
<1> QED BY <1>5, <1>6

LEMMA AdvancedTerms ==
  ASSUME NEW r \in MandateRow
  PROVE  Advanced(r).acct = r.acct /\ Advanced(r).amount = r.amount
BY DEF Advanced, MandateRow

LEMMA CycleWriteBooks ==
  ASSUME BookInv, TermsInv, Filed, BooksBalance, NEW p \in Requests, CycleWrite(p)
  PROVE  Filed' /\ BooksBalance'
<1>0. PICK m \in Mandates : m = want[p].item
  BY DEF CycleWrite, BookInv, Fits, WishFits
<1> DEFINE n == want[p].amt  a == want[p].acct  ok == seen[p] >= n
           e == [date |-> row[p].next, status |-> IF ok THEN "SUCCESS" ELSE "FAILED"]
           k == IF e.status = "SUCCESS" THEN 1 ELSE 0
           r == Advanced(mandate[m])
<1>1. /\ pc[p] = "cycleWrite"
      /\ IF ok THEN Debit(a, n) ELSE UNCHANGED balance
      /\ executions' = [executions EXCEPT ![m] = Append(@, e)]
      /\ mandate' = [mandate EXCEPT ![m] = Advanced(row[p])]
      /\ UNCHANGED <<payment, deposit, withdrawals>>
  BY <1>0 DEF CycleWrite
<1>2. /\ MemoryTyped /\ TablesTyped /\ Fits(p) /\ TermsFit(p) /\ n \in Nat
      /\ balance \in [Accounts -> Nat]
  BY DEF BookInv, TermsInv, MemoryTyped, Wish, TablesTyped
<1>3. /\ a \in Accounts /\ mandate[m] # None /\ row[p] = mandate[m]
      /\ seen[p] = balance[a]
  BY <1>0, <1>1, <1>2 DEF Fits, WishFits, MandateFits, BalanceFits
<1>4. mandate[m] \in MandateRow /\ executions[m] \in Seq(Execution)
  BY <1>2, <1>3 DEF TablesTyped
<1>5. a = mandate[m].acct /\ n = mandate[m].amount
  BY <1>1, <1>2, <1>3 DEF TermsFit
<1>6. e \in Execution /\ (e.status = "SUCCESS" <=> ok)
  BY <1>3, <1>4 DEF Execution, MandateRow
<1>7. r \in MandateRow /\ r.acct = a /\ r.amount = n /\ mandate' = [mandate EXCEPT ![m] = r]
  BY <1>1, <1>3, <1>4, <1>5, AdvancedRow, AdvancedTerms
<1> HIDE DEF e, r
<1>8. /\ \A x \in Mandates \ {m} : executions'[x] = executions[x]
      /\ executions'[m] = Append(executions[m], e)
  BY <1>1, <1>2 DEF TablesTyped
<1>9. Cardinality(Debits(m))' = Cardinality(Debits(m)) + k
  BY <1>6, <1>8, OneMoreDebit
<1>10. k \in {0, 1} /\ (k = 1 <=> ok)
  BY <1>6
<1> HIDE DEF k
<1>11. ASSUME NEW b \in Accounts
       PROVE  /\ IsFiniteSet(Settled(b)') /\ IsFiniteSet(MandatesOn(b)')
              /\ IsFiniteSet(DepositsOn(b)')
              /\ balance'[b] = Opening[b] - Paid(b)' - Collected(b)' - Invested(b)'
  <2> DEFINE debit == IF r.acct = b /\ k = 1 THEN r.amount ELSE 0
  <2>1. IsFiniteSet(MandatesOn(b)') /\ Collected(b)' = Collected(b) + debit
    BY <1>3, <1>5, <1>7, <1>8, <1>9, <1>10, MandateMoves
  <2>2. balance'[b] = balance[b] - debit
    BY <1>1, <1>2, <1>3, <1>7, <1>10 DEF Debit
  <2>3. /\ Paid(b)' = Paid(b) /\ Invested(b)' = Invested(b)
        /\ IsFiniteSet(Settled(b)') /\ IsFiniteSet(DepositsOn(b)')
    BY <1>1, PaidStays, InvestedStays DEF Filed
  <2>4. balance[b] = Opening[b] - Paid(b) - Collected(b) - Invested(b)
    BY DEF BooksBalance
  <2>5. debit \in Int
    BY <1>2, <1>7
  <2> HIDE DEF debit
  <2> QED BY <2>1, <2>2, <2>3, <2>4, <2>5, SumsTyped
<1> QED BY <1>1, <1>11 DEF Filed, BooksBalance

LEMMA FdWriteBooks ==
  ASSUME BookInv, Filed, BooksBalance, NEW p \in Requests, FdWrite(p)
  PROVE  Filed' /\ BooksBalance'
<1> DEFINE a == want[p].acct  n == want[p].amt  d == want[p].item
           r == [acct |-> a, principal |-> n, status |-> "ACTIVE"]
<1>1. CASE GiveUp(p)
  BY <1>1, BooksStay DEF GiveUp
<1>2. CASE ~GiveUp(p)
  <2>1. /\ pc[p] = "fdWrite" /\ Debit(a, n) /\ deposit[d] = None
        /\ deposit' = [deposit EXCEPT ![d] = r]
        /\ UNCHANGED <<payment, mandate, executions, withdrawals>>
    BY <1>2 DEF FdWrite
  <2>2. d \in Deposits /\ a \in Accounts /\ n \in Nat /\ balance \in [Accounts -> Nat]
    BY <2>1 DEF BookInv, TablesTyped, MemoryTyped, Wish, Fits, WishFits
  <2>3. r \in DepositRow /\ r.status = "ACTIVE" /\ r.acct = a /\ r.principal = n
    BY <2>2 DEF DepositRow
  <2> HIDE DEF r
  <2>4. ASSUME NEW b \in Accounts
        PROVE  /\ IsFiniteSet(Settled(b)') /\ IsFiniteSet(MandatesOn(b)')
               /\ IsFiniteSet(DepositsOn(b)')
               /\ balance'[b] = Opening[b] - Paid(b)' - Collected(b)' - Invested(b)'
    <3> DEFINE put == IF r.acct = b THEN r.principal ELSE 0
    <3>1. IsFiniteSet(DepositsOn(b)') /\ Invested(b)' = Invested(b) + put
      BY <2>1, <2>2, <2>3, DepositAdds
    <3>2. balance'[b] = balance[b] - put
      BY <2>1, <2>2, <2>3 DEF Debit
    <3>3. /\ Paid(b)' = Paid(b) /\ Collected(b)' = Collected(b)
          /\ IsFiniteSet(Settled(b)') /\ IsFiniteSet(MandatesOn(b)')
      BY <2>1, PaidStays, CollectedStays DEF Filed
    <3>4. balance[b] = Opening[b] - Paid(b) - Collected(b) - Invested(b)
      BY DEF BooksBalance
    <3>5. put \in Int
      BY <2>2, <2>3
    <3> HIDE DEF put
    <3> QED BY <3>1, <3>2, <3>3, <3>4, <3>5, SumsTyped
  <2>5. \A x \in Deposits : deposit'[x] = None => withdrawals'[x] = <<>>
    BY <2>1, <2>2 DEF Filed, BookInv, TablesTyped
  <2> QED BY <2>1, <2>4, <2>5 DEF Filed, BooksBalance
<1> QED BY <1>1, <1>2

LEMMA WdCreditBooks ==
  ASSUME BookInv, TermsInv, Filed, BooksBalance, NEW p \in Requests, WdCredit(p)
  PROVE  Filed' /\ BooksBalance'
<1>0. PICK d \in Deposits : d = want[p].item
  BY DEF WdCredit, BookInv, Fits, WishFits
<1> DEFINE a == want[p].acct  r == row[p]
           w == IF want[p].amt = 0 THEN r.principal ELSE want[p].amt
           s == IF w = r.principal THEN [r EXCEPT !.status = "PREMATURE_CLOSED"]
                ELSE [r EXCEPT !.principal = @ - w]
           net == netPayable(w)
<1>1. /\ pc[p] = "wdCredit"
      /\ balance' = [balance EXCEPT ![a] = @ + net]
      /\ deposit' = [deposit EXCEPT ![d] = s]
      /\ withdrawals' = [withdrawals EXCEPT ![d] = Append(@, w)]
      /\ UNCHANGED <<payment, mandate, executions>>
  BY <1>0 DEF WdCredit
<1>2. /\ MemoryTyped /\ TablesTyped /\ Fits(p) /\ TermsFit(p) /\ want[p].amt \in Nat
      /\ balance \in [Accounts -> Nat]
  BY DEF BookInv, TermsInv, MemoryTyped, Wish, TablesTyped
<1>3. d \in Deposits /\ a \in Accounts /\ r \in DepositRow /\ want[p].amt <= r.principal
  BY <1>0, <1>1, <1>2 DEF Fits, WishFits, DepositFits
<1>4. r = deposit[d] /\ r.status = "ACTIVE" /\ a = r.acct /\ deposit[d] # None
  BY <1>0, <1>1, <1>2 DEF TermsFit, Fits, WishFits
<1>5. w \in Nat /\ w <= r.principal /\ r.principal \in Nat
  BY <1>2, <1>3 DEF DepositRow
<1> HIDE DEF w
<1>6. net \in Nat /\ net \in Int
  BY <1>5, NetIsPositive
<1> HIDE DEF net
<1>7. /\ s \in DepositRow /\ s.acct = a
      /\ r.principal = w + IF s.status = "ACTIVE" THEN s.principal ELSE 0
  <2>1. CASE w = r.principal
    BY <1>3, <1>4, <1>5, <2>1 DEF DepositRow
  <2>2. CASE w # r.principal
    BY <1>3, <1>4, <1>5, <2>2 DEF DepositRow
  <2> QED BY <2>1, <2>2
<1> HIDE DEF s
<1>8. /\ withdrawals[d] \in Seq(Nat) /\ withdrawals'[d] = Append(withdrawals[d], w)
      /\ withdrawals' \in [Deposits -> Seq(Nat)]
      /\ \A x \in Deposits \ {d} : withdrawals'[x] = withdrawals[x]
  BY <1>1, <1>3, <1>5 DEF Filed
<1>9. deposit'[d] = s /\ s # None /\ \A x \in Deposits \ {d} : deposit'[x] = deposit[x]
  BY <1>1, <1>2, <1>3, <1>7, NoneAssumption DEF TablesTyped
<1>10. Worth(d)' = Worth(d) - net
  <2> DEFINE rest == IF s.status = "ACTIVE" THEN s.principal ELSE 0
             S == SumFunction(withdrawals[d])
             N == SumFunction([i \in DOMAIN withdrawals[d] |-> netPayable(withdrawals[d][i])])
  <2>1. S \in Int /\ N \in Int
    BY <1>8, WithdrawalsTyped
  <2>2. rest \in Int /\ r.principal = w + rest
    BY <1>7 DEF DepositRow
  <2>3. Worth(d) = (S + r.principal) - N
    BY <1>4 DEF Worth, Booked, Returned
  <2>4. /\ SumFunction(withdrawals'[d]) = S + w
        /\ SumFunction([i \in DOMAIN withdrawals'[d] |-> netPayable(withdrawals'[d][i])])
             = N + net
    BY <1>5, <1>8, OneMoreWithdrawal DEF net
  <2>5. Worth(d)' = (S + w + rest) - (N + net)
    <3>1. Booked(d)' = SumFunction(withdrawals'[d]) + rest
      BY <1>9 DEF Booked
    <3>2. Returned(d)' =
            SumFunction([i \in DOMAIN withdrawals'[d] |-> netPayable(withdrawals'[d][i])])
      BY DEF Returned
    <3>3. Worth(d)' = Booked(d)' - Returned(d)'
      BY DEF Worth
    <3> HIDE DEF S, N, rest
    <3> QED BY <2>4, <3>1, <3>2, <3>3
  <2> HIDE DEF S, N, rest
  <2> QED BY <1>5, <1>6, <2>1, <2>2, <2>3, <2>5
<1>11. ASSUME NEW b \in Accounts
       PROVE  /\ IsFiniteSet(Settled(b)') /\ IsFiniteSet(MandatesOn(b)')
              /\ IsFiniteSet(DepositsOn(b)')
              /\ balance'[b] = Opening[b] - Paid(b)' - Collected(b)' - Invested(b)'
  <2> DEFINE back == IF s.acct = b THEN net ELSE 0
  <2>1. IsFiniteSet(DepositsOn(b)') /\ Invested(b)' = Invested(b) - back
    <3>1. deposit' = [deposit EXCEPT ![d] = s] /\ s.acct = deposit[d].acct
      BY <1>1, <1>4, <1>7
    <3>2. \A x \in Deposits \ {d} : withdrawals'[x] = withdrawals[x]
      BY <1>8
    <3> QED BY <1>3, <1>4, <1>6, <1>7, <1>10, <3>1, <3>2, DepositMoves
  <2>2. balance'[b] = balance[b] + back
    BY <1>1, <1>2, <1>3, <1>6, <1>7
  <2>3. /\ Paid(b)' = Paid(b) /\ Collected(b)' = Collected(b)
        /\ IsFiniteSet(Settled(b)') /\ IsFiniteSet(MandatesOn(b)')
    BY <1>1, PaidStays, CollectedStays DEF Filed
  <2>4. balance[b] = Opening[b] - Paid(b) - Collected(b) - Invested(b)
    BY DEF BooksBalance
  <2>5. back \in Int
    BY <1>6
  <2> HIDE DEF back
  <2> QED BY <2>1, <2>2, <2>3, <2>4, <2>5, SumsTyped
<1>12. \A x \in Deposits : deposit'[x] = None => withdrawals'[x] = <<>>
  BY <1>8, <1>9 DEF Filed
<1> QED BY <1>8, <1>11, <1>12 DEF Filed, BooksBalance

LEMMA BooksNext == ASSUME BookInv, BooksInv, [Next]_vars PROVE BooksInv'
<1>1. TermsInv /\ Filed /\ BooksBalance
  BY DEF BooksInv
<1>2. ASSUME NEW p \in Requests, Start(p) \/ Advance(p) \/ Fail(p)
      PROVE  Filed' /\ BooksBalance'
  <2>1. CASE \/ PayWrite(p) \/ InsertMandate(p) \/ ActWrite(p) \/ CycleWrite(p)
             \/ FdWrite(p) \/ WdCredit(p)
    BY <1>1, <2>1, PayWriteBooks, InsertMandateBooks, ActWriteBooks, CycleWriteBooks,
       FdWriteBooks, WdCreditBooks
  <2>2. CASE ~ \/ PayWrite(p) \/ InsertMandate(p) \/ ActWrite(p) \/ CycleWrite(p)
               \/ FdWrite(p) \/ WdCredit(p)
    <3>1. CASE Start(p)
      <4>1. UNCHANGED <<balance, tables>>
        BY <3>1 DEF Start, Pay, CreateMandate, MandateAction, ListDue, OpenFD, Withdraw,
                    UnlinkAccount
      <4> QED BY <1>1, <4>1, BooksStay
    <3>2. CASE Fail(p)
      BY <1>1, <3>2, BooksStay DEF Fail, GiveUp
    <3>3. CASE Advance(p)
      <4>1. UNCHANGED <<balance, tables>>
        BY <2>2, <3>3 DEF Advance, PayResolve, PayLock, InsertBegins, ActLock, BeginCycle,
           CycleLock, CycleDebit, FdResolve, FdLock, WdLock, Unlink, LockAccount, GiveUp
      <4> QED BY <1>1, <4>1, BooksStay
    <3> QED BY <1>2, <3>1, <3>2, <3>3
  <2> QED BY <2>1, <2>2
<1>3. CASE NextDay \/ UNCHANGED vars
  <2>1. UNCHANGED <<balance, tables>>
    BY <1>3 DEF NextDay, vars
  <2> QED BY <1>1, <2>1, BooksStay, TermsNext DEF BooksInv
<1>4. CASE \E p \in Requests : Start(p) \/ Advance(p) \/ Fail(p)
  BY <1>1, <1>2, <1>4, TermsNext DEF BooksInv
<1> QED BY <1>3, <1>4 DEF Next

LEMMA BooksInit == ASSUME Init PROVE BooksInv
<1>1. TermsInv
  BY DEF Init, TermsInv, TermsFit
<1>2. ASSUME NEW a \in Accounts
      PROVE  Settled(a) = {} /\ MandatesOn(a) = {} /\ DepositsOn(a) = {}
  BY DEF Init, Settled, MandatesOn, DepositsOn
<1>3. Filed
  <2>1. withdrawals \in [Deposits -> Seq(Nat)]
    BY DEF Init
  <2>2. \A d \in Deposits : withdrawals[d] = <<>>
    BY DEF Init
  <2>3. \A a \in Accounts : /\ IsFiniteSet(Settled(a)) /\ IsFiniteSet(MandatesOn(a))
                            /\ IsFiniteSet(DepositsOn(a))
    BY <1>2, FS_EmptySet
  <2> QED BY <2>1, <2>2, <2>3 DEF Filed
<1>4. ASSUME NEW a \in Accounts
      PROVE  Paid(a) = 0 /\ Collected(a) = 0 /\ Invested(a) = 0
  <2> DEFINE f == [t \in Settled(a) |-> payment[t].amount]
             g == [m \in MandatesOn(a) |-> mandate[m].amount * Cardinality(Debits(m))]
             h == [d \in DepositsOn(a) |-> Booked(d) - Returned(d)]
  <2>1. DOMAIN f = {} /\ DOMAIN g = {} /\ DOMAIN h = {}
    BY <1>2
  <2>2. Paid(a) = SumFunction(f) /\ Collected(a) = SumFunction(g)
        /\ Invested(a) = SumFunction(h)
    BY DEF Paid, Collected, Invested
  <2> HIDE DEF f, g, h
  <2> QED BY <2>1, <2>2, SumOfNone
<1>5. ASSUME NEW a \in Accounts PROVE balance[a] = Opening[a] /\ Opening[a] \in Int
  BY AmountsAssumption DEF Init
<1>6. BooksBalance
  BY <1>4, <1>5 DEF BooksBalance
<1> QED BY <1>1, <1>3, <1>6 DEF BooksInv

(* Money is conserved: what is missing from an account is what its settled *)
(* payments, its executed cycles and its deposits, less what was paid back *)
(* of them, account for, however requests race or fail half way.           *)
THEOREM MoneyIsConserved == Spec => []BooksBalance
<1>1. Init => BooksInv
  BY BooksInit
<1>2. BookInv /\ BooksInv /\ [Next]_vars => BooksInv'
  BY BooksNext
<1>3. BooksInv => BooksBalance
  BY DEF BooksInv
<1> QED BY <1>1, <1>2, <1>3, BookInvAlways, PTL DEF Spec
=============================================================================
