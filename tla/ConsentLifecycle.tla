-------------------------- MODULE ConsentLifecycle --------------------------
(***************************************************************************)
(* Account-aggregator consents: internal/service/idbiaa/service.go over    *)
(* internal/repository/idbi_aa_repo.go and its queries, with the webhook   *)
(* goroutines of internal/handler/aa_handler.go.                           *)
(*                                                                         *)
(* The gateway owns the truth about a consent.  The server stores a copy in *)
(* two tables, written by two transactions: the consent's row (status and  *)
(* consent id) and the accounts linked under it.  Four kinds of caller     *)
(* write them: the request that creates a consent, a browser coming back   *)
(* from the approval page, a webhook (497) processed by a goroutine of its *)
(* own after the acknowledgement, and a refresh, which asks the gateway    *)
(* (591) and stores the answer later.  Nothing locks a consent across the  *)
(* gateway call, so what a refresh stores may be older than what it        *)
(* overwrites, and webhooks arrive late, twice, out of order or never.     *)
(*                                                                         *)
(* Abstracted: the owner of a handle (each handle has one, and a stranger  *)
(* is refused), times, the redirection URL, and the names of accounts; an  *)
(* account stands for its link reference.  A 591 answer names a status     *)
(* (one without is replaced by the status read before the call) and one    *)
(* that omits the handle is about the only consent of that customer.       *)
(***************************************************************************)
EXTENDS Naturals, FiniteSets

CONSTANTS
    Handles,      \* consent handles the gateway may issue
    Accts,        \* accounts that may be linked
    Grants,       \* bound: sets of accounts a customer may grant
    Procs,        \* requests and webhook goroutines running at once
    None,         \* no row stored
    MaxMoves      \* bound: changes, notices and redeliveries of the gateway,
                  \* second requests, declines and failed calls

ASSUME ConsentAssumption ==
    Handles # {} /\ MaxMoves \in Nat /\ Grants \subseteq SUBSET Accts

VARIABLES
    gw,           \* external: what the gateway holds about a handle
    wire,         \* external: webhooks not delivered yet
    moves,        \* external: moves of the gateway so far
    row,          \* idbi_aa_consents
    linked,       \* idbi_aa_linked_accounts
    landed,       \* handles with statements in spend_transactions, source 'aa'
    pc, on, ans,  \* per caller: next step, handle, gateway's answer
    doomed,       \* per caller: links its DELETE picked
    calm          \* history: callers nobody disturbed since they asked

outside == <<gw, wire, moves>>
memory == <<on, ans, doomed>>
vars == <<outside, row, linked, landed, pc, memory, calm>>

-----------------------------------------------------------------------------
Statuses == {"PENDING", "ACTIVE", "REJECTED", "REVOKED", "EXPIRED", "PAUSED"}
Truth == [status: Statuses \cup {"NONE"}, cid: BOOLEAN, accts: SUBSET Accts]
Row == [status: Statuses, cid: BOOLEAN]
ASSUME NoneAssumption == None \notin Row
Steps == {"idle", "create", "ask", "stamp", "link", "scan", "prune", "fetch"}

Unissued == [status |-> "NONE", cid |-> FALSE, accts |-> {}]

(* Webhooks: 497 with an event, 498 when statements are ready. *)
Events == Statuses \cup {"OTHER"}
ConsentHook(h, e) == [kind |-> "consent", handle |-> h, event |-> e]
DataHook(h) == [kind |-> "data", handle |-> h, event |-> "DATA_READY"]
Hooks == {ConsentHook(h, e) : h \in Handles, e \in Events} \cup
         {DataHook(h) : h \in Handles}

TypeOK ==
    /\ gw \in [Handles -> Truth]
    /\ wire \subseteq Hooks
    /\ moves \in 0..MaxMoves
    /\ row \in [Handles -> Row \cup {None}]
    /\ linked \in [Handles -> SUBSET Accts]
    /\ landed \subseteq Handles
    /\ pc \in [Procs -> Steps]
    /\ on \in [Procs -> Handles]
    /\ ans \in [Procs -> Truth]
    /\ doomed \in [Procs -> SUBSET Accts]
    /\ calm \subseteq Procs

Init ==
    /\ gw = [h \in Handles |-> Unissued]
    /\ wire = {}
    /\ moves = 0
    /\ row = [h \in Handles |-> None]
    /\ linked = [h \in Handles |-> {}]
    /\ landed = {}
    /\ pc = [p \in Procs |-> "idle"]
    /\ on = [p \in Procs |-> CHOOSE h \in Handles : TRUE]
    /\ ans = [p \in Procs |-> Unissued]
    /\ doomed = [p \in Procs |-> {}]
    /\ calm = {}

(* Callers at work on h: whoever writes h, or changes it at the gateway,   *)
(* disturbs them.                                                          *)
At(h) == {p \in Procs : on[p] = h}
Go(p, step) == pc' = [pc EXCEPT ![p] = step]

(* A caller that returns forgets what it held. *)
Forget(p) ==
    /\ Go(p, "idle")
    /\ on' = [on EXCEPT ![p] = CHOOSE h \in Handles : TRUE]
    /\ ans' = [ans EXCEPT ![p] = Unissued]
    /\ doomed' = [doomed EXCEPT ![p] = {}]

-----------------------------------------------------------------------------
(* The gateway and the customer at its approval page (external).           *)

GwMove(h, truth, hooks) ==
    /\ moves < MaxMoves
    /\ moves' = moves + 1
    /\ gw' = [gw EXCEPT ![h] = truth]
    /\ wire' = wire \cup hooks
    /\ calm' = calm \ At(h)
    /\ UNCHANGED <<row, linked, landed, pc, memory>>

GwApprove(h) ==
    /\ gw[h].status = "PENDING"
    /\ \E accts \in Grants \ {{}} :
          GwMove(h, [status |-> "ACTIVE", cid |-> TRUE, accts |-> accts],
                 {ConsentHook(h, "ACTIVE"), DataHook(h)})

GwTurn(h, from, to) ==
    /\ gw[h].status \in from
    /\ GwMove(h, [gw[h] EXCEPT !.status = to], {ConsentHook(h, to)})

GwReject(h) == GwTurn(h, {"PENDING"}, "REJECTED")
GwPause(h) == GwTurn(h, {"ACTIVE"}, "PAUSED")
GwResume(h) == GwTurn(h, {"PAUSED"}, "ACTIVE")
GwEnd(h) == \E to \in {"REVOKED", "EXPIRED"} :
                GwTurn(h, {"ACTIVE", "PAUSED"}, to)

(* The customer changes which accounts an approved consent covers; or an   *)
(* event of a kind the server has no name for is sent.                     *)
GwRelink(h) ==
    /\ gw[h].status = "ACTIVE"
    /\ \E accts \in Grants \ {gw[h].accts} :
          GwMove(h, [gw[h] EXCEPT !.accts = accts], {DataHook(h)})

GwNotice(h) ==
    /\ gw[h].status # "NONE"
    /\ GwMove(h, gw[h], {ConsentHook(h, "OTHER")})

GwStep(h) == \/ GwApprove(h) \/ GwReject(h) \/ GwPause(h) \/ GwResume(h)
             \/ GwEnd(h) \/ GwRelink(h) \/ GwNotice(h)

(* A webhook is taken from the wire, or is sent again later. *)
Take(m) ==
    /\ m \in wire
    /\ \/ wire' = wire \ {m} /\ moves' = moves
       \/ wire' = wire /\ moves < MaxMoves /\ moves' = moves + 1
    /\ UNCHANGED gw

-----------------------------------------------------------------------------
(* The repository: one statement each.                                     *)

(* CreateConsent: a second insert of a handle moves a PENDING row only, and *)
(* never takes the consent id away.                                        *)
StoredOnCreate(old, status) ==
    IF old = None THEN [status |-> status, cid |-> FALSE]
    ELSE [old EXCEPT !.status = IF @ = "PENDING" THEN status ELSE @]

CreateConsent(h, status) ==
    row' = [row EXCEPT ![h] = StoredOnCreate(@, status)]

(* UpdateConsentStatus: the status is overwritten whatever it was; an empty *)
(* consent id leaves the stored one.                                       *)
IdLost(old, cid) == cid
IdKept(old, cid) == old \/ cid
UpdateUnlessSettled(h, status, cid) ==
    row' = [row EXCEPT ![h] = [status |-> IF @.status = "PENDING" THEN status
                                          ELSE @.status,
                               cid |-> IdKept(@.cid, cid)]]
UpdateConsentStatus(h, status, cid) ==
    row' = [row EXCEPT ![h] = [status |-> status, cid |-> IdKept(@.cid, cid)]]

(* ReplaceLinkedAccounts: a transaction that upserts the given accounts and *)
(* prunes the others.  The upserts wait for rows that another replacement   *)
(* of the handle has upserted; the DELETE picks the committed rows it sees  *)
(* and waits likewise.                                                      *)
HeldByOthers(p) == UNION {ans[q].accts : q \in {r \in At(on[p]) \ {p} :
                                               pc[r] \in {"scan", "prune"}}}
MayUpsert(p) == ans[p].accts \cap HeldByOthers(p) = {}
MayPrune(p) == doomed[p] \cap HeldByOthers(p) = {}

LinkedWithoutPrune(p) ==
    linked' = [linked EXCEPT ![on[p]] = @ \cup ans[p].accts]
ReplaceLinkedAccounts(p) ==
    linked' = [linked EXCEPT ![on[p]] = (@ \ doomed[p]) \cup ans[p].accts]

(* pickConsent: the entry of the customer's list with this handle. *)
List591 == {[handle |-> h, truth |-> gw[h]] :
                h \in {k \in Handles : gw[k].status # "NONE"}}
pickConsent(h) == (CHOOSE c \in List591 : c.handle = h).truth

eventAsItStands(e) == e
consentStatusFromEvent(e) == IF e \in Statuses THEN e ELSE "PENDING"

-----------------------------------------------------------------------------
(* The service, step by step: a step ends where the code waits for the     *)
(* gateway or commits.  Reading whether a row exists is part of the step   *)
(* that acts on it, since no row is ever deleted.                          *)

Request(p, h) ==
    /\ pc[p] = "idle"
    /\ gw[h].status = "NONE" \/ moves < MaxMoves
    /\ moves' = IF gw[h].status = "NONE" THEN moves ELSE moves + 1
    /\ gw' = [gw EXCEPT ![h].status = IF @ = "NONE" THEN "PENDING" ELSE @]
    /\ Go(p, "create")
    /\ on' = [on EXCEPT ![p] = h]
    /\ ans' = [ans EXCEPT ![p] = gw'[h]]
    /\ calm' = calm \ (At(h) \cup {p})
    /\ UNCHANGED <<wire, row, linked, landed, doomed>>

(* Live mode: the redirect URL (592) is fetched, the row stored, the caller *)
(* sent to the approval page.  Stub mode: the row is stored and refreshed. *)
StoreRequest(p) ==
    /\ pc[p] = "create"
    /\ CreateConsent(on[p], ans[p].status)
    /\ calm' = calm \ At(on[p])
    /\ UNCHANGED <<linked, landed, outside>>

CreateLive(p) == StoreRequest(p) /\ Forget(p)
CreateStub(p) == StoreRequest(p) /\ Go(p, "ask") /\ UNCHANGED memory

StartRefresh(p, h) ==
    /\ Go(p, "ask")
    /\ on' = [on EXCEPT ![p] = h]

Refresh(p, h) ==
    /\ pc[p] = "idle"
    /\ row[h] # None
    /\ StartRefresh(p, h)
    /\ UNCHANGED <<outside, row, linked, landed, ans, doomed, calm>>

(* The gateway's answer, kept until it is stored. *)
RefreshAsk(p) ==
    /\ pc[p] = "ask"
    /\ ans' = [ans EXCEPT ![p] = pickConsent(on[p])]
    /\ calm' = calm \cup {p}
    /\ Go(p, "stamp")
    /\ UNCHANGED <<outside, row, linked, landed, on, doomed>>

RefreshStamp(p) ==
    /\ pc[p] = "stamp"
    /\ UpdateConsentStatus(on[p], ans[p].status, ans[p].cid)
    /\ calm' = calm \ (At(on[p]) \ {p})
    /\ Go(p, "link")
    /\ UNCHANGED <<outside, linked, landed, memory>>

RefreshUpsert(p) ==
    /\ pc[p] = "link"
    /\ MayUpsert(p)
    /\ Go(p, "scan")
    /\ UNCHANGED <<outside, row, linked, landed, memory, calm>>

RefreshScan(p) ==
    /\ pc[p] = "scan"
    /\ doomed' = [doomed EXCEPT ![p] = linked[on[p]] \ ans[p].accts]
    /\ Go(p, "prune")
    /\ UNCHANGED <<outside, row, linked, landed, on, ans, calm>>

RefreshLink(p) ==
    /\ pc[p] = "prune"
    /\ MayPrune(p)
    /\ ReplaceLinkedAccounts(p)
    /\ calm' = calm \ At(on[p])
    /\ Forget(p)
    /\ UNCHANGED <<outside, row, landed>>

(* A caller fails: the gateway errs or times out, the list lacks the       *)
(* handle, the goroutine's deadline passes, or the process stops.  What it *)
(* has committed stays.                                                    *)
GiveUp(p) ==
    /\ pc[p] # "idle"
    /\ moves < MaxMoves
    /\ moves' = moves + 1
    /\ calm' = calm \ {p}
    /\ Forget(p)
    /\ UNCHANGED <<gw, wire, row, linked, landed>>

(* Two replacements that wait for each other: PostgreSQL fails one.        *)
DeadlockVictim(p) ==
    /\ pc[p] = "prune" /\ ~MayPrune(p)
    /\ \E q \in At(on[p]) \ {p} : pc[q] = "prune" /\ ~MayPrune(q)
    /\ calm' = calm \ {p}
    /\ Forget(p)
    /\ UNCHANGED <<outside, row, linked, landed>>

(* Back from the approval page: a decline is stored as it stands, an       *)
(* approval is checked by a refresh.                                       *)
CompleteRedirectDeclined(h) ==
    /\ row[h] # None
    /\ row[h].status # "REJECTED"
    /\ gw[h].status \in {"PENDING", "REJECTED"}
    /\ moves < MaxMoves
    /\ moves' = moves + 1
    /\ UpdateConsentStatus(h, "REJECTED", FALSE)
    /\ calm' = calm \ At(h)
    /\ UNCHANGED <<gw, wire, linked, landed, pc, memory>>

CompleteRedirectApproved(p, h) == gw[h].status = "ACTIVE" /\ Refresh(p, h)

(* 497: the status the event names is stored; an approval is followed by a *)
(* refresh.  An unknown handle is ignored.                                 *)
NotifyUnknown(m) ==
    /\ Take(m)
    /\ row[m.handle] = None
    /\ UNCHANGED <<row, linked, landed, pc, memory, calm>>

HandleConsentNotification(p, m) ==
    LET h == m.handle
        status == consentStatusFromEvent(m.event)
    IN  /\ m.kind = "consent"
        /\ pc[p] = "idle"
        /\ Take(m)
        /\ row[h] # None
        /\ \E cid \in {FALSE, gw[h].cid} : UpdateConsentStatus(h, status, cid)
        /\ calm' = calm \ At(h)
        /\ IF status = "ACTIVE" THEN StartRefresh(p, h) ELSE UNCHANGED <<pc, on>>
        /\ UNCHANGED <<linked, landed, ans, doomed>>

(* FetchStatements: the row and the links are read; without a consent id or *)
(* a linked account there is nothing to ask for.                           *)
Fetchable(h) == row[h] # None /\ row[h].cid /\ linked[h] # {}

StartFetch(p, h) ==
    /\ pc[p] = "idle"
    /\ Fetchable(h)
    /\ Go(p, "fetch")
    /\ on' = [on EXCEPT ![p] = h]
    /\ UNCHANGED <<row, linked, landed, ans, doomed, calm>>

FetchConsentData(p, h) == StartFetch(p, h) /\ UNCHANGED outside

HandleDataNotification(p, m) ==
    /\ m.kind = "data"
    /\ Take(m)
    /\ StartFetch(p, m.handle)

DataNotFetchable(m) ==
    /\ m.kind = "data"
    /\ row[m.handle] # None
    /\ Take(m)
    /\ ~Fetchable(m.handle)
    /\ UNCHANGED <<row, linked, landed, pc, memory, calm>>

(* The statements (595 or 739) land under source 'aa'. *)
FetchStatements(p) ==
    /\ pc[p] = "fetch"
    /\ landed' = landed \cup {on[p]}
    /\ calm' = calm \ {p}
    /\ Forget(p)
    /\ UNCHANGED <<outside, row, linked>>

-----------------------------------------------------------------------------
ProcStep(p) ==
    \/ CreateLive(p) \/ CreateStub(p)
    \/ RefreshAsk(p) \/ RefreshStamp(p) \/ RefreshUpsert(p)
    \/ RefreshScan(p) \/ RefreshLink(p)
    \/ FetchStatements(p) \/ DeadlockVictim(p)

Call(p, h) ==
    \/ Request(p, h) \/ Refresh(p, h) \/ CompleteRedirectApproved(p, h)
    \/ FetchConsentData(p, h)

Webhook(p, m) ==
    \/ HandleConsentNotification(p, m)
    \/ HandleDataNotification(p, m)

Next ==
    \/ \E h \in Handles : GwStep(h) \/ CompleteRedirectDeclined(h)
    \/ \E p \in Procs : ProcStep(p) \/ GiveUp(p) \/ \E h \in Handles : Call(p, h)
    \/ \E m \in wire :
          \/ NotifyUnknown(m) \/ DataNotFetchable(m)
          \/ \E p \in Procs : Webhook(p, m)

Spec == Init /\ [][Next]_vars

(* The app refreshes a consent it has again and again; callers go on, and  *)
(* one that waits for a row gets its turn (PostgreSQL queues them).  That  *)
(* calls fail only so often is the bound on moves.                         *)
Fairness ==
    /\ \A h \in Handles : SF_vars(\E p \in Procs : Refresh(p, h))
    /\ \A p \in Procs : SF_vars(ProcStep(p))

FairSpec == Spec /\ Fairness

-----------------------------------------------------------------------------
Agrees(h) ==
    row[h] # None => /\ row[h].status = gw[h].status
                     /\ linked[h] = gw[h].accts

(* Whoever sees a linked account can fetch it, and what was fetched can be *)
(* fetched again: the consent id is stored before the links, by another    *)
(* transaction, and no later write of the row (a webhook without an id, a  *)
(* second request) takes it away.                                          *)
LinkedIsIdentified ==
    \A h \in Handles : linked[h] # {} \/ h \in landed =>
                           row[h] # None /\ row[h].cid

(* A refresh that ran undisturbed recovers the consent: when it returns,   *)
(* status and links are the gateway's, whatever webhooks were lost, late   *)
(* or repeated before it (aa_handler.go: "the app can always recover state *)
(* via POST /consents/{handle}/refresh").                                  *)
RefreshTells ==
    [][\A p \in Procs :
          (RefreshLink(p) /\ p \in calm) =>
             /\ row'[on[p]].status = gw'[on[p]].status
             /\ linked'[on[p]] = gw'[on[p]].accts]_vars

(* Once the gateway and its webhooks are quiet, refreshes that go on being *)
(* made bring every stored consent to the gateway's state for good, from   *)
(* any mess of lost webhooks, failed calls and stale answers.              *)
Recovers == \A h \in Handles : <>[]Agrees(h)
=============================================================================
