---------------------------- MODULE ConsentProofs ----------------------------
(* Proofs about ConsentLifecycle, for any handles, accounts and callers:   *)
(* type correctness, that linked accounts always have their consent id,    *)
(* and that an undisturbed refresh stores what the gateway holds.          *)
EXTENDS ConsentLifecycle, TLAPS

(* A caller past the stamp of its refresh has a row, and one that still    *)
(* has links to store has a consent id for them.                           *)
FetchFits(p) == pc[p] = "fetch" => row[on[p]] # None /\ row[on[p]].cid

CreateFits(p) ==
    pc[p] = "create" => gw[on[p]].status # "NONE" /\ ans[p].status # "NONE"

AskFits(p) ==
    pc[p] \in {"ask", "stamp", "link", "scan", "prune"} => row[on[p]] # None

StampFits(p) ==
    pc[p] = "stamp" =>
        /\ ans[p].status # "NONE"
        /\ ans[p].accts # {} => ans[p].cid

LinkFits(p) ==
    pc[p] \in {"link", "scan", "prune"} => (ans[p].accts # {} => row[on[p]].cid)

(* A caller nobody has disturbed holds the gateway's answer, and once it   *)
(* has stamped it, so does the row.                                        *)
CalmFits(p) ==
    p \in calm =>
        /\ pc[p] \in {"stamp", "link", "scan", "prune"}
        /\ ans[p] = gw[on[p]]
        /\ pc[p] # "stamp" => row[on[p]].status = gw[on[p]].status
        /\ pc[p] = "prune" => doomed[p] = linked[on[p]] \ ans[p].accts

Fits(p) ==
    /\ FetchFits(p) /\ CreateFits(p) /\ AskFits(p)
    /\ StampFits(p) /\ LinkFits(p) /\ CalmFits(p)

(* The gateway has an id for what it has approved, and knows every consent *)
(* the server has a row of.                                                *)
GwFits(h) ==
    /\ gw[h].status \in {"ACTIVE", "PAUSED"} \/ gw[h].accts # {} => gw[h].cid
    /\ row[h] # None => gw[h].status # "NONE"

ConsentInv ==
    /\ TypeOK
    /\ LinkedIsIdentified
    /\ \A h \in Handles : GwFits(h)
    /\ \A p \in Procs : Fits(p)

-----------------------------------------------------------------------------
(* The statements and the answer.                                          *)

LEMMA Updated ==
  ASSUME row \in [Handles -> Row \cup {None}], NEW h \in Handles, row[h] # None,
         NEW status \in Statuses, NEW cid \in BOOLEAN,
         UpdateConsentStatus(h, status, cid)
  PROVE  /\ row' \in [Handles -> Row \cup {None}]
         /\ row'[h] # None
         /\ row'[h].status = status
         /\ row[h].cid \/ cid => row'[h].cid
         /\ \A k \in Handles \ {h} : row'[k] = row[k]
<1>1. row' = [row EXCEPT ![h] = [status |-> status, cid |-> IdKept(row[h].cid, cid)]]
  BY DEF UpdateConsentStatus
<1>2. row[h] \in Row
  OBVIOUS
<1>3. IdKept(row[h].cid, cid) \in BOOLEAN
  BY DEF IdKept
<1>4. [status |-> status, cid |-> IdKept(row[h].cid, cid)] \in Row
  BY <1>3 DEF Row
<1>5. row'[h] = [status |-> status, cid |-> IdKept(row[h].cid, cid)]
  BY <1>1
<1>6. row'[h].cid = IdKept(row[h].cid, cid)
  BY <1>5
<1>7. row[h].cid \/ cid => row'[h].cid
  BY <1>6, Zenon DEF IdKept
<1> QED BY <1>1, <1>4, <1>5, <1>7, NoneAssumption

LEMMA Created ==
  ASSUME row \in [Handles -> Row \cup {None}], NEW h \in Handles,
         NEW status \in Statuses, CreateConsent(h, status)
  PROVE  /\ row' \in [Handles -> Row \cup {None}]
         /\ row'[h] # None
         /\ row[h] # None => row'[h].cid = row[h].cid
         /\ \A k \in Handles \ {h} : row'[k] = row[k]
<1>1. row' = [row EXCEPT ![h] = StoredOnCreate(row[h], status)]
  BY DEF CreateConsent
<1>2. StoredOnCreate(row[h], status) \in Row
  <2>1. CASE row[h] = None
    BY <2>1 DEF StoredOnCreate, Row
  <2>2. CASE row[h] # None
    <3>1. row[h] \in Row
      BY <2>2
    <3> QED BY <2>2, <3>1 DEF StoredOnCreate, Row
  <2> QED BY <2>1, <2>2
<1>3. ASSUME row[h] # None PROVE StoredOnCreate(row[h], status).cid = row[h].cid
  <2>1. row[h] \in Row
    BY <1>3
  <2> QED BY <1>3, <2>1 DEF StoredOnCreate, Row
<1> QED BY <1>1, <1>2, <1>3, NoneAssumption

LEMMA Picked ==
  ASSUME NEW h \in Handles, gw[h].status # "NONE"
  PROVE  pickConsent(h) = gw[h]
<1> DEFINE c == CHOOSE c \in List591 : c.handle = h
<1>1. [handle |-> h, truth |-> gw[h]] \in List591
  BY DEF List591
<1>2. c \in List591 /\ c.handle = h
  BY <1>1
<1> HIDE DEF c
<1>3. PICK k \in Handles : c = [handle |-> k, truth |-> gw[k]]
  BY <1>2, Zenon DEF List591
<1>4. c = [handle |-> h, truth |-> gw[h]]
  BY <1>2, <1>3
<1>5. c.truth = gw[h]
  BY <1>4
<1> QED BY <1>5 DEF pickConsent, c

-----------------------------------------------------------------------------
(* What a step leaves alone, and what it keeps.                            *)

Same(q) ==
    /\ pc'[q] = pc[q] /\ on'[q] = on[q]
    /\ ans'[q] = ans[q] /\ doomed'[q] = doomed[q]

RowsKept ==
    \A h \in Handles : row[h] # None =>
        row'[h] # None /\ (row[h].cid => row'[h].cid)

GwKept == \A h \in Handles : gw[h].status # "NONE" => gw'[h].status # "NONE"

(* A caller still calm saw nothing change. *)
CalmKept(q) ==
    q \in calm' =>
        /\ q \in calm
        /\ row'[on[q]].status = row[on[q]].status
        /\ gw'[on[q]] = gw[on[q]]
        /\ linked'[on[q]] = linked[on[q]]

LEMMA Undisturbed ==
  ASSUME NEW q \in Procs, on[q] \in Handles, Fits(q), Same(q),
         RowsKept, GwKept, CalmKept(q)
  PROVE  Fits(q)'
<1>1. FetchFits(q)'
  BY DEF Fits, FetchFits, Same, RowsKept
<1>2. CreateFits(q)'
  BY DEF Fits, CreateFits, Same, GwKept
<1>3. AskFits(q)'
  BY DEF Fits, AskFits, Same, RowsKept
<1>4. StampFits(q)'
  BY DEF Fits, StampFits, Same
<1>5. LinkFits(q)'
  <2>1. row[on[q]] # None \/ pc[q] \notin {"link", "scan", "prune"}
    BY DEF Fits, AskFits
  <2> QED BY <2>1 DEF Fits, LinkFits, Same, RowsKept
<1>6. CalmFits(q)'
  BY DEF Fits, CalmFits, Same, CalmKept
<1> QED BY <1>1, <1>2, <1>3, <1>4, <1>5, <1>6 DEF Fits

LEMMA Returned ==
  ASSUME NEW p \in Procs, pc'[p] = "idle", p \notin calm'
  PROVE  Fits(p)'
BY DEF Fits, FetchFits, CreateFits, AskFits, StampFits, LinkFits, CalmFits

LEMMA LinksKept ==
  ASSUME LinkedIsIdentified, RowsKept, linked' = linked, landed' = landed
  PROVE  LinkedIsIdentified'
BY DEF LinkedIsIdentified, RowsKept

LEMMA Forgotten ==
  ASSUME TypeOK, NEW p \in Procs, Forget(p)
  PROVE  /\ pc' \in [Procs -> Steps] /\ on' \in [Procs -> Handles]
         /\ ans' \in [Procs -> Truth] /\ doomed' \in [Procs -> SUBSET Accts]
         /\ pc'[p] = "idle"
         /\ \A q \in Procs \ {p} : Same(q)
<1>1. (CHOOSE h \in Handles : TRUE) \in Handles
  BY DEF TypeOK
<1>2. Unissued \in Truth
  BY DEF Unissued, Truth
<1>3. pc' = [pc EXCEPT ![p] = "idle"]
  BY DEF Forget, Go
<1>4. "idle" \in Steps
  BY DEF Steps
<1> QED BY <1>1, <1>2, <1>3, <1>4 DEF Forget, Same, TypeOK

-----------------------------------------------------------------------------
(* The gateway's moves.                                                    *)

LEMMA GwMoveKeeps ==
  ASSUME ConsentInv, NEW h \in Handles, NEW truth \in Truth, NEW hooks \in SUBSET Hooks,
         GwMove(h, truth, hooks), truth.status # "NONE",
         truth.status \in {"ACTIVE", "PAUSED"} \/ truth.accts # {} => truth.cid
  PROVE  ConsentInv'
<1>1. gw' = [gw EXCEPT ![h] = truth] /\ gw \in [Handles -> Truth]
  BY DEF GwMove, ConsentInv, TypeOK
<1>2. gw'[h] = truth /\ \A k \in Handles \ {h} : gw'[k] = gw[k]
  BY <1>1
<1>3. TypeOK'
  <2>1. moves' \in 0..MaxMoves
    BY ConsentAssumption DEF GwMove, ConsentInv, TypeOK
  <2> QED BY <1>1, <2>1 DEF GwMove, ConsentInv, TypeOK, memory
<1>4. LinkedIsIdentified'
  BY LinksKept DEF GwMove, ConsentInv, RowsKept
<1>5. \A k \in Handles : GwFits(k)'
  <2> TAKE k \in Handles
  <2>1. GwFits(k) /\ row' = row
    BY DEF ConsentInv, GwMove
  <2> QED BY <1>2, <2>1 DEF GwFits
<1>6. \A q \in Procs : Fits(q)'
  <2> TAKE q \in Procs
  <2>1. on[q] \in Handles /\ Fits(q)
    BY DEF ConsentInv, TypeOK
  <2>2. Same(q) /\ RowsKept
    BY DEF GwMove, memory, Same, RowsKept
  <2>3. GwKept
    BY <1>2 DEF GwKept
  <2>4. CalmKept(q)
    BY <1>2, <2>1 DEF GwMove, CalmKept, At
  <2> QED BY <2>1, <2>2, <2>3, <2>4, Undisturbed
<1> QED BY <1>3, <1>4, <1>5, <1>6 DEF ConsentInv

LEMMA GwStepKeeps ==
  ASSUME ConsentInv, NEW h \in Handles, GwStep(h)
  PROVE  ConsentInv'
<1>1. gw[h] \in Truth /\ GwFits(h)
  BY DEF ConsentInv, TypeOK
<1>2. \A e \in Events : {ConsentHook(h, e)} \subseteq Hooks
  BY DEF Hooks
<1>3. {DataHook(h)} \subseteq Hooks
  BY DEF Hooks
<1>4. ASSUME NEW from, NEW to \in Statuses, GwTurn(h, from, to), from \subseteq Statuses,
             to \in {"ACTIVE", "PAUSED"} => from \subseteq {"ACTIVE", "PAUSED"}
      PROVE  ConsentInv'
  <2> DEFINE truth == [gw[h] EXCEPT !.status = to]
  <2>1. truth \in Truth
    BY <1>1 DEF Truth
  <2>2. truth.status = to /\ truth.accts = gw[h].accts /\ truth.cid = gw[h].cid
    BY <1>1 DEF Truth
  <2>3. gw[h].status \in from /\ GwMove(h, truth, {ConsentHook(h, to)})
    BY <1>4 DEF GwTurn
  <2>4. to # "NONE" /\ to \in Events
    BY DEF Statuses, Events
  <2> HIDE DEF truth
  <2>5. truth.status \in {"ACTIVE", "PAUSED"} \/ truth.accts # {} => truth.cid
    BY <1>1, <1>4, <2>2, <2>3 DEF GwFits
  <2> QED BY <1>2, <2>1, <2>2, <2>3, <2>4, <2>5, GwMoveKeeps
<1>5. CASE GwApprove(h)
  <2>1. PICK accts \in Grants \ {{}} :
           GwMove(h, [status |-> "ACTIVE", cid |-> TRUE, accts |-> accts],
                  {ConsentHook(h, "ACTIVE"), DataHook(h)})
    BY <1>5 DEF GwApprove
  <2>2. [status |-> "ACTIVE", cid |-> TRUE, accts |-> accts] \in Truth
    BY ConsentAssumption DEF Truth, Statuses
  <2>3. {ConsentHook(h, "ACTIVE"), DataHook(h)} \subseteq Hooks
    BY <1>2, <1>3 DEF Events, Statuses
  <2> QED BY <2>1, <2>2, <2>3, GwMoveKeeps
<1>6. CASE GwReject(h)
  BY <1>4, <1>6 DEF GwReject, Statuses
<1>7. CASE GwPause(h)
  BY <1>4, <1>7 DEF GwPause, Statuses
<1>8. CASE GwResume(h)
  BY <1>4, <1>8 DEF GwResume, Statuses
<1>9. CASE GwEnd(h)
  BY <1>4, <1>9 DEF GwEnd, Statuses
<1>10. CASE GwRelink(h)
  <2>1. PICK accts \in Grants \ {gw[h].accts} :
           GwMove(h, [gw[h] EXCEPT !.accts = accts], {DataHook(h)})
    BY <1>10 DEF GwRelink
  <2> DEFINE truth == [gw[h] EXCEPT !.accts = accts]
  <2>2. truth \in Truth
    BY <1>1, ConsentAssumption DEF Truth
  <2>3. truth.status = gw[h].status /\ truth.cid = gw[h].cid
    BY <1>1 DEF Truth
  <2>4. gw[h].status = "ACTIVE" /\ GwMove(h, truth, {DataHook(h)})
    BY <1>10, <2>1 DEF GwRelink
  <2> HIDE DEF truth
  <2>5. truth.cid
    BY <1>1, <2>3, <2>4 DEF GwFits
  <2> QED BY <1>3, <2>2, <2>3, <2>4, <2>5, GwMoveKeeps
<1>11. CASE GwNotice(h)
  <2>1. gw[h].status # "NONE" /\ GwMove(h, gw[h], {ConsentHook(h, "OTHER")})
    BY <1>11 DEF GwNotice
  <2>2. {ConsentHook(h, "OTHER")} \subseteq Hooks
    BY <1>2 DEF Events
  <2> QED BY <1>1, <2>1, <2>2, GwMoveKeeps DEF GwFits
<1> QED BY <1>5, <1>6, <1>7, <1>8, <1>9, <1>10, <1>11 DEF GwStep

-----------------------------------------------------------------------------
(* The callers.                                                            *)

LEMMA CallerKeeps ==
  ASSUME ConsentInv, NEW p \in Procs, TypeOK', RowsKept, GwKept,
         linked' = linked, landed' = landed,
         \A h \in Handles : GwFits(h)',
         Fits(p)', \A q \in Procs \ {p} : Same(q) /\ CalmKept(q)
  PROVE  ConsentInv'
<1>1. LinkedIsIdentified'
  BY LinksKept DEF ConsentInv
<1>2. \A q \in Procs \ {p} : Fits(q)'
  BY Undisturbed DEF ConsentInv, TypeOK
<1> QED BY <1>1, <1>2 DEF ConsentInv

(* A step that writes no row and asks for nothing. *)
LEMMA QuietKeeps ==
  ASSUME ConsentInv, NEW p \in Procs, TypeOK', Fits(p)',
         row' = row, gw' = gw, linked' = linked, landed' = landed,
         \A q \in Procs \ {p} : Same(q), calm' \subseteq calm \cup {p}
  PROVE  ConsentInv'
<1>1. \A h \in Handles : GwFits(h)'
  BY DEF ConsentInv, GwFits
<1>2. RowsKept /\ GwKept
  BY DEF RowsKept, GwKept
<1>3. \A q \in Procs \ {p} : CalmKept(q)
  BY DEF CalmKept
<1> QED BY <1>1, <1>2, <1>3, CallerKeeps

LEMMA RequestKeeps ==
  ASSUME ConsentInv, NEW p \in Procs, NEW h \in Handles, Request(p, h)
  PROVE  ConsentInv'
<1>1. gw \in [Handles -> Truth] /\ gw[h] \in Truth
  BY DEF ConsentInv, TypeOK
<1> DEFINE status == IF gw[h].status = "NONE" THEN "PENDING" ELSE gw[h].status
           truth == [gw[h] EXCEPT !.status = status]
<1>2. gw' = [gw EXCEPT ![h] = truth]
  BY DEF Request
<1>3. status \in Statuses
  BY <1>1 DEF Truth, Statuses
<1> HIDE DEF status
<1>4. truth \in Truth /\ truth.status = status /\ truth.cid = gw[h].cid
                      /\ truth.accts = gw[h].accts
  BY <1>1, <1>3 DEF Truth
<1> HIDE DEF truth
<1>5. gw' \in [Handles -> Truth] /\ gw'[h] = truth
      /\ \A k \in Handles \ {h} : gw'[k] = gw[k]
  BY <1>1, <1>2, <1>4
<1>6. status # "NONE"
  BY <1>3 DEF Statuses
<1>7. TypeOK'
  <2>1. moves' \in 0..MaxMoves
    BY ConsentAssumption DEF Request, ConsentInv, TypeOK
  <2>2. "create" \in Steps
    BY DEF Steps
  <2> QED BY <1>4, <1>5, <2>1, <2>2 DEF Request, Go, ConsentInv, TypeOK
<1>8. \A k \in Handles : GwFits(k)'
  <2> TAKE k \in Handles
  <2>1. GwFits(k) /\ row' = row
    BY DEF ConsentInv, Request
  <2>2. status \in {"ACTIVE", "PAUSED"} => gw[h].status \in {"ACTIVE", "PAUSED"}
    BY DEF status
  <2> QED BY <1>4, <1>5, <1>6, <2>1, <2>2 DEF GwFits
<1>9. RowsKept /\ linked' = linked /\ landed' = landed
  BY DEF Request, RowsKept
<1>10. GwKept
  BY <1>4, <1>5, <1>6 DEF GwKept
<1>11. Fits(p)'
  <2>1. pc'[p] = "create" /\ on'[p] = h /\ ans'[p] = gw'[h] /\ p \notin calm'
    BY <1>5 DEF Request, Go, ConsentInv, TypeOK
  <2> QED BY <1>4, <1>5, <1>6, <2>1
          DEF Fits, FetchFits, CreateFits, AskFits, StampFits, LinkFits, CalmFits
<1>12. ASSUME NEW q \in Procs \ {p} PROVE Same(q) /\ CalmKept(q)
  <2>1. Same(q)
    BY DEF Request, Go, Same, ConsentInv, TypeOK
  <2>2. q \in calm' => q \in calm /\ on[q] # h
    BY DEF Request, At
  <2>3. on[q] \in Handles
    BY DEF ConsentInv, TypeOK
  <2> QED BY <1>5, <2>1, <2>2, <2>3 DEF CalmKept, Request
<1> QED BY <1>7, <1>8, <1>9, <1>10, <1>11, <1>12, CallerKeeps

LEMMA StoreKeeps ==
  ASSUME ConsentInv, NEW p \in Procs, CreateLive(p) \/ CreateStub(p)
  PROVE  ConsentInv'
<1> DEFINE h == on[p]
<1>1. pc[p] = "create" /\ CreateConsent(h, ans[p].status) /\ UNCHANGED <<gw, linked, landed>>
      /\ calm' = calm \ At(h)
  BY DEF CreateLive, CreateStub, StoreRequest, outside
<1>2. Fits(p) /\ h \in Handles /\ ans[p] \in Truth
  BY DEF ConsentInv, TypeOK
<1>3. gw[h].status # "NONE" /\ ans[p].status \in Statuses
  BY <1>1, <1>2 DEF Fits, CreateFits, Truth
<1>4. /\ row' \in [Handles -> Row \cup {None}]
      /\ row'[h] # None
      /\ row[h] # None => row'[h].cid = row[h].cid
      /\ \A k \in Handles \ {h} : row'[k] = row[k]
  BY <1>1, <1>2, <1>3, Created DEF ConsentInv, TypeOK
<1>5. /\ pc' \in [Procs -> Steps] /\ on' \in [Procs -> Handles]
      /\ ans' \in [Procs -> Truth] /\ doomed' \in [Procs -> SUBSET Accts]
      /\ pc'[p] = "idle" \/ (pc'[p] = "ask" /\ on'[p] = on[p])
      /\ \A q \in Procs \ {p} : Same(q)
  <2>1. CASE CreateLive(p)
    BY <2>1, Forgotten DEF CreateLive, ConsentInv
  <2>2. CASE CreateStub(p)
    BY <2>2 DEF CreateStub, Go, memory, Same, ConsentInv, TypeOK, Steps
  <2> QED BY <2>1, <2>2
<1> HIDE DEF h
<1>6. TypeOK'
  BY <1>1, <1>4, <1>5 DEF CreateLive, CreateStub, StoreRequest, outside, ConsentInv, TypeOK
<1>7. RowsKept /\ GwKept
  BY <1>1, <1>4 DEF RowsKept, GwKept
<1>8. \A k \in Handles : GwFits(k)'
  BY <1>1, <1>3, <1>4 DEF ConsentInv, GwFits
<1>9. p \notin calm'
  BY <1>1 DEF At, h
<1>10. Fits(p)'
  BY <1>4, <1>5, <1>9
     DEF Fits, FetchFits, CreateFits, AskFits, StampFits, LinkFits, CalmFits, h
<1>11. \A q \in Procs \ {p} : CalmKept(q)
  <2> TAKE q \in Procs \ {p}
  <2>1. q \in calm' => q \in calm /\ on[q] # h
    BY <1>1 DEF At
  <2>2. on[q] \in Handles
    BY DEF ConsentInv, TypeOK
  <2> QED BY <1>1, <1>4, <2>1, <2>2 DEF CalmKept
<1> QED BY <1>1, <1>5, <1>6, <1>7, <1>8, <1>10, <1>11, CallerKeeps

LEMMA BeginKeeps ==
  ASSUME ConsentInv, NEW p \in Procs, NEW h \in Handles, Refresh(p, h)
  PROVE  ConsentInv'
<1>1. "ask" \in Steps
  BY DEF Steps
<1>2. TypeOK'
  BY <1>1 DEF Refresh, StartRefresh, Go, outside, ConsentInv, TypeOK
<1>3. pc'[p] = "ask" /\ on'[p] = h /\ row[h] # None
  BY DEF Refresh, StartRefresh, Go, ConsentInv, TypeOK
<1>4. p \notin calm'
  BY DEF Refresh, ConsentInv, Fits, CalmFits
<1>5. Fits(p)'
  BY <1>3, <1>4 DEF Refresh, Fits, FetchFits, CreateFits, AskFits, StampFits, LinkFits, CalmFits
<1>6. \A q \in Procs \ {p} : Same(q)
  BY DEF Refresh, StartRefresh, Go, Same, ConsentInv, TypeOK
<1> QED BY <1>2, <1>5, <1>6, QuietKeeps DEF Refresh, outside

LEMMA AskKeeps ==
  ASSUME ConsentInv, NEW p \in Procs, RefreshAsk(p)
  PROVE  ConsentInv'
<1>1. on[p] \in Handles /\ gw[on[p]] \in Truth /\ Fits(p) /\ GwFits(on[p])
  BY DEF ConsentInv, TypeOK
<1>2. gw[on[p]].status # "NONE"
  BY <1>1 DEF RefreshAsk, Fits, AskFits, GwFits
<1>3. pickConsent(on[p]) = gw[on[p]]
  BY <1>1, <1>2, Picked
<1>4. ans' = [ans EXCEPT ![p] = gw[on[p]]] /\ pc' = [pc EXCEPT ![p] = "stamp"]
  BY <1>3 DEF RefreshAsk, Go
<1>5. TypeOK'
  BY <1>1, <1>4 DEF RefreshAsk, outside, ConsentInv, TypeOK, Steps
<1>6. Fits(p)'
  <2>1. /\ pc'[p] = "stamp" /\ on' = on /\ ans'[p] = gw[on[p]]
        /\ gw' = gw /\ row' = row /\ pc[p] = "ask"
    BY <1>4 DEF RefreshAsk, outside, ConsentInv, TypeOK
  <2> QED BY <1>1, <1>2, <2>1
          DEF Fits, FetchFits, CreateFits, AskFits, StampFits, LinkFits, CalmFits, GwFits
<1>7. \A q \in Procs \ {p} : Same(q)
  BY <1>4 DEF RefreshAsk, Same, ConsentInv, TypeOK
<1> QED BY <1>5, <1>6, <1>7, QuietKeeps DEF RefreshAsk, outside

LEMMA StampKeeps ==
  ASSUME ConsentInv, NEW p \in Procs, RefreshStamp(p)
  PROVE  ConsentInv'
<1> DEFINE h == on[p]
<1>1. /\ h \in Handles /\ Fits(p) /\ ans[p] \in Truth /\ pc[p] = "stamp"
      /\ row \in [Handles -> Row \cup {None}]
  BY DEF ConsentInv, TypeOK, RefreshStamp
<1>2. row[h] # None /\ ans[p].status \in Statuses /\ ans[p].cid \in BOOLEAN
  BY <1>1 DEF Fits, AskFits, StampFits, Truth
<1>3. UpdateConsentStatus(h, ans[p].status, ans[p].cid)
  BY DEF RefreshStamp
<1> HIDE DEF h
<1>4. /\ row' \in [Handles -> Row \cup {None}]
      /\ row'[h] # None /\ row'[h].status = ans[p].status
      /\ row[h].cid \/ ans[p].cid => row'[h].cid
      /\ \A k \in Handles \ {h} : row'[k] = row[k]
  BY <1>1, <1>2, <1>3, Updated
<1>5. TypeOK'
  BY <1>4 DEF RefreshStamp, Go, Steps, outside, memory, ConsentInv, TypeOK
<1>6. RowsKept /\ GwKept
  BY <1>4 DEF RefreshStamp, outside, RowsKept, GwKept
<1>7. \A k \in Handles : GwFits(k)'
  BY <1>2, <1>4 DEF RefreshStamp, outside, ConsentInv, GwFits
<1>8. Fits(p)'
  <2>1. pc'[p] = "link" /\ on' = on /\ ans' = ans /\ gw' = gw
    BY DEF RefreshStamp, Go, outside, memory, ConsentInv, TypeOK
  <2>2. p \in calm' => p \in calm
    BY DEF RefreshStamp
  <2> QED BY <1>1, <1>4, <2>1, <2>2
          DEF Fits, FetchFits, CreateFits, AskFits, StampFits, LinkFits, CalmFits, h
<1>9. ASSUME NEW q \in Procs \ {p} PROVE Same(q) /\ CalmKept(q)
  <2>1. Same(q)
    BY DEF RefreshStamp, Go, memory, Same, ConsentInv, TypeOK
  <2>2. q \in calm' => q \in calm /\ on[q] # h
    BY DEF RefreshStamp, At, h
  <2>3. on[q] \in Handles
    BY DEF ConsentInv, TypeOK
  <2> QED BY <1>4, <2>1, <2>2, <2>3 DEF CalmKept, RefreshStamp, outside
<1> QED BY <1>5, <1>6, <1>7, <1>8, <1>9, CallerKeeps DEF RefreshStamp

LEMMA UpsertKeeps ==
  ASSUME ConsentInv, NEW p \in Procs, RefreshUpsert(p) \/ RefreshScan(p)
  PROVE  ConsentInv'
<1>1. TypeOK'
  BY DEF RefreshUpsert, RefreshScan, Go, Steps, outside, memory, ConsentInv, TypeOK
<1>2. \A q \in Procs \ {p} : Same(q)
  BY DEF RefreshUpsert, RefreshScan, Go, memory, Same, ConsentInv, TypeOK
<1>3. on' = on /\ ans' = ans /\ calm' = calm /\ row' = row /\ gw' = gw
      /\ linked' = linked /\ landed' = landed
  BY DEF RefreshUpsert, RefreshScan, outside, memory
<1>4. \/ pc[p] = "link" /\ pc'[p] = "scan"
      \/ pc[p] = "scan" /\ pc'[p] = "prune" /\ doomed'[p] = linked[on[p]] \ ans[p].accts
  BY DEF RefreshUpsert, RefreshScan, Go, ConsentInv, TypeOK
<1>5. Fits(p)'
  BY <1>3, <1>4 DEF ConsentInv, Fits, FetchFits, CreateFits, AskFits, StampFits,
                    LinkFits, CalmFits
<1> QED BY <1>1, <1>2, <1>3, <1>5, QuietKeeps

(* A caller that ends, having written nothing. *)
LEMMA EndKeeps ==
  ASSUME ConsentInv, NEW p \in Procs, GiveUp(p) \/ DeadlockVictim(p)
  PROVE  ConsentInv'
<1>1. Forget(p) /\ calm' = calm \ {p} /\ UNCHANGED <<gw, wire, row, linked, landed>>
  BY DEF GiveUp, DeadlockVictim, outside
<1>2. /\ pc' \in [Procs -> Steps] /\ on' \in [Procs -> Handles]
      /\ ans' \in [Procs -> Truth] /\ doomed' \in [Procs -> SUBSET Accts]
      /\ pc'[p] = "idle" /\ \A q \in Procs \ {p} : Same(q)
  BY <1>1, Forgotten DEF ConsentInv
<1>3. moves' \in 0..MaxMoves
  BY ConsentAssumption DEF GiveUp, DeadlockVictim, outside, ConsentInv, TypeOK
<1>4. TypeOK'
  BY <1>1, <1>2, <1>3 DEF ConsentInv, TypeOK
<1> QED BY <1>1, <1>2, <1>4, Returned, QuietKeeps

LEMMA LinkKeeps ==
  ASSUME ConsentInv, NEW p \in Procs, RefreshLink(p)
  PROVE  ConsentInv'
<1> DEFINE h == on[p]
<1>1. /\ Forget(p) /\ calm' = calm \ At(h) /\ UNCHANGED <<gw, wire, moves, row, landed>>
      /\ linked' = [linked EXCEPT ![h] = (linked[h] \ doomed[p]) \cup ans[p].accts]
  BY DEF RefreshLink, ReplaceLinkedAccounts, outside
<1>2. /\ pc' \in [Procs -> Steps] /\ on' \in [Procs -> Handles]
      /\ ans' \in [Procs -> Truth] /\ doomed' \in [Procs -> SUBSET Accts]
      /\ pc'[p] = "idle" /\ \A q \in Procs \ {p} : Same(q)
  BY <1>1, Forgotten DEF ConsentInv
<1>3. ans[p].accts \subseteq Accts /\ h \in Handles
  BY DEF ConsentInv, TypeOK, Truth
<1>4. TypeOK'
  BY <1>1, <1>2, <1>3 DEF ConsentInv, TypeOK
<1>5. /\ linked'[h] = (linked[h] \ doomed[p]) \cup ans[p].accts
      /\ \A k \in Handles \ {h} : linked'[k] = linked[k]
  BY <1>1, <1>3 DEF ConsentInv, TypeOK
<1>6. row[h] # None /\ (ans[p].accts # {} => row[h].cid)
  BY DEF RefreshLink, ConsentInv, Fits, AskFits, LinkFits
<1>7. p \notin calm' /\ \A q \in Procs : q \in calm' => q \in calm /\ on[q] # h
  BY <1>1 DEF At
<1> HIDE DEF h
<1>8. LinkedIsIdentified'
  <2> SUFFICES ASSUME NEW k \in Handles, linked'[k] # {} \/ k \in landed
               PROVE  row[k] # None /\ row[k].cid
    BY <1>1 DEF LinkedIsIdentified
  <2>1. linked[k] # {} \/ k \in landed => row[k] # None /\ row[k].cid
    BY DEF ConsentInv, LinkedIsIdentified
  <2> QED BY <1>5, <1>6, <2>1
<1>9. \A k \in Handles : GwFits(k)'
  BY <1>1 DEF ConsentInv, GwFits
<1>10. ASSUME NEW q \in Procs PROVE Fits(q)'
  <2>1. CASE q = p
    BY <1>2, <1>7, <2>1, Returned
  <2>2. CASE q # p
    <3>1. on[q] \in Handles /\ Fits(q)
      BY DEF ConsentInv, TypeOK
    <3>2. RowsKept /\ GwKept
      BY <1>1 DEF RowsKept, GwKept
    <3>3. CalmKept(q)
      BY <1>1, <1>5, <1>7, <3>1 DEF CalmKept
    <3> QED BY <1>2, <2>2, <3>1, <3>2, <3>3, Undisturbed
  <2> QED BY <2>1, <2>2
<1> QED BY <1>4, <1>8, <1>9, <1>10 DEF ConsentInv
-----------------------------------------------------------------------------
(* Declines, webhooks and statements.                                      *)

(* The status of a row is overwritten by someone who holds no answer. *)
LEMMA OverwriteKeeps ==
  ASSUME ConsentInv, NEW h \in Handles, NEW status \in Statuses, NEW cid \in BOOLEAN,
         row[h] # None, UpdateConsentStatus(h, status, cid), calm' = calm \ At(h),
         TypeOK', gw' = gw, linked' = linked, landed' = landed,
         NEW p \in Procs, Fits(p)', \A q \in Procs \ {p} : Same(q)
  PROVE  ConsentInv'
<1>1. row \in [Handles -> Row \cup {None}]
  BY DEF ConsentInv, TypeOK
<1>2. /\ row'[h] # None
      /\ row[h].cid => row'[h].cid
      /\ \A k \in Handles \ {h} : row'[k] = row[k]
  BY <1>1, Updated
<1>3. RowsKept /\ GwKept
  BY <1>2 DEF RowsKept, GwKept
<1>4. \A k \in Handles : GwFits(k)'
  BY <1>2 DEF ConsentInv, GwFits
<1>5. ASSUME NEW q \in Procs \ {p} PROVE CalmKept(q)
  <2>1. q \in calm' => q \in calm /\ on[q] # h
    BY DEF At
  <2>2. on[q] \in Handles
    BY DEF ConsentInv, TypeOK
  <2> QED BY <1>2, <2>1, <2>2 DEF CalmKept
<1> QED BY <1>3, <1>4, <1>5, CallerKeeps

LEMMA DeclineKeeps ==
  ASSUME ConsentInv, NEW h \in Handles, CompleteRedirectDeclined(h)
  PROVE  ConsentInv'
<1>1. /\ row[h] # None /\ UpdateConsentStatus(h, "REJECTED", FALSE)
      /\ calm' = calm \ At(h)
      /\ UNCHANGED <<gw, wire, linked, landed, pc, on, ans, doomed>>
  BY Zenon DEF CompleteRedirectDeclined, memory
<1>0. moves' \in 0..MaxMoves
  BY ConsentAssumption DEF CompleteRedirectDeclined, ConsentInv, TypeOK
<1>2. "REJECTED" \in Statuses
  BY DEF Statuses
<1>3. row \in [Handles -> Row \cup {None}] /\ TypeOK
  BY DEF ConsentInv, TypeOK
<1>4. /\ row' \in [Handles -> Row \cup {None}] /\ row'[h] # None
      /\ row[h].cid => row'[h].cid
      /\ \A k \in Handles \ {h} : row'[k] = row[k]
  BY <1>1, <1>2, <1>3, Updated
<1>5. TypeOK'
  BY <1>0, <1>1, <1>4 DEF ConsentInv, TypeOK
<1>6. RowsKept /\ GwKept
  BY <1>1, <1>4 DEF RowsKept, GwKept
<1>7. LinkedIsIdentified'
  BY <1>1, <1>6, LinksKept DEF ConsentInv
<1>8. \A k \in Handles : GwFits(k)'
  BY <1>1, <1>4 DEF ConsentInv, GwFits
<1>9. ASSUME NEW q \in Procs PROVE Fits(q)'
  <2>1. on[q] \in Handles /\ Fits(q)
    BY DEF ConsentInv, TypeOK
  <2>2. Same(q)
    BY <1>1 DEF Same
  <2>3. q \in calm' => q \in calm /\ on[q] # h
    BY <1>1 DEF At
  <2>4. CalmKept(q)
    BY <1>1, <1>4, <2>1, <2>3 DEF CalmKept
  <2> QED BY <1>6, <2>1, <2>2, <2>4, Undisturbed
<1> QED BY <1>5, <1>7, <1>8, <1>9 DEF ConsentInv

LEMMA NoticeKeeps ==
  ASSUME ConsentInv, NEW p \in Procs, NEW m \in wire, HandleConsentNotification(p, m)
  PROVE  ConsentInv'
<1> DEFINE h == m.handle
           status == consentStatusFromEvent(m.event)
<1>1. m \in Hooks /\ m.kind = "consent"
  BY DEF HandleConsentNotification, ConsentInv, TypeOK
<1>2. h \in Handles /\ status \in Statuses
  <2>1. m.handle \in Handles
    BY <1>1 DEF Hooks, ConsentHook, DataHook
  <2> QED BY <2>1 DEF consentStatusFromEvent, Statuses
<1>3. PICK cid \in {FALSE, gw[h].cid} : UpdateConsentStatus(h, status, cid)
  BY DEF HandleConsentNotification
<1>4. cid \in BOOLEAN
  BY <1>2 DEF ConsentInv, TypeOK, Truth
<1>5. /\ row[h] # None /\ pc[p] = "idle" /\ calm' = calm \ At(h)
      /\ UNCHANGED <<gw, linked, landed, ans, doomed>>
      /\ wire' \subseteq wire /\ moves' \in 0..MaxMoves
      /\ \/ pc' = [pc EXCEPT ![p] = "ask"] /\ on' = [on EXCEPT ![p] = h]
         \/ pc' = pc /\ on' = on
  BY ConsentAssumption
     DEF HandleConsentNotification, Take, StartRefresh, Go, ConsentInv, TypeOK
<1> HIDE DEF h, status
<1>6. row \in [Handles -> Row \cup {None}] /\ p \notin calm
  BY <1>5 DEF ConsentInv, TypeOK, Fits, CalmFits
<1>7. row' \in [Handles -> Row \cup {None}] /\ row'[h] # None
  BY <1>2, <1>3, <1>4, <1>5, <1>6, Updated
<1>8. TypeOK'
  BY <1>2, <1>5, <1>7 DEF ConsentInv, TypeOK, Steps
<1>9. Fits(p)'
  <2>1. (pc'[p] = "idle" \/ (pc'[p] = "ask" /\ on'[p] = h)) /\ p \notin calm'
    BY <1>5, <1>6 DEF ConsentInv, TypeOK
  <2> QED BY <1>7, <2>1
          DEF Fits, FetchFits, CreateFits, AskFits, StampFits, LinkFits, CalmFits
<1>10. \A q \in Procs \ {p} : Same(q)
  BY <1>5 DEF Same, ConsentInv, TypeOK
<1> QED BY <1>2, <1>3, <1>4, <1>5, <1>8, <1>9, <1>10, OverwriteKeeps

LEMMA StartFetchKeeps ==
  ASSUME ConsentInv, NEW p \in Procs, NEW h \in Handles, StartFetch(p, h),
         gw' = gw, wire' \subseteq wire, moves' \in 0..MaxMoves
  PROVE  ConsentInv'
<1>1. /\ UNCHANGED <<row, linked, landed, ans, doomed, calm>>
      /\ pc' = [pc EXCEPT ![p] = "fetch"] /\ on' = [on EXCEPT ![p] = h]
      /\ row[h] # None /\ row[h].cid /\ pc[p] = "idle"
  BY DEF StartFetch, Go, Fetchable
<1>2. TypeOK'
  BY <1>1 DEF ConsentInv, TypeOK, Steps
<1>3. Fits(p)'
  <2>1. pc'[p] = "fetch" /\ on'[p] = h /\ p \notin calm
    BY <1>1 DEF ConsentInv, TypeOK, Fits, CalmFits
  <2> QED BY <1>1, <2>1
          DEF Fits, FetchFits, CreateFits, AskFits, StampFits, LinkFits, CalmFits
<1>4. \A q \in Procs \ {p} : Same(q)
  BY <1>1 DEF Same, ConsentInv, TypeOK
<1> QED BY <1>1, <1>2, <1>3, <1>4, QuietKeeps

LEMMA FetchKeeps ==
  ASSUME ConsentInv, NEW p \in Procs, FetchStatements(p)
  PROVE  ConsentInv'
<1>1. /\ Forget(p) /\ calm' = calm \ {p} /\ UNCHANGED <<gw, wire, moves, row, linked>>
      /\ landed' = landed \cup {on[p]} /\ pc[p] = "fetch"
  BY DEF FetchStatements, outside
<1>2. /\ pc' \in [Procs -> Steps] /\ on' \in [Procs -> Handles]
      /\ ans' \in [Procs -> Truth] /\ doomed' \in [Procs -> SUBSET Accts]
      /\ pc'[p] = "idle" /\ \A q \in Procs \ {p} : Same(q)
  BY <1>1, Forgotten DEF ConsentInv
<1>3. TypeOK'
  BY <1>1, <1>2 DEF ConsentInv, TypeOK
<1>4. row[on[p]] # None /\ row[on[p]].cid
  BY <1>1 DEF ConsentInv, Fits, FetchFits
<1>5. LinkedIsIdentified'
  BY <1>1, <1>4 DEF ConsentInv, LinkedIsIdentified
<1>6. \A k \in Handles : GwFits(k)'
  BY <1>1 DEF ConsentInv, GwFits
<1>7. ASSUME NEW q \in Procs \ {p} PROVE Fits(q)'
  <2>1. on[q] \in Handles /\ Fits(q) /\ Same(q)
    BY <1>2 DEF ConsentInv, TypeOK
  <2>2. RowsKept /\ GwKept /\ CalmKept(q)
    BY <1>1 DEF RowsKept, GwKept, CalmKept
  <2> QED BY <2>1, <2>2, Undisturbed
<1>8. Fits(p)'
  BY <1>1, <1>2, Returned
<1> QED BY <1>3, <1>5, <1>6, <1>7, <1>8 DEF ConsentInv

(* Nothing but the wire changes, or nothing at all. *)
LEMMA IdleKeeps ==
  ASSUME ConsentInv, gw' = gw, wire' \subseteq wire, moves' \in 0..MaxMoves,
         UNCHANGED <<row, linked, landed, pc, memory, calm>>
  PROVE  ConsentInv'
<1>1. TypeOK'
  BY DEF ConsentInv, TypeOK, memory
<1>2. LinkedIsIdentified' /\ \A k \in Handles : GwFits(k)'
  BY DEF ConsentInv, LinkedIsIdentified, GwFits
<1>3. ASSUME NEW q \in Procs PROVE Fits(q)'
  <2>1. on[q] \in Handles /\ Fits(q) /\ Same(q)
    BY DEF ConsentInv, TypeOK, Same, memory
  <2>2. RowsKept /\ GwKept /\ CalmKept(q)
    BY DEF RowsKept, GwKept, CalmKept
  <2> QED BY <2>1, <2>2, Undisturbed
<1> QED BY <1>1, <1>2, <1>3 DEF ConsentInv

LEMMA TakeKeeps ==
  ASSUME ConsentInv, NEW m \in wire, NotifyUnknown(m) \/ DataNotFetchable(m)
  PROVE  ConsentInv'
<1>1. gw' = gw /\ wire' \subseteq wire /\ moves' \in 0..MaxMoves
      /\ UNCHANGED <<row, linked, landed, pc, memory, calm>>
  BY ConsentAssumption DEF NotifyUnknown, DataNotFetchable, Take, ConsentInv, TypeOK
<1> QED BY <1>1, IdleKeeps

-----------------------------------------------------------------------------
(* The invariant.                                                          *)

LEMMA ProcKeeps ==
  ASSUME ConsentInv, NEW p \in Procs, ProcStep(p)
  PROVE  ConsentInv'
BY StoreKeeps, AskKeeps, StampKeeps, UpsertKeeps, EndKeeps, LinkKeeps, FetchKeeps
   DEF ProcStep

LEMMA CallKeeps ==
  ASSUME ConsentInv, NEW p \in Procs, NEW h \in Handles, Call(p, h)
  PROVE  ConsentInv'
<1>1. CASE FetchConsentData(p, h)
  <2>1. StartFetch(p, h) /\ gw' = gw /\ wire' \subseteq wire /\ moves' \in 0..MaxMoves
    BY <1>1 DEF FetchConsentData, outside, ConsentInv, TypeOK
  <2> QED BY <2>1, StartFetchKeeps
<1>2. CASE Request(p, h) \/ Refresh(p, h) \/ CompleteRedirectApproved(p, h)
  BY <1>2, RequestKeeps, BeginKeeps DEF CompleteRedirectApproved
<1> QED BY <1>1, <1>2 DEF Call

LEMMA WebhookKeeps ==
  ASSUME ConsentInv, NEW p \in Procs, NEW m \in wire, Webhook(p, m)
  PROVE  ConsentInv'
<1>1. CASE HandleConsentNotification(p, m)
  BY <1>1, NoticeKeeps
<1>2. CASE HandleDataNotification(p, m)
  <2>1. m \in Hooks
    BY DEF ConsentInv, TypeOK
  <2>2. m.handle \in Handles
    BY <2>1 DEF Hooks, ConsentHook, DataHook
  <2>3. StartFetch(p, m.handle) /\ gw' = gw /\ wire' \subseteq wire
        /\ moves' \in 0..MaxMoves
    BY <1>2, ConsentAssumption DEF HandleDataNotification, Take, ConsentInv, TypeOK
  <2> QED BY <2>2, <2>3, StartFetchKeeps
<1> QED BY <1>1, <1>2 DEF Webhook

LEMMA ConsentInvInit == ASSUME Init PROVE ConsentInv
<1>1. (CHOOSE h \in Handles : TRUE) \in Handles
  BY ConsentAssumption
<1>2. Unissued \in Truth
  BY DEF Unissued, Truth
<1>3. TypeOK
  BY <1>1, <1>2, ConsentAssumption DEF Init, TypeOK, Steps
<1>4. LinkedIsIdentified /\ \A h \in Handles : GwFits(h)
  BY DEF Init, LinkedIsIdentified, GwFits, Unissued
<1>5. \A p \in Procs : Fits(p)
  BY DEF Init, Fits, FetchFits, CreateFits, AskFits, StampFits, LinkFits, CalmFits
<1> QED BY <1>3, <1>4, <1>5 DEF ConsentInv

LEMMA ConsentInvNext == ASSUME ConsentInv, [Next]_vars PROVE ConsentInv'
<1>1. CASE \E h \in Handles : GwStep(h) \/ CompleteRedirectDeclined(h)
  BY <1>1, GwStepKeeps, DeclineKeeps
<1>2. CASE \E p \in Procs : ProcStep(p) \/ GiveUp(p) \/ \E h \in Handles : Call(p, h)
  BY <1>2, ProcKeeps, EndKeeps, CallKeeps
<1>3. CASE \E m \in wire : \/ NotifyUnknown(m) \/ DataNotFetchable(m)
                           \/ \E p \in Procs : Webhook(p, m)
  BY <1>3, TakeKeeps, WebhookKeeps
<1>4. CASE UNCHANGED vars
  <2>1. gw' = gw /\ wire' \subseteq wire /\ moves' \in 0..MaxMoves
        /\ UNCHANGED <<row, linked, landed, pc, memory, calm>>
    BY <1>4 DEF vars, outside, ConsentInv, TypeOK
  <2> QED BY <2>1, IdleKeeps
<1> QED BY <1>1, <1>2, <1>3, <1>4 DEF Next


-----------------------------------------------------------------------------
(* The theorems.                                                           *)

(* Every variable keeps its type: what the repository stores for a handle   *)
(* is a known status, whatever the gateway, a webhook or a browser said.   *)
THEOREM ConsentTypeCorrect == Spec => []TypeOK
<1>1. Init => ConsentInv
  BY ConsentInvInit
<1>2. ConsentInv /\ [Next]_vars => ConsentInv'
  BY ConsentInvNext
<1>3. ConsentInv => TypeOK
  BY DEF ConsentInv
<1> QED BY <1>1, <1>2, <1>3, PTL DEF Spec

(* A consent with linked accounts, or with statements fetched under it,    *)
(* always has its consent id, although row and links are written by        *)
(* different transactions of callers that interleave.                      *)
THEOREM LinksIdentified == Spec => []LinkedIsIdentified
<1>1. Init => ConsentInv
  BY ConsentInvInit
<1>2. ConsentInv /\ [Next]_vars => ConsentInv'
  BY ConsentInvNext
<1>3. ConsentInv => LinkedIsIdentified
  BY DEF ConsentInv
<1> QED BY <1>1, <1>2, <1>3, PTL DEF Spec

LEMMA LinkTells ==
  ASSUME ConsentInv, NEW p \in Procs, RefreshLink(p), p \in calm
  PROVE  row'[on[p]].status = gw'[on[p]].status /\ linked'[on[p]] = gw'[on[p]].accts
<1>1. /\ ans[p] = gw[on[p]]
      /\ row[on[p]].status = gw[on[p]].status
      /\ doomed[p] = linked[on[p]] \ ans[p].accts
  BY DEF RefreshLink, ConsentInv, Fits, CalmFits
<1>2. row' = row /\ gw' = gw
  BY DEF RefreshLink, outside
<1>3. linked'[on[p]] = (linked[on[p]] \ doomed[p]) \cup ans[p].accts
  BY DEF RefreshLink, ReplaceLinkedAccounts, ConsentInv, TypeOK
<1>4. linked[on[p]] \subseteq Accts
  BY DEF ConsentInv, TypeOK
<1>5. linked'[on[p]] = ans[p].accts
  BY <1>1, <1>3
<1> QED BY <1>1, <1>2, <1>5

(* A refresh nobody disturbed between the gateway's answer and its commit  *)
(* leaves the consent as the gateway has it, links that the answer dropped *)
(* included, whatever was lost, late or repeated before it.                *)
THEOREM RefreshRecovers == Spec => RefreshTells
<1>1. Init => ConsentInv
  BY ConsentInvInit
<1>2. ConsentInv /\ [Next]_vars => ConsentInv'
  BY ConsentInvNext
<1>3. ConsentInv /\ [Next]_vars =>
        [\A p \in Procs :
            (RefreshLink(p) /\ p \in calm) =>
               /\ row'[on[p]].status = gw'[on[p]].status
               /\ linked'[on[p]] = gw'[on[p]].accts]_vars
  BY LinkTells
<1> QED BY <1>1, <1>2, <1>3, PTL DEF Spec, RefreshTells
=============================================================================
