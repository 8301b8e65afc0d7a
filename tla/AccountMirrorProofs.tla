------------------------- MODULE AccountMirrorProofs -------------------------
(***************************************************************************)
(* The account mirror for any accounts, answers and number of callers:     *)
(* type correctness, that background refreshes are single-flight, and      *)
(* that racing refreshes leave one answer of the bank.                     *)
(***************************************************************************)
EXTENDS AccountMirror, TLAPS

(* Rows taken from the first n answers of the bank.                        *)
RowsOf(n) == [Accounts -> 0 .. n]

(* A process that has seen n answers.                                      *)
Local(n) ==
    [pc : {"idle", "link", "ask", "upsert", "scan", "delete", "evict", "fill"},
     op : {"none", "refresh", "revoke", "list"},
     answer : 0 .. n, next : Nat, targets : SUBSET Accounts,
     write : [Accounts -> (0 .. n) \cup {Same}], rows : RowsOf(n)]

(* What makes TypeOK inductive: nobody holds rows of an answer that the    *)
(* bank has yet to give.                                                   *)
MirrorInv == TypeOK /\ proc \in [Processes -> Local(Len(answered))]

LEMMA LocalIsProcess ==
    ASSUME NEW n \in Nat
    PROVE  Local(n) \subseteq Process
BY DEF Local, Process, RowsOf

LEMMA RowsGrow ==
    ASSUME NEW n \in Nat
    PROVE  /\ RowsOf(n) \subseteq RowsOf(n + 1)
           /\ Local(n) \subseteq Local(n + 1)
<1>1. RowsOf(n) \subseteq RowsOf(n + 1)
  BY DEF RowsOf
<1>2. ASSUME NEW r \in Local(n)
      PROVE  r \in Local(n + 1)
  <2>1. r.write \in [Accounts -> (0 .. n + 1) \cup {Same}]
    BY DEF Local
  <2>2. r.rows \in RowsOf(n + 1)
    BY <1>1 DEF Local
  <2>3. r.answer \in 0 .. n + 1
    BY DEF Local
  <2>4. QED
    BY <2>1, <2>2, <2>3 DEF Local
<1>3. QED
  BY <1>1, <1>2

LEMMA Answered ==
    ASSUME NEW n \in Nat, NEW r \in Local(n), NEW k \in 0 .. n,
           NEW pc \in {"scan", "upsert"}
    PROVE  [r EXCEPT !.answer = k, !.pc = pc] \in Local(n)
BY DEF Local

LEMMA Upserted ==
    ASSUME NEW n \in Nat, NEW r \in Local(n), NEW a, NEW pc \in {"scan", "upsert"}
    PROVE  [r EXCEPT !.write[a] = r.answer, !.next = @ + 1, !.pc = pc] \in Local(n)
<1>1. [r.write EXCEPT ![a] = r.answer] \in [Accounts -> (0 .. n) \cup {Same}]
  BY DEF Local
<1>2. r.next + 1 \in Nat
  BY DEF Local
<1>3. QED
  BY <1>1, <1>2 DEF Local

LEMMA IdleIsLocal ==
    ASSUME NEW n \in Nat
    PROVE  Idle \in Local(n) /\ NoRows \in RowsOf(n)
BY DEF Idle, Local, NoRows, RowsOf

LEMMA LenIsNat ==
    ASSUME TypeOK
    PROVE  Len(answered) \in Nat /\ answered \in Seq(Answers)
BY DEF TypeOK

(* A step of p to another local state keeps the invariant, as long as the  *)
(* tables and the cache keep their types.                                  *)
LEMMA StepKeeps ==
    ASSUME MirrorInv, NEW p \in Processes, NEW r \in Local(Len(answered)),
           Step(p, r), UNCHANGED answered,
           link' \in {"none", "no_cif", "cif"},
           mirror' \in RowsOf(Len(answered)),
           cache' \in [age : 0 .. TTL + 1, rows : RowsOf(Len(answered))],
           inflight' \in BOOLEAN, revoked' \in BOOLEAN, writes' \in Nat
    PROVE  MirrorInv'
<1>1. proc' \in [Processes -> Local(Len(answered))]
  BY DEF MirrorInv, Step
<1>2. proc' \in [Processes -> Process]
  BY <1>1, LenIsNat, LocalIsProcess DEF MirrorInv
<1>3. QED
  BY <1>1, <1>2 DEF MirrorInv, TypeOK, RowsOf

LEMMA EntryTypes ==
    ASSUME MirrorInv
    PROVE  /\ NoEntry \in [age : 0 .. TTL + 1, rows : RowsOf(Len(answered))]
           /\ cache \in [age : 0 .. TTL + 1, rows : RowsOf(Len(answered))]
           /\ mirror \in RowsOf(Len(answered))
           /\ Idle \in Local(Len(answered))
           /\ Len(answered) \in Nat
BY MirrorAssumption, LenIsNat, IdleIsLocal DEF MirrorInv, TypeOK, NoEntry, RowsOf

LEMMA EndKeeps ==
    ASSUME MirrorInv, NEW p \in Processes, End(p)
    PROVE  MirrorInv'
BY StepKeeps, EntryTypes DEF End, ReleaseAlways, tables, MirrorInv, TypeOK

(* One step of Answer: the new list is the last one.                       *)
LEMMA AnswerKeeps ==
    ASSUME MirrorInv, NEW p \in Processes, NEW list \in Answers,
           answered' = Append(answered, list),
           Step(p, [proc[p] EXCEPT !.answer = Len(answered) + 1,
                                   !.pc = IF list = << >> THEN "scan" ELSE "upsert"]),
           UNCHANGED <<tables, cache, inflight, writes, revoked>>
    PROVE  MirrorInv'
<1> DEFINE n == Len(answered)
<1>1. n \in Nat /\ Len(answered') = n + 1 /\ answered' \in Seq(Answers)
  BY LenIsNat DEF MirrorInv
<1>2. proc \in [Processes -> Local(n + 1)]
  BY <1>1, RowsGrow DEF MirrorInv
<1>3. [proc[p] EXCEPT !.answer = n + 1,
                      !.pc = IF list = << >> THEN "scan" ELSE "upsert"] \in Local(n + 1)
  <2>1. ASSUME NEW pc \in {"scan", "upsert"}
        PROVE  [proc[p] EXCEPT !.answer = n + 1, !.pc = pc] \in Local(n + 1)
    <3>1. proc[p] \in Local(n + 1) /\ n + 1 \in Nat /\ n + 1 \in 0 .. n + 1
      BY <1>1, <1>2
    <3>2. QED
      BY <3>1, Answered
  <2>2. (IF list = << >> THEN "scan" ELSE "upsert") \in {"scan", "upsert"}
    OBVIOUS
  <2>3. QED
    BY ONLY <2>1, <2>2
<1>4. proc' \in [Processes -> Local(n + 1)]
  BY <1>2, <1>3 DEF Step
<1>5. mirror' \in RowsOf(n + 1) /\ cache'.rows \in RowsOf(n + 1)
      /\ cache' \in [age : 0 .. TTL + 1, rows : RowsOf(n)]
  BY <1>1, EntryTypes, RowsGrow DEF tables
<1>6. cache' \in [age : 0 .. TTL + 1, rows : RowsOf(n + 1)]
  BY <1>1, <1>5, RowsGrow
<1>7. proc' \in [Processes -> Process]
  BY <1>1, <1>4, LocalIsProcess
<1>8. QED
  BY <1>1, <1>4, <1>5, <1>6, <1>7 DEF MirrorInv, TypeOK, RowsOf, tables

LEMMA InitMirror == Init => MirrorInv
<1> SUFFICES ASSUME Init
             PROVE  MirrorInv
  OBVIOUS
<1>1. Len(answered) = 0 /\ answered \in Seq(Answers)
  BY DEF Init
<1>2. proc \in [Processes -> Local(0)] /\ NoRows \in RowsOf(0)
  BY IdleIsLocal DEF Init
<1>3. proc \in [Processes -> Process]
  BY <1>2, LocalIsProcess
<1>4. cache \in [age : 0 .. TTL + 1, rows : RowsOf(0)]
  BY <1>2, MirrorAssumption DEF Init, NoEntry
<1>5. mirror \in RowsOf(0) /\ link = "none" /\ inflight = FALSE /\ revoked = FALSE
      /\ writes = 0
  BY <1>2 DEF Init
<1>6. TypeOK
  BY <1>1, <1>3, <1>4, <1>5 DEF TypeOK, RowsOf
<1>7. QED
  BY <1>1, <1>2, <1>6 DEF MirrorInv

(* The steps of a caller that is idle.                                     *)
LEMMA CallerKeeps ==
    ASSUME MirrorInv, NEW p \in Callers,
           \/ SetLink(p, "cif") \/ SetLink(p, "no_cif")
           \/ BeginRefresh(p) \/ BeginRevoke(p) \/ ListHit(p) \/ ListMiss(p)
    PROVE  MirrorInv'
<1> DEFINE n == Len(answered)
<1>0. p \in Processes
  BY DEF Processes
<1>1. ASSUME NEW l \in {"cif", "no_cif"}, SetLink(p, l)
      PROVE  MirrorInv'
  BY <1>1 DEF SetLink, Ask, MirrorInv, TypeOK
<1>2. CASE BeginRefresh(p)
  <2>1. [Idle EXCEPT !.pc = "link", !.op = "refresh"] \in Local(n)
    BY EntryTypes DEF Local
  <2>2. QED
    BY <1>0, <1>2, <2>1, EntryTypes, StepKeeps DEF BeginRefresh, Ask, tables, MirrorInv, TypeOK
<1>3. CASE BeginRevoke(p)
  <2>1. [Idle EXCEPT !.pc = "scan", !.op = "revoke"] \in Local(n)
    BY EntryTypes DEF Local
  <2>2. QED
    BY <1>0, <1>3, <2>1, EntryTypes, StepKeeps DEF BeginRevoke, Ask, tables, MirrorInv, TypeOK
<1>4. CASE ListHit(p)
  BY <1>4 DEF ListHit, vars, MirrorInv, TypeOK
<1>5. CASE ListMiss(p)
  <2>1. [Idle EXCEPT !.pc = "fill", !.op = "list", !.rows = mirror] \in Local(n)
    BY EntryTypes DEF Local
  <2>2. QED
    BY <1>0, <1>5, <2>1, EntryTypes, StepKeeps DEF ListMiss, tables, MirrorInv, TypeOK
<1>6. QED
  BY <1>1, <1>2, <1>3, <1>4, <1>5

(* The steps of a refresh, a revocation or a list that has begun.          *)
LEMMA ProcessKeeps ==
    ASSUME MirrorInv, NEW p \in Processes, Advance(p) \/ Fail(p)
    PROVE  MirrorInv'
<1> DEFINE n == Len(answered)
           me == proc[p]
<1> USE EntryTypes
<1>0. me \in Local(n)
  BY DEF MirrorInv
<1>1. CASE GetLink(p)
  <2>1. [me EXCEPT !.pc = "ask"] \in Local(n)
    BY <1>0 DEF Local
  <2>2. CASE link = "cif"
    BY <1>1, <2>1, <2>2, StepKeeps DEF GetLink, tables, MirrorInv, TypeOK
  <2>3. CASE link # "cif"
    BY <1>1, <2>3, EndKeeps DEF GetLink
  <2>4. QED
    BY <2>2, <2>3
<1>2. CASE Answer(p)
  <2>1. CASE Len(answered) < MaxAnswers
    BY <1>2, <2>1, AnswerKeeps DEF Answer
  <2>2. CASE ~ (Len(answered) < MaxAnswers)
    BY <1>2, <2>2, EndKeeps DEF Answer
  <2>3. QED
    BY <2>1, <2>2
<1>3. CASE Upsert(p)
  <2> DEFINE a == answered[me.answer][me.next]
  <2>1. [me EXCEPT !.write[a] = me.answer, !.next = @ + 1,
                   !.pc = IF me.next = Len(answered[me.answer]) THEN "scan" ELSE "upsert"]
          \in Local(n)
    <3>1. ASSUME NEW pc \in {"scan", "upsert"}
          PROVE  [me EXCEPT !.write[a] = me.answer, !.next = @ + 1, !.pc = pc] \in Local(n)
      BY <1>0, Upserted
    <3>2. (IF me.next = Len(answered[me.answer]) THEN "scan" ELSE "upsert")
            \in {"scan", "upsert"}
      OBVIOUS
    <3>3. QED
      BY ONLY <3>1, <3>2
  <2>2. QED
    BY <1>3, <2>1, StepKeeps DEF Upsert, tables, MirrorInv, TypeOK
<1>4. CASE Scan(p)
  <2> DEFINE kept == IF me.op = "refresh" THEN Keep(p) ELSE {}
  <2>1. [me EXCEPT !.pc = "delete",
                   !.targets = {a \in Accounts \ kept : mirror[a] # 0}] \in Local(n)
    <3>1. {a \in Accounts \ kept : mirror[a] # 0} \subseteq Accounts
      OBVIOUS
    <3>2. QED
      BY <1>0, <3>1 DEF Local
  <2>2. QED
    BY <1>4, <2>1, StepKeeps DEF Scan, tables, MirrorInv, TypeOK
<1>5. CASE DeleteRow(p)
  <2>1. PICK a \in me.targets :
          Step(p, [me EXCEPT !.write[a] = 0, !.targets = @ \ {a}])
    BY <1>5 DEF DeleteRow
  <2>2. [me.write EXCEPT ![a] = 0] \in [Accounts -> (0 .. n) \cup {Same}]
    BY <1>0 DEF Local
  <2>3. [me EXCEPT !.write[a] = 0, !.targets = @ \ {a}] \in Local(n)
    BY <1>0, <2>2 DEF Local
  <2>4. QED
    BY <1>5, <2>1, <2>3, StepKeeps DEF DeleteRow, tables, MirrorInv, TypeOK
<1>6. CASE Commit(p)
  <2>1. \A a \in Accounts : me.write[a] # Same => me.write[a] \in 0 .. n
    BY <1>0 DEF Local
  <2>2. mirror' \in RowsOf(n)
    BY <1>6, <2>1 DEF Commit, RowsOf
  <2>3. [Idle EXCEPT !.pc = "evict", !.op = me.op] \in Local(n)
    BY <1>0 DEF Local
  <2>4. QED
    BY <1>6, <2>2, <2>3, StepKeeps DEF Commit, MirrorInv, TypeOK
<1>7. CASE Evict(p)
  BY <1>7, StepKeeps DEF Evict, ReleaseAlways, tables, MirrorInv, TypeOK
<1>8. CASE Fill(p)
  <2>1. cache' \in [age : 0 .. TTL + 1, rows : RowsOf(n)]
    BY <1>0, <1>8, MirrorAssumption DEF Fill, Local
  <2>2. [Idle EXCEPT !.pc = "link", !.op = "refresh"] \in Local(n)
    BY DEF Local
  <2>3. proc' \in [Processes -> Local(n)] /\ inflight' \in BOOLEAN
    BY <1>8, <2>2 DEF Fill, Step, MirrorInv, TypeOK
  <2>4. proc' \in [Processes -> Process]
    BY <2>3, LocalIsProcess
  <2>5. QED
    BY <1>8, <2>1, <2>3, <2>4 DEF Fill, tables, MirrorInv, TypeOK, RowsOf
<1>9. CASE Fail(p)
  BY <1>9, EndKeeps DEF Fail
<1>10. QED
  BY <1>1, <1>2, <1>3, <1>4, <1>5, <1>6, <1>7, <1>8, <1>9 DEF Advance

LEMMA StepMirror ==
    ASSUME MirrorInv, [Next]_vars
    PROVE  MirrorInv'
<1>1. CASE Tick
  <2>1. cache' \in [age : 0 .. TTL + 1, rows : RowsOf(Len(answered))]
    BY <1>1, EntryTypes, MirrorAssumption DEF Tick, Valid
  <2>2. QED
    BY <1>1, <2>1 DEF Tick, tables, MirrorInv, TypeOK, RowsOf
<1>2. CASE Restart
  <2>1. proc' \in [Processes -> Local(Len(answered))]
    BY <1>2, EntryTypes DEF Restart
  <2>2. proc' \in [Processes -> Process]
    BY <2>1, EntryTypes, LocalIsProcess
  <2>3. QED
    BY <1>2, <2>1, <2>2, EntryTypes DEF Restart, tables, MirrorInv, TypeOK, RowsOf
<1>3. CASE UNCHANGED vars
  BY <1>3 DEF vars, tables, MirrorInv, TypeOK
<1>4. QED
  BY <1>1, <1>2, <1>3, CallerKeeps, ProcessKeeps DEF Next

(* The mirror, the cache and every request hold only rows of lists the     *)
(* bank has given out, or none.                                            *)
THEOREM MirrorTypeCorrect == Spec => []TypeOK
<1>1. MirrorInv => TypeOK
  BY DEF MirrorInv
<1>2. QED
  BY <1>1, InitMirror, StepMirror, PTL DEF Spec
-----------------------------------------------------------------------------
(* Single flight.  A step of a caller does not touch Background's place,   *)
(* and Background gives the mark back in the very step in which it ends.   *)

LEMMA CallerLeavesBackground ==
    ASSUME TypeOK, SingleFlight, NEW p \in Callers,
           \/ SetLink(p, "cif") \/ SetLink(p, "no_cif")
           \/ BeginRefresh(p) \/ BeginRevoke(p) \/ ListHit(p) \/ ListMiss(p)
    PROVE  SingleFlight' /\ proc'[Background] = proc[Background]
<1>1. Background # p /\ Background \in Processes /\ p \in Processes
  BY MirrorAssumption DEF Processes
<1>2. proc'[Background] = proc[Background] /\ inflight' = inflight
  BY <1>1 DEF SetLink, BeginRefresh, BeginRevoke, ListHit, ListMiss, Step, vars, TypeOK
<1>3. QED
  BY <1>2 DEF SingleFlight

LEMMA EndGivesBack ==
    ASSUME TypeOK, SingleFlight, NEW p \in Processes,
           Step(p, Idle), ReleaseAlways(p)
    PROVE  SingleFlight'
<1>1. Background \in Processes /\ Idle.pc = "idle"
  BY DEF Processes, Idle
<1>2. CASE p = Background
  BY <1>1, <1>2 DEF SingleFlight, Step, ReleaseAlways, TypeOK
<1>3. CASE p # Background
  BY <1>1, <1>3 DEF SingleFlight, Step, ReleaseAlways, TypeOK
<1>4. QED
  BY <1>2, <1>3

(* A step on the way keeps the process running.                            *)
LEMMA OnTheWay ==
    ASSUME TypeOK, SingleFlight, NEW p \in Processes, proc[p].pc # "idle",
           NEW r, r.pc # "idle", Step(p, r), UNCHANGED inflight
    PROVE  SingleFlight'
<1>1. Background \in Processes
  BY DEF Processes
<1>2. proc'[Background].pc # "idle" <=> proc[Background].pc # "idle"
  BY <1>1 DEF Step, TypeOK
<1>3. QED
  BY <1>2 DEF SingleFlight

(* Background never lists, so it is never at the place where a List starts *)
(* a refresh.                                                              *)
NeverFills == proc[Background].pc # "fill"

LEMMA AdvanceKeepsFlight ==
    ASSUME TypeOK, SingleFlight, NeverFills, NEW p \in Processes, Advance(p) \/ Fail(p)
    PROVE  SingleFlight'
<1> DEFINE me == proc[p]
<1>0. Background \in Processes /\ Idle.pc = "idle"
  BY DEF Processes, Idle
<1>1. CASE GetLink(p)
  <2>1. CASE link = "cif"
    <3>1. [me EXCEPT !.pc = "ask"].pc # "idle"
      BY DEF TypeOK, Process
    <3>2. QED
      BY <1>1, <2>1, <3>1, OnTheWay DEF GetLink
  <2>2. CASE link # "cif"
    BY <1>1, <2>2, EndGivesBack DEF GetLink, End
  <2>3. QED
    BY <2>1, <2>2
<1>2. CASE Answer(p)
  <2>1. CASE Len(answered) < MaxAnswers
    <3>1. PICK list \in Answers :
            Step(p, [me EXCEPT !.answer = Len(answered) + 1,
                               !.pc = IF list = << >> THEN "scan" ELSE "upsert"])
      BY <1>2, <2>1 DEF Answer
    <3>2. [me EXCEPT !.answer = Len(answered) + 1,
                     !.pc = IF list = << >> THEN "scan" ELSE "upsert"].pc # "idle"
      BY DEF TypeOK, Process
    <3>3. QED
      BY <1>2, <2>1, <3>1, <3>2, OnTheWay DEF Answer
  <2>2. CASE ~ (Len(answered) < MaxAnswers)
    BY <1>2, <2>2, EndGivesBack DEF Answer, End
  <2>3. QED
    BY <2>1, <2>2
<1>3. CASE Upsert(p)
  <2> DEFINE a == answered[me.answer][me.next]
             to == [me EXCEPT !.write[a] = me.answer, !.next = @ + 1,
                              !.pc = IF me.next = Len(answered[me.answer])
                                     THEN "scan" ELSE "upsert"]
  <2>1. to.pc # "idle"
    BY DEF TypeOK, Process
  <2>2. Step(p, to) /\ me.pc # "idle" /\ UNCHANGED inflight
    BY <1>3 DEF Upsert
  <2> HIDE DEF to
  <2>3. QED
    BY <2>1, <2>2, OnTheWay
<1>4. CASE Scan(p)
  <2> DEFINE kept == IF me.op = "refresh" THEN Keep(p) ELSE {}
             to == [me EXCEPT !.pc = "delete",
                              !.targets = {a \in Accounts \ kept : mirror[a] # 0}]
  <2>1. to.pc # "idle"
    BY DEF TypeOK, Process
  <2>2. Step(p, to) /\ me.pc # "idle" /\ UNCHANGED inflight
    BY <1>4 DEF Scan
  <2> HIDE DEF to
  <2>3. QED
    BY <2>1, <2>2, OnTheWay
<1>5. CASE DeleteRow(p)
  <2>1. PICK a \in me.targets :
          Step(p, [me EXCEPT !.write[a] = 0, !.targets = @ \ {a}])
    BY <1>5 DEF DeleteRow
  <2> DEFINE to == [me EXCEPT !.write[a] = 0, !.targets = @ \ {a}]
  <2>2. to.pc = me.pc
    BY DEF TypeOK, Process
  <2>3. Step(p, to) /\ me.pc # "idle" /\ UNCHANGED inflight
    BY <1>5, <2>1 DEF DeleteRow
  <2> HIDE DEF to
  <2>4. QED
    BY <2>2, <2>3, OnTheWay
<1>6. CASE Commit(p)
  <2>1. [Idle EXCEPT !.pc = "evict", !.op = me.op].pc # "idle"
    BY DEF Idle
  <2>2. QED
    BY <1>6, <2>1, OnTheWay DEF Commit
<1>7. CASE Evict(p)
  BY <1>7, EndGivesBack DEF Evict
<1>8. CASE Fill(p)
  <2>1. p # Background
    BY <1>8 DEF Fill, NeverFills
  <2>2. CASE inflight' = inflight /\ Step(p, Idle)
    BY <1>0, <2>1, <2>2 DEF Step, SingleFlight, TypeOK
  <2>3. CASE /\ inflight' = TRUE
             /\ proc' = [proc EXCEPT ![p] = Idle,
                  ![Background] = [Idle EXCEPT !.pc = "link", !.op = "refresh"]]
    BY <1>0, <2>1, <2>3 DEF SingleFlight, TypeOK, Idle
  <2>4. QED
    BY <1>8, <2>2, <2>3 DEF Fill
<1>9. CASE Fail(p)
  BY <1>9, EndGivesBack DEF Fail, End
<1>10. QED
  BY <1>1, <1>2, <1>3, <1>4, <1>5, <1>6, <1>7, <1>8, <1>9 DEF Advance
(* Where a process goes from here: never to the place where a List fills.  *)
LEMMA GoesElsewhere ==
    ASSUME TypeOK, NeverFills, NEW p \in Processes, Advance(p) \/ Fail(p)
    PROVE  NeverFills'
<1> DEFINE me == proc[p]
<1>0. Background \in Processes /\ Idle.pc = "idle"
  BY DEF Processes, Idle
<1>1. ASSUME NEW r, r.pc # "fill", Step(p, r)
      PROVE  NeverFills'
  BY <1>0, <1>1 DEF Step, NeverFills, TypeOK
<1>2. CASE End(p)
  BY <1>0, <1>1, <1>2 DEF End
<1>3. CASE GetLink(p) /\ link = "cif"
  <2>1. [me EXCEPT !.pc = "ask"].pc # "fill"
    BY DEF TypeOK, Process
  <2>2. QED
    BY <1>1, <1>3, <2>1 DEF GetLink
<1>4. CASE Answer(p) /\ Len(answered) < MaxAnswers
  <2>1. PICK list \in Answers :
          Step(p, [me EXCEPT !.answer = Len(answered) + 1,
                             !.pc = IF list = << >> THEN "scan" ELSE "upsert"])
    BY <1>4 DEF Answer
  <2>2. [me EXCEPT !.answer = Len(answered) + 1,
                   !.pc = IF list = << >> THEN "scan" ELSE "upsert"].pc # "fill"
    BY DEF TypeOK, Process
  <2>3. QED
    BY <1>1, <2>1, <2>2
<1>5. CASE Upsert(p)
  <2> DEFINE a == answered[me.answer][me.next]
             to == [me EXCEPT !.write[a] = me.answer, !.next = @ + 1,
                              !.pc = IF me.next = Len(answered[me.answer])
                                     THEN "scan" ELSE "upsert"]
  <2>1. to.pc # "fill"
    BY DEF TypeOK, Process
  <2>2. Step(p, to)
    BY <1>5 DEF Upsert
  <2> HIDE DEF to
  <2>3. QED
    BY <1>1, <2>1, <2>2
<1>6. CASE Scan(p)
  <2> DEFINE kept == IF me.op = "refresh" THEN Keep(p) ELSE {}
             to == [me EXCEPT !.pc = "delete",
                              !.targets = {a \in Accounts \ kept : mirror[a] # 0}]
  <2>1. to.pc # "fill"
    BY DEF TypeOK, Process
  <2>2. Step(p, to)
    BY <1>6 DEF Scan
  <2> HIDE DEF to
  <2>3. QED
    BY <1>1, <2>1, <2>2
<1>7. CASE DeleteRow(p)
  <2>1. PICK a \in me.targets :
          Step(p, [me EXCEPT !.write[a] = 0, !.targets = @ \ {a}])
    BY <1>7 DEF DeleteRow
  <2> DEFINE to == [me EXCEPT !.write[a] = 0, !.targets = @ \ {a}]
  <2>2. to.pc = "delete"
    BY <1>7 DEF DeleteRow, TypeOK, Process
  <2> HIDE DEF to
  <2>3. QED
    BY <1>1, <2>1, <2>2 DEF to
<1>8. CASE Commit(p)
  <2>1. [Idle EXCEPT !.pc = "evict", !.op = me.op].pc # "fill"
    BY DEF Idle
  <2>2. QED
    BY <1>1, <1>8, <2>1 DEF Commit
<1>9. CASE Evict(p)
  BY <1>0, <1>1, <1>9 DEF Evict
<1>10. CASE Fill(p)
  <2>1. CASE Step(p, Idle)
    BY <1>0, <1>1, <2>1
  <2>2. CASE proc' = [proc EXCEPT ![p] = Idle,
                         ![Background] = [Idle EXCEPT !.pc = "link", !.op = "refresh"]]
    <3>1. [Idle EXCEPT !.pc = "link", !.op = "refresh"].pc = "link"
      BY DEF Idle
    <3>2. QED
      BY <1>0, <2>2, <3>1 DEF NeverFills, TypeOK
  <2>3. QED
    BY <1>10, <2>1, <2>2 DEF Fill
<1>11. QED
  BY <1>2, <1>3, <1>4, <1>5, <1>6, <1>7, <1>8, <1>9, <1>10
  DEF Advance, Fail, GetLink, Answer

LEMMA StepFlight ==
    ASSUME TypeOK, SingleFlight, NeverFills, [Next]_vars
    PROVE  SingleFlight' /\ NeverFills'
<1>1. CASE Tick
  BY <1>1 DEF Tick, SingleFlight, NeverFills
<1>2. CASE Restart
  BY <1>2 DEF Restart, SingleFlight, NeverFills, Processes, Idle
<1>3. CASE UNCHANGED vars
  BY <1>3 DEF vars, SingleFlight, NeverFills
<1>4. ASSUME NEW p \in Callers,
             \/ SetLink(p, "cif") \/ SetLink(p, "no_cif")
             \/ BeginRefresh(p) \/ BeginRevoke(p) \/ ListHit(p) \/ ListMiss(p)
      PROVE  SingleFlight' /\ NeverFills'
  BY <1>4, CallerLeavesBackground DEF NeverFills
<1>5. ASSUME NEW p \in Processes, Advance(p) \/ Fail(p)
      PROVE  SingleFlight' /\ NeverFills'
  BY <1>5, AdvanceKeepsFlight, GoesElsewhere
<1>6. QED
  BY <1>1, <1>2, <1>3, <1>4, <1>5 DEF Next

(* However many Lists race, and however a background refresh ends, the     *)
(* mark is set exactly while that refresh runs.                            *)
THEOREM SingleFlightHolds == Spec => []SingleFlight
<1>1. Init => SingleFlight /\ NeverFills
  BY DEF Init, SingleFlight, NeverFills, Processes, Idle
<1>2. TypeOK /\ SingleFlight /\ NeverFills /\ [Next]_vars => SingleFlight' /\ NeverFills'
  BY StepFlight
<1>3. QED
  BY <1>1, <1>2, MirrorTypeCorrect, PTL DEF Spec
-----------------------------------------------------------------------------
(* Racing refreshes.  Of two refreshes whose lists share an account the    *)
(* one that takes its row later has waited for the other's commit, so it   *)
(* scans after it: what a prune does not see is of a list apart.           *)
First(list, n) == {list[i] : i \in 1 .. n}

Disjoint(l, m) == Range(l) \cap Range(m) = {}

(* What a process with local state r has written, the bank having given    *)
(* `lists` and `rows` being committed.                                     *)
Fits(r, lists, rows) ==
    /\ r.pc \in {"link", "ask", "upsert"} => r.op = "refresh"
    /\ r.pc \in {"scan", "delete"} => r.op \in {"refresh", "revoke"}
    /\ r.pc \in {"link", "ask"} => r.next = 1
    /\ r.pc \in {"upsert", "scan", "delete"} /\ r.op = "refresh" =>
         r.answer \in 1 .. Len(lists)
    /\ r.pc = "upsert" =>
         /\ r.next \in 1 .. Len(lists[r.answer])
         /\ \A a \in First(lists[r.answer], r.next - 1) : r.write[a] # Same
    /\ r.pc \in {"upsert", "scan"} /\ r.op = "refresh" =>
         \A a \in Accounts :
            r.write[a] # Same => a \in Range(lists[r.answer]) /\ r.write[a] = r.answer
    /\ r.pc \in {"scan", "delete"} /\ r.op = "refresh" =>
         \A a \in Range(lists[r.answer]) : r.write[a] = r.answer
    /\ r.pc = "delete" /\ r.op = "refresh" =>
         /\ r.targets \cap Range(lists[r.answer]) = {}
         /\ \A a \in Accounts \ Range(lists[r.answer]) :
              /\ r.write[a] \in {0, Same}
              /\ rows[a] # 0 /\ r.write[a] = Same =>
                   a \in r.targets \/ Disjoint(lists[rows[a]], lists[r.answer])
    /\ r.pc = "delete" /\ r.op = "revoke" => \A a \in Accounts : r.write[a] \in {0, Same}
    /\ r.pc \in {"idle", "link", "ask", "evict", "fill"} \/ (r.pc = "scan" /\ r.op = "revoke") =>
         \A a \in Accounts : r.write[a] = Same

RowsLocked ==
    \A p \in Processes, q \in Processes : \A a \in Accounts :
        proc[p].write[a] # Same /\ proc[q].write[a] # Same => p = q

RaceInv ==
    /\ \A p \in Processes : Fits(proc[p], answered, mirror)
    /\ \A p \in Processes : proc[p].op = "revoke" => revoked
    /\ RowsLocked
    /\ MixedAreApart
    /\ MirrorIsOneAnswer

(* What the promises say of the committed rows alone.                      *)
LEMMA SameRows ==
    ASSUME MixedAreApart, MirrorIsOneAnswer, UNCHANGED <<answered, mirror, revoked>>
    PROVE  MixedAreApart' /\ MirrorIsOneAnswer'
BY DEF MixedAreApart, MirrorIsOneAnswer, Apart, Image

LEMMA IdleFits ==
    ASSUME NEW lists, NEW rows, NEW pc \in {"idle", "link", "evict", "fill"},
           NEW op, pc = "link" => op = "refresh", NEW read
    PROVE  /\ Fits(Idle, lists, rows)
           /\ Fits([Idle EXCEPT !.pc = pc, !.op = op], lists, rows)
           /\ Fits([Idle EXCEPT !.pc = pc, !.op = op, !.rows = read], lists, rows)
BY DEF Fits, Idle

(* What a new answer of the bank leaves alone.                             *)
LEMMA FitsMoreAnswers ==
    ASSUME NEW lists \in Seq(Answers), NEW l \in Answers, NEW r,
           NEW rows \in [Accounts -> 0 .. Len(lists)], Fits(r, lists, rows)
    PROVE  Fits(r, Append(lists, l), rows)
<1> DEFINE more == Append(lists, l)
<1>1. ASSUME NEW k \in 1 .. Len(lists)
      PROVE  k \in 1 .. Len(more) /\ more[k] = lists[k]
  OBVIOUS
<1>2. ASSUME r.answer \in 1 .. Len(lists), NEW a \in Accounts, rows[a] # 0
      PROVE  Disjoint(more[rows[a]], more[r.answer])
               <=> Disjoint(lists[rows[a]], lists[r.answer])
  <2>1. rows[a] \in 1 .. Len(lists)
    BY <1>2
  <2>2. QED
    BY <1>1, <1>2, <2>1
<1> HIDE DEF more
<1>3. r.pc \in {"upsert", "scan", "delete"} /\ r.op = "refresh" =>
        r.answer \in 1 .. Len(lists)
  BY DEF Fits
<1>4. QED
  BY <1>1, <1>2, <1>3 DEF Fits, more

(* A step of p that only takes free rows and leaves the table alone.       *)
LEMMA LocalMove ==
    ASSUME MirrorInv, RaceInv, NEW p \in Processes, NEW r \in Local(Len(answered)),
           Step(p, r), UNCHANGED <<answered, mirror, revoked>>,
           Fits(r, answered, mirror), r.op = "revoke" => revoked,
           \A a \in Accounts : r.write[a] # Same =>
              proc[p].write[a] # Same \/ RowFree(p, a)
    PROVE  RaceInv'
<1>1. proc' = [proc EXCEPT ![p] = r] /\ proc \in [Processes -> Local(Len(answered))]
  BY DEF Step, MirrorInv
<1>2. \A q \in Processes : Fits(proc'[q], answered, mirror)
  BY <1>1 DEF RaceInv
<1>3. RowsLocked'
  <2> SUFFICES ASSUME NEW q \in Processes, NEW s \in Processes, NEW a \in Accounts,
                      proc'[q].write[a] # Same, proc'[s].write[a] # Same, q # s
               PROVE  FALSE
    BY DEF RowsLocked
  <2>1. \A x \in Processes \ {p} : proc'[x] = proc[x]
    BY <1>1
  <2>2. proc'[p] = r
    BY <1>1
  <2>3. CASE q # p /\ s # p
    BY <2>1, <2>3 DEF RaceInv, RowsLocked
  <2>4. ASSUME NEW x \in Processes \ {p}, proc[x].write[a] # Same, r.write[a] # Same
        PROVE  FALSE
    BY <2>4 DEF RaceInv, RowsLocked, RowFree
  <2>5. QED
    BY <2>1, <2>2, <2>3, <2>4
<1>4. \A q \in Processes : proc'[q].op = "revoke" => revoked'
  BY <1>1 DEF RaceInv
<1>5. QED
  BY <1>2, <1>3, <1>4, SameRows DEF RaceInv

LEMMA EndMove ==
    ASSUME MirrorInv, RaceInv, NEW p \in Processes,
           Step(p, Idle), UNCHANGED <<answered, mirror, revoked>>
    PROVE  RaceInv'
<1>1. Idle \in Local(Len(answered))
  BY EntryTypes
<1>2. Fits(Idle, answered, mirror)
  BY IdleFits
<1>3. Idle.op # "revoke" /\ \A a \in Accounts : Idle.write[a] = Same
  BY DEF Idle
<1>4. QED
  BY <1>1, <1>2, <1>3, LocalMove

LEMMA CallerRace ==
    ASSUME MirrorInv, RaceInv, NEW p \in Callers,
           \/ SetLink(p, "cif") \/ SetLink(p, "no_cif")
           \/ BeginRefresh(p) \/ BeginRevoke(p) \/ ListHit(p) \/ ListMiss(p)
    PROVE  RaceInv'
<1> DEFINE n == Len(answered)
<1>0. p \in Processes /\ Idle \in Local(n) /\ mirror \in RowsOf(n)
  BY EntryTypes DEF Processes
<1>1. ASSUME NEW l, SetLink(p, l)
      PROVE  RaceInv'
  BY <1>1, SameRows DEF SetLink, RaceInv, RowsLocked
<1>2. CASE BeginRefresh(p)
  <2> DEFINE r == [Idle EXCEPT !.pc = "link", !.op = "refresh"]
  <2>1. r \in Local(n)
    BY <1>0 DEF Local
  <2>2. Fits(r, answered, mirror)
    BY IdleFits
  <2>3. r.op # "revoke" /\ \A a \in Accounts : r.write[a] = Same
    BY DEF Idle
  <2>4. Step(p, r) /\ UNCHANGED <<answered, mirror, revoked>>
    BY <1>2 DEF BeginRefresh, tables
  <2> HIDE DEF r
  <2>5. QED
    BY <1>0, <2>1, <2>2, <2>3, <2>4, LocalMove
<1>3. CASE BeginRevoke(p)
  <2> DEFINE r == [Idle EXCEPT !.pc = "scan", !.op = "revoke"]
  <2>1. /\ revoked' = TRUE /\ proc' = [proc EXCEPT ![p] = r]
        /\ UNCHANGED <<answered, mirror>>
    BY <1>3 DEF BeginRevoke, Step, tables
  <2>2. (\A a \in Accounts : r.write[a] = Same) /\ Fits(r, answered, mirror)
    BY DEF Fits, Idle
  <2> HIDE DEF r
  <2>3. \A q \in Processes : proc'[q] = IF q = p THEN r ELSE proc[q]
    BY <2>1 DEF MirrorInv
  <2>4. \A q \in Processes : Fits(proc'[q], answered, mirror)
    BY <2>2, <2>3 DEF RaceInv
  <2>5. RowsLocked'
    BY <2>2, <2>3 DEF RaceInv, RowsLocked
  <2>6. MixedAreApart' /\ MirrorIsOneAnswer'
    BY <2>1 DEF RaceInv, MixedAreApart, MirrorIsOneAnswer, Apart
  <2>7. QED
    BY <2>1, <2>4, <2>5, <2>6 DEF RaceInv
<1>4. CASE ListHit(p)
  BY <1>4, SameRows DEF ListHit, vars, tables, RaceInv, RowsLocked
<1>5. CASE ListMiss(p)
  <2> DEFINE r == [Idle EXCEPT !.pc = "fill", !.op = "list", !.rows = mirror]
  <2>1. r \in Local(n)
    BY <1>0 DEF Local
  <2>2. Fits(r, answered, mirror)
    BY IdleFits
  <2>3. r.op # "revoke" /\ \A a \in Accounts : r.write[a] = Same
    BY DEF Idle
  <2>4. Step(p, r) /\ UNCHANGED <<answered, mirror, revoked>>
    BY <1>5 DEF ListMiss, tables
  <2> HIDE DEF r
  <2>5. QED
    BY <1>0, <2>1, <2>2, <2>3, <2>4, LocalMove
<1>6. QED
  BY <1>1, <1>2, <1>3, <1>4, <1>5

(* The answer a transaction mirrors is a list of accounts.                 *)
LEMMA ListOf ==
    ASSUME MirrorInv, NEW k \in 1 .. Len(answered)
    PROVE  /\ answered[k] \in Seq(Accounts) /\ answered[k] \in Answers
           /\ Len(answered[k]) \in Nat
           /\ Range(answered[k]) = First(answered[k], Len(answered[k]))
           /\ Range(answered[k]) \subseteq Accounts
           /\ k # Same
<1>1. answered[k] \in Answers /\ answered[k] \in Seq(Accounts)
  BY LenIsNat, MirrorAssumption DEF MirrorInv
<1>2. QED
  BY <1>1, LenIsNat, MirrorAssumption DEF MirrorInv, Range, First

LEMMA UpsertRace ==
    ASSUME MirrorInv, RaceInv, NEW p \in Processes, Upsert(p)
    PROVE  RaceInv'
<1> DEFINE n == Len(answered)
           me == proc[p]
           k == me.answer
           list == answered[k]
           a == list[me.next]
           r == [me EXCEPT !.write[a] = k, !.next = @ + 1,
                           !.pc = IF me.next = Len(list) THEN "scan" ELSE "upsert"]
<1>0. me \in Local(n) /\ n \in Nat
  BY LenIsNat DEF MirrorInv
<1>1. /\ me.pc = "upsert" /\ RowFree(p, a) /\ Step(p, r)
      /\ UNCHANGED <<answered, mirror, revoked>>
  BY DEF Upsert, tables
<1>2. r \in Local(n)
  <2>1. ASSUME NEW pc \in {"scan", "upsert"}
        PROVE  [me EXCEPT !.write[a] = k, !.next = @ + 1, !.pc = pc] \in Local(n)
    BY <1>0, Upserted
  <2>2. (IF me.next = Len(list) THEN "scan" ELSE "upsert") \in {"scan", "upsert"}
    OBVIOUS
  <2>3. QED
    BY ONLY <2>1, <2>2
<1>3. /\ r.op = me.op /\ r.answer = k /\ r.next = me.next + 1
      /\ r.write = [me.write EXCEPT ![a] = k]
      /\ me.write \in [Accounts -> (0 .. n) \cup {Same}]
      /\ r.pc = IF me.next = Len(list) THEN "scan" ELSE "upsert"
  BY <1>0 DEF Local
<1> HIDE DEF r
<1>4. Fits(r, answered, mirror)
  <2>1. Fits(me, answered, mirror)
    BY DEF RaceInv
  <2>2. /\ k \in 1 .. n /\ me.op = "refresh"
        /\ me.next \in 1 .. Len(list)
        /\ \A x \in First(list, me.next - 1) : me.write[x] # Same
        /\ \A x \in Accounts : me.write[x] # Same => x \in Range(list) /\ me.write[x] = k
    BY <1>1, <2>1 DEF Fits
  <2>3. /\ Range(list) = First(list, Len(list)) /\ Range(list) \subseteq Accounts
        /\ Len(list) \in Nat /\ k # Same /\ list \in Seq(Accounts)
    BY <2>2, ListOf
  <2>4. a \in Range(list)
    BY <2>2, <2>3 DEF First
  <2>5. First(list, me.next) = First(list, me.next - 1) \cup {a}
    BY <2>2, <2>3 DEF First
  <2>6. First(list, me.next) \subseteq Range(list)
    BY <2>2, <2>3 DEF First
  <2>7. \A x \in First(list, me.next) : r.write[x] = k
    BY <1>3, <2>2, <2>3, <2>5, <2>6
  <2>8. \A x \in Accounts : r.write[x] # Same => x \in Range(list) /\ r.write[x] = k
    BY <1>3, <2>2, <2>4
  <2>9. CASE me.next = Len(list)
    <3>1. r.pc = "scan" /\ r.op = "refresh" /\ r.answer = k
      BY <1>3, <2>2, <2>9
    <3>2. \A x \in Range(list) : r.write[x] = k
      BY <2>3, <2>7, <2>9
    <3>3. QED
      BY <2>2, <2>8, <3>1, <3>2 DEF Fits
  <2>10. CASE me.next # Len(list)
    <3>1. r.next \in 1 .. Len(list) /\ r.next - 1 = me.next
      BY <1>3, <2>2, <2>3, <2>10
    <3>2. r.pc = "upsert"
      BY <1>3, <2>10
    <3>3. r.op = "refresh" /\ r.answer = k /\ r.next - 1 = me.next
      BY <1>3, <2>2, <3>1
    <3>4. \A x \in First(list, r.next - 1) : r.write[x] # Same
      BY <2>3, <2>7, <3>3
    <3>5. QED
      BY <2>2, <2>8, <3>1, <3>2, <3>3, <3>4 DEF Fits
  <2>11. QED
    BY <2>9, <2>10
<1>5. ASSUME NEW x \in Accounts, r.write[x] # Same
      PROVE  me.write[x] # Same \/ RowFree(p, x)
  BY <1>1, <1>3, <1>5
<1>S. r.op = "revoke" => revoked
  BY <1>3 DEF RaceInv
<1>6. QED
  BY <1>S, <1>1, <1>2, <1>4, <1>5, LocalMove

LEMMA ScanRace ==
    ASSUME MirrorInv, RaceInv, NEW p \in Processes, Scan(p)
    PROVE  RaceInv'
<1> DEFINE n == Len(answered)
           me == proc[p]
           kept == IF me.op = "refresh" THEN Keep(p) ELSE {}
           due == {a \in Accounts \ kept : mirror[a] # 0}
           r == [me EXCEPT !.pc = "delete", !.targets = due]
<1>0. me \in Local(n) /\ n \in Nat
  BY LenIsNat DEF MirrorInv
<1>1. me.pc = "scan" /\ Step(p, r) /\ UNCHANGED <<answered, mirror, revoked>>
  BY DEF Scan, tables
<1>2. r \in Local(n)
  <2>1. due \subseteq Accounts
    OBVIOUS
  <2>2. QED
    BY <1>0, <2>1 DEF Local
<1>3. /\ r.op = me.op /\ r.answer = me.answer /\ r.write = me.write
      /\ r.pc = "delete" /\ r.targets = due
  BY <1>0 DEF Local
<1> HIDE DEF r
<1>4. Fits(r, answered, mirror)
  <2>1. Fits(me, answered, mirror)
    BY DEF RaceInv
  <2>2. CASE me.op = "refresh"
    <3>1. due = {a \in Accounts \ Range(answered[me.answer]) : mirror[a] # 0}
      BY <2>2 DEF Keep
    <3> HIDE DEF due
    <3>2. QED
      BY <1>1, <1>3, <2>1, <2>2, <3>1 DEF Fits
  <2>3. CASE me.op = "revoke"
    <3> HIDE DEF due
    <3>1. QED
      BY <1>1, <1>3, <2>1, <2>3 DEF Fits
  <2>4. QED
    BY <1>1, <2>1, <2>2, <2>3 DEF Fits
<1>S. r.op = "revoke" => revoked
  BY <1>3 DEF RaceInv
<1>5. QED
  BY <1>1, <1>2, <1>3, <1>4, <1>S, LocalMove

LEMMA DeleteRace ==
    ASSUME MirrorInv, RaceInv, NEW p \in Processes, DeleteRow(p)
    PROVE  RaceInv'
<1> DEFINE n == Len(answered)
           me == proc[p]
<1>0. me \in Local(n) /\ n \in Nat
  BY LenIsNat DEF MirrorInv
<1>1. PICK a \in me.targets :
        RowFree(p, a) /\ Step(p, [me EXCEPT !.write[a] = 0, !.targets = @ \ {a}])
  BY DEF DeleteRow
<1> DEFINE r == [me EXCEPT !.write[a] = 0, !.targets = @ \ {a}]
<1>2. me.pc = "delete" /\ UNCHANGED <<answered, mirror, revoked>> /\ a \in Accounts
  BY <1>0 DEF DeleteRow, tables, Local
<1>3. r \in Local(n)
  <2>1. [me.write EXCEPT ![a] = 0] \in [Accounts -> (0 .. n) \cup {Same}]
    BY <1>0 DEF Local
  <2>2. QED
    BY <1>0, <2>1 DEF Local
<1>4. /\ r.op = me.op /\ r.answer = me.answer /\ r.write = [me.write EXCEPT ![a] = 0]
      /\ r.pc = "delete" /\ r.targets = me.targets \ {a}
      /\ me.write \in [Accounts -> (0 .. n) \cup {Same}]
  BY <1>0, <1>2 DEF Local
<1>5. Step(p, r)
  BY <1>1
<1> HIDE DEF r
<1>6. Fits(r, answered, mirror)
  <2>1. Fits(me, answered, mirror)
    BY DEF RaceInv
  <2>2. 0 # Same
    BY MirrorAssumption
  <2>3. CASE me.op = "refresh"
    <3>1. me.answer \in 1 .. n
      BY <1>2, <2>1, <2>3 DEF Fits
    <3>2. Range(answered[me.answer]) \subseteq Accounts
      BY <3>1, ListOf
    <3>3. a \notin Range(answered[me.answer])
      BY <1>2, <2>1, <2>3 DEF Fits
    <3>4. QED
      BY <1>2, <1>4, <2>1, <2>2, <2>3, <3>2, <3>3 DEF Fits
  <2>4. CASE me.op = "revoke"
    BY <1>2, <1>4, <2>1, <2>2, <2>4 DEF Fits
  <2>5. QED
    BY <1>2, <2>1, <2>3, <2>4 DEF Fits
<1>7. ASSUME NEW x \in Accounts, r.write[x] # Same
      PROVE  me.write[x] # Same \/ RowFree(p, x)
  BY <1>1, <1>4, <1>7
<1>S. r.op = "revoke" => revoked
  BY <1>4 DEF RaceInv
<1>8. QED
  BY <1>S, <1>2, <1>3, <1>5, <1>6, <1>7, LocalMove

LEMMA AnswerRace ==
    ASSUME MirrorInv, RaceInv, NEW p \in Processes, Answer(p)
    PROVE  RaceInv'
<1> DEFINE n == Len(answered)
           me == proc[p]
<1>0. me \in Local(n) /\ n \in Nat /\ answered \in Seq(Answers) /\ mirror \in RowsOf(n)
  BY LenIsNat DEF MirrorInv, TypeOK, RowsOf
<1>1. CASE ~ (n < MaxAnswers)
  BY <1>1, EndMove DEF Answer, End, tables
<1>2. CASE n < MaxAnswers
  <2>1. PICK list \in Answers :
          /\ answered' = Append(answered, list)
          /\ Step(p, [me EXCEPT !.answer = n + 1,
                                !.pc = IF list = << >> THEN "scan" ELSE "upsert"])
    BY <1>2 DEF Answer
  <2>2. me.pc = "ask" /\ mirror' = mirror /\ revoked' = revoked
    BY <1>2 DEF Answer, tables
  <2>3. list \in Seq(Accounts)
    BY MirrorAssumption
  <2> DEFINE r == [me EXCEPT !.answer = n + 1,
                             !.pc = IF list = << >> THEN "scan" ELSE "upsert"]
  <2>4. proc' = [proc EXCEPT ![p] = r]
    BY <2>1 DEF Step
  <2>5. /\ r.answer = n + 1 /\ r.write = me.write /\ r.op = me.op /\ r.next = me.next
        /\ r.pc = IF list = << >> THEN "scan" ELSE "upsert"
    BY <1>0 DEF Local
  <2> HIDE DEF r
  <2>6. Fits(me, answered, mirror) /\ me.next = 1 /\ me.op = "refresh"
    BY <2>2 DEF RaceInv, Fits
  <2>7. /\ answered'[n + 1] = list /\ Len(answered') = n + 1
        /\ \A m \in 1 .. n : answered'[m] = answered[m]
    BY <1>0, <2>1
  <2>8. Fits(r, answered', mirror)
    <3>1. CASE list = << >>
      <4>1. Range(list) = {}
        BY <3>1 DEF Range
      <4>2. r.pc = "scan" /\ \A a \in Accounts : r.write[a] = Same
        BY <2>2, <2>5, <2>6, <3>1 DEF Fits
      <4>3. QED
        BY <1>0, <2>5, <2>6, <2>7, <4>1, <4>2 DEF Fits
    <3>2. CASE list # << >>
      <4>1. 1 \in 1 .. Len(list) /\ First(list, 0) = {}
        BY <2>3, <3>2 DEF First
      <4>2. r.pc = "upsert"
        BY <2>5, <3>2
      <4>3. QED
        BY <1>0, <2>2, <2>5, <2>6, <2>7, <4>1, <4>2 DEF Fits
    <3>3. QED
      BY <3>1, <3>2
  <2>9. \A q \in Processes : Fits(proc'[q], answered', mirror)
    <3>1. ASSUME NEW q \in Processes \ {p}
          PROVE  Fits(proc'[q], answered', mirror)
      <4>1. proc'[q] = proc[q] /\ Fits(proc[q], answered, mirror)
        BY <2>4 DEF RaceInv, MirrorInv
      <4>2. QED
        BY <1>0, <2>1, <4>1, FitsMoreAnswers DEF RowsOf
    <3>2. proc'[p] = r
      BY <2>4 DEF MirrorInv
    <3>3. QED
      BY <2>8, <3>1, <3>2
  <2>10. \A q \in Processes : proc'[q].write = proc[q].write /\ proc'[q].op = proc[q].op
    BY <2>4, <2>5 DEF MirrorInv
  <2>11. RowsLocked' /\ \A q \in Processes : proc'[q].op = "revoke" => revoked'
    BY <2>2, <2>10 DEF RaceInv, RowsLocked
  <2>12. MixedAreApart'
    <3> SUFFICES ASSUME NEW a \in Accounts, NEW b \in Accounts,
                        mirror[a] # 0, mirror[b] # 0, mirror[a] # mirror[b]
                 PROVE  Apart(mirror[a], mirror[b])'
      BY <2>2 DEF MixedAreApart
    <3>1. mirror[a] \in 1 .. n /\ mirror[b] \in 1 .. n
      BY <1>0 DEF RowsOf
    <3>2. Apart(mirror[a], mirror[b])
      BY DEF RaceInv, MixedAreApart
    <3>3. QED
      BY <2>2, <2>7, <3>1, <3>2 DEF Apart
  <2>13. MirrorIsOneAnswer'
    <3> SUFFICES ASSUME ~ revoked, \A l, m \in 1 .. n + 1 : ~ Apart(l, m)'
                 PROVE  \E m \in 0 .. n + 1 : mirror = Image(m)'
      BY <1>0, <2>2, <2>7 DEF MirrorIsOneAnswer
    <3>1. \A l, m \in DOMAIN answered : ~ Apart(l, m)
      BY <1>0, <2>7 DEF Apart
    <3>2. PICK m \in 0 .. n : mirror = Image(m)
      BY <3>1 DEF RaceInv, MirrorIsOneAnswer
    <3>3. m > 0 => answered'[m] = answered[m]
      BY <1>0, <2>7
    <3>4. mirror = Image(m)' /\ m \in 0 .. n + 1
      BY <1>0, <3>2, <3>3 DEF Image
    <3>5. QED
      BY <3>4
  <2>14. QED
    BY <2>2, <2>9, <2>11, <2>12, <2>13 DEF RaceInv
<1>3. QED
  BY <1>1, <1>2

(* What p commits: its list, in a Refresh, and of the other rows only      *)
(* those of lists apart from it.                                           *)
LEMMA Committed ==
    ASSUME MirrorInv, RaceInv, NEW p \in Processes, Commit(p), NEW a \in Accounts
    PROVE  LET me == proc[p] IN
           /\ mirror'[a] = IF me.write[a] = Same THEN mirror[a] ELSE me.write[a]
           /\ me.op = "refresh" =>
                /\ me.answer \in 1 .. Len(answered)
                /\ a \in Range(answered[me.answer]) => mirror'[a] = me.answer
                /\ a \notin Range(answered[me.answer]) =>
                     \/ mirror'[a] = 0
                     \/ /\ mirror'[a] = mirror[a] /\ mirror[a] # 0
                        /\ Disjoint(answered[mirror[a]], answered[me.answer])
           /\ me.op = "revoke" => mirror'[a] \in {0, mirror[a]}
<1> DEFINE me == proc[p]
<1>1. /\ me.pc = "delete" /\ me.targets = {}
      /\ mirror'[a] = IF me.write[a] = Same THEN mirror[a] ELSE me.write[a]
  BY DEF Commit
<1>2. Fits(me, answered, mirror)
  BY DEF RaceInv
<1>3. ASSUME me.op = "refresh"
      PROVE  /\ me.answer \in 1 .. Len(answered) /\ me.answer # Same
             /\ a \in Range(answered[me.answer]) => me.write[a] = me.answer
             /\ a \notin Range(answered[me.answer]) =>
                  /\ me.write[a] \in {0, Same}
                  /\ mirror[a] # 0 /\ me.write[a] = Same =>
                       Disjoint(answered[mirror[a]], answered[me.answer])
  <2>1. me.answer \in 1 .. Len(answered)
    BY <1>1, <1>2, <1>3 DEF Fits
  <2>2. me.answer # Same
    BY <2>1, ListOf
  <2>3. QED
    BY <1>1, <1>2, <1>3, <2>1, <2>2 DEF Fits
<1>4. me.op = "revoke" => me.write[a] \in {0, Same}
  BY <1>1, <1>2 DEF Fits
<1>5. 0 # Same
  BY MirrorAssumption
<1> HIDE DEF me
<1>6. QED
  BY <1>1, <1>3, <1>4, <1>5 DEF me

(* Of two transactions in their prunes the lists have nothing in common:   *)
(* each holds all the rows of its own.                                     *)
LEMMA CommitFits ==
    ASSUME MirrorInv, RaceInv, NEW p \in Processes, Commit(p), NEW q \in Processes \ {p}
    PROVE  Fits(proc[q], answered, mirror')
<1> DEFINE you == proc[q]
           k == proc[p].answer
           m == you.answer
<1>1. Fits(you, answered, mirror) /\ Fits(proc[p], answered, mirror) /\ proc[p].pc = "delete"
  BY DEF RaceInv, Commit
<1>2. CASE ~ (you.pc = "delete" /\ you.op = "refresh")
  BY <1>1, <1>2 DEF Fits
<1>3. CASE you.pc = "delete" /\ you.op = "refresh"
  <2>1. ASSUME NEW a \in Accounts \ Range(answered[m]),
               mirror'[a] # 0, you.write[a] = Same, a \notin you.targets
        PROVE  Disjoint(answered[mirror'[a]], answered[m])
    <3>1. mirror[a] # 0 => Disjoint(answered[mirror[a]], answered[m])
      BY <1>1, <1>3, <2>1 DEF Fits
    <3>2. CASE mirror'[a] = mirror[a]
      BY <2>1, <3>1, <3>2
    <3>3. CASE mirror'[a] # mirror[a]
      <4>1. proc[p].op \in {"refresh", "revoke"}
        BY <1>1 DEF Fits
      <4>2. proc[p].op = "refresh" /\ mirror'[a] = k /\ k \in 1 .. Len(answered)
        BY <2>1, <3>3, <4>1, Committed
      <4>3. m \in 1 .. Len(answered)
        BY <1>1, <1>3 DEF Fits
      <4>4. ASSUME NEW x \in Range(answered[k]), x \in Range(answered[m])
            PROVE  FALSE
        <5>1. x \in Accounts /\ k # Same /\ m # Same
          BY <4>2, <4>3, ListOf
        <5>2. proc[p].write[x] = k /\ you.write[x] = m
          BY <1>1, <1>3, <4>2, <4>4 DEF Fits
        <5>3. QED
          BY <5>1, <5>2 DEF RaceInv, RowsLocked
      <4>5. QED
        BY <4>2, <4>4 DEF Disjoint
    <3>4. QED
      BY <3>2, <3>3
  <2>2. QED
    BY <1>1, <1>3, <2>1 DEF Fits
<1>4. QED
  BY <1>2, <1>3

LEMMA CommitRace ==
    ASSUME MirrorInv, RaceInv, NEW p \in Processes, Commit(p)
    PROVE  RaceInv'
<1> DEFINE n == Len(answered)
           me == proc[p]
           k == me.answer
           r == [Idle EXCEPT !.pc = "evict", !.op = me.op]
<1>1. /\ me.pc = "delete" /\ proc' = [proc EXCEPT ![p] = r]
      /\ UNCHANGED <<answered, revoked>>
  BY DEF Commit, Step
<1>2. me.op \in {"refresh", "revoke"} /\ (me.op = "revoke" => revoked)
  BY <1>1 DEF RaceInv, Fits
<1>3. n \in Nat /\ mirror \in RowsOf(n)
  BY LenIsNat DEF MirrorInv, TypeOK, RowsOf
<1>4. Fits(r, answered, mirror') /\ r.op = me.op /\ \A a \in Accounts : r.write[a] = Same
  BY IdleFits DEF Idle
<1> HIDE DEF r
<1>5. \A q \in Processes : proc'[q] = IF q = p THEN r ELSE proc[q]
  BY <1>1 DEF MirrorInv
<1>6. \A q \in Processes : Fits(proc'[q], answered', mirror')
  BY <1>1, <1>4, <1>5, CommitFits
<1>7. RowsLocked' /\ \A q \in Processes : proc'[q].op = "revoke" => revoked'
  BY <1>1, <1>2, <1>4, <1>5 DEF RaceInv, RowsLocked
<1>8. MixedAreApart'
  <2> SUFFICES ASSUME NEW a \in Accounts, NEW b \in Accounts,
                      mirror'[a] # 0, mirror'[b] # 0, mirror'[a] # mirror'[b]
               PROVE  Apart(mirror'[a], mirror'[b])
    BY <1>1 DEF MixedAreApart, Apart
  <2>1. CASE mirror'[a] = mirror[a] /\ mirror'[b] = mirror[b]
    BY <2>1 DEF RaceInv, MixedAreApart
  <2>2. CASE me.op = "refresh"
    <3>1. \A x \in {a, b} :
            mirror'[x] = k \/ (mirror'[x] = mirror[x]
                               /\ Disjoint(answered[mirror[x]], answered[k]))
      BY <2>2, Committed
    <3>2. QED
      BY <2>1, <3>1 DEF Apart, Disjoint
  <2>3. CASE me.op = "revoke"
    BY <2>1, <2>3, Committed
  <2>4. QED
    BY <1>2, <2>2, <2>3
<1>9. MirrorIsOneAnswer'
  <2> SUFFICES ASSUME ~ revoked, \A l, m \in 1 .. n : ~ Apart(l, m)
               PROVE  \E m \in 0 .. n : mirror' = Image(m)
    <3>1. MirrorIsOneAnswer' <=>
            (~ revoked /\ (\A l, m \in DOMAIN answered : ~ Apart(l, m)) =>
               \E m \in 0 .. n : mirror' = Image(m))
      BY <1>1 DEF MirrorIsOneAnswer, Apart, Image
    <3>2. DOMAIN answered = 1 .. n
      BY LenIsNat DEF MirrorInv
    <3>3. QED
      BY <3>1, <3>2
  <2>1. me.op = "refresh"
    BY <1>2
  <2>2. ASSUME NEW a \in Accounts
        PROVE  k \in 1 .. n /\ mirror'[a] = IF a \in Range(answered[k]) THEN k ELSE 0
    <3>1. k \in 1 .. n
      BY <2>1, Committed
    <3>2. mirror[a] # 0 => ~ Disjoint(answered[mirror[a]], answered[k])
      BY <1>3, <3>1 DEF Apart, Disjoint, RowsOf
    <3>3. QED
      BY <2>1, <3>1, <3>2, Committed
  <2>3. k \in 1 .. n
    BY <1>1, <2>1 DEF RaceInv, Fits
  <2>4. mirror' = [a \in Accounts |-> mirror'[a]]
    BY DEF Commit
  <2>5. mirror' = Image(k)
    <3>1. \A a \in Accounts :
            mirror'[a] = IF k > 0 /\ a \in Range(answered[k]) THEN k ELSE 0
      BY <1>3, <2>2, <2>3
    <3>2. QED
      BY <2>4, <3>1 DEF Image
  <2>6. QED
    BY <1>3, <2>3, <2>5
<1>10. QED
  BY <1>6, <1>7, <1>8, <1>9 DEF RaceInv

LEMMA FillRace ==
    ASSUME MirrorInv, RaceInv, NEW p \in Processes, Fill(p)
    PROVE  RaceInv'
<1>1. UNCHANGED <<answered, mirror, revoked>>
  BY DEF Fill, tables
<1>2. CASE Step(p, Idle)
  BY <1>1, <1>2, EndMove
<1>3. CASE proc' = [proc EXCEPT ![p] = Idle,
                      ![Background] = [Idle EXCEPT !.pc = "link", !.op = "refresh"]]
  <2> DEFINE b == [Idle EXCEPT !.pc = "link", !.op = "refresh"]
  <2>1. Fits(Idle, answered, mirror) /\ Fits(b, answered, mirror)
    BY IdleFits
  <2>2. /\ (\A a \in Accounts : Idle.write[a] = Same) /\ Idle.op # "revoke"
        /\ (\A a \in Accounts : b.write[a] = Same) /\ b.op # "revoke"
    BY DEF Idle
  <2> HIDE DEF b
  <2>3. \A q \in Processes : proc'[q] \in {proc[q], Idle, b}
    BY <1>3 DEF MirrorInv, b
  <2>4. \A q \in Processes, a \in Accounts :
          proc'[q].write[a] # Same => proc[q].write[a] # Same
    BY <2>2, <2>3
  <2>5. RowsLocked'
    BY <2>4 DEF RaceInv, RowsLocked
  <2>6. \A q \in Processes :
          Fits(proc'[q], answered, mirror) /\ (proc'[q].op = "revoke" => revoked)
    BY <2>1, <2>2, <2>3 DEF RaceInv
  <2>7. QED
    BY <1>1, <2>5, <2>6, SameRows DEF RaceInv
<1>4. QED
  BY <1>2, <1>3 DEF Fill

LEMMA StepRace ==
    ASSUME MirrorInv, RaceInv, [Next]_vars
    PROVE  RaceInv'
<1>1. CASE Tick
  BY <1>1, SameRows DEF Tick, tables, RaceInv, RowsLocked
<1>2. CASE Restart
  <2>1. \A q \in Processes : proc'[q] = Idle
    BY <1>2 DEF Restart
  <2>2. Idle.op # "revoke" /\ \A a \in Accounts : Idle.write[a] = Same
    BY DEF Idle
  <2>3. \A q \in Processes : Fits(proc'[q], answered, mirror)
    BY <2>1, IdleFits
  <2>4. UNCHANGED <<answered, mirror, revoked>>
    BY <1>2 DEF Restart, tables
  <2>5. RowsLocked'
    BY <2>1, <2>2 DEF RowsLocked
  <2>6. QED
    BY <2>1, <2>2, <2>3, <2>4, <2>5, SameRows DEF RaceInv
<1>3. CASE UNCHANGED vars
  BY <1>3, SameRows DEF vars, tables, RaceInv, RowsLocked
<1>4. ASSUME NEW p \in Processes, GetLink(p)
      PROVE  RaceInv'
  <2> DEFINE r == [proc[p] EXCEPT !.pc = "ask"]
  <2>1. CASE link # "cif"
    BY <1>4, <2>1, EndMove DEF GetLink, End, tables
  <2>2. CASE link = "cif"
    <3>1. proc[p] \in Local(Len(answered))
      BY DEF MirrorInv
    <3>2. r \in Local(Len(answered))
      BY <3>1 DEF Local
    <3>3. r.pc = "ask" /\ r.op = proc[p].op /\ r.next = proc[p].next
          /\ r.write = proc[p].write
      BY <3>1 DEF Local
    <3>4. Step(p, r) /\ UNCHANGED <<answered, mirror, revoked>> /\ proc[p].pc = "link"
      BY <1>4, <2>2 DEF GetLink, tables
    <3> HIDE DEF r
    <3>5. Fits(r, answered, mirror) /\ (r.op = "revoke" => revoked)
      BY <3>3, <3>4 DEF Fits, RaceInv
    <3>6. QED
      BY <3>2, <3>3, <3>4, <3>5, LocalMove
  <2>3. QED
    BY <2>1, <2>2
<1>5. ASSUME NEW p \in Processes, Evict(p) \/ Fail(p)
      PROVE  RaceInv'
  BY <1>5, EndMove DEF Evict, Fail, End, tables
<1>6. QED
  BY <1>1, <1>2, <1>3, <1>4, <1>5, CallerRace, AnswerRace, UpsertRace, ScanRace,
     DeleteRace, CommitRace, FillRace DEF Next, Advance

LEMMA InitRace == Init => RaceInv
<1> SUFFICES ASSUME Init
             PROVE  RaceInv
  OBVIOUS
<1>1. Idle.op # "revoke" /\ \A a \in Accounts : Idle.write[a] = Same
  BY DEF Idle
<1>2. \A q \in Processes : proc[q] = Idle
  BY DEF Init
<1>3. RowsLocked
  BY <1>1, <1>2 DEF RowsLocked
<1>4. mirror = Image(0) /\ 0 \in 0 .. Len(answered)
  BY DEF Init, NoRows, Image
<1>5. MixedAreApart
  BY DEF Init, NoRows, MixedAreApart
<1>6. QED
  BY <1>1, <1>2, <1>3, <1>4, <1>5, IdleFits DEF RaceInv, MirrorIsOneAnswer

LEMMA RaceKept == Spec => [](MixedAreApart /\ MirrorIsOneAnswer)
<1>1. MirrorInv /\ RaceInv /\ [Next]_vars => MirrorInv' /\ RaceInv'
  BY StepMirror, StepRace
<1>2. RaceInv => MixedAreApart /\ MirrorIsOneAnswer
  BY DEF RaceInv
<1>3. QED
  BY <1>1, <1>2, InitMirror, InitRace, PTL DEF Spec

(* Whatever refreshes and revocations race, fail and are restarted, and    *)
(* whatever lists the bank hands out, rows of two answers are committed    *)
(* side by side only if the answers have no account in common.             *)
THEOREM OnlyApartMix == Spec => []MixedAreApart
BY RaceKept, PTL

(* Before the first Revoke the committed rows are exactly one of the lists *)
(* for as long as no two lists handed out are without a common account.    *)
THEOREM MirrorStaysOneAnswer == Spec => []MirrorIsOneAnswer
BY RaceKept, PTL
=============================================================================
