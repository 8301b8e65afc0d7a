------------------------- MODULE RMAssignmentProofs -------------------------
(***************************************************************************)
(* The assignment ledger for any number of clients, RMs and concurrent     *)
(* requests: type correctness, that the rotation pointer is never stale    *)
(* while it is in use, that every behaviour is one of the abstract         *)
(* ledger, that an offboarding empties the book of its RM, that the router *)
(* deals its clients fairly and within the capacity of the desk, that no   *)
(* requests wait in a circle, and that history rows name the right old RM. *)
(***************************************************************************)
EXTENDS RMAssignment, WellFoundedInduction, FiniteSetTheorems, TLAPS

-----------------------------------------------------------------------------
(* PickNextRM, on every ring that is not empty.                            *)

IsRing(ring) ==
    /\ Len(ring) \in Nat /\ Len(ring) >= 1
    /\ DOMAIN ring = 1 .. Len(ring)
    /\ \A i \in DOMAIN ring : ring[i].clients \in Nat /\ ring[i].max \in Int

LEMMA SmallestOf ==
    ASSUME NEW S \in SUBSET Nat, S # {}
    PROVE  \E i \in S : \A j \in S : i <= j
<1> DEFINE R == {p \in Nat \X Nat : p[1] < p[2]}
<1>1. IsWellFoundedOn(R, Nat)
  BY NatLessThanWellFounded DEF OpToRel
<1>2. PICK i \in S : \A j \in S : <<j, i>> \notin R
  <2> HIDE DEF R
  <2> QED
    BY <1>1, WFMin
<1>3. ASSUME NEW j \in S
      PROVE  i <= j
  <2>1. i \in Nat /\ j \in Nat /\ <<j, i>> \in Nat \X Nat
    OBVIOUS
  <2>2. ~ (j < i)
    BY <1>2, <2>1
  <2>3. QED
    BY <2>1, <2>2
<1>4. QED
  BY <1>3

(* A set that holds 0 and every successor of a member holds them all.      *)
LEMMA CountingUp ==
    ASSUME NEW S \in SUBSET Nat, 0 \in S, \A n \in S : n + 1 \in S
    PROVE  S = Nat
<1> SUFFICES ASSUME Nat \ S # {}
             PROVE  FALSE
  OBVIOUS
<1>1. PICK i \in Nat \ S : \A j \in Nat \ S : i <= j
  BY SmallestOf
<1>2. i - 1 \in Nat /\ i - 1 \in S
  BY <1>1
<1>3. QED
  BY <1>1, <1>2

LEMMA LeastExists ==
    ASSUME NEW S \in SUBSET Nat, S # {}
    PROVE  Least(S) \in S /\ \A j \in S : Least(S) <= j
BY SmallestOf DEF Least

(* The lap starts on the ring.                                             *)
LEMMA StartOnRing ==
    ASSUME NEW ring, IsRing(ring), NEW after
    PROVE  StartOf(ring, after) \in 1 .. Len(ring)
<1> DEFINE at == PositionsOf(ring, after)
<1>1. at \subseteq 1 .. Len(ring) /\ at \in SUBSET Nat
  BY DEF IsRing, PositionsOf
<1>2. CASE at = {}
  BY <1>2 DEF IsRing, StartOf
<1>3. CASE at # {}
  <2>1. Least(at) \in 1 .. Len(ring)
    BY <1>1, <1>3, LeastExists
  <2>2. QED
    BY <2>1, <1>3 DEF IsRing, StartOf
<1>4. QED
  BY <1>2, <1>3

(* One lap visits every position, and only positions of the ring.          *)
LEMMA LapCovers ==
    ASSUME NEW ring, Len(ring) \in Nat, NEW start, start \in 1 .. Len(ring)
    PROVE  /\ \A off \in 0 .. Len(ring) - 1 : Around(ring, start, off) \in 1 .. Len(ring)
           /\ \A i \in 1 .. Len(ring) :
                \E off \in 0 .. Len(ring) - 1 : Around(ring, start, off) = i
<1> DEFINE n == Len(ring)
<1>1. \A off \in 0 .. n - 1 : Around(ring, start, off) \in 1 .. n
  BY DEF Around
<1>2. ASSUME NEW i \in 1 .. n
      PROVE  \E off \in 0 .. n - 1 : Around(ring, start, off) = i
  <2>1. CASE i >= start
    <3>1. i - start \in 0 .. n - 1 /\ Around(ring, start, i - start) = i
      BY <2>1 DEF Around
    <3>2. QED
      BY <3>1
  <2>2. CASE i < start
    <3>1. i - start + n \in 0 .. n - 1 /\ Around(ring, start, i - start + n) = i
      BY <2>2 DEF Around
    <3>2. QED
      BY <3>1
  <2>3. QED
    BY <2>1, <2>2
<1>3. QED
  BY <1>1, <1>2

(* The lap finds an RM with room exactly when the desk is not full.        *)
LEMMA LapFindsRoom ==
    ASSUME NEW ring, IsRing(ring), NEW after
    PROVE  DeskFull(ring) <=> RoomyOffsets(ring, after) = {}
<1> DEFINE start == StartOf(ring, after)
           n == Len(ring)
<1>1. /\ n \in Nat /\ n >= 1 /\ DOMAIN ring = 1 .. n /\ start \in 1 .. n
      /\ Len(ring) = n
  BY StartOnRing DEF IsRing
<1>2. RoomyOffsets(ring, after)
        = {off \in 0 .. n - 1 : HasCapacity(ring[Around(ring, start, off)])}
  BY DEF RoomyOffsets
<1> HIDE DEF start
<1>3. /\ \A off \in 0 .. n - 1 : Around(ring, start, off) \in 1 .. n
      /\ \A i \in 1 .. n : \E off \in 0 .. n - 1 : Around(ring, start, off) = i
  BY <1>1, LapCovers
<1>4. QED
  BY <1>1, <1>2, <1>3 DEF DeskFull

LEMMA SomeLeastLoaded ==
    ASSUME NEW ring, IsRing(ring)
    PROVE  LeastLoaded(ring) # {}
<1> DEFINE loads == {ring[i].clients : i \in DOMAIN ring}
<1>1. loads \in SUBSET Nat /\ loads # {}
  BY DEF IsRing
<1>2. PICK least \in loads : \A l \in loads : least <= l
  BY <1>1, SmallestOf
<1>3. PICK i \in DOMAIN ring : ring[i].clients = least
  BY <1>2
<1>4. i \in LeastLoaded(ring)
  BY <1>2, <1>3 DEF LeastLoaded
<1>5. QED
  BY <1>4

(* Routing is capacity-aware: the RM picked is on the desk, and one at the *)
(* limit is picked only when everybody is, and then the least loaded.      *)
THEOREM PickIsSound ==
    ASSUME NEW ring, IsRing(ring), NEW after
    PROVE  LET p == PickedPosition(ring, after) IN
           /\ p \in DOMAIN ring /\ PickNextRM(ring, after) = ring[p].rm
           /\ ~ DeskFull(ring) => HasCapacity(ring[p])
           /\ DeskFull(ring) => \A i \in DOMAIN ring : ring[p].clients <= ring[i].clients
<1> DEFINE start == StartOf(ring, after)
           roomy == RoomyOffsets(ring, after)
           n == Len(ring)
           p == PickedPosition(ring, after)
<1>1. n \in Nat /\ n >= 1 /\ DOMAIN ring = 1 .. n /\ start \in 1 .. n
  BY StartOnRing DEF IsRing
<1>2. CASE roomy # {}
  <2>1. roomy \in SUBSET Nat
    BY <1>1 DEF RoomyOffsets
  <2>2. Least(roomy) \in roomy
    BY <1>2, <2>1, LeastExists
  <2>3. p = Around(ring, start, Least(roomy))
    BY <1>2 DEF PickedPosition
  <2>4. p \in 1 .. n /\ HasCapacity(ring[p])
    BY <1>1, <2>2, <2>3, LapCovers DEF RoomyOffsets
  <2>5. ~ DeskFull(ring)
    BY <1>2, LapFindsRoom
  <2>6. QED
    BY <1>1, <2>4, <2>5 DEF PickNextRM
<1>3. CASE roomy = {}
  <2>1. LeastLoaded(ring) \in SUBSET Nat
    BY <1>1 DEF LeastLoaded
  <2>2. p \in LeastLoaded(ring)
    BY <1>3, <2>1, SomeLeastLoaded, LeastExists DEF PickedPosition
  <2>3. DeskFull(ring)
    BY <1>3, LapFindsRoom
  <2>4. QED
    BY <2>2, <2>3 DEF LeastLoaded, PickNextRM
<1>4. QED
  BY <1>2, <1>3

(* Routing is round-robin: between the RM assigned last and the one picked *)
(* the lap passes only RMs without room, so nobody with room is skipped.   *)
THEOREM PickSkipsNobody ==
    ASSUME NEW ring, IsRing(ring), NEW after, ~ DeskFull(ring)
    PROVE  \E off \in 0 .. Len(ring) - 1 :
             /\ PickedPosition(ring, after) = Around(ring, StartOf(ring, after), off)
             /\ \A nearer \in 0 .. off - 1 :
                  ~ HasCapacity(ring[Around(ring, StartOf(ring, after), nearer)])
<1> DEFINE roomy == RoomyOffsets(ring, after)
<1>1. roomy # {} /\ roomy \in SUBSET Nat
  BY LapFindsRoom DEF RoomyOffsets
<1>2. Least(roomy) \in roomy /\ \A off \in roomy : Least(roomy) <= off
  BY <1>1, LeastExists
<1>3. Least(roomy) \in 0 .. Len(ring) - 1 /\ Len(ring) \in Nat
  BY <1>2 DEF IsRing, RoomyOffsets
<1>4. PickedPosition(ring, after) = Around(ring, StartOf(ring, after), Least(roomy))
  BY <1>1 DEF PickedPosition
<1>5. ASSUME NEW nearer \in 0 .. Least(roomy) - 1
      PROVE  ~ HasCapacity(ring[Around(ring, StartOf(ring, after), nearer)])
  <2>1. nearer \in 0 .. Len(ring) - 1 /\ nearer \notin roomy
    BY <1>2, <1>3
  <2>2. QED
    BY <2>1 DEF RoomyOffsets
<1>6. QED
  BY <1>3, <1>4, <1>5

-----------------------------------------------------------------------------
(* Types, the pointer and the ledger.                                      *)

(* A request that only moves to another local state keeps the type.        *)
LEMMA LocalStep ==
    ASSUME TypeOK, NEW t \in Requests, NEW r \in Request,
           req' = [req EXCEPT ![t] = r]
    PROVE  req' \in [Requests -> Request]
BY DEF TypeOK

LEMMA IdleIsRequest == Idle \in Request
BY DEF Idle, Request, Labels, Owners, HistoryActions

(* Undoing a transaction keeps the type.                                   *)
LEMMA RollBackType ==
    ASSUME TypeOK, NEW t \in Requests, RollBack(t)
    PROVE  TypeOK'
<1>1. req' \in [Requests -> Request]
  BY LocalStep, IdleIsRequest DEF RollBack
<1>2. QED
  BY <1>1 DEF TypeOK, RollBack, desk

LEMMA InitType == Init => TypeOK
BY IdleIsRequest DEF Init, TypeOK, Owners

LEMMA StepType ==
    ASSUME TypeOK, [Next]_vars
    PROVE  TypeOK'
<1> USE ConstantsAssumption
<1>1. ASSUME NEW t \in Requests, NEW u \in Users, NEW want \in {"in", "out"},
             SignUp(t, u, want)
      PROVE  TypeOK'
  <2> DEFINE auto == [Idle EXCEPT !.pc = "lock", !.op = "auto", !.user = u,
                                  !.action = "auto_assign"]
  <2>1. auto \in Request
    BY DEF Idle, Request, Labels, Owners, HistoryActions
  <2>2. req' \in [Requests -> Request]
    BY <1>1, <2>1, IdleIsRequest, LocalStep DEF SignUp, Start
  <2>3. QED
    BY <1>1, <2>2 DEF TypeOK, SignUp, Start, tables, desk
<1>2. ASSUME NEW t \in Requests, NEW u \in Users, NEW want \in {"in", "out"},
             Login(t, u, want)
      PROVE  TypeOK'
  <2>1. [Idle EXCEPT !.pc = "flip", !.user = u, !.want = want] \in Request
    BY DEF Idle, Request, Labels, Owners, HistoryActions
  <2>2. req' \in [Requests -> Request]
    BY <1>2, <2>1, LocalStep DEF Login, Start
  <2>3. QED
    BY <1>2, <2>2 DEF TypeOK, Login, Start, tables, desk
<1>3. ASSUME NEW t \in Requests, NEW u \in Users, NEW r \in RMs,
             AdminAssign(t, u, r)
      PROVE  TypeOK'
  <2> DEFINE a == IF owner[u] = Nobody THEN "assign" ELSE "transfer"
  <2>1. [Idle EXCEPT !.pc = "begin", !.op = "manual", !.user = u, !.rm = r,
                     !.action = a] \in Request
    BY DEF Idle, Request, Labels, Owners, HistoryActions
  <2>2. req' \in [Requests -> Request]
    BY <1>3, <2>1, LocalStep DEF AdminAssign, Start
  <2>3. QED
    BY <1>3, <2>2 DEF TypeOK, AdminAssign, Start, tables, desk
<1>4. ASSUME NEW t \in Requests, NEW u \in Users, AdminRemove(t, u)
      PROVE  TypeOK'
  <2>1. [Idle EXCEPT !.pc = "begin", !.op = "manual", !.user = u] \in Request
    BY DEF Idle, Request, Labels, Owners, HistoryActions
  <2>2. req' \in [Requests -> Request]
    BY <1>4, <2>1, LocalStep DEF AdminRemove, Start
  <2>3. QED
    BY <1>4, <2>2 DEF TypeOK, AdminRemove, Start, tables, desk
<1>5. ASSUME NEW t \in Requests, NEW r \in RMs, Offboard(t, r)
      PROVE  TypeOK'
  <2>1. [Idle EXCEPT !.pc = "lock", !.op = "offboard", !.rm = r,
                     !.action = "transfer"] \in Request
    BY DEF Idle, Request, Labels, Owners, HistoryActions
  <2>2. req' \in [Requests -> Request]
    BY <1>5, <2>1, LocalStep DEF Offboard, Start
  <2>3. QED
    BY <1>5, <2>2 DEF TypeOK, Offboard, Start, tables, desk
<1>6. ASSUME NEW r \in RMs, NEW s \in {"active", "inactive"}, NEW c \in Caps,
             UpdateRM(r, s, c)
      PROVE  TypeOK'
  BY <1>6 DEF TypeOK, UpdateRM, tables
<1>7. ASSUME NEW t \in Requests, FlipOptIn(t)
      PROVE  TypeOK'
  <2>1. req[t] \in Request /\ req[t].want \in {"absent", "in", "out"}
    BY DEF TypeOK, Request
  <2>2. [req[t] EXCEPT !.pc = "lock", !.op = "auto", !.action = "auto_assign"] \in Request
    BY <2>1 DEF Request, Labels, HistoryActions
  <2>3. [req[t] EXCEPT !.pc = "begin", !.op = "manual", !.action = "remove"] \in Request
    BY <2>1 DEF Request, Labels, HistoryActions
  <2>4. req' \in [Requests -> Request]
    BY <1>7, <2>2, <2>3, LocalStep DEF FlipOptIn
  <2>5. QED
    BY <1>7, <2>1, <2>4 DEF TypeOK, FlipOptIn, tables, desk
<1>8. ASSUME NEW t \in Requests, Begin(t) \/ ReadCurrent(t)
      PROVE  TypeOK'
  <2>1. req[t] \in Request
    BY DEF TypeOK
  <2>2. req[t].user \in Users => owner[req[t].user] \in Owners
    BY DEF TypeOK
  <2> DEFINE r == [req[t] EXCEPT !.pc = "update",
                                 !.from[req[t].user] = owner[req[t].user]]
  <2>3. r \in Request
    BY <2>1, <2>2 DEF Request, Labels
  <2>4. req' = [req EXCEPT ![t] = r]
    BY <1>8, <2>1 DEF Begin, ReadCurrent, TypeOK, Request
  <2>5. req' \in [Requests -> Request]
    BY <2>3, <2>4, LocalStep
  <2>6. QED
    BY <1>8, <2>5 DEF TypeOK, Begin, ReadCurrent, tables, desk
<1>9. ASSUME NEW t \in Requests, LockQueue(t)
      PROVE  TypeOK'
  <2>1. req[t] \in Request /\ lastAssigned \in Owners
    BY DEF TypeOK
  <2>2. [req[t] EXCEPT !.pc = "pick", !.after = lastAssigned] \in Request
    BY <2>1 DEF Request, Labels
  <2>3. [req[t] EXCEPT !.pc = "list"] \in Request
    BY <2>1 DEF Request, Labels
  <2>4. req' \in [Requests -> Request]
    BY <1>9, <2>2, <2>3, LocalStep DEF LockQueue
  <2>5. QED
    BY <1>9, <2>4 DEF TypeOK, LockQueue, desk
<1>10. ASSUME NEW t \in Requests, ListClients(t)
       PROVE  TypeOK'
  <2> DEFINE held == {u \in Users : owner[u] = req[t].rm}
  <2>1. CASE held = {}
    BY <1>10, <2>1, RollBackType DEF ListClients
  <2>2. CASE held # {}
    <3>1. req[t] \in Request
      BY DEF TypeOK
    <3>2. [req[t] EXCEPT !.pc = "pick", !.todo = held] \in Request
      BY <3>1 DEF Request, Labels
    <3>3. req' = [req EXCEPT ![t] = [req[t] EXCEPT !.pc = "pick", !.todo = held]]
      BY <1>10, <2>2, <3>1 DEF ListClients, TypeOK, Request
    <3>4. req' \in [Requests -> Request]
      BY <3>2, <3>3, LocalStep
    <3>5. QED
      BY <1>10, <2>2, <3>4 DEF TypeOK, ListClients, tables, desk
  <2>3. QED
    BY <2>1, <2>2
<1>11. ASSUME NEW t \in Requests, Pick(t)
       PROVE  TypeOK'
  <2> DEFINE leaving == IF req[t].op = "offboard" THEN req[t].rm ELSE Nobody
             ring == ActiveRing(t, leaving)
  <2>1. CASE ring = << >>
    BY <1>11, <2>1, RollBackType DEF Pick
  <2>2. CASE ring # << >>
    <3>1. req[t] \in Request
      BY DEF TypeOK
    <3>2. PICK chosen \in RMs :
            \/ \E u \in req[t].todo :
                 req' = [req EXCEPT ![t] =
                   [req[t] EXCEPT !.pc = "update", !.user = u, !.after = chosen,
                                  !.from = [req[t].from EXCEPT ![u] = req[t].rm],
                                  !.todo = req[t].todo \ {u}]]
            \/ req' = [req EXCEPT ![t] = [req[t] EXCEPT !.pc = "current", !.rm = chosen]]
      BY <1>11, <2>2 DEF Pick
    <3>3. ASSUME NEW u \in req[t].todo
          PROVE  [req[t] EXCEPT !.pc = "update", !.user = u, !.after = chosen,
                                !.from = [req[t].from EXCEPT ![u] = req[t].rm],
                                !.todo = req[t].todo \ {u}] \in Request
      BY <3>1 DEF Request, Labels, Owners
    <3>4. [req[t] EXCEPT !.pc = "current", !.rm = chosen] \in Request
      BY <3>1 DEF Request, Labels, Owners
    <3>5. req' \in [Requests -> Request]
      BY <3>2, <3>3, <3>4, LocalStep
    <3>6. QED
      BY <1>11, <2>2, <3>5 DEF TypeOK, Pick, tables, desk
  <2>3. QED
    BY <2>1, <2>2
<1>12. ASSUME NEW t \in Requests, UpdateRow(t)
       PROVE  TypeOK'
  <2> DEFINE to == IF req[t].op = "offboard" THEN req[t].after ELSE req[t].rm
             r == [req[t] EXCEPT !.write = [req[t].write EXCEPT ![req[t].user] = to],
                                 !.pc = IF req[t].todo = {} THEN "commit" ELSE "pick"]
  <2>1. req[t] \in Request
    BY DEF TypeOK
  <2>2. to \in Owners
    BY <2>1 DEF Request
  <2>3. r \in Request
    BY <2>1, <2>2 DEF Request, Labels
  <2>4. req' \in [Requests -> Request]
    BY <1>12, <2>3, LocalStep DEF UpdateRow
  <2>5. QED
    BY <1>12, <2>4 DEF TypeOK, UpdateRow, tables, desk
<1>13. ASSUME NEW t \in Requests, Commit(t)
       PROVE  TypeOK'
  <2>1. req[t] \in Request
    BY DEF TypeOK
  <2>2. \A u \in Written(t) : req[t].write[u] \in Owners /\ RowOf(t, u) \in Row
    BY <2>1 DEF Written, RowOf, Row, Request
  <2>3. owner' \in [Users -> Owners]
    BY <1>13, <2>2 DEF Commit, TypeOK
  <2>4. history' \in [Users -> Seq(Row)]
    BY <1>13, <2>2 DEF Commit, TypeOK
  <2>5. lastAssigned' \in Owners /\ rotation' \in Nat
    BY <1>13, <2>1 DEF Commit, TypeOK, Request
  <2>6. req' \in [Requests -> Request]
    BY <1>13, IdleIsRequest, LocalStep DEF Commit
  <2>7. QED
    BY <1>13, <2>3, <2>4, <2>5, <2>6 DEF TypeOK, Commit, desk
<1>14. ASSUME NEW t \in Requests, Fail(t)
       PROVE  TypeOK'
  BY <1>14, RollBackType DEF Fail
<1>15. CASE UNCHANGED vars
  BY <1>15 DEF TypeOK, vars
<1>16. QED
  BY <1>1, <1>2, <1>3, <1>4, <1>5, <1>6, <1>7, <1>8, <1>9, <1>10, <1>11, <1>12,
     <1>13, <1>14, <1>15 DEF Next, Advance

(* Every reachable state is well typed.                                    *)
THEOREM TypeCorrect == Spec => []TypeOK
BY InitType, StepType, PTL DEF Spec
-----------------------------------------------------------------------------
(* The queue lock.  Between LockQueue and the end of its transaction a     *)
(* request is the one holding the rm_queue_state row; this is what makes   *)
(* the freshness of the pointer inductive, since only the holder of the    *)
(* lock commits a new pointer.                                             *)
OpFitsLabel(r) ==
    /\ r.pc = "flip" => r.op = "none"
    /\ r.pc = "begin" => r.op = "manual"
    /\ r.pc \in {"lock", "pick"} => r.op \in {"auto", "offboard"}
    /\ r.pc = "list" => r.op = "offboard"
    /\ r.pc = "current" => r.op = "auto"
    /\ r.todo # {} => r.op = "offboard"

QueueHeld ==
    \A t \in Requests :
        /\ OpFitsLabel(req[t])
        /\ /\ req[t].op \in {"auto", "offboard"}
           /\ req[t].pc \in {"list", "pick", "current", "update", "commit"}
           => queueLock = t

LockInv == TypeOK /\ QueueHeld /\ PointerIsFresh

LEMMA InitLock == Init => LockInv
BY InitType DEF Init, LockInv, QueueHeld, OpFitsLabel, PointerIsFresh, Idle

(* A step of t that changes neither lock nor pointer and keeps what the    *)
(* two invariants say of t keeps them for everyone.                        *)
OnlyStepOf(t) == \A s \in Requests \ {t} : req'[s] = req[s]

LEMMA OthersKept ==
    ASSUME TypeOK, NEW t \in Requests, NEW r, req' = [req EXCEPT ![t] = r]
    PROVE  OnlyStepOf(t) /\ req'[t] = r
BY DEF TypeOK, OnlyStepOf

LEMMA QuietStep ==
    ASSUME LockInv, NEW t \in Requests, OnlyStepOf(t),
           UNCHANGED <<queueLock, lastAssigned>>, OpFitsLabel(req'[t]),
           \/ req'[t].pc \in {"idle", "flip", "begin", "lock"}
           \/ req'[t].op \notin {"auto", "offboard"}
           \/ /\ queueLock = t
              /\ req'[t].op = "auto" => req'[t].after = lastAssigned
    PROVE  QueueHeld' /\ PointerIsFresh'
BY DEF LockInv, QueueHeld, OpFitsLabel, PointerIsFresh, OnlyStepOf

(* The end of a transaction frees the lock if t held it.                   *)
LEMMA EndStep ==
    ASSUME LockInv, NEW t \in Requests,
           req' = [req EXCEPT ![t] = Idle],
           queueLock' = IF queueLock = t THEN Nobody ELSE queueLock,
           lastAssigned' # lastAssigned => queueLock = t
    PROVE  QueueHeld' /\ PointerIsFresh'
BY ConstantsAssumption DEF LockInv, TypeOK, QueueHeld, OpFitsLabel, PointerIsFresh, Idle

(* What t may be about to do when it starts a request.                     *)
LEMMA StartStep ==
    ASSUME LockInv, NEW t \in Requests, NEW r, Start(t, r),
           UNCHANGED <<queueLock, lastAssigned>>, OpFitsLabel(r),
           r.pc \in {"idle", "flip", "begin", "lock"}
    PROVE  QueueHeld' /\ PointerIsFresh'
<1>1. OnlyStepOf(t) /\ req'[t] = r
  BY OthersKept DEF Start, LockInv
<1>2. QED
  BY <1>1, QuietStep

LEMMA StepLock ==
    ASSUME LockInv, [Next]_vars
    PROVE  LockInv'
<1> USE DEF LockInv
<1>0. TypeOK'
  BY StepType
<1>1. ASSUME NEW t \in Requests, NEW u \in Users, NEW want \in {"in", "out"},
             SignUp(t, u, want) \/ Login(t, u, want)
      PROVE  QueueHeld' /\ PointerIsFresh'
  BY <1>1, StartStep DEF SignUp, Login, OpFitsLabel, Idle, tables
<1>2. ASSUME NEW t \in Requests,
             \/ \E u \in Users, r \in RMs : AdminAssign(t, u, r)
             \/ \E u \in Users : AdminRemove(t, u)
             \/ \E r \in RMs : Offboard(t, r)
      PROVE  QueueHeld' /\ PointerIsFresh'
  BY <1>2, StartStep DEF AdminAssign, AdminRemove, Offboard, OpFitsLabel, Idle, tables
<1>3. ASSUME NEW r \in RMs, NEW s \in {"active", "inactive"}, NEW c \in Caps,
             UpdateRM(r, s, c)
      PROVE  QueueHeld' /\ PointerIsFresh'
  BY <1>3 DEF UpdateRM, tables, QueueHeld, OpFitsLabel, PointerIsFresh
<1>4. ASSUME NEW t \in Requests, FlipOptIn(t)
      PROVE  QueueHeld' /\ PointerIsFresh'
  <2>1. OnlyStepOf(t)
    BY <1>4, OthersKept DEF FlipOptIn
  <2>2. req[t].todo = {}
    BY <1>4 DEF FlipOptIn, QueueHeld, OpFitsLabel
  <2>3. /\ req'[t].todo = {}
        /\ \/ req'[t].pc = "lock" /\ req'[t].op = "auto"
           \/ req'[t].pc = "begin" /\ req'[t].op = "manual"
    BY <1>4, <2>2 DEF FlipOptIn, TypeOK, Request
  <2>4. QED
    BY <1>4, <2>1, <2>3, QuietStep DEF FlipOptIn, tables, OpFitsLabel
<1>5. ASSUME NEW t \in Requests, Begin(t) \/ ReadCurrent(t)
      PROVE  QueueHeld' /\ PointerIsFresh'
  <2>1. OnlyStepOf(t)
    BY <1>5, OthersKept DEF Begin, ReadCurrent
  <2>2. /\ req'[t].pc = "update" /\ req'[t].op = req[t].op
        /\ req'[t].after = req[t].after /\ req'[t].todo = req[t].todo
    BY <1>5 DEF Begin, ReadCurrent, TypeOK, Request
  <2>3. UNCHANGED <<queueLock, lastAssigned>>
    BY <1>5 DEF Begin, ReadCurrent, tables
  <2>4. \/ req[t].op = "manual"
        \/ queueLock = t /\ (req[t].op = "auto" => req[t].after = lastAssigned)
    BY <1>5 DEF QueueHeld, OpFitsLabel, PointerIsFresh, Begin, ReadCurrent
  <2>5. OpFitsLabel(req'[t])
    BY <2>2 DEF QueueHeld, OpFitsLabel
  <2>6. QED
    BY <2>1, <2>2, <2>3, <2>4, <2>5, QuietStep
<1>6. ASSUME NEW t \in Requests, LockQueue(t)
      PROVE  QueueHeld' /\ PointerIsFresh'
  <2>1. OnlyStepOf(t)
    BY <1>6, OthersKept DEF LockQueue
  <2>2. /\ req'[t].pc = IF req[t].op = "auto" THEN "pick" ELSE "list"
        /\ req'[t].op = req[t].op /\ req'[t].todo = req[t].todo
        /\ req'[t].op = "auto" => req'[t].after = lastAssigned
    BY <1>6 DEF LockQueue, TypeOK, Request
  <2>3. req[t].op \in {"auto", "offboard"}
    BY <1>6 DEF LockQueue, QueueHeld, OpFitsLabel
  <2>4. queueLock = Nobody /\ queueLock' = t /\ lastAssigned' = lastAssigned
    BY <1>6 DEF LockQueue
  <2>5. \A s \in Requests \ {t} :
          ~ /\ req[s].op \in {"auto", "offboard"}
            /\ req[s].pc \in {"list", "pick", "current", "update", "commit"}
    BY <2>4, ConstantsAssumption DEF QueueHeld
  <2>6. QED
    BY <2>1, <2>2, <2>3, <2>4, <2>5 DEF QueueHeld, OpFitsLabel, PointerIsFresh, OnlyStepOf
<1>7. ASSUME NEW t \in Requests, RollBack(t)
      PROVE  QueueHeld' /\ PointerIsFresh'
  BY <1>7, EndStep DEF RollBack
<1>8. ASSUME NEW t \in Requests, Commit(t)
      PROVE  QueueHeld' /\ PointerIsFresh'
  <2>1. lastAssigned' # lastAssigned => queueLock = t
    BY <1>8 DEF Commit, QueueHeld
  <2>2. QED
    BY <1>8, <2>1, EndStep DEF Commit
<1>9. ASSUME NEW t \in Requests, ListClients(t)
      PROVE  QueueHeld' /\ PointerIsFresh'
  <2>1. CASE RollBack(t)
    BY <1>7, <2>1
  <2>2. CASE ~ RollBack(t)
    <3>1. OnlyStepOf(t)
      BY <1>9, <2>2, OthersKept DEF ListClients
    <3>2. /\ req'[t].pc = "pick" /\ req'[t].op = req[t].op
          /\ req'[t].after = req[t].after /\ req[t].pc = "list"
          /\ UNCHANGED <<queueLock, lastAssigned>>
      BY <1>9, <2>2 DEF ListClients, tables, TypeOK, Request
    <3>3. queueLock = t /\ req[t].op = "offboard"
      BY <3>2 DEF QueueHeld, OpFitsLabel
    <3>4. QED
      BY <3>1, <3>2, <3>3, QuietStep DEF OpFitsLabel
  <2>3. QED
    BY <2>1, <2>2
<1>10. ASSUME NEW t \in Requests, Pick(t)
       PROVE  QueueHeld' /\ PointerIsFresh'
  <2>1. CASE RollBack(t)
    BY <1>7, <2>1
  <2>2. CASE ~ RollBack(t)
    <3>1. OnlyStepOf(t)
      BY <1>10, <2>2, OthersKept DEF Pick
    <3>2. PICK chosen \in RMs :
            IF req[t].op = "offboard"
            THEN \E u \in req[t].todo :
                   req' = [req EXCEPT ![t] =
                     [req[t] EXCEPT !.pc = "update", !.user = u, !.after = chosen,
                                    !.from = [req[t].from EXCEPT ![u] = req[t].rm],
                                    !.todo = req[t].todo \ {u}]]
            ELSE req' = [req EXCEPT ![t] = [req[t] EXCEPT !.pc = "current", !.rm = chosen]]
      BY <1>10, <2>2 DEF Pick
    <3>3. /\ req'[t].op = req[t].op
          /\ \/ req[t].op = "offboard" /\ req'[t].pc = "update"
             \/ /\ req[t].op # "offboard" /\ req'[t].pc = "current"
                /\ req'[t].after = req[t].after /\ req'[t].todo = req[t].todo
      <4>1. CASE req[t].op = "offboard"
        <5>1. PICK u \in req[t].todo :
                req' = [req EXCEPT ![t] =
                  [req[t] EXCEPT !.pc = "update", !.user = u, !.after = chosen,
                                 !.from = [req[t].from EXCEPT ![u] = req[t].rm],
                                 !.todo = req[t].todo \ {u}]]
          BY <3>2, <4>1
        <5>2. QED
          BY <4>1, <5>1 DEF TypeOK, Request
      <4>2. CASE req[t].op # "offboard"
        <5>1. req' = [req EXCEPT ![t] = [req[t] EXCEPT !.pc = "current", !.rm = chosen]]
          BY <3>2, <4>2
        <5>2. QED
          BY <4>2, <5>1 DEF TypeOK, Request
      <4>3. QED
        BY <4>1, <4>2
    <3>4. /\ queueLock = t /\ req[t].op \in {"auto", "offboard"}
          /\ req[t].op = "auto" => req[t].after = lastAssigned
      BY <1>10 DEF Pick, QueueHeld, OpFitsLabel, PointerIsFresh
    <3>5. UNCHANGED <<queueLock, lastAssigned>>
      BY <1>10, <2>2 DEF Pick, tables
    <3>6. OpFitsLabel(req'[t])
      BY <3>3, <3>4 DEF QueueHeld, OpFitsLabel
    <3>7. QED
      BY <3>1, <3>3, <3>4, <3>5, <3>6, QuietStep
  <2>3. QED
    BY <2>1, <2>2
<1>11. ASSUME NEW t \in Requests, UpdateRow(t)
       PROVE  QueueHeld' /\ PointerIsFresh'
  <2>1. OnlyStepOf(t)
    BY <1>11, OthersKept DEF UpdateRow
  <2>2. /\ req'[t].op = req[t].op /\ req'[t].after = req[t].after
        /\ req[t].pc = "update" /\ req'[t].todo = req[t].todo
        /\ UNCHANGED <<queueLock, lastAssigned>>
    BY <1>11 DEF UpdateRow, tables, TypeOK, Request
  <2>3. \/ req'[t].pc = "commit"
        \/ req'[t].pc = "pick" /\ req[t].todo # {}
    BY <1>11 DEF UpdateRow, TypeOK, Request
  <2>4. OpFitsLabel(req'[t])
    BY <2>2, <2>3 DEF OpFitsLabel, QueueHeld
  <2>5. \/ req[t].op \notin {"auto", "offboard"}
        \/ queueLock = t /\ (req[t].op = "auto" => req[t].after = lastAssigned)
    BY <2>2 DEF QueueHeld, PointerIsFresh
  <2>6. QED
    BY <2>1, <2>2, <2>4, <2>5, QuietStep
<1>12. CASE UNCHANGED vars
  BY <1>0, <1>12 DEF vars, QueueHeld, OpFitsLabel, PointerIsFresh
<1>13. ASSUME NEW t \in Requests, Advance(t) \/ Fail(t)
       PROVE  QueueHeld' /\ PointerIsFresh'
  BY <1>4, <1>5, <1>6, <1>7, <1>8, <1>9, <1>10, <1>11, <1>13 DEF Advance, Fail
<1>14. CASE Next
  <2>1. QueueHeld' /\ PointerIsFresh'
    BY <1>1, <1>2, <1>3, <1>13, <1>14 DEF Next
  <2>2. QED
    BY <1>0, <2>1
<1>15. QED
  BY <1>12, <1>14

(* Two signups can never be dealt the same turn of the rotation, however   *)
(* many run at once.                                                       *)
THEOREM PointerFresh == Spec => []PointerIsFresh
<1>1. LockInv => PointerIsFresh
  BY DEF LockInv
<1>2. QED
  BY <1>1, InitLock, StepLock, PTL DEF Spec
-----------------------------------------------------------------------------
(* The assignment ledger is implemented: only Commit touches owner and     *)
(* history, and what it does is one Move.                                  *)
LEMMA CommitMoves ==
    ASSUME TypeOK, NEW t \in Requests, Commit(t)
    PROVE  Contract!Next
<1>1. \A u \in Written(t) : RowOf(t, u) \in Row
  BY DEF TypeOK, Request, Written, RowOf, Row
<1>2. \A u \in Users \ Written(t) : owner[u] \in Owners
  BY DEF TypeOK
<1> DEFINE still(u) == [from |-> Nobody, to |-> Nobody, action |-> "remove"]
           row == [u \in Users |-> IF u \in Written(t) THEN RowOf(t, u) ELSE still(u)]
<1>3. row \in [Users -> Contract!Row]
  BY <1>1 DEF Row, Contract!Row, Owners, HistoryActions
<1>4. Contract!Move(Written(t), row)
  <2>1. \A u \in Written(t) : row[u].to = req[t].write[u] /\ row[u] = RowOf(t, u)
    BY DEF RowOf, Written
  <2>2. owner' = [u \in Users |-> IF u \in Written(t) THEN row[u].to ELSE owner[u]]
    BY <2>1 DEF Commit
  <2>3. history' = [u \in Users |-> IF u \in Written(t) THEN Append(history[u], row[u])
                                                        ELSE history[u]]
    BY <2>1 DEF Commit
  <2>4. QED
    BY <2>2, <2>3 DEF Contract!Move
<1>5. Written(t) \in SUBSET Users
  BY DEF Written
<1>6. QED
  BY <1>3, <1>4, <1>5 DEF Contract!Next

LEMMA StepLedger ==
    ASSUME TypeOK, [Next]_vars
    PROVE  [Contract!Next]_(Contract!vars)
<1>1. ASSUME NEW t \in Requests, Commit(t)
      PROVE  Contract!Next
  BY <1>1, CommitMoves
<1>2. ASSUME NEW t \in Requests, Advance(t) \/ Fail(t), ~ Commit(t)
      PROVE  UNCHANGED Contract!vars
  BY <1>2 DEF Advance, Fail, FlipOptIn, Begin, LockQueue, ListClients, Pick,
     ReadCurrent, UpdateRow, RollBack, tables, Contract!vars
<1>3. ASSUME NEW t \in Requests, NEW u \in Users, NEW want \in {"in", "out"},
             SignUp(t, u, want) \/ Login(t, u, want)
      PROVE  UNCHANGED Contract!vars
  BY <1>3 DEF SignUp, Login, tables, Contract!vars
<1>4. ASSUME NEW t \in Requests,
             \/ \E u \in Users, r \in RMs : AdminAssign(t, u, r)
             \/ \E u \in Users : AdminRemove(t, u)
             \/ \E r \in RMs : Offboard(t, r)
      PROVE  UNCHANGED Contract!vars
  BY <1>4 DEF AdminAssign, AdminRemove, Offboard, tables, Contract!vars
<1>5. ASSUME NEW r \in RMs, NEW s \in {"active", "inactive"}, NEW c \in Caps,
             UpdateRM(r, s, c)
      PROVE  UNCHANGED Contract!vars
  BY <1>5 DEF UpdateRM, tables, Contract!vars
<1>6. CASE UNCHANGED vars
  BY <1>6 DEF vars, Contract!vars
<1>7. QED
  BY <1>1, <1>2, <1>3, <1>4, <1>5, <1>6 DEF Next

(* Every behaviour of the assignment code is one of the abstract ledger:   *)
(* all clients a transaction moves change hands in one step, each with     *)
(* exactly one row that names the new owner, and nothing else writes.      *)
THEOREM LedgerRefinement == Spec => ImplementsLedger
<1>1. Init => Contract!Init
  BY DEF Init, Contract!Init
<1>2. TypeOK /\ [Next]_vars => [Contract!Next]_(Contract!vars)
  BY StepLedger
<1>3. QED
  BY <1>1, <1>2, TypeCorrect, PTL DEF Spec, ImplementsLedger, Contract!Spec
-----------------------------------------------------------------------------
(* The ring a transaction picks from.                                      *)

(* The slots are built along the desk, one RM after the other.             *)
LEMMA SlotsBuilt ==
    ASSUME NEW A, NEW slot
    PROVE  \E f : /\ f[0] = << >>
                  /\ \A n \in 1 .. Len(Desk) :
                       f[n] = IF Desk[n] \in A THEN Append(f[n - 1], slot[Desk[n]])
                                               ELSE f[n - 1]
                  /\ Slots(A, slot) = f[Len(Desk)]
<1> DEFINE Built(f, m) ==
             f = [n \in 0 .. m |->
                    IF n = 0 THEN << >>
                    ELSE IF Desk[n] \in A THEN Append(f[n - 1], slot[Desk[n]])
                    ELSE f[n - 1]]
           S == {m \in Nat : \E f : Built(f, m)}
<1>1. 0 \in S
  <2> DEFINE f == [n \in 0 .. 0 |-> << >>]
  <2>1. Built(f, 0)
    OBVIOUS
  <2> HIDE DEF f, Built
  <2>2. QED
    BY <2>1
<1>2. ASSUME NEW m \in S
      PROVE  m + 1 \in S
  <2>1. PICK f : Built(f, m)
    OBVIOUS
  <2> DEFINE last == IF Desk[m + 1] \in A THEN Append(f[m], slot[Desk[m + 1]]) ELSE f[m]
             g == [n \in 0 .. m + 1 |-> IF n = m + 1 THEN last ELSE f[n]]
  <2>2. ASSUME NEW n \in 0 .. m + 1
        PROVE  g[n] = IF n = 0 THEN << >>
                      ELSE IF Desk[n] \in A THEN Append(g[n - 1], slot[Desk[n]])
                      ELSE g[n - 1]
    <3>1. CASE n = m + 1
      BY <3>1
    <3>2. CASE n # m + 1
      <4>1. n \in 0 .. m /\ g[n] = f[n] /\ (n # 0 => g[n - 1] = f[n - 1])
        BY <3>2
      <4>2. f[n] = IF n = 0 THEN << >>
                   ELSE IF Desk[n] \in A THEN Append(f[n - 1], slot[Desk[n]])
                   ELSE f[n - 1]
        BY <2>1, <4>1
      <4> HIDE DEF g
      <4>3. QED
        BY <4>1, <4>2
    <3>3. QED
      BY <3>1, <3>2
  <2>3. Built(g, m + 1)
    <3>1. g = [n \in 0 .. m + 1 |-> g[n]]
      OBVIOUS
    <3> HIDE DEF g
    <3>2. QED
      BY <2>2, <3>1
  <2> HIDE DEF g, Built
  <2>4. QED
    BY <2>3
<1>3. S = Nat
  <2> HIDE DEF S
  <2>1. S \in SUBSET Nat
    BY DEF S
  <2>2. QED
    BY <1>1, <1>2, <2>1, CountingUp
<1> DEFINE F == CHOOSE f : Built(f, Len(Desk))
<1>4. Len(Desk) \in Nat
  BY DeskAssumption
<1>5. Built(F, Len(Desk))
  <2>1. \E f : Built(f, Len(Desk))
    BY <1>3, <1>4
  <2> HIDE DEF Built
  <2>2. QED
    BY <2>1
<1>6. Slots(A, slot) = F[Len(Desk)]
  BY DEF Slots
<1> HIDE DEF F
<1>7. F[0] = << >>
  BY <1>4, <1>5
<1>8. ASSUME NEW n \in 1 .. Len(Desk)
      PROVE  F[n] = IF Desk[n] \in A THEN Append(F[n - 1], slot[Desk[n]]) ELSE F[n - 1]
  <2>1. n \in 0 .. Len(Desk) /\ n # 0
    BY <1>4
  <2>2. F[n] = IF n = 0 THEN << >>
               ELSE IF Desk[n] \in A THEN Append(F[n - 1], slot[Desk[n]])
               ELSE F[n - 1]
    BY <1>5, <2>1
  <2>3. QED
    BY <2>1, <2>2
<1>9. QED
  BY <1>6, <1>7, <1>8

(* The ring holds the slots of the active RMs, and no others.              *)
LEMMA SlotsAre ==
    ASSUME NEW A, NEW slot
    PROVE  /\ \E T : Slots(A, slot) \in Seq(T)
           /\ Len(Slots(A, slot)) \in Nat
           /\ DOMAIN Slots(A, slot) = 1 .. Len(Slots(A, slot))
           /\ \A i \in DOMAIN Slots(A, slot) :
                \E r \in A \cap RMs : Slots(A, slot)[i] = slot[r]
           /\ \A r \in A \cap RMs :
                \E i \in DOMAIN Slots(A, slot) : Slots(A, slot)[i] = slot[r]
<1> DEFINE T == {slot[r] : r \in A \cap RMs}
           n == Len(Desk)
<1>1. PICK f : /\ f[0] = << >>
               /\ \A k \in 1 .. n :
                    f[k] = IF Desk[k] \in A THEN Append(f[k - 1], slot[Desk[k]])
                                            ELSE f[k - 1]
               /\ Slots(A, slot) = f[n]
  BY SlotsBuilt
<1>2. n \in Nat /\ \A k \in 1 .. n : Desk[k] \in RMs
  BY DeskAssumption
<1> DEFINE Good(k) == /\ f[k] \in Seq(T)
                      /\ \A j \in 1 .. k : Desk[j] \in A =>
                           \E i \in DOMAIN f[k] : f[k][i] = slot[Desk[j]]
           S == {k \in Nat : k <= n => Good(k)}
<1>3. 0 \in S
  <2>1. << >> \in Seq(T)
    OBVIOUS
  <2>2. Good(0)
    BY <1>1, <2>1
  <2> HIDE DEF Good
  <2>3. QED
    BY <2>2
<1>4. ASSUME NEW k \in S
      PROVE  k + 1 \in S
  <2> SUFFICES ASSUME k + 1 <= n
               PROVE  Good(k + 1)
    OBVIOUS
  <2>1. k \in Nat /\ Good(k) /\ k + 1 \in 1 .. n /\ (k + 1) - 1 = k
    BY <1>2
  <2> DEFINE x == slot[Desk[k + 1]]
  <2>2. CASE Desk[k + 1] \notin A
    <3>1. f[k + 1] = f[k]
      BY <1>1, <2>1, <2>2
    <3>2. \A j \in 1 .. k + 1 : Desk[j] \in A => j \in 1 .. k
      BY <2>1, <2>2
    <3>3. QED
      BY <2>1, <3>1, <3>2
  <2>3. CASE Desk[k + 1] \in A
    <3>1. f[k + 1] = Append(f[k], x) /\ x \in T
      BY <1>1, <1>2, <2>1, <2>3
    <3>2. f[k + 1] \in Seq(T)
      BY <2>1, <3>1
    <3>3. /\ DOMAIN f[k + 1] = 1 .. Len(f[k]) + 1 /\ Len(f[k]) \in Nat
          /\ f[k + 1][Len(f[k]) + 1] = x
          /\ \A i \in DOMAIN f[k] : i \in DOMAIN f[k + 1] /\ f[k + 1][i] = f[k][i]
      <4> HIDE DEF T
      <4>1. QED
        BY <2>1, <3>1
    <3>4. ASSUME NEW j \in 1 .. k + 1, Desk[j] \in A
          PROVE  \E i \in DOMAIN f[k + 1] : f[k + 1][i] = slot[Desk[j]]
      <4>1. CASE j = k + 1
        <5>1. Len(f[k]) + 1 \in DOMAIN f[k + 1]
          BY <3>3
        <5>2. QED
          BY <3>3, <4>1, <5>1
      <4>2. CASE j # k + 1
        <5>1. j \in 1 .. k
          BY <2>1, <4>2
        <5>2. PICK i \in DOMAIN f[k] : f[k][i] = slot[Desk[j]]
          BY <2>1, <3>4, <5>1
        <5>3. QED
          BY <3>3, <5>2
      <4>3. QED
        BY <4>1, <4>2
    <3>5. QED
      BY <3>2, <3>4
  <2>4. QED
    BY <2>2, <2>3
<1>5. S = Nat
  <2> HIDE DEF S
  <2>1. S \in SUBSET Nat
    BY DEF S
  <2>2. QED
    BY <1>3, <1>4, <2>1, CountingUp
<1>6. Good(n)
  <2>1. n \in Nat /\ n <= n
    BY <1>2
  <2> HIDE DEF S, Good
  <2>2. n \in S
    BY <1>5, <2>1
  <2>3. QED
    BY <2>1, <2>2 DEF S
<1>7. Slots(A, slot) \in Seq(T)
  BY <1>1, <1>6
<1>8. ASSUME NEW r \in A \cap RMs
      PROVE  \E i \in DOMAIN Slots(A, slot) : Slots(A, slot)[i] = slot[r]
  <2>1. PICK j \in 1 .. n : Desk[j] = r
    BY DeskAssumption
  <2>2. QED
    BY <1>1, <1>6, <2>1
<1> HIDE DEF Good
<1>9. QED
  BY <1>7, <1>8

SlotOf(t, r) ==
    [rm |-> r, max |-> cap[r], clients |-> Cardinality(Clients(t, r))]

LEMMA ClientsFinite ==
    ASSUME NEW t, NEW r
    PROVE  IsFiniteSet(Clients(t, r)) /\ Cardinality(Clients(t, r)) \in Nat
<1>1. Clients(t, r) \subseteq Users
  BY DEF Clients
<1>2. QED
  BY <1>1, ConstantsAssumption, FS_Subset, FS_CardinalityType

(* activeRingTx returns the slots of the active RMs but the leaving one.   *)
LEMMA RingIs ==
    ASSUME TypeOK, NEW t \in Requests, NEW leaving
    PROVE  LET ring == ActiveRing(t, leaving)
               here == {r \in RMs : status[r] = "active" /\ r # leaving}
           IN  /\ ring # << >> => IsRing(ring)
               /\ \A i \in DOMAIN ring : \E r \in here : ring[i] = SlotOf(t, r)
               /\ \A r \in here : \E i \in DOMAIN ring : ring[i] = SlotOf(t, r)
<1> DEFINE ring == ActiveRing(t, leaving)
           here == {r \in RMs : status[r] = "active" /\ r # leaving}
           slot == [r \in RMs |-> SlotOf(t, r)]
<1>1. ring = Slots(here, slot)
  BY DEF ActiveRing, SlotOf
<1>2. \A r \in RMs : slot[r] = SlotOf(t, r)
  OBVIOUS
<1>3. here \subseteq RMs
  OBVIOUS
<1> HIDE DEF ring, slot, here
<1>4. /\ Len(ring) \in Nat /\ DOMAIN ring = 1 .. Len(ring)
      /\ \A i \in DOMAIN ring : \E r \in here \cap RMs : ring[i] = slot[r]
      /\ \A r \in here \cap RMs : \E i \in DOMAIN ring : ring[i] = slot[r]
  BY <1>1, SlotsAre
<1>5. \A i \in DOMAIN ring : \E r \in here : ring[i] = SlotOf(t, r)
  BY <1>2, <1>4
<1>6. \A r \in here : \E i \in DOMAIN ring : ring[i] = SlotOf(t, r)
  BY <1>2, <1>3, <1>4
<1>7. ASSUME NEW r \in RMs
      PROVE  SlotOf(t, r).clients \in Nat /\ SlotOf(t, r).max \in Int
  <2>1. cap[r] \in Int
    <3>1. PICK c \in Caps : cap[r] = c
      BY DEF TypeOK
    <3>2. \A x \in Caps : x \in Nat
      BY ConstantsAssumption
    <3>3. QED
      BY ONLY <3>1, <3>2
  <2>2. QED
    BY <2>1, ClientsFinite DEF SlotOf
<1>8. ASSUME ring # << >>
      PROVE  IsRing(ring)
  <2>1. Len(ring) >= 1
    <3>1. SUFFICES ASSUME Len(ring) = 0
                   PROVE  FALSE
      BY <1>4
    <3>2. PICK T : ring \in Seq(T)
      BY <1>1, SlotsAre
    <3>3. QED
      BY <1>8, <3>1, <3>2
  <2>2. QED
    BY <1>3, <1>4, <1>5, <1>7, <2>1 DEF IsRing
<1>9. QED
  BY <1>5, <1>6, <1>8 DEF ring, here
-----------------------------------------------------------------------------
(* Offboarding.  Under the queue lock the list of clients to move stays    *)
(* complete: a client the RM still has at the commit would have had to     *)
(* come from another holder of the lock.  This needs that nobody assigns   *)
(* by hand, which takes no queue lock.                                     *)
NobodyAssigns == Operations \cap {"assign", "remove"} = {}

(* What request r knows of the RM it offboards, `owned` being committed.   *)
Empties(r, owned) ==
    /\ r.op = "none" =>
         r.pc \in {"idle", "flip"} /\ \A u \in Users : r.write[u] = Unset
    /\ r.op \in {"none", "manual"} => r.rm = Nobody
    /\ r.op = "manual" => \A u \in Users : r.write[u] \in {Unset, Nobody}
    /\ r.op = "offboard" => r.rm \in RMs
    /\ r.op = "offboard" /\ r.pc \in {"lock", "list"} =>
         \A u \in Users : r.write[u] = Unset
    /\ r.op = "offboard" /\ r.pc \in {"pick", "update", "commit"} =>
         \A u \in Users :
           /\ r.write[u] # r.rm
           /\ owned[u] = r.rm /\ r.write[u] = Unset =>
                u \in r.todo \/ (r.pc = "update" /\ u = r.user)
    /\ r.op = "offboard" /\ r.pc = "update" => r.after # r.rm
    /\ r.op = "offboard" /\ r.pc = "commit" => r.todo = {}

EmptyInv == \A t \in Requests : Empties(req[t], owner)

LEMMA IdleEmpties ==
    ASSUME NEW owned
    PROVE  Empties(Idle, owned)
BY DEF Empties, Idle

(* A step of t that leaves the owners alone.                               *)
LEMMA EmptyStep ==
    ASSUME TypeOK, EmptyInv, NEW t \in Requests, NEW r,
           req' = [req EXCEPT ![t] = r], owner' = owner, Empties(r, owner)
    PROVE  EmptyInv'
BY DEF TypeOK, EmptyInv

LEMMA RollBackEmpty ==
    ASSUME TypeOK, EmptyInv, NEW t \in Requests, RollBack(t)
    PROVE  EmptyInv'
BY IdleEmpties, EmptyStep DEF RollBack

LEMMA PickEmpty ==
    ASSUME TypeOK, EmptyInv, LockInv, NEW t \in Requests, Pick(t)
    PROVE  EmptyInv'
<1> DEFINE me == req[t]
           leaving == IF me.op = "offboard" THEN me.rm ELSE Nobody
           ring == ActiveRing(t, leaving)
<1>0. me \in Request /\ me.pc = "pick" /\ Empties(me, owner)
  BY DEF TypeOK, EmptyInv, Pick
<1>1. CASE ring = << >>
  BY <1>1, RollBackEmpty DEF Pick
<1>2. CASE ring # << >>
  <2>1. PICK chosen \in RMs :
          /\ chosen = PickNextRM(ring, me.after)
          /\ IF me.op = "offboard"
             THEN \E u \in me.todo :
                    req' = [req EXCEPT ![t] =
                      [me EXCEPT !.pc = "update", !.user = u, !.after = chosen,
                                 !.from = [me.from EXCEPT ![u] = me.rm],
                                 !.todo = me.todo \ {u}]]
             ELSE req' = [req EXCEPT ![t] = [me EXCEPT !.pc = "current", !.rm = chosen]]
          /\ owner' = owner
    BY <1>2 DEF Pick, tables
  <2>2. chosen # leaving
    <3> HIDE DEF ring
    <3>1. IsRing(ring) /\ \A i \in DOMAIN ring :
            \E r \in RMs : r # leaving /\ ring[i] = SlotOf(t, r)
      BY <1>2, RingIs DEF ring
    <3>2. PICK i \in DOMAIN ring : chosen = ring[i].rm
      BY <2>1, <3>1, PickIsSound
    <3>3. QED
      BY <3>1, <3>2 DEF SlotOf
  <2>3. CASE me.op = "offboard"
    <3>1. PICK u \in me.todo :
            req' = [req EXCEPT ![t] =
              [me EXCEPT !.pc = "update", !.user = u, !.after = chosen,
                         !.from = [me.from EXCEPT ![u] = me.rm],
                         !.todo = me.todo \ {u}]]
      BY <2>1, <2>3
    <3> DEFINE r == [me EXCEPT !.pc = "update", !.user = u, !.after = chosen,
                               !.from = [me.from EXCEPT ![u] = me.rm],
                               !.todo = me.todo \ {u}]
    <3>2. /\ r.op = me.op /\ r.rm = me.rm /\ r.write = me.write
          /\ r.pc = "update" /\ r.user = u /\ r.after = chosen /\ r.todo = me.todo \ {u}
      BY <1>0 DEF Request
    <3> HIDE DEF r
    <3>3. Empties(r, owner)
      BY <1>0, <2>2, <2>3, <3>2 DEF Empties
    <3>4. QED
      BY <2>1, <3>1, <3>3, EmptyStep DEF r
  <2>4. CASE me.op # "offboard"
    <3> DEFINE r == [me EXCEPT !.pc = "current", !.rm = chosen]
    <3>1. r.op = me.op /\ me.op = "auto"
      BY <1>0, <2>4 DEF Request, LockInv, QueueHeld, OpFitsLabel
    <3>2. req' = [req EXCEPT ![t] = r]
      BY <2>1, <2>4
    <3> HIDE DEF r
    <3>3. Empties(r, owner)
      BY <3>1 DEF Empties
    <3>4. QED
      BY <2>1, <3>2, <3>3, EmptyStep
  <2>5. QED
    BY <2>3, <2>4
<1>3. QED
  BY <1>1, <1>2

LEMMA UpdateEmpty ==
    ASSUME TypeOK, EmptyInv, NEW t \in Requests, UpdateRow(t)
    PROVE  EmptyInv'
<1> DEFINE me == req[t]
           to == IF me.op = "offboard" THEN me.after ELSE me.rm
           r == [me EXCEPT !.write = [me.write EXCEPT ![me.user] = to],
                           !.pc = IF me.todo = {} THEN "commit" ELSE "pick"]
<1>0. me \in Request /\ Empties(me, owner) /\ me.pc = "update"
  BY DEF TypeOK, EmptyInv, UpdateRow
<1>1. req' = [req EXCEPT ![t] = r] /\ owner' = owner
  BY DEF UpdateRow, tables
<1>2. /\ r.op = me.op /\ r.rm = me.rm /\ r.todo = me.todo
      /\ me.write \in [Users -> Owners \cup {Unset}]
      /\ r.write = [me.write EXCEPT ![me.user] = to]
      /\ r.pc = IF me.todo = {} THEN "commit" ELSE "pick"
  BY <1>0 DEF Request
<1>3. \A u \in Users : r.write[u] = IF u = me.user THEN to ELSE me.write[u]
  BY <1>2
<1>4. me.op = "offboard" => to # Unset
  BY <1>0, ConstantsAssumption DEF Request, Owners
<1> HIDE DEF r
<1>5. Empties(r, owner)
  <2>1. CASE me.op = "offboard"
    BY <1>0, <1>2, <1>3, <1>4, <2>1 DEF Empties
  <2>2. CASE me.op # "offboard"
    BY <1>0, <1>2, <1>3, <2>2 DEF Empties
  <2>3. QED
    BY <2>1, <2>2
<1>6. QED
  BY <1>1, <1>5, EmptyStep

(* Only the holder of the queue lock, or a removal, can commit while an    *)
(* offboarding is past its list of clients.                                *)
LEMMA CommitEmpty ==
    ASSUME TypeOK, EmptyInv, LockInv, NEW t \in Requests, Commit(t)
    PROVE  EmptyInv'
<1>1. req' = [req EXCEPT ![t] = Idle] /\ req[t].pc = "commit" /\ req[t] \in Request
  BY DEF Commit, TypeOK
<1>2. Empties(req'[t], owner')
  BY <1>1, IdleEmpties DEF TypeOK
<1>3. ASSUME NEW s \in Requests \ {t}
      PROVE  Empties(req'[s], owner')
  <2>1. req'[s] = req[s] /\ Empties(req[s], owner)
    BY <1>1 DEF TypeOK, EmptyInv
  <2>2. CASE req[s].op = "offboard" /\ req[s].pc \in {"pick", "update", "commit"}
    <3>1. queueLock = s
      BY <2>2 DEF LockInv, QueueHeld
    <3>2. req[t].op \in {"none", "manual"}
      BY <1>1, <3>1 DEF LockInv, QueueHeld, Request
    <3>3. \A u \in Users : req[t].write[u] \in {Unset, Nobody}
      BY <3>2 DEF EmptyInv, Empties
    <3>4. \A u \in Users : owner'[u] = owner[u] \/ owner'[u] = Nobody
      BY <3>3 DEF Commit, Written
    <3>5. req[s].rm # Nobody
      BY <2>1, <2>2, ConstantsAssumption DEF Empties
    <3>6. QED
      BY <2>1, <2>2, <3>4, <3>5 DEF Empties
  <2>3. CASE ~ (req[s].op = "offboard" /\ req[s].pc \in {"pick", "update", "commit"})
    BY <2>1, <2>3 DEF Empties
  <2>4. QED
    BY <2>2, <2>3
<1>4. QED
  BY <1>2, <1>3 DEF EmptyInv

LEMMA StepEmpty ==
    ASSUME NobodyAssigns, TypeOK, EmptyInv, LockInv, [Next]_vars
    PROVE  EmptyInv'
<1>1. ASSUME NEW t \in Requests, NEW u \in Users, NEW want \in {"in", "out"},
             SignUp(t, u, want)
      PROVE  EmptyInv'
  <2> DEFINE auto == [Idle EXCEPT !.pc = "lock", !.op = "auto", !.user = u,
                                  !.action = "auto_assign"]
  <2>1. Empties(auto, owner) /\ Empties(Idle, owner)
    BY IdleEmpties DEF Empties, Idle
  <2>2. owner' = owner /\ \E r \in {auto, Idle} : req' = [req EXCEPT ![t] = r]
    BY <1>1 DEF SignUp, Start, tables
  <2> HIDE DEF auto
  <2>3. QED
    BY <2>1, <2>2, EmptyStep
<1>2. ASSUME NEW t \in Requests, NEW u \in Users, NEW want \in {"in", "out"},
             Login(t, u, want)
      PROVE  EmptyInv'
  <2> DEFINE r == [Idle EXCEPT !.pc = "flip", !.user = u, !.want = want]
  <2>1. Empties(r, owner)
    BY DEF Empties, Idle
  <2>2. owner' = owner /\ req' = [req EXCEPT ![t] = r]
    BY <1>2 DEF Login, Start, tables
  <2> HIDE DEF r
  <2>3. QED
    BY <2>1, <2>2, EmptyStep
<1>3. ASSUME NEW t \in Requests, NEW rm \in RMs, Offboard(t, rm)
      PROVE  EmptyInv'
  <2> DEFINE r == [Idle EXCEPT !.pc = "lock", !.op = "offboard", !.rm = rm,
                               !.action = "transfer"]
  <2>1. Empties(r, owner)
    BY DEF Empties, Idle
  <2>2. owner' = owner /\ req' = [req EXCEPT ![t] = r]
    BY <1>3 DEF Offboard, Start, tables
  <2> HIDE DEF r
  <2>3. QED
    BY <2>1, <2>2, EmptyStep
<1>4. ASSUME NEW r \in RMs, NEW s \in {"active", "inactive"}, NEW c \in Caps,
             UpdateRM(r, s, c)
      PROVE  EmptyInv'
  BY <1>4 DEF UpdateRM, tables, EmptyInv
<1>5. ASSUME NEW t \in Requests, FlipOptIn(t)
      PROVE  EmptyInv'
  <2>1. PICK r : /\ req' = [req EXCEPT ![t] = r] /\ owner' = owner
                 /\ r \in {[req[t] EXCEPT !.pc = "lock", !.op = "auto",
                                          !.action = "auto_assign"],
                           [req[t] EXCEPT !.pc = "begin", !.op = "manual",
                                          !.action = "remove"]}
    BY <1>5 DEF FlipOptIn, tables
  <2>2. req[t].op = "none" /\ Empties(req[t], owner) /\ req[t] \in Request
    BY <1>5 DEF FlipOptIn, LockInv, QueueHeld, OpFitsLabel, EmptyInv, TypeOK
  <2>3. /\ r.op \in {"auto", "manual"} /\ r.rm = req[t].rm /\ r.write = req[t].write
    BY <2>1, <2>2 DEF Request
  <2>4. Empties(r, owner)
    BY <2>2, <2>3 DEF Empties
  <2>5. QED
    BY <2>1, <2>4, EmptyStep
<1>6. ASSUME NEW t \in Requests, Begin(t) \/ ReadCurrent(t)
      PROVE  EmptyInv'
  <2> DEFINE r == [req[t] EXCEPT !.pc = "update",
                                 !.from[req[t].user] = owner[req[t].user]]
  <2>1. req' = [req EXCEPT ![t] = r] /\ owner' = owner
    BY <1>6 DEF Begin, ReadCurrent, tables, TypeOK, Request
  <2>2. req[t].op \in {"auto", "manual"} /\ Empties(req[t], owner) /\ req[t] \in Request
    BY <1>6 DEF Begin, ReadCurrent, LockInv, QueueHeld, OpFitsLabel, EmptyInv, TypeOK
  <2>3. r.op = req[t].op /\ r.rm = req[t].rm /\ r.write = req[t].write
    BY <2>2 DEF Request
  <2> HIDE DEF r
  <2>4. Empties(r, owner)
    BY <2>2, <2>3 DEF Empties
  <2>5. QED
    BY <2>1, <2>4, EmptyStep
<1>7. ASSUME NEW t \in Requests, LockQueue(t)
      PROVE  EmptyInv'
  <2>1. PICK r : /\ req' = [req EXCEPT ![t] = r] /\ owner' = owner
                 /\ r = IF req[t].op = "auto"
                        THEN [req[t] EXCEPT !.pc = "pick", !.after = lastAssigned]
                        ELSE [req[t] EXCEPT !.pc = "list"]
    BY <1>7 DEF LockQueue
  <2>2. /\ req[t].op \in {"auto", "offboard"} /\ Empties(req[t], owner)
        /\ req[t] \in Request /\ req[t].pc = "lock"
    BY <1>7 DEF LockQueue, LockInv, QueueHeld, OpFitsLabel, EmptyInv, TypeOK
  <2>3. /\ r.op = req[t].op /\ r.rm = req[t].rm /\ r.write = req[t].write
        /\ r.op = "offboard" => r.pc = "list"
    BY <2>1, <2>2 DEF Request
  <2>4. Empties(r, owner)
    BY <2>2, <2>3 DEF Empties
  <2>5. QED
    BY <2>1, <2>4, EmptyStep
<1>8. ASSUME NEW t \in Requests, ListClients(t)
      PROVE  EmptyInv'
  <2> DEFINE held == {u \in Users : owner[u] = req[t].rm}
             r == [req[t] EXCEPT !.pc = "pick", !.todo = held]
  <2>1. CASE RollBack(t)
    BY <2>1, RollBackEmpty
  <2>2. CASE ~ RollBack(t)
    <3>1. req[t].op = "offboard" /\ Empties(req[t], owner) /\ req[t] \in Request
      BY <1>8 DEF ListClients, LockInv, QueueHeld, OpFitsLabel, EmptyInv, TypeOK
    <3>2. req' = [req EXCEPT ![t] = r] /\ owner' = owner /\ req[t].pc = "list"
      BY <1>8, <2>2, <3>1 DEF ListClients, tables, TypeOK, Request
    <3>3. /\ r.op = "offboard" /\ r.rm = req[t].rm /\ r.write = req[t].write
          /\ r.pc = "pick" /\ r.todo = held
      BY <3>1 DEF Request
    <3>4. \A u \in Users : Unset # req[t].rm
      BY <3>1, ConstantsAssumption DEF Empties
    <3> HIDE DEF r
    <3>5. Empties(r, owner)
      BY <3>1, <3>2, <3>3, <3>4 DEF Empties
    <3>6. QED
      BY <3>2, <3>5, EmptyStep
  <2>3. QED
    BY <2>1, <2>2
<1>9. ASSUME NEW t \in Requests, Fail(t)
      PROVE  EmptyInv'
  BY <1>9, RollBackEmpty DEF Fail
<1>10. CASE UNCHANGED vars
  BY <1>10 DEF vars, EmptyInv
<1>11. QED
  BY <1>1, <1>2, <1>3, <1>4, <1>5, <1>6, <1>7, <1>8, <1>9, <1>10, PickEmpty, UpdateEmpty,
     CommitEmpty
  DEF Next, Advance, AdminAssign, AdminRemove, NobodyAssigns

(* An offboarding that commits leaves its RM no client, whatever signups,  *)
(* opt-outs and other offboardings raced with it.                          *)
THEOREM OffboardingEmpties ==
    ASSUME NobodyAssigns
    PROVE  Spec => OffboardEmptiesBook
<1>1. Init => EmptyInv
  BY IdleEmpties DEF Init, EmptyInv
<1>2. TypeOK /\ LockInv /\ EmptyInv /\ [Next]_vars => LockInv' /\ EmptyInv'
  BY StepLock, StepEmpty
<1>3. ASSUME TypeOK, EmptyInv, NEW t \in Requests, req[t].op = "offboard", Commit(t)
      PROVE  \A u \in Users : owner'[u] # req[t].rm
  <2>1. req[t].pc = "commit" /\ Empties(req[t], owner)
    BY <1>3 DEF Commit, EmptyInv
  <2>2. QED
    BY <1>3, <2>1 DEF Commit, Written, Empties
<1>4. TypeOK /\ EmptyInv /\ [Next]_vars =>
        [\A t \in Requests :
           req[t].op = "offboard" /\ Commit(t) =>
               \A u \in Users : owner'[u] # req[t].rm]_vars
  BY <1>3
<1>5. QED
  BY <1>1, <1>2, <1>4, InitLock, TypeCorrect, PTL DEF Spec, OffboardEmptiesBook
-----------------------------------------------------------------------------
(* The router alone.  While no row of an admin or of an offboarding has    *)
(* been committed, every commit either routes one client or takes one away *)
(* from their RM; Dispatched is what a request on its way knows of itself. *)
Dispatched(r) ==
    /\ r.op = "none" => r.pc \in {"idle", "flip"} /\ r.rm = Nobody
    /\ r.pc # "idle" /\ r.op # "offboard" => r.user \in Users
    /\ r.pc = "update" => r.user \in Users
    /\ r.op = "none" \/ r.pc \in {"idle", "flip", "begin", "lock", "list", "current"}
         \/ (r.op # "offboard" /\ r.pc # "commit") =>
         \A u \in Users : r.write[u] = Unset
    /\ r.op = "auto" => r.action = "auto_assign"
    /\ r.op = "auto" /\ r.pc \in {"current", "update", "commit"} => r.rm \in RMs
    /\ r.op = "offboard" => r.action = "transfer"
    /\ r.op = "offboard" /\ r.pc = "commit" => \E u \in Users : r.write[u] # Unset
    /\ r.op = "manual" => r.action # "auto_assign" /\ (r.action = "remove" => r.rm = Nobody)
    /\ r.op \in {"auto", "manual"} /\ r.pc = "commit" =>
         \A u \in Users : r.write[u] = IF u = r.user THEN r.rm ELSE Unset

DispatchInv ==
    /\ \A t \in Requests : Dispatched(req[t])
    /\ updates = 0 => \A r \in RMs : status[r] = "active"

(* Requests whose RM has been picked and is not yet committed.             *)
Routing(t) == req[t].op = "auto" /\ req[t].pc \in {"current", "update", "commit"}

FitInv ==
    RouterOnly /\ DeskCapacity(cap) > Cardinality(Users) =>
        /\ \A r \in RMs : Cardinality(Book(r)) <= cap[r]
        /\ \A t \in Requests :
             Routing(t) => Cardinality(Book(req[t].rm)) < cap[req[t].rm]

(* The i-th RM of the desk is next after `last`.                           *)
IsNext(i, last) ==
    IF i = 1 THEN last \in {Nobody, Desk[Len(Desk)]} ELSE last = Desk[i - 1]

(* The desk is `full` laps and the RMs before `next` into the deal.        *)
Dealt(full, next) ==
    /\ IsNext(next, lastAssigned)
    /\ \A i \in DOMAIN Desk :
         /\ IsFiniteSet(Routed(Desk[i]))
         /\ Cardinality(Routed(Desk[i])) = IF i < next THEN full + 1 ELSE full

FairInv ==
    RouterOnly /\ RoomEverywhere =>
        /\ \E full \in Nat, next \in DOMAIN Desk : Dealt(full, next)
        /\ \A t \in Requests : Routing(t) =>
             \E i \in DOMAIN Desk : req[t].rm = Desk[i] /\ IsNext(i, lastAssigned)
        /\ IF lastAssigned = Nobody THEN \A u \in Users : owner[u] = Nobody
           ELSE \E u \in Users : owner[u] \in {lastAssigned, Nobody}

LEMMA IdleDispatched == Dispatched(Idle)
BY DEF Dispatched, Idle

(* A step of t to r, which leaves what is said of the desk true.           *)
LEMMA DispatchStep ==
    ASSUME TypeOK, DispatchInv, NEW t \in Requests, NEW r,
           req' = [req EXCEPT ![t] = r], Dispatched(r), UNCHANGED desk
    PROVE  DispatchInv'
BY DEF TypeOK, DispatchInv, desk

LEMMA RollBackDispatch ==
    ASSUME TypeOK, DispatchInv, NEW t \in Requests, RollBack(t)
    PROVE  DispatchInv'
BY IdleDispatched, DispatchStep DEF RollBack

LEMMA StartDispatch ==
    ASSUME TypeOK, DispatchInv, NEW t \in Requests,
           \/ \E u \in Users, want \in {"in", "out"} :
                SignUp(t, u, want) \/ Login(t, u, want)
           \/ \E u \in Users, rm \in RMs : AdminAssign(t, u, rm)
           \/ \E u \in Users : AdminRemove(t, u)
           \/ \E rm \in RMs : Offboard(t, rm)
    PROVE  DispatchInv'
<1>1. ASSUME NEW u \in Users, NEW want \in {"in", "out"}, SignUp(t, u, want)
      PROVE  DispatchInv'
  <2> DEFINE auto == [Idle EXCEPT !.pc = "lock", !.op = "auto", !.user = u,
                                  !.action = "auto_assign"]
  <2>1. Dispatched(auto)
    BY DEF Dispatched, Idle
  <2>2. UNCHANGED desk /\ \E r \in {auto, Idle} : req' = [req EXCEPT ![t] = r]
    BY <1>1 DEF SignUp, Start
  <2> HIDE DEF auto
  <2>3. QED
    BY <2>1, <2>2, IdleDispatched, DispatchStep
<1>2. ASSUME NEW u \in Users, NEW want \in {"in", "out"}, Login(t, u, want)
      PROVE  DispatchInv'
  <2> DEFINE r == [Idle EXCEPT !.pc = "flip", !.user = u, !.want = want]
  <2>1. Dispatched(r)
    BY DEF Dispatched, Idle
  <2>2. UNCHANGED desk /\ req' = [req EXCEPT ![t] = r]
    BY <1>2 DEF Login, Start
  <2> HIDE DEF r
  <2>3. QED
    BY <2>1, <2>2, DispatchStep
<1>3. ASSUME NEW u \in Users, NEW rm \in RMs, AdminAssign(t, u, rm)
      PROVE  DispatchInv'
  <2>1. PICK a \in {"assign", "transfer"} :
          req' = [req EXCEPT ![t] = [Idle EXCEPT !.pc = "begin", !.op = "manual",
                                                 !.user = u, !.rm = rm, !.action = a]]
    BY <1>3 DEF AdminAssign, Start
  <2> DEFINE r == [Idle EXCEPT !.pc = "begin", !.op = "manual",
                               !.user = u, !.rm = rm, !.action = a]
  <2>2. Dispatched(r)
    BY DEF Dispatched, Idle
  <2>3. UNCHANGED desk /\ req' = [req EXCEPT ![t] = r]
    BY <1>3, <2>1 DEF AdminAssign
  <2> HIDE DEF r
  <2>4. QED
    BY <2>2, <2>3, DispatchStep
<1>4. ASSUME NEW u \in Users, AdminRemove(t, u)
      PROVE  DispatchInv'
  <2> DEFINE r == [Idle EXCEPT !.pc = "begin", !.op = "manual", !.user = u]
  <2>1. Dispatched(r)
    BY DEF Dispatched, Idle
  <2>2. UNCHANGED desk /\ req' = [req EXCEPT ![t] = r]
    BY <1>4 DEF AdminRemove, Start
  <2> HIDE DEF r
  <2>3. QED
    BY <2>1, <2>2, DispatchStep
<1>5. ASSUME NEW rm \in RMs, Offboard(t, rm)
      PROVE  DispatchInv'
  <2> DEFINE r == [Idle EXCEPT !.pc = "lock", !.op = "offboard", !.rm = rm,
                               !.action = "transfer"]
  <2>1. Dispatched(r)
    BY DEF Dispatched, Idle
  <2>2. UNCHANGED desk /\ req' = [req EXCEPT ![t] = r]
    BY <1>5 DEF Offboard, Start
  <2> HIDE DEF r
  <2>3. QED
    BY <2>1, <2>2, DispatchStep
<1>6. QED
  BY <1>1, <1>2, <1>3, <1>4, <1>5

LEMMA AdvanceDispatch ==
    ASSUME TypeOK, LockInv, DispatchInv, NEW t \in Requests, Advance(t)
    PROVE  DispatchInv'
<1> DEFINE me == req[t]
<1>0. me \in Request /\ Dispatched(me) /\ OpFitsLabel(me)
  BY DEF TypeOK, DispatchInv, LockInv, QueueHeld
<1>1. CASE FlipOptIn(t)
  <2>1. PICK r : /\ req' = [req EXCEPT ![t] = r]
                 /\ r \in {[me EXCEPT !.pc = "lock", !.op = "auto",
                                      !.action = "auto_assign"],
                           [me EXCEPT !.pc = "begin", !.op = "manual",
                                      !.action = "remove"]}
    BY <1>1 DEF FlipOptIn
  <2>2. me.op = "none" /\ me.pc = "flip"
    BY <1>0, <1>1 DEF FlipOptIn, OpFitsLabel
  <2>3. /\ r.user = me.user /\ r.rm = me.rm /\ r.write = me.write
        /\ \/ r.pc = "lock" /\ r.op = "auto" /\ r.action = "auto_assign"
           \/ r.pc = "begin" /\ r.op = "manual" /\ r.action = "remove"
    BY <1>0, <2>1 DEF Request
  <2>4. Dispatched(r)
    BY <1>0, <2>2, <2>3 DEF Dispatched
  <2>5. QED
    BY <1>1, <2>1, <2>4, DispatchStep DEF FlipOptIn
<1>2. CASE Begin(t) \/ ReadCurrent(t)
  <2> DEFINE r == [me EXCEPT !.pc = "update", !.from[me.user] = owner[me.user]]
  <2>1. req' = [req EXCEPT ![t] = r] /\ UNCHANGED desk
    BY <1>2 DEF Begin, ReadCurrent, TypeOK, Request
  <2>2. me.pc \in {"begin", "current"} /\ me.op \in {"auto", "manual"}
    BY <1>0, <1>2 DEF Begin, ReadCurrent, OpFitsLabel
  <2>3. /\ r.op = me.op /\ r.user = me.user /\ r.rm = me.rm /\ r.write = me.write
        /\ r.pc = "update" /\ r.action = me.action
    BY <1>0 DEF Request
  <2>4. me.op = "auto" => me.pc = "current"
    BY <1>0, <2>2 DEF OpFitsLabel
  <2> HIDE DEF r
  <2>5. Dispatched(r)
    BY <1>0, <2>2, <2>3, <2>4 DEF Dispatched
  <2>6. QED
    BY <2>1, <2>5, DispatchStep
<1>3. CASE LockQueue(t)
  <2>1. PICK r : /\ req' = [req EXCEPT ![t] = r]
                 /\ r = IF me.op = "auto" THEN [me EXCEPT !.pc = "pick", !.after = lastAssigned]
                                          ELSE [me EXCEPT !.pc = "list"]
    BY <1>3 DEF LockQueue
  <2>2. me.pc = "lock" /\ me.op \in {"auto", "offboard"}
    BY <1>0, <1>3 DEF LockQueue, OpFitsLabel
  <2>3. /\ r.op = me.op /\ r.user = me.user /\ r.rm = me.rm /\ r.write = me.write
        /\ r.pc \in {"pick", "list"} /\ r.action = me.action
    BY <1>0, <2>1 DEF Request
  <2>4. Dispatched(r)
    BY <1>0, <2>2, <2>3 DEF Dispatched
  <2>5. QED
    BY <1>3, <2>1, <2>4, DispatchStep DEF LockQueue
<1>4. CASE ListClients(t)
  <2> DEFINE held == {u \in Users : owner[u] = me.rm}
             r == [me EXCEPT !.pc = "pick", !.todo = held]
  <2>1. CASE RollBack(t)
    BY <2>1, RollBackDispatch
  <2>2. CASE ~ RollBack(t)
    <3>1. req' = [req EXCEPT ![t] = r] /\ UNCHANGED desk /\ me.pc = "list"
      BY <1>0, <1>4, <2>2 DEF ListClients, TypeOK, Request
    <3>2. /\ r.op = me.op /\ r.user = me.user /\ r.rm = me.rm /\ r.write = me.write
          /\ r.pc = "pick" /\ r.action = me.action
      BY <1>0 DEF Request
    <3>3. me.op = "offboard"
      BY <1>0, <3>1 DEF OpFitsLabel
    <3> HIDE DEF r
    <3>4. Dispatched(r)
      BY <1>0, <3>1, <3>2, <3>3 DEF Dispatched
    <3>5. QED
      BY <3>1, <3>4, DispatchStep
  <2>3. QED
    BY <2>1, <2>2
<1>5. CASE Pick(t)
  <2>1. CASE RollBack(t)
    BY <2>1, RollBackDispatch
  <2>2. CASE ~ RollBack(t)
    <3>1. PICK chosen \in RMs :
            /\ IF me.op = "offboard"
               THEN \E u \in me.todo :
                      req' = [req EXCEPT ![t] =
                        [me EXCEPT !.pc = "update", !.user = u, !.after = chosen,
                                   !.from = [me.from EXCEPT ![u] = me.rm],
                                   !.todo = me.todo \ {u}]]
               ELSE req' = [req EXCEPT ![t] = [me EXCEPT !.pc = "current", !.rm = chosen]]
            /\ UNCHANGED desk /\ me.pc = "pick"
      BY <1>5, <2>2 DEF Pick
    <3>2. CASE me.op = "offboard"
      <4>1. PICK u \in me.todo :
              req' = [req EXCEPT ![t] =
                [me EXCEPT !.pc = "update", !.user = u, !.after = chosen,
                           !.from = [me.from EXCEPT ![u] = me.rm],
                           !.todo = me.todo \ {u}]]
        BY <3>1, <3>2
      <4> DEFINE r == [me EXCEPT !.pc = "update", !.user = u, !.after = chosen,
                                 !.from = [me.from EXCEPT ![u] = me.rm],
                                 !.todo = me.todo \ {u}]
      <4>2. /\ r.op = me.op /\ r.user = u /\ r.rm = me.rm /\ r.write = me.write
            /\ r.pc = "update" /\ r.action = me.action /\ u \in Users
        BY <1>0 DEF Request
      <4> HIDE DEF r
      <4>3. Dispatched(r)
        BY <1>0, <3>2, <4>2 DEF Dispatched
      <4>4. QED
        BY <3>1, <4>1, <4>3, DispatchStep DEF r
    <3>3. CASE me.op # "offboard"
      <4> DEFINE r == [me EXCEPT !.pc = "current", !.rm = chosen]
      <4>1. req' = [req EXCEPT ![t] = r] /\ me.op = "auto"
        BY <1>0, <3>1, <3>3 DEF OpFitsLabel
      <4>2. /\ r.op = me.op /\ r.user = me.user /\ r.rm = chosen /\ r.write = me.write
            /\ r.pc = "current" /\ r.action = me.action
        BY <1>0 DEF Request
      <4> HIDE DEF r
      <4>3. Dispatched(r)
        BY <1>0, <3>1, <4>1, <4>2 DEF Dispatched
      <4>4. QED
        BY <3>1, <4>1, <4>3, DispatchStep
    <3>4. QED
      BY <3>2, <3>3
  <2>3. QED
    BY <2>1, <2>2
<1>6. CASE UpdateRow(t)
  <2> DEFINE to == IF me.op = "offboard" THEN me.after ELSE me.rm
             r == [me EXCEPT !.write = [me.write EXCEPT ![me.user] = to],
                             !.pc = IF me.todo = {} THEN "commit" ELSE "pick"]
  <2>1. req' = [req EXCEPT ![t] = r] /\ UNCHANGED desk /\ me.pc = "update"
    BY <1>6 DEF UpdateRow
  <2>2. /\ r.op = me.op /\ r.user = me.user /\ r.rm = me.rm /\ r.action = me.action
        /\ me.write \in [Users -> Owners \cup {Unset}]
        /\ r.write = [me.write EXCEPT ![me.user] = to]
        /\ r.pc = IF me.todo = {} THEN "commit" ELSE "pick"
    BY <1>0 DEF Request
  <2>3. me.user \in Users /\ me.op # "none" /\ (me.op # "offboard" => me.todo = {})
    BY <1>0, <2>1 DEF Dispatched, OpFitsLabel
  <2>4. to # Unset
    BY <1>0, ConstantsAssumption DEF Request, Owners
  <2>5. \A u \in Users : r.write[u] = IF u = me.user THEN to ELSE me.write[u]
    BY <2>2
  <2> HIDE DEF r
  <2>6. Dispatched(r)
    <3>1. CASE me.op = "offboard"
      BY <1>0, <2>1, <2>2, <2>3, <2>4, <2>5, <3>1 DEF Dispatched
    <3>2. CASE me.op # "offboard"
      BY <1>0, <2>1, <2>2, <2>3, <2>4, <2>5, <3>2 DEF Dispatched
    <3>3. QED
      BY <3>1, <3>2
  <2>7. QED
    BY <2>1, <2>6, DispatchStep
<1>7. CASE Commit(t)
  BY <1>7, IdleDispatched, DispatchStep DEF Commit
<1>8. QED
  BY <1>1, <1>2, <1>3, <1>4, <1>5, <1>6, <1>7 DEF Advance

LEMMA StepDispatch ==
    ASSUME TypeOK, LockInv, DispatchInv, [Next]_vars
    PROVE  DispatchInv'
<1>1. ASSUME NEW r \in RMs, NEW s \in {"active", "inactive"}, NEW c \in Caps,
             UpdateRM(r, s, c)
      PROVE  DispatchInv'
  BY <1>1 DEF UpdateRM, DispatchInv, TypeOK
<1>2. CASE UNCHANGED vars
  BY <1>2 DEF vars, DispatchInv
<1>3. ASSUME NEW t \in Requests, Fail(t)
      PROVE  DispatchInv'
  BY <1>3, RollBackDispatch DEF Fail
<1>4. QED
  BY <1>1, <1>2, <1>3, StartDispatch, AdvanceDispatch DEF Next

LEMMA InitDispatch == Init => DispatchInv
BY IdleDispatched DEF Init, DispatchInv

(* The rows of the log, before and after a commit.                         *)
LEMMA RowIn ==
    ASSUME NEW actions, NEW x
    PROVE  x \in Rows(actions) <=>
             \E u \in Users : \E i \in DOMAIN history[u] :
                x = <<u, i>> /\ history[u][i].action \in actions
BY DEF Rows

LEMMA CommitLog ==
    ASSUME TypeOK, NEW t \in Requests, Commit(t), NEW u \in Users
    PROVE  /\ history[u] \in Seq(Row) /\ Len(history[u]) \in Nat
           /\ DOMAIN history[u] = 1 .. Len(history[u])
           /\ \A i \in DOMAIN history[u] :
                i \in DOMAIN history'[u] /\ history'[u][i] = history[u][i]
           /\ u \notin Written(t) => history'[u] = history[u]
           /\ u \in Written(t) =>
                /\ DOMAIN history'[u] = 1 .. Len(history[u]) + 1
                /\ history'[u][Len(history[u]) + 1] = RowOf(t, u)
<1>1. history[u] \in Seq(Row)
  BY DEF TypeOK
<1>2. history'[u] = IF u \in Written(t) THEN Append(history[u], RowOf(t, u)) ELSE history[u]
  BY DEF Commit
<1> HIDE DEF Row
<1>3. QED
  BY <1>1, <1>2

LEMMA RowsKept ==
    ASSUME TypeOK, NEW t \in Requests, Commit(t), NEW actions
    PROVE  Rows(actions) \subseteq Rows(actions)'
<1> SUFFICES ASSUME NEW x \in Rows(actions)
             PROVE  x \in Rows(actions)'
  OBVIOUS
<1>1. PICK u \in Users : \E i \in DOMAIN history[u] :
        x = <<u, i>> /\ history[u][i].action \in actions
  BY RowIn
<1>2. PICK i \in DOMAIN history[u] : x = <<u, i>> /\ history[u][i].action \in actions
  BY <1>1
<1>3. i \in DOMAIN history'[u] /\ history'[u][i] = history[u][i]
  BY CommitLog
<1>4. QED
  BY <1>2, <1>3 DEF Rows

(* The row a commit adds to the log of a client it writes.                 *)
NewRow(u) == <<u, Len(history[u]) + 1>>

NewRows(t) == {<<u, Len(history[u]) + 1>> : u \in Written(t)}

LEMMA RowsAdded ==
    ASSUME TypeOK, NEW t \in Requests, Commit(t), NEW actions
    PROVE  /\ req[t].action \in actions =>
                Rows(actions)' = Rows(actions) \cup NewRows(t)
           /\ req[t].action \notin actions => Rows(actions)' = Rows(actions)
<1>1. ASSUME NEW x \in Rows(actions)'
      PROVE  \/ x \in Rows(actions)
             \/ req[t].action \in actions /\ x \in NewRows(t)
  <2>0. PICK u \in Users : \E i \in DOMAIN history'[u] :
          x = <<u, i>> /\ history'[u][i].action \in actions
    BY <1>1 DEF Rows
  <2>1. PICK i \in DOMAIN history'[u] : x = <<u, i>> /\ history'[u][i].action \in actions
    BY <2>0
  <2>2. CASE i \in DOMAIN history[u]
    <3>1. history'[u][i] = history[u][i]
      BY <2>2, CommitLog
    <3>2. QED
      BY <2>1, <2>2, <3>1 DEF Rows
  <2>3. CASE i \notin DOMAIN history[u]
    <3>1. u \in Written(t) /\ i = Len(history[u]) + 1 /\ history'[u][i] = RowOf(t, u)
      BY <2>1, <2>3, CommitLog
    <3>2. RowOf(t, u).action = req[t].action
      BY DEF RowOf
    <3>3. QED
      BY <2>1, <3>1, <3>2 DEF NewRows
  <2>4. QED
    BY <2>2, <2>3
<1>2. ASSUME req[t].action \in actions, NEW u \in Written(t)
      PROVE  NewRow(u) \in Rows(actions)'
  <2>1. u \in Users
    BY DEF Written
  <2>2. /\ Len(history[u]) + 1 \in DOMAIN history'[u]
        /\ history'[u][Len(history[u]) + 1] = RowOf(t, u)
    BY <2>1, CommitLog
  <2>3. RowOf(t, u).action = req[t].action
    BY DEF RowOf
  <2>4. QED
    BY <1>2, <2>1, <2>2, <2>3 DEF Rows, NewRow
<1>3. NewRows(t) = {NewRow(u) : u \in Written(t)}
  BY DEF NewRows, NewRow
<1>4. QED
  BY <1>1, <1>2, <1>3, RowsKept

(* Only a commit touches the ledger and the pointer, and only UpdateRM the *)
(* desk.                                                                   *)
LEMMA WhoWrites ==
    ASSUME [Next]_vars
    PROVE  /\ \/ \E t \in Requests : Commit(t)
              \/ UNCHANGED <<owner, history, lastAssigned>>
           /\ \/ \E r \in RMs, s \in {"active", "inactive"}, c \in Caps : UpdateRM(r, s, c)
              \/ UNCHANGED desk
<1> DEFINE Quiet == UNCHANGED <<owner, history, lastAssigned>> /\ UNCHANGED desk
<1>1. ASSUME UNCHANGED vars
      PROVE  Quiet
  BY <1>1 DEF vars, desk
<1>2. ASSUME NEW t \in Requests, NEW u \in Users, NEW want \in {"in", "out"},
             SignUp(t, u, want) \/ Login(t, u, want)
      PROVE  Quiet
  BY <1>2 DEF SignUp, Login, tables
<1>3. ASSUME NEW t \in Requests,
             \/ \E u \in Users, r \in RMs : AdminAssign(t, u, r)
             \/ \E u \in Users : AdminRemove(t, u)
             \/ \E r \in RMs : Offboard(t, r)
      PROVE  Quiet
  BY <1>3 DEF AdminAssign, AdminRemove, Offboard, tables
<1>4. ASSUME NEW t \in Requests, RollBack(t)
      PROVE  Quiet
  BY <1>4 DEF RollBack
<1>5. ASSUME NEW t \in Requests,
             FlipOptIn(t) \/ Begin(t) \/ ReadCurrent(t) \/ UpdateRow(t)
      PROVE  Quiet
  BY <1>5 DEF FlipOptIn, Begin, ReadCurrent, UpdateRow, tables
<1>6. ASSUME NEW t \in Requests, LockQueue(t)
      PROVE  Quiet
  BY <1>6 DEF LockQueue
<1>7. ASSUME NEW t \in Requests, ListClients(t) \/ Pick(t)
      PROVE  Quiet
  BY <1>4, <1>7 DEF ListClients, Pick, tables
<1>8. ASSUME NEW t \in Requests, Commit(t)
      PROVE  UNCHANGED desk
  BY <1>8 DEF Commit
<1>9. ASSUME NEW r \in RMs, NEW s \in {"active", "inactive"}, NEW c \in Caps,
             UpdateRM(r, s, c)
      PROVE  UNCHANGED <<owner, history, lastAssigned>>
  BY <1>9 DEF UpdateRM, tables
<1> HIDE DEF Quiet
<1>10. ASSUME NEW t \in Requests, Advance(t) \/ Fail(t)
       PROVE  Quiet \/ Commit(t)
  BY <1>4, <1>5, <1>6, <1>7, <1>10 DEF Advance, Fail
<1>11. \/ Quiet
       \/ \E t \in Requests : Commit(t)
       \/ \E r \in RMs, s \in {"active", "inactive"}, c \in Caps : UpdateRM(r, s, c)
  BY <1>1, <1>2, <1>3, <1>10 DEF Next
<1>12. QED
  BY <1>8, <1>9, <1>11 DEF Quiet

(* If only the router has decided after a step, it had before, and the     *)
(* desk is as it was.                                                      *)
LEMMA RouterOnlyBefore ==
    ASSUME TypeOK, [Next]_vars, RouterOnly'
    PROVE  RouterOnly /\ cap' = cap /\ status' = status
<1>1. updates' = 0 /\ Rows({"assign", "transfer"})' = {}
  BY DEF RouterOnly
<1>2. ASSUME NEW r \in RMs, NEW s \in {"active", "inactive"}, NEW c \in Caps,
             UpdateRM(r, s, c)
      PROVE  FALSE
  BY <1>1, <1>2 DEF UpdateRM, TypeOK
<1>3. UNCHANGED desk
  BY <1>2, WhoWrites
<1>4. CASE \E t \in Requests : Commit(t)
  BY <1>1, <1>3, <1>4, RowsKept DEF RouterOnly, desk
<1>5. CASE ~ \E t \in Requests : Commit(t)
  <2>1. history' = history
    BY <1>5, WhoWrites
  <2>2. Rows({"assign", "transfer"})' = Rows({"assign", "transfer"})
    BY <2>1 DEF Rows
  <2>3. QED
    BY <1>1, <1>3, <2>2 DEF RouterOnly, desk
<1>6. QED
  BY <1>4, <1>5

(* A commit that leaves the router alone either routes one client or takes *)
(* clients away from their RM.                                             *)
Routes(t) ==
    /\ Routing(t) /\ req[t].user \in Users /\ req[t].rm \in RMs
    /\ \A u \in Users : owner'[u] = IF u = req[t].user THEN req[t].rm ELSE owner[u]
    /\ lastAssigned' = req[t].rm
    /\ \A r \in RMs : Routed(r)' = IF r = req[t].rm THEN Routed(r) \cup {NewRow(req[t].user)}
                                                    ELSE Routed(r)

Removes(t) ==
    /\ ~ Routing(t)
    /\ \A u \in Users : owner'[u] \in {owner[u], Nobody}
    /\ lastAssigned' = lastAssigned
    /\ \A r \in RMs : Routed(r)' = Routed(r)

LEMMA RowStays ==
    ASSUME TypeOK, NEW t \in Requests, Commit(t), NEW x \in Rows({"auto_assign"})
    PROVE  history'[x[1]][x[2]] = history[x[1]][x[2]]
<1>1. PICK u \in Users : \E i \in DOMAIN history[u] : x = <<u, i>>
  BY RowIn
<1>2. PICK i \in DOMAIN history[u] : x = <<u, i>>
  BY <1>1
<1>3. history'[u][i] = history[u][i]
  BY CommitLog
<1>4. QED
  BY <1>2, <1>3

LEMMA RoutedKept ==
    ASSUME TypeOK, NEW t \in Requests, Commit(t), NEW r \in RMs,
           req[t].action # "auto_assign"
    PROVE  Routed(r)' = Routed(r)
<1>1. Rows({"auto_assign"})' = Rows({"auto_assign"})
  BY RowsAdded
<1>2. QED
  BY <1>1, RowStays DEF Routed

LEMMA RoutedGrows ==
    ASSUME TypeOK, NEW t \in Requests, Commit(t), NEW r \in RMs,
           req[t].action = "auto_assign", NEW u \in Users, Written(t) = {u}
    PROVE  Routed(r)' = IF r = req[t].write[u] THEN Routed(r) \cup {NewRow(u)}
                                               ELSE Routed(r)
<1> DEFINE Placed == Rows({"auto_assign"})
<1>1. Rows({"auto_assign"})' = Placed \cup {NewRow(u)}
  <2>1. NewRows(t) = {NewRow(u)}
    BY DEF NewRows, NewRow
  <2>2. QED
    BY <2>1, RowsAdded
<1>2. history'[NewRow(u)[1]][NewRow(u)[2]].to = req[t].write[u]
  <2>1. history'[u][Len(history[u]) + 1] = RowOf(t, u)
    BY CommitLog
  <2>2. QED
    BY <2>1 DEF NewRow, RowOf
<1>3. \A x \in Placed : history'[x[1]][x[2]] = history[x[1]][x[2]]
  BY RowStays
<1>4. Routed(r) = {x \in Placed : history[x[1]][x[2]].to = r}
  BY DEF Routed
<1> HIDE DEF Placed
<1>5. Routed(r)' = {x \in Placed \cup {NewRow(u)} : history'[x[1]][x[2]].to = r}
  BY <1>1 DEF Routed
<1>6. QED
  BY <1>2, <1>3, <1>4, <1>5

LEMMA CommitKinds ==
    ASSUME TypeOK, DispatchInv, NEW t \in Requests, Commit(t), RouterOnly'
    PROVE  Routes(t) \/ Removes(t)
<1> DEFINE me == req[t]
<1>1. /\ me.pc = "commit" /\ Dispatched(me) /\ me \in Request
      /\ owner' = [u \in Users |-> IF u \in Written(t) THEN me.write[u] ELSE owner[u]]
      /\ lastAssigned' = CASE me.op = "auto" -> me.rm
                           [] me.op = "offboard" -> me.after
                           [] OTHER -> lastAssigned
  BY DEF Commit, DispatchInv, TypeOK
<1>2. ASSUME NEW u \in Written(t)
      PROVE  me.action \notin {"assign", "transfer"}
  <2>1. me.action \in {"assign", "transfer"} =>
          NewRow(u) \in Rows({"assign", "transfer"})'
    <3>1. me.action \in {"assign", "transfer"} =>
            Rows({"assign", "transfer"})' = Rows({"assign", "transfer"}) \cup NewRows(t)
      BY RowsAdded
    <3>2. NewRow(u) \in NewRows(t)
      BY DEF NewRows, NewRow
    <3>3. QED
      BY <3>1, <3>2
  <2>2. QED
    BY <2>1 DEF RouterOnly
<1>3. CASE me.op = "auto"
  <2>1. /\ me.user \in Users /\ me.rm \in RMs /\ me.action = "auto_assign"
        /\ \A u \in Users : me.write[u] = IF u = me.user THEN me.rm ELSE Unset
    BY <1>1, <1>3 DEF Dispatched
  <2>2. Written(t) = {me.user}
    BY <2>1, ConstantsAssumption DEF Written
  <2>3. \A r \in RMs : Routed(r)' = IF r = me.rm THEN Routed(r) \cup {NewRow(me.user)}
                                                 ELSE Routed(r)
    BY <2>1, <2>2, RoutedGrows
  <2>4. QED
    BY <1>1, <1>3, <2>1, <2>2, <2>3 DEF Routes, Routing
<1>4. CASE me.op = "offboard"
  <2>1. me.action = "transfer" /\ \E u \in Users : u \in Written(t)
    BY <1>1, <1>4 DEF Dispatched, Written
  <2>2. QED
    BY <1>2, <2>1
<1>5. CASE me.op = "manual"
  <2>1. /\ me.user \in Users
        /\ \A u \in Users : me.write[u] = IF u = me.user THEN me.rm ELSE Unset
        /\ me.action # "auto_assign" /\ (me.action = "remove" => me.rm = Nobody)
        /\ me.rm \in Owners
    BY <1>1, <1>5 DEF Dispatched, Request
  <2>2. me.user \in Written(t)
    BY <2>1, ConstantsAssumption DEF Written, Owners
  <2>3. me.action = "remove"
    BY <1>1, <1>2, <2>1, <2>2 DEF Request, HistoryActions
  <2>4. \A u \in Users : owner'[u] \in {owner[u], Nobody}
    BY <1>1, <2>1, <2>3 DEF Written
  <2>5. \A r \in RMs : Routed(r)' = Routed(r)
    BY <2>1, RoutedKept
  <2>6. QED
    BY <1>1, <1>5, <2>4, <2>5 DEF Removes, Routing
<1>6. CASE me.op = "none"
  BY <1>1, <1>6 DEF Dispatched
<1>7. QED
  BY <1>1, <1>3, <1>4, <1>5, <1>6 DEF Request
-----------------------------------------------------------------------------
(* The rotation.  With everybody active the ring is the desk itself.       *)
LEMMA SlotsFull ==
    ASSUME NEW A, RMs \subseteq A, NEW slot
    PROVE  /\ Len(Slots(A, slot)) = Len(Desk)
           /\ \A i \in DOMAIN Desk : Slots(A, slot)[i] = slot[Desk[i]]
<1> DEFINE T == {slot[r] : r \in RMs}
           n == Len(Desk)
<1>1. PICK f : /\ f[0] = << >>
               /\ \A k \in 1 .. n :
                    f[k] = IF Desk[k] \in A THEN Append(f[k - 1], slot[Desk[k]])
                                            ELSE f[k - 1]
               /\ Slots(A, slot) = f[n]
  BY SlotsBuilt
<1>2. n \in Nat /\ DOMAIN Desk = 1 .. n /\ \A k \in 1 .. n : Desk[k] \in RMs
  BY DeskAssumption
<1> DEFINE Good(k) == /\ f[k] \in Seq(T)
                      /\ Len(f[k]) = k
                      /\ \A j \in 1 .. k : f[k][j] = slot[Desk[j]]
           S == {k \in Nat : k <= n => Good(k)}
<1>3. 0 \in S
  <2>1. << >> \in Seq(T) /\ Len(<< >>) = 0
    OBVIOUS
  <2>2. Good(0)
    BY <1>1, <2>1
  <2> HIDE DEF Good
  <2>3. QED
    BY <2>2
<1>4. ASSUME NEW k \in S
      PROVE  k + 1 \in S
  <2> SUFFICES ASSUME k + 1 <= n
               PROVE  Good(k + 1)
    OBVIOUS
  <2>1. k \in Nat /\ Good(k) /\ k + 1 \in 1 .. n /\ (k + 1) - 1 = k
    BY <1>2
  <2> DEFINE x == slot[Desk[k + 1]]
  <2>2. f[k + 1] = Append(f[k], x) /\ x \in T
    BY <1>1, <1>2, <2>1
  <2> HIDE DEF T, x
  <2>3. /\ f[k + 1] \in Seq(T) /\ Len(f[k + 1]) = k + 1
        /\ f[k + 1][k + 1] = x
        /\ \A j \in 1 .. k : f[k + 1][j] = f[k][j]
    BY <2>1, <2>2
  <2>4. \A j \in 1 .. k + 1 : j = k + 1 \/ j \in 1 .. k
    BY <2>1
  <2>5. QED
    BY <2>1, <2>3, <2>4 DEF x
<1>5. S = Nat
  <2> HIDE DEF S
  <2>1. S \in SUBSET Nat
    BY DEF S
  <2>2. QED
    BY <1>3, <1>4, <2>1, CountingUp
<1>6. Good(n)
  <2>1. n \in Nat /\ n <= n
    BY <1>2
  <2> HIDE DEF S, Good
  <2>2. n \in S
    BY <1>5, <2>1
  <2>3. QED
    BY <2>1, <2>2 DEF S
<1>7. QED
  BY <1>1, <1>2, <1>6

(* What a signup counts: it has written nothing when it picks.             *)
LEMMA SignupSees ==
    ASSUME TypeOK, LockInv, DispatchInv, NEW t \in Requests,
           req[t].op = "auto", req[t].pc = "pick"
    PROVE  /\ \A r \in RMs : Clients(t, r) = Book(r)
           /\ req[t].user \in Users /\ req[t].after = lastAssigned
           /\ updates = 0 => \A r \in RMs : status[r] = "active" /\ r # Nobody
<1>1. Dispatched(req[t])
  BY DEF DispatchInv
<1>2. \A u \in Users : req[t].write[u] = Unset
  BY <1>1 DEF Dispatched
<1>3. req[t].user \in Users
  BY <1>1 DEF Dispatched
<1>4. req[t].after = lastAssigned
  BY DEF LockInv, PointerIsFresh
<1>5. QED
  BY <1>2, <1>3, <1>4, ConstantsAssumption DEF Clients, OwnerSeen, Book, DispatchInv

LEMMA FullRing ==
    ASSUME TypeOK, NEW t \in Requests,
           \A r \in RMs : status[r] = "active" /\ r # Nobody
    PROVE  /\ Len(ActiveRing(t, Nobody)) = Len(Desk)
           /\ \A i \in DOMAIN Desk : ActiveRing(t, Nobody)[i] = SlotOf(t, Desk[i])
<1> DEFINE here == {r \in RMs : status[r] = "active" /\ r # Nobody}
           slot == [r \in RMs |-> SlotOf(t, r)]
<1>1. RMs \subseteq here
  OBVIOUS
<1>2. ActiveRing(t, Nobody) = Slots(here, slot)
  BY DEF ActiveRing, SlotOf
<1>3. \A i \in DOMAIN Desk : Desk[i] \in RMs
  BY DeskAssumption
<1>4. \A i \in DOMAIN Desk : slot[Desk[i]] = SlotOf(t, Desk[i])
  BY <1>3
<1> HIDE DEF here, slot
<1>5. QED
  BY <1>1, <1>2, <1>4, SlotsFull

(* A position is next after at most one RM.                                *)
LEMMA OneIsNext ==
    ASSUME NEW i \in DOMAIN Desk, NEW j \in DOMAIN Desk, NEW last,
           IsNext(i, last), IsNext(j, last)
    PROVE  i = j
<1> DEFINE n == Len(Desk)
<1>1. n \in Nat /\ DOMAIN Desk = 1 .. n /\ \A k \in 1 .. n : Desk[k] \in RMs
  BY DeskAssumption
<1>2. \A k \in 1 .. n, l \in 1 .. n : Desk[k] = Desk[l] => k = l
  BY <1>1, DeskAssumption
<1>3. n \in 1 .. n /\ (i # 1 => i - 1 \in 1 .. n) /\ (j # 1 => j - 1 \in 1 .. n)
  BY <1>1
<1>4. \A k \in 1 .. n : Desk[k] # Nobody
  BY <1>1, ConstantsAssumption
<1>5. CASE i = 1 /\ j = 1
  BY <1>5
<1>6. CASE i = 1 /\ j # 1
  <2>1. last = Desk[j - 1] /\ last \in {Nobody, Desk[n]} /\ j - 1 \in 1 .. n
    BY <1>3, <1>6 DEF IsNext
  <2>2. j - 1 = n
    BY <1>2, <1>3, <1>4, <2>1
  <2>3. QED
    BY <1>1, <2>2
<1>7. CASE i # 1 /\ j = 1
  <2>1. last = Desk[i - 1] /\ last \in {Nobody, Desk[n]} /\ i - 1 \in 1 .. n
    BY <1>3, <1>7 DEF IsNext
  <2>2. i - 1 = n
    BY <1>2, <1>3, <1>4, <2>1
  <2>3. QED
    BY <1>1, <2>2
<1>8. CASE i # 1 /\ j # 1
  <2>1. i - 1 = j - 1
    BY <1>2, <1>3, <1>8 DEF IsNext
  <2>2. QED
    BY <1>1, <2>1
<1>9. QED
  BY <1>5, <1>6, <1>7, <1>8

(* The lap of a full ring starts at the position that is next.             *)
LEMMA LapStartsNext ==
    ASSUME NEW ring, Len(ring) = Len(Desk), DOMAIN ring = DOMAIN Desk,
           \A i \in DOMAIN Desk : ring[i].rm = Desk[i],
           NEW last, NEW next \in DOMAIN Desk, IsNext(next, last)
    PROVE  StartOf(ring, last) = next
<1> DEFINE n == Len(Desk)
           at == PositionsOf(ring, last)
<1>1. n \in Nat /\ DOMAIN Desk = 1 .. n
  BY DeskAssumption
<1>2. at = {i \in DOMAIN Desk : Desk[i] = last}
  BY DEF PositionsOf
<1> HIDE DEF at
<1>3. CASE last = Nobody
  <2>1. at = {}
    BY <1>2, <1>3, DeskAssumption, ConstantsAssumption
  <2>2. StartOf(ring, last) = 1
    BY <2>1 DEF StartOf, at
  <2>3. IsNext(1, last) /\ 1 \in DOMAIN Desk
    BY <1>1, <1>3 DEF IsNext
  <2>4. QED
    BY <2>2, <2>3, OneIsNext
<1>4. CASE last # Nobody
  <2>1. PICK j \in DOMAIN Desk : Desk[j] = last /\ next = IF j = n THEN 1 ELSE j + 1
    <3>1. CASE next = 1
      <4>1. last = Desk[n] /\ n \in DOMAIN Desk
        BY <1>1, <1>4, <3>1 DEF IsNext
      <4>2. QED
        BY <3>1, <4>1
    <3>2. CASE next # 1
      <4>1. last = Desk[next - 1] /\ next - 1 \in DOMAIN Desk /\ next - 1 # n
        BY <1>1, <3>2 DEF IsNext
      <4>2. next = (next - 1) + 1
        BY <1>1
      <4>3. QED
        BY <4>1, <4>2
    <3>3. QED
      BY <3>1, <3>2
  <2>2. at = {j}
    BY <1>2, <2>1, DeskAssumption
  <2>3. Least(at) = j
    BY <1>1, <2>2 DEF Least
  <2>4. StartOf(ring, last) = IF j = n THEN 1 ELSE j + 1
    BY <2>2, <2>3 DEF StartOf, at
  <2>5. QED
    BY <2>1, <2>4
<1>5. QED
  BY <1>3, <1>4

(* The steps of a signup that has a ring to pick from.                     *)
LEMMA AutoPick ==
    ASSUME TypeOK, LockInv, DispatchInv, updates = 0,
           NEW t \in Requests, Pick(t), req[t].op = "auto", ~ RollBack(t)
    PROVE  LET ring == ActiveRing(t, Nobody)
               chosen == PickNextRM(ring, lastAssigned)
           IN  /\ IsRing(ring) /\ req[t].user \in Users
               /\ Len(ring) = Len(Desk) /\ DOMAIN ring = DOMAIN Desk
               /\ \A i \in DOMAIN Desk :
                    ring[i] = [rm |-> Desk[i], max |-> cap[Desk[i]],
                               clients |-> Cardinality(Book(Desk[i]))]
               /\ chosen \in RMs
               /\ req' = [req EXCEPT ![t] = [req[t] EXCEPT !.pc = "current", !.rm = chosen]]
               /\ UNCHANGED <<tables, desk>>
<1> DEFINE ring == ActiveRing(t, Nobody)
           chosen == PickNextRM(ring, lastAssigned)
<1>1. /\ \A r \in RMs : Clients(t, r) = Book(r)
      /\ req[t].user \in Users /\ req[t].after = lastAssigned
      /\ \A r \in RMs : status[r] = "active" /\ r # Nobody
  BY SignupSees DEF Pick
<1>2. /\ chosen \in RMs /\ ring # << >>
      /\ req' = [req EXCEPT ![t] = [req[t] EXCEPT !.pc = "current", !.rm = chosen]]
      /\ UNCHANGED <<tables, desk>>
  BY <1>1 DEF Pick
<1>3. /\ Len(ring) = Len(Desk)
      /\ \A i \in DOMAIN Desk : ring[i] = SlotOf(t, Desk[i])
  BY <1>1, FullRing
<1>4. IsRing(ring)
  BY <1>2, RingIs
<1>5. \A i \in DOMAIN Desk : Desk[i] \in RMs
  BY DeskAssumption
<1>6. DOMAIN ring = DOMAIN Desk
  BY <1>3, <1>4, DeskAssumption DEF IsRing
<1> HIDE DEF ring, chosen
<1>7. \A i \in DOMAIN Desk :
        ring[i] = [rm |-> Desk[i], max |-> cap[Desk[i]],
                   clients |-> Cardinality(Book(Desk[i]))]
  BY <1>1, <1>3, <1>5 DEF SlotOf
<1>8. QED
  BY <1>1, <1>2, <1>3, <1>4, <1>6, <1>7 DEF ring, chosen

LEMMA BookFinite ==
    ASSUME NEW r
    PROVE  /\ IsFiniteSet(Book(r)) /\ Cardinality(Book(r)) \in Nat
           /\ Cardinality(Users) \in Nat
           /\ Cardinality(Book(r)) <= Cardinality(Users)
           /\ Book(r) # Users => Cardinality(Book(r)) < Cardinality(Users)
<1>1. Book(r) \subseteq Users
  BY DEF Book
<1>2. /\ IsFiniteSet(Book(r)) /\ Cardinality(Book(r)) <= Cardinality(Users)
      /\ Cardinality(Users) = Cardinality(Book(r)) => Users = Book(r)
  BY <1>1, ConstantsAssumption, FS_Subset
<1>3. Cardinality(Book(r)) \in Nat /\ Cardinality(Users) \in Nat
  BY <1>2, ConstantsAssumption, FS_CardinalityType
<1>4. QED
  BY <1>2, <1>3

LEMMA CapIsNat ==
    ASSUME TypeOK, NEW r \in RMs
    PROVE  cap[r] \in Nat
<1>1. PICK c \in Caps : cap[r] = c
  BY DEF TypeOK
<1>2. \A x \in Caps : x \in Nat
  BY ConstantsAssumption
<1>3. QED
  BY ONLY <1>1, <1>2

(* With room everywhere a signup is handed the RM after the last one.      *)
LEMMA PickIsNext ==
    ASSUME TypeOK, LockInv, DispatchInv, FairInv, RouterOnly, RoomEverywhere,
           NEW t \in Requests, Pick(t), req[t].op = "auto", ~ RollBack(t)
    PROVE  \E i \in DOMAIN Desk :
             /\ IsNext(i, lastAssigned)
             /\ req' = [req EXCEPT ![t] = [req[t] EXCEPT !.pc = "current", !.rm = Desk[i]]]
<1> DEFINE ring == ActiveRing(t, Nobody)
           chosen == PickNextRM(ring, lastAssigned)
           n == Len(Desk)
<1>1. /\ IsRing(ring) /\ req[t].user \in Users
      /\ Len(ring) = n /\ DOMAIN ring = DOMAIN Desk
      /\ \A i \in DOMAIN Desk :
           ring[i] = [rm |-> Desk[i], max |-> cap[Desk[i]],
                      clients |-> Cardinality(Book(Desk[i]))]
      /\ req' = [req EXCEPT ![t] = [req[t] EXCEPT !.pc = "current", !.rm = chosen]]
  BY AutoPick DEF RouterOnly
<1>2. /\ \E full \in Nat, next \in DOMAIN Desk : Dealt(full, next)
      /\ IF lastAssigned = Nobody THEN \A u \in Users : owner[u] = Nobody
         ELSE \E u \in Users : owner[u] \in {lastAssigned, Nobody}
  BY DEF FairInv
<1>3. PICK next \in DOMAIN Desk : IsNext(next, lastAssigned)
  BY <1>2 DEF Dealt
<1>4. /\ n \in Nat /\ DOMAIN Desk = 1 .. n /\ next \in 1 .. n
      /\ \A i \in 1 .. n : Desk[i] \in RMs /\ Desk[i] # Nobody
  BY DeskAssumption, ConstantsAssumption
<1> HIDE DEF ring, chosen, n
<1>5. ASSUME NEW i \in DOMAIN Desk
      PROVE  /\ ring[i].rm = Desk[i] /\ ring[i].max = cap[Desk[i]]
             /\ ring[i].clients = Cardinality(Book(Desk[i]))
  <2>1. ring[i] = [rm |-> Desk[i], max |-> cap[Desk[i]],
                   clients |-> Cardinality(Book(Desk[i]))]
    BY <1>1
  <2>2. QED
    BY <2>1
<1>6. PickedPosition(ring, lastAssigned) = next
  <2>1. CASE n = 1
    <3>1. PickedPosition(ring, lastAssigned) \in DOMAIN ring
      BY <1>1, PickIsSound
    <3>2. QED
      BY <1>1, <1>4, <2>1, <3>1
  <2>2. CASE n # 1
    <3>1. StartOf(ring, lastAssigned) = next
      BY <1>1, <1>3, <1>5, LapStartsNext DEF n
    <3>2. Around(ring, next, 0) = next
      BY <1>1, <1>4 DEF Around
    <3>3. lastAssigned # Desk[next]
      <4>1. CASE next = 1
        <5>1. Desk[n] # Desk[1] /\ n \in 1 .. n
          BY <1>4, <2>2, DeskAssumption
        <5>2. QED
          BY <1>3, <1>4, <4>1, <5>1 DEF IsNext, n
      <4>2. CASE next # 1
        <5>1. next - 1 \in DOMAIN Desk /\ next - 1 # next
          BY <1>4, <4>2
        <5>2. Desk[next - 1] # Desk[next]
          BY <5>1, DeskAssumption
        <5>3. QED
          BY <1>3, <4>2, <5>2 DEF IsNext
      <4>3. QED
        BY <4>1, <4>2
    <3>4. Book(Desk[next]) # Users
      BY <1>1, <1>2, <1>4, <3>3 DEF Book
    <3>5. HasCapacity(ring[next])
      <4>1. cap[Desk[next]] \in Nat /\ cap[Desk[next]] >= Cardinality(Users)
        BY <1>4, CapIsNat DEF RoomEverywhere
      <4>2. /\ Cardinality(Book(Desk[next])) < Cardinality(Users)
            /\ Cardinality(Book(Desk[next])) \in Nat /\ Cardinality(Users) \in Nat
        BY <3>4, BookFinite
      <4>3. QED
        BY <1>4, <1>5, <4>1, <4>2 DEF HasCapacity
    <3>6. 0 \in RoomyOffsets(ring, lastAssigned)
      BY <1>1, <1>4, <3>1, <3>2, <3>5 DEF RoomyOffsets
    <3>7. Least(RoomyOffsets(ring, lastAssigned)) = 0
      <4> DEFINE S == RoomyOffsets(ring, lastAssigned)
      <4>1. S \in SUBSET Nat
        BY <1>1, <1>4 DEF RoomyOffsets
      <4> HIDE DEF S
      <4>2. Least(S) \in S /\ Least(S) <= 0
        BY <3>6, <4>1, LeastExists DEF S
      <4>3. QED
        BY <4>1, <4>2 DEF S
    <3>8. QED
      BY <3>1, <3>2, <3>6, <3>7 DEF PickedPosition
  <2>3. QED
    BY <2>1, <2>2
<1>7. chosen = Desk[next]
  BY <1>5, <1>6 DEF PickNextRM, chosen
<1>8. QED
  BY <1>1, <1>3, <1>7

(* Between two commits the tables stand still, and an RM is handed out     *)
(* only by a Pick.                                                         *)
StaysRouting(s) == Routing(s) /\ req'[s].rm = req[s].rm

LEMMA QuietRouting ==
    ASSUME TypeOK, NEW t \in Requests, NEW r, req' = [req EXCEPT ![t] = r],
           r.op = "auto" /\ r.pc \in {"current", "update", "commit"} =>
               Routing(t) /\ r.rm = req[t].rm
    PROVE  \A s \in Requests : Routing(s)' => StaysRouting(s)
BY DEF TypeOK, Routing, StaysRouting

LEMMA RollBackRouting ==
    ASSUME TypeOK, NEW t \in Requests, RollBack(t)
    PROVE  /\ UNCHANGED <<owner, history, lastAssigned>>
           /\ \A s \in Requests : Routing(s)' => StaysRouting(s)
<1>1. Idle.op = "none"
  BY DEF Idle
<1>2. QED
  BY <1>1, QuietRouting DEF RollBack

LEMMA RoutingStep ==
    ASSUME TypeOK, LockInv, DispatchInv, [Next]_vars, ~ \E t \in Requests : Commit(t)
    PROVE  /\ UNCHANGED <<owner, history, lastAssigned>>
           /\ \A s \in Requests :
                Routing(s)' => \/ StaysRouting(s)
                               \/ Pick(s) /\ req[s].op = "auto" /\ ~ RollBack(s)
<1> DEFINE Quiet == \A s \in Requests :
                      Routing(s)' => \/ StaysRouting(s)
                                     \/ Pick(s) /\ req[s].op = "auto" /\ ~ RollBack(s)
<1>0. \A t \in Requests : OpFitsLabel(req[t]) /\ Dispatched(req[t]) /\ req[t] \in Request
  BY DEF LockInv, QueueHeld, DispatchInv, TypeOK
<1>1. UNCHANGED <<owner, history, lastAssigned>>
  BY WhoWrites
<1>2. ASSUME NEW t \in Requests,
             \/ \E u \in Users, want \in {"in", "out"} :
                  SignUp(t, u, want) \/ Login(t, u, want)
             \/ \E u \in Users, rm \in RMs : AdminAssign(t, u, rm)
             \/ \E u \in Users : AdminRemove(t, u)
             \/ \E rm \in RMs : Offboard(t, rm)
      PROVE  Quiet
  <2>1. ASSUME NEW r, Start(t, r), r.op = "auto" => r.pc = "lock"
        PROVE  Quiet
    BY <2>1, QuietRouting DEF Start
  <2>2. ASSUME NEW u \in Users, NEW want \in {"in", "out"}, SignUp(t, u, want)
        PROVE  Quiet
    BY <2>1, <2>2 DEF SignUp, Idle
  <2>3. ASSUME NEW u \in Users, NEW want \in {"in", "out"}, Login(t, u, want)
        PROVE  Quiet
    BY <2>1, <2>3 DEF Login, Idle
  <2>4. ASSUME NEW u \in Users, NEW rm \in RMs, AdminAssign(t, u, rm)
        PROVE  Quiet
    BY <2>1, <2>4 DEF AdminAssign, Idle
  <2>5. ASSUME NEW u \in Users, AdminRemove(t, u)
        PROVE  Quiet
    BY <2>1, <2>5 DEF AdminRemove, Idle
  <2>6. ASSUME NEW rm \in RMs, Offboard(t, rm)
        PROVE  Quiet
    BY <2>1, <2>6 DEF Offboard, Idle
  <2> HIDE DEF Quiet
  <2>7. QED
    BY <1>2, <2>2, <2>3, <2>4, <2>5, <2>6
<1>3. ASSUME NEW t \in Requests, FlipOptIn(t)
      PROVE  Quiet
  <2>1. PICK r : /\ req' = [req EXCEPT ![t] = r]
                 /\ r = IF req[t].want = "in"
                        THEN [req[t] EXCEPT !.pc = "lock", !.op = "auto",
                                            !.action = "auto_assign"]
                        ELSE [req[t] EXCEPT !.pc = "begin", !.op = "manual",
                                            !.action = "remove"]
    BY <1>3 DEF FlipOptIn
  <2>2. r.pc \in {"lock", "begin"}
    BY <1>0, <2>1 DEF Request
  <2>3. QED
    BY <2>1, <2>2, QuietRouting
<1>4. ASSUME NEW t \in Requests, Begin(t) \/ ReadCurrent(t)
      PROVE  Quiet
  <2> DEFINE r == [req[t] EXCEPT !.pc = "update",
                                 !.from[req[t].user] = owner[req[t].user]]
  <2>1. req' = [req EXCEPT ![t] = r]
    BY <1>4 DEF Begin, ReadCurrent, TypeOK, Request
  <2>2. r.op = req[t].op /\ r.rm = req[t].rm
    BY <1>0 DEF Request
  <2>3. req[t].op = "auto" => req[t].pc = "current"
    BY <1>0, <1>4 DEF Begin, ReadCurrent, OpFitsLabel
  <2> HIDE DEF r
  <2>4. QED
    BY <2>1, <2>2, <2>3, QuietRouting DEF Routing
<1>5. ASSUME NEW t \in Requests, LockQueue(t)
      PROVE  Quiet
  <2>1. PICK r : /\ req' = [req EXCEPT ![t] = r]
                 /\ r = IF req[t].op = "auto"
                        THEN [req[t] EXCEPT !.pc = "pick", !.after = lastAssigned]
                        ELSE [req[t] EXCEPT !.pc = "list"]
    BY <1>5 DEF LockQueue
  <2>2. r.pc \in {"pick", "list"}
    BY <1>0, <2>1 DEF Request
  <2>3. QED
    BY <2>1, <2>2, QuietRouting
<1>6. ASSUME NEW t \in Requests, ListClients(t)
      PROVE  Quiet
  <2>1. CASE RollBack(t)
    BY <2>1, RollBackRouting
  <2>2. CASE ~ RollBack(t)
    <3> DEFINE held == {u \in Users : owner[u] = req[t].rm}
               r == [req[t] EXCEPT !.pc = "pick", !.todo = held]
    <3>1. req' = [req EXCEPT ![t] = r]
      BY <1>0, <1>6, <2>2 DEF ListClients, TypeOK, Request
    <3>2. r.pc = "pick"
      BY <1>0 DEF Request
    <3> HIDE DEF r
    <3>3. QED
      BY <3>1, <3>2, QuietRouting
  <2>3. QED
    BY <2>1, <2>2
<1>7. ASSUME NEW t \in Requests, Pick(t)
      PROVE  Quiet
  <2>1. CASE RollBack(t)
    BY <2>1, RollBackRouting
  <2>2. CASE ~ RollBack(t) /\ req[t].op = "auto"
    <3>1. PICK r : req' = [req EXCEPT ![t] = r]
      BY <1>7, <2>2 DEF Pick
    <3>2. \A s \in Requests \ {t} : req'[s] = req[s]
      BY <3>1 DEF TypeOK
    <3>3. QED
      BY <1>7, <2>2, <3>2 DEF Routing, StaysRouting
  <2>3. CASE ~ RollBack(t) /\ req[t].op # "auto"
    <3>1. PICK chosen \in RMs, u \in req[t].todo :
            req' = [req EXCEPT ![t] =
              [req[t] EXCEPT !.pc = "update", !.user = u, !.after = chosen,
                             !.from = [req[t].from EXCEPT ![u] = req[t].rm],
                             !.todo = req[t].todo \ {u}]]
      BY <1>0, <1>7, <2>3 DEF Pick, OpFitsLabel
    <3> DEFINE r == [req[t] EXCEPT !.pc = "update", !.user = u, !.after = chosen,
                                   !.from = [req[t].from EXCEPT ![u] = req[t].rm],
                                   !.todo = req[t].todo \ {u}]
    <3>2. r.op = req[t].op
      BY <1>0 DEF Request
    <3> HIDE DEF r
    <3>3. QED
      BY <2>3, <3>1, <3>2, QuietRouting DEF r
  <2>4. QED
    BY <2>1, <2>2, <2>3
<1>8. ASSUME NEW t \in Requests, UpdateRow(t)
      PROVE  Quiet
  <2> DEFINE to == IF req[t].op = "offboard" THEN req[t].after ELSE req[t].rm
             r == [req[t] EXCEPT !.write = [req[t].write EXCEPT ![req[t].user] = to],
                                 !.pc = IF req[t].todo = {} THEN "commit" ELSE "pick"]
  <2>1. req' = [req EXCEPT ![t] = r] /\ req[t].pc = "update"
    BY <1>8 DEF UpdateRow
  <2>2. r.op = req[t].op /\ r.rm = req[t].rm
    BY <1>0 DEF Request
  <2> HIDE DEF r
  <2>3. QED
    BY <2>1, <2>2, QuietRouting DEF Routing
<1>9. ASSUME NEW t \in Requests, Fail(t)
      PROVE  Quiet
  BY <1>9, RollBackRouting DEF Fail
<1>10. ASSUME NEW r \in RMs, NEW s \in {"active", "inactive"}, NEW c \in Caps,
              UpdateRM(r, s, c)
       PROVE  Quiet
  BY <1>10 DEF UpdateRM, Routing, StaysRouting
<1>11. ASSUME UNCHANGED vars
       PROVE  Quiet
  BY <1>11 DEF vars, Routing, StaysRouting
<1> HIDE DEF Quiet
<1>12. Quiet
  <2>1. ASSUME NEW t \in Requests, Advance(t)
        PROVE  Quiet
    BY <1>3, <1>4, <1>5, <1>6, <1>7, <1>8, <2>1 DEF Advance
  <2>2. QED
    BY <1>2, <1>9, <1>10, <1>11, <2>1 DEF Next
<1>13. QED
  BY <1>1, <1>12 DEF Quiet

(* While t commits, no other request has an RM in hand: it would hold the  *)
(* queue lock.                                                             *)
LEMMA CommitRouting ==
    ASSUME LockInv, NEW t \in Requests, Commit(t)
    PROVE  /\ \A s \in Requests : Routing(s)' => StaysRouting(s)
           /\ Routing(t) => \A s \in Requests : ~ Routing(s)'
<1>1. Idle.op = "none"
  BY DEF Idle
<1>2. \A s \in Requests : req'[s] = IF s = t THEN Idle ELSE req[s]
  BY DEF Commit, LockInv, TypeOK
<1>3. \A s \in Requests : Routing(s) => queueLock = s
  BY DEF LockInv, QueueHeld, Routing
<1>4. \A s \in Requests : Routing(s)' => s # t /\ StaysRouting(s)
  BY <1>1, <1>2 DEF Routing, StaysRouting
<1>5. QED
  BY <1>3, <1>4 DEF StaysRouting

LEMMA NewRowIsNew ==
    ASSUME TypeOK, NEW r, NEW u \in Users
    PROVE  NewRow(u) \notin Routed(r)
<1> SUFFICES ASSUME NewRow(u) \in Rows({"auto_assign"})
             PROVE  FALSE
  BY DEF Routed
<1>1. PICK v \in Users : \E i \in DOMAIN history[v] : NewRow(u) = <<v, i>>
  BY RowIn
<1>2. PICK i \in DOMAIN history[v] : NewRow(u) = <<v, i>>
  BY <1>1
<1>3. Len(history[u]) + 1 \in DOMAIN history[u]
  BY <1>2 DEF NewRow
<1>4. Len(history[u]) \in Nat /\ DOMAIN history[u] = 1 .. Len(history[u])
  <2>1. history[u] \in Seq(Row)
    BY DEF TypeOK
  <2> HIDE DEF Row
  <2>2. QED
    BY <2>1
<1>5. QED
  BY <1>3, <1>4

(* A client dealt to the RM that is next.                                  *)
LEMMA DealOn ==
    ASSUME TypeOK, NEW t \in Requests, Routes(t),
           NEW full \in Nat, NEW next \in DOMAIN Desk, Dealt(full, next),
           req[t].rm = Desk[next]
    PROVE  \E f \in Nat, k \in DOMAIN Desk : Dealt(f, k)'
<1> DEFINE n == Len(Desk)
           row == NewRow(req[t].user)
<1>1. n \in Nat /\ DOMAIN Desk = 1 .. n /\ \A i \in 1 .. n : Desk[i] \in RMs
  BY DeskAssumption
<1>2. lastAssigned' = Desk[next]
  BY DEF Routes
<1>3. ASSUME NEW i \in DOMAIN Desk
      PROVE  /\ IsFiniteSet(Routed(Desk[i])')
             /\ Cardinality(Routed(Desk[i])') = IF i <= next THEN full + 1 ELSE full
  <2>1. /\ IsFiniteSet(Routed(Desk[i]))
        /\ Cardinality(Routed(Desk[i])) = IF i < next THEN full + 1 ELSE full
    BY DEF Dealt
  <2>2. Routed(Desk[i])' = IF Desk[i] = Desk[next] THEN Routed(Desk[i]) \cup {row}
                                                   ELSE Routed(Desk[i])
    BY <1>1 DEF Routes
  <2>3. CASE i = next
    <3>1. row \notin Routed(Desk[i])
      BY NewRowIsNew DEF Routes
    <3>2. Cardinality(Routed(Desk[i])) = full
      BY <1>1, <2>1, <2>3
    <3>3. Routed(Desk[i])' = Routed(Desk[i]) \cup {row}
      BY <2>2, <2>3
    <3> HIDE DEF row
    <3>4. /\ IsFiniteSet(Routed(Desk[i]) \cup {row})
          /\ Cardinality(Routed(Desk[i]) \cup {row}) = full + 1
      BY <2>1, <3>1, <3>2, FS_AddElement
    <3>5. QED
      BY <1>1, <2>3, <3>3, <3>4
  <2>4. CASE i # next
    <3>1. Routed(Desk[i])' = Routed(Desk[i])
      BY <2>2, <2>4, DeskAssumption
    <3>2. i < next <=> i <= next
      BY <1>1, <2>4
    <3>3. QED
      BY <2>1, <3>1, <3>2
  <2>5. QED
    BY <2>3, <2>4
<1>4. CASE next = n
  <2>1. 1 \in DOMAIN Desk /\ full + 1 \in Nat
    BY <1>1
  <2>2. IsNext(1, lastAssigned')
    BY <1>2, <1>4 DEF IsNext
  <2>3. \A i \in DOMAIN Desk : i <= next /\ ~ (i < 1)
    BY <1>1, <1>4
  <2>4. \A i \in DOMAIN Desk :
          /\ IsFiniteSet(Routed(Desk[i])')
          /\ Cardinality(Routed(Desk[i])') = IF i < 1 THEN full + 1 + 1 ELSE full + 1
    BY <1>3, <2>3
  <2>5. Dealt(full + 1, 1)'
    BY <2>2, <2>4 DEF Dealt, IsNext
  <2>6. QED
    BY <2>1, <2>5
<1>5. CASE next # n
  <2>1. next + 1 \in DOMAIN Desk /\ next + 1 # 1 /\ (next + 1) - 1 = next
    BY <1>1, <1>5
  <2>2. IsNext(next + 1, lastAssigned')
    BY <1>2, <2>1 DEF IsNext
  <2>3. \A i \in DOMAIN Desk : i <= next <=> i < next + 1
    BY <1>1
  <2>4. \A i \in DOMAIN Desk :
          /\ IsFiniteSet(Routed(Desk[i])')
          /\ Cardinality(Routed(Desk[i])') = IF i < next + 1 THEN full + 1 ELSE full
    BY <1>3, <2>3
  <2>5. Dealt(full, next + 1)'
    BY <2>2, <2>4 DEF Dealt, IsNext
  <2>6. QED
    BY <2>1, <2>5
<1>6. QED
  BY <1>4, <1>5

(* What the rotation knows, without its hypothesis.                        *)
FairState ==
    /\ \E full \in Nat, next \in DOMAIN Desk : Dealt(full, next)
    /\ \A t \in Requests : Routing(t) =>
         \E i \in DOMAIN Desk : req[t].rm = Desk[i] /\ IsNext(i, lastAssigned)
    /\ IF lastAssigned = Nobody THEN \A u \in Users : owner[u] = Nobody
       ELSE \E u \in Users : owner[u] \in {lastAssigned, Nobody}

LEMMA CommitFair ==
    ASSUME TypeOK, LockInv, DispatchInv, FairState, RouterOnly',
           NEW t \in Requests, Commit(t)
    PROVE  FairState'
<1>1. Routes(t) \/ Removes(t)
  BY CommitKinds
<1>2. PICK full \in Nat, next \in DOMAIN Desk : Dealt(full, next)
  BY DEF FairState
<1>3. CASE Routes(t)
  <2>1. /\ Routing(t) /\ req[t].rm \in RMs /\ lastAssigned' = req[t].rm
        /\ req[t].user \in Users /\ owner'[req[t].user] = req[t].rm
    BY <1>3 DEF Routes
  <2>2. PICK i \in DOMAIN Desk : req[t].rm = Desk[i] /\ IsNext(i, lastAssigned)
    BY <2>1 DEF FairState
  <2>3. i = next
    BY <1>2, <2>2, OneIsNext DEF Dealt
  <2>4. \E f \in Nat, k \in DOMAIN Desk : Dealt(f, k)'
    BY <1>2, <1>3, <2>2, <2>3, DealOn
  <2>5. \A s \in Requests : ~ Routing(s)'
    BY <2>1, CommitRouting
  <2>6. lastAssigned' # Nobody /\ \E u \in Users : owner'[u] \in {lastAssigned', Nobody}
    BY <2>1, ConstantsAssumption
  <2>7. QED
    BY <2>4, <2>5, <2>6 DEF FairState
<1>4. CASE Removes(t)
  <2>1. /\ lastAssigned' = lastAssigned
        /\ \A u \in Users : owner'[u] \in {owner[u], Nobody}
        /\ \A r \in RMs : Routed(r)' = Routed(r)
    BY <1>4 DEF Removes
  <2>2. \A i \in DOMAIN Desk : Desk[i] \in RMs
    BY DeskAssumption
  <2>3. Dealt(full, next)'
    BY <1>2, <2>1, <2>2 DEF Dealt, IsNext
  <2>4. \A s \in Requests : Routing(s)' =>
          \E i \in DOMAIN Desk : req'[s].rm = Desk[i] /\ IsNext(i, lastAssigned')
    BY <2>1, CommitRouting DEF FairState, StaysRouting
  <2>5. IF lastAssigned' = Nobody THEN \A u \in Users : owner'[u] = Nobody
        ELSE \E u \in Users : owner'[u] \in {lastAssigned', Nobody}
    BY <2>1 DEF FairState
  <2>6. QED
    BY <2>3, <2>4, <2>5 DEF FairState, IsNext
<1>5. QED
  BY <1>1, <1>3, <1>4

LEMMA StepFair ==
    ASSUME TypeOK, LockInv, DispatchInv, FairInv, [Next]_vars
    PROVE  FairInv'
<1> SUFFICES ASSUME RouterOnly', RoomEverywhere'
             PROVE  FairState'
  BY DEF FairInv, FairState
<1>1. RouterOnly /\ cap' = cap
  BY RouterOnlyBefore
<1>2. RoomEverywhere
  BY <1>1 DEF RoomEverywhere
<1>3. FairState
  BY <1>1, <1>2 DEF FairInv, FairState
<1>4. CASE \E t \in Requests : Commit(t)
  BY <1>3, <1>4, CommitFair
<1>5. CASE ~ \E t \in Requests : Commit(t)
  <2>1. /\ owner' = owner /\ history' = history /\ lastAssigned' = lastAssigned
        /\ \A s \in Requests :
             Routing(s)' => \/ StaysRouting(s)
                            \/ Pick(s) /\ req[s].op = "auto" /\ ~ RollBack(s)
    BY <1>5, RoutingStep
  <2>2. \A r : Routed(r)' = Routed(r)
    BY <2>1 DEF Routed, Rows
  <2>3. \E full \in Nat, next \in DOMAIN Desk : Dealt(full, next)'
    BY <1>3, <2>1, <2>2 DEF FairState, Dealt, IsNext
  <2>4. ASSUME NEW s \in Requests, Routing(s)'
        PROVE  \E i \in DOMAIN Desk : req'[s].rm = Desk[i] /\ IsNext(i, lastAssigned)
    <3>1. CASE StaysRouting(s)
      BY <1>3, <3>1 DEF FairState, StaysRouting
    <3>2. CASE Pick(s) /\ req[s].op = "auto" /\ ~ RollBack(s)
      <4>1. PICK i \in DOMAIN Desk :
              /\ IsNext(i, lastAssigned)
              /\ req' = [req EXCEPT ![s] = [req[s] EXCEPT !.pc = "current", !.rm = Desk[i]]]
        BY <1>1, <1>2, <3>2, PickIsNext
      <4>2. req[s] \in Request
        BY DEF TypeOK
      <4>3. req'[s].rm = Desk[i]
        BY <4>1, <4>2 DEF TypeOK, Request
      <4>4. QED
        BY <4>1, <4>3
    <3>3. QED
      BY <2>1, <2>4, <3>1, <3>2
  <2>5. IF lastAssigned' = Nobody THEN \A u \in Users : owner'[u] = Nobody
        ELSE \E u \in Users : owner'[u] \in {lastAssigned', Nobody}
    BY <1>3, <2>1 DEF FairState
  <2>6. QED
    BY <2>1, <2>3, <2>4, <2>5 DEF FairState, IsNext
<1>6. QED
  BY <1>4, <1>5

LEMMA NothingRouted ==
    ASSUME Init, NEW r
    PROVE  Routed(r) = {}
<1>1. \A u \in Users : DOMAIN history[u] = {}
  BY DEF Init
<1>2. Rows({"auto_assign"}) = {}
  BY <1>1 DEF Rows
<1>3. QED
  BY <1>2 DEF Routed

LEMMA InitFair ==
    ASSUME RMs # {}, Init
    PROVE  FairInv
<1>1. 1 \in DOMAIN Desk
  BY DeskAssumption
<1>2. \A i \in DOMAIN Desk : ~ (i < 1)
  BY DeskAssumption
<1>3. Dealt(0, 1)
  <2>1. IsNext(1, lastAssigned)
    BY DEF Init, IsNext
  <2>2. \A i \in DOMAIN Desk :
          IsFiniteSet(Routed(Desk[i])) /\ Cardinality(Routed(Desk[i])) = 0
    BY NothingRouted, FS_EmptySet
  <2>3. QED
    BY <1>2, <2>1, <2>2 DEF Dealt
<1>4. \A t \in Requests : ~ Routing(t)
  BY DEF Init, Routing, Idle
<1>5. QED
  BY <1>1, <1>3, <1>4 DEF FairInv, Init

(* The books the router deals out never differ by more than one client.    *)
THEOREM RotationFair == Spec => []RotationIsFair
<1>1. CASE RMs = {}
  <2>1. RotationIsFair
    BY <1>1 DEF RotationIsFair
  <2>2. QED
    BY <2>1, PTL
<1>2. CASE RMs # {}
  <2>1. Init => FairInv
    BY <1>2, InitFair
  <2>2. TypeOK /\ LockInv /\ DispatchInv /\ FairInv /\ [Next]_vars =>
          LockInv' /\ DispatchInv' /\ FairInv'
    BY StepLock, StepDispatch, StepFair
  <2>3. FairInv => RotationIsFair
    <3> SUFFICES ASSUME FairInv, RouterOnly, RoomEverywhere, NEW r \in RMs, NEW s \in RMs
                 PROVE  Cardinality(Routed(r)) - Cardinality(Routed(s)) <= 1
      BY DEF RotationIsFair
    <3>1. PICK full \in Nat, next \in DOMAIN Desk : Dealt(full, next)
      BY DEF FairInv
    <3>2. \A q \in RMs : Cardinality(Routed(q)) \in {full, full + 1}
      BY <3>1, DeskAssumption DEF Dealt
    <3>3. QED
      BY <3>2
  <2>4. QED
    BY <2>1, <2>2, <2>3, InitLock, InitDispatch, TypeCorrect, PTL DEF Spec
<1>3. QED
  BY <1>1, <1>2
-----------------------------------------------------------------------------
(* The capacity.  A desk where everybody is at their limit holds at least  *)
(* its whole capacity in clients, so with more room than clients a signup  *)
(* finds an RM with room.                                                  *)
LEMMA RoomBuilt ==
    ASSUME NEW max
    PROVE  \E f : /\ f[0] = 0
                  /\ \A n \in 1 .. Len(Desk) : f[n] = f[n - 1] + max[Desk[n]]
                  /\ DeskCapacity(max) = f[Len(Desk)]
<1> DEFINE Built(f, m) ==
             f = [n \in 0 .. m |-> IF n = 0 THEN 0 ELSE f[n - 1] + max[Desk[n]]]
           S == {m \in Nat : \E f : Built(f, m)}
<1>1. 0 \in S
  <2> DEFINE f == [n \in 0 .. 0 |-> 0]
  <2>1. Built(f, 0)
    OBVIOUS
  <2> HIDE DEF f, Built
  <2>2. QED
    BY <2>1
<1>2. ASSUME NEW m \in S
      PROVE  m + 1 \in S
  <2>1. PICK f : Built(f, m)
    OBVIOUS
  <2> DEFINE last == f[m] + max[Desk[m + 1]]
             g == [n \in 0 .. m + 1 |-> IF n = m + 1 THEN last ELSE f[n]]
  <2>2. ASSUME NEW n \in 0 .. m + 1
        PROVE  g[n] = IF n = 0 THEN 0 ELSE g[n - 1] + max[Desk[n]]
    <3>1. CASE n = m + 1
      BY <3>1
    <3>2. CASE n # m + 1
      <4>1. n \in 0 .. m /\ g[n] = f[n] /\ (n # 0 => g[n - 1] = f[n - 1])
        BY <3>2
      <4>2. f[n] = IF n = 0 THEN 0 ELSE f[n - 1] + max[Desk[n]]
        BY <2>1, <4>1
      <4> HIDE DEF g
      <4>3. QED
        BY <4>1, <4>2
    <3>3. QED
      BY <3>1, <3>2
  <2>3. Built(g, m + 1)
    <3>1. g = [n \in 0 .. m + 1 |-> g[n]]
      OBVIOUS
    <3> HIDE DEF g
    <3>2. QED
      BY <2>2, <3>1
  <2> HIDE DEF g, Built
  <2>4. QED
    BY <2>3
<1>3. S = Nat
  <2> HIDE DEF S
  <2>1. S \in SUBSET Nat
    BY DEF S
  <2>2. QED
    BY <1>1, <1>2, <2>1, CountingUp
<1> DEFINE F == CHOOSE f : Built(f, Len(Desk))
<1>4. Len(Desk) \in Nat
  BY DeskAssumption
<1>5. Built(F, Len(Desk))
  <2>1. \E f : Built(f, Len(Desk))
    BY <1>3, <1>4
  <2> HIDE DEF Built
  <2>2. QED
    BY <2>1
<1>6. DeskCapacity(max) = F[Len(Desk)]
  BY DEF DeskCapacity
<1> HIDE DEF F
<1>7. F[0] = 0
  BY <1>4, <1>5
<1>8. ASSUME NEW n \in 1 .. Len(Desk)
      PROVE  F[n] = F[n - 1] + max[Desk[n]]
  <2>1. n \in 0 .. Len(Desk) /\ n # 0
    BY <1>4
  <2>2. F[n] = IF n = 0 THEN 0 ELSE F[n - 1] + max[Desk[n]]
    BY <1>5, <2>1
  <2>3. QED
    BY <2>1, <2>2
<1>9. QED
  BY <1>6, <1>7, <1>8

(* The clients of the first k RMs of the desk.                             *)
FirstBooks(k) == {u \in Users : \E j \in DOMAIN Desk : j <= k /\ owner[u] = Desk[j]}

LEMMA ApartTogether ==
    ASSUME NEW A, NEW B, IsFiniteSet(A), IsFiniteSet(B), A \cap B = {}
    PROVE  /\ Cardinality(A) \in Nat /\ Cardinality(B) \in Nat
           /\ Cardinality(A \cup B) = Cardinality(A) + Cardinality(B)
<1>1. Cardinality(A) \in Nat /\ Cardinality(B) \in Nat /\ Cardinality(A \cap B) = 0
  BY FS_CardinalityType, FS_EmptySet
<1>2. Cardinality(A \cup B) = Cardinality(A) + Cardinality(B) - Cardinality(A \cap B)
  BY FS_Union
<1>3. QED
  BY <1>1, <1>2

LEMMA FirstBooksGrow ==
    ASSUME NEW k \in Nat, k + 1 \in DOMAIN Desk
    PROVE  /\ IsFiniteSet(FirstBooks(k)) /\ Cardinality(FirstBooks(k)) \in Nat
           /\ Cardinality(FirstBooks(k + 1)) =
                Cardinality(FirstBooks(k)) + Cardinality(Book(Desk[k + 1]))
<1>1. FirstBooks(k) \subseteq Users
  BY DEF FirstBooks
<1>2. IsFiniteSet(FirstBooks(k)) /\ IsFiniteSet(Book(Desk[k + 1]))
  BY <1>1, BookFinite, ConstantsAssumption, FS_Subset
<1>3. \A j \in DOMAIN Desk : j \in Nat /\ (j <= k + 1 <=> j = k + 1 \/ j <= k)
  BY DeskAssumption
<1>4. FirstBooks(k + 1) = FirstBooks(k) \cup Book(Desk[k + 1])
  BY <1>3 DEF FirstBooks, Book
<1>5. FirstBooks(k) \cap Book(Desk[k + 1]) = {}
  <2>1. \A j \in DOMAIN Desk : j <= k => Desk[j] # Desk[k + 1]
    BY <1>3, DeskAssumption
  <2>2. QED
    BY <2>1 DEF FirstBooks, Book
<1> DEFINE A == FirstBooks(k)
           B == Book(Desk[k + 1])
<1> HIDE DEF A, B
<1>6. /\ Cardinality(A) \in Nat
      /\ Cardinality(A \cup B) = Cardinality(A) + Cardinality(B)
  BY <1>2, <1>5, ApartTogether DEF A, B
<1>7. QED
  BY <1>2, <1>4, <1>6 DEF A, B

LEMMA FullDeskHolds ==
    ASSUME TypeOK, \A r \in RMs : cap[r] <= Cardinality(Book(r))
    PROVE  DeskCapacity(cap) \in Nat /\ DeskCapacity(cap) <= Cardinality(Users)
<1> DEFINE n == Len(Desk)
<1>1. PICK f : /\ f[0] = 0
               /\ \A k \in 1 .. n : f[k] = f[k - 1] + cap[Desk[k]]
               /\ DeskCapacity(cap) = f[n]
  BY RoomBuilt
<1>2. n \in Nat /\ DOMAIN Desk = 1 .. n /\ \A k \in 1 .. n : Desk[k] \in RMs
  BY DeskAssumption
<1> DEFINE Good(k) == f[k] \in Nat /\ f[k] <= Cardinality(FirstBooks(k))
           S == {k \in Nat : k <= n => Good(k)}
<1>3. 0 \in S
  <2>1. FirstBooks(0) = {}
    BY <1>2 DEF FirstBooks
  <2>2. Good(0)
    BY <1>1, <2>1, FS_EmptySet
  <2> HIDE DEF Good
  <2>3. QED
    BY <2>2
<1>4. ASSUME NEW k \in S
      PROVE  k + 1 \in S
  <2> SUFFICES ASSUME k + 1 <= n
               PROVE  Good(k + 1)
    OBVIOUS
  <2>1. k \in Nat /\ Good(k) /\ k + 1 \in 1 .. n /\ (k + 1) - 1 = k
    BY <1>2
  <2>2. f[k + 1] = f[k] + cap[Desk[k + 1]] /\ Desk[k + 1] \in RMs
    BY <1>1, <1>2, <2>1
  <2>3. /\ cap[Desk[k + 1]] \in Nat
        /\ cap[Desk[k + 1]] <= Cardinality(Book(Desk[k + 1]))
        /\ Cardinality(Book(Desk[k + 1])) \in Nat
    BY <2>2, CapIsNat, BookFinite
  <2>4. /\ Cardinality(FirstBooks(k)) \in Nat
        /\ Cardinality(FirstBooks(k + 1)) =
             Cardinality(FirstBooks(k)) + Cardinality(Book(Desk[k + 1]))
    BY <1>2, <2>1, FirstBooksGrow
  <2>5. QED
    BY <2>1, <2>2, <2>3, <2>4
<1>5. S = Nat
  <2> HIDE DEF S
  <2>1. S \in SUBSET Nat
    BY DEF S
  <2>2. QED
    BY <1>3, <1>4, <2>1, CountingUp
<1>6. Good(n)
  <2>1. n \in Nat /\ n <= n
    BY <1>2
  <2> HIDE DEF S, Good
  <2>2. n \in S
    BY <1>5, <2>1
  <2>3. QED
    BY <2>1, <2>2 DEF S
<1>7. FirstBooks(n) \subseteq Users
  BY DEF FirstBooks
<1>8. /\ IsFiniteSet(FirstBooks(n)) /\ Cardinality(FirstBooks(n)) <= Cardinality(Users)
  BY <1>7, ConstantsAssumption, FS_Subset
<1>9. Cardinality(FirstBooks(n)) \in Nat /\ Cardinality(Users) \in Nat
  BY <1>8, ConstantsAssumption, FS_CardinalityType
<1>10. QED
  BY <1>1, <1>6, <1>8, <1>9

(* With more room than clients a signup is handed an RM below the limit.   *)
LEMMA PickFits ==
    ASSUME TypeOK, LockInv, DispatchInv, RouterOnly,
           DeskCapacity(cap) > Cardinality(Users),
           NEW t \in Requests, Pick(t), req[t].op = "auto", ~ RollBack(t)
    PROVE  \E r \in RMs :
             /\ Cardinality(Book(r)) < cap[r]
             /\ req' = [req EXCEPT ![t] = [req[t] EXCEPT !.pc = "current", !.rm = r]]
<1> DEFINE ring == ActiveRing(t, Nobody)
           chosen == PickNextRM(ring, lastAssigned)
           p == PickedPosition(ring, lastAssigned)
<1>1. /\ IsRing(ring) /\ DOMAIN ring = DOMAIN Desk
      /\ \A i \in DOMAIN Desk :
           ring[i] = [rm |-> Desk[i], max |-> cap[Desk[i]],
                      clients |-> Cardinality(Book(Desk[i]))]
      /\ req' = [req EXCEPT ![t] = [req[t] EXCEPT !.pc = "current", !.rm = chosen]]
  BY AutoPick DEF RouterOnly
<1>2. /\ p \in DOMAIN ring /\ chosen = ring[p].rm
      /\ ~ DeskFull(ring) => HasCapacity(ring[p])
  BY <1>1, PickIsSound
<1>3. \A i \in DOMAIN Desk : Desk[i] \in RMs
  BY DeskAssumption
<1> HIDE DEF ring, chosen, p
<1>4. ASSUME NEW i \in DOMAIN Desk
      PROVE  /\ ring[i].rm = Desk[i]
             /\ HasCapacity(ring[i]) <=> Cardinality(Book(Desk[i])) < cap[Desk[i]]
  <2>1. ring[i] = [rm |-> Desk[i], max |-> cap[Desk[i]],
                   clients |-> Cardinality(Book(Desk[i]))]
    BY <1>1
  <2>2. QED
    BY <2>1 DEF HasCapacity
<1>5. ~ DeskFull(ring)
  <2>1. SUFFICES ASSUME DeskFull(ring)
                 PROVE  FALSE
    OBVIOUS
  <2>2. ASSUME NEW r \in RMs
        PROVE  cap[r] <= Cardinality(Book(r))
    <3>1. PICK i \in DOMAIN Desk : Desk[i] = r
      BY DeskAssumption
    <3>2. ~ (Cardinality(Book(r)) < cap[r])
      BY <1>1, <1>4, <2>1, <3>1 DEF DeskFull
    <3>3. cap[r] \in Nat /\ Cardinality(Book(r)) \in Nat
      BY CapIsNat, BookFinite
    <3>4. QED
      BY <3>2, <3>3
  <2>3. DeskCapacity(cap) <= Cardinality(Users)
    BY <2>2, FullDeskHolds
  <2>4. DeskCapacity(cap) \in Int /\ Cardinality(Users) \in Int
    BY FullDeskHolds, BookFinite, <2>2
  <2>5. QED
    BY <2>3, <2>4
<1>6. p \in DOMAIN Desk /\ chosen = Desk[p] /\ Cardinality(Book(Desk[p])) < cap[Desk[p]]
  BY <1>1, <1>2, <1>4, <1>5
<1>7. QED
  BY <1>1, <1>3, <1>6

(* What the capacity argument knows, without its hypothesis.               *)
FitState ==
    /\ \A r \in RMs : Cardinality(Book(r)) <= cap[r]
    /\ \A t \in Requests :
         Routing(t) => req[t].rm \in RMs /\ Cardinality(Book(req[t].rm)) < cap[req[t].rm]

LEMMA RoutingToAnRM ==
    ASSUME DispatchInv, NEW t \in Requests, Routing(t)
    PROVE  req[t].rm \in RMs
BY DEF DispatchInv, Dispatched, Routing

LEMMA CommitFits ==
    ASSUME TypeOK, LockInv, DispatchInv, FitState, RouterOnly', cap' = cap,
           NEW t \in Requests, Commit(t)
    PROVE  FitState'
<1>1. Routes(t) \/ Removes(t)
  BY CommitKinds
<1>2. CASE Routes(t)
  <2>1. /\ Routing(t) /\ req[t].user \in Users
        /\ \A u \in Users : owner'[u] = IF u = req[t].user THEN req[t].rm ELSE owner[u]
    BY <1>2 DEF Routes
  <2>2. ASSUME NEW r \in RMs
        PROVE  Cardinality(Book(r)') <= cap[r]
    <3>1. /\ IsFiniteSet(Book(r)) /\ Cardinality(Book(r)) \in Nat
          /\ cap[r] \in Nat /\ Cardinality(Book(r)) <= cap[r]
      BY BookFinite, CapIsNat DEF FitState
    <3> DEFINE grown == Book(r) \cup {req[t].user}
    <3>2. /\ IsFiniteSet(grown) /\ Cardinality(grown) \in Nat
          /\ Cardinality(grown) <= Cardinality(Book(r)) + 1
      <4>1. /\ IsFiniteSet(Book(r) \cup {req[t].user})
            /\ Cardinality(Book(r) \cup {req[t].user}) =
                 IF req[t].user \in Book(r) THEN Cardinality(Book(r))
                                            ELSE Cardinality(Book(r)) + 1
        BY <3>1, FS_AddElement
      <4>2. QED
        BY <3>1, <4>1
    <3>3. CASE r = req[t].rm
      <4>1. Book(r)' \subseteq grown
        BY <2>1 DEF Book
      <4>2. Cardinality(Book(r)) < cap[r]
        BY <2>1, <3>3 DEF FitState
      <4> HIDE DEF grown
      <4>3. IsFiniteSet(Book(r)') /\ Cardinality(Book(r)') <= Cardinality(grown)
        BY <3>2, <4>1, FS_Subset
      <4>4. Cardinality(Book(r)') \in Nat
        BY <4>3, FS_CardinalityType
      <4>5. QED
        BY <3>1, <3>2, <4>2, <4>3, <4>4
    <3>4. CASE r # req[t].rm
      <4>1. Book(r)' \subseteq Book(r)
        BY <2>1, <3>4 DEF Book
      <4>2. IsFiniteSet(Book(r)') /\ Cardinality(Book(r)') <= Cardinality(Book(r))
        BY <3>1, <4>1, FS_Subset
      <4>3. Cardinality(Book(r)') \in Nat
        BY <4>2, FS_CardinalityType
      <4>4. QED
        BY <3>1, <4>2, <4>3
    <3>5. QED
      BY <3>3, <3>4
  <2>3. \A s \in Requests : ~ Routing(s)'
    BY <2>1, CommitRouting
  <2>4. QED
    BY <2>2, <2>3 DEF FitState
<1>3. CASE Removes(t)
  <2>1. \A u \in Users : owner'[u] \in {owner[u], Nobody}
    BY <1>3 DEF Removes
  <2>2. ASSUME NEW r \in RMs
        PROVE  /\ Cardinality(Book(r)') <= Cardinality(Book(r))
               /\ Cardinality(Book(r)') \in Nat /\ Cardinality(Book(r)) \in Nat
               /\ cap[r] \in Nat
    <3>1. Book(r)' \subseteq Book(r)
      BY <2>1, ConstantsAssumption DEF Book
    <3>2. IsFiniteSet(Book(r)) /\ Cardinality(Book(r)) \in Nat /\ cap[r] \in Nat
      BY BookFinite, CapIsNat
    <3>3. IsFiniteSet(Book(r)') /\ Cardinality(Book(r)') <= Cardinality(Book(r))
      BY <3>1, <3>2, FS_Subset
    <3>4. Cardinality(Book(r)') \in Nat
      BY <3>3, FS_CardinalityType
    <3>5. QED
      BY <3>2, <3>3, <3>4
  <2>3. \A r \in RMs : Cardinality(Book(r)') <= cap[r]
    BY <2>2 DEF FitState
  <2>4. \A s \in Requests : Routing(s)' =>
          /\ req'[s].rm = req[s].rm /\ req[s].rm \in RMs
          /\ Cardinality(Book(req[s].rm)) < cap[req[s].rm]
    BY CommitRouting DEF FitState, StaysRouting
  <2>5. \A s \in Requests : Routing(s)' =>
          req'[s].rm \in RMs /\ Cardinality(Book(req[s].rm)') < cap[req[s].rm]
    BY <2>2, <2>4
  <2>6. \A r : Book(r)' = {u \in Users : owner'[u] = r}
    BY DEF Book
  <2>7. \A s \in Requests : Routing(s)' => Cardinality(Book(req[s].rm)') < cap'[req'[s].rm]
    BY <2>4, <2>5
  <2>8. QED
    BY <2>3, <2>4, <2>5, <2>6 DEF FitState, Book
<1>4. QED
  BY <1>1, <1>2, <1>3

LEMMA StepFit ==
    ASSUME TypeOK, LockInv, DispatchInv, FitInv, [Next]_vars
    PROVE  FitInv'
<1> SUFFICES ASSUME RouterOnly', (DeskCapacity(cap) > Cardinality(Users))'
             PROVE  FitState'
  BY DEF FitInv, FitState
<1>1. RouterOnly /\ cap' = cap
  BY RouterOnlyBefore
<1>2. DeskCapacity(cap) > Cardinality(Users)
  BY <1>1 DEF DeskCapacity
<1>3. FitState
  BY <1>1, <1>2, RoutingToAnRM DEF FitInv, FitState
<1>4. CASE \E t \in Requests : Commit(t)
  BY <1>1, <1>3, <1>4, CommitFits
<1>5. CASE ~ \E t \in Requests : Commit(t)
  <2>1. /\ owner' = owner
        /\ \A s \in Requests :
             Routing(s)' => \/ StaysRouting(s)
                            \/ Pick(s) /\ req[s].op = "auto" /\ ~ RollBack(s)
    BY <1>5, RoutingStep
  <2>2. ASSUME NEW s \in Requests, Routing(s)'
        PROVE  req'[s].rm \in RMs /\ Cardinality(Book(req'[s].rm)) < cap[req'[s].rm]
    <3>1. CASE StaysRouting(s)
      BY <1>3, <3>1 DEF FitState, StaysRouting
    <3>2. CASE Pick(s) /\ req[s].op = "auto" /\ ~ RollBack(s)
      <4>1. PICK r \in RMs :
              /\ Cardinality(Book(r)) < cap[r]
              /\ req' = [req EXCEPT ![s] = [req[s] EXCEPT !.pc = "current", !.rm = r]]
        BY <1>1, <1>2, <3>2, PickFits
      <4>2. req[s] \in Request
        BY DEF TypeOK
      <4>3. req'[s].rm = r
        BY <4>1, <4>2 DEF TypeOK, Request
      <4>4. QED
        BY <4>1, <4>3
    <3>3. QED
      BY <2>1, <2>2, <3>1, <3>2
  <2>3. QED
    BY <1>1, <1>3, <2>1, <2>2 DEF FitState, Book
<1>6. QED
  BY <1>4, <1>5

LEMMA InitFit == TypeOK /\ Init => FitInv
<1> SUFFICES ASSUME TypeOK, Init
             PROVE  FitState
  BY DEF FitInv, FitState
<1>1. \A t \in Requests : ~ Routing(t)
  BY DEF Init, Routing, Idle
<1>2. ASSUME NEW r \in RMs
      PROVE  Cardinality(Book(r)) <= cap[r]
  <2>1. Book(r) = {}
    BY ConstantsAssumption DEF Init, Book
  <2>2. QED
    BY <2>1, CapIsNat, FS_EmptySet
<1>3. QED
  BY <1>1, <1>2 DEF FitState

(* A desk with more room than there are clients is never overfilled by     *)
(* concurrent signups, opt-ins and opt-outs.                               *)
THEOREM SignupsFit == Spec => []SignupsFitDesk
<1>1. Init => FitInv
  BY InitFit, InitType
<1>2. TypeOK /\ LockInv /\ DispatchInv /\ FitInv /\ [Next]_vars =>
        LockInv' /\ DispatchInv' /\ FitInv'
  BY StepLock, StepDispatch, StepFit
<1>3. FitInv => SignupsFitDesk
  BY DEF FitInv, SignupsFitDesk
<1>4. QED
  BY <1>1, <1>2, <1>3, InitLock, InitDispatch, TypeCorrect, PTL DEF Spec
-----------------------------------------------------------------------------
(* The safety half of RequestsFinish.  A request waits for the queue row   *)
(* (lock), or for a client's row that another has written (flip, update):  *)
(* s keeps t waiting.                                                      *)
Blocks(s, t) ==
    \/ req[t].pc = "lock" /\ queueLock = s
    \/ req[t].pc \in {"flip", "update"} /\ req[s].write[req[t].user] # Unset

(* Waits are at most two deep: nobody waits for itself, and whoever keeps  *)
(* the holder of what t waits for waiting has only its COMMIT left.  So    *)
(* the queue row and the client rows, taken in any order by signups,       *)
(* opt-outs, admins and offboardings, never close a circle.                *)
NoCircleOfWaits ==
    \A s, t \in Requests : Blocks(s, t) =>
        /\ s # t /\ req[s].pc # "idle"
        /\ \A r \in Requests : Blocks(r, s) => r # s /\ req[r].pc = "commit"

(* The next statement of t need not wait, and has what it needs.           *)
CanStep(t) ==
    /\ req[t].pc # "idle"
    /\ req[t].pc = "lock" => queueLock = Nobody
    /\ req[t].pc \in {"flip", "update"} => RowFree(req[t].user)
    /\ req[t].pc = "pick" /\ req[t].op = "offboard" => req[t].todo # {}

SomeoneMoves ==
    (\E t \in Requests : req[t].pc # "idle") => \E t \in Requests : CanStep(t)

(* An offboarding has not yet written the clients it has still to move,    *)
(* and the holder of the queue row is on its way to a commit.              *)
StillToMove(r) ==
    r.op = "offboard" =>
        /\ \A u \in r.todo : r.write[u] = Unset
        /\ r.pc = "update" => r.write[r.user] = Unset /\ r.user \notin r.todo
        /\ r.pc = "pick" => r.todo # {}

Holding(r) ==
    /\ r.op \in {"auto", "offboard"}
    /\ r.pc \in {"list", "pick", "current", "update", "commit"}

WaitInv ==
    \A t \in Requests : StillToMove(req[t]) /\ (queueLock = t => Holding(req[t]))

(* A step of t to r that at most gives the queue row to t, or frees it.    *)
LEMMA WaitStep ==
    ASSUME TypeOK, WaitInv, NEW t \in Requests, NEW r, req' = [req EXCEPT ![t] = r],
           StillToMove(r), queueLock' = t => Holding(r), queueLock' \in {queueLock, t, Nobody}
    PROVE  WaitInv'
<1>1. ASSUME NEW s \in Requests
      PROVE  StillToMove(req'[s]) /\ (queueLock' = s => Holding(req'[s]))
  <2>1. CASE s = t
    BY <2>1 DEF TypeOK
  <2>2. CASE s # t
    <3>1. req'[s] = req[s]
      BY <2>2 DEF TypeOK
    <3>2. queueLock' = s => queueLock = s
      BY <2>2, ConstantsAssumption
    <3>3. QED
      BY <3>1, <3>2 DEF WaitInv
  <2>3. QED
    BY <2>1, <2>2
<1>2. QED
  BY <1>1 DEF WaitInv

LEMMA IdleWaits == StillToMove(Idle)
BY DEF StillToMove, Idle

LEMMA EndWait ==
    ASSUME TypeOK, WaitInv, NEW t \in Requests, req' = [req EXCEPT ![t] = Idle],
           queueLock' = IF queueLock = t THEN Nobody ELSE queueLock
    PROVE  WaitInv'
<1>1. queueLock' # t /\ queueLock' \in {queueLock, t, Nobody}
  BY ConstantsAssumption
<1>2. QED
  BY <1>1, IdleWaits, WaitStep

LEMMA StartWait ==
    ASSUME TypeOK, WaitInv, NEW t \in Requests, NEW r, Start(t, r),
           queueLock' = queueLock, r.op = "offboard" => r.todo = {} /\ r.pc = "lock"
    PROVE  WaitInv'
<1>1. StillToMove(r)
  BY DEF StillToMove
<1>2. queueLock # t /\ req' = [req EXCEPT ![t] = r]
  BY DEF Start, WaitInv, Holding
<1>3. QED
  BY <1>1, <1>2, WaitStep

LEMMA AdvanceWait ==
    ASSUME TypeOK, LockInv, DispatchInv, WaitInv, NEW t \in Requests, Advance(t)
    PROVE  WaitInv'
<1> DEFINE me == req[t]
<1>0. /\ me \in Request /\ Dispatched(me) /\ OpFitsLabel(me) /\ StillToMove(me)
      /\ queueLock = t => Holding(me)
  BY DEF TypeOK, DispatchInv, LockInv, QueueHeld, WaitInv
<1>1. CASE FlipOptIn(t)
  <2>1. PICK r : /\ req' = [req EXCEPT ![t] = r]
                 /\ r \in {[me EXCEPT !.pc = "lock", !.op = "auto",
                                      !.action = "auto_assign"],
                           [me EXCEPT !.pc = "begin", !.op = "manual",
                                      !.action = "remove"]}
    BY <1>1 DEF FlipOptIn
  <2>2. r.op # "offboard"
    BY <1>0, <2>1 DEF Request
  <2>3. StillToMove(r)
    BY <2>2 DEF StillToMove
  <2>4. queueLock # t /\ queueLock' = queueLock
    BY <1>0, <1>1 DEF FlipOptIn, Holding, tables
  <2>5. QED
    BY <2>1, <2>3, <2>4, WaitStep
<1>2. CASE Begin(t) \/ ReadCurrent(t)
  <2> DEFINE r == [me EXCEPT !.pc = "update", !.from[me.user] = owner[me.user]]
  <2>1. req' = [req EXCEPT ![t] = r] /\ queueLock' = queueLock
    BY <1>2 DEF Begin, ReadCurrent, TypeOK, Request, tables
  <2>2. me.pc \in {"begin", "current"} /\ me.op \in {"auto", "manual"}
    BY <1>0, <1>2 DEF Begin, ReadCurrent, OpFitsLabel
  <2>3. r.op = me.op /\ r.pc = "update"
    BY <1>0 DEF Request
  <2> HIDE DEF r
  <2>4. StillToMove(r) /\ (queueLock = t => Holding(r))
    BY <1>0, <2>2, <2>3 DEF StillToMove, Holding
  <2>5. QED
    BY <2>1, <2>4, WaitStep
<1>3. CASE LockQueue(t)
  <2>1. PICK r : /\ req' = [req EXCEPT ![t] = r]
                 /\ r = IF me.op = "auto" THEN [me EXCEPT !.pc = "pick", !.after = lastAssigned]
                                          ELSE [me EXCEPT !.pc = "list"]
    BY <1>3 DEF LockQueue
  <2>2. me.pc = "lock" /\ me.op \in {"auto", "offboard"} /\ queueLock' = t
    BY <1>0, <1>3 DEF LockQueue, OpFitsLabel
  <2>3. /\ r.op = me.op /\ r.write = me.write /\ r.todo = me.todo
        /\ r.pc = IF me.op = "auto" THEN "pick" ELSE "list"
    BY <1>0, <2>1 DEF Request
  <2>4. me.todo \subseteq Users /\ \A u \in Users : me.write[u] = Unset
    BY <1>0, <2>2 DEF Dispatched, Request
  <2>5. StillToMove(r) /\ Holding(r)
    BY <2>2, <2>3, <2>4 DEF StillToMove, Holding
  <2>6. QED
    BY <2>1, <2>2, <2>5, WaitStep
<1>4. CASE ListClients(t)
  <2> DEFINE held == {u \in Users : owner[u] = me.rm}
             r == [me EXCEPT !.pc = "pick", !.todo = held]
  <2>1. CASE RollBack(t)
    BY <2>1, EndWait DEF RollBack
  <2>2. CASE ~ RollBack(t)
    <3>1. /\ req' = [req EXCEPT ![t] = r] /\ queueLock' = queueLock
          /\ me.pc = "list" /\ held # {}
      BY <1>0, <1>4, <2>2 DEF ListClients, TypeOK, Request, tables
    <3>2. r.op = me.op /\ r.write = me.write /\ r.todo = held /\ r.pc = "pick"
      BY <1>0 DEF Request
    <3>3. me.op = "offboard" /\ \A u \in Users : me.write[u] = Unset
      BY <1>0, <3>1 DEF OpFitsLabel, Dispatched
    <3> HIDE DEF r
    <3>4. StillToMove(r) /\ Holding(r)
      BY <3>1, <3>2, <3>3 DEF StillToMove, Holding
    <3>5. QED
      BY <3>1, <3>4, WaitStep
  <2>3. QED
    BY <2>1, <2>2
<1>5. CASE Pick(t)
  <2>1. CASE RollBack(t)
    BY <2>1, EndWait DEF RollBack
  <2>2. CASE ~ RollBack(t)
    <3>1. PICK chosen \in RMs :
            /\ IF me.op = "offboard"
               THEN \E u \in me.todo :
                      req' = [req EXCEPT ![t] =
                        [me EXCEPT !.pc = "update", !.user = u, !.after = chosen,
                                   !.from = [me.from EXCEPT ![u] = me.rm],
                                   !.todo = me.todo \ {u}]]
               ELSE req' = [req EXCEPT ![t] = [me EXCEPT !.pc = "current", !.rm = chosen]]
            /\ queueLock' = queueLock /\ me.pc = "pick"
      BY <1>5, <2>2 DEF Pick, tables
    <3>2. CASE me.op = "offboard"
      <4>1. PICK u \in me.todo :
              req' = [req EXCEPT ![t] =
                [me EXCEPT !.pc = "update", !.user = u, !.after = chosen,
                           !.from = [me.from EXCEPT ![u] = me.rm],
                           !.todo = me.todo \ {u}]]
        BY <3>1, <3>2
      <4> DEFINE r == [me EXCEPT !.pc = "update", !.user = u, !.after = chosen,
                                 !.from = [me.from EXCEPT ![u] = me.rm],
                                 !.todo = me.todo \ {u}]
      <4>2. /\ r.op = me.op /\ r.user = u /\ r.write = me.write /\ r.pc = "update"
            /\ r.todo = me.todo \ {u}
        BY <1>0 DEF Request
      <4>3. req' = [req EXCEPT ![t] = r]
        BY <4>1
      <4> HIDE DEF r
      <4>4. StillToMove(r) /\ Holding(r)
        BY <1>0, <3>2, <4>2 DEF StillToMove, Holding
      <4>5. QED
        BY <3>1, <4>3, <4>4, WaitStep
    <3>3. CASE me.op # "offboard"
      <4> DEFINE r == [me EXCEPT !.pc = "current", !.rm = chosen]
      <4>1. req' = [req EXCEPT ![t] = r] /\ me.op = "auto"
        BY <1>0, <3>1, <3>3 DEF OpFitsLabel
      <4>2. r.op = me.op /\ r.pc = "current"
        BY <1>0 DEF Request
      <4> HIDE DEF r
      <4>3. StillToMove(r) /\ Holding(r)
        BY <4>1, <4>2 DEF StillToMove, Holding
      <4>4. QED
        BY <3>1, <4>1, <4>3, WaitStep
    <3>4. QED
      BY <3>2, <3>3
  <2>3. QED
    BY <2>1, <2>2
<1>6. CASE UpdateRow(t)
  <2> DEFINE to == IF me.op = "offboard" THEN me.after ELSE me.rm
             r == [me EXCEPT !.write = [me.write EXCEPT ![me.user] = to],
                             !.pc = IF me.todo = {} THEN "commit" ELSE "pick"]
  <2>1. req' = [req EXCEPT ![t] = r] /\ queueLock' = queueLock /\ me.pc = "update"
    BY <1>6 DEF UpdateRow, tables
  <2>2. /\ r.op = me.op /\ r.user = me.user /\ r.todo = me.todo
        /\ r.write = [me.write EXCEPT ![me.user] = to]
        /\ r.pc = IF me.todo = {} THEN "commit" ELSE "pick"
        /\ me.write \in [Users -> Owners \cup {Unset}] /\ me.todo \subseteq Users
    BY <1>0 DEF Request
  <2>3. \A u \in Users : u # me.user => r.write[u] = me.write[u]
    BY <2>2
  <2> HIDE DEF r
  <2>4. StillToMove(r)
    BY <1>0, <2>1, <2>2, <2>3 DEF StillToMove
  <2>5. queueLock = t => Holding(r)
    BY <1>0, <2>2 DEF Holding
  <2>6. QED
    BY <2>1, <2>4, <2>5, WaitStep
<1>7. CASE Commit(t)
  BY <1>7, EndWait DEF Commit
<1>8. QED
  BY <1>1, <1>2, <1>3, <1>4, <1>5, <1>6, <1>7 DEF Advance

LEMMA StepWait ==
    ASSUME TypeOK, LockInv, DispatchInv, WaitInv, [Next]_vars
    PROVE  WaitInv'
<1>1. ASSUME NEW t \in Requests, NEW u \in Users, NEW want \in {"in", "out"},
             SignUp(t, u, want)
      PROVE  WaitInv'
  <2> DEFINE auto == [Idle EXCEPT !.pc = "lock", !.op = "auto", !.user = u,
                                  !.action = "auto_assign"]
  <2>1. auto.op # "offboard" /\ Idle.op # "offboard"
    BY DEF Idle
  <2>2. queueLock' = queueLock /\ Start(t, IF want = "in" THEN auto ELSE Idle)
    BY <1>1 DEF SignUp, tables
  <2> HIDE DEF auto
  <2>3. CASE want = "in"
    BY <2>1, <2>2, <2>3, StartWait
  <2>4. CASE want # "in"
    BY <2>1, <2>2, <2>4, StartWait
  <2>5. QED
    BY <2>3, <2>4
<1>2. ASSUME NEW t \in Requests, NEW u \in Users, NEW want \in {"in", "out"},
             Login(t, u, want)
      PROVE  WaitInv'
  <2>1. [Idle EXCEPT !.pc = "flip", !.user = u, !.want = want].op # "offboard"
    BY DEF Idle
  <2>2. QED
    BY <1>2, <2>1, StartWait DEF Login, tables
<1>3. ASSUME NEW t \in Requests, NEW u \in Users, NEW rm \in RMs, AdminAssign(t, u, rm)
      PROVE  WaitInv'
  <2>1. PICK a \in {"assign", "transfer"} :
          Start(t, [Idle EXCEPT !.pc = "begin", !.op = "manual", !.user = u, !.rm = rm,
                                !.action = a])
    BY <1>3 DEF AdminAssign
  <2>2. [Idle EXCEPT !.pc = "begin", !.op = "manual", !.user = u, !.rm = rm,
                     !.action = a].op # "offboard"
    BY DEF Idle
  <2>3. QED
    BY <1>3, <2>1, <2>2, StartWait DEF AdminAssign, tables
<1>4. ASSUME NEW t \in Requests, NEW u \in Users, AdminRemove(t, u)
      PROVE  WaitInv'
  <2>1. [Idle EXCEPT !.pc = "begin", !.op = "manual", !.user = u].op # "offboard"
    BY DEF Idle
  <2>2. QED
    BY <1>4, <2>1, StartWait DEF AdminRemove, tables
<1>5. ASSUME NEW t \in Requests, NEW rm \in RMs, Offboard(t, rm)
      PROVE  WaitInv'
  <2> DEFINE r == [Idle EXCEPT !.pc = "lock", !.op = "offboard", !.rm = rm,
                               !.action = "transfer"]
  <2>1. r.todo = {} /\ r.pc = "lock"
    BY DEF Idle
  <2>2. Start(t, r) /\ queueLock' = queueLock
    BY <1>5 DEF Offboard, tables
  <2> HIDE DEF r
  <2>3. QED
    BY <2>1, <2>2, StartWait
<1>6. ASSUME NEW t \in Requests, Fail(t)
      PROVE  WaitInv'
  BY <1>6, EndWait DEF Fail, RollBack
<1>7. ASSUME NEW r \in RMs, NEW s \in {"active", "inactive"}, NEW c \in Caps,
             UpdateRM(r, s, c)
      PROVE  WaitInv'
  BY <1>7 DEF UpdateRM, tables, WaitInv
<1>8. CASE UNCHANGED vars
  BY <1>8 DEF vars, WaitInv
<1>9. QED
  BY <1>1, <1>2, <1>3, <1>4, <1>5, <1>6, <1>7, <1>8, AdvanceWait DEF Next

(* Who has written a row is an offboarding on its way, which holds the     *)
(* queue row too, or has only its COMMIT left.                             *)
LEMMA WhoHoldsRows ==
    ASSUME TypeOK, LockInv, DispatchInv, WaitInv, NEW s \in Requests,
           NEW u \in Users, req[s].write[u] # Unset
    PROVE  \/ req[s].pc = "commit"
           \/ req[s].op = "offboard" /\ req[s].pc \in {"pick", "update"} /\ queueLock = s
<1>1. req[s] \in Request /\ Dispatched(req[s]) /\ OpFitsLabel(req[s])
  BY DEF TypeOK, DispatchInv, LockInv, QueueHeld
<1>2. /\ req[s].pc \in {"pick", "update", "commit"}
      /\ req[s].op = "offboard" \/ req[s].pc = "commit"
  BY <1>1 DEF Dispatched, Request, Labels
<1>3. QED
  BY <1>2 DEF LockInv, QueueHeld

(* Whoever waits holds nothing, or holds the queue row.                    *)
LEMMA CircleBroken ==
    ASSUME TypeOK, LockInv, DispatchInv, WaitInv
    PROVE  NoCircleOfWaits
<1> SUFFICES ASSUME NEW s \in Requests, NEW t \in Requests, Blocks(s, t)
             PROVE  /\ s # t /\ req[s].pc # "idle"
                    /\ \A r \in Requests : Blocks(r, s) => r # s /\ req[r].pc = "commit"
  BY DEF NoCircleOfWaits
<1>1. ASSUME NEW r \in Requests, req[r].pc \in {"flip", "update"}
      PROVE  req[r].user \in Users /\ req[r].write[req[r].user] = Unset
  <2>1. Dispatched(req[r]) /\ StillToMove(req[r]) /\ OpFitsLabel(req[r])
    BY DEF DispatchInv, WaitInv, LockInv, QueueHeld
  <2>2. req[r].pc = "flip" => req[r].op = "none"
    BY <2>1 DEF OpFitsLabel
  <2>3. req[r].user \in Users
    BY <1>1, <2>1, <2>2 DEF Dispatched
  <2>4. QED
    BY <1>1, <2>1, <2>2, <2>3 DEF Dispatched, StillToMove
<1>2. queueLock = s \/ req[s].pc = "commit"
  BY <1>1, WhoHoldsRows DEF Blocks
<1>3. queueLock = s => Holding(req[s])
  BY DEF WaitInv
<1>4. s # t
  <2>1. CASE req[t].pc = "lock" /\ queueLock = s
    BY <1>3, <2>1 DEF Holding
  <2>2. CASE req[t].pc \in {"flip", "update"} /\ req[s].write[req[t].user] # Unset
    BY <1>1, <2>2
  <2>3. QED
    BY <2>1, <2>2 DEF Blocks
<1>5. ASSUME NEW r \in Requests, Blocks(r, s)
      PROVE  r # s /\ req[r].pc = "commit"
  <2>1. req[s].pc \in {"lock", "flip", "update"}
    BY <1>5 DEF Blocks
  <2>2. queueLock = s /\ req[s].pc = "update"
    BY <1>2, <1>3, <2>1 DEF Holding
  <2>3. req[r].write[req[s].user] # Unset
    BY <1>5, <2>2 DEF Blocks
  <2>4. r # s /\ req[s].user \in Users
    BY <1>1, <2>2, <2>3
  <2>5. QED
    BY <2>2, <2>3, <2>4, WhoHoldsRows
<1>6. QED
  BY <1>2, <1>3, <1>4, <1>5 DEF Holding

LEMMA SomeoneIsFree ==
    ASSUME TypeOK, LockInv, DispatchInv, WaitInv, NoCircleOfWaits
    PROVE  SomeoneMoves
<1>1. ASSUME NEW t \in Requests, req[t].pc # "idle", \A s \in Requests : ~ Blocks(s, t)
      PROVE  CanStep(t)
  <2>1. req[t].pc = "lock" => queueLock = Nobody
    BY <1>1 DEF Blocks, TypeOK
  <2>2. req[t].pc \in {"flip", "update"} => RowFree(req[t].user)
    BY <1>1 DEF Blocks, RowFree
  <2>3. req[t].pc = "pick" /\ req[t].op = "offboard" => req[t].todo # {}
    BY DEF WaitInv, StillToMove
  <2>4. QED
    BY <1>1, <2>1, <2>2, <2>3 DEF CanStep
<1>2. ASSUME NEW t \in Requests, req[t].pc # "idle"
      PROVE  \E s \in Requests : CanStep(s)
  <2>1. CASE \A s \in Requests : ~ Blocks(s, t)
    BY <1>1, <1>2, <2>1
  <2>2. ASSUME NEW s \in Requests, Blocks(s, t)
        PROVE  \E r \in Requests : CanStep(r)
    <3>1. req[s].pc # "idle" /\ \A r \in Requests : Blocks(r, s) => req[r].pc = "commit"
      BY <2>2 DEF NoCircleOfWaits
    <3>2. CASE \A r \in Requests : ~ Blocks(r, s)
      BY <1>1, <3>1, <3>2
    <3>3. ASSUME NEW r \in Requests, Blocks(r, s)
          PROVE  CanStep(r)
      <4>1. req[r].pc = "commit"
        BY <3>1, <3>3
      <4>2. QED
        BY <4>1 DEF CanStep
    <3>4. QED
      BY <3>2, <3>3
  <2>3. QED
    BY <2>1, <2>2
<1>3. QED
  BY <1>2 DEF SomeoneMoves

WaitsInv == TypeOK /\ LockInv /\ DispatchInv /\ WaitInv

LEMMA WaitsHold == Spec => []WaitsInv
<1>1. Init => WaitInv
  BY IdleWaits, ConstantsAssumption DEF Init, WaitInv
<1>2. Init => WaitsInv
  BY <1>1, InitType, InitLock, InitDispatch DEF WaitsInv
<1>3. WaitsInv /\ [Next]_vars => WaitsInv'
  BY StepType, StepLock, StepDispatch, StepWait DEF WaitsInv
<1>4. QED
  BY <1>2, <1>3, PTL DEF Spec

(* Signups, opt-ins, opt-outs, admin assignments and offboardings never    *)
(* wait for one another in a circle, whatever rows they take and in        *)
(* whatever order, ...                                                     *)
THEOREM NoCircle == Spec => []NoCircleOfWaits
<1>1. WaitsInv => NoCircleOfWaits
  BY CircleBroken DEF WaitsInv
<1>2. QED
  BY <1>1, WaitsHold, PTL

(* ... so as long as one of them is under way, one can take its next step. *)
THEOREM NoDeadlock == Spec => []SomeoneMoves
<1>1. WaitsInv => SomeoneMoves
  BY CircleBroken, SomeoneIsFree DEF WaitsInv
<1>2. QED
  BY <1>1, WaitsHold, PTL
-----------------------------------------------------------------------------
(* The previous RM.  What the holder of the queue lock has read of the     *)
(* clients it moves stays true up to opt-outs, as long as nobody assigns   *)
(* by hand.                                                                *)
Moves(r, u) == r.write[u] # Unset \/ (r.pc = "update" /\ u = r.user)

Knows(r, owned) ==
    /\ r.op = "auto" /\ r.pc \in {"update", "commit"} =>
         owned[r.user] \in {r.from[r.user], Nobody}
    /\ r.op = "offboard" /\ r.pc \in {"pick", "update", "commit"} =>
         \A u \in Users :
           /\ u \in r.todo \/ Moves(r, u) => owned[u] \in {r.rm, Nobody}
           /\ Moves(r, u) => r.from[u] = r.rm

KnowInv == \A t \in Requests : Knows(req[t], owner)

(* A step of t that leaves the owners alone.                               *)
LEMMA KnowStep ==
    ASSUME TypeOK, KnowInv, NEW t \in Requests, NEW r,
           req' = [req EXCEPT ![t] = r], owner' = owner, Knows(r, owner)
    PROVE  KnowInv'
BY DEF TypeOK, KnowInv

(* Whoever is not past the queue row has nothing to know yet.              *)
LEMMA NothingToKnow ==
    ASSUME NEW r, NEW owned, r.pc \in {"idle", "flip", "begin", "lock", "list", "current"}
    PROVE  Knows(r, owned)
BY DEF Knows

LEMMA RollBackKnow ==
    ASSUME TypeOK, KnowInv, NEW t \in Requests, RollBack(t)
    PROVE  KnowInv'
<1>1. Idle.pc = "idle"
  BY DEF Idle
<1>2. Knows(Idle, owner)
  BY <1>1, NothingToKnow
<1>3. QED
  BY <1>2, KnowStep DEF RollBack

LEMMA PickKnow ==
    ASSUME TypeOK, KnowInv, DispatchInv, LockInv, NEW t \in Requests, Pick(t)
    PROVE  KnowInv'
<1> DEFINE me == req[t]
<1>0. me \in Request /\ me.pc = "pick" /\ Knows(me, owner) /\ OpFitsLabel(me)
  BY DEF TypeOK, KnowInv, Pick, LockInv, QueueHeld
<1>1. CASE RollBack(t)
  BY <1>1, RollBackKnow
<1>2. CASE ~ RollBack(t)
  <2>1. PICK chosen \in RMs :
          /\ IF me.op = "offboard"
             THEN \E u \in me.todo :
                    req' = [req EXCEPT ![t] =
                      [me EXCEPT !.pc = "update", !.user = u, !.after = chosen,
                                 !.from = [me.from EXCEPT ![u] = me.rm],
                                 !.todo = me.todo \ {u}]]
             ELSE req' = [req EXCEPT ![t] = [me EXCEPT !.pc = "current", !.rm = chosen]]
          /\ owner' = owner
    BY <1>2 DEF Pick, tables
  <2>2. CASE me.op = "offboard"
    <3>1. PICK u \in me.todo :
            req' = [req EXCEPT ![t] =
              [me EXCEPT !.pc = "update", !.user = u, !.after = chosen,
                         !.from = [me.from EXCEPT ![u] = me.rm],
                         !.todo = me.todo \ {u}]]
      BY <2>1, <2>2
    <3> DEFINE r == [me EXCEPT !.pc = "update", !.user = u, !.after = chosen,
                               !.from = [me.from EXCEPT ![u] = me.rm],
                               !.todo = me.todo \ {u}]
    <3>2. /\ r.op = me.op /\ r.rm = me.rm /\ r.write = me.write
          /\ r.pc = "update" /\ r.user = u /\ r.todo = me.todo \ {u}
          /\ u \in Users /\ me.from \in [Users -> Owners]
          /\ r.from = [me.from EXCEPT ![u] = me.rm]
      BY <1>0 DEF Request
    <3>3. \A v \in Users : r.from[v] = IF v = u THEN me.rm ELSE me.from[v]
      BY <3>2
    <3> HIDE DEF r
    <3>4. Knows(r, owner)
      BY <1>0, <2>2, <3>2, <3>3 DEF Knows, Moves
    <3>5. QED
      BY <2>1, <3>1, <3>4, KnowStep DEF r
  <2>3. CASE me.op # "offboard"
    <3> DEFINE r == [me EXCEPT !.pc = "current", !.rm = chosen]
    <3>1. r.pc = "current" /\ req' = [req EXCEPT ![t] = r]
      BY <1>0, <2>1, <2>3 DEF Request
    <3> HIDE DEF r
    <3>2. Knows(r, owner)
      BY <3>1, NothingToKnow
    <3>3. QED
      BY <2>1, <3>1, <3>2, KnowStep
  <2>4. QED
    BY <2>2, <2>3
<1>3. QED
  BY <1>1, <1>2

LEMMA UpdateKnow ==
    ASSUME TypeOK, KnowInv, DispatchInv, NEW t \in Requests, UpdateRow(t)
    PROVE  KnowInv'
<1> DEFINE me == req[t]
           to == IF me.op = "offboard" THEN me.after ELSE me.rm
           r == [me EXCEPT !.write = [me.write EXCEPT ![me.user] = to],
                           !.pc = IF me.todo = {} THEN "commit" ELSE "pick"]
<1>0. /\ me \in Request /\ Knows(me, owner) /\ me.pc = "update"
      /\ me.user \in Users
  BY DEF TypeOK, KnowInv, UpdateRow, DispatchInv, Dispatched
<1>1. req' = [req EXCEPT ![t] = r] /\ owner' = owner
  BY DEF UpdateRow, tables
<1>2. /\ r.op = me.op /\ r.rm = me.rm /\ r.todo = me.todo /\ r.user = me.user
      /\ r.from = me.from
      /\ me.write \in [Users -> Owners \cup {Unset}]
      /\ r.write = [me.write EXCEPT ![me.user] = to]
      /\ r.pc \in {"commit", "pick"}
  BY <1>0 DEF Request
<1>3. \A u \in Users : r.write[u] = IF u = me.user THEN to ELSE me.write[u]
  BY <1>2
<1> HIDE DEF r
<1>4. Knows(r, owner)
  BY <1>0, <1>2, <1>3 DEF Knows, Moves
<1>5. QED
  BY <1>1, <1>4, KnowStep

(* While somebody is past the queue row, only opt-outs commit.             *)
LEMMA CommitKnow ==
    ASSUME TypeOK, KnowInv, EmptyInv, LockInv, DispatchInv,
           NEW t \in Requests, Commit(t)
    PROVE  KnowInv'
<1>1. req' = [req EXCEPT ![t] = Idle] /\ req[t].pc = "commit" /\ req[t] \in Request
  BY DEF Commit, TypeOK
<1>2. Knows(req'[t], owner')
  BY <1>1, NothingToKnow DEF TypeOK, Idle
<1>3. ASSUME NEW s \in Requests \ {t}
      PROVE  Knows(req'[s], owner')
  <2>1. /\ req'[s] = req[s] /\ Knows(req[s], owner) /\ req[s] \in Request
    BY <1>1 DEF TypeOK, KnowInv
  <2> DEFINE past == /\ req[s].op \in {"auto", "offboard"}
                     /\ req[s].pc \in {"pick", "update", "commit"}
  <2>2. CASE past
    <3>1. queueLock = s
      BY <2>2 DEF LockInv, QueueHeld
    <3>2. req[t].op \in {"none", "manual"}
      BY <1>1, <3>1 DEF LockInv, QueueHeld, Request
    <3>3. \A u \in Users : req[t].write[u] \in {Unset, Nobody}
      BY <3>2 DEF EmptyInv, Empties
    <3>4. \A u \in Users : owner'[u] = owner[u] \/ owner'[u] = Nobody
      BY <3>3 DEF Commit, Written
    <3>5. req[s].op = "auto" => req[s].user \in Users
      BY <2>2 DEF DispatchInv, Dispatched
    <3>6. req[s].op = "auto" /\ req[s].pc \in {"update", "commit"} =>
            owner'[req[s].user] \in {req[s].from[req[s].user], Nobody}
      BY <2>1, <3>4, <3>5 DEF Knows
    <3>7. QED
      BY <2>1, <3>4, <3>6 DEF Knows, Moves
  <2>3. CASE ~ past
    BY <2>1, <2>3 DEF Knows
  <2>4. QED
    BY <2>2, <2>3
<1>4. QED
  BY <1>2, <1>3 DEF KnowInv

LEMMA StepKnow ==
    ASSUME TypeOK, KnowInv, EmptyInv, LockInv, DispatchInv, NobodyAssigns, [Next]_vars
    PROVE  KnowInv'
<1>1. ASSUME NEW t \in Requests, NEW u \in Users, NEW want \in {"in", "out"},
             SignUp(t, u, want) \/ Login(t, u, want)
      PROVE  KnowInv'
  <2>1. PICK r : /\ req' = [req EXCEPT ![t] = r] /\ owner' = owner
                 /\ r.pc \in {"idle", "flip", "lock"}
    <3>1. /\ [Idle EXCEPT !.pc = "lock", !.op = "auto", !.user = u,
                           !.action = "auto_assign"].pc = "lock"
          /\ [Idle EXCEPT !.pc = "flip", !.user = u, !.want = want].pc = "flip"
          /\ Idle.pc = "idle"
      BY DEF Idle
    <3>2. QED
      BY <1>1, <3>1 DEF SignUp, Login, Start, tables
  <2>2. Knows(r, owner)
    BY <2>1, NothingToKnow
  <2>3. QED
    BY <2>1, <2>2, KnowStep
<1>2. ASSUME NEW t \in Requests, NEW rm \in RMs, Offboard(t, rm)
      PROVE  KnowInv'
  <2> DEFINE r == [Idle EXCEPT !.pc = "lock", !.op = "offboard", !.rm = rm,
                               !.action = "transfer"]
  <2>1. r.pc = "lock"
    BY DEF Idle
  <2>2. req' = [req EXCEPT ![t] = r] /\ owner' = owner
    BY <1>2 DEF Offboard, Start, tables
  <2> HIDE DEF r
  <2>3. Knows(r, owner)
    BY <2>1, NothingToKnow
  <2>4. QED
    BY <2>2, <2>3, KnowStep
<1>3. ASSUME NEW r \in RMs, NEW s \in {"active", "inactive"}, NEW c \in Caps,
             UpdateRM(r, s, c)
      PROVE  KnowInv'
  BY <1>3 DEF UpdateRM, tables, KnowInv
<1>4. ASSUME NEW t \in Requests, FlipOptIn(t)
      PROVE  KnowInv'
  <2>1. PICK r : /\ req' = [req EXCEPT ![t] = r] /\ owner' = owner
                 /\ r \in {[req[t] EXCEPT !.pc = "lock", !.op = "auto",
                                          !.action = "auto_assign"],
                           [req[t] EXCEPT !.pc = "begin", !.op = "manual",
                                          !.action = "remove"]}
    BY <1>4 DEF FlipOptIn, tables
  <2>2. r.pc \in {"lock", "begin"}
    BY <2>1 DEF TypeOK, Request
  <2>3. Knows(r, owner)
    BY <2>2, NothingToKnow
  <2>4. QED
    BY <2>1, <2>3, KnowStep
<1>5. ASSUME NEW t \in Requests, Begin(t) \/ ReadCurrent(t)
      PROVE  KnowInv'
  <2> DEFINE me == req[t]
             r == [me EXCEPT !.pc = "update", !.from[me.user] = owner[me.user]]
  <2>1. req' = [req EXCEPT ![t] = r] /\ owner' = owner
    BY <1>5 DEF Begin, ReadCurrent, tables, TypeOK, Request
  <2>2. /\ me \in Request /\ me.op \in {"auto", "manual"} /\ me.user \in Users
    BY <1>5 DEF Begin, ReadCurrent, LockInv, QueueHeld, OpFitsLabel, TypeOK,
       DispatchInv, Dispatched
  <2>3. /\ r.op = me.op /\ r.user = me.user
        /\ r.from[me.user] = owner[me.user]
    BY <2>2 DEF Request
  <2> HIDE DEF r
  <2>4. Knows(r, owner)
    BY <2>2, <2>3 DEF Knows
  <2>5. QED
    BY <2>1, <2>4, KnowStep
<1>6. ASSUME NEW t \in Requests, LockQueue(t)
      PROVE  KnowInv'
  <2>1. PICK r : /\ req' = [req EXCEPT ![t] = r] /\ owner' = owner
                 /\ r = IF req[t].op = "auto"
                        THEN [req[t] EXCEPT !.pc = "pick", !.after = lastAssigned]
                        ELSE [req[t] EXCEPT !.pc = "list"]
    BY <1>6 DEF LockQueue
  <2>2. IF req[t].op = "auto" THEN r.op = "auto" /\ r.pc = "pick" ELSE r.pc = "list"
    BY <2>1 DEF TypeOK, Request
  <2>3. Knows(r, owner)
    BY <2>2 DEF Knows
  <2>4. QED
    BY <2>1, <2>3, KnowStep
<1>7. ASSUME NEW t \in Requests, ListClients(t)
      PROVE  KnowInv'
  <2> DEFINE held == {u \in Users : owner[u] = req[t].rm}
             r == [req[t] EXCEPT !.pc = "pick", !.todo = held]
  <2>1. CASE RollBack(t)
    BY <2>1, RollBackKnow
  <2>2. CASE ~ RollBack(t)
    <3>1. /\ req[t] \in Request /\ req[t].pc = "list"
          /\ \A u \in Users : req[t].write[u] = Unset
      BY <1>7 DEF ListClients, TypeOK, DispatchInv, Dispatched
    <3>2. req' = [req EXCEPT ![t] = r] /\ owner' = owner
      BY <1>7, <2>2, <3>1 DEF ListClients, tables, TypeOK, Request
    <3>3. /\ r.op = req[t].op /\ r.rm = req[t].rm /\ r.write = req[t].write
          /\ r.pc = "pick" /\ r.todo = held
      BY <3>1 DEF Request
    <3> HIDE DEF r
    <3>4. Knows(r, owner)
      BY <3>1, <3>3 DEF Knows, Moves
    <3>5. QED
      BY <3>2, <3>4, KnowStep
  <2>3. QED
    BY <2>1, <2>2
<1>8. ASSUME NEW t \in Requests, Fail(t)
      PROVE  KnowInv'
  BY <1>8, RollBackKnow DEF Fail
<1>9. CASE UNCHANGED vars
  BY <1>9 DEF vars, KnowInv
<1>10. QED
  BY <1>1, <1>2, <1>3, <1>4, <1>5, <1>6, <1>7, <1>8, <1>9, PickKnow, UpdateKnow, CommitKnow
  DEF Next, Advance, AdminAssign, AdminRemove, NobodyAssigns

(* The row of an auto-assignment or of an offboarding names the RM its     *)
(* client leaves at the commit, unless the client has opted out since, for *)
(* any number of concurrent signups, opt-outs and offboardings.            *)
THEOREM OldRMNamed ==
    ASSUME NobodyAssigns
    PROVE  Spec => RowsNameOldRM
<1> DEFINE Inv == TypeOK /\ LockInv /\ EmptyInv /\ DispatchInv /\ KnowInv
<1>1. Init => Inv
  <2>1. Idle.pc = "idle" /\ Knows(Idle, owner)
    BY NothingToKnow DEF Idle
  <2>2. Init => KnowInv
    BY <2>1 DEF Init, KnowInv
  <2>3. Init => EmptyInv
    BY IdleEmpties DEF Init, EmptyInv
  <2>4. QED
    BY <2>2, <2>3, InitType, InitLock, InitDispatch
<1>2. Inv /\ [Next]_vars => Inv'
  BY StepType, StepLock, StepEmpty, StepDispatch, StepKnow
<1>3. ASSUME Inv, NEW t \in Requests, req[t].op \in {"auto", "offboard"}, Commit(t)
      PROVE  \A u \in Written(t) : owner[u] \in {req[t].from[u], Nobody}
  <2>1. /\ req[t].pc = "commit" /\ Knows(req[t], owner) /\ Dispatched(req[t])
    BY <1>3 DEF Commit, KnowInv, DispatchInv
  <2>2. CASE req[t].op = "auto"
    BY <2>1, <2>2 DEF Knows, Dispatched, Written
  <2>3. CASE req[t].op = "offboard"
    BY <2>1, <2>3 DEF Knows, Moves, Written
  <2>4. QED
    BY <1>3, <2>2, <2>3
<1>4. Inv /\ [Next]_vars =>
        [\A t \in Requests :
           req[t].op \in {"auto", "offboard"} /\ Commit(t) =>
               \A u \in Written(t) : owner[u] \in {req[t].from[u], Nobody}]_vars
  BY <1>3
<1> HIDE DEF Inv
<1>5. QED
  BY <1>1, <1>2, <1>4, PTL DEF Spec, RowsNameOldRM
=============================================================================
