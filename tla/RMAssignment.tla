---------------------------- MODULE RMAssignment ----------------------------
(***************************************************************************)
(* Who looks after which client: AssignmentRepository of                   *)
(* internal/repository/rm_repo.go, the admin operations of                 *)
(* internal/service/rm_admin.go and the login path of                      *)
(* internal/repository/user_repo.go that calls it.                         *)
(*                                                                         *)
(* Requests run concurrently, each over one Postgres transaction at READ   *)
(* COMMITTED: a statement sees what is committed when it runs and the      *)
(* transaction's own writes; UPDATE users takes the row lock and keeps it  *)
(* to the end; rm_queue_state is locked FOR UPDATE by AssignNextRM and     *)
(* OffboardRM only.  One action is one statement, or a run of statements   *)
(* between which nothing that others write is read.                        *)
(***************************************************************************)
EXTENDS Ring, FiniteSets

CONSTANTS
    Users,          \* client accounts
    RMs,            \* staff rows with role 'rm'
    Desk,           \* the RMs in created_at order
    Requests,       \* concurrent requests the server handles
    Nobody,         \* NULL in assigned_rm_id, from_rm_id, last_assigned_rm_id
    Unset,          \* no uncommitted write
    Operations,     \* the operations the environment issues
    Caps,           \* values of max_portfolios
    MaxRequests,    \* bound: requests begun in a behaviour
    MaxUpdates      \* bound: UpdateRM calls in a behaviour

AllOperations == {"login", "assign", "remove", "offboard", "update_rm"}

ASSUME ConstantsAssumption ==
    /\ Nobody \notin RMs /\ Unset \notin RMs /\ Nobody # Unset
    /\ Nobody \notin Requests
    /\ Operations \subseteq AllOperations
    /\ Caps \subseteq Nat
    /\ IsFiniteSet(Users)

ASSUME DeskAssumption ==
    /\ Desk \in Seq(RMs)
    /\ \A r \in RMs : \E i \in DOMAIN Desk : Desk[i] = r
    /\ \A i \in DOMAIN Desk, j \in DOMAIN Desk : Desk[i] = Desk[j] => i = j

VARIABLES
    optin,          \* users.wants_rm, "absent" before the row exists
    owner,          \* users.assigned_rm_id, committed
    history,        \* rm_assignment_history, per client, as committed
    status, cap,    \* rm_users.status and max_portfolios
    lastAssigned,   \* rm_queue_state.last_assigned_rm_id
    rotation,       \* rm_queue_state.rotation_seq
    queueLock,      \* the request holding the rm_queue_state row, or Nobody
    req,            \* the local state of each request
    begun, updates  \* how often the bounded actions happened

vars == <<optin, owner, history, status, cap, lastAssigned, rotation,
          queueLock, req, begun, updates>>

Owners == RMs \cup {Nobody}
HistoryActions == {"auto_assign", "assign", "transfer", "remove"}
Row == [from : Owners, to : Owners, action : HistoryActions]

(* A request: `user` and `rm` are its arguments, `want` the opt-in asked   *)
(* for, `after` the rotation pointer it works from, `todo` the clients an  *)
(* offboarding has still to move, write[u] the uncommitted new owner of u  *)
(* and from[u] what its history row will call the previous one.            *)
Idle ==
    [pc |-> "idle", op |-> "none", user |-> Nobody, rm |-> Nobody,
     want |-> "absent", action |-> "remove", after |-> Nobody,
     todo |-> {}, write |-> [u \in Users |-> Unset],
     from |-> [u \in Users |-> Nobody]]

Labels == {"idle", "flip", "begin", "lock", "pick", "current", "list",
           "update", "commit"}

Request ==
    [pc : Labels, op : {"none", "auto", "manual", "offboard"},
     user : Users \cup {Nobody}, rm : Owners,
     want : {"absent", "in", "out"}, action : HistoryActions,
     after : Owners, todo : SUBSET Users,
     write : [Users -> Owners \cup {Unset}], from : [Users -> Owners]]

TypeOK ==
    /\ optin \in [Users -> {"absent", "in", "out"}]
    /\ owner \in [Users -> Owners]
    /\ history \in [Users -> Seq(Row)]
    /\ status \in [RMs -> {"active", "inactive"}]
    /\ cap \in [RMs -> Caps]
    /\ lastAssigned \in Owners
    /\ rotation \in Nat
    /\ queueLock \in Requests \cup {Nobody}
    /\ req \in [Requests -> Request]
    /\ begun \in Nat /\ updates \in Nat

Init ==
    /\ optin = [u \in Users |-> "absent"]
    /\ owner = [u \in Users |-> Nobody]
    /\ history = [u \in Users |-> << >>]
    /\ status = [r \in RMs |-> "active"]
    /\ cap \in [RMs -> Caps]
    /\ lastAssigned = Nobody
    /\ rotation = 0
    /\ queueLock = Nobody
    /\ req = [t \in Requests |-> Idle]
    /\ begun = 0 /\ updates = 0
-----------------------------------------------------------------------------
(* What the statements of request t see.                                   *)

OwnerSeen(t, u) == IF req[t].write[u] # Unset THEN req[t].write[u] ELSE owner[u]

Clients(t, r) == {u \in Users : OwnerSeen(t, u) = r}

(* The slots of the RMs in `active`, appended in the order of the desk.    *)
Slots(active, slot) ==
    LET ring[n \in 0 .. Len(Desk)] ==
          IF n = 0 THEN << >>
          ELSE IF Desk[n] \in active THEN Append(ring[n - 1], slot[Desk[n]])
          ELSE ring[n - 1]
    IN  ring[Len(Desk)]

(* activeRingTx, without the RM being offboarded.                          *)
ActiveRing(t, leaving) ==
    Slots({r \in RMs : status[r] = "active" /\ r # leaving},
          [r \in RMs |-> [rm |-> r, max |-> cap[r],
                           clients |-> Cardinality(Clients(t, r))]])

RowFree(u) == \A t \in Requests : req[t].write[u] = Unset

Start(t, r) ==
    /\ req[t].pc = "idle"
    /\ begun < MaxRequests
    /\ begun' = begun + 1
    /\ req' = [req EXCEPT ![t] = r]

desk == <<status, cap, updates>>
tables == <<owner, history, lastAssigned, rotation, queueLock>>
-----------------------------------------------------------------------------
(* The login path: FindOrCreateUser and syncRMAssignment.                  *)

(* A first login creates the account and, on opt-in, asks for an RM.       *)
SignUp(t, u, want) ==
    /\ "login" \in Operations
    /\ optin[u] = "absent"
    /\ optin' = [optin EXCEPT ![u] = want]
    /\ Start(t, IF want = "in"
                THEN [Idle EXCEPT !.pc = "lock", !.op = "auto", !.user = u,
                                  !.action = "auto_assign"]
                ELSE Idle)
    /\ UNCHANGED <<tables, desk>>

(* findByPhone has read an opt-in that differs from the one submitted.     *)
Login(t, u, want) ==
    /\ "login" \in Operations
    /\ optin[u] \notin {"absent", want}
    /\ Start(t, [Idle EXCEPT !.pc = "flip", !.user = u, !.want = want])
    /\ UNCHANGED <<optin, tables, desk>>

(* UPDATE users SET wants_rm, then AssignNextRM or Unassign.               *)
FlipOptIn(t) ==
    LET me == req[t] IN
    /\ me.pc = "flip"
    /\ RowFree(me.user)
    /\ optin' = [optin EXCEPT ![me.user] = me.want]
    /\ req' = [req EXCEPT ![t] =
                 IF me.want = "in"
                 THEN [me EXCEPT !.pc = "lock", !.op = "auto", !.action = "auto_assign"]
                 ELSE [me EXCEPT !.pc = "begin", !.op = "manual", !.action = "remove"]]
    /\ UNCHANGED <<tables, desk, begun>>
-----------------------------------------------------------------------------
(* The admin operations: what the service checks before the transaction.   *)

(* Assign and Transfer: the target is active, the client exists, and its   *)
(* owner at this moment decides which of the two the history will say.     *)
AdminAssign(t, u, r) ==
    /\ "assign" \in Operations
    /\ status[r] = "active"
    /\ optin[u] # "absent"
    /\ Start(t, [Idle EXCEPT !.pc = "begin", !.op = "manual", !.user = u, !.rm = r,
                    !.action = IF owner[u] = Nobody THEN "assign" ELSE "transfer"])
    /\ UNCHANGED <<optin, tables, desk>>

AdminRemove(t, u) ==
    /\ "remove" \in Operations
    /\ owner[u] # Nobody
    /\ Start(t, [Idle EXCEPT !.pc = "begin", !.op = "manual", !.user = u])
    /\ UNCHANGED <<optin, tables, desk>>

Offboard(t, r) ==
    /\ "offboard" \in Operations
    /\ Start(t, [Idle EXCEPT !.pc = "lock", !.op = "offboard", !.rm = r,
                             !.action = "transfer"])
    /\ UNCHANGED <<optin, tables, desk>>

(* UpdateRM: one UPDATE of status and capacity.                            *)
UpdateRM(r, s, c) ==
    /\ "update_rm" \in Operations
    /\ updates < MaxUpdates
    /\ updates' = updates + 1
    /\ status' = [status EXCEPT ![r] = s]
    /\ cap' = [cap EXCEPT ![r] = c]
    /\ UNCHANGED <<optin, tables, req, begun>>
-----------------------------------------------------------------------------
(* The transactions.                                                       *)

(* ManualAssign and Unassign begin and read the current RM, without a lock. *)
Begin(t) ==
    /\ req[t].pc = "begin"
    /\ req' = [req EXCEPT ![t].pc = "update",
                          ![t].from[req[t].user] = owner[req[t].user]]
    /\ UNCHANGED <<optin, tables, desk, begun>>

(* A slip the checks must catch: the pointer is read without FOR UPDATE.   *)
LockQueueUnlocked(t) ==
    LET me == req[t] IN
    /\ me.pc = "lock"
    /\ queueLock' = t
    /\ req' = [req EXCEPT ![t] =
                 IF me.op = "auto" THEN [me EXCEPT !.pc = "pick", !.after = lastAssigned]
                                   ELSE [me EXCEPT !.pc = "list"]]
    /\ UNCHANGED <<optin, owner, history, lastAssigned, rotation, desk, begun>>

(* SELECT ... FROM rm_queue_state FOR UPDATE waits for the row.            *)
LockQueue(t) ==
    LET me == req[t] IN
    /\ me.pc = "lock"
    /\ queueLock = Nobody
    /\ queueLock' = t
    /\ req' = [req EXCEPT ![t] =
                 IF me.op = "auto" THEN [me EXCEPT !.pc = "pick", !.after = lastAssigned]
                                   ELSE [me EXCEPT !.pc = "list"]]
    /\ UNCHANGED <<optin, owner, history, lastAssigned, rotation, desk, begun>>

(* Slips: the early return forgets the rollback; the UPDATE of users ran   *)
(* outside the transaction that is rolled back.                            *)
RollBackForgotten(t) ==
    /\ req' = [req EXCEPT ![t] = Idle]
    /\ UNCHANGED <<optin, tables, desk, begun>>

RollBackHalf(t) ==
    /\ queueLock' = IF queueLock = t THEN Nobody ELSE queueLock
    /\ req' = [req EXCEPT ![t] = Idle]
    /\ owner' = [u \in Users |-> IF req[t].write[u] # Unset THEN req[t].write[u]
                                                           ELSE owner[u]]
    /\ UNCHANGED <<optin, history, lastAssigned, rotation, desk, begun>>

(* End of a transaction that wrote nothing, or whose writes are undone.    *)
RollBack(t) ==
    /\ queueLock' = IF queueLock = t THEN Nobody ELSE queueLock
    /\ req' = [req EXCEPT ![t] = Idle]
    /\ UNCHANGED <<optin, owner, history, lastAssigned, rotation, desk, begun>>

(* OffboardRM lists the clients to move; with none it commits at once.     *)
ListClients(t) ==
    /\ req[t].pc = "list"
    /\ LET held == {u \in Users : owner[u] = req[t].rm} IN
       IF held = {}
       THEN RollBack(t)
       ELSE /\ req' = [req EXCEPT ![t].pc = "pick", ![t].todo = held]
            /\ UNCHANGED <<optin, tables, desk, begun>>

(* PickNextRM on the ring this statement sees; ErrNoActiveRM rolls back.   *)
(* An offboarding takes its clients in created_at order, here in any.      *)
Pick(t) ==
    LET me == req[t]
        offboarding == me.op = "offboard"
        ring == ActiveRing(t, IF offboarding THEN me.rm ELSE Nobody)
    IN
    /\ me.pc = "pick"
    /\ IF ring = << >>
       THEN RollBack(t)
       ELSE \E chosen \in RMs :
              /\ chosen = PickNextRM(ring, me.after)
              /\ IF offboarding
                 THEN \E u \in me.todo :
                        req' = [req EXCEPT ![t] =
                          [me EXCEPT !.pc = "update", !.user = u, !.after = chosen,
                                     !.from = [me.from EXCEPT ![u] = me.rm],
                                     !.todo = me.todo \ {u}]]
                 ELSE req' = [req EXCEPT ![t] = [me EXCEPT !.pc = "current", !.rm = chosen]]
              /\ UNCHANGED <<optin, tables, desk, begun>>

(* Slip: the read of the current RM is left out for a client without one.  *)
ReadCurrentUnscanned(t) ==
    /\ req[t].pc = "current"
    /\ req' = [req EXCEPT ![t].pc = "update",
                          ![t].from[req[t].user] = Unset]
    /\ UNCHANGED <<optin, tables, desk, begun>>

(* AssignNextRM reads the client's current RM.                             *)
ReadCurrent(t) ==
    /\ req[t].pc = "current"
    /\ req' = [req EXCEPT ![t].pc = "update",
                          ![t].from[req[t].user] = owner[req[t].user]]
    /\ UNCHANGED <<optin, tables, desk, begun>>

(* applyAssignmentTx: UPDATE users waits for the row lock and keeps it.    *)
UpdateRow(t) ==
    LET me == req[t]
        to == IF me.op = "offboard" THEN me.after ELSE me.rm
    IN
    /\ me.pc = "update"
    /\ RowFree(me.user)
    /\ req' = [req EXCEPT ![t] =
         [me EXCEPT !.write = [me.write EXCEPT ![me.user] = to],
                    !.pc = IF me.todo = {} THEN "commit" ELSE "pick"]]
    /\ UNCHANGED <<optin, tables, desk, begun>>

Written(t) == {u \in Users : req[t].write[u] # Unset}

RowOf(t, u) == [from |-> req[t].from[u], to |-> req[t].write[u],
                action |-> req[t].action]

(* COMMIT publishes the owners, the history rows and the rotation pointer. *)
(* The rows are kept in the order of the commits, which created_at, set to *)
(* the start of each transaction, does not record.                         *)
Commit(t) ==
    /\ req[t].pc = "commit"
    /\ owner' = [u \in Users |-> IF u \in Written(t) THEN req[t].write[u] ELSE owner[u]]
    /\ history' = [u \in Users |-> IF u \in Written(t)
                                   THEN Append(history[u], RowOf(t, u)) ELSE history[u]]
    /\ lastAssigned' = CASE req[t].op = "auto" -> req[t].rm
                         [] req[t].op = "offboard" -> req[t].after
                         [] OTHER -> lastAssigned
    /\ rotation' = IF req[t].op = "auto" THEN rotation + 1 ELSE rotation
    /\ queueLock' = IF queueLock = t THEN Nobody ELSE queueLock
    /\ req' = [req EXCEPT ![t] = Idle]
    /\ UNCHANGED <<optin, desk, begun>>

(* The request's context is cancelled, a statement fails or the server     *)
(* dies: Postgres undoes the transaction and frees its locks.              *)
Fail(t) == req[t].pc # "idle" /\ RollBack(t)
-----------------------------------------------------------------------------
Advance(t) ==
    \/ FlipOptIn(t) \/ Begin(t) \/ LockQueue(t) \/ ListClients(t) \/ Pick(t)
    \/ ReadCurrent(t) \/ UpdateRow(t) \/ Commit(t)

Next ==
    \/ \E t \in Requests :
         \/ \E u \in Users : \E want \in {"in", "out"} : SignUp(t, u, want)
         \/ \E u \in Users : \E want \in {"in", "out"} : Login(t, u, want)
         \/ \E u \in Users, r \in RMs : AdminAssign(t, u, r)
         \/ \E u \in Users : AdminRemove(t, u)
         \/ \E r \in RMs : Offboard(t, r)
         \/ Advance(t)
         \/ Fail(t)
    \/ \E r \in RMs, s \in {"active", "inactive"}, c \in Caps : UpdateRM(r, s, c)

Fairness == \A t \in Requests : WF_vars(Advance(t))

Spec == Init /\ [][Next]_vars /\ Fairness
-----------------------------------------------------------------------------
(* Properties.                                                             *)

Contract == INSTANCE Ledger WITH Actions <- HistoryActions

(* Every commit is one step of the abstract ledger, and nothing else       *)
(* touches the two tables: a failed request leaves no half of a move.      *)
ImplementsLedger == Contract!Spec

(* The rotation pointer AssignNextRM works from stays the committed one up *)
(* to its own commit: two signups cannot be handed the same "next" slot.   *)
PointerIsFresh ==
    \A t \in Requests :
        req[t].op = "auto" /\ req[t].pc \in {"pick", "current", "update", "commit"} =>
            queueLock = t /\ req[t].after = lastAssigned

(* An offboarding leaves its RM with no client at all, those who signed up *)
(* while it ran included.  (Admin assignments take no queue lock, so this  *)
(* is a property of the router and of offboardings only.)                  *)
OffboardEmptiesBook ==
    [][\A t \in Requests :
          req[t].op = "offboard" /\ Commit(t) =>
              \A u \in Users : owner'[u] # req[t].rm]_vars

(* The row an auto-assignment or an offboarding writes names, as the RM    *)
(* the client leaves, the one they have when it commits, although that was *)
(* read some statements earlier: under the queue lock only an opt-out can  *)
(* have come in between.  (Admin operations take no queue lock.)           *)
RowsNameOldRM ==
    [][\A t \in Requests :
          req[t].op \in {"auto", "offboard"} /\ Commit(t) =>
              \A u \in Written(t) : owner[u] \in {req[t].from[u], Nobody}]_vars

(* Rows of the log whose action is one of `actions`.                       *)
Rows(actions) ==
    UNION {{<<u, i>> : i \in {j \in DOMAIN history[u] : history[u][j].action \in actions}}
              : u \in Users}

(* The router alone has decided so far: no admin row, no offboarding.      *)
RouterOnly == Rows({"assign", "transfer"}) = {} /\ updates = 0

(* The room of the whole desk, its RMs taking max[r] clients each.         *)
DeskCapacity(max) ==
    LET room[n \in 0 .. Len(Desk)] == IF n = 0 THEN 0 ELSE room[n - 1] + max[Desk[n]]
    IN  room[Len(Desk)]

Book(r) == {u \in Users : owner[u] = r}

(* As long as only the router places clients and the desk has more room    *)
(* than there are clients, concurrent signups, opt-ins and opt-outs never  *)
(* put an RM above max_portfolios.  (A client who opts in again is counted *)
(* with the RM they have, so a desk with just enough room can overflow.)   *)
SignupsFitDesk ==
    RouterOnly /\ DeskCapacity(cap) > Cardinality(Users) =>
        \A r \in RMs : Cardinality(Book(r)) <= cap[r]

RoomEverywhere == \A r \in RMs : cap[r] >= Cardinality(Users)

Routed(r) == {x \in Rows({"auto_assign"}) : history[x[1]][x[2]].to = r}

(* With room everywhere the router deals clients out evenly, in whatever   *)
(* order concurrent signups commit: the books never differ by more than    *)
(* one routed client.                                                      *)
RotationIsFair ==
    RouterOnly /\ RoomEverywhere =>
        \A r, s \in RMs : Cardinality(Routed(r)) - Cardinality(Routed(s)) <= 1

(* No request waits for ever on the queue row or on a client row.          *)
RequestsFinish ==
    \A t \in Requests : req[t].pc # "idle" ~> req[t].pc = "idle"
=============================================================================
