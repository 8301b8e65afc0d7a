---------------------------- MODULE RefreshTokens ----------------------------
(***************************************************************************)
(* Refresh tokens of the app (handler/auth.go) and of the RM console       *)
(* (service/rmauth.go), two tables with the same statements: a sign-in     *)
(* issues one, a refresh rotates it, a logout revokes it.                  *)
(*                                                                         *)
(* RotateRefreshToken is a transaction.  Its UPDATE waits for the row,     *)
(* looks at it again when it has it, and holds it to the end; what it      *)
(* wrote becomes visible at the commit, together with the new row.         *)
(* Tokens are random: a fresh one is one that neither a row nor a request  *)
(* has.                                                                    *)
(***************************************************************************)
EXTENDS Naturals

CONSTANTS
    Users, Staff,  \* who signs in: to the app, to the console
    Tokens,        \* refresh tokens, by their hash
    Requests,      \* refreshes and logouts in flight
    None,
    RefreshTokenTTL,
    LastDay        \* bound on the clock

Holders == Users \cup Staff

ASSUME TokensAssumption ==
    /\ Users \cap Staff = {}
    /\ None \notin Tokens \cup Requests \cup Holders
    /\ RefreshTokenTTL \in Nat /\ LastDay \in Nat

VARIABLES
    today,
    rows,      \* refresh_tokens and rm_refresh_tokens; origin is the token of
               \* the sign-in a row descends from (not a column)
    lock,      \* row locks
    active,    \* staff with status 'active'
    pc,        \* where each request is
    job,       \* its locals
    known,     \* tokens that were handed to a client
    loggedOut  \* sign-ins that a logout has ended

vars == <<today, rows, lock, active, pc, job, known, loggedOut>>

Row == [holder : Holders, expires : Nat, revoked : BOOLEAN, origin : Tokens]
ASSUME NoneAssumption == None \notin Row

Job == [old : Tokens \cup {None}, new : Tokens \cup {None},
        holder : Holders \cup {None}, began : Nat]
NoJob == [old |-> None, new |-> None, holder |-> None, began |-> 0]

Issued(t) == rows[t] # None
Fresh(t) == ~Issued(t) /\ \A p \in Requests :
                pc[p] \in {"consume", "insert"} => job[p].new # t

Init ==
    /\ today = 0
    /\ rows = [t \in Tokens |-> None]
    /\ lock = [t \in Tokens |-> None]
    /\ active = Staff
    /\ pc = [p \in Requests |-> "idle"]
    /\ job = [p \in Requests |-> NoJob]
    /\ known = {}
    /\ loggedOut = {}

Goto(p, l) == pc' = [pc EXCEPT ![p] = l]
Return(p) == Goto(p, "idle") /\ job' = [job EXCEPT ![p] = NoJob]
Release(p) == lock' = [t \in Tokens |-> IF lock[t] = p THEN None ELSE lock[t]]

-----------------------------------------------------------------------------
\* One INSERT.  The console turns inactive staff away, but long before: it is
\* for one deactivated since, too.  An INSERT that reports an error may have
\* been made.
SignIn(h, t) ==
    /\ Fresh(t)
    /\ rows' = [rows EXCEPT ![t] =
         [holder |-> h, expires |-> today + RefreshTokenTTL, revoked |-> FALSE,
          origin |-> t]]
    /\ known' \in {known, known \cup {t}}
    /\ UNCHANGED <<today, lock, active, pc, job, loggedOut>>

\* Refresh: a new token is made up and the transaction begins; its now() is
\* from here.  A client sends a token it was given, the latest or not.
Refresh(p, t, u) ==
    /\ pc[p] = "idle"
    /\ t \in known /\ Fresh(u)
    /\ job' = [job EXCEPT ![p] = [NoJob EXCEPT !.old = t, !.new = u, !.began = today]]
    /\ Goto(p, "consume")
    /\ UNCHANGED <<today, rows, lock, active, known, loggedOut>>

FreeAlways(t) == TRUE          \* slip: the row is not waited for
Free(t) == lock[t] = None

UnexpiredOnly(t, now) == rows[t].expires > now \* slip: no revoked_at IS NULL
StillValid(t, now) == ~rows[t].revoked /\ rows[t].expires > now

NobodysRow(t) == None                          \* slip: user_id is not scanned
UserOf(t) == rows[t].holder

\* UPDATE ... SET revoked_at WHERE ... RETURNING user_id.
ConsumeAtOnce(p) ==            \* slip: consumed by a statement of its own
    LET t == job[p].old IN
    /\ pc[p] = "consume" /\ Free(t)
    /\ IF StillValid(t, job[p].began)
       THEN /\ lock' = [lock EXCEPT ![t] = p]
            /\ rows' = [rows EXCEPT ![t].revoked = TRUE]
            /\ job' = [job EXCEPT ![p].holder = UserOf(t)]
            /\ Goto(p, "insert")
       ELSE Return(p) /\ UNCHANGED <<lock, rows>>
    /\ UNCHANGED <<today, active, known, loggedOut>>

Consume(p) ==
    LET t == job[p].old IN
    /\ pc[p] = "consume" /\ Free(t)
    /\ IF StillValid(t, job[p].began)
       THEN /\ lock' = [lock EXCEPT ![t] = p]
            /\ job' = [job EXCEPT ![p].holder = UserOf(t)]
            /\ Goto(p, "insert")
       ELSE Return(p) /\ UNCHANGED lock
    /\ UNCHANGED <<today, rows, active, known, loggedOut>>

Replacement(j) == [holder |-> j.holder, expires |-> j.began + RefreshTokenTTL,
                   revoked |-> FALSE, origin |-> rows[j.old].origin]

\* The INSERT and the Commit.  A Commit that reports an error may have been
\* made: the request then ends without an answer.
Commit(p) ==
    LET j == job[p] IN
    /\ pc[p] = "insert"
    /\ rows' = [rows EXCEPT ![j.old].revoked = TRUE, ![j.new] = Replacement(j)]
    /\ Release(p)
    /\ (Goto(p, "answer") /\ UNCHANGED job) \/ Return(p)
    /\ UNCHANGED <<today, active, known, loggedOut>>

\* The console looks its member of staff up once more (GetByID).
Answer(p) ==
    LET j == job[p] IN
    /\ pc[p] = "answer"
    /\ known' = IF j.holder \in Staff \ active THEN known ELSE known \cup {j.new}
    /\ Return(p)
    /\ UNCHANGED <<today, rows, lock, active, loggedOut>>

\* Logout: one UPDATE ... WHERE revoked_at IS NULL, which waits for the row.
Logout(p, t) ==
    /\ pc[p] = "idle"
    /\ t \in known
    /\ job' = [job EXCEPT ![p] = [NoJob EXCEPT !.old = t]]
    /\ Goto(p, "revoke")
    /\ UNCHANGED <<today, rows, lock, active, known, loggedOut>>

RevokeRefreshToken(p) ==
    LET t == job[p].old IN
    /\ pc[p] = "revoke" /\ Free(t)
    /\ IF rows[t].revoked THEN UNCHANGED <<rows, loggedOut>> ELSE
       /\ rows' = [rows EXCEPT ![t].revoked = TRUE]
       /\ loggedOut' = loggedOut \cup {rows[t].origin}
    /\ Return(p)
    /\ UNCHANGED <<today, lock, active, known>>

\* A statement fails; so may GetByID, after the commit.
Fail(p) ==
    /\ \/ pc[p] \in {"consume", "insert", "revoke"}
       \/ pc[p] = "answer" /\ job[p].holder \in Staff
    /\ Release(p)
    /\ Return(p)
    /\ UNCHANGED <<today, rows, active, known, loggedOut>>

\* The admin deactivates or reactivates a member of staff.
SetStatus(h) ==
    /\ active' \in {active \cup {h}, active \ {h}}
    /\ UNCHANGED <<today, rows, lock, pc, job, known, loggedOut>>

NextDay ==
    /\ today < LastDay
    /\ today' = today + 1
    /\ UNCHANGED <<rows, lock, active, pc, job, known, loggedOut>>

Advance(p) ==
    \/ \E t, u \in Tokens : Refresh(p, t, u)
    \/ \E t \in Tokens : Logout(p, t)
    \/ Consume(p) \/ Commit(p) \/ Answer(p) \/ RevokeRefreshToken(p) \/ Fail(p)

Next ==
    \/ NextDay
    \/ \E h \in Holders, t \in Tokens : SignIn(h, t)
    \/ \E h \in Staff : SetStatus(h)
    \/ \E p \in Requests : Advance(p)

Spec == Init /\ [][Next]_vars

-----------------------------------------------------------------------------
(* Properties                                                              *)

\* Rows, locks and requests are well formed; in particular every row belongs
\* to somebody.
TypeOK ==
    /\ today \in Nat
    /\ rows \in [Tokens -> Row \cup {None}]
    /\ lock \in [Tokens -> Requests \cup {None}]
    /\ active \subseteq Staff
    /\ pc \in [Requests -> {"idle", "consume", "insert", "answer", "revoke"}]
    /\ job \in [Requests -> Job]
    /\ known \subseteq Tokens
    /\ loggedOut \subseteq Tokens

SignedIn(s) == Issued(s) /\ rows[s].origin = s
LiveOf(s) == {t \in Tokens : Issued(t) /\ rows[t].origin = s /\ ~rows[t].revoked}

Current(s) == IF LiveOf(s) = {} THEN None ELSE CHOOSE t \in LiveOf(s) : TRUE

\* However many requests replay the tokens of a sign-in at once, it never has
\* two live ones: of the callers with one token exactly one wins.
OneLiveToken == \A s \in Tokens : \A t, u \in LiveOf(s) : t = u

\* A rotation that fails half way burns nothing: until a logout the sign-in
\* has a live row.
SessionKept == \A s \in Tokens :
    SignedIn(s) /\ s \notin loggedOut => LiveOf(s) # {}

\* A sign-in without a live row is over: no refresh that was under way when
\* its last token was revoked brings it back.  (IsChain implies it.)
LogoutIsFinal ==
    [][\A s \in Tokens : SignedIn(s) /\ LiveOf(s) = {} => LiveOf(s)' = {}]_vars

\* Together, and step by step: every sign-in is a chain.
Chain == INSTANCE TokenChain WITH
    Sessions <- Tokens,
    begun <- {s \in Tokens : SignedIn(s)},
    live <- [s \in Tokens |-> Current(s)],
    spent <- {t \in Tokens : Issued(t) /\ rows[t].revoked}

IsChain == Chain!Spec
=============================================================================
