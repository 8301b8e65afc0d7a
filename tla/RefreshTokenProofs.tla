------------------------- MODULE RefreshTokenProofs -------------------------
(***************************************************************************)
(* Refresh tokens of any number of users, tokens and concurrent requests:  *)
(* every sign-in is a chain with one live token until a logout.            *)
(***************************************************************************)
EXTENDS RefreshTokens, TLAPS

(* What the locals of a request mean at its label.                         *)
Fits(p) ==
    LET j == job[p] IN
    /\ pc[p] # "idle" => j.old \in Tokens /\ Issued(j.old)
    /\ pc[p] \in {"consume", "insert"} => j.new \in Tokens /\ ~Issued(j.new)
    /\ pc[p] = "insert" => /\ lock[j.old] = p /\ ~rows[j.old].revoked
                           /\ j.holder = rows[j.old].holder
    /\ pc[p] = "answer" => j.new \in Tokens /\ Issued(j.new)

(* No two requests have made up the same token.                            *)
Apart == \A p, q \in Requests :
    /\ p # q
    /\ pc[p] \in {"consume", "insert"} /\ pc[q] \in {"consume", "insert"}
    => job[p].new # job[q].new

(* Every row descends from a sign-in.                                      *)
Rooted == \A t \in Tokens : Issued(t) => SignedIn(rows[t].origin)

RequestsFit == (\A p \in Requests : Fits(p)) /\ Apart /\ \A t \in known : Issued(t)
ChainsFit == Rooted /\ OneLiveToken /\ SessionKept
TokenInv == TypeOK /\ RequestsFit /\ ChainsFit

-----------------------------------------------------------------------------
(* Types.                                                                  *)

LEMMA RowType ==
  ASSUME TypeOK, NEW t \in Tokens, Issued(t)
  PROVE  /\ rows[t] \in Row /\ rows[t].origin \in Tokens
         /\ rows[t].revoked \in BOOLEAN /\ rows[t].holder \in Holders
BY DEF TypeOK, Issued, Row

LEMMA ReturnTyped ==
  ASSUME TypeOK, NEW p \in Requests, Return(p)
  PROVE  /\ pc' \in [Requests -> {"idle", "consume", "insert", "answer", "revoke"}]
         /\ job' \in [Requests -> Job]
         /\ pc'[p] = "idle" /\ job'[p] = NoJob
         /\ \A q \in Requests \ {p} : pc'[q] = pc[q] /\ job'[q] = job[q]
<1>1. NoJob \in Job
  BY DEF NoJob, Job
<1> QED BY <1>1 DEF TypeOK, Return, Goto

LEMMA ReleaseTyped ==
  ASSUME TypeOK, NEW p \in Requests, Release(p)
  PROVE  /\ lock' \in [Tokens -> Requests \cup {None}]
         /\ \A t \in Tokens : lock'[t] = IF lock[t] = p THEN None ELSE lock[t]
BY DEF TypeOK, Release

(* A request that goes on to another label with other locals.              *)
LEMMA MoveTyped ==
  ASSUME TypeOK, NEW p \in Requests, NEW l \in {"consume", "insert", "answer", "revoke"},
         Goto(p, l), NEW j \in Job, job' = [job EXCEPT ![p] = j]
  PROVE  /\ pc' \in [Requests -> {"idle", "consume", "insert", "answer", "revoke"}]
         /\ job' \in [Requests -> Job]
         /\ pc'[p] = l /\ job'[p] = j
         /\ \A q \in Requests \ {p} : pc'[q] = pc[q] /\ job'[q] = job[q]
BY DEF TypeOK, Goto

-----------------------------------------------------------------------------
(* What each step that writes does to the chains.                          *)

(* The row of a sign-in.                                                   *)
NewRow(h, t) == [holder |-> h, expires |-> today + RefreshTokenTTL, revoked |-> FALSE,
                 origin |-> t]

LEMMA SignInRows ==
  ASSUME TokenInv, NEW h \in Holders, NEW t \in Tokens, SignIn(h, t)
  PROVE  /\ rows' \in [Tokens -> Row \cup {None}]
         /\ ~Issued(t) /\ rows'[t] = NewRow(h, t) /\ Issued(t)'
         /\ \A u \in Tokens \ {t} : rows'[u] = rows[u]
<1>1. NewRow(h, t) \in Row
  BY TokensAssumption DEF TokenInv, TypeOK, NewRow, Row, Holders
<1>2. rows' = [rows EXCEPT ![t] = NewRow(h, t)] /\ ~Issued(t)
  BY DEF SignIn, NewRow, Fresh
<1> QED BY <1>1, <1>2, NoneAssumption DEF TokenInv, TypeOK, Issued

LEMMA CommitRows ==
  ASSUME TokenInv, NEW p \in Requests, Commit(p),
         NEW t, t = job[p].old, NEW u, u = job[p].new
  PROVE  /\ t \in Tokens /\ u \in Tokens /\ t # u
         /\ Issued(t) /\ ~Issued(u) /\ ~rows[t].revoked
         /\ rows' \in [Tokens -> Row \cup {None}]
         /\ rows'[t] = [rows[t] EXCEPT !.revoked = TRUE]
         /\ rows'[u] \in Row /\ ~rows'[u].revoked /\ rows'[u].origin = rows[t].origin
         /\ rows'[u].holder = rows[t].holder
         /\ \A x \in Tokens \ {t, u} : rows'[x] = rows[x]
<1> DEFINE r == Replacement(job[p])
<1>1. /\ pc[p] = "insert"
      /\ rows' = [rows EXCEPT ![t].revoked = TRUE, ![u] = r]
  BY DEF Commit
<1>2. /\ t \in Tokens /\ u \in Tokens /\ Issued(t) /\ ~Issued(u) /\ ~rows[t].revoked
      /\ job[p].holder = rows[t].holder
  BY <1>1 DEF TokenInv, RequestsFit, Fits
<1>3. job[p].began \in Nat
  BY DEF TokenInv, TypeOK, Job
<1>4. r \in Row /\ r.revoked = FALSE /\ r.origin = rows[t].origin /\ r.holder = rows[t].holder
  BY <1>2, <1>3, RowType, TokensAssumption DEF Replacement, Row, TokenInv
<1>5. [rows[t] EXCEPT !.revoked = TRUE] \in Row
  BY <1>2, RowType DEF Row, TokenInv
<1> HIDE DEF r
<1>6. t # u /\ rows \in [Tokens -> Row \cup {None}]
  BY <1>2 DEF TokenInv, TypeOK
<1> QED BY <1>1, <1>2, <1>4, <1>5, <1>6

LEMMA RevokeRows ==
  ASSUME TokenInv, NEW p \in Requests, RevokeRefreshToken(p),
         NEW t, t = job[p].old, ~rows[t].revoked
  PROVE  /\ t \in Tokens /\ Issued(t) /\ Free(t)
         /\ rows' \in [Tokens -> Row \cup {None}]
         /\ rows'[t] = [rows[t] EXCEPT !.revoked = TRUE]
         /\ loggedOut' = loggedOut \cup {rows[t].origin}
         /\ \A x \in Tokens \ {t} : rows'[x] = rows[x]
<1>1. /\ pc[p] = "revoke" /\ Free(t)
      /\ rows' = [rows EXCEPT ![t].revoked = TRUE]
      /\ loggedOut' = loggedOut \cup {rows[t].origin}
  BY DEF RevokeRefreshToken
<1>2. t \in Tokens /\ Issued(t)
  BY <1>1 DEF TokenInv, RequestsFit, Fits
<1>3. [rows[t] EXCEPT !.revoked = TRUE] \in Row
  BY <1>2, RowType DEF Row, TokenInv
<1> QED BY <1>1, <1>2, <1>3 DEF TokenInv, TypeOK

LEMMA RevokedRow ==
  ASSUME TypeOK, NEW t \in Tokens, Issued(t), NEW r, r = [rows[t] EXCEPT !.revoked = TRUE]
  PROVE  r # None /\ r.revoked /\ r.origin = rows[t].origin /\ r.holder = rows[t].holder
<1>1. r \in Row
  BY RowType DEF Row
<1> QED BY <1>1, RowType, NoneAssumption DEF Row

(* The live tokens, and the sign-ins, after each.                          *)
LEMMA SignInChains ==
  ASSUME TokenInv, NEW h \in Holders, NEW t \in Tokens, SignIn(h, t)
  PROVE  /\ LiveOf(t) = {} /\ ~SignedIn(t)
         /\ \A s \in Tokens : LiveOf(s)' = IF s = t THEN {t} ELSE LiveOf(s)
         /\ \A s \in Tokens : SignedIn(s)' <=> SignedIn(s) \/ s = t
<1>1. /\ ~Issued(t) /\ rows'[t] = NewRow(h, t) /\ Issued(t)'
      /\ \A u \in Tokens \ {t} : rows'[u] = rows[u]
  BY SignInRows
<1>2. rows'[t].origin = t /\ ~rows'[t].revoked
  BY <1>1 DEF NewRow
<1>3. LiveOf(t) = {} /\ ~SignedIn(t)
  BY <1>1 DEF LiveOf, SignedIn, TokenInv, ChainsFit, Rooted
<1>4. ASSUME NEW s \in Tokens PROVE LiveOf(s)' = IF s = t THEN {t} ELSE LiveOf(s)
  BY <1>1, <1>2, <1>3 DEF LiveOf, Issued
<1>5. ASSUME NEW s \in Tokens PROVE SignedIn(s)' <=> SignedIn(s) \/ s = t
  BY <1>1, <1>2 DEF SignedIn, Issued
<1> QED BY <1>3, <1>4, <1>5

LEMMA CommitChains ==
  ASSUME TokenInv, NEW p \in Requests, Commit(p),
         NEW t, t = job[p].old, NEW u, u = job[p].new, NEW o, o = rows[t].origin
  PROVE  /\ o \in Tokens /\ LiveOf(o) = {t} /\ SignedIn(o)
         /\ \A s \in Tokens : LiveOf(s)' = IF s = o THEN {u} ELSE LiveOf(s)
         /\ \A s \in Tokens : SignedIn(s)' <=> SignedIn(s)
<1>1. /\ t \in Tokens /\ u \in Tokens /\ t # u
      /\ Issued(t) /\ ~Issued(u) /\ ~rows[t].revoked
      /\ rows'[t] = [rows[t] EXCEPT !.revoked = TRUE]
      /\ rows'[u] \in Row /\ ~rows'[u].revoked /\ rows'[u].origin = rows[t].origin
      /\ \A x \in Tokens \ {t, u} : rows'[x] = rows[x]
  BY CommitRows
<1>2. rows'[t] # None /\ rows'[t].revoked /\ rows'[t].origin = o /\ rows'[u] # None
  BY <1>1, RevokedRow, NoneAssumption DEF TokenInv
<1>3. o \in Tokens /\ SignedIn(o)
  BY <1>1, RowType DEF TokenInv, ChainsFit, Rooted
<1>4. LiveOf(o) = {t}
  BY <1>1, <1>3 DEF LiveOf, TokenInv, ChainsFit, OneLiveToken
<1>5. ASSUME NEW s \in Tokens PROVE LiveOf(s)' = IF s = o THEN {u} ELSE LiveOf(s)
  <2>1. \A x \in Tokens \ {t, u} : x \in LiveOf(s)' <=> x \in LiveOf(s)
    BY <1>1 DEF LiveOf, Issued
  <2>2. t \notin LiveOf(s)' /\ u \notin LiveOf(s) /\ (t \in LiveOf(s) => s = o)
    BY <1>1, <1>2 DEF LiveOf
  <2>3. u \in LiveOf(s)' <=> s = o
    BY <1>1, <1>2 DEF LiveOf, Issued
  <2>4. LiveOf(s) \subseteq Tokens /\ LiveOf(s)' \subseteq Tokens
    BY DEF LiveOf
  <2> QED BY <1>1, <1>4, <2>1, <2>2, <2>3, <2>4
<1>6. ASSUME NEW s \in Tokens PROVE SignedIn(s)' <=> SignedIn(s)
  <2>1. CASE s = u
    <3>1. u # o /\ rows'[u].origin = o
      BY <1>1, <1>3 DEF SignedIn
    <3> QED BY <1>1, <2>1, <3>1 DEF SignedIn
  <2>2. CASE s = t
    BY <1>1, <1>2, <2>2 DEF SignedIn, Issued
  <2>3. CASE s \notin {t, u}
    BY <1>1, <2>3 DEF SignedIn, Issued
  <2> QED BY <2>1, <2>2, <2>3
<1> QED BY <1>3, <1>4, <1>5, <1>6

LEMMA RevokeChains ==
  ASSUME TokenInv, NEW p \in Requests, RevokeRefreshToken(p),
         NEW t, t = job[p].old, ~rows[t].revoked, NEW o, o = rows[t].origin
  PROVE  /\ o \in Tokens /\ LiveOf(o) = {t}
         /\ \A s \in Tokens : LiveOf(s)' = IF s = o THEN {} ELSE LiveOf(s)
         /\ \A s \in Tokens : SignedIn(s)' <=> SignedIn(s)
<1>1. /\ t \in Tokens /\ Issued(t)
      /\ rows'[t] = [rows[t] EXCEPT !.revoked = TRUE]
      /\ \A x \in Tokens \ {t} : rows'[x] = rows[x]
  BY RevokeRows
<1>2. rows'[t] # None /\ rows'[t].revoked /\ rows'[t].origin = o
  BY <1>1, RevokedRow DEF TokenInv
<1>3. o \in Tokens
  BY <1>1, RowType DEF TokenInv
<1>4. LiveOf(o) = {t}
  BY <1>1, <1>3 DEF LiveOf, TokenInv, ChainsFit, OneLiveToken
<1>5. ASSUME NEW s \in Tokens PROVE LiveOf(s)' = IF s = o THEN {} ELSE LiveOf(s)
  <2>1. \A x \in Tokens \ {t} : x \in LiveOf(s)' <=> x \in LiveOf(s)
    BY <1>1 DEF LiveOf, Issued
  <2>2. t \notin LiveOf(s)' /\ (t \in LiveOf(s) => s = o)
    BY <1>1, <1>2 DEF LiveOf
  <2>3. LiveOf(s) \subseteq Tokens /\ LiveOf(s)' \subseteq Tokens
    BY DEF LiveOf
  <2> QED BY <1>4, <2>1, <2>2, <2>3
<1>6. ASSUME NEW s \in Tokens PROVE SignedIn(s)' <=> SignedIn(s)
  <2>1. CASE s = t
    <3>1. rows[s] # None /\ rows'[s] # None /\ rows'[s].origin = rows[s].origin
      BY <1>1, <1>2, <2>1 DEF Issued
    <3> QED BY <3>1 DEF SignedIn, Issued
  <2>2. CASE s # t
    <3>1. rows'[s] = rows[s]
      BY <1>1, <2>2
    <3> QED BY <3>1 DEF SignedIn, Issued
  <2> QED BY <2>1, <2>2
<1> QED BY <1>3, <1>4, <1>5, <1>6

(* All other steps leave the rows alone.                                   *)
Writes == \/ \E h \in Holders, t \in Tokens : SignIn(h, t)
          \/ \E p \in Requests : Commit(p)
          \/ \E p \in Requests : RevokeRefreshToken(p) /\ ~rows[job[p].old].revoked

LEMMA OthersRead ==
  ASSUME [Next]_vars, ~Writes
  PROVE  rows' = rows /\ loggedOut' = loggedOut
<1>1. CASE UNCHANGED vars \/ NextDay \/ \E h \in Staff : SetStatus(h)
  BY <1>1 DEF vars, NextDay, SetStatus
<1>2. CASE \E p \in Requests : Advance(p)
  BY <1>2 DEF Writes, Advance, Refresh, Consume, Answer, Logout, RevokeRefreshToken, Fail
<1> QED BY <1>1, <1>2 DEF Next, Writes

-----------------------------------------------------------------------------
(* The chains are kept.                                                    *)

(* The sign-ins stay, and rows that were written descend from one.          *)
LEMMA RootedKept ==
  ASSUME TokenInv, \A s \in Tokens : SignedIn(s) => SignedIn(s)',
         NEW o \in Tokens, SignedIn(o)', NEW W,
         \A x \in W : rows'[x].origin = o,
         \A x \in Tokens \ W : rows'[x] = rows[x]
  PROVE  Rooted'
<1>1. ASSUME NEW x \in Tokens, rows'[x] # None, NEW c, c = rows'[x].origin
      PROVE  SignedIn(c)'
  <2>1. CASE x \in W
    BY <1>1, <2>1
  <2>2. CASE x \notin W
    <3>1. rows[x].origin = c /\ Issued(x)
      BY <1>1, <2>2 DEF Issued
    <3>2. c \in Tokens /\ SignedIn(c)
      BY <3>1, RowType DEF TokenInv, ChainsFit, Rooted
    <3> QED BY <3>2
  <2> QED BY <2>1, <2>2
<1> QED BY <1>1 DEF Rooted, SignedIn, Issued

LEMMA ChainsKept == ASSUME TokenInv, [Next]_vars PROVE ChainsFit'
<1>1. CASE ~Writes
  <2>1. rows' = rows /\ loggedOut' = loggedOut
    BY <1>1, OthersRead
  <2>2. \A s \in Tokens : LiveOf(s)' = LiveOf(s) /\ (SignedIn(s)' <=> SignedIn(s))
    BY <2>1 DEF LiveOf, SignedIn, Issued
  <2>3. Rooted'
    BY <2>1 DEF TokenInv, ChainsFit, Rooted, SignedIn, Issued
  <2> QED BY <2>1, <2>2, <2>3 DEF TokenInv, ChainsFit, OneLiveToken, SessionKept
<1>2. CASE \E h \in Holders, t \in Tokens : SignIn(h, t)
  <2>1. PICK h \in Holders, t \in Tokens : SignIn(h, t)
    BY <1>2
  <2>2. /\ \A s \in Tokens : LiveOf(s)' = IF s = t THEN {t} ELSE LiveOf(s)
        /\ \A s \in Tokens : SignedIn(s)' <=> SignedIn(s) \/ s = t
        /\ loggedOut' = loggedOut
    BY <2>1, SignInChains DEF SignIn
  <2>3. Rooted'
    <3> DEFINE W == {t}
    <3>1. rows'[t] = NewRow(h, t) /\ \A u \in Tokens \ {t} : rows'[u] = rows[u]
      BY <2>1, SignInRows
    <3>2. \A u \in W : rows'[u].origin = t
      BY <3>1 DEF NewRow
    <3>3. SignedIn(t)' /\ \A s \in Tokens : SignedIn(s) => SignedIn(s)'
      BY <2>2
    <3>4. \A u \in Tokens \ W : rows'[u] = rows[u]
      BY <3>1
    <3> HIDE DEF W
    <3> QED BY <3>2, <3>3, <3>4, RootedKept
  <2>4. OneLiveToken'
    BY <2>2 DEF OneLiveToken, TokenInv, ChainsFit
  <2>5. SessionKept'
    BY <2>2 DEF SessionKept, TokenInv, ChainsFit
  <2> QED BY <2>3, <2>4, <2>5 DEF ChainsFit
<1>3. CASE \E p \in Requests : Commit(p)
  <2>1. PICK p \in Requests : Commit(p)
    BY <1>3
  <2>2. PICK t, u, o : t = job[p].old /\ u = job[p].new /\ o = rows[t].origin
    OBVIOUS
  <2>3. /\ o \in Tokens /\ SignedIn(o)
        /\ \A s \in Tokens : LiveOf(s)' = IF s = o THEN {u} ELSE LiveOf(s)
        /\ \A s \in Tokens : SignedIn(s)' <=> SignedIn(s)
        /\ loggedOut' = loggedOut
    <3>1. loggedOut' = loggedOut
      BY <2>1 DEF Commit
    <3> QED BY <2>1, <2>2, <3>1, CommitChains
  <2>4. Rooted'
    <3> DEFINE W == {t, u}
    <3>1. /\ t \in Tokens /\ Issued(t) /\ rows'[u].origin = o
          /\ rows'[t] = [rows[t] EXCEPT !.revoked = TRUE]
          /\ \A x \in Tokens \ {t, u} : rows'[x] = rows[x]
      BY <2>1, <2>2, CommitRows
    <3>2. rows'[t].origin = o
      BY <2>2, <3>1, RevokedRow DEF TokenInv
    <3>3. \A x \in W : rows'[x].origin = o
      BY <3>1, <3>2
    <3>4. SignedIn(o)' /\ \A s \in Tokens : SignedIn(s) => SignedIn(s)'
      BY <2>3
    <3>5. \A x \in Tokens \ W : rows'[x] = rows[x]
      BY <3>1
    <3> HIDE DEF W
    <3> QED BY <2>3, <3>3, <3>4, <3>5, RootedKept
  <2>5. OneLiveToken'
    BY <2>3 DEF OneLiveToken, TokenInv, ChainsFit
  <2>6. SessionKept'
    BY <2>3 DEF SessionKept, TokenInv, ChainsFit
  <2> QED BY <2>4, <2>5, <2>6 DEF ChainsFit
<1>4. CASE \E p \in Requests : RevokeRefreshToken(p) /\ ~rows[job[p].old].revoked
  <2>1. PICK p \in Requests : RevokeRefreshToken(p) /\ ~rows[job[p].old].revoked
    BY <1>4
  <2>2. PICK t, o : t = job[p].old /\ o = rows[t].origin
    OBVIOUS
  <2>3. /\ o \in Tokens
        /\ \A s \in Tokens : LiveOf(s)' = IF s = o THEN {} ELSE LiveOf(s)
        /\ \A s \in Tokens : SignedIn(s)' <=> SignedIn(s)
    BY <2>1, <2>2, RevokeChains
  <2>4. /\ t \in Tokens /\ Issued(t) /\ loggedOut' = loggedOut \cup {o}
        /\ rows'[t] = [rows[t] EXCEPT !.revoked = TRUE]
        /\ \A x \in Tokens \ {t} : rows'[x] = rows[x]
    BY <2>1, <2>2, RevokeRows
  <2>5. Rooted'
    <3> DEFINE W == {t}
    <3>1. rows'[t].origin = o /\ SignedIn(o)
      BY <2>2, <2>4, RevokedRow DEF TokenInv, ChainsFit, Rooted
    <3>2. \A x \in W : rows'[x].origin = o
      BY <3>1
    <3>3. SignedIn(o)' /\ \A s \in Tokens : SignedIn(s) => SignedIn(s)'
      BY <2>3, <3>1
    <3>4. \A x \in Tokens \ W : rows'[x] = rows[x]
      BY <2>4
    <3> HIDE DEF W
    <3> QED BY <2>3, <3>2, <3>3, <3>4, RootedKept
  <2>6. OneLiveToken'
    BY <2>3 DEF OneLiveToken, TokenInv, ChainsFit
  <2>7. SessionKept'
    BY <2>3, <2>4 DEF SessionKept, TokenInv, ChainsFit
  <2> QED BY <2>5, <2>6, <2>7 DEF ChainsFit
<1> QED BY <1>1, <1>2, <1>3, <1>4 DEF Writes

-----------------------------------------------------------------------------
(* So are the types and what requests know.                                *)

(* What a step leaves a request that is not its own.                       *)
LEMMA OthersFit ==
  ASSUME TokenInv, NEW q \in Requests, pc'[q] = pc[q], job'[q] = job[q],
         \A t \in Tokens : Issued(t) => Issued(t)' /\ rows'[t].holder = rows[t].holder,
         pc[q] \in {"consume", "insert"} => ~Issued(job[q].new)',
         pc[q] = "insert" => /\ lock'[job[q].old] = q
                             /\ ~rows'[job[q].old].revoked
  PROVE  Fits(q)'
<1>1. Fits(q)
  BY DEF TokenInv, RequestsFit
<1>2. ASSUME pc[q] # "idle" PROVE job[q].old \in Tokens /\ Issued(job[q].old)'
                                  /\ rows'[job[q].old].holder = rows[job[q].old].holder
  BY <1>1, <1>2 DEF Fits
<1>3. ASSUME pc[q] = "answer" PROVE job[q].new \in Tokens /\ Issued(job[q].new)'
  BY <1>1, <1>3 DEF Fits
<1> HIDE DEF Issued
<1> QED BY <1>1, <1>2, <1>3 DEF Fits

LEMMA ApartKept ==
  ASSUME TokenInv, NEW p \in Requests,
         \A q \in Requests \ {p} : pc'[q] = pc[q] /\ job'[q] = job[q],
         \/ pc'[p] \notin {"consume", "insert"}
         \/ /\ pc[p] \in {"consume", "insert"} /\ job'[p].new = job[p].new
         \/ \A q \in Requests \ {p} : pc[q] \in {"consume", "insert"} => job[q].new # job'[p].new
  PROVE  Apart'
BY DEF Apart, TokenInv, RequestsFit

LEMMA TypesKept == ASSUME TokenInv, [Next]_vars PROVE TypeOK'
<1> USE DEF TokenInv
<1>1. CASE UNCHANGED vars \/ NextDay \/ \E h \in Staff : SetStatus(h)
  BY <1>1 DEF vars, NextDay, SetStatus, TypeOK
<1>2. ASSUME NEW h \in Holders, NEW t \in Tokens, SignIn(h, t) PROVE TypeOK'
  BY <1>2, SignInRows DEF SignIn, TypeOK
<1>3. ASSUME NEW p \in Requests, NEW t \in Tokens, NEW u \in Tokens, Refresh(p, t, u)
      PROVE  TypeOK'
  <2>1. [NoJob EXCEPT !.old = t, !.new = u, !.began = today] \in Job
    BY DEF NoJob, Job, TypeOK
  <2> QED BY <1>3, <2>1, MoveTyped DEF Refresh, TypeOK
<1>4. ASSUME NEW p \in Requests, NEW t \in Tokens, Logout(p, t) PROVE TypeOK'
  <2>1. [NoJob EXCEPT !.old = t] \in Job
    BY DEF NoJob, Job
  <2> QED BY <1>4, <2>1, MoveTyped DEF Logout, TypeOK
<1>5. ASSUME NEW p \in Requests, Consume(p) PROVE TypeOK'
  <2> DEFINE t == job[p].old  j == [job[p] EXCEPT !.holder = UserOf(t)]
  <2>1. t \in Tokens /\ Issued(t)
    BY <1>5 DEF Consume, RequestsFit, Fits
  <2>2. CASE StillValid(t, job[p].began)
    <3>1. j \in Job
      BY <2>1, RowType DEF UserOf, TypeOK, Job
    <3>2. job' = [job EXCEPT ![p] = j]
      BY <1>5, <2>2 DEF Consume
    <3>3. Goto(p, "insert") /\ lock' = [lock EXCEPT ![t] = p]
          /\ UNCHANGED <<today, rows, active, known, loggedOut>>
      BY <1>5, <2>2 DEF Consume
    <3> HIDE DEF j
    <3> QED BY <2>1, <3>1, <3>2, <3>3, MoveTyped DEF TypeOK
  <2>3. CASE ~StillValid(t, job[p].began)
    BY <1>5, <2>3, ReturnTyped DEF Consume, TypeOK
  <2> QED BY <2>2, <2>3
<1>6. ASSUME NEW p \in Requests, Commit(p) PROVE TypeOK'
  <2>1. PICK t, u : t = job[p].old /\ u = job[p].new
    OBVIOUS
  <2>2. rows' \in [Tokens -> Row \cup {None}]
    BY <1>6, <2>1, CommitRows
  <2>3. CASE Return(p)
    BY <1>6, <2>2, <2>3, ReturnTyped, ReleaseTyped DEF Commit, TypeOK
  <2>4. CASE Goto(p, "answer") /\ job' = job
    BY <1>6, <2>2, <2>4, ReleaseTyped DEF Commit, TypeOK, Goto
  <2> QED BY <1>6, <2>3, <2>4 DEF Commit
<1>7. ASSUME NEW p \in Requests, Answer(p) PROVE TypeOK'
  <2>1. job[p].new \in Tokens
    BY <1>7 DEF Answer, RequestsFit, Fits
  <2> QED BY <1>7, <2>1, ReturnTyped DEF Answer, TypeOK
<1>8. ASSUME NEW p \in Requests, RevokeRefreshToken(p) PROVE TypeOK'
  <2>1. PICK t : t = job[p].old
    OBVIOUS
  <2>2. CASE rows[t].revoked
    BY <1>8, <2>1, <2>2, ReturnTyped DEF RevokeRefreshToken, TypeOK
  <2>3. CASE ~rows[t].revoked
    <3>1. /\ rows' \in [Tokens -> Row \cup {None}]
          /\ loggedOut' = loggedOut \cup {rows[t].origin} /\ rows[t].origin \in Tokens
      BY <1>8, <2>1, <2>3, RevokeRows, RowType
    <3> QED BY <1>8, <3>1, ReturnTyped DEF RevokeRefreshToken, TypeOK
  <2> QED BY <2>2, <2>3
<1>9. ASSUME NEW p \in Requests, Fail(p) PROVE TypeOK'
  BY <1>9, ReturnTyped, ReleaseTyped DEF Fail, TypeOK
<1> QED BY <1>1, <1>2, <1>3, <1>4, <1>5, <1>6, <1>7, <1>8, <1>9 DEF Next, Advance

LEMMA HoldsLock ==
  ASSUME TokenInv, NEW q \in Requests, pc[q] = "insert"
  PROVE  /\ job[q].old \in Tokens /\ Issued(job[q].old) /\ ~Free(job[q].old)
         /\ lock[job[q].old] = q /\ ~rows[job[q].old].revoked
BY TokensAssumption DEF TokenInv, RequestsFit, Fits, Free

LEMMA NewIsUnissued ==
  ASSUME TokenInv, NEW q \in Requests, pc[q] \in {"consume", "insert"}
  PROVE  job[q].new \in Tokens /\ ~Issued(job[q].new)
BY DEF TokenInv, RequestsFit, Fits

(* The step of a request that leaves the rows alone.                       *)
LEMMA ReadingStep ==
  ASSUME TokenInv, NEW p \in Requests, rows' = rows,
         \A q \in Requests \ {p} : pc'[q] = pc[q] /\ job'[q] = job[q],
         \A t \in Tokens : lock[t] \notin {None, p} => lock'[t] = lock[t]
  PROVE  \A q \in Requests \ {p} : Fits(q)'
<1> SUFFICES ASSUME NEW q \in Requests \ {p} PROVE Fits(q)'
  OBVIOUS
<1>1. \A t \in Tokens : Issued(t) => Issued(t)' /\ rows'[t].holder = rows[t].holder
  BY DEF Issued
<1>2. ASSUME pc[q] \in {"consume", "insert"} PROVE ~Issued(job[q].new)'
  BY <1>2, NewIsUnissued DEF Issued
<1>3. ASSUME pc[q] = "insert" PROVE lock'[job[q].old] = q /\ ~rows'[job[q].old].revoked
  BY <1>3, HoldsLock, TokensAssumption
<1> QED BY <1>1, <1>2, <1>3, OthersFit

LEMMA IdleFits ==
  ASSUME NEW p \in Requests, pc'[p] = "idle"
  PROVE  Fits(p)'
BY DEF Fits

LEMMA KnownStays ==
  ASSUME TokenInv, \A t \in Tokens : Issued(t) => Issued(t)'
  PROVE  \A t \in known : Issued(t)'
BY DEF TokenInv, TypeOK, RequestsFit

LEMMA RequestsKept == ASSUME TokenInv, [Next]_vars PROVE RequestsFit'
<1>0. TypeOK /\ RequestsFit
  BY DEF TokenInv
<1>1. CASE UNCHANGED vars \/ NextDay \/ \E h \in Staff : SetStatus(h)
  BY <1>0, <1>1 DEF vars, NextDay, SetStatus, RequestsFit, Fits, Apart, Issued
<1>2. ASSUME NEW h \in Holders, NEW t \in Tokens, SignIn(h, t) PROVE RequestsFit'
  <2>1. /\ pc' = pc /\ job' = job /\ lock' = lock /\ Fresh(t)
        /\ known' \in {known, known \cup {t}}
    BY <1>2 DEF SignIn
  <2>2. ~Issued(t) /\ Issued(t)' /\ \A x \in Tokens \ {t} : rows'[x] = rows[x]
    BY <1>2, SignInRows
  <2>3. \A x \in Tokens : Issued(x) => Issued(x)' /\ rows'[x].holder = rows[x].holder
                                      /\ rows'[x] = rows[x]
    BY <2>2 DEF Issued
  <2>4. ASSUME NEW q \in Requests PROVE Fits(q)'
    <3>1. ASSUME pc[q] \in {"consume", "insert"} PROVE ~Issued(job[q].new)'
      <4>1. job[q].new \in Tokens /\ ~Issued(job[q].new) /\ job[q].new # t
        BY <2>1, <3>1, NewIsUnissued DEF Fresh
      <4> QED BY <2>1, <2>2, <4>1 DEF Issued
    <3>2. ASSUME pc[q] = "insert"
          PROVE  lock'[job[q].old] = q /\ ~rows'[job[q].old].revoked
      BY <2>1, <2>3, <3>2, HoldsLock
    <3> QED BY <2>1, <2>3, <3>1, <3>2, OthersFit
  <2>5. Apart'
    BY <1>0, <2>1 DEF RequestsFit, Apart
  <2>6. \A x \in known' : Issued(x)'
    BY <2>1, <2>2, <2>3, KnownStays
  <2> QED BY <2>4, <2>5, <2>6 DEF RequestsFit
<1>3. ASSUME NEW p \in Requests, NEW t \in Tokens, NEW u \in Tokens, Refresh(p, t, u)
      PROVE  RequestsFit'
  <2> DEFINE j == [NoJob EXCEPT !.old = t, !.new = u, !.began = today]
  <2>1. j \in Job /\ j.old = t /\ j.new = u
    BY <1>0 DEF NoJob, Job, TypeOK
  <2>2. /\ job' = [job EXCEPT ![p] = j] /\ Goto(p, "consume") /\ t \in known /\ Fresh(u)
        /\ UNCHANGED <<rows, lock, known>>
    BY <1>3 DEF Refresh
  <2> HIDE DEF j
  <2>3. /\ pc'[p] = "consume" /\ job'[p] = j
        /\ \A q \in Requests \ {p} : pc'[q] = pc[q] /\ job'[q] = job[q]
    BY <1>0, <2>1, <2>2, MoveTyped
  <2>4. Issued(t) /\ ~Issued(u)
    BY <1>0, <2>2 DEF RequestsFit, Fresh
  <2>5. Fits(p)'
    BY <2>1, <2>2, <2>3, <2>4 DEF Fits, Issued
  <2>6. \A q \in Requests \ {p} : Fits(q)'
    BY <2>2, <2>3, ReadingStep
  <2>7. Apart'
    BY <2>1, <2>2, <2>3, ApartKept DEF Fresh
  <2> QED BY <1>0, <2>2, <2>5, <2>6, <2>7 DEF RequestsFit, Issued
<1>4. ASSUME NEW p \in Requests, NEW t \in Tokens, Logout(p, t) PROVE RequestsFit'
  <2> DEFINE j == [NoJob EXCEPT !.old = t]
  <2>1. j \in Job /\ j.old = t
    BY DEF NoJob, Job
  <2>2. /\ job' = [job EXCEPT ![p] = j] /\ Goto(p, "revoke") /\ t \in known
        /\ UNCHANGED <<rows, lock, known>>
    BY <1>4 DEF Logout
  <2> HIDE DEF j
  <2>3. /\ pc'[p] = "revoke" /\ job'[p] = j
        /\ \A q \in Requests \ {p} : pc'[q] = pc[q] /\ job'[q] = job[q]
    BY <1>0, <2>1, <2>2, MoveTyped
  <2>4. Fits(p)'
    BY <1>0, <2>1, <2>2, <2>3 DEF Fits, Issued, RequestsFit
  <2>5. \A q \in Requests \ {p} : Fits(q)'
    BY <2>2, <2>3, ReadingStep
  <2>6. Apart'
    BY <2>3, ApartKept
  <2> QED BY <1>0, <2>2, <2>4, <2>5, <2>6 DEF RequestsFit, Issued
<1>5. ASSUME NEW p \in Requests, Consume(p) PROVE RequestsFit'
  <2>0. PICK t : t = job[p].old
    OBVIOUS
  <2>1. /\ pc[p] = "consume" /\ Free(t) /\ UNCHANGED <<rows, known>>
    BY <1>5, <2>0 DEF Consume
  <2>2. t \in Tokens /\ Issued(t) /\ job[p].new \in Tokens /\ ~Issued(job[p].new)
    BY <1>0, <2>0, <2>1 DEF RequestsFit, Fits
  <2>3. CASE StillValid(t, job[p].began)
    <3> DEFINE j == [job[p] EXCEPT !.holder = UserOf(t)]
    <3>1. j \in Job /\ j.old = t /\ j.new = job[p].new /\ j.holder = rows[t].holder
      BY <1>0, <2>0, <2>2, RowType DEF UserOf, TypeOK, Job
    <3>2. /\ job' = [job EXCEPT ![p] = j] /\ Goto(p, "insert")
          /\ lock' = [lock EXCEPT ![t] = p]
      BY <1>5, <2>0, <2>3 DEF Consume
    <3> HIDE DEF j
    <3>3. /\ pc'[p] = "insert" /\ job'[p] = j
          /\ \A q \in Requests \ {p} : pc'[q] = pc[q] /\ job'[q] = job[q]
      BY <1>0, <3>1, <3>2, MoveTyped
    <3>4. lock'[t] = p /\ \A x \in Tokens : lock[x] \notin {None, p} => lock'[x] = lock[x]
      BY <1>0, <2>1, <2>2, <3>2 DEF TypeOK, Free
    <3>5. Fits(p)'
      BY <2>1, <2>2, <2>3, <3>1, <3>3, <3>4 DEF Fits, Issued, StillValid
    <3>6. \A q \in Requests \ {p} : Fits(q)'
      BY <2>1, <3>3, <3>4, ReadingStep
    <3>7. Apart'
      BY <2>1, <3>1, <3>3, ApartKept
    <3> QED BY <1>0, <2>1, <3>5, <3>6, <3>7 DEF RequestsFit, Issued
  <2>4. CASE ~StillValid(t, job[p].began)
    <3>1. Return(p) /\ lock' = lock
      BY <1>5, <2>0, <2>4 DEF Consume
    <3>2. /\ pc'[p] = "idle"
          /\ \A q \in Requests \ {p} : pc'[q] = pc[q] /\ job'[q] = job[q]
      BY <1>0, <3>1, ReturnTyped
    <3>3. Fits(p)' /\ Apart' /\ \A q \in Requests \ {p} : Fits(q)'
      BY <2>1, <3>1, <3>2, IdleFits, ApartKept, ReadingStep
    <3> QED BY <1>0, <2>1, <3>3 DEF RequestsFit, Issued
  <2> QED BY <2>3, <2>4
<1>6. ASSUME NEW p \in Requests, Commit(p) PROVE RequestsFit'
  <2>0. PICK t, u : t = job[p].old /\ u = job[p].new
    OBVIOUS
  <2>1. /\ t \in Tokens /\ u \in Tokens /\ t # u /\ Issued(t) /\ ~Issued(u)
        /\ rows'[t] = [rows[t] EXCEPT !.revoked = TRUE]
        /\ rows'[u] \in Row
        /\ \A x \in Tokens \ {t, u} : rows'[x] = rows[x]
    BY <1>6, <2>0, CommitRows
  <2>2. /\ pc[p] = "insert" /\ known' = known /\ Release(p)
        /\ (Goto(p, "answer") /\ job' = job) \/ Return(p)
    BY <1>6 DEF Commit
  <2>3. \A x \in Tokens : Issued(x) => Issued(x)' /\ rows'[x].holder = rows[x].holder
    <3>1. rows'[t] # None /\ rows'[t].holder = rows[t].holder
      BY <1>0, <2>1, RevokedRow
    <3> QED BY <2>1, <3>1 DEF Issued
  <2>4. Issued(u)'
    BY <2>1, NoneAssumption DEF Issued
  <2>5. \/ pc'[p] = "idle"
        \/ pc'[p] = "answer" /\ job'[p] = job[p]
    BY <1>0, <2>2, ReturnTyped DEF Goto, TypeOK
  <2>6. \A q \in Requests \ {p} : pc'[q] = pc[q] /\ job'[q] = job[q]
    BY <1>0, <2>2, ReturnTyped DEF Goto, TypeOK
  <2>7. ASSUME NEW q \in Requests \ {p} PROVE Fits(q)'
    <3>1. ASSUME pc[q] \in {"consume", "insert"} PROVE ~Issued(job[q].new)'
      <4>1. job[q].new \in Tokens /\ ~Issued(job[q].new)
        BY <3>1, NewIsUnissued
      <4>2. job[q].new # u
        BY <1>0, <2>0, <2>2, <3>1 DEF RequestsFit, Apart
      <4> QED BY <2>1, <2>6, <4>1, <4>2 DEF Issued
    <3>2. ASSUME pc[q] = "insert"
          PROVE  lock'[job[q].old] = q /\ ~rows'[job[q].old].revoked
      <4>1. /\ job[q].old \in Tokens /\ Issued(job[q].old) /\ lock[job[q].old] = q
            /\ ~rows[job[q].old].revoked
        BY <3>2, HoldsLock
      <4>2. lock[t] = p
        BY <2>0, <2>2, HoldsLock
      <4>3. job[q].old \notin {t, u}
        BY <2>1, <4>1, <4>2
      <4> QED BY <1>0, <2>1, <2>2, <4>1, <4>3, ReleaseTyped
    <3> QED BY <2>3, <2>6, <3>1, <3>2, OthersFit
  <2>8. Fits(p)'
    BY <2>0, <2>1, <2>3, <2>4, <2>5 DEF Fits
  <2>9. Apart'
    BY <2>5, <2>6, ApartKept
  <2>10. \A x \in known' : Issued(x)'
    BY <2>2, <2>3, KnownStays
  <2> QED BY <2>7, <2>8, <2>9, <2>10 DEF RequestsFit
<1>7. ASSUME NEW p \in Requests, Answer(p) PROVE RequestsFit'
  <2>1. Return(p) /\ rows' = rows /\ lock' = lock /\ pc[p] = "answer"
        /\ known' \subseteq known \cup {job[p].new}
    BY <1>7 DEF Answer
  <2>2. /\ pc'[p] = "idle"
        /\ \A q \in Requests \ {p} : pc'[q] = pc[q] /\ job'[q] = job[q]
    BY <1>0, <2>1, ReturnTyped
  <2>3. Fits(p)' /\ Apart' /\ \A q \in Requests \ {p} : Fits(q)'
    BY <2>1, <2>2, IdleFits, ApartKept, ReadingStep
  <2>4. Issued(job[p].new)
    BY <1>0, <2>1 DEF RequestsFit, Fits
  <2> QED BY <1>0, <2>1, <2>3, <2>4 DEF RequestsFit, Issued
<1>8. ASSUME NEW p \in Requests, RevokeRefreshToken(p) PROVE RequestsFit'
  <2>0. PICK t : t = job[p].old
    OBVIOUS
  <2>1. Return(p) /\ lock' = lock /\ known' = known
    BY <1>8 DEF RevokeRefreshToken
  <2>2. /\ pc'[p] = "idle"
        /\ \A q \in Requests \ {p} : pc'[q] = pc[q] /\ job'[q] = job[q]
    BY <1>0, <2>1, ReturnTyped
  <2>3. CASE rows[t].revoked
    <3>1. rows' = rows
      BY <1>8, <2>0, <2>3 DEF RevokeRefreshToken
    <3>2. Fits(p)' /\ Apart' /\ \A q \in Requests \ {p} : Fits(q)'
      BY <2>1, <2>2, <3>1, IdleFits, ApartKept, ReadingStep
    <3> QED BY <1>0, <2>1, <3>1, <3>2 DEF RequestsFit, Issued
  <2>4. CASE ~rows[t].revoked
    <3>1. /\ t \in Tokens /\ Issued(t) /\ Free(t)
          /\ rows'[t] = [rows[t] EXCEPT !.revoked = TRUE]
          /\ \A x \in Tokens \ {t} : rows'[x] = rows[x]
      BY <1>8, <2>0, <2>4, RevokeRows
    <3>2. \A x \in Tokens : Issued(x) => Issued(x)' /\ rows'[x].holder = rows[x].holder
      <4>1. rows'[t] # None /\ rows'[t].holder = rows[t].holder
        BY <1>0, <3>1, RevokedRow
      <4> QED BY <3>1, <4>1 DEF Issued
    <3>3. ASSUME NEW q \in Requests \ {p} PROVE Fits(q)'
      <4>1. ASSUME pc[q] \in {"consume", "insert"} PROVE ~Issued(job[q].new)'
        <5>1. job[q].new \in Tokens /\ ~Issued(job[q].new)
          BY <4>1, NewIsUnissued
        <5> QED BY <2>2, <3>1, <5>1 DEF Issued
      <4>2. ASSUME pc[q] = "insert"
            PROVE  lock'[job[q].old] = q /\ ~rows'[job[q].old].revoked
        BY <2>1, <3>1, <4>2, HoldsLock
      <4> QED BY <2>2, <3>2, <4>1, <4>2, OthersFit
    <3>4. Fits(p)' /\ Apart'
      BY <2>2, IdleFits, ApartKept
    <3>5. \A x \in known' : Issued(x)'
      BY <2>1, <3>2, KnownStays
    <3> QED BY <3>3, <3>4, <3>5 DEF RequestsFit
  <2> QED BY <2>3, <2>4
<1>9. ASSUME NEW p \in Requests, Fail(p) PROVE RequestsFit'
  <2>1. Return(p) /\ Release(p) /\ rows' = rows /\ known' = known
    BY <1>9 DEF Fail
  <2>2. /\ pc'[p] = "idle"
        /\ \A q \in Requests \ {p} : pc'[q] = pc[q] /\ job'[q] = job[q]
    BY <1>0, <2>1, ReturnTyped
  <2>3. \A x \in Tokens : lock[x] \notin {None, p} => lock'[x] = lock[x]
    BY <1>0, <2>1, ReleaseTyped
  <2>4. Fits(p)' /\ Apart' /\ \A q \in Requests \ {p} : Fits(q)'
    BY <2>1, <2>2, <2>3, IdleFits, ApartKept, ReadingStep
  <2> QED BY <1>0, <2>1, <2>4 DEF RequestsFit, Issued
<1> QED BY <1>1, <1>2, <1>3, <1>4, <1>5, <1>6, <1>7, <1>8, <1>9 DEF Next, Advance

-----------------------------------------------------------------------------
(* The theorems.                                                           *)

LEMMA InitInv == Init => TokenInv
<1> SUFFICES ASSUME Init PROVE TokenInv
  OBVIOUS
<1> USE DEF Init
<1>1. TypeOK
  <2>1. NoJob \in Job
    BY DEF NoJob, Job
  <2> QED BY <2>1 DEF TypeOK
<1>2. \A t \in Tokens : ~Issued(t)
  BY DEF Issued
<1>3. RequestsFit
  BY DEF RequestsFit, Fits, Apart
<1>4. \A s \in Tokens : ~SignedIn(s) /\ LiveOf(s) = {}
  BY <1>2 DEF SignedIn, LiveOf
<1>5. ChainsFit
  BY <1>2, <1>4 DEF ChainsFit, Rooted, OneLiveToken, SessionKept
<1> QED BY <1>1, <1>3, <1>5 DEF TokenInv

(* The invariant that the others rest on.                                  *)
THEOREM TokensFit == Spec => []TokenInv
<1>1. TokenInv /\ [Next]_vars => TokenInv'
  BY TypesKept, RequestsKept, ChainsKept DEF TokenInv
<1> QED BY <1>1, InitInv, PTL DEF Spec

(* Rows, locks and requests stay well formed.                              *)
THEOREM TokensTypeCorrect == Spec => []TypeOK
BY TokensFit, PTL DEF TokenInv

(* However many requests replay the tokens of a sign-in, one is live.      *)
THEOREM OneWins == Spec => []OneLiveToken
BY TokensFit, PTL DEF TokenInv, ChainsFit

(* A rotation that fails half way burns nothing.                           *)
THEOREM NothingBurned == Spec => []SessionKept
BY TokensFit, PTL DEF TokenInv, ChainsFit

(* What each step does to the live tokens, the sign-ins and the used ones. *)
LEMMA StaysOver ==
  ASSUME TokenInv, [Next]_vars, NEW s \in Tokens, SignedIn(s), LiveOf(s) = {}
  PROVE  LiveOf(s)' = {}
<1>1. CASE ~Writes
  BY <1>1, OthersRead DEF LiveOf, Issued
<1>2. CASE \E h \in Holders, t \in Tokens : SignIn(h, t)
  BY <1>2, SignInChains
<1>3. ASSUME NEW p \in Requests, Commit(p) PROVE LiveOf(s)' = {}
  <2>1. PICK t, u, o : t = job[p].old /\ u = job[p].new /\ o = rows[t].origin
    OBVIOUS
  <2>2. LiveOf(o) = {t} /\ LiveOf(s)' = IF s = o THEN {u} ELSE LiveOf(s)
    BY <1>3, <2>1, CommitChains
  <2> QED BY <2>2
<1>4. ASSUME NEW p \in Requests, RevokeRefreshToken(p), ~rows[job[p].old].revoked
      PROVE  LiveOf(s)' = {}
  <2>1. PICK t, o : t = job[p].old /\ o = rows[t].origin
    OBVIOUS
  <2>2. LiveOf(s)' = IF s = o THEN {} ELSE LiveOf(s)
    BY <1>4, <2>1, RevokeChains
  <2> QED BY <2>2
<1> QED BY <1>1, <1>2, <1>3, <1>4 DEF Writes

(* A sign-in whose last token was revoked is not brought back.             *)
THEOREM LogoutFinal == Spec => LogoutIsFinal
<1>1. TokenInv /\ [Next]_vars =>
        [\A s \in Tokens : SignedIn(s) /\ LiveOf(s) = {} => LiveOf(s)' = {}]_vars
  BY StaysOver
<1> QED BY <1>1, TokensFit, PTL DEF Spec, LogoutIsFinal

-----------------------------------------------------------------------------
(* Every behaviour is one of the abstract chains.                          *)

LEMMA CurrentOf ==
  ASSUME NEW s \in Tokens
  PROVE  /\ LiveOf(s) = {} => Current(s) = None
         /\ \A t : LiveOf(s) = {t} => Current(s) = t
         /\ LiveOf(s)' = {} => Current(s)' = None
         /\ \A t : LiveOf(s)' = {t} => Current(s)' = t
         /\ LiveOf(s)' = LiveOf(s) => Current(s)' = Current(s)
<1>1. ASSUME NEW t, LiveOf(s) = {t} PROVE Current(s) = t
  BY <1>1 DEF Current
<1>2. ASSUME NEW t, LiveOf(s)' = {t} PROVE Current(s)' = t
  BY <1>2 DEF Current
<1>3. /\ LiveOf(s) = {} => Current(s) = None
      /\ LiveOf(s)' = {} => Current(s)' = None
  BY DEF Current
<1>4. LiveOf(s)' = LiveOf(s) => Current(s)' = Current(s)
  BY DEF Current
<1> QED BY <1>1, <1>2, <1>3, <1>4

(* A token that was never written is neither live nor used.                *)
LEMMA UnissuedUnused ==
  ASSUME NEW t \in Tokens, ~Issued(t)
  PROVE  Chain!Unused(t)
<1>1. ASSUME NEW s \in Tokens PROVE Current(s) # t
  <2>1. t \notin LiveOf(s) /\ t # None
    BY TokensAssumption DEF LiveOf
  <2> QED BY <2>1 DEF Current
<1> QED BY <1>1 DEF Chain!Unused

LEMMA SignInBegins ==
  ASSUME TokenInv, NEW h \in Holders, NEW t \in Tokens, SignIn(h, t)
  PROVE  Chain!Begin(t, t)
<1>1. /\ LiveOf(t) = {} /\ ~SignedIn(t)
      /\ \A s \in Tokens : LiveOf(s)' = IF s = t THEN {t} ELSE LiveOf(s)
      /\ \A s \in Tokens : SignedIn(s)' <=> SignedIn(s) \/ s = t
  BY SignInChains
<1>2. /\ ~Issued(t) /\ rows'[t] = NewRow(h, t)
      /\ \A u \in Tokens \ {t} : rows'[u] = rows[u]
  BY SignInRows
<1>3. Chain!Unused(t)
  BY <1>2, UnissuedUnused
<1>4. \A s \in Tokens : Current(s)' = IF s = t THEN t ELSE Current(s)
  BY <1>1, CurrentOf
<1>5. {u \in Tokens : Issued(u) /\ rows[u].revoked}'
        = {u \in Tokens : Issued(u) /\ rows[u].revoked}
  BY <1>2 DEF Issued, NewRow
<1>6. {s \in Tokens : SignedIn(s)}' = {s \in Tokens : SignedIn(s)} \cup {t}
  BY <1>1
<1>7. [s \in Tokens |-> Current(s)]' = [[s \in Tokens |-> Current(s)] EXCEPT ![t] = t]
  BY <1>4
<1> QED BY <1>1, <1>3, <1>5, <1>6, <1>7 DEF Chain!Begin

LEMMA CommitReplaces ==
  ASSUME TokenInv, NEW p \in Requests, Commit(p)
  PROVE  \E s, u \in Tokens : Chain!Replace(s, u)
<1>1. PICK t, u, o : t = job[p].old /\ u = job[p].new /\ o = rows[t].origin
  OBVIOUS
<1>2. /\ o \in Tokens /\ LiveOf(o) = {t}
      /\ \A s \in Tokens : LiveOf(s)' = IF s = o THEN {u} ELSE LiveOf(s)
      /\ \A s \in Tokens : SignedIn(s)' <=> SignedIn(s)
  BY <1>1, CommitChains
<1>3. /\ t \in Tokens /\ u \in Tokens /\ t # u /\ Issued(t) /\ ~Issued(u)
      /\ rows'[t] = [rows[t] EXCEPT !.revoked = TRUE]
      /\ ~rows'[u].revoked
      /\ \A x \in Tokens \ {t, u} : rows'[x] = rows[x]
  BY <1>1, CommitRows
<1>4. rows'[t] # None /\ rows'[t].revoked
  BY <1>3, RevokedRow DEF TokenInv
<1>5. Chain!Unused(u)
  BY <1>3, UnissuedUnused
<1>6. Current(o) = t /\ \A s \in Tokens : Current(s)' = IF s = o THEN u ELSE Current(s)
  BY <1>2, CurrentOf
<1>7. {x \in Tokens : Issued(x) /\ rows[x].revoked}'
        = {x \in Tokens : Issued(x) /\ rows[x].revoked} \cup {t}
  BY <1>3, <1>4 DEF Issued
<1>8. {s \in Tokens : SignedIn(s)}' = {s \in Tokens : SignedIn(s)}
  BY <1>2
<1>9. [s \in Tokens |-> Current(s)]' = [[s \in Tokens |-> Current(s)] EXCEPT ![o] = u]
  BY <1>6
<1>10. t # None
  BY <1>3, TokensAssumption
<1>11. Chain!Replace(o, u)
  BY <1>2, <1>5, <1>6, <1>7, <1>8, <1>9, <1>10 DEF Chain!Replace
<1> QED BY <1>2, <1>3, <1>11

LEMMA RevokeEnds ==
  ASSUME TokenInv, NEW p \in Requests, RevokeRefreshToken(p), ~rows[job[p].old].revoked
  PROVE  \E s \in Tokens : Chain!End(s)
<1>1. PICK t, o : t = job[p].old /\ o = rows[t].origin
  OBVIOUS
<1>2. /\ o \in Tokens /\ LiveOf(o) = {t}
      /\ \A s \in Tokens : LiveOf(s)' = IF s = o THEN {} ELSE LiveOf(s)
      /\ \A s \in Tokens : SignedIn(s)' <=> SignedIn(s)
  BY <1>1, RevokeChains
<1>3. /\ t \in Tokens /\ Issued(t)
      /\ rows'[t] = [rows[t] EXCEPT !.revoked = TRUE]
      /\ \A x \in Tokens \ {t} : rows'[x] = rows[x]
  BY <1>1, RevokeRows
<1>4. rows'[t] # None /\ rows'[t].revoked
  BY <1>3, RevokedRow DEF TokenInv
<1>5. Current(o) = t /\ \A s \in Tokens : Current(s)' = IF s = o THEN None ELSE Current(s)
  BY <1>2, CurrentOf
<1>6. {x \in Tokens : Issued(x) /\ rows[x].revoked}'
        = {x \in Tokens : Issued(x) /\ rows[x].revoked} \cup {t}
  BY <1>3, <1>4 DEF Issued
<1>7. {s \in Tokens : SignedIn(s)}' = {s \in Tokens : SignedIn(s)}
  BY <1>2
<1>8. [s \in Tokens |-> Current(s)]' = [[s \in Tokens |-> Current(s)] EXCEPT ![o] = None]
  BY <1>5
<1>9. t # None
  BY <1>3, TokensAssumption
<1>10. Chain!End(o)
  BY <1>2, <1>5, <1>6, <1>7, <1>8, <1>9 DEF Chain!End
<1> QED BY <1>2, <1>10

LEMMA StepChain ==
  ASSUME TokenInv, [Next]_vars
  PROVE  [Chain!Next]_(Chain!vars)
<1>1. CASE ~Writes
  <2>1. rows' = rows
    BY <1>1, OthersRead
  <2>2. \A s \in Tokens : LiveOf(s)' = LiveOf(s) /\ (SignedIn(s)' <=> SignedIn(s))
    BY <2>1 DEF LiveOf, SignedIn, Issued
  <2>3. \A s \in Tokens : Current(s)' = Current(s)
    BY <2>2, CurrentOf
  <2> QED BY <2>1, <2>2, <2>3 DEF Chain!vars, Issued
<1>2. CASE \E h \in Holders, t \in Tokens : SignIn(h, t)
  BY <1>2, SignInBegins DEF Chain!Next
<1>3. CASE \E p \in Requests : Commit(p)
  BY <1>3, CommitReplaces DEF Chain!Next
<1>4. CASE \E p \in Requests : RevokeRefreshToken(p) /\ ~rows[job[p].old].revoked
  BY <1>4, RevokeEnds DEF Chain!Next
<1> QED BY <1>1, <1>2, <1>3, <1>4 DEF Writes

(* Every behaviour of the two tables is one of the abstract chains.        *)
THEOREM TokensAreChains == Spec => IsChain
<1>1. Init => Chain!Init
  <2> SUFFICES ASSUME Init PROVE Chain!Init
    OBVIOUS
  <2>1. \A s \in Tokens : ~Issued(s)
    BY DEF Init, Issued
  <2>2. \A s \in Tokens : ~SignedIn(s) /\ Current(s) = None
    BY <2>1 DEF SignedIn, Current, LiveOf
  <2> QED BY <2>1, <2>2 DEF Chain!Init
<1>2. TokenInv /\ [Next]_vars => [Chain!Next]_(Chain!vars)
  BY StepChain
<1> QED BY <1>1, <1>2, TokensFit, PTL DEF Spec, IsChain, Chain!Spec
-----------------------------------------------------------------------------
(* Whose a token is.  No run states these two: the rotation takes the      *)
(* holder from the row it revokes, and rows are never written otherwise.   *)

(* A row that was issued stays, with its holder, its expiry and its sign-in,*)
(* and is never valid again once revoked.                                  *)
RowStands(t) ==
    Issued(t) => /\ Issued(t)'
                 /\ rows'[t].holder = rows[t].holder
                 /\ rows'[t].expires = rows[t].expires
                 /\ rows'[t].origin = rows[t].origin
                 /\ (rows[t].revoked => rows'[t].revoked)
RowsStand == [][\A t \in Tokens : RowStands(t)]_vars

(* Every token of a sign-in belongs to the one who signed in.              *)
OwnChain == \A t \in Tokens : Issued(t) => rows[t].holder = rows[rows[t].origin].holder

LEMMA StandsWhenRevoked ==
  ASSUME TokenInv, NEW t \in Tokens, Issued(t), rows'[t] = [rows[t] EXCEPT !.revoked = TRUE]
  PROVE  RowStands(t)
<1>1. rows[t] \in Row
  BY RowType DEF TokenInv
<1>2. rows'[t] \in Row /\ rows'[t].expires = rows[t].expires
  BY <1>1 DEF Row
<1>3. rows'[t] # None /\ rows'[t].revoked /\ rows'[t].origin = rows[t].origin
      /\ rows'[t].holder = rows[t].holder
  BY RevokedRow DEF TokenInv
<1> QED BY <1>2, <1>3 DEF RowStands, Issued

LEMMA StepStands ==
  ASSUME TokenInv, [Next]_vars, NEW x \in Tokens
  PROVE  RowStands(x)
<1>0. rows'[x] = rows[x] => RowStands(x)
  BY DEF RowStands, Issued
<1>1. CASE ~Writes
  BY <1>0, <1>1, OthersRead
<1>2. ASSUME NEW h \in Holders, NEW t \in Tokens, SignIn(h, t) PROVE RowStands(x)
  <2>1. ~Issued(t) /\ \A u \in Tokens \ {t} : rows'[u] = rows[u]
    BY <1>2, SignInRows
  <2> QED BY <1>0, <2>1 DEF RowStands
<1>3. ASSUME NEW p \in Requests, Commit(p) PROVE RowStands(x)
  <2>1. PICK t, u : t = job[p].old /\ u = job[p].new
    OBVIOUS
  <2>2. /\ Issued(t) /\ ~Issued(u) /\ rows'[t] = [rows[t] EXCEPT !.revoked = TRUE]
        /\ \A y \in Tokens \ {t, u} : rows'[y] = rows[y]
    BY <1>3, <2>1, CommitRows
  <2>3. CASE x = t
    BY <2>2, <2>3, StandsWhenRevoked
  <2>4. CASE x = u
    BY <2>2, <2>4 DEF RowStands
  <2> QED BY <1>0, <2>2, <2>3, <2>4
<1>4. ASSUME NEW p \in Requests, RevokeRefreshToken(p), ~rows[job[p].old].revoked
      PROVE  RowStands(x)
  <2>1. PICK t : t = job[p].old
    OBVIOUS
  <2>2. /\ Issued(t) /\ rows'[t] = [rows[t] EXCEPT !.revoked = TRUE]
        /\ \A y \in Tokens \ {t} : rows'[y] = rows[y]
    BY <1>4, <2>1, RevokeRows
  <2>3. CASE x = t
    BY <2>2, <2>3, StandsWhenRevoked
  <2> QED BY <1>0, <2>2, <2>3
<1> QED BY <1>1, <1>2, <1>3, <1>4 DEF Writes

(* A step writes at most one new row: a sign-in's own, or a rotation's, with *)
(* the holder of the row it replaces.                                      *)
LEMMA NewRowBelongs ==
  ASSUME TokenInv, [Next]_vars, NEW x \in Tokens, rows[x] = None, rows'[x] # None
  PROVE  \/ rows'[x].origin = x
         \/ \E r \in Tokens : /\ Issued(r)
                              /\ rows'[x].holder = rows[r].holder
                              /\ rows'[x].origin = rows[r].origin
<1>0. rows'[x] # rows[x]
  OBVIOUS
<1>1. Writes
  BY <1>0, OthersRead
<1>2. ASSUME NEW h \in Holders, NEW t \in Tokens, SignIn(h, t) PROVE rows'[x].origin = x
  <2>1. rows'[t] = NewRow(h, t) /\ \A u \in Tokens \ {t} : rows'[u] = rows[u]
    BY <1>2, SignInRows
  <2> QED BY <1>0, <2>1 DEF NewRow
<1>3. ASSUME NEW p \in Requests, Commit(p)
      PROVE  \E r \in Tokens : /\ Issued(r)
                               /\ rows'[x].holder = rows[r].holder
                               /\ rows'[x].origin = rows[r].origin
  <2>1. PICK t, u : t = job[p].old /\ u = job[p].new
    OBVIOUS
  <2>2. /\ t \in Tokens /\ Issued(t) /\ ~Issued(u)
        /\ rows'[t] = [rows[t] EXCEPT !.revoked = TRUE]
        /\ rows'[u].origin = rows[t].origin /\ rows'[u].holder = rows[t].holder
        /\ \A y \in Tokens \ {t, u} : rows'[y] = rows[y]
    BY <1>3, <2>1, CommitRows
  <2>3. x = u
    BY <1>0, <2>2 DEF Issued
  <2> QED BY <2>2, <2>3
<1>4. ASSUME NEW p \in Requests, RevokeRefreshToken(p), ~rows[job[p].old].revoked
      PROVE  FALSE
  <2>1. PICK t : t = job[p].old
    OBVIOUS
  <2>2. Issued(t) /\ \A y \in Tokens \ {t} : rows'[y] = rows[y]
    BY <1>4, <2>1, RevokeRows
  <2> QED BY <1>0, <2>2 DEF Issued
<1> QED BY <1>1, <1>2, <1>3, <1>4 DEF Writes

LEMMA OwnKept == ASSUME TokenInv, OwnChain, [Next]_vars PROVE OwnChain'
<1> SUFFICES ASSUME NEW x \in Tokens, rows'[x] # None
             PROVE  rows'[x].holder = rows'[rows'[x].origin].holder
  BY DEF OwnChain, Issued
<1>1. ASSUME NEW t \in Tokens, Issued(t),
             rows'[x].holder = rows[t].holder, rows'[x].origin = rows[t].origin
      PROVE  rows'[x].holder = rows'[rows'[x].origin].holder
  <2>1. PICK o \in Tokens : o = rows[t].origin /\ Issued(o)
    BY <1>1, RowType DEF TokenInv, ChainsFit, Rooted, SignedIn
  <2>2. rows[t].holder = rows[o].holder
    BY <1>1, <2>1 DEF OwnChain
  <2>3. rows'[o].holder = rows[o].holder
    BY <2>1, StepStands DEF RowStands
  <2> QED BY <1>1, <2>1, <2>2, <2>3
<1>2. CASE Issued(x)
  <2>1. rows'[x].holder = rows[x].holder /\ rows'[x].origin = rows[x].origin
    BY <1>2, StepStands DEF RowStands
  <2> QED BY <1>1, <1>2, <2>1
<1>3. CASE ~Issued(x)
  BY <1>1, <1>3, NewRowBelongs DEF Issued
<1> QED BY <1>2, <1>3

(* A token row is never rewritten: a step may revoke it and nothing else,  *)
(* and what was revoked never becomes valid again.                         *)
THEOREM RowsNeverRewritten == Spec => RowsStand
<1>1. TokenInv /\ [Next]_vars => [\A t \in Tokens : RowStands(t)]_vars
  BY StepStands
<1> QED BY <1>1, TokensFit, PTL DEF Spec, RowsStand

(* However the refreshes of several people interleave, a rotation never    *)
(* hands one of them another's session.                                    *)
THEOREM NobodyElses == Spec => []OwnChain
<1>1. Init => OwnChain
  BY DEF Init, OwnChain, Issued
<1>2. TokenInv /\ OwnChain /\ [Next]_vars => OwnChain'
  BY OwnKept
<1> QED BY <1>1, <1>2, TokensFit, PTL DEF Spec
=============================================================================
