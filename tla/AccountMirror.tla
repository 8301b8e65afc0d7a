--------------------------- MODULE AccountMirror ---------------------------
(***************************************************************************)
(* One user's IDBI account mirror: internal/service/idbiaccounts over      *)
(* internal/repository/idbi_repo.go.  The bank's account list is copied    *)
(* into idbi_accounts (Refresh), served through a TTL cache (List) and     *)
(* dropped with the link that authorised it (Revoke).  Callers run         *)
(* concurrently; List may start one background Refresh.  Transactions are  *)
(* READ COMMITTED: a DELETE picks its rows from what is committed when it  *)
(* starts, a written row stays locked to the end of its transaction.       *)
(***************************************************************************)
EXTENDS Integers, Sequences, Functions

CONSTANTS
    Accounts,       \* account numbers
    Answers,        \* the lists the bank may answer with
    Callers,        \* concurrent requests
    Background,     \* the background refresh
    TTL,            \* cfg.CacheTTL, in ticks
    Same,           \* a row this transaction has not written
    MaxAnswers,     \* bound: lists the bank hands out
    MaxWrites       \* bound: link changes, refreshes and revocations asked for

ASSUME MirrorAssumption ==
    /\ Answers \subseteq Seq(Accounts)
    /\ Background \notin Callers
    /\ Same \notin Nat
    /\ TTL \in Nat

VARIABLES
    link,           \* idbi_customer_link: "none", "no_cif", "cif"
    mirror,         \* idbi_accounts: the answer each row is from, 0 when absent
    answered,       \* the lists handed out so far
    cache,          \* the entry of the TTL cache
    inflight,       \* the single-flight mark of refreshInBackground
    proc,           \* the local state of each caller and of Background
    writes, revoked \* bound counter; some Revoke has begun

vars == <<link, mirror, answered, cache, inflight, proc, writes, revoked>>
tables == <<link, mirror>>
Processes == Callers \cup {Background}

NoRows == [a \in Accounts |-> 0]
NoEntry == [age |-> TTL + 1, rows |-> NoRows]

(* `answer` is the number of the list being mirrored, `next` the next      *)
(* account to upsert, `targets` the rows still to delete, `write` the      *)
(* uncommitted rows and `rows` what a List has read.                       *)
Idle == [pc |-> "idle", op |-> "none", answer |-> 0, next |-> 1, targets |-> {},
         write |-> [a \in Accounts |-> Same], rows |-> NoRows]

Process ==
    [pc : {"idle", "link", "ask", "upsert", "scan", "delete", "evict", "fill"},
     op : {"none", "refresh", "revoke", "list"},
     answer : Nat, next : Nat, targets : SUBSET Accounts,
     write : [Accounts -> Nat \cup {Same}], rows : [Accounts -> Nat]]

TypeOK ==
    /\ link \in {"none", "no_cif", "cif"}
    /\ mirror \in [Accounts -> 0 .. Len(answered)]
    /\ answered \in Seq(Answers)
    /\ cache \in [age : 0 .. TTL + 1, rows : [Accounts -> 0 .. Len(answered)]]
    /\ inflight \in BOOLEAN /\ revoked \in BOOLEAN
    /\ proc \in [Processes -> Process]
    /\ writes \in Nat

Init ==
    /\ link = "none"
    /\ mirror = NoRows
    /\ answered = << >>
    /\ cache = NoEntry
    /\ inflight = FALSE /\ revoked = FALSE
    /\ proc = [p \in Processes |-> Idle]
    /\ writes = 0
-----------------------------------------------------------------------------
Valid == cache.age <= TTL

Keep(p) == Range(answered[proc[p].answer])

RowFree(p, a) == \A q \in Processes \ {p} : proc[q].write[a] = Same

Step(p, r) == proc' = [proc EXCEPT ![p] = r]

Ask(p) == /\ p \in Callers /\ proc[p].pc = "idle"
          /\ writes < MaxWrites
          /\ writes' = writes + 1

(* The goroutine of a background refresh clears its mark however it ends.  *)
ReleaseAlways(p) == inflight' = (inflight /\ p # Background)
-----------------------------------------------------------------------------
(* SeedLink stores a cifId; ResolveLinkByAccount stores an empty one, over *)
(* whatever was there.                                                     *)
SetLink(p, l) ==
    /\ Ask(p)
    /\ link' = l
    /\ UNCHANGED <<mirror, answered, cache, inflight, proc, revoked>>

BeginRefresh(p) ==
    /\ Ask(p)
    /\ Step(p, [Idle EXCEPT !.pc = "link", !.op = "refresh"])
    /\ UNCHANGED <<tables, answered, cache, inflight, revoked>>

BeginRevoke(p) ==
    /\ Ask(p)
    /\ revoked' = TRUE
    /\ Step(p, [Idle EXCEPT !.pc = "scan", !.op = "revoke"])
    /\ UNCHANGED <<tables, answered, cache, inflight>>

(* Slip: a refresh that fails keeps the single-flight mark.                *)
EndHoldingMark(p) ==
    /\ Step(p, Idle)
    /\ UNCHANGED <<tables, answered, cache, inflight, writes, revoked>>

(* An error return: the transaction, if one is open, is rolled back.       *)
End(p) ==
    /\ Step(p, Idle)
    /\ ReleaseAlways(p)
    /\ UNCHANGED <<tables, answered, cache, writes, revoked>>

(* Refresh: the link, without which or without its cifId there is no call. *)
GetLink(p) ==
    /\ proc[p].pc = "link"
    /\ IF link = "cif"
       THEN /\ Step(p, [proc[p] EXCEPT !.pc = "ask"])
            /\ UNCHANGED <<tables, answered, cache, inflight, writes, revoked>>
       ELSE End(p)

(* Refresh: the bank's list, details included.                             *)
Answer(p) ==
    /\ proc[p].pc = "ask"
    /\ IF Len(answered) < MaxAnswers
       THEN \E list \in Answers :
              /\ answered' = Append(answered, list)
              /\ Step(p, [proc[p] EXCEPT !.answer = Len(answered) + 1,
                                         !.pc = IF list = << >> THEN "scan" ELSE "upsert"])
              /\ UNCHANGED <<tables, cache, inflight, writes, revoked>>
       ELSE End(p)

(* Slip: pruning starts before the accounts have been upserted.            *)
UpsertSkipped(p) ==
    LET me == proc[p] IN
    /\ me.pc = "upsert"
    /\ RowFree(p, answered[me.answer][me.next])
    /\ Step(p, [me EXCEPT !.pc = "scan",
                          !.write[answered[me.answer][me.next]] = me.answer])
    /\ UNCHANGED <<tables, answered, cache, inflight, writes, revoked>>

(* ReplaceAccounts: one upsert, which waits for the row and keeps it.      *)
Upsert(p) ==
    LET me == proc[p]
        list == answered[me.answer]
    IN
    /\ me.pc = "upsert"
    /\ RowFree(p, list[me.next])
    /\ Step(p, [me EXCEPT !.write[list[me.next]] = me.answer,
                          !.next = @ + 1,
                          !.pc = IF me.next = Len(list) THEN "scan" ELSE "upsert"])
    /\ UNCHANGED <<tables, answered, cache, inflight, writes, revoked>>

(* DELETE picks its rows: for a Refresh those the list no longer has, for  *)
(* a Revoke all.                                                           *)
Scan(p) ==
    LET kept == IF proc[p].op = "refresh" THEN Keep(p) ELSE {} IN
    /\ proc[p].pc = "scan"
    /\ Step(p, [proc[p] EXCEPT !.pc = "delete",
                               !.targets = {a \in Accounts \ kept : mirror[a] # 0}])
    /\ UNCHANGED <<tables, answered, cache, inflight, writes, revoked>>

DeleteRow(p) ==
    /\ proc[p].pc = "delete"
    /\ \E a \in proc[p].targets :
         /\ RowFree(p, a)
         /\ Step(p, [proc[p] EXCEPT !.write[a] = 0, !.targets = @ \ {a}])
    /\ UNCHANGED <<tables, answered, cache, inflight, writes, revoked>>

(* Slip: the commit replaces the rows it has not written as well.          *)
CommitBlank(p) ==
    /\ proc[p].pc = "delete"
    /\ proc[p].targets = {}
    /\ mirror' = proc[p].write
    /\ link' = IF proc[p].op = "revoke" THEN "none" ELSE link
    /\ Step(p, [Idle EXCEPT !.pc = "evict", !.op = proc[p].op])
    /\ UNCHANGED <<answered, cache, inflight, writes, revoked>>

(* COMMIT; a Revoke has deleted the link too.                              *)
Commit(p) ==
    /\ proc[p].pc = "delete"
    /\ proc[p].targets = {}
    /\ mirror' = [a \in Accounts |-> IF proc[p].write[a] = Same
                                     THEN mirror[a] ELSE proc[p].write[a]]
    /\ link' = IF proc[p].op = "revoke" THEN "none" ELSE link
    /\ Step(p, [Idle EXCEPT !.pc = "evict", !.op = proc[p].op])
    /\ UNCHANGED <<answered, cache, inflight, writes, revoked>>

(* The cached list is dropped after the commit, and the call returns.      *)
Evict(p) ==
    /\ proc[p].pc = "evict"
    /\ cache' = NoEntry
    /\ Step(p, Idle)
    /\ ReleaseAlways(p)
    /\ UNCHANGED <<tables, answered, writes, revoked>>
-----------------------------------------------------------------------------
(* Slip: a hit renews the entry.                                           *)
ListHitRenewing(p) ==
    /\ p \in Callers /\ proc[p].pc = "idle"
    /\ Valid
    /\ cache' = [cache EXCEPT !.age = 0]
    /\ UNCHANGED <<tables, answered, inflight, proc, writes, revoked>>

(* List: served from the cache, ...                                        *)
ListHit(p) ==
    /\ p \in Callers /\ proc[p].pc = "idle"
    /\ Valid
    /\ UNCHANGED vars

(* ... or from the table; an entry that is over is deleted, ...            *)
ListMiss(p) ==
    /\ p \in Callers /\ proc[p].pc = "idle"
    /\ ~ Valid
    /\ cache' = NoEntry
    /\ Step(p, [Idle EXCEPT !.pc = "fill", !.op = "list", !.rows = mirror])
    /\ UNCHANGED <<tables, answered, inflight, writes, revoked>>

(* Slip: the mark is looked at, but not set.                               *)
FillUnmarked(p) ==
    /\ proc[p].pc = "fill"
    /\ cache' = [age |-> 0, rows |-> proc[p].rows]
    /\ IF ~ inflight
       THEN proc' = [proc EXCEPT ![p] = Idle,
              ![Background] = [Idle EXCEPT !.pc = "link", !.op = "refresh"]]
       ELSE Step(p, Idle)
    /\ UNCHANGED <<tables, answered, inflight, writes, revoked>>

(* ... and then cached; rows that are missing, or found old, start a       *)
(* background refresh unless one is running.                               *)
Fill(p) ==
    /\ proc[p].pc = "fill"
    /\ cache' = [age |-> 0, rows |-> proc[p].rows]
    /\ \E refresh \in BOOLEAN :
         /\ proc[p].rows = NoRows => refresh
         /\ IF refresh /\ ~ inflight
            THEN /\ inflight' = TRUE
                 /\ proc' = [proc EXCEPT ![p] = Idle,
                      ![Background] = [Idle EXCEPT !.pc = "link", !.op = "refresh"]]
            ELSE /\ Step(p, Idle)
                 /\ UNCHANGED inflight
    /\ UNCHANGED <<tables, answered, writes, revoked>>

Tick ==
    /\ Valid
    /\ cache' = [cache EXCEPT !.age = @ + 1]
    /\ UNCHANGED <<tables, answered, inflight, proc, writes, revoked>>

(* The bank or a statement fails, Postgres picks p as a deadlock victim,   *)
(* or the call's context is over.                                          *)
Fail(p) == proc[p].pc \notin {"idle", "evict", "fill"} /\ End(p)

(* The server dies and comes back: what was in flight is rolled back, the  *)
(* cache and the marks were only in memory.                                *)
Restart ==
    /\ proc' = [p \in Processes |-> Idle]
    /\ cache' = NoEntry
    /\ inflight' = FALSE
    /\ UNCHANGED <<tables, answered, writes, revoked>>
-----------------------------------------------------------------------------
Advance(p) ==
    \/ GetLink(p) \/ Answer(p) \/ Upsert(p) \/ Scan(p) \/ DeleteRow(p) \/ Commit(p)
    \/ Evict(p) \/ Fill(p)

Next ==
    \/ \E p \in Callers :
         \/ SetLink(p, "cif") \/ SetLink(p, "no_cif")
         \/ BeginRefresh(p) \/ BeginRevoke(p) \/ ListHit(p) \/ ListMiss(p)
    \/ \E p \in Processes : Advance(p) \/ Fail(p)
    \/ Tick \/ Restart

(* Time passes, goroutines run, and a background refresh has 45 seconds.   *)
Fairness ==
    /\ WF_vars(Tick)
    /\ \A p \in Processes : WF_vars(Advance(p))
    /\ WF_vars(Fail(Background))

Spec == Init /\ [][Next]_vars /\ Fairness
-----------------------------------------------------------------------------
(* Properties.                                                             *)

(* The rows that answer n stands for, 0 being "no answer yet".             *)
Image(n) ==
    [a \in Accounts |-> IF n > 0 /\ a \in Range(answered[n]) THEN n ELSE 0]

Apart(m, n) == Range(answered[m]) \cap Range(answered[n]) = {}

(* Rows of two answers of the bank stand side by side in the mirror only   *)
(* if these answers have no account in common, however refreshes and       *)
(* revocations race: of two transactions that upsert one account the later *)
(* sees, and prunes, what the earlier has committed.                       *)
MixedAreApart ==
    \A a, b \in Accounts :
        mirror[a] # 0 /\ mirror[b] # 0 /\ mirror[a] # mirror[b] =>
            Apart(mirror[a], mirror[b])

(* However refreshes race, the mirror is exactly one of the bank's lists,  *)
(* whole and unmixed, as long as no two of the lists it has handed out are *)
(* without a common account (an empty list has none with any).             *)
MirrorIsOneAnswer ==
    ~ revoked /\ (\A m, n \in DOMAIN answered : ~ Apart(m, n)) =>
        \E n \in 0 .. Len(answered) : mirror = Image(n)

(* "evicts the in-process cache entry so the next List() call reflects the *)
(* change immediately instead of serving the old []Account for up to       *)
(* CacheTTL" (service.go:129-131): once a Revoke has emptied the tables    *)
(* and returned, no List is served accounts from the cache.                *)
RevokeIsSeen ==
    revoked /\ link = "none" /\ mirror = NoRows
      /\ (\A p \in Processes : proc[p].op # "revoke") =>
        (Valid => cache.rows = NoRows)

(* What a List that lost the race with a Refresh or a Revoke has cached is *)
(* served for the TTL, and no longer: a hit does not renew the entry, so   *)
(* once the writes are over the cache agrees with the table for good.      *)
CacheCatchesUp == <>[](Valid => cache.rows = mirror)

(* Single flight: the mark is set exactly while a background refresh runs, *)
(* so a List never starts a second one beside it, whichever way the first  *)
(* came to its end.                                                        *)
SingleFlight == inflight <=> proc[Background].pc # "idle"

(* The single-flight mark is always given back, whatever the refresh met.  *)
RefreshMarkReturned == inflight ~> ~ inflight

(* "so a stale mirror can never outlive the link that authorized it"       *)
(* (idbi_repo.go:102-104).                                                 *)
MirrorNeedsLink == link = "none" => mirror = NoRows
=============================================================================
