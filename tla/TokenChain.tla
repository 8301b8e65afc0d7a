----------------------------- MODULE TokenChain -----------------------------
(***************************************************************************)
(* What a sign-in promises (handler/auth.go, Refresh): a chain of refresh  *)
(* tokens of which one at a time is live.  Each is used once, for the next *)
(* one, until the chain is ended.  RefreshTokens implements this.          *)
(***************************************************************************)
CONSTANTS Sessions, Tokens, None

VARIABLES
    begun,  \* sessions that were signed in
    live,   \* the live token of each session, or None
    spent   \* tokens that were used or revoked

vars == <<begun, live, spent>>

Unused(t) == t \notin spent /\ \A s \in Sessions : live[s] # t

Init ==
    /\ begun = {}
    /\ live = [s \in Sessions |-> None]
    /\ spent = {}

Begin(s, t) ==
    /\ s \notin begun /\ Unused(t)
    /\ begun' = begun \cup {s}
    /\ live' = [live EXCEPT ![s] = t]
    /\ UNCHANGED spent

Replace(s, t) ==
    /\ live[s] # None /\ Unused(t)
    /\ live' = [live EXCEPT ![s] = t]
    /\ spent' = spent \cup {live[s]}
    /\ UNCHANGED begun

End(s) ==
    /\ live[s] # None
    /\ live' = [live EXCEPT ![s] = None]
    /\ spent' = spent \cup {live[s]}
    /\ UNCHANGED begun

Next == \E s \in Sessions : End(s) \/ \E t \in Tokens : Begin(s, t) \/ Replace(s, t)

Spec == Init /\ [][Next]_vars
=============================================================================
