------------------------------- MODULE Ledger -------------------------------
(***************************************************************************)
(* What the assignment tables promise (migration 000017): users.           *)
(* assigned_rm_id says who owns a client now, rm_assignment_history is the *)
(* append-only log of how it got there.  One step moves a set of clients,  *)
(* each with one new row whose to_rm_id is the new owner; nothing else     *)
(* ever touches either table.  RMAssignment implements this specification. *)
(* The sequence is the order of the commits; what the table keeps of it is *)
(* created_at, the start of the transaction, which may sort otherwise.     *)
(***************************************************************************)
EXTENDS Sequences

CONSTANTS Users, RMs, Nobody, Actions

VARIABLES owner, history

vars == <<owner, history>>

Row == [from : RMs \cup {Nobody}, to : RMs \cup {Nobody}, action : Actions]

Init ==
    /\ owner = [u \in Users |-> Nobody]
    /\ history = [u \in Users |-> << >>]

(* The clients `moved` change hands in one transaction, row[u] being the   *)
(* history row inserted for u.                                             *)
Move(moved, row) ==
    /\ owner' = [u \in Users |-> IF u \in moved THEN row[u].to ELSE owner[u]]
    /\ history' = [u \in Users |-> IF u \in moved THEN Append(history[u], row[u])
                                                  ELSE history[u]]

Next == \E moved \in SUBSET Users : \E row \in [Users -> Row] : Move(moved, row)

Spec == Init /\ [][Next]_vars
=============================================================================
