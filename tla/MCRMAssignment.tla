--------------------------- MODULE MCRMAssignment ---------------------------
(***************************************************************************)
(* The assignment ledger on a desk of two: the constants of the runs.      *)
(***************************************************************************)
EXTENDS RMAssignment, TLC

CONSTANTS r1, r2

MCDesk == <<r1, r2>>
MCSymmetry == Permutations(Users) \cup Permutations(Requests)
=============================================================================
