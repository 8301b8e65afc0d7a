--------------------------- MODULE MCRefreshTokens ---------------------------
(* Two sign-ins with room for two rotations, two requests at a time.       *)
EXTENDS RefreshTokens, TLC

Symmetry == Permutations(Requests) \cup Permutations(Tokens)
=============================================================================
