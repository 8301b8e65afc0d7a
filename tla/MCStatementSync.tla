-------------------------- MODULE MCStatementSync --------------------------
EXTENDS StatementSync, TLC
Symmetry == Permutations(Syncs) \cup Permutations(Accounts)
=============================================================================
