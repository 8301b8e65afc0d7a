-------------------------- MODULE MCBudgetSession --------------------------
EXTENDS BudgetSession, TLC
MCAllocs == {{}} \cup {{c} : c \in Cats}
Symmetry == Permutations(Procs) \cup Permutations(Cats)
=============================================================================
