----------------------------- MODULE MCBudgets -----------------------------
EXTENDS Budgets, TLC

Symmetric == Permutations(Entries) \union Permutations(Workers)

=============================================================================
