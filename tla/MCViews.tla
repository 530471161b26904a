------------------------------ MODULE MCViews ------------------------------
EXTENDS Views, TLC

Symmetric == Permutations(Filters) \union Permutations(Records) \union Permutations(Clerks)

=============================================================================
