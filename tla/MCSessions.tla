---------------------------- MODULE MCSessions ----------------------------
EXTENDS Sessions, TLC

Symmetric == Permutations(Ids) \union Permutations(Tabs)

=============================================================================
