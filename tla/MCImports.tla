----------------------------- MODULE MCImports -----------------------------
EXTENDS Submissions, TLC

CONSTANTS k1, k2

MCKeys == {k1, k2}

MCFiles == {<<k1, k1, k2>>}

Symmetric == Permutations(Workers) \union Permutations(Pins)

=============================================================================
