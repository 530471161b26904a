---------------------------- MODULE MCIdentity ----------------------------
EXTENDS Identity, TLC

Symmetric == Permutations(Emails) \union Permutations(Identities)
               \union Permutations(Tokens) \union Permutations(Workers)

=============================================================================
