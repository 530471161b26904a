-------------------------- MODULE MCLedgerRequests --------------------------
(* Bounds for LedgerRequests: see the README for why they are enough. *)
EXTENDS LedgerRequests, TLC

Symmetry == Permutations(Txs) \union Permutations(Accounts) \union Permutations(Workers)
=============================================================================
