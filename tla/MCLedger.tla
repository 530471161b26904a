------------------------------ MODULE MCLedger ------------------------------
(* Bounds for Ledger and Reports: see the README for why they are enough. *)
EXTENDS Reports, TLC

MCOpenings == {-1, 2}

Rate(num, den, source, validFrom) ==
  [num |-> num, den |-> den, source |-> source, validFrom |-> validFrom]

MCRates == {{Rate(5, 4, "PROVIDER", 1), Rate(3, 2, "MANUAL", 2)},
            {Rate(3, 2, "MANUAL", 2), Rate(1, 3, "PEGGED", 4)}}

Symmetry == Permutations(Txs) \union Permutations(Accounts)
=============================================================================
