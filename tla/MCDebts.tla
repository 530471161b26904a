------------------------------ MODULE MCDebts ------------------------------
(* Bounds for Debts, Amortization, Calendar, Statements and                *)
(* StatementFiles: see the README for why they are enough.                 *)
EXTENDS Amortization, StatementFiles, TLC

Symmetry == Permutations(Payments)

(* The dates and amounts the application takes for granted, in its rules   *)
(* and in the statements it reads.  They have no state: it is asked before *)
(* there is a debt.                                                        *)
DatesAndAmountsHold == debt = NoDebt => DatesHold /\ StatementsRead /\ StatementFilesRead
=============================================================================
