----------------------------- MODULE LedgerData -----------------------------
(***************************************************************************)
(* The data every ledger specification shares: the rows of the            *)
(* Transaction table, the balance arithmetic, and the sums the database    *)
(* computes over rows (SUM(amountMinor) GROUP BY type).                     *)
(*                                                                         *)
(* A row's provenance is kept (who created it, the transfer it is a leg    *)
(* of, the parent it is the fee of); its label, category, tags, dates and  *)
(* currency are left out: no balance depends on them.                      *)
(***************************************************************************)
EXTENDS Integers, FiniteSets

CONSTANTS
  Accounts,        \* account ids
  Txs,             \* transaction ids, chosen by the client or drawn by the server
  NoAccount, NoTx, \* the absent references
  MaxAmountMinor   \* largest amount of one row (a BIGINT column in the code)

ASSUME AmountAssumption == MaxAmountMinor \in Nat \ {0}
ASSUME ReferenceAssumption == NoTx \notin Txs /\ NoAccount \notin Accounts
ASSUME FiniteRows == IsFiniteSet(Txs)

Amounts == 1..MaxAmountMinor

(* RG-T1 and the width of the column: what an INSERT of amount n accepts. *)
storable(n) == n \in Amounts

Types == {"EXPENSE", "INCOME"}

(* IMPORT and RECURRENCE rows obey the rules of MANUAL ones. *)
Sources == {"MANUAL", "ADJUSTMENT", "DEBT_PAYMENT", "DEBT_CREATION", "FEE"}

Row == [state   : {"none", "live", "deleted"},
        account : Accounts \union {NoAccount},
        type    : Types,
        amount  : 0..MaxAmountMinor,
        source  : Sources,
        group   : Txs \union {NoTx},   \* transferGroupId, named by its outbound leg
        feeFor  : Txs \union {NoTx}]   \* feeForTransactionId

NoRow == [state |-> "none", account |-> NoAccount, type |-> "EXPENSE", amount |-> 0,
          source |-> "MANUAL", group |-> NoTx, feeFor |-> NoTx]

LiveRow(a, type, n, source, group, feeFor) ==
  [state |-> "live", account |-> a, type |-> type, amount |-> n,
   source |-> source, group |-> group, feeFor |-> feeFor]

FeeRow(a, n, parent) == LiveRow(a, "EXPENSE", n, "FEE", NoTx, parent)

-----------------------------------------------------------------------------
(* Signed effect of a row, and the increment the code applies for it. *)

balanceDelta(type, n) == IF type = "INCOME" THEN n ELSE -n

adjustBalance(bal, a, delta) == [bal EXCEPT ![a] = @ + delta]

-----------------------------------------------------------------------------
(* Queries. Every read of a soft-delete model filters deletedAt = null. *)

LiveRows(rows) == {t \in Txs : rows[t].state = "live"}

legsOf(rows, g) == {t \in LiveRows(rows) : rows[t].group = g}

feeLinesOf(rows, S) == {t \in LiveRows(rows) : rows[t].feeFor \in S}

(* A feeForTransactionId is unique over the whole table, deleted rows included. *)
FeeSlotFree(rows, t) == \A f \in Txs : rows[f].feeFor # t

deletedRow(row) == [row EXCEPT !.state = "deleted"]

softDelete(rows, S) == [t \in Txs |-> IF t \in S THEN deletedRow(rows[t]) ELSE rows[t]]

-----------------------------------------------------------------------------
(* SUM(amountMinor) over a set of rows, without recursion: the number of   *)
(* (row, minor unit) pairs.                                                *)

Units(rows, S) == {u \in S \X (1..MaxAmountMinor) : u[2] <= rows[u[1]].amount}

Total(rows, S) == Cardinality(Units(rows, S))

OnAccount(rows, S, a, type) ==
  {t \in S : rows[t].state = "live" /\ rows[t].account = a /\ rows[t].type = type}

(* Income minus expense of the rows of S on account a. *)
Net(rows, S, a) ==
  Total(rows, OnAccount(rows, S, a, "INCOME")) - Total(rows, OnAccount(rows, S, a, "EXPENSE"))

(* What reverting the fee lines of S one by one adds to account a. *)
FeesOn(rows, S, a) == Total(rows, {f \in S : rows[f].account = a})

=============================================================================
