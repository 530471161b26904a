------------------------------- MODULE Ledger -------------------------------
(***************************************************************************)
(* Accounts and transactions of one user as the modules `accounts`,        *)
(* `transactions` and `reconciliation` promise them: one atomic action per *)
(* request handler, requests one after the other.  LedgerRequests opens    *)
(* the handlers up into their database accesses.                           *)
(***************************************************************************)
EXTENDS LedgerData

CONSTANTS
  Openings,     \* opening balances an account can be created with
  EntrySources  \* sources of rows booked through create()

ASSUME OpeningsAssumption == Openings \subseteq Int
ASSUME EntrySourcesAssumption ==
  EntrySources \subseteq {"MANUAL", "DEBT_PAYMENT", "DEBT_CREATION"}

VARIABLES
  accountState, \* account -> "none", "live" or "deleted" (soft delete)
  opening,      \* account -> openingBalanceMinor
  balance,      \* account -> currentBalanceMinor
  tx            \* id -> row of the Transaction table

vars == <<accountState, opening, balance, tx>>
accountVars == <<accountState, opening>>

Init ==
  /\ accountState = [a \in Accounts |-> "none"]
  /\ opening = [a \in Accounts |-> 0]
  /\ balance = [a \in Accounts |-> 0]
  /\ tx = [t \in Txs |-> NoRow]

Fresh(t) == tx[t].state = "none"
AccountLive(a) == accountState[a] = "live"

-----------------------------------------------------------------------------
(* Accounts *)

CreateAccount(a, o) ==
  /\ accountState[a] = "none"
  /\ accountState' = [accountState EXCEPT ![a] = "live"]
  /\ opening' = [opening EXCEPT ![a] = o]
  /\ balance' = [balance EXCEPT ![a] = o]
  /\ UNCHANGED tx

AccountUnused(a) == \A t \in LiveRows(tx) : tx[t].account # a

RemoveAccount(a) ==
  /\ AccountLive(a)
  /\ AccountUnused(a)
  /\ accountState' = [accountState EXCEPT ![a] = "deleted"]
  /\ UNCHANGED <<opening, balance, tx>>

-----------------------------------------------------------------------------
(* Creation. An id that is live is a replay and changes nothing; the id of *)
(* a deleted row is refused by the primary key.                            *)

CreateTx(t, a, type, n, source) ==
  /\ Fresh(t)
  /\ AccountLive(a)
  /\ tx' = [tx EXCEPT ![t] = LiveRow(a, type, n, source, NoTx, NoTx)]
  /\ balance' = adjustBalance(balance, a, balanceDelta(type, n))
  /\ UNCHANGED accountVars

(* feeMinor: the fee line is inserted and debited in the same SQL transaction. *)
CreateTxWithFee(t, f, a, type, n, fee) ==
  /\ Fresh(t) /\ Fresh(f) /\ t # f
  /\ AccountLive(a)
  /\ tx' = [tx EXCEPT ![t] = LiveRow(a, type, n, "MANUAL", NoTx, NoTx),
                      ![f] = FeeRow(a, fee, t)]
  /\ balance' = adjustBalance(adjustBalance(balance, a, balanceDelta(type, n)), a, -fee)
  /\ UNCHANGED accountVars

TransferRows(out, in, from, to, n) ==
  [tx EXCEPT ![out] = LiveRow(from, "EXPENSE", n, "MANUAL", out, NoTx),
             ![in]  = LiveRow(to, "INCOME", n, "MANUAL", out, NoTx)]

TransferBalance(from, to, n) == adjustBalance(adjustBalance(balance, from, -n), to, n)

(* Only the schema of the transfer route tells the accounts apart.  A goal *)
(* contribution calls the service past it, and may name the account the    *)
(* goal is linked to.                                                      *)
Transfer(out, in, from, to, n) ==
  /\ Fresh(out) /\ Fresh(in) /\ out # in
  /\ AccountLive(from) /\ AccountLive(to)
  /\ tx' = TransferRows(out, in, from, to, n)
  /\ balance' = TransferBalance(from, to, n)
  /\ UNCHANGED accountVars

(* The fee of a transfer hangs on the outbound leg and debits its account. *)
TransferWithFee(out, in, f, from, to, n, fee) ==
  /\ Fresh(out) /\ Fresh(in) /\ Fresh(f) /\ out # in /\ f \notin {out, in}
  /\ AccountLive(from) /\ AccountLive(to)
  /\ tx' = [TransferRows(out, in, from, to, n) EXCEPT ![f] = FeeRow(from, fee, out)]
  /\ balance' = adjustBalance(TransferBalance(from, to, n), from, -fee)
  /\ UNCHANGED accountVars

-----------------------------------------------------------------------------
(* Update: transfer legs, debt rows and fee lines are refused. *)

Editable(t) ==
  /\ tx[t].state = "live"
  /\ tx[t].group = NoTx
  /\ tx[t].source \notin {"DEBT_PAYMENT", "DEBT_CREATION", "FEE"}

MovedRow(t, a, n) == [tx[t] EXCEPT !.account = a, !.amount = n]

MovedBalanceAmountOnly(t, a, n) ==
  adjustBalance(balance, a, balanceDelta(tx[t].type, n) - balanceDelta(tx[t].type, tx[t].amount))

MovedBalance(t, a, n) ==
  adjustBalance(adjustBalance(balance, tx[t].account, -balanceDelta(tx[t].type, tx[t].amount)),
                a, balanceDelta(tx[t].type, n))

(* feeMinor omitted, or 0 on a row that has no fee line *)
UpdateTx(t, a, n) ==
  /\ Editable(t)
  /\ AccountLive(a)
  /\ tx' = [tx EXCEPT ![t] = MovedRow(t, a, n)]
  /\ balance' = MovedBalance(t, a, n)
  /\ UNCHANGED accountVars

(* feeMinor 0 or null: the fee line is reversed and deleted *)
UpdateDropFee(t, f, a, n) ==
  /\ Editable(t)
  /\ AccountLive(a)
  /\ f \in feeLinesOf(tx, {t})
  /\ tx' = [tx EXCEPT ![t] = MovedRow(t, a, n), ![f] = deletedRow(tx[f])]
  /\ balance' = adjustBalance(MovedBalance(t, a, n), tx[f].account, tx[f].amount)
  /\ UNCHANGED accountVars

(* feeMinor given and a fee line exists: it follows the parent's account *)
UpdateChangeFee(t, f, a, n, fee) ==
  /\ Editable(t)
  /\ AccountLive(a)
  /\ f \in feeLinesOf(tx, {t})
  /\ tx' = [tx EXCEPT ![t] = MovedRow(t, a, n), ![f] = MovedRow(f, a, fee)]
  /\ balance' = adjustBalance(adjustBalance(MovedBalance(t, a, n), tx[f].account, tx[f].amount),
                              a, -fee)
  /\ UNCHANGED accountVars

(* feeMinor given and there is none: a fee line is created, unless the      *)
(* unique index on feeForTransactionId refuses it and the update fails.     *)
UpdateAddFee(t, f, a, n, fee) ==
  /\ Editable(t)
  /\ AccountLive(a)
  /\ Fresh(f) /\ f # t
  /\ FeeSlotFree(tx, t)
  /\ tx' = [tx EXCEPT ![t] = MovedRow(t, a, n), ![f] = FeeRow(a, fee, t)]
  /\ balance' = adjustBalance(MovedBalance(t, a, n), a, -fee)
  /\ UNCHANGED accountVars

-----------------------------------------------------------------------------
(* Removal *)

(* A debt row leaves only when its debt payment, or its debt, is deleted. *)
Removable(t, allow) ==
  /\ tx[t].state = "live"
  /\ tx[t].source \notin {"DEBT_PAYMENT", "DEBT_CREATION"} \ {allow}
  /\ tx[t].source # "FEE"

FeesRestored(bal, fees) == [a \in Accounts |-> bal[a] + FeesOn(tx, fees, a)]

feeCascadeForgotten(S) == {}

feeCascade(S) == feeLinesOf(tx, S)

RemoveTx(t, allow) ==
  /\ Removable(t, allow)
  /\ tx[t].group = NoTx
  /\ LET fees == feeCascade({t}) IN
       /\ tx' = softDelete(tx, {t} \union fees)
       /\ balance' = FeesRestored(
            adjustBalance(balance, tx[t].account, -balanceDelta(tx[t].type, tx[t].amount)), fees)
  /\ UNCHANGED accountVars

oneLeg(t) == {t}

transferLegs(t) == legsOf(tx, tx[t].group)

(* removeTransferGroup: both legs, and the fee line of either *)
RemoveTransfer(t) ==
  /\ Removable(t, "none")
  /\ tx[t].group # NoTx
  /\ LET legs == transferLegs(t)
         fees == feeCascade(legs)
     IN  /\ tx' = softDelete(tx, legs \union fees)
         /\ balance' = FeesRestored([a \in Accounts |-> balance[a] - Net(tx, legs, a)], fees)
  /\ UNCHANGED accountVars

-----------------------------------------------------------------------------
(* Reconciliation: the declared balance becomes an ADJUSTMENT row. *)

Reconcile(a, actual, t) ==
  /\ AccountLive(a)
  /\ LET delta == actual - balance[a]
         type  == IF delta > 0 THEN "INCOME" ELSE "EXPENSE"
         n     == IF delta > 0 THEN delta ELSE -delta
     IN  /\ storable(n)   \* a zero difference books nothing
         /\ CreateTx(t, a, type, n, "ADJUSTMENT")

-----------------------------------------------------------------------------
Next ==
  \/ \E a \in Accounts, o \in Openings : CreateAccount(a, o)
  \/ \E a \in Accounts : RemoveAccount(a)
  \/ \E t \in Txs, a \in Accounts, type \in Types, n \in Amounts, s \in EntrySources :
       CreateTx(t, a, type, n, s)
  \/ \E t, f \in Txs, a \in Accounts, type \in Types, n, fee \in Amounts :
       CreateTxWithFee(t, f, a, type, n, fee)
  \/ \E out, in \in Txs, from, to \in Accounts, n \in Amounts : Transfer(out, in, from, to, n)
  \/ \E out, in, f \in Txs, from, to \in Accounts, n, fee \in Amounts :
       TransferWithFee(out, in, f, from, to, n, fee)
  \/ \E t \in Txs, a \in Accounts, n \in Amounts : UpdateTx(t, a, n)
  \/ \E t, f \in Txs, a \in Accounts, n \in Amounts : UpdateDropFee(t, f, a, n)
  \/ \E t, f \in Txs, a \in Accounts, n, fee \in Amounts : UpdateChangeFee(t, f, a, n, fee)
  \/ \E t, f \in Txs, a \in Accounts, n, fee \in Amounts : UpdateAddFee(t, f, a, n, fee)
  \/ \E t \in Txs, allow \in {"none", "DEBT_PAYMENT", "DEBT_CREATION"} : RemoveTx(t, allow)
  \/ \E t \in Txs : RemoveTransfer(t)
  \/ \E a \in Accounts, actual \in Openings, t \in Txs : Reconcile(a, actual, t)

Spec == Init /\ [][Next]_vars

-----------------------------------------------------------------------------
(* Properties *)

(* Every stored value has the shape its column allows. *)
TypeOK ==
  /\ accountState \in [Accounts -> {"none", "live", "deleted"}]
  /\ opening \in [Accounts -> Int]
  /\ balance \in [Accounts -> Int]
  /\ tx \in [Txs -> Row]

(* The recomputation of the nightly drift check. *)
computedMinor(a) == opening[a] + Net(tx, Txs, a)

(* RG-A3, RG-A8: the incrementally maintained balance of every account is  *)
(* its opening balance plus the income minus the expense of its live rows, *)
(* whatever sequence of entries, fees, moves, transfers, removals and      *)
(* reconciliations led there.  It is what the drift check compares.        *)
BalanceDerived == \A a \in Accounts : balance[a] = computedMinor(a)

(* RG-T4: a live leg has exactly one live counterpart: same amount, other  *)
(* direction.  No request leaves half a transfer behind or edits one leg   *)
(* alone.  The accounts of the legs may be one: the service does not       *)
(* compare them (see Transfer).                                            *)
TransferPaired ==
  \A t \in LiveRows(tx) : tx[t].group # NoTx =>
    \E u \in Txs :
      /\ u # t
      /\ legsOf(tx, tx[t].group) = {t, u}
      /\ tx[u].amount = tx[t].amount
      /\ tx[u].type # tx[t].type

(* RG-T11, RG-T14: a live fee line is an expense whose parent is live, is  *)
(* no fee line and no inbound leg, and has no second fee line: no deletion *)
(* or update path orphans a fee or books it twice.                         *)
FeeLineIntegrity ==
  \A f \in LiveRows(tx) : tx[f].source = "FEE" =>
    LET p == tx[f].feeFor IN
      /\ tx[f].type = "EXPENSE" /\ tx[f].group = NoTx
      /\ p \in LiveRows(tx)
      /\ tx[p].source = "MANUAL" \/ tx[p].source = "ADJUSTMENT"
      /\ tx[p].group \in {NoTx, p}
      /\ feeLinesOf(tx, {p}) = {f}

(* RG-A4: an account with live rows is never deleted, and no row is moved  *)
(* or left on a deleted account.                                           *)
RowsOnLiveAccounts == \A t \in LiveRows(tx) : AccountLive(tx[t].account)

=============================================================================
