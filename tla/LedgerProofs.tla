---------------------------- MODULE LedgerProofs ----------------------------
(***************************************************************************)
(* Proofs about Ledger, LedgerRequests and Reports, for any finite set of  *)
(* transaction ids, any accounts, amounts, currencies and rates.           *)
(*                                                                         *)
(* The sums are cardinalities of sets of (row, minor unit) pairs, so the   *)
(* balance argument needs no induction: when the rows of a set S change,   *)
(* the sum over all rows changes by what it changes over S (NetChange),    *)
(* and the sum over one row is that row's effect (NetOfOne).               *)
(***************************************************************************)
EXTENDS LedgerRequests, Reports, FiniteSetTheorems, WellFoundedInduction, TLAPS

(* What row r adds to the recomputed balance of account a. *)
Effect(r, a) ==
  IF r.state = "live" /\ r.account = a THEN balanceDelta(r.type, r.amount) ELSE 0

-----------------------------------------------------------------------------
(* Lemmas on the sums *)

(* A sum over rows is a natural number. *)
LEMMA TotalNat ==
  ASSUME NEW rows, NEW S \in SUBSET Txs
  PROVE  IsFiniteSet(Units(rows, S)) /\ Total(rows, S) \in Nat
<1>1. IsFiniteSet(S)
  BY FiniteRows, FS_Subset
<1>2. IsFiniteSet(1..MaxAmountMinor)
  BY AmountAssumption, FS_Interval
<1>3. IsFiniteSet(S \X (1..MaxAmountMinor))
  BY <1>1, <1>2, FS_Product
<1>4. Units(rows, S) \in SUBSET (S \X (1..MaxAmountMinor))
  BY DEF Units
<1>5. IsFiniteSet(Units(rows, S))
  BY <1>3, <1>4, FS_Subset
<1>. QED
  BY <1>5, FS_CardinalityType DEF Total

(* Sums over disjoint sets of rows add up. *)
LEMMA TotalUnion ==
  ASSUME NEW rows, NEW S \in SUBSET Txs, NEW T \in SUBSET Txs, S \cap T = {}
  PROVE  Total(rows, S \union T) = Total(rows, S) + Total(rows, T)
<1>1. Units(rows, S \union T) = Units(rows, S) \union Units(rows, T)
  BY DEF Units
<1>2. Units(rows, S) \cap Units(rows, T) = {}
  BY DEF Units
<1>3. Cardinality(Units(rows, S) \cap Units(rows, T)) = 0
  BY <1>2, FS_EmptySet
<1>4. IsFiniteSet(Units(rows, S)) /\ IsFiniteSet(Units(rows, T))
  BY TotalNat
<1>5. Cardinality(Units(rows, S)) \in Nat /\ Cardinality(Units(rows, T)) \in Nat
  BY <1>4, FS_CardinalityType
<1>6. Cardinality(Units(rows, S) \union Units(rows, T))
        = Cardinality(Units(rows, S)) + Cardinality(Units(rows, T))
          - Cardinality(Units(rows, S) \cap Units(rows, T))
  BY <1>4, FS_Union
<1>7. Cardinality(Units(rows, S) \union Units(rows, T))
        = Cardinality(Units(rows, S)) + Cardinality(Units(rows, T))
  BY <1>3, <1>5, <1>6
<1>. QED
  BY <1>1, <1>7 DEF Total

(* A sum depends on the amounts of its rows only. *)
LEMMA TotalSame ==
  ASSUME NEW rows, NEW rows2, NEW S \in SUBSET Txs,
         \A t \in S : rows2[t].amount = rows[t].amount
  PROVE  Total(rows2, S) = Total(rows, S)
<1>1. Units(rows2, S) = Units(rows, S)
  BY DEF Units
<1>. QED
  BY <1>1 DEF Total

(* The sum over one row is its amount. *)
LEMMA TotalOfOne ==
  ASSUME NEW rows, NEW t \in Txs, rows[t].amount \in 0..MaxAmountMinor
  PROVE  Total(rows, {t}) = rows[t].amount
<1>. DEFINE n == rows[t].amount
<1>1. n \in Nat /\ n <= MaxAmountMinor
  BY AmountAssumption
<1>2. Units(rows, {t}) = {t} \X (1..n)
  BY <1>1, AmountAssumption DEF Units
<1>3. IsFiniteSet({t}) /\ Cardinality({t}) = 1
  BY FS_Singleton
<1>4. IsFiniteSet(1..n) /\ Cardinality(1..n) = n
  <2>. HIDE DEF n
  <2>1. /\ IsFiniteSet(1..n)
        /\ Cardinality(1..n) = IF 1 > n THEN 0 ELSE n - 1 + 1
    BY <1>1, FS_Interval
  <2>. QED
    BY <1>1, <2>1
<1>5. Cardinality({t} \X (1..n)) = Cardinality({t}) * Cardinality(1..n)
  BY <1>3, <1>4, FS_Product
<1>6. Cardinality({t} \X (1..n)) = n
  <2>. HIDE DEF n
  <2>. QED
    BY <1>1, <1>3, <1>4, <1>5
<1>. QED
  BY <1>2, <1>6 DEF Total

(* The sum over no row is zero. *)
LEMMA TotalOfNone == ASSUME NEW rows PROVE Total(rows, {}) = 0
<1>1. Units(rows, {}) = {}
  BY DEF Units
<1>. QED
  BY <1>1, FS_EmptySet DEF Total

(* A net sum is an integer. *)
LEMMA NetInt ==
  ASSUME NEW rows, NEW S \in SUBSET Txs, NEW a
  PROVE  Net(rows, S, a) \in Int
<1>1. /\ OnAccount(rows, S, a, "INCOME") \in SUBSET Txs
      /\ OnAccount(rows, S, a, "EXPENSE") \in SUBSET Txs
  BY DEF OnAccount
<1>. QED
  BY <1>1, TotalNat DEF Net

(* Net sums over disjoint sets of rows add up. *)
LEMMA NetUnion ==
  ASSUME NEW rows, NEW S \in SUBSET Txs, NEW T \in SUBSET Txs, S \cap T = {}, NEW a
  PROVE  Net(rows, S \union T, a) = Net(rows, S, a) + Net(rows, T, a)
<1>1. ASSUME NEW type
      PROVE  /\ Total(rows, OnAccount(rows, S \union T, a, type))
                  = Total(rows, OnAccount(rows, S, a, type))
                    + Total(rows, OnAccount(rows, T, a, type))
             /\ Total(rows, OnAccount(rows, S, a, type)) \in Nat
             /\ Total(rows, OnAccount(rows, T, a, type)) \in Nat
  <2>1. /\ OnAccount(rows, S, a, type) \in SUBSET Txs
        /\ OnAccount(rows, T, a, type) \in SUBSET Txs
        /\ OnAccount(rows, S, a, type) \cap OnAccount(rows, T, a, type) = {}
    BY DEF OnAccount
  <2>2. OnAccount(rows, S \union T, a, type)
          = OnAccount(rows, S, a, type) \union OnAccount(rows, T, a, type)
    BY DEF OnAccount
  <2>3. Total(rows, OnAccount(rows, S, a, type) \union OnAccount(rows, T, a, type))
          = Total(rows, OnAccount(rows, S, a, type)) + Total(rows, OnAccount(rows, T, a, type))
    BY <2>1, TotalUnion
  <2>4. /\ Total(rows, OnAccount(rows, S, a, type)) \in Nat
        /\ Total(rows, OnAccount(rows, T, a, type)) \in Nat
    BY <2>1, TotalNat
  <2>. QED
    BY <2>2, <2>3, <2>4
<1>. DEFINE in(U) == Total(rows, OnAccount(rows, U, a, "INCOME"))
            ex(U) == Total(rows, OnAccount(rows, U, a, "EXPENSE"))
<1>2. /\ in(S \union T) = in(S) + in(T) /\ in(S) \in Nat /\ in(T) \in Nat
      /\ ex(S \union T) = ex(S) + ex(T) /\ ex(S) \in Nat /\ ex(T) \in Nat
  BY <1>1
<1>3. \A U : Net(rows, U, a) = in(U) - ex(U)
  BY DEF Net
<1>. HIDE DEF in, ex
<1>. QED
  BY <1>2, <1>3

(* A net sum depends on its rows only. *)
LEMMA NetSame ==
  ASSUME NEW rows, NEW rows2, NEW S \in SUBSET Txs, NEW a,
         \A t \in S : rows2[t] = rows[t]
  PROVE  Net(rows2, S, a) = Net(rows, S, a)
<1>1. ASSUME NEW type
      PROVE  Total(rows2, OnAccount(rows2, S, a, type)) = Total(rows, OnAccount(rows, S, a, type))
  <2>1. OnAccount(rows2, S, a, type) = OnAccount(rows, S, a, type)
    BY DEF OnAccount
  <2>2. OnAccount(rows, S, a, type) \in SUBSET Txs
    BY DEF OnAccount
  <2>3. \A t \in OnAccount(rows, S, a, type) : rows2[t].amount = rows[t].amount
    BY DEF OnAccount
  <2>. QED
    BY <2>1, <2>2, <2>3, TotalSame
<1>. QED
  BY <1>1 DEF Net

(* When only rows of S change, the net sum over all rows changes by what   *)
(* it changes over S.                                                      *)
LEMMA NetChange ==
  ASSUME NEW rows, NEW rows2, NEW S \in SUBSET Txs, NEW a,
         \A t \in Txs \ S : rows2[t] = rows[t]
  PROVE  Net(rows2, Txs, a) = Net(rows, Txs, a) - Net(rows, S, a) + Net(rows2, S, a)
<1>. DEFINE Rest == Txs \ S
<1>1. Rest \in SUBSET Txs /\ Rest \cap S = {} /\ Rest \union S = Txs
  OBVIOUS
<1>2. Net(rows, Txs, a) = Net(rows, Rest, a) + Net(rows, S, a)
  BY <1>1, NetUnion
<1>3. Net(rows2, Txs, a) = Net(rows2, Rest, a) + Net(rows2, S, a)
  BY <1>1, NetUnion
<1>4. Net(rows2, Rest, a) = Net(rows, Rest, a)
  BY <1>1, NetSame
<1>5. /\ Net(rows, Rest, a) \in Int /\ Net(rows, S, a) \in Int
      /\ Net(rows2, S, a) \in Int
  BY <1>1, NetInt
<1>. QED
  BY <1>2, <1>3, <1>4, <1>5

(* The net sum over one row is its effect. *)
LEMMA NetOfOne ==
  ASSUME NEW rows, NEW t \in Txs, rows[t] \in Row, NEW a
  PROVE  Net(rows, {t}, a) = Effect(rows[t], a) /\ Effect(rows[t], a) \in Int
<1>. DEFINE on(type) == OnAccount(rows, {t}, a, type)
<1>1. /\ rows[t].amount \in 0..MaxAmountMinor
      /\ rows[t].amount \in Int
      /\ rows[t].type = "INCOME" \/ rows[t].type = "EXPENSE"
  BY AmountAssumption DEF Row, Types
<1>2. Total(rows, {t}) = rows[t].amount
  BY <1>1, TotalOfOne
<1>3. Total(rows, {}) = 0
  BY TotalOfNone
<1>4. ASSUME NEW type
      PROVE  OnAccount(rows, {t}, a, type)
               = IF rows[t].state = "live" /\ rows[t].account = a /\ rows[t].type = type
                 THEN {t} ELSE {}
  BY DEF OnAccount
<1>5. Total(rows, on("INCOME")) = IF rows[t].state = "live" /\ rows[t].account = a
                                     /\ rows[t].type = "INCOME" THEN rows[t].amount ELSE 0
  BY <1>2, <1>3, <1>4
<1>6. Total(rows, on("EXPENSE")) = IF rows[t].state = "live" /\ rows[t].account = a
                                      /\ rows[t].type = "EXPENSE" THEN rows[t].amount ELSE 0
  BY <1>2, <1>3, <1>4
<1>7. Net(rows, {t}, a) = Total(rows, on("INCOME")) - Total(rows, on("EXPENSE"))
  BY DEF Net
<1>. QED
  BY <1>1, <1>5, <1>6, <1>7 DEF Effect, balanceDelta

(* A set without live rows nets to zero. *)
LEMMA NetOfDead ==
  ASSUME NEW rows, NEW S, NEW a, \A t \in S : rows[t].state # "live"
  PROVE  Net(rows, S, a) = 0
<1>1. OnAccount(rows, S, a, "INCOME") = {} /\ OnAccount(rows, S, a, "EXPENSE") = {}
  BY DEF OnAccount
<1>2. Total(rows, {}) = 0
  BY TotalOfNone
<1>3. Net(rows, S, a) = Total(rows, {}) - Total(rows, {})
  BY <1>1 DEF Net
<1>. QED
  BY <1>2, <1>3

(* A set of live expenses nets to minus their total, what reverting fee    *)
(* lines gives back.                                                       *)
LEMMA NetOfExpenses ==
  ASSUME NEW rows, NEW S \in SUBSET Txs, NEW a,
         \A t \in S : rows[t].state = "live" /\ rows[t].type = "EXPENSE"
  PROVE  Net(rows, S, a) = -FeesOn(rows, S, a) /\ FeesOn(rows, S, a) \in Int
<1>. DEFINE fees == {f \in S : rows[f].account = a}
<1>1. OnAccount(rows, S, a, "INCOME") = {} /\ OnAccount(rows, S, a, "EXPENSE") = fees
  BY DEF OnAccount
<1>2. fees \in SUBSET Txs
  OBVIOUS
<1>3. Total(rows, fees) \in Nat
  BY <1>2, TotalNat
<1>4. Total(rows, {}) = 0
  BY TotalOfNone
<1>5. Net(rows, S, a) = Total(rows, {}) - Total(rows, fees)
  BY <1>1 DEF Net
<1>6. FeesOn(rows, S, a) = Total(rows, fees)
  BY DEF FeesOn
<1>. HIDE DEF fees
<1>. QED
  BY <1>3, <1>4, <1>5, <1>6
-----------------------------------------------------------------------------
(* Type correctness *)

LEMMA DeltaInt ==
  ASSUME NEW type, NEW n \in Int
  PROVE  balanceDelta(type, n) \in Int /\ -balanceDelta(type, n) \in Int
BY DEF balanceDelta

LEMMA AdjustType ==
  ASSUME NEW bal \in [Accounts -> Int], NEW a \in Accounts, NEW d \in Int
  PROVE  adjustBalance(bal, a, d) \in [Accounts -> Int]
BY DEF adjustBalance

LEMMA FeesRestoredType ==
  ASSUME NEW bal \in [Accounts -> Int], NEW S \in SUBSET Txs
  PROVE  FeesRestored(bal, S) \in [Accounts -> Int]
<1>1. ASSUME NEW a \in Accounts PROVE FeesOn(tx, S, a) \in Int
  BY TotalNat, {f \in S : tx[f].account = a} \in SUBSET Txs DEF FeesOn
<1>. QED
  BY <1>1 DEF FeesRestored

LEMMA AmountsInt == Amounts \subseteq 0..MaxAmountMinor /\ 0..MaxAmountMinor \subseteq Int
BY AmountAssumption DEF Amounts

LEMMA LiveRowType ==
  ASSUME NEW a \in Accounts, NEW type \in Types, NEW n \in Amounts, NEW source \in Sources,
         NEW group \in Txs \union {NoTx}, NEW feeFor \in Txs \union {NoTx}
  PROVE  LiveRow(a, type, n, source, group, feeFor) \in Row
BY AmountsInt DEF LiveRow, Row

LEMMA FeeRowType ==
  ASSUME NEW a \in Accounts, NEW n \in Amounts, NEW p \in Txs
  PROVE  FeeRow(a, n, p) \in Row
BY LiveRowType DEF FeeRow, Types, Sources

LEMMA MovedRowType ==
  ASSUME TypeOK, NEW t \in Txs, NEW a \in Accounts, NEW n \in Amounts
  PROVE  MovedRow(t, a, n) \in Row
BY AmountsInt DEF MovedRow, TypeOK, Row

LEMMA MovedBalanceType ==
  ASSUME TypeOK, NEW t \in Txs, tx[t].account \in Accounts, NEW a \in Accounts, NEW n \in Amounts
  PROVE  MovedBalance(t, a, n) \in [Accounts -> Int]
<1>1. tx[t].amount \in Int /\ n \in Int
  BY AmountsInt DEF TypeOK, Row
<1>2. balance \in [Accounts -> Int]
  BY DEF TypeOK
<1>. DEFINE d == -balanceDelta(tx[t].type, tx[t].amount)
            e == balanceDelta(tx[t].type, n)
<1>3. d \in Int /\ e \in Int
  BY <1>1, DeltaInt
<1>. HIDE DEF d, e
<1>4. adjustBalance(adjustBalance(balance, tx[t].account, d), a, e) \in [Accounts -> Int]
  BY <1>2, <1>3, AdjustType
<1>. QED
  BY <1>4 DEF MovedBalance, d, e

LEMMA SoftDeleteType ==
  ASSUME TypeOK, NEW S
  PROVE  softDelete(tx, S) \in [Txs -> Row]
BY DEF softDelete, deletedRow, TypeOK, Row
-----------------------------------------------------------------------------
(* The inductive invariant *)

UnusedRows == \A t \in Txs : tx[t].state = "none" => tx[t] = NoRow

InsertedRows ==
  \A t \in Txs : tx[t].state # "none" => tx[t].account \in Accounts /\ tx[t].amount \in Amounts

FeeRows ==
  \A t \in Txs :
    /\ tx[t].source = "FEE" <=> tx[t].feeFor # NoTx
    /\ tx[t].feeFor # NoTx =>
         tx[t].type = "EXPENSE" /\ tx[t].group = NoTx /\ tx[tx[t].feeFor].state # "none"

FeeUnique ==
  \A f, g \in Txs : tx[f].feeFor = tx[g].feeFor /\ tx[f].feeFor # NoTx => f = g

LegRows ==
  \A t \in Txs : tx[t].group # NoTx =>
    tx[t].source = "MANUAL" /\ tx[tx[t].group].state # "none"

(* Where rows come from: an unused id has no row, an inserted row is on an *)
(* account for a positive amount, fee lines are the rows with a parent,    *)
(* one per parent over the whole table, and references name inserted rows. *)
Provenance ==
  /\ UnusedRows
  /\ InsertedRows
  /\ FeeRows
  /\ FeeUnique
  /\ LegRows

Structure == TypeOK /\ Provenance /\ TransferPaired /\ FeeLineIntegrity /\ RowsOnLiveAccounts

IInv == Structure /\ BalanceDerived

LEMMA CreateTxType ==
  ASSUME TypeOK, NEW t \in Txs, NEW a \in Accounts, NEW type \in Types, NEW n \in Amounts,
         NEW s \in Sources, CreateTx(t, a, type, n, s)
  PROVE  TypeOK'
<1>1. LiveRow(a, type, n, s, NoTx, NoTx) \in Row
  BY LiveRowType
<1>2. balanceDelta(type, n) \in Int
  BY DeltaInt, AmountsInt
<1>3. balance' \in [Accounts -> Int]
  BY <1>2, AdjustType DEF CreateTx, TypeOK
<1>. QED
  BY <1>1, <1>3 DEF CreateTx, TypeOK, accountVars

LEMMA TypeStep ==
  ASSUME TypeOK, Provenance, [Next]_vars
  PROVE  TypeOK'
<1>. USE ReferenceAssumption, AmountsInt
<1>1. ASSUME NEW a \in Accounts, NEW o \in Openings, CreateAccount(a, o)
      PROVE  TypeOK'
  BY <1>1, OpeningsAssumption DEF CreateAccount, TypeOK
<1>2. ASSUME NEW a \in Accounts, RemoveAccount(a)
      PROVE  TypeOK'
  BY <1>2 DEF RemoveAccount, TypeOK
<1>3. ASSUME NEW t \in Txs, NEW a \in Accounts, NEW type \in Types, NEW n \in Amounts,
             NEW s \in EntrySources, CreateTx(t, a, type, n, s)
      PROVE  TypeOK'
  BY <1>3, CreateTxType, EntrySourcesAssumption DEF Sources
<1>4. ASSUME NEW t \in Txs, NEW f \in Txs, NEW a \in Accounts, NEW type \in Types,
             NEW n \in Amounts, NEW fee \in Amounts, CreateTxWithFee(t, f, a, type, n, fee)
      PROVE  TypeOK'
  <2>1. LiveRow(a, type, n, "MANUAL", NoTx, NoTx) \in Row /\ FeeRow(a, fee, t) \in Row
    BY LiveRowType, FeeRowType DEF Sources
  <2>2. balanceDelta(type, n) \in Int /\ -fee \in Int
    BY DeltaInt
  <2>3. balance' \in [Accounts -> Int]
    BY <1>4, <2>2, AdjustType DEF CreateTxWithFee, TypeOK
  <2>. QED
    BY <1>4, <2>1, <2>3 DEF CreateTxWithFee, TypeOK, accountVars
<1>5. ASSUME NEW out \in Txs, NEW in \in Txs, NEW from \in Accounts, NEW to \in Accounts,
             NEW n \in Amounts
      PROVE  /\ TransferRows(out, in, from, to, n) \in [Txs -> Row]
             /\ TransferBalance(from, to, n) \in [Accounts -> Int]
  <2>1. /\ LiveRow(from, "EXPENSE", n, "MANUAL", out, NoTx) \in Row
        /\ LiveRow(to, "INCOME", n, "MANUAL", out, NoTx) \in Row
    BY LiveRowType DEF Sources, Types
  <2>2. n \in Int /\ -n \in Int
    OBVIOUS
  <2>. QED
    BY <2>1, <2>2, AdjustType DEF TransferRows, TransferBalance, TypeOK
<1>6. ASSUME NEW out \in Txs, NEW in \in Txs, NEW from \in Accounts, NEW to \in Accounts,
             NEW n \in Amounts, Transfer(out, in, from, to, n)
      PROVE  TypeOK'
  BY <1>5, <1>6 DEF Transfer, TypeOK, accountVars
<1>7. ASSUME NEW out \in Txs, NEW in \in Txs, NEW f \in Txs, NEW from \in Accounts,
             NEW to \in Accounts, NEW n \in Amounts, NEW fee \in Amounts,
             TransferWithFee(out, in, f, from, to, n, fee)
      PROVE  TypeOK'
  <2>1. FeeRow(from, fee, out) \in Row /\ -fee \in Int
    BY FeeRowType
  <2>2. balance' \in [Accounts -> Int]
    BY <1>5, <1>7, <2>1, AdjustType DEF TransferWithFee
  <2>. QED
    BY <1>5, <1>7, <2>1, <2>2 DEF TransferWithFee, TypeOK, accountVars
<1>8. ASSUME NEW t \in Txs, NEW a \in Accounts, NEW n \in Amounts, Editable(t)
      PROVE  /\ MovedRow(t, a, n) \in Row
             /\ MovedBalance(t, a, n) \in [Accounts -> Int]
  <2>1. tx[t].account \in Accounts
    BY <1>8 DEF Editable, Provenance, InsertedRows
  <2>. QED
    BY <2>1, MovedRowType, MovedBalanceType
<1>9. ASSUME NEW t \in Txs, NEW a \in Accounts, NEW n \in Amounts, UpdateTx(t, a, n)
      PROVE  TypeOK'
  BY <1>8, <1>9 DEF UpdateTx, TypeOK, accountVars
<1>10. ASSUME NEW f \in LiveRows(tx)
       PROVE  tx[f].account \in Accounts /\ tx[f].amount \in Int
  BY DEF LiveRows, Provenance, InsertedRows, TypeOK, Row
<1>11. ASSUME NEW t \in Txs, NEW f \in Txs, NEW a \in Accounts, NEW n \in Amounts,
              UpdateDropFee(t, f, a, n)
       PROVE  TypeOK'
  <2>1. balance' \in [Accounts -> Int]
    BY <1>8, <1>10, <1>11, AdjustType DEF UpdateDropFee, feeLinesOf
  <2>2. deletedRow(tx[f]) \in Row
    BY DEF deletedRow, TypeOK, Row
  <2>3. tx' \in [Txs -> Row]
    BY <1>8, <1>11, <2>2 DEF UpdateDropFee, TypeOK
  <2>. QED
    BY <1>11, <2>1, <2>3 DEF UpdateDropFee, TypeOK, accountVars
<1>12. ASSUME NEW t \in Txs, NEW f \in Txs, NEW a \in Accounts, NEW n \in Amounts,
              NEW fee \in Amounts, UpdateChangeFee(t, f, a, n, fee)
       PROVE  TypeOK'
  <2>1. -fee \in Int
    OBVIOUS
  <2>2. balance' \in [Accounts -> Int]
    BY <1>8, <1>10, <1>12, <2>1, AdjustType DEF UpdateChangeFee, feeLinesOf
  <2>3. tx' \in [Txs -> Row]
    BY <1>8, <1>12, MovedRowType DEF UpdateChangeFee, TypeOK
  <2>. QED
    BY <1>12, <2>2, <2>3 DEF UpdateChangeFee, TypeOK, accountVars
<1>13. ASSUME NEW t \in Txs, NEW f \in Txs, NEW a \in Accounts, NEW n \in Amounts,
              NEW fee \in Amounts, UpdateAddFee(t, f, a, n, fee)
       PROVE  TypeOK'
  <2>1. -fee \in Int /\ FeeRow(a, fee, t) \in Row
    BY FeeRowType
  <2>2. balance' \in [Accounts -> Int]
    BY <1>8, <1>13, <2>1, AdjustType DEF UpdateAddFee
  <2>3. tx' \in [Txs -> Row]
    BY <1>8, <1>13, <2>1 DEF UpdateAddFee, TypeOK
  <2>. QED
    BY <1>13, <2>2, <2>3 DEF UpdateAddFee, TypeOK, accountVars
<1>14. ASSUME NEW t \in Txs, NEW allow, RemoveTx(t, allow)
       PROVE  TypeOK'
  <2>. DEFINE fees == feeCascade({t})
              d == -balanceDelta(tx[t].type, tx[t].amount)
  <2>1. tx[t].account \in Accounts /\ tx[t].amount \in Int
    BY <1>14 DEF RemoveTx, Removable, Provenance, InsertedRows, TypeOK, Row
  <2>2. d \in Int
    BY <2>1, DeltaInt
  <2>3. fees \in SUBSET Txs
    BY DEF feeCascade, feeLinesOf, LiveRows
  <2>4. /\ tx' = softDelete(tx, {t} \union fees)
        /\ balance' = FeesRestored(adjustBalance(balance, tx[t].account, d), fees)
    BY <1>14 DEF RemoveTx
  <2>. HIDE DEF fees, d
  <2>5. adjustBalance(balance, tx[t].account, d) \in [Accounts -> Int]
    BY <2>1, <2>2, AdjustType DEF TypeOK
  <2>6. balance' \in [Accounts -> Int]
    BY <2>3, <2>4, <2>5, FeesRestoredType
  <2>7. tx' \in [Txs -> Row]
    BY <2>4, SoftDeleteType
  <2>. QED
    BY <1>14, <2>6, <2>7 DEF RemoveTx, TypeOK, accountVars
<1>15. ASSUME NEW t \in Txs, RemoveTransfer(t)
       PROVE  TypeOK'
  <2>. DEFINE legs == transferLegs(t)
              fees == feeCascade(legs)
              bal  == [a \in Accounts |-> balance[a] - Net(tx, legs, a)]
  <2>1. legs \in SUBSET Txs /\ fees \in SUBSET Txs
    BY DEF transferLegs, legsOf, feeCascade, feeLinesOf, LiveRows
  <2>2. tx' = softDelete(tx, legs \union fees) /\ balance' = FeesRestored(bal, fees)
    BY <1>15 DEF RemoveTransfer
  <2>3. bal \in [Accounts -> Int]
    <3>. HIDE DEF legs
    <3>1. ASSUME NEW a \in Accounts PROVE Net(tx, legs, a) \in Int
      BY <2>1, NetInt
    <3>. QED
      BY <3>1 DEF TypeOK
  <2>. HIDE DEF legs, fees, bal
  <2>4. balance' \in [Accounts -> Int]
    BY <2>1, <2>2, <2>3, FeesRestoredType
  <2>5. tx' \in [Txs -> Row]
    BY <2>2, SoftDeleteType
  <2>. QED
    BY <1>15, <2>4, <2>5 DEF RemoveTransfer, TypeOK, accountVars
<1>16. ASSUME NEW a \in Accounts, NEW actual \in Openings, NEW t \in Txs, Reconcile(a, actual, t)
       PROVE  TypeOK'
  <2>1. PICK type \in Types, n \in Amounts : CreateTx(t, a, type, n, "ADJUSTMENT")
    BY <1>16 DEF Reconcile, storable, Types
  <2>. QED
    BY <2>1, CreateTxType DEF Sources
<1>17. CASE UNCHANGED vars
  BY <1>17 DEF vars, TypeOK
<1>. QED
  BY <1>1, <1>2, <1>3, <1>4, <1>6, <1>7, <1>9, <1>11, <1>12, <1>13, <1>14, <1>15, <1>16, <1>17
  DEF Next
-----------------------------------------------------------------------------
(* The structure of the rows *)

LEMMA EmptyRows == NoRow.state = "none" /\ NoRow.feeFor = NoTx /\ NoRow.group = NoTx
                   /\ NoRow.source = "MANUAL"
BY DEF NoRow

(* Inserting an ordinary row under an unused id. *)
LEMMA CreateTxStructure ==
  ASSUME Structure, NEW t \in Txs, NEW a \in Accounts, NEW type \in Types, NEW n \in Amounts,
         NEW s \in Sources \ {"FEE"}, CreateTx(t, a, type, n, s)
  PROVE  Provenance' /\ TransferPaired' /\ FeeLineIntegrity' /\ RowsOnLiveAccounts'
<1>. DEFINE r == LiveRow(a, type, n, s, NoTx, NoTx)
<1>1. /\ tx \in [Txs -> Row] /\ tx[t] = NoRow
      /\ tx'[t] = r
        /\ \A u \in Txs \ {t} : tx'[u] = tx[u]
      /\ AccountLive(a) /\ UNCHANGED accountVars
  BY DEF Structure, TypeOK, Provenance, UnusedRows, CreateTx, Fresh
<1>2. /\ r.state = "live" /\ r.account = a /\ r.amount = n /\ r.source = s
      /\ r.group = NoTx /\ r.feeFor = NoTx
  BY DEF LiveRow
<1>. \A u \in Txs : tx[u].feeFor \in Txs \union {NoTx} /\ tx[u].group \in Txs \union {NoTx}
  BY <1>1 DEF Row
<1>. HIDE DEF r
<1>3. Provenance'
  <2>1. UnusedRows'
    BY <1>1, <1>2, EmptyRows DEF Structure, Provenance, UnusedRows
  <2>2. InsertedRows'
    BY <1>1, <1>2, EmptyRows DEF Structure, Provenance, InsertedRows
  <2>3. FeeRows'
    BY <1>1, <1>2, EmptyRows DEF Structure, Provenance, FeeRows
  <2>4. FeeUnique'
    BY <1>1, <1>2, EmptyRows DEF Structure, Provenance, FeeUnique, FeeRows
  <2>5. LegRows'
    BY <1>1, <1>2, EmptyRows DEF Structure, Provenance, LegRows
  <2>. QED
    BY <2>1, <2>2, <2>3, <2>4, <2>5 DEF Provenance
<1>4. TransferPaired'
  BY <1>1, <1>2, EmptyRows DEF Structure, TransferPaired, legsOf, LiveRows
<1>5. FeeLineIntegrity'
  BY <1>1, <1>2, EmptyRows DEF Structure, Provenance, FeeRows, FeeLineIntegrity, feeLinesOf, LiveRows
<1>6. RowsOnLiveAccounts'
  BY <1>1, <1>2 DEF Structure, RowsOnLiveAccounts, LiveRows, AccountLive, accountVars
<1>. QED
  BY <1>3, <1>4, <1>5, <1>6
LEMMA StructureStep ==
  ASSUME Structure, Next
  PROVE  Provenance' /\ TransferPaired' /\ FeeLineIntegrity' /\ RowsOnLiveAccounts'
<1>. USE ReferenceAssumption
<1>. tx \in [Txs -> Row] /\ Provenance /\ TransferPaired /\ FeeLineIntegrity /\ RowsOnLiveAccounts
  BY DEF Structure, TypeOK
<1>. \A u \in Txs : tx[u].feeFor \in Txs \union {NoTx} /\ tx[u].group \in Txs \union {NoTx}
  BY DEF Row
<1>1. ASSUME NEW a \in Accounts, NEW o \in Openings, CreateAccount(a, o)
      PROVE  Provenance' /\ TransferPaired' /\ FeeLineIntegrity' /\ RowsOnLiveAccounts'
  BY <1>1 DEF CreateAccount, Structure, TypeOK, Provenance, UnusedRows, InsertedRows, FeeRows, FeeUnique, LegRows, TransferPaired, FeeLineIntegrity,
              RowsOnLiveAccounts, legsOf, feeLinesOf, LiveRows, AccountLive
<1>2. ASSUME NEW a \in Accounts, RemoveAccount(a)
      PROVE  Provenance' /\ TransferPaired' /\ FeeLineIntegrity' /\ RowsOnLiveAccounts'
  BY <1>2 DEF RemoveAccount, AccountUnused, Structure, TypeOK, Provenance, UnusedRows, InsertedRows, FeeRows, FeeUnique, LegRows, TransferPaired,
              FeeLineIntegrity, RowsOnLiveAccounts, legsOf, feeLinesOf, LiveRows, AccountLive
<1>3. ASSUME NEW t \in Txs, NEW a \in Accounts, NEW type \in Types, NEW n \in Amounts,
             NEW s \in EntrySources, CreateTx(t, a, type, n, s)
      PROVE  Provenance' /\ TransferPaired' /\ FeeLineIntegrity' /\ RowsOnLiveAccounts'
  BY <1>3, CreateTxStructure, EntrySourcesAssumption DEF Sources
<1>4. ASSUME NEW t \in Txs, NEW f \in Txs, NEW a \in Accounts, NEW type \in Types,
             NEW n \in Amounts, NEW fee \in Amounts, CreateTxWithFee(t, f, a, type, n, fee)
      PROVE  Provenance' /\ TransferPaired' /\ FeeLineIntegrity' /\ RowsOnLiveAccounts'
  <2>. DEFINE r == LiveRow(a, type, n, "MANUAL", NoTx, NoTx)
              q == FeeRow(a, fee, t)
  <2>1. /\ t # f /\ tx[t] = NoRow /\ tx[f] = NoRow
        /\ tx'[t] = r /\ tx'[f] = q
        /\ \A u \in Txs \ {t, f} : tx'[u] = tx[u]
        /\ AccountLive(a) /\ UNCHANGED accountVars
    BY <1>4 DEF Provenance, UnusedRows, CreateTxWithFee, Fresh
  <2>2. /\ r.state = "live" /\ r.account = a /\ r.amount = n /\ r.source = "MANUAL"
        /\ r.group = NoTx /\ r.feeFor = NoTx
        /\ q.state = "live" /\ q.account = a /\ q.amount = fee /\ q.source = "FEE"
        /\ q.group = NoTx /\ q.feeFor = t /\ q.type = "EXPENSE"
    BY DEF LiveRow, FeeRow
  <2>. HIDE DEF r, q
  <2>3. \A g \in Txs : tx[g].feeFor # t
    BY <2>1, EmptyRows DEF Provenance, FeeRows
  <2>4. Provenance'
    <3>1. UnusedRows'
      BY <2>1, <2>2, <2>3, EmptyRows DEF Provenance, UnusedRows
    <3>2. InsertedRows'
      BY <2>1, <2>2, <2>3, EmptyRows DEF Provenance, InsertedRows
    <3>3. FeeRows'
      BY <2>1, <2>2, <2>3, EmptyRows DEF Provenance, FeeRows
    <3>4. FeeUnique'
      BY <2>1, <2>2, <2>3, EmptyRows DEF Provenance, FeeUnique, FeeRows
    <3>5. LegRows'
      BY <2>1, <2>2, <2>3, EmptyRows DEF Provenance, LegRows
    <3>. QED
      BY <3>1, <3>2, <3>3, <3>4, <3>5 DEF Provenance
  <2>5. TransferPaired'
    BY <2>1, <2>2, EmptyRows DEF TransferPaired, legsOf, LiveRows
  <2>6. FeeLineIntegrity'
    BY <2>1, <2>2, <2>3, EmptyRows DEF Provenance, FeeRows, FeeLineIntegrity, feeLinesOf, LiveRows
  <2>7. RowsOnLiveAccounts'
    BY <2>1, <2>2 DEF RowsOnLiveAccounts, LiveRows, AccountLive, accountVars
  <2>. QED
    BY <2>4, <2>5, <2>6, <2>7
<1>5. ASSUME NEW out \in Txs, NEW in \in Txs, NEW from \in Accounts, NEW to \in Accounts,
             NEW n \in Amounts, Transfer(out, in, from, to, n)
      PROVE  Provenance' /\ TransferPaired' /\ FeeLineIntegrity' /\ RowsOnLiveAccounts'
  <2>. DEFINE r == LiveRow(from, "EXPENSE", n, "MANUAL", out, NoTx)
              q == LiveRow(to, "INCOME", n, "MANUAL", out, NoTx)
  <2>1. /\ out # in /\ tx[out] = NoRow /\ tx[in] = NoRow
        /\ tx'[out] = r /\ tx'[in] = q
        /\ \A u \in Txs \ {out, in} : tx'[u] = tx[u]
        /\ AccountLive(from) /\ AccountLive(to) /\ UNCHANGED accountVars
    BY <1>5 DEF Provenance, UnusedRows, Transfer, TransferRows, Fresh
  <2>2. /\ r.state = "live" /\ r.account = from /\ r.amount = n /\ r.source = "MANUAL"
        /\ r.group = out /\ r.feeFor = NoTx /\ r.type = "EXPENSE"
        /\ q.state = "live" /\ q.account = to /\ q.amount = n /\ q.source = "MANUAL"
        /\ q.group = out /\ q.feeFor = NoTx /\ q.type = "INCOME"
    BY DEF LiveRow
  <2>. HIDE DEF r, q
  <2>3. \A t \in Txs : tx[t].group # out
    BY <2>1, EmptyRows DEF Provenance, LegRows
  <2>4. Provenance'
    <3>1. UnusedRows'
      BY <2>1, <2>2, EmptyRows DEF Provenance, UnusedRows
    <3>2. InsertedRows'
      BY <2>1, <2>2, EmptyRows DEF Provenance, InsertedRows
    <3>3. FeeRows'
      BY <2>1, <2>2, EmptyRows DEF Provenance, FeeRows
    <3>4. FeeUnique'
      BY <2>1, <2>2, EmptyRows DEF Provenance, FeeUnique, FeeRows
    <3>5. LegRows'
      BY <2>1, <2>2, EmptyRows DEF Provenance, LegRows
    <3>. QED
      BY <3>1, <3>2, <3>3, <3>4, <3>5 DEF Provenance
  <2>5. TransferPaired'
    <3>1. legsOf(tx', out) = {out, in}
      BY <2>1, <2>2, <2>3 DEF legsOf, LiveRows
    <3>2. ASSUME NEW t \in LiveRows(tx'), tx'[t].group # NoTx, t \notin {out, in}
          PROVE  /\ t \in LiveRows(tx) /\ tx'[t] = tx[t]
                 /\ legsOf(tx', tx[t].group) = legsOf(tx, tx[t].group)
                 /\ legsOf(tx, tx[t].group) \cap {out, in} = {}
      BY <2>1, <2>2, <2>3, <3>2, EmptyRows DEF legsOf, LiveRows
    <3>. SUFFICES ASSUME NEW t \in LiveRows(tx'), tx'[t].group # NoTx
                  PROVE  \E u \in Txs :
                           /\ u # t
                           /\ legsOf(tx', tx'[t].group) = {t, u}
                           /\ tx'[u].amount = tx'[t].amount
                           /\ tx'[u].type # tx'[t].type
      BY DEF TransferPaired
    <3>3. CASE t = out
      BY <2>1, <2>2, <3>1, <3>3
    <3>4. CASE t = in
      BY <2>1, <2>2, <3>1, <3>4
    <3>5. CASE t \notin {out, in}
      <4>1. /\ t \in LiveRows(tx) /\ tx'[t] = tx[t]
            /\ legsOf(tx', tx[t].group) = legsOf(tx, tx[t].group)
            /\ legsOf(tx, tx[t].group) \cap {out, in} = {}
        BY <3>2, <3>5
      <4>2. PICK u \in Txs :
                   /\ u # t
                   /\ legsOf(tx, tx[t].group) = {t, u}
                   /\ tx[u].amount = tx[t].amount
                   /\ tx[u].type # tx[t].type
        BY <4>1 DEF TransferPaired
      <4>3. tx'[u] = tx[u]
        BY <2>1, <4>1, <4>2
      <4>. QED
        BY <4>1, <4>2, <4>3
    <3>. QED
      BY <3>3, <3>4, <3>5
  <2>6. FeeLineIntegrity'
    BY <2>1, <2>2, EmptyRows DEF Provenance, FeeRows, FeeLineIntegrity, feeLinesOf, LiveRows
  <2>7. RowsOnLiveAccounts'
    BY <2>1, <2>2 DEF RowsOnLiveAccounts, LiveRows, AccountLive, accountVars
  <2>. QED
    BY <2>4, <2>5, <2>6, <2>7
<1>6. ASSUME NEW out \in Txs, NEW in \in Txs, NEW f \in Txs, NEW from \in Accounts,
             NEW to \in Accounts, NEW n \in Amounts, NEW fee \in Amounts,
             TransferWithFee(out, in, f, from, to, n, fee)
      PROVE  Provenance' /\ TransferPaired' /\ FeeLineIntegrity' /\ RowsOnLiveAccounts'
  <2>. DEFINE r == LiveRow(from, "EXPENSE", n, "MANUAL", out, NoTx)
              q == LiveRow(to, "INCOME", n, "MANUAL", out, NoTx)
              p == FeeRow(from, fee, out)
  <2>0. out # in /\ out # f /\ in # f
    BY <1>6 DEF TransferWithFee
  <2>1. /\ tx[out] = NoRow /\ tx[in] = NoRow /\ tx[f] = NoRow
        /\ tx'[out] = r /\ tx'[in] = q /\ tx'[f] = p
        /\ \A u \in Txs \ {out, in, f} : tx'[u] = tx[u]
        /\ AccountLive(from) /\ AccountLive(to) /\ UNCHANGED accountVars
    BY <1>6, <2>0 DEF Provenance, UnusedRows, TransferWithFee, TransferRows, Fresh
  <2>2. /\ r.state = "live" /\ r.account = from /\ r.amount = n /\ r.source = "MANUAL"
        /\ r.group = out /\ r.feeFor = NoTx /\ r.type = "EXPENSE"
        /\ q.state = "live" /\ q.account = to /\ q.amount = n /\ q.source = "MANUAL"
        /\ q.group = out /\ q.feeFor = NoTx /\ q.type = "INCOME"
        /\ p.state = "live" /\ p.account = from /\ p.amount = fee /\ p.source = "FEE"
        /\ p.group = NoTx /\ p.feeFor = out /\ p.type = "EXPENSE"
    BY DEF LiveRow, FeeRow
  <2>. HIDE DEF r, q, p
  <2>3. \A t \in Txs : tx[t].group # out /\ tx[t].feeFor # out
    BY <2>1, EmptyRows DEF Provenance, LegRows, FeeRows
  <2>4. Provenance'
    <3>1. UnusedRows'
      BY <2>0, <2>1, <2>2, <2>3, EmptyRows DEF Provenance, UnusedRows
    <3>2. InsertedRows'
      BY <2>0, <2>1, <2>2, <2>3, EmptyRows DEF Provenance, InsertedRows
    <3>3. FeeRows'
      BY <2>0, <2>1, <2>2, <2>3, EmptyRows DEF Provenance, FeeRows
    <3>4. FeeUnique'
      BY <2>0, <2>1, <2>2, <2>3, EmptyRows DEF Provenance, FeeUnique, FeeRows
    <3>5. LegRows'
      BY <2>0, <2>1, <2>2, <2>3, EmptyRows DEF Provenance, LegRows
    <3>. QED
      BY <3>1, <3>2, <3>3, <3>4, <3>5 DEF Provenance
  <2>5. TransferPaired'
    <3>1. legsOf(tx', out) = {out, in}
      BY <2>0, <2>1, <2>2, <2>3 DEF legsOf, LiveRows
    <3>2. ASSUME NEW t \in LiveRows(tx'), tx'[t].group # NoTx, t \notin {out, in}
          PROVE  /\ t \in LiveRows(tx) /\ tx'[t] = tx[t]
                 /\ legsOf(tx', tx[t].group) = legsOf(tx, tx[t].group)
                 /\ legsOf(tx, tx[t].group) \cap {out, in, f} = {}
      BY <2>0, <2>1, <2>2, <2>3, <3>2, EmptyRows DEF legsOf, LiveRows
    <3>. SUFFICES ASSUME NEW t \in LiveRows(tx'), tx'[t].group # NoTx
                  PROVE  \E u \in Txs :
                           /\ u # t
                           /\ legsOf(tx', tx'[t].group) = {t, u}
                           /\ tx'[u].amount = tx'[t].amount
                           /\ tx'[u].type # tx'[t].type
      BY DEF TransferPaired
    <3>3. CASE t = out
      BY <2>0, <2>1, <2>2, <3>1, <3>3
    <3>4. CASE t = in
      BY <2>0, <2>1, <2>2, <3>1, <3>4
    <3>5. CASE t \notin {out, in}
      <4>1. /\ t \in LiveRows(tx) /\ tx'[t] = tx[t]
            /\ legsOf(tx', tx[t].group) = legsOf(tx, tx[t].group)
            /\ legsOf(tx, tx[t].group) \cap {out, in, f} = {}
        BY <3>2, <3>5
      <4>2. PICK u \in Txs :
                   /\ u # t
                   /\ legsOf(tx, tx[t].group) = {t, u}
                   /\ tx[u].amount = tx[t].amount
                   /\ tx[u].type # tx[t].type
        BY <4>1 DEF TransferPaired
      <4>3. tx'[u] = tx[u]
        BY <2>1, <4>1, <4>2
      <4>. QED
        BY <4>1, <4>2, <4>3
    <3>. QED
      BY <3>3, <3>4, <3>5
  <2>6. FeeLineIntegrity'
    BY <2>0, <2>1, <2>2, <2>3, EmptyRows DEF Provenance, FeeRows, FeeLineIntegrity, feeLinesOf, LiveRows
  <2>7. RowsOnLiveAccounts'
    BY <2>0, <2>1, <2>2 DEF RowsOnLiveAccounts, LiveRows, AccountLive, accountVars
  <2>. QED
    BY <2>4, <2>5, <2>6, <2>7
<1>7. ASSUME NEW t \in Txs, NEW a \in Accounts, NEW n \in Amounts, Editable(t), AccountLive(a)
      PROVE  /\ tx[t].state = "live" /\ tx[t].group = NoTx /\ tx[t].feeFor = NoTx
             /\ MovedRow(t, a, n).state = "live" /\ MovedRow(t, a, n).account = a
             /\ MovedRow(t, a, n).amount = n /\ MovedRow(t, a, n).type = tx[t].type
             /\ MovedRow(t, a, n).source = tx[t].source
             /\ MovedRow(t, a, n).group = NoTx /\ MovedRow(t, a, n).feeFor = NoTx
  BY <1>7 DEF Editable, MovedRow, Provenance, FeeRows, Row
<1>8. ASSUME NEW t \in Txs, NEW a \in Accounts, NEW n \in Amounts, UpdateTx(t, a, n)
      PROVE  Provenance' /\ TransferPaired' /\ FeeLineIntegrity' /\ RowsOnLiveAccounts'
  <2>. DEFINE r == MovedRow(t, a, n)
  <2>1. /\ tx'[t] = r
        /\ \A u \in Txs \ {t} : tx'[u] = tx[u]
        /\ AccountLive(a) /\ UNCHANGED accountVars
        /\ tx[t].state = "live" /\ tx[t].group = NoTx /\ tx[t].feeFor = NoTx
        /\ r.state = "live" /\ r.account = a /\ r.amount = n /\ r.type = tx[t].type
        /\ r.source = tx[t].source /\ r.group = NoTx /\ r.feeFor = NoTx
    BY <1>7, <1>8 DEF UpdateTx
  <2>. HIDE DEF r
  <2>2. Provenance'
    <3>1. UnusedRows'
      BY <2>1 DEF Provenance, UnusedRows
    <3>2. InsertedRows'
      BY <2>1 DEF Provenance, InsertedRows
    <3>3. FeeRows'
      BY <2>1 DEF Provenance, FeeRows
    <3>4. FeeUnique'
      BY <2>1 DEF Provenance, FeeUnique, FeeRows
    <3>5. LegRows'
      BY <2>1 DEF Provenance, LegRows
    <3>. QED
      BY <3>1, <3>2, <3>3, <3>4, <3>5 DEF Provenance
  <2>3. TransferPaired'
    BY <2>1 DEF TransferPaired, legsOf, LiveRows
  <2>4. FeeLineIntegrity'
    BY <2>1 DEF Provenance, FeeRows, FeeLineIntegrity, feeLinesOf, LiveRows
  <2>5. RowsOnLiveAccounts'
    BY <2>1 DEF RowsOnLiveAccounts, LiveRows, AccountLive, accountVars
  <2>. QED
    BY <2>2, <2>3, <2>4, <2>5
<1>9. ASSUME NEW t \in Txs, NEW f \in feeLinesOf(tx, {t})
      PROVE  /\ f \in Txs /\ tx[f].state = "live" /\ tx[f].feeFor = t /\ tx[f].source = "FEE"
             /\ tx[f].type = "EXPENSE" /\ tx[f].group = NoTx
  BY DEF feeLinesOf, LiveRows, Provenance, FeeRows
<1>10. ASSUME NEW t \in Txs, NEW f \in Txs, NEW a \in Accounts, NEW n \in Amounts,
              UpdateDropFee(t, f, a, n)
       PROVE  Provenance' /\ TransferPaired' /\ FeeLineIntegrity' /\ RowsOnLiveAccounts'
  <2>. DEFINE r == MovedRow(t, a, n)
              q == deletedRow(tx[f])
  <2>1. /\ tx'[t] = r /\ tx'[f] = q
        /\ \A u \in Txs \ {t, f} : tx'[u] = tx[u]
        /\ AccountLive(a) /\ UNCHANGED accountVars
        /\ tx[t].state = "live" /\ tx[t].group = NoTx /\ tx[t].feeFor = NoTx
        /\ r.state = "live" /\ r.account = a /\ r.amount = n /\ r.type = tx[t].type
        /\ r.source = tx[t].source /\ r.group = NoTx /\ r.feeFor = NoTx
    BY <1>7, <1>10 DEF UpdateDropFee
  <2>2. /\ tx[f].state = "live" /\ tx[f].feeFor = t /\ tx[f].source = "FEE"
        /\ tx[f].type = "EXPENSE" /\ tx[f].group = NoTx
        /\ q.state = "deleted" /\ q.account = tx[f].account /\ q.amount = tx[f].amount
        /\ q.type = "EXPENSE" /\ q.source = "FEE" /\ q.group = NoTx /\ q.feeFor = t
    BY <1>9, <1>10 DEF UpdateDropFee, deletedRow, Row
  <2>. HIDE DEF r, q
  <2>3. f # t
    BY <2>1, <2>2
  <2>4. Provenance'
    <3>1. UnusedRows'
      BY <2>1, <2>2, <2>3 DEF Provenance, UnusedRows
    <3>2. InsertedRows'
      BY <2>1, <2>2, <2>3 DEF Provenance, InsertedRows
    <3>3. FeeRows'
      BY <2>1, <2>2, <2>3 DEF Provenance, FeeRows
    <3>4. FeeUnique'
      BY <2>1, <2>2, <2>3 DEF Provenance, FeeUnique, FeeRows
    <3>5. LegRows'
      BY <2>1, <2>2, <2>3 DEF Provenance, LegRows
    <3>. QED
      BY <3>1, <3>2, <3>3, <3>4, <3>5 DEF Provenance
  <2>5. TransferPaired'
    BY <2>1, <2>2, <2>3 DEF TransferPaired, legsOf, LiveRows
  <2>6. FeeLineIntegrity'
    BY <2>1, <2>2, <2>3 DEF Provenance, FeeRows, FeeLineIntegrity, feeLinesOf, LiveRows
  <2>7. RowsOnLiveAccounts'
    BY <2>1, <2>2, <2>3 DEF RowsOnLiveAccounts, LiveRows, AccountLive, accountVars
  <2>. QED
    BY <2>4, <2>5, <2>6, <2>7
<1>11. ASSUME NEW t \in Txs, NEW f \in Txs, NEW a \in Accounts, NEW n \in Amounts,
              NEW fee \in Amounts, UpdateChangeFee(t, f, a, n, fee)
       PROVE  Provenance' /\ TransferPaired' /\ FeeLineIntegrity' /\ RowsOnLiveAccounts'
  <2>. DEFINE r == MovedRow(t, a, n)
              q == MovedRow(f, a, fee)
  <2>1. /\ tx'[t] = r /\ tx'[f] = q
        /\ \A u \in Txs \ {t, f} : tx'[u] = tx[u]
        /\ AccountLive(a) /\ UNCHANGED accountVars
        /\ tx[t].state = "live" /\ tx[t].group = NoTx /\ tx[t].feeFor = NoTx
        /\ r.state = "live" /\ r.account = a /\ r.amount = n /\ r.type = tx[t].type
        /\ r.source = tx[t].source /\ r.group = NoTx /\ r.feeFor = NoTx
    BY <1>7, <1>11 DEF UpdateChangeFee
  <2>2. /\ tx[f].state = "live" /\ tx[f].feeFor = t /\ tx[f].source = "FEE"
        /\ tx[f].type = "EXPENSE" /\ tx[f].group = NoTx
        /\ q.state = "live" /\ q.account = a /\ q.amount = fee
        /\ q.type = "EXPENSE" /\ q.source = "FEE" /\ q.group = NoTx /\ q.feeFor = t
    BY <1>9, <1>11 DEF UpdateChangeFee, MovedRow, Row
  <2>. HIDE DEF r, q
  <2>3. f # t
    BY <2>1, <2>2
  <2>4. Provenance'
    <3>1. UnusedRows'
      BY <2>1, <2>2, <2>3 DEF Provenance, UnusedRows
    <3>2. InsertedRows'
      BY <2>1, <2>2, <2>3 DEF Provenance, InsertedRows
    <3>3. FeeRows'
      BY <2>1, <2>2, <2>3 DEF Provenance, FeeRows
    <3>4. FeeUnique'
      BY <2>1, <2>2, <2>3 DEF Provenance, FeeUnique, FeeRows
    <3>5. LegRows'
      BY <2>1, <2>2, <2>3 DEF Provenance, LegRows
    <3>. QED
      BY <3>1, <3>2, <3>3, <3>4, <3>5 DEF Provenance
  <2>5. TransferPaired'
    BY <2>1, <2>2, <2>3 DEF TransferPaired, legsOf, LiveRows
  <2>6. FeeLineIntegrity'
    BY <2>1, <2>2, <2>3 DEF Provenance, FeeRows, FeeLineIntegrity, feeLinesOf, LiveRows
  <2>7. RowsOnLiveAccounts'
    BY <2>1, <2>2, <2>3 DEF RowsOnLiveAccounts, LiveRows, AccountLive, accountVars
  <2>. QED
    BY <2>4, <2>5, <2>6, <2>7
<1>12. ASSUME NEW t \in Txs, NEW f \in Txs, NEW a \in Accounts, NEW n \in Amounts,
              NEW fee \in Amounts, UpdateAddFee(t, f, a, n, fee)
       PROVE  Provenance' /\ TransferPaired' /\ FeeLineIntegrity' /\ RowsOnLiveAccounts'
  <2>. DEFINE r == MovedRow(t, a, n)
              q == FeeRow(a, fee, t)
  <2>1. /\ f # t /\ tx[f] = NoRow /\ \A g \in Txs : tx[g].feeFor # t
        /\ tx'[t] = r /\ tx'[f] = q
        /\ \A u \in Txs \ {t, f} : tx'[u] = tx[u]
        /\ AccountLive(a) /\ UNCHANGED accountVars
        /\ tx[t].state = "live" /\ tx[t].group = NoTx /\ tx[t].feeFor = NoTx
        /\ r.state = "live" /\ r.account = a /\ r.amount = n /\ r.type = tx[t].type
        /\ r.source = tx[t].source /\ r.group = NoTx /\ r.feeFor = NoTx
    BY <1>7, <1>12 DEF UpdateAddFee, Fresh, FeeSlotFree, Provenance, UnusedRows, FeeRows
  <2>2. tx[t].source = "MANUAL" \/ tx[t].source = "ADJUSTMENT"
    BY <1>12 DEF UpdateAddFee, Editable, Row, Sources
  <2>3. /\ q.state = "live" /\ q.account = a /\ q.amount = fee
        /\ q.type = "EXPENSE" /\ q.source = "FEE" /\ q.group = NoTx /\ q.feeFor = t
    BY DEF FeeRow, LiveRow
  <2>. HIDE DEF r, q
  <2>4. Provenance'
    <3>1. UnusedRows'
      BY <2>1, <2>3, EmptyRows DEF Provenance, UnusedRows
    <3>2. InsertedRows'
      BY <2>1, <2>3, EmptyRows DEF Provenance, InsertedRows
    <3>3. FeeRows'
      BY <2>1, <2>3, EmptyRows DEF Provenance, FeeRows
    <3>4. FeeUnique'
      BY <2>1, <2>3, EmptyRows DEF Provenance, FeeUnique, FeeRows
    <3>5. LegRows'
      BY <2>1, <2>3, EmptyRows DEF Provenance, LegRows
    <3>. QED
      BY <3>1, <3>2, <3>3, <3>4, <3>5 DEF Provenance
  <2>5. TransferPaired'
    BY <2>1, <2>3, EmptyRows DEF TransferPaired, legsOf, LiveRows
  <2>6. FeeLineIntegrity'
    BY <2>1, <2>2, <2>3, EmptyRows DEF Provenance, FeeRows, FeeLineIntegrity, feeLinesOf, LiveRows
  <2>7. RowsOnLiveAccounts'
    BY <2>1, <2>3 DEF RowsOnLiveAccounts, LiveRows, AccountLive, accountVars
  <2>. QED
    BY <2>4, <2>5, <2>6, <2>7
<1>13. ASSUME NEW S \in SUBSET LiveRows(tx), tx' = softDelete(tx, S), UNCHANGED accountVars,
              \A t \in S :
                feeLinesOf(tx, {t}) \subseteq S
                /\ (tx[t].group # NoTx => legsOf(tx, tx[t].group) \subseteq S)
       PROVE  Provenance' /\ TransferPaired' /\ FeeLineIntegrity' /\ RowsOnLiveAccounts'
  <2>1. ASSUME NEW t \in Txs
        PROVE  /\ tx'[t].account = tx[t].account /\ tx'[t].amount = tx[t].amount
               /\ tx'[t].type = tx[t].type /\ tx'[t].source = tx[t].source
               /\ tx'[t].group = tx[t].group /\ tx'[t].feeFor = tx[t].feeFor
               /\ t \in S => tx'[t].state = "deleted"
               /\ t \notin S => tx'[t] = tx[t]
    BY <1>13 DEF softDelete, deletedRow, Row
  <2>2. Provenance'
    <3>1. UnusedRows'
      BY <2>1 DEF Provenance, LiveRows, UnusedRows
    <3>2. InsertedRows'
      BY <2>1 DEF Provenance, LiveRows, InsertedRows
    <3>3. FeeRows'
      BY <2>1 DEF Provenance, LiveRows, FeeRows
    <3>4. FeeUnique'
      BY <2>1 DEF Provenance, LiveRows, FeeUnique, FeeRows
    <3>5. LegRows'
      BY <2>1 DEF Provenance, LiveRows, LegRows
    <3>. QED
      BY <3>1, <3>2, <3>3, <3>4, <3>5 DEF Provenance
  <2>3. LiveRows(tx') = LiveRows(tx) \ S
    BY <2>1 DEF LiveRows
  <2>4. ASSUME NEW t \in LiveRows(tx'), tx[t].group # NoTx
        PROVE  legsOf(tx', tx[t].group) = legsOf(tx, tx[t].group)
    <3>1. t \in LiveRows(tx) \ S
      BY <2>3
    <3>2. ASSUME NEW u \in S PROVE tx[u].group # tx[t].group
      BY <1>13, <2>4, <3>1 DEF legsOf
    <3>3. \A u \in LiveRows(tx') : tx'[u].group = tx[u].group
      BY <2>1 DEF LiveRows
    <3>. QED
      BY <2>3, <3>2, <3>3 DEF legsOf
  <2>5. TransferPaired'
    <3>1. \A u \in LiveRows(tx') : u \in Txs /\ u \in LiveRows(tx)
      BY <2>3 DEF LiveRows
    <3>. SUFFICES ASSUME NEW t \in LiveRows(tx'), tx'[t].group # NoTx
                  PROVE  \E u \in Txs :
                           /\ u # t
                           /\ legsOf(tx', tx'[t].group) = {t, u}
                           /\ tx'[u].amount = tx'[t].amount
                           /\ tx'[u].type # tx'[t].type
      BY DEF TransferPaired
    <3>2. tx'[t].group = tx[t].group
      BY <2>1, <3>1
    <3>3. PICK u \in Txs :
                 /\ u # t
                 /\ legsOf(tx, tx[t].group) = {t, u}
                 /\ tx[u].amount = tx[t].amount
                 /\ tx[u].type # tx[t].type
      BY <3>1, <3>2 DEF TransferPaired
    <3>. QED
      BY <2>1, <2>4, <3>1, <3>2, <3>3
  <2>6. FeeLineIntegrity'
    <3>. SUFFICES ASSUME NEW f \in LiveRows(tx'), tx'[f].source = "FEE",
                         NEW p, p = tx'[f].feeFor
                  PROVE  /\ tx'[f].type = "EXPENSE" /\ tx'[f].group = NoTx
                         /\ p \in LiveRows(tx')
                         /\ tx'[p].source = "MANUAL" \/ tx'[p].source = "ADJUSTMENT"
                         /\ tx'[p].group \in {NoTx, p}
                         /\ feeLinesOf(tx', {p}) = {f}
      BY DEF FeeLineIntegrity
    <3>1. /\ f \in LiveRows(tx) \ S /\ f \in Txs
          /\ tx[f].source = "FEE" /\ p = tx[f].feeFor /\ tx'[f].type = tx[f].type
          /\ tx'[f].group = tx[f].group
      BY <2>1, <2>3 DEF LiveRows
    <3>2. /\ tx[f].type = "EXPENSE" /\ tx[f].group = NoTx
          /\ p \in LiveRows(tx)
          /\ tx[p].source = "MANUAL" \/ tx[p].source = "ADJUSTMENT"
          /\ tx[p].group \in {NoTx, p}
          /\ feeLinesOf(tx, {p}) = {f}
      BY <3>1 DEF FeeLineIntegrity
    <3>3. p \in LiveRows(tx') /\ p \in Txs
      BY <1>13, <2>3, <3>1, <3>2 DEF LiveRows
    <3>4. feeLinesOf(tx', {p}) = {f}
      BY <2>1, <2>3, <3>1, <3>2 DEF feeLinesOf, LiveRows
    <3>. QED
      BY <2>1, <3>1, <3>2, <3>3, <3>4
  <2>7. RowsOnLiveAccounts'
    BY <1>13, <2>1, <2>3 DEF RowsOnLiveAccounts, LiveRows, AccountLive, accountVars
  <2>. QED
    BY <2>2, <2>5, <2>6, <2>7
<1>14. ASSUME NEW t \in Txs, NEW allow, RemoveTx(t, allow)
       PROVE  Provenance' /\ TransferPaired' /\ FeeLineIntegrity' /\ RowsOnLiveAccounts'
  <2>. DEFINE S == {t} \union feeLinesOf(tx, {t})
  <2>1. tx' = softDelete(tx, S) /\ UNCHANGED accountVars /\ tx[t].group = NoTx /\ t \in LiveRows(tx)
    BY <1>14 DEF RemoveTx, Removable, feeCascade, LiveRows
  <2>2. \A u \in S : u \in LiveRows(tx) /\ feeLinesOf(tx, {u}) \subseteq S /\ tx[u].group = NoTx
    BY <2>1, <1>9 DEF feeLinesOf, LiveRows, FeeLineIntegrity, Provenance, FeeRows
  <2>. HIDE DEF S
  <2>. QED
    BY <1>13, <2>1, <2>2
<1>15. ASSUME NEW t \in Txs, RemoveTransfer(t)
       PROVE  Provenance' /\ TransferPaired' /\ FeeLineIntegrity' /\ RowsOnLiveAccounts'
  <2>. DEFINE legs == legsOf(tx, tx[t].group)
              S == legs \union feeLinesOf(tx, legs)
  <2>1. tx' = softDelete(tx, S) /\ UNCHANGED accountVars /\ tx[t].group # NoTx
    BY <1>15 DEF RemoveTransfer, transferLegs, feeCascade
  <2>2. \A u \in legs : /\ tx[u].group = tx[t].group /\ tx[u].source = "MANUAL"
                        /\ feeLinesOf(tx, {u}) \subseteq S
    BY <2>1 DEF legsOf, LiveRows, Provenance, LegRows, feeLinesOf
  <2>3. \A u \in feeLinesOf(tx, legs) : tx[u].group = NoTx /\ feeLinesOf(tx, {u}) = {}
    BY DEF legsOf, LiveRows, Provenance, FeeRows, LegRows, FeeLineIntegrity, feeLinesOf
  <2>4. \A u \in S : u \in LiveRows(tx)
    BY DEF legsOf, feeLinesOf
  <2>5. \A u \in S :
          feeLinesOf(tx, {u}) \subseteq S
          /\ (tx[u].group # NoTx => legsOf(tx, tx[u].group) \subseteq S)
    BY <2>2, <2>3
  <2>. HIDE DEF S
  <2>. QED
    BY <1>13, <2>1, <2>4, <2>5
<1>16. ASSUME NEW a \in Accounts, NEW actual \in Openings, NEW t \in Txs, Reconcile(a, actual, t)
       PROVE  Provenance' /\ TransferPaired' /\ FeeLineIntegrity' /\ RowsOnLiveAccounts'
  <2>1. PICK type \in Types, n \in Amounts : CreateTx(t, a, type, n, "ADJUSTMENT")
    BY <1>16 DEF Reconcile, storable, Types
  <2>. QED
    BY <2>1, CreateTxStructure DEF Sources
<1>. QED
  BY <1>1, <1>2, <1>3, <1>4, <1>5, <1>6, <1>8, <1>10, <1>11, <1>12, <1>14, <1>15, <1>16 DEF Next
-----------------------------------------------------------------------------
(* The balance argument *)

LEMMA NetOfTwo ==
  ASSUME NEW rows \in [Txs -> Row], NEW t \in Txs, NEW f \in Txs, t # f, NEW a
  PROVE  /\ Net(rows, {t, f}, a) = Effect(rows[t], a) + Effect(rows[f], a)
         /\ Effect(rows[t], a) \in Int /\ Effect(rows[f], a) \in Int
<1>1. Net(rows, {t} \union {f}, a) = Net(rows, {t}, a) + Net(rows, {f}, a)
  BY NetUnion
<1>2. {t} \union {f} = {t, f}
  OBVIOUS
<1>3. /\ Net(rows, {t}, a) = Effect(rows[t], a) /\ Effect(rows[t], a) \in Int
      /\ Net(rows, {f}, a) = Effect(rows[f], a) /\ Effect(rows[f], a) \in Int
  BY NetOfOne
<1>. QED
  BY <1>1, <1>2, <1>3

LEMMA NetOfThree ==
  ASSUME NEW rows \in [Txs -> Row], NEW t \in Txs, NEW u \in Txs, NEW f \in Txs,
         t # u, f \notin {t, u}, NEW a
  PROVE  /\ Net(rows, {t, u, f}, a) = Effect(rows[t], a) + Effect(rows[u], a) + Effect(rows[f], a)
         /\ Effect(rows[t], a) \in Int /\ Effect(rows[u], a) \in Int /\ Effect(rows[f], a) \in Int
<1>1. Net(rows, {t, u} \union {f}, a) = Net(rows, {t, u}, a) + Net(rows, {f}, a)
  BY NetUnion
<1>2. {t, u} \union {f} = {t, u, f}
  OBVIOUS
<1>3. /\ Net(rows, {t, u}, a) = Effect(rows[t], a) + Effect(rows[u], a)
      /\ Effect(rows[t], a) \in Int /\ Effect(rows[u], a) \in Int
  BY NetOfTwo
<1>4. Net(rows, {f}, a) = Effect(rows[f], a) /\ Effect(rows[f], a) \in Int
  BY NetOfOne
<1>. QED
  BY <1>1, <1>2, <1>3, <1>4

LEMMA AdjustAt ==
  ASSUME NEW bal \in [Accounts -> Int], NEW a \in Accounts, NEW d \in Int, NEW x \in Accounts
  PROVE  adjustBalance(bal, a, d)[x] = bal[x] + (IF a = x THEN d ELSE 0)
BY DEF adjustBalance

LEMMA EffectOfNone == ASSUME NEW a PROVE Effect(NoRow, a) = 0
BY DEF Effect, NoRow

LEMMA EffectOfLive ==
  ASSUME NEW a, NEW type, NEW n, NEW source, NEW group, NEW feeFor, NEW x
  PROVE  Effect(LiveRow(a, type, n, source, group, feeFor), x)
           = IF a = x THEN balanceDelta(type, n) ELSE 0
BY DEF Effect, LiveRow

LEMMA EffectOfFee ==
  ASSUME NEW a, NEW n, NEW p, NEW x
  PROVE  Effect(FeeRow(a, n, p), x) = IF a = x THEN -n ELSE 0
BY EffectOfLive DEF FeeRow, balanceDelta

(* The two adjustments of an update are the change of the row's effect. *)
LEMMA MovedBalanceAt ==
  ASSUME TypeOK, NEW t \in Txs, tx[t].state = "live", tx[t].account \in Accounts,
         NEW a \in Accounts, NEW n \in Amounts, NEW x \in Accounts
  PROVE  MovedBalance(t, a, n)[x]
           = balance[x] - Effect(tx[t], x) + Effect(MovedRow(t, a, n), x)
<1>1. tx[t].amount \in Int /\ n \in Int /\ balance \in [Accounts -> Int] /\ tx[t] \in Row
  BY AmountsInt DEF TypeOK, Row
<1>. DEFINE d == balanceDelta(tx[t].type, tx[t].amount)
            e == balanceDelta(tx[t].type, n)
            m == -d
            bal == adjustBalance(balance, tx[t].account, m)
<1>2. d \in Int /\ m \in Int /\ m = -d /\ e \in Int
  BY <1>1, DeltaInt
<1>3. Effect(tx[t], x) = IF tx[t].account = x THEN d ELSE 0
  BY DEF Effect
<1>4. Effect(MovedRow(t, a, n), x) = IF a = x THEN e ELSE 0
  BY <1>1 DEF Effect, MovedRow, Row
<1>5. MovedBalance(t, a, n) = adjustBalance(bal, a, e)
  BY DEF MovedBalance
<1>. HIDE DEF d, m, e
<1>6. /\ bal \in [Accounts -> Int]
      /\ bal[x] = balance[x] + (IF tx[t].account = x THEN m ELSE 0)
  <2>1. bal \in [Accounts -> Int]
    BY <1>1, <1>2, AdjustType
  <2>2. bal[x] = balance[x] + (IF tx[t].account = x THEN m ELSE 0)
    BY <1>1, <1>2, AdjustAt
  <2>. QED
    BY <2>1, <2>2
<1>. HIDE DEF bal
<1>7. adjustBalance(bal, a, e)[x] = bal[x] + (IF a = x THEN e ELSE 0)
  BY <1>2, <1>6, AdjustAt
<1>8. balance[x] \in Int
  BY <1>1
<1>. QED
  BY <1>2, <1>3, <1>4, <1>5, <1>6, <1>7, <1>8

(* The obligation of a step: on every account the balance moves by what    *)
(* the net sum over the changed rows does.                                 *)
LEMMA BalanceFromRows ==
  ASSUME TypeOK, TypeOK', BalanceDerived, opening' = opening, NEW S \in SUBSET Txs,
         \A t \in Txs \ S : tx'[t] = tx[t],
         \A x \in Accounts : balance'[x] = balance[x] - Net(tx, S, x) + Net(tx', S, x)
  PROVE  BalanceDerived'
<1>. SUFFICES ASSUME NEW x \in Accounts
              PROVE  balance'[x] = opening'[x] + Net(tx', Txs, x)
  BY DEF BalanceDerived, computedMinor
<1>1. Net(tx', Txs, x) = Net(tx, Txs, x) - Net(tx, S, x) + Net(tx', S, x)
  BY NetChange
<1>2. balance[x] = opening[x] + Net(tx, Txs, x)
  BY DEF BalanceDerived, computedMinor
<1>3. /\ Net(tx, Txs, x) \in Int /\ Net(tx, S, x) \in Int /\ Net(tx', S, x) \in Int
      /\ opening[x] \in Int
  BY NetInt DEF TypeOK
<1>. QED
  BY <1>1, <1>2, <1>3

LEMMA CreateTxBalance ==
  ASSUME TypeOK, TypeOK', Provenance, BalanceDerived, NEW t \in Txs, NEW a \in Accounts,
         NEW type \in Types, NEW n \in Amounts, NEW s, CreateTx(t, a, type, n, s)
  PROVE  BalanceDerived'
<1>. DEFINE r == LiveRow(a, type, n, s, NoTx, NoTx)
            d == balanceDelta(type, n)
<1>1. /\ tx \in [Txs -> Row] /\ tx' \in [Txs -> Row] /\ balance \in [Accounts -> Int]
      /\ tx[t] = NoRow /\ tx'[t] = r /\ \A u \in Txs \ {t} : tx'[u] = tx[u]
      /\ balance' = adjustBalance(balance, a, d) /\ opening' = opening
  BY DEF TypeOK, Provenance, UnusedRows, CreateTx, Fresh, accountVars
<1>2. d \in Int
  BY DeltaInt, AmountsInt
<1>3. ASSUME NEW x \in Accounts
      PROVE  balance'[x] = balance[x] - Net(tx, {t}, x) + Net(tx', {t}, x)
  <2>1. Net(tx, {t}, x) = 0
    BY <1>1, NetOfOne, EffectOfNone
  <2>2. Net(tx', {t}, x) = IF a = x THEN d ELSE 0
    BY <1>1, NetOfOne, EffectOfLive
  <2>3. balance'[x] = balance[x] + (IF a = x THEN d ELSE 0)
    BY <1>1, <1>2, AdjustAt
  <2>. HIDE DEF d
  <2>. QED
    BY <1>1, <1>2, <2>1, <2>2, <2>3
<1>. QED
  BY <1>1, <1>3, BalanceFromRows

LEMMA BalanceStep ==
  ASSUME Structure, Structure', BalanceDerived, Next
  PROVE  BalanceDerived'
<1>. USE ReferenceAssumption
<1>. /\ TypeOK /\ TypeOK' /\ Provenance
     /\ tx \in [Txs -> Row] /\ tx' \in [Txs -> Row] /\ balance \in [Accounts -> Int]
  BY DEF Structure, TypeOK
<1>1. ASSUME NEW a \in Accounts, NEW o \in Openings, CreateAccount(a, o)
      PROVE  BalanceDerived'
  <2>. SUFFICES ASSUME NEW x \in Accounts
                PROVE  balance'[x] = opening'[x] + Net(tx, Txs, x)
    BY <1>1 DEF CreateAccount, BalanceDerived, computedMinor
  <2>1. CASE x # a
    BY <1>1, <2>1 DEF CreateAccount, BalanceDerived, computedMinor, TypeOK
  <2>2. CASE x = a
    <3>1. \A t \in LiveRows(tx) : tx[t].account # a
      BY <1>1 DEF CreateAccount, Structure, RowsOnLiveAccounts, AccountLive
    <3>2. OnAccount(tx, Txs, x, "INCOME") = {} /\ OnAccount(tx, Txs, x, "EXPENSE") = {}
      BY <2>2, <3>1 DEF OnAccount, LiveRows
    <3>3. Net(tx, Txs, x) = Total(tx, {}) - Total(tx, {})
      BY <3>2 DEF Net
    <3>4. Net(tx, Txs, x) = 0
      BY <3>3, TotalOfNone
    <3>5. balance'[x] = o /\ opening'[x] = o /\ o \in Int
      BY <1>1, <2>2, OpeningsAssumption DEF CreateAccount, TypeOK
    <3>. QED
      BY <3>4, <3>5
  <2>. QED
    BY <2>1, <2>2
<1>2. ASSUME NEW a \in Accounts, RemoveAccount(a)
      PROVE  BalanceDerived'
  BY <1>2 DEF RemoveAccount, BalanceDerived, computedMinor
<1>3. ASSUME NEW t \in Txs, NEW a \in Accounts, NEW type \in Types, NEW n \in Amounts,
             NEW s, CreateTx(t, a, type, n, s)
      PROVE  BalanceDerived'
  BY <1>3, CreateTxBalance
<1>4. ASSUME NEW t \in Txs, NEW f \in Txs, NEW a \in Accounts, NEW type \in Types,
             NEW n \in Amounts, NEW fee \in Amounts, CreateTxWithFee(t, f, a, type, n, fee)
      PROVE  BalanceDerived'
  <2>. DEFINE r == LiveRow(a, type, n, "MANUAL", NoTx, NoTx)
              q == FeeRow(a, fee, t)
              d == balanceDelta(type, n)
              m == -fee
              bal == adjustBalance(balance, a, d)
  <2>1. /\ t # f /\ tx[t] = NoRow /\ tx[f] = NoRow /\ tx'[t] = r /\ tx'[f] = q
        /\ \A u \in Txs \ {t, f} : tx'[u] = tx[u]
        /\ balance' = adjustBalance(bal, a, m) /\ opening' = opening
    BY <1>4 DEF CreateTxWithFee, Provenance, UnusedRows, Fresh, accountVars
  <2>2. d \in Int /\ m \in Int /\ m = -fee
    BY DeltaInt, AmountsInt
  <2>3. ASSUME NEW x \in Accounts
        PROVE  balance'[x] = balance[x] - Net(tx, {t, f}, x) + Net(tx', {t, f}, x)
    <3>1. Net(tx, {t, f}, x) = Effect(NoRow, x) + Effect(NoRow, x)
      BY <2>1, NetOfTwo
    <3>2. Net(tx', {t, f}, x) = Effect(r, x) + Effect(q, x)
      BY <2>1, NetOfTwo
    <3>3. Effect(r, x) = (IF a = x THEN d ELSE 0) /\ Effect(q, x) = (IF a = x THEN m ELSE 0)
      BY EffectOfLive, EffectOfFee
    <3>. HIDE DEF r, q, d, m
    <3>4. bal \in [Accounts -> Int] /\ bal[x] = balance[x] + (IF a = x THEN d ELSE 0)
      <4>1. bal \in [Accounts -> Int]
        BY <2>2, AdjustType
      <4>2. bal[x] = balance[x] + (IF a = x THEN d ELSE 0)
        BY <2>2, AdjustAt
      <4>. QED
        BY <4>1, <4>2
    <3>. HIDE DEF bal
    <3>5. balance'[x] = bal[x] + (IF a = x THEN m ELSE 0)
      BY <2>1, <2>2, <3>4, AdjustAt
    <3>6. balance[x] \in Int
      OBVIOUS
    <3>. QED
      BY <2>2, <3>1, <3>2, <3>3, <3>4, <3>5, <3>6, EffectOfNone
  <2>. HIDE DEF r, q, d, m, bal
  <2>. QED
    BY <2>1, <2>3, BalanceFromRows
<1>5. ASSUME NEW from \in Accounts, NEW to \in Accounts, NEW n \in Amounts, NEW x \in Accounts
      PROVE  /\ TransferBalance(from, to, n) \in [Accounts -> Int]
             /\ TransferBalance(from, to, n)[x]
                  = balance[x] + (IF from = x THEN -n ELSE 0) + (IF to = x THEN n ELSE 0)
  <2>. DEFINE m == -n
              bal == adjustBalance(balance, from, m)
  <2>1. m \in Int /\ m = -n /\ n \in Int
    BY AmountsInt
  <2>. HIDE DEF m
  <2>2. bal \in [Accounts -> Int] /\ bal[x] = balance[x] + (IF from = x THEN m ELSE 0)
    <3>1. bal \in [Accounts -> Int]
      BY <2>1, AdjustType
    <3>2. bal[x] = balance[x] + (IF from = x THEN m ELSE 0)
      BY <2>1, AdjustAt
    <3>. QED
      BY <3>1, <3>2
  <2>3. TransferBalance(from, to, n) = adjustBalance(bal, to, n)
    BY DEF TransferBalance, m
  <2>. HIDE DEF bal
  <2>4. /\ adjustBalance(bal, to, n) \in [Accounts -> Int]
        /\ adjustBalance(bal, to, n)[x] = bal[x] + (IF to = x THEN n ELSE 0)
    <3>1. adjustBalance(bal, to, n) \in [Accounts -> Int]
      BY <2>1, <2>2, AdjustType
    <3>2. adjustBalance(bal, to, n)[x] = bal[x] + (IF to = x THEN n ELSE 0)
      BY <2>1, <2>2, AdjustAt
    <3>. QED
      BY <3>1, <3>2
  <2>. QED
    BY <2>1, <2>2, <2>3, <2>4
<1>6. ASSUME NEW out \in Txs, NEW in \in Txs, NEW from \in Accounts, NEW to \in Accounts,
             NEW n \in Amounts, Transfer(out, in, from, to, n)
      PROVE  BalanceDerived'
  <2>. DEFINE r == LiveRow(from, "EXPENSE", n, "MANUAL", out, NoTx)
              q == LiveRow(to, "INCOME", n, "MANUAL", out, NoTx)
  <2>1. /\ out # in /\ tx[out] = NoRow /\ tx[in] = NoRow /\ tx'[out] = r /\ tx'[in] = q
        /\ \A u \in Txs \ {out, in} : tx'[u] = tx[u]
        /\ balance' = TransferBalance(from, to, n) /\ opening' = opening
    BY <1>6 DEF Transfer, TransferRows, Provenance, UnusedRows, Fresh, accountVars
  <2>2. ASSUME NEW x \in Accounts
        PROVE  balance'[x] = balance[x] - Net(tx, {out, in}, x) + Net(tx', {out, in}, x)
    <3>1. Net(tx, {out, in}, x) = Effect(NoRow, x) + Effect(NoRow, x)
      BY <2>1, NetOfTwo
    <3>2. Net(tx', {out, in}, x) = Effect(r, x) + Effect(q, x)
      BY <2>1, NetOfTwo
    <3>3. /\ Effect(r, x) = (IF from = x THEN -n ELSE 0)
          /\ Effect(q, x) = (IF to = x THEN n ELSE 0)
      BY EffectOfLive DEF balanceDelta
    <3>. HIDE DEF r, q
    <3>4. balance'[x] = balance[x] + (IF from = x THEN -n ELSE 0) + (IF to = x THEN n ELSE 0)
      BY <1>5, <2>1
    <3>5. balance[x] \in Int /\ n \in Int
      BY AmountsInt
    <3>. QED
      BY <3>1, <3>2, <3>3, <3>4, <3>5, EffectOfNone
  <2>. HIDE DEF r, q
  <2>. QED
    BY <2>1, <2>2, BalanceFromRows
<1>7. ASSUME NEW out \in Txs, NEW in \in Txs, NEW f \in Txs, NEW from \in Accounts,
             NEW to \in Accounts, NEW n \in Amounts, NEW fee \in Amounts,
             TransferWithFee(out, in, f, from, to, n, fee)
      PROVE  BalanceDerived'
  <2>. DEFINE r == LiveRow(from, "EXPENSE", n, "MANUAL", out, NoTx)
              q == LiveRow(to, "INCOME", n, "MANUAL", out, NoTx)
              p == FeeRow(from, fee, out)
              m == -fee
              bal == TransferBalance(from, to, n)
  <2>1. /\ out # in /\ f \notin {out, in}
        /\ tx[out] = NoRow /\ tx[in] = NoRow /\ tx[f] = NoRow
        /\ tx'[out] = r /\ tx'[in] = q /\ tx'[f] = p
        /\ \A u \in Txs \ {out, in, f} : tx'[u] = tx[u]
        /\ balance' = adjustBalance(bal, from, m) /\ opening' = opening
    BY <1>7 DEF TransferWithFee, TransferRows, Provenance, UnusedRows, Fresh, accountVars
  <2>2. m \in Int /\ m = -fee /\ n \in Int
    BY AmountsInt
  <2>3. ASSUME NEW x \in Accounts
        PROVE  balance'[x] = balance[x] - Net(tx, {out, in, f}, x) + Net(tx', {out, in, f}, x)
    <3>1. Net(tx, {out, in, f}, x) = Effect(NoRow, x) + Effect(NoRow, x) + Effect(NoRow, x)
      BY <2>1, NetOfThree
    <3>2. Net(tx', {out, in, f}, x) = Effect(r, x) + Effect(q, x) + Effect(p, x)
      BY <2>1, NetOfThree
    <3>3. /\ Effect(r, x) = (IF from = x THEN -n ELSE 0)
          /\ Effect(q, x) = (IF to = x THEN n ELSE 0)
          /\ Effect(p, x) = (IF from = x THEN m ELSE 0)
      BY EffectOfLive, EffectOfFee DEF balanceDelta
    <3>4. /\ bal \in [Accounts -> Int]
          /\ bal[x] = balance[x] + (IF from = x THEN -n ELSE 0) + (IF to = x THEN n ELSE 0)
      BY <1>5
    <3>. HIDE DEF r, q, p, m, bal
    <3>5. balance'[x] = bal[x] + (IF from = x THEN m ELSE 0)
      BY <2>1, <2>2, <3>4, AdjustAt
    <3>6. balance[x] \in Int
      OBVIOUS
    <3>. QED
      BY <2>2, <3>1, <3>2, <3>3, <3>4, <3>5, <3>6, EffectOfNone
  <2>. HIDE DEF r, q, p, m, bal
  <2>. QED
    BY <2>1, <2>3, BalanceFromRows
<1>8. ASSUME NEW t \in Txs, NEW a \in Accounts, NEW n \in Amounts, Editable(t)
      PROVE  /\ MovedBalance(t, a, n) \in [Accounts -> Int]
             /\ \A x \in Accounts : MovedBalance(t, a, n)[x]
                  = balance[x] - Effect(tx[t], x) + Effect(MovedRow(t, a, n), x)
  <2>1. tx[t].account \in Accounts /\ tx[t].state = "live"
    BY <1>8 DEF Editable, Provenance, InsertedRows
  <2>. QED
    BY <2>1, MovedBalanceType, MovedBalanceAt
<1>9. ASSUME NEW t \in Txs, NEW a \in Accounts, NEW n \in Amounts, UpdateTx(t, a, n)
      PROVE  BalanceDerived'
  <2>1. /\ tx'[t] = MovedRow(t, a, n) /\ \A u \in Txs \ {t} : tx'[u] = tx[u]
        /\ balance' = MovedBalance(t, a, n) /\ opening' = opening /\ Editable(t)
    BY <1>9 DEF UpdateTx, accountVars
  <2>2. ASSUME NEW x \in Accounts
        PROVE  balance'[x] = balance[x] - Net(tx, {t}, x) + Net(tx', {t}, x)
    <3>1. Net(tx, {t}, x) = Effect(tx[t], x) /\ Net(tx', {t}, x) = Effect(tx'[t], x)
      BY NetOfOne
    <3>. QED
      BY <1>8, <2>1, <3>1
  <2>. QED
    BY <2>1, <2>2, BalanceFromRows
<1>10. ASSUME NEW t \in Txs, NEW f \in feeLinesOf(tx, {t}), Editable(t)
       PROVE  /\ f \in Txs /\ f # t /\ tx[f].state = "live" /\ tx[f].type = "EXPENSE"
              /\ tx[f].account \in Accounts /\ tx[f].amount \in Int
              /\ \A x : Effect(tx[f], x) = IF tx[f].account = x THEN -tx[f].amount ELSE 0
  <2>1. /\ f \in Txs /\ f # t /\ tx[f].state = "live" /\ tx[f].type = "EXPENSE"
        /\ tx[f].account \in Accounts /\ tx[f].amount \in Int
    BY <1>10, AmountsInt DEF feeLinesOf, LiveRows, Editable, Provenance, InsertedRows, FeeRows
  <2>. QED
    BY <2>1 DEF Effect, balanceDelta
<1>10a. ASSUME NEW t \in Txs, NEW f \in Txs, t # f, NEW x
       PROVE  /\ Net(tx, {t, f}, x) = Effect(tx[t], x) + Effect(tx[f], x)
              /\ Effect(tx[t], x) \in Int /\ Effect(tx[f], x) \in Int
  BY <1>10a, NetOfTwo
<1>11. ASSUME NEW t \in Txs, NEW f \in Txs, NEW a \in Accounts, NEW n \in Amounts,
              UpdateDropFee(t, f, a, n)
       PROVE  BalanceDerived'
  <2>. DEFINE r == MovedRow(t, a, n)
              q == deletedRow(tx[f])
              bal == MovedBalance(t, a, n)
  <2>1. /\ Editable(t) /\ f \in feeLinesOf(tx, {t})
        /\ balance' = adjustBalance(bal, tx[f].account, tx[f].amount) /\ opening' = opening
    BY <1>11 DEF UpdateDropFee, accountVars
  <2>0. /\ t # f /\ f # t /\ tx[f].account \in Accounts /\ tx[f].amount \in Int
        /\ \A x : Effect(tx[f], x) = IF tx[f].account = x THEN -tx[f].amount ELSE 0
    BY <1>10, <2>1
  <2>2. tx'[t] = r /\ tx'[f] = q /\ \A u \in Txs \ {t, f} : tx'[u] = tx[u]
    BY <1>11, <2>0 DEF UpdateDropFee
  <2>3. ASSUME NEW x \in Accounts
        PROVE  balance'[x] = balance[x] - Net(tx, {t, f}, x) + Net(tx', {t, f}, x)
    <3>1. /\ Net(tx, {t, f}, x) = Effect(tx[t], x) + Effect(tx[f], x)
          /\ Effect(tx[t], x) \in Int
      BY <1>10a, <2>0
    <3>2. /\ Net(tx', {t, f}, x) = Effect(r, x) + Effect(q, x)
          /\ Effect(r, x) \in Int
      BY <2>0, <2>1, <2>2, NetOfTwo
    <3>3. Effect(q, x) = 0
      BY DEF Effect, deletedRow, Row
    <3>4. bal \in [Accounts -> Int] /\ bal[x] = balance[x] - Effect(tx[t], x) + Effect(r, x)
      BY <1>8, <2>1
    <3>. HIDE DEF r, q, bal
    <3>5. balance'[x] = bal[x] + (IF tx[f].account = x THEN tx[f].amount ELSE 0)
      BY <2>0, <2>1, <3>4, AdjustAt
    <3>6. balance[x] \in Int
      OBVIOUS
    <3>. QED
      BY <2>0, <2>1, <3>1, <3>2, <3>3, <3>4, <3>5, <3>6
  <2>. HIDE DEF r, q, bal
  <2>. QED
    BY <2>1, <2>2, <2>3, BalanceFromRows
<1>12. ASSUME NEW t \in Txs, NEW f \in Txs, NEW a \in Accounts, NEW n \in Amounts,
              NEW fee \in Amounts, UpdateChangeFee(t, f, a, n, fee)
       PROVE  BalanceDerived'
  <2>. DEFINE r == MovedRow(t, a, n)
              q == MovedRow(f, a, fee)
              m == -fee
              bal == MovedBalance(t, a, n)
              bal2 == adjustBalance(bal, tx[f].account, tx[f].amount)
  <2>1. /\ Editable(t) /\ f \in feeLinesOf(tx, {t})
        /\ balance' = adjustBalance(bal2, a, m) /\ opening' = opening
    BY <1>12 DEF UpdateChangeFee, accountVars
  <2>0. /\ t # f /\ f # t /\ tx[f].account \in Accounts /\ tx[f].amount \in Int
        /\ \A x : Effect(tx[f], x) = IF tx[f].account = x THEN -tx[f].amount ELSE 0
    BY <1>10, <2>1
  <2>2. tx'[t] = r /\ tx'[f] = q /\ \A u \in Txs \ {t, f} : tx'[u] = tx[u]
    BY <1>12, <2>0 DEF UpdateChangeFee
  <2>3. m \in Int /\ m = -fee
    BY AmountsInt
  <2>4. ASSUME NEW x \in Accounts
        PROVE  balance'[x] = balance[x] - Net(tx, {t, f}, x) + Net(tx', {t, f}, x)
    <3>1. /\ Net(tx, {t, f}, x) = Effect(tx[t], x) + Effect(tx[f], x)
          /\ Effect(tx[t], x) \in Int
      BY <1>10a, <2>0
    <3>2. /\ Net(tx', {t, f}, x) = Effect(r, x) + Effect(q, x)
          /\ Effect(r, x) \in Int
      BY <2>0, <2>1, <2>2, NetOfTwo
    <3>3. Effect(q, x) = IF a = x THEN m ELSE 0
      <4>1. q.state = "live" /\ q.type = "EXPENSE" /\ q.account = a /\ q.amount = fee
        BY <1>10, <2>1 DEF MovedRow, Row
      <4>. QED
        BY <4>1 DEF Effect, balanceDelta
    <3>4. bal \in [Accounts -> Int] /\ bal[x] = balance[x] - Effect(tx[t], x) + Effect(r, x)
      BY <1>8, <2>1
    <3>. HIDE DEF r, q, m, bal
    <3>5. /\ bal2 \in [Accounts -> Int]
          /\ bal2[x] = bal[x] + (IF tx[f].account = x THEN tx[f].amount ELSE 0)
      <4>1. bal2 \in [Accounts -> Int]
        BY <2>0, <3>4, AdjustType
      <4>2. bal2[x] = bal[x] + (IF tx[f].account = x THEN tx[f].amount ELSE 0)
        BY <2>0, <3>4, AdjustAt
      <4>. QED
        BY <4>1, <4>2
    <3>. HIDE DEF bal2
    <3>6. balance'[x] = bal2[x] + (IF a = x THEN m ELSE 0)
      BY <2>1, <2>3, <3>5, AdjustAt
    <3>7. balance[x] \in Int
      OBVIOUS
    <3>. QED
      BY <2>0, <2>1, <2>3, <3>1, <3>2, <3>3, <3>4, <3>5, <3>6, <3>7
  <2>. HIDE DEF r, q, m, bal, bal2
  <2>. QED
    BY <2>1, <2>2, <2>4, BalanceFromRows
<1>13. ASSUME NEW t \in Txs, NEW f \in Txs, NEW a \in Accounts, NEW n \in Amounts,
              NEW fee \in Amounts, UpdateAddFee(t, f, a, n, fee)
       PROVE  BalanceDerived'
  <2>. DEFINE r == MovedRow(t, a, n)
              q == FeeRow(a, fee, t)
              m == -fee
              bal == MovedBalance(t, a, n)
  <2>1. /\ Editable(t) /\ t # f /\ tx[f] = NoRow
        /\ tx'[t] = r /\ tx'[f] = q /\ \A u \in Txs \ {t, f} : tx'[u] = tx[u]
        /\ balance' = adjustBalance(bal, a, m) /\ opening' = opening
    BY <1>13 DEF UpdateAddFee, Fresh, Provenance, UnusedRows, accountVars
  <2>2. m \in Int /\ m = -fee
    BY AmountsInt
  <2>3. ASSUME NEW x \in Accounts
        PROVE  balance'[x] = balance[x] - Net(tx, {t, f}, x) + Net(tx', {t, f}, x)
    <3>1. /\ Net(tx, {t, f}, x) = Effect(tx[t], x) + Effect(NoRow, x)
          /\ Effect(tx[t], x) \in Int
      <4>1. /\ Net(tx, {t, f}, x) = Effect(tx[t], x) + Effect(tx[f], x)
            /\ Effect(tx[t], x) \in Int
        BY <1>10a, <2>1
      <4>. QED
        BY <2>1, <4>1
    <3>2. /\ Net(tx', {t, f}, x) = Effect(r, x) + Effect(q, x)
          /\ Effect(r, x) \in Int
      BY <2>1, NetOfTwo
    <3>3. Effect(q, x) = IF a = x THEN m ELSE 0
      BY EffectOfFee
    <3>4. bal \in [Accounts -> Int] /\ bal[x] = balance[x] - Effect(tx[t], x) + Effect(r, x)
      BY <1>8, <2>1
    <3>. HIDE DEF r, q, m, bal
    <3>5. balance'[x] = bal[x] + (IF a = x THEN m ELSE 0)
      BY <2>1, <2>2, <3>4, AdjustAt
    <3>6. balance[x] \in Int
      OBVIOUS
    <3>. QED
      BY <2>2, <3>1, <3>2, <3>3, <3>4, <3>5, <3>6, EffectOfNone
  <2>. HIDE DEF r, q, m, bal
  <2>. QED
    BY <2>1, <2>3, BalanceFromRows
<1>14. ASSUME NEW S \in SUBSET Txs, NEW fees \in SUBSET Txs, S \cap fees = {},
              tx' = softDelete(tx, S \union fees), opening' = opening,
              \A f \in fees : tx[f].state = "live" /\ tx[f].type = "EXPENSE",
              NEW bal \in [Accounts -> Int], balance' = FeesRestored(bal, fees),
              \A x \in Accounts : bal[x] = balance[x] - Net(tx, S, x)
       PROVE  BalanceDerived'
  <2>1. \A t \in Txs \ (S \union fees) : tx'[t] = tx[t]
    BY <1>14 DEF softDelete
  <2>2. ASSUME NEW x \in Accounts
        PROVE  balance'[x] = balance[x] - Net(tx, S \union fees, x) + Net(tx', S \union fees, x)
    <3>1. \A t \in S \union fees : tx'[t].state # "live"
      BY <1>14 DEF softDelete, deletedRow, Row
    <3>2. Net(tx', S \union fees, x) = 0
      BY <3>1, NetOfDead
    <3>3. Net(tx, S \union fees, x) = Net(tx, S, x) + Net(tx, fees, x)
      BY <1>14, NetUnion
    <3>4. Net(tx, fees, x) = -FeesOn(tx, fees, x) /\ FeesOn(tx, fees, x) \in Int
      BY <1>14, NetOfExpenses
    <3>5. balance'[x] = bal[x] + FeesOn(tx, fees, x)
      BY <1>14 DEF FeesRestored
    <3>6. Net(tx, S, x) \in Int /\ balance[x] \in Int
      BY NetInt
    <3>. QED
      BY <1>14, <3>2, <3>3, <3>4, <3>5, <3>6
  <2>. QED
    BY <1>14, <2>1, <2>2, BalanceFromRows
<1>15. ASSUME NEW S \in SUBSET Txs
       PROVE  /\ feeLinesOf(tx, S) \in SUBSET Txs
              /\ \A f \in feeLinesOf(tx, S) : tx[f].state = "live" /\ tx[f].type = "EXPENSE"
                                             /\ tx[f].source = "FEE" /\ tx[f].group = NoTx
  BY DEF feeLinesOf, LiveRows, Provenance, FeeRows
<1>16. ASSUME NEW t \in Txs, NEW allow, RemoveTx(t, allow)
       PROVE  BalanceDerived'
  <2>. DEFINE fees == feeLinesOf(tx, {t})
              e == balanceDelta(tx[t].type, tx[t].amount)
              d == -e
              bal == adjustBalance(balance, tx[t].account, d)
  <2>1. /\ tx' = softDelete(tx, {t} \union fees) /\ balance' = FeesRestored(bal, fees)
        /\ opening' = opening /\ tx[t].state = "live" /\ tx[t].source # "FEE"
    BY <1>16 DEF RemoveTx, Removable, feeCascade, accountVars
  <2>2. {t} \cap fees = {}
    BY <1>15, <2>1
  <2>3. tx[t].account \in Accounts /\ tx[t].amount \in Int
    BY <2>1, AmountsInt DEF Provenance, InsertedRows
  <2>4. d \in Int
    BY <2>3, DeltaInt
  <2>5. ASSUME NEW x \in Accounts
        PROVE  Net(tx, {t}, x) = IF tx[t].account = x THEN e ELSE 0
    BY <2>1, NetOfOne DEF Effect
  <2>6. e \in Int /\ d = -e
    BY <2>3, DeltaInt
  <2>. HIDE DEF d, e
  <2>7. bal \in [Accounts -> Int]
    BY <2>3, <2>4, AdjustType
  <2>8. ASSUME NEW x \in Accounts PROVE bal[x] = balance[x] - Net(tx, {t}, x)
    <3>1. bal[x] = balance[x] + (IF tx[t].account = x THEN d ELSE 0)
      BY <2>3, <2>4, AdjustAt
    <3>2. balance[x] \in Int
      OBVIOUS
    <3>3. Net(tx, {t}, x) = IF tx[t].account = x THEN e ELSE 0
      BY <2>5
    <3>. HIDE DEF bal
    <3>. QED
      BY <2>6, <3>1, <3>2, <3>3
  <2>9. fees \in SUBSET Txs /\ \A f \in fees : tx[f].state = "live" /\ tx[f].type = "EXPENSE"
    BY <1>15
  <2>. HIDE DEF fees, bal
  <2>. QED
    BY <1>14, <2>1, <2>2, <2>7, <2>8, <2>9
<1>17. ASSUME NEW t \in Txs, RemoveTransfer(t)
       PROVE  BalanceDerived'
  <2>. DEFINE legs == legsOf(tx, tx[t].group)
              fees == feeLinesOf(tx, legs)
              bal == [a \in Accounts |-> balance[a] - Net(tx, legs, a)]
  <2>1. /\ tx' = softDelete(tx, legs \union fees) /\ balance' = FeesRestored(bal, fees)
        /\ opening' = opening /\ tx[t].group # NoTx
    BY <1>17 DEF RemoveTransfer, transferLegs, feeCascade, accountVars
  <2>2. legs \in SUBSET Txs /\ \A u \in legs : tx[u].group # NoTx
    BY <2>1 DEF legsOf, LiveRows
  <2>. HIDE DEF legs
  <2>3. ASSUME NEW x \in Accounts PROVE Net(tx, legs, x) \in Int
    BY <2>2, NetInt
  <2>4. bal \in [Accounts -> Int] /\ \A x \in Accounts : bal[x] = balance[x] - Net(tx, legs, x)
    BY <2>3
  <2>5. /\ fees \in SUBSET Txs /\ legs \cap fees = {}
        /\ \A f \in fees : tx[f].state = "live" /\ tx[f].type = "EXPENSE"
    BY <1>15, <2>2
  <2>. HIDE DEF fees, bal
  <2>. QED
    BY <1>14, <2>1, <2>2, <2>4, <2>5
<1>18. ASSUME NEW a \in Accounts, NEW actual \in Openings, NEW t \in Txs, Reconcile(a, actual, t)
       PROVE  BalanceDerived'
  <2>1. PICK type \in Types, n \in Amounts : CreateTx(t, a, type, n, "ADJUSTMENT")
    BY <1>18 DEF Reconcile, storable, Types
  <2>. QED
    BY <2>1, <1>3
<1>. QED
  BY <1>1, <1>2, <1>3, <1>4, <1>6, <1>7, <1>9, <1>11, <1>12, <1>13, <1>16, <1>17, <1>18 DEF Next

-----------------------------------------------------------------------------
(* The theorems *)

LEMMA InitIInv == Init => IInv
<1>. SUFFICES ASSUME Init PROVE IInv
  OBVIOUS
<1>1. tx = [t \in Txs |-> NoRow]
  BY DEF Init
<1>2. NoRow \in Row
  BY AmountAssumption DEF NoRow, Row, Types, Sources
<1>3. TypeOK
  BY <1>1, <1>2 DEF Init, TypeOK
<1>4. Provenance
  BY <1>1, EmptyRows DEF Provenance, UnusedRows, InsertedRows, FeeRows, FeeUnique, LegRows
<1>5. LiveRows(tx) = {}
  BY <1>1, EmptyRows DEF LiveRows
<1>6. TransferPaired /\ FeeLineIntegrity /\ RowsOnLiveAccounts
  BY <1>5 DEF TransferPaired, FeeLineIntegrity, RowsOnLiveAccounts
<1>7. ASSUME NEW a \in Accounts PROVE balance[a] = computedMinor(a)
  <2>1. Net(tx, Txs, a) = 0
    BY <1>1, EmptyRows, NetOfDead
  <2>2. opening[a] = 0 /\ balance[a] = 0
    BY DEF Init
  <2>. QED
    BY <2>1, <2>2 DEF computedMinor
<1>. QED
  BY <1>3, <1>4, <1>6, <1>7 DEF IInv, Structure, BalanceDerived

LEMMA StepIInv == IInv /\ [Next]_vars => IInv'
<1>. SUFFICES ASSUME IInv, [Next]_vars PROVE IInv'
  OBVIOUS
<1>1. CASE Next
  <2>1. TypeOK'
    BY TypeStep DEF IInv, Structure
  <2>2. Structure'
    BY <1>1, <2>1, StructureStep DEF IInv, Structure
  <2>3. BalanceDerived'
    BY <1>1, <2>2, BalanceStep DEF IInv
  <2>. QED
    BY <2>2, <2>3 DEF IInv
<1>2. CASE UNCHANGED vars
  BY <1>2 DEF vars, IInv, Structure, TypeOK, Provenance, UnusedRows, InsertedRows, FeeRows,
     FeeUnique, LegRows, TransferPaired, FeeLineIntegrity, RowsOnLiveAccounts, BalanceDerived,
     computedMinor, legsOf, feeLinesOf, LiveRows, AccountLive
<1>. QED
  BY <1>1, <1>2

LEMMA Inductive == Spec => []IInv
<1>1. Init => IInv
  BY InitIInv
<1>2. IInv /\ [Next]_vars => IInv'
  BY StepIInv
<1>. QED
  BY <1>1, <1>2, PTL DEF Spec

(* Every reachable state of the ledger is well typed. *)
THEOREM TypeCorrect == Spec => []TypeOK
<1>1. IInv => TypeOK
  BY DEF IInv, Structure
<1>. QED
  BY <1>1, Inductive, PTL

(* RG-A3: the maintained balance is always the one the drift check         *)
(* recomputes, for any accounts, ids, amounts and opening balances.        *)
THEOREM BalanceIsDerived == Spec => []BalanceDerived
<1>1. IInv => BalanceDerived
  BY DEF IInv
<1>. QED
  BY <1>1, Inductive, PTL

(* RG-T4: no sequence of requests leaves half a transfer.                  *)
THEOREM TransfersStayPaired == Spec => []TransferPaired
<1>1. IInv => TransferPaired
  BY DEF IInv, Structure
<1>. QED
  BY <1>1, Inductive, PTL

(* RG-T14: no sequence of requests orphans or duplicates a fee line.       *)
THEOREM FeesStayAttached == Spec => []FeeLineIntegrity
<1>1. IInv => FeeLineIntegrity
  BY DEF IInv, Structure
<1>. QED
  BY <1>1, Inductive, PTL

(* RG-A4: a live row is always on a live account.                          *)
THEOREM NoRowOnDeletedAccount == Spec => []RowsOnLiveAccounts
<1>1. IInv => RowsOnLiveAccounts
  BY DEF IInv, Structure
<1>. QED
  BY <1>1, Inductive, PTL

-----------------------------------------------------------------------------
(* Requests *)

(* What no request changes of a row once it is inserted.                   *)
SameRow(r, s) == r.type = s.type /\ r.source = s.source /\ r.group = s.group /\ r.feeFor = s.feeFor

RequestTypes == TypeOK /\ req \in [Workers -> Request] /\ outdated \subseteq Accounts

(* Accounts are not removed here, so even a deleted row is on a live one.  *)
RowsKept == Provenance /\ \A t \in Txs : tx[t].state # "none" => accountState[tx[t].account] = "live"

HeldRows(q) == q.rows \union q.fees

(* What request q read of its rows was live, and still is what cannot      *)
(* change.                                                                 *)
KnowsRows(rows, acc, q) == \A r \in HeldRows(q) :
  /\ q.seen[r].state = "live" /\ q.seen[r].account \in Accounts /\ acc[q.seen[r].account] = "live"
  /\ rows[r].state # "none" /\ SameRow(q.seen[r], rows[r])
  /\ r \in q.rows => q.seen[r].source \notin {"FEE", "DEBT_PAYMENT", "DEBT_CREATION"}
  /\ r \in q.fees => q.seen[r].feeFor \in q.rows

(* A single row, or all the legs of a transfer that are not deleted.       *)
KnowsLegs(rows, q) ==
  \/ q.rows = {}
  \/ \E t \in Txs : q.rows = {t} /\ q.seen[t].group = NoTx
  \/ \E g \in Txs : legsOf(rows, g) \subseteq q.rows /\ \A r \in q.rows : q.seen[r].group = g

Removing(rows, q) ==
  /\ q.to = NoAccount /\ q.pc \in {"group", "read", "ready", "tx", "deleted"}
  /\ q.pc # "group" => KnowsLegs(rows, q)
  /\ q.pc = "group" => \E t \in Txs : q.rows = {t} /\ q.seen[t].group # NoTx
  /\ q.pc = "deleted" => q.gone = HeldRows(q)

Updating(acc, q) ==
  /\ q.pc \in {"row", "read", "ready", "tx"}
  /\ q.to \in Accounts /\ acc[q.to] = "live" /\ q.n \in Amounts
  /\ q.fee \in {Omitted, 0} \union BookedAmounts
  /\ q.fee = Omitted => q.fees = {} /\ q.pc \in {"ready", "tx"}
  /\ q.fee # 0 => q.gone = {}
  /\ \E t \in Txs : q.rows = {t} /\ q.seen[t].group = NoTx

Reconciling(acc, q) ==
  q.pc = "ready" /\ q.rows = {} /\ q.to \in Accounts /\ acc[q.to] = "live"

Waits(q) == q.pc = "idle" /\ q.rows = {}

Sound(rows, acc, q) ==
  /\ KnowsRows(rows, acc, q)
  /\ q.kind = "remove" => Removing(rows, q)
  /\ q.kind = "update" => Updating(acc, q)
  /\ q.kind = "reconcile" => Reconciling(acc, q)
  /\ q.kind = "idle" => Waits(q)
  /\ q.pc \in {"idle", "group", "row", "read"} => q.fees = {}
  /\ q.pc \notin {"tx", "deleted"} => q.gone = {}
  /\ q.pc = "tx" => q.gone \subseteq q.fees

AllSound == \A w \in Workers : Sound(tx, accountState, req[w])

Inside(w) == req[w].pc \in {"tx", "deleted"}

(* The account rows of a SQL transaction are locked, by it alone.          *)
HoldsLocks ==
  /\ \A w \in Workers : Inside(w) => Touched(w) \subseteq req[w].locks
  /\ \A v, w \in Workers : v # w => req[v].locks \cap req[w].locks = {}

GoneAreDeleted == \A w \in Workers : \A f \in req[w].gone : tx[f].state = "deleted"

(* A row that lies where its deleter read it was deleted by it alone.      *)
DeletedOnce == \A v, w \in Workers : \A f \in req[v].gone \cap req[w].gone :
  v # w /\ tx[f].account = req[v].seen[f].account => tx[f].account \in outdated

RequestsInv ==
  /\ RequestTypes /\ RowsKept /\ AllSound
  /\ HoldsLocks /\ GoneAreDeleted /\ DeletedOnce /\ DriftExplained
-----------------------------------------------------------------------------
(* Sums over rows that differ off the account only. *)
Off(r, a) == ~(r.state = "live" /\ r.account = a)

LEMMA NetAgree ==
  ASSUME NEW rows, NEW rows2, NEW S \in SUBSET Txs, NEW a,
         \A t \in S : rows2[t] = rows[t] \/ (Off(rows[t], a) /\ Off(rows2[t], a))
  PROVE  Net(rows2, S, a) = Net(rows, S, a)
<1>1. ASSUME NEW type
      PROVE  Total(rows2, OnAccount(rows2, S, a, type)) = Total(rows, OnAccount(rows, S, a, type))
  <2>1. OnAccount(rows2, S, a, type) = OnAccount(rows, S, a, type)
    BY DEF OnAccount, Off
  <2>2. OnAccount(rows, S, a, type) \in SUBSET Txs
    BY DEF OnAccount
  <2>3. \A t \in OnAccount(rows, S, a, type) : rows2[t].amount = rows[t].amount
    BY DEF OnAccount, Off
  <2>. QED
    BY <2>1, <2>2, <2>3, TotalSame
<1>. QED
  BY <1>1 DEF Net

LEMMA NetOff ==
  ASSUME NEW rows, NEW S, NEW a, \A t \in S : Off(rows[t], a)
  PROVE  Net(rows, S, a) = 0
<1>1. OnAccount(rows, S, a, "INCOME") = {} /\ OnAccount(rows, S, a, "EXPENSE") = {}
  BY DEF OnAccount, Off
<1>2. Total(rows, {}) = 0
  BY TotalOfNone
<1>3. Net(rows, S, a) = Total(rows, {}) - Total(rows, {})
  BY <1>1 DEF Net
<1>. QED
  BY <1>2, <1>3

-----------------------------------------------------------------------------
(* The logical rows. *)
Flying(q) == IF q.kind = "remove" /\ q.rows \subseteq q.gone THEN {} ELSE q.gone

LEMMA FlyingIs == \A w \in Workers : InFlight(w) = Flying(req[w])
  BY DEF InFlight, Flying

LEMMA RequestIs ==
  ASSUME NEW q \in Request
  PROVE  /\ q.kind \in {"idle", "remove", "update", "reconcile"}
         /\ q.pc \in {"idle", "group", "row", "read", "ready", "tx", "deleted"}
         /\ q.rows \subseteq Txs /\ q.fees \subseteq Txs /\ q.gone \subseteq Txs
         /\ q.seen \in [Txs -> Row] /\ q.locks \subseteq Accounts
         /\ q.to \in Accounts \union {NoAccount} /\ q.n \in Int /\ q.fee \in Int
  BY DEF Request

LEMMA SoundFlight ==
  ASSUME RowsKept, NEW q \in Request, Sound(tx, accountState, q)
  PROVE  /\ q.rows \cap q.fees = {} /\ Flying(q) = (IF q.pc = "deleted" THEN {} ELSE q.gone)
         /\ Flying(q) \subseteq q.fees /\ q.gone \subseteq HeldRows(q)
         /\ q.rows = {} => q.fees = {}
         /\ \A f \in q.fees : tx[f].source = "FEE"
         /\ \A r \in q.rows : tx[r].source # "FEE"
<1>1. /\ \A f \in q.fees : tx[f].source = "FEE" /\ q.seen[f].feeFor \in q.rows
      /\ \A r \in q.rows : tx[r].source # "FEE"
  <2>1. ASSUME NEW f \in q.fees PROVE tx[f].source = "FEE" /\ q.seen[f].feeFor \in q.rows
    <3>1. q.seen[f].feeFor \in q.rows /\ tx[f].feeFor = q.seen[f].feeFor /\ f \in Txs
      BY RequestIs DEF Sound, KnowsRows, HeldRows, SameRow
    <3>2. tx[f].feeFor # NoTx
      BY <3>1, RequestIs, ReferenceAssumption
    <3>. QED
      BY <3>1, <3>2 DEF RowsKept, Provenance, FeeRows
  <2>. QED
    BY <2>1 DEF Sound, KnowsRows, HeldRows, SameRow
<1>2. q.rows \cap q.fees = {} /\ (q.rows = {} => q.fees = {})
  BY <1>1
<1>3. q.kind = "remove" \/ q.kind = "update" \/ q.kind = "reconcile" \/ q.kind = "idle"
  BY RequestIs
<1>4. CASE q.kind = "remove" /\ q.pc = "deleted"
  BY <1>1, <1>2, <1>4 DEF Sound, Removing, HeldRows, Flying
<1>5. CASE q.kind = "remove" /\ q.pc # "deleted"
  <2>1. q.gone \subseteq q.fees
    BY <1>5 DEF Sound
  <2>2. q.rows \subseteq q.gone => q.gone = {}
    BY <1>2, <2>1
  <2>. QED
    BY <1>1, <1>2, <1>5, <2>1, <2>2 DEF Flying, HeldRows
<1>6. CASE q.kind # "remove"
  <2>1. q.pc # "deleted" /\ q.gone \subseteq q.fees
    BY <1>3, <1>6 DEF Sound, Updating, Reconciling, Waits
  <2>. QED
    BY <1>1, <1>2, <1>6, <2>1 DEF Flying, HeldRows
<1>. QED
  BY <1>4, <1>5, <1>6

Aloft(t) == \E w \in Workers : t \in InFlight(w)

LEMMA LogicalRow ==
  ASSUME TypeOK, NEW t \in Txs
  PROVE  /\ logicalTx[t] \in Row /\ SameRow(logicalTx[t], tx[t])
         /\ logicalTx[t].account = tx[t].account /\ logicalTx[t].amount = tx[t].amount
         /\ logicalTx[t] = (IF Aloft(t) THEN [tx[t] EXCEPT !.state = "live"] ELSE tx[t])
         /\ logicalTx[t].state = (IF Aloft(t) THEN "live" ELSE tx[t].state)
         /\ tx[t].state = "live" => logicalTx[t] = tx[t]
<1>1. tx[t] \in Row
  BY DEF TypeOK
<1>2. logicalTx[t] = (IF Aloft(t) THEN [tx[t] EXCEPT !.state = "live"] ELSE tx[t])
  BY DEF logicalTx, Aloft
<1>. QED
  BY <1>1, <1>2 DEF Row, SameRow

LEMMA AloftIs ==
  ASSUME RequestTypes, RowsKept, AllSound, GoneAreDeleted, NEW t \in Txs, Aloft(t)
  PROVE  tx[t].source = "FEE" /\ tx[t].state = "deleted"
<1>1. PICK w \in Workers : t \in InFlight(w)
  BY DEF Aloft
<1>2. req[w] \in Request /\ Sound(tx, accountState, req[w]) /\ t \in Flying(req[w])
  BY <1>1, FlyingIs DEF RequestTypes, AllSound
<1>3. Flying(req[w]) \subseteq req[w].fees /\ Flying(req[w]) \subseteq req[w].gone
      /\ \A f \in req[w].fees : tx[f].source = "FEE"
  BY <1>2, SoundFlight DEF RequestTypes, Flying
<1>. QED
  BY <1>2, <1>3 DEF GoneAreDeleted

LEMMA LogicalIsTyped == TypeOK => logicalTx \in [Txs -> Row]
<1>. SUFFICES ASSUME TypeOK PROVE logicalTx \in [Txs -> Row]
  OBVIOUS
<1>1. \A t \in Txs : logicalTx[t] \in Row
  BY LogicalRow
<1>. QED
  BY <1>1 DEF logicalTx

(* The logical rows after a step of one request. *)
AloftBut(w, t) == \E v \in Workers \ {w} : t \in InFlight(v)

LEMMA LogicalStep ==
  ASSUME NEW w \in Workers, NEW q, req \in [Workers -> Request], req' = [req EXCEPT ![w] = q]
  PROVE  \A t \in Txs :
           /\ logicalTx'[t] = (IF t \in Flying(q) \/ AloftBut(w, t)
                               THEN [tx'[t] EXCEPT !.state = "live"] ELSE tx'[t])
           /\ Aloft(t) <=> t \in Flying(req[w]) \/ AloftBut(w, t)
<1>1. /\ InFlight(w)' = Flying(q)
      /\ \A v \in Workers \ {w} : InFlight(v)' = InFlight(v)
  BY DEF InFlight, Flying
<1>2. \A t \in Txs : (\E v \in Workers : t \in InFlight(v)') <=> t \in Flying(q) \/ AloftBut(w, t)
  BY <1>1 DEF AloftBut
<1>3. \A t \in Txs : logicalTx'[t] = (IF \E v \in Workers : t \in InFlight(v)'
                                      THEN [tx'[t] EXCEPT !.state = "live"] ELSE tx'[t])
  BY DEF logicalTx
<1>. QED
  BY <1>2, <1>3, FlyingIs DEF Aloft, AloftBut

-----------------------------------------------------------------------------
(* The logical balances. *)
TouchedOf(q) == {q.seen[r].account : r \in HeldRows(q)} \union ({q.to} \ {NoAccount})

LocksHeld(rq) ==
  /\ \A w \in Workers : rq[w].pc \in {"tx", "deleted"} => TouchedOf(rq[w]) \subseteq rq[w].locks
  /\ \A v, w \in Workers : v # w => rq[v].locks \cap rq[w].locks = {}

LEMMA HoldsLocksIs == (HoldsLocks <=> LocksHeld(req)) /\ \A w \in Workers : Touched(w) = TouchedOf(req[w])
  BY DEF HoldsLocks, LocksHeld, Inside, Touched, TouchedOf, HeldRows, Seen

ReversesOn(q, a) == q.kind = "remove" /\ q.pc = "deleted" /\ a \in q.locks

PendingOf(q, a) ==
  IF q.kind = "remove" /\ q.pc = "deleted" THEN Net(q.seen, HeldRows(q), a) ELSE 0

BalanceOf(rq, bal, a) ==
  IF \E w \in Workers : ReversesOn(rq[w], a)
  THEN LET w == CHOOSE w \in Workers : ReversesOn(rq[w], a)
       IN  bal[a] - Net(rq[w].seen, HeldRows(rq[w]), a)
  ELSE bal[a]

LEMMA LogicalBalanceIs ==
  /\ \A a \in Accounts : logicalBalance[a] = BalanceOf(req, balance, a)
  /\ \A a \in Accounts : logicalBalance'[a] = BalanceOf(req', balance', a)
  BY DEF logicalBalance, BalanceOf, Reverses, ReversesOn, At, Reversed, HeldRows

LEMMA PendingInt ==
  ASSUME NEW q \in Request, NEW a
  PROVE  PendingOf(q, a) \in Int
<1>1. HeldRows(q) \in SUBSET Txs
  BY RequestIs DEF HeldRows
<1>. QED
  BY <1>1, NetInt DEF PendingOf

LEMMA UntouchedIsZero ==
  ASSUME NEW q \in Request, NEW a \in Accounts, a \notin TouchedOf(q)
  PROVE  Net(q.seen, HeldRows(q), a) = 0 /\ PendingOf(q, a) = 0
<1>1. \A r \in HeldRows(q) : Off(q.seen[r], a)
  BY DEF TouchedOf, Off
<1>2. Net(q.seen, HeldRows(q), a) = 0
  BY <1>1, NetOff
<1>. QED
  BY <1>2 DEF PendingOf

(* A request whose reversal of the account is pending has it alone.        *)
LEMMA PendingIsAlone ==
  ASSUME NEW rq \in [Workers -> Request], LocksHeld(rq), NEW a \in Accounts,
         NEW v \in Workers, NEW w \in Workers, v # w, PendingOf(rq[v], a) # 0
  PROVE  PendingOf(rq[w], a) = 0
<1>1. rq[v].kind = "remove" /\ rq[v].pc = "deleted" /\ rq[v] \in Request /\ rq[w] \in Request
  BY DEF PendingOf
<1>2. a \in TouchedOf(rq[v])
  BY <1>1, UntouchedIsZero
<1>3. a \in rq[v].locks /\ a \notin rq[w].locks
  BY <1>1, <1>2 DEF LocksHeld
<1>4. CASE rq[w].pc = "deleted"
  <2>1. a \notin TouchedOf(rq[w])
    BY <1>3, <1>4 DEF LocksHeld
  <2>. QED
    BY <1>1, <2>1, UntouchedIsZero
<1>5. CASE rq[w].pc # "deleted"
  BY <1>5 DEF PendingOf
<1>. QED
  BY <1>4, <1>5

LEMMA BalanceIs ==
  ASSUME NEW rq \in [Workers -> Request], LocksHeld(rq), NEW bal \in [Accounts -> Int],
         NEW a \in Accounts, NEW w \in Workers,
         \A v \in Workers \ {w} : PendingOf(rq[v], a) = 0
  PROVE  BalanceOf(rq, bal, a) = bal[a] - PendingOf(rq[w], a)
<1>1. CASE \E v \in Workers : ReversesOn(rq[v], a)
  <2>1. PICK v \in Workers : v = CHOOSE x \in Workers : ReversesOn(rq[x], a)
    BY <1>1
  <2>2. ReversesOn(rq[v], a)
    BY <1>1, <2>1
  <2>3. BalanceOf(rq, bal, a) = bal[a] - PendingOf(rq[v], a)
    BY <1>1, <2>1, <2>2 DEF BalanceOf, PendingOf, ReversesOn
  <2>4. v # w => PendingOf(rq[w], a) = 0
    <3>. SUFFICES ASSUME v # w PROVE PendingOf(rq[w], a) = 0
      OBVIOUS
    <3>1. a \notin rq[w].locks /\ rq[w] \in Request
      BY <2>2 DEF ReversesOn, LocksHeld
    <3>2. rq[w].pc = "deleted" => a \notin TouchedOf(rq[w])
      BY <3>1 DEF LocksHeld
    <3>. QED
      BY <3>1, <3>2, UntouchedIsZero DEF PendingOf
  <2>. QED
    BY <2>3, <2>4
<1>2. CASE ~ \E v \in Workers : ReversesOn(rq[v], a)
  <2>1. BalanceOf(rq, bal, a) = bal[a]
    BY <1>2 DEF BalanceOf
  <2>2. rq[w] \in Request /\ (rq[w].kind = "remove" /\ rq[w].pc = "deleted" => a \notin rq[w].locks)
    BY <1>2 DEF ReversesOn
  <2>3. rq[w].kind = "remove" /\ rq[w].pc = "deleted" => a \notin TouchedOf(rq[w])
    BY <2>2 DEF LocksHeld
  <2>4. PendingOf(rq[w], a) = 0
    BY <2>2, <2>3, UntouchedIsZero DEF PendingOf
  <2>. QED
    BY <2>1, <2>4
<1>. QED
  BY <1>1, <1>2

(* A step of one request moves a logical balance by what it moves the      *)
(* stored one and its own reversal.                                        *)
LEMMA BalanceMoves ==
  ASSUME RequestTypes, HoldsLocks, balance' \in [Accounts -> Int],
         NEW w \in Workers, NEW q \in Request, req' = [req EXCEPT ![w] = q], LocksHeld(req'),
         NEW a \in Accounts
  PROVE  /\ logicalBalance[a] \in Int /\ balance[a] \in Int /\ balance'[a] \in Int
         /\ PendingOf(q, a) \in Int /\ PendingOf(req[w], a) \in Int
         /\ logicalBalance'[a] = (logicalBalance[a] + (balance'[a] - balance[a]))
                                   + (PendingOf(req[w], a) - PendingOf(q, a))
<1>1. PICK rq, rq2, bal, bal2 : rq = req /\ rq2 = req' /\ bal = balance /\ bal2 = balance'
  OBVIOUS
<1>2. /\ rq \in [Workers -> Request] /\ rq2 \in [Workers -> Request]
      /\ LocksHeld(rq) /\ LocksHeld(rq2) /\ bal \in [Accounts -> Int] /\ bal2 \in [Accounts -> Int]
      /\ rq2[w] = q /\ \A v \in Workers \ {w} : rq2[v] = rq[v]
  BY <1>1, HoldsLocksIs DEF RequestTypes, TypeOK
<1>3. /\ bal[a] \in Int /\ bal2[a] \in Int
      /\ \A v \in Workers : PendingOf(rq[v], a) \in Int /\ PendingOf(rq2[v], a) \in Int
  BY <1>2, PendingInt
<1>4. logicalBalance[a] = BalanceOf(rq, bal, a) /\ logicalBalance'[a] = BalanceOf(rq2, bal2, a)
  BY <1>1, LogicalBalanceIs
<1>5. /\ BalanceOf(rq, bal, a) \in Int
      /\ BalanceOf(rq2, bal2, a) = (BalanceOf(rq, bal, a) + (bal2[a] - bal[a]))
                                     + (PendingOf(rq[w], a) - PendingOf(q, a))
  <2>1. CASE \E v \in Workers \ {w} : PendingOf(rq[v], a) # 0
    <3>1. PICK v \in Workers \ {w} : PendingOf(rq[v], a) # 0
      BY <2>1
    <3>2. \A u \in Workers \ {v} : PendingOf(rq[u], a) = 0
      BY <1>2, <3>1, PendingIsAlone
    <3>3. PendingOf(rq2[v], a) # 0 /\ PendingOf(rq2[v], a) = PendingOf(rq[v], a)
      BY <1>2, <3>1
    <3>4. \A u \in Workers \ {v} : PendingOf(rq2[u], a) = 0
      BY <1>2, <3>3, PendingIsAlone
    <3>5. BalanceOf(rq, bal, a) = bal[a] - PendingOf(rq[v], a)
      BY <1>2, <3>2, BalanceIs
    <3>6. BalanceOf(rq2, bal2, a) = bal2[a] - PendingOf(rq2[v], a)
      BY <1>2, <3>4, BalanceIs
    <3>7. PendingOf(rq[w], a) = 0 /\ PendingOf(q, a) = 0
      BY <1>2, <3>2, <3>4
    <3>. QED
      BY <1>3, <3>3, <3>5, <3>6, <3>7
  <2>2. CASE \A v \in Workers \ {w} : PendingOf(rq[v], a) = 0
    <3>1. \A v \in Workers \ {w} : PendingOf(rq2[v], a) = 0
      BY <1>2, <2>2
    <3>2. BalanceOf(rq, bal, a) = bal[a] - PendingOf(rq[w], a)
      BY <1>2, <2>2, BalanceIs
    <3>3. BalanceOf(rq2, bal2, a) = bal2[a] - PendingOf(rq2[w], a)
      BY <1>2, <3>1, BalanceIs
    <3>. QED
      BY <1>2, <1>3, <3>2, <3>3
  <2>. QED
    BY <2>1, <2>2
<1>6. PendingOf(req[w], a) = PendingOf(rq[w], a) /\ PendingOf(rq2[w], a) = PendingOf(q, a)
  BY <1>1, <1>2
<1>. QED
  BY <1>1, <1>3, <1>4, <1>5, <1>6
-----------------------------------------------------------------------------
(* What every step preserves. *)

(* Rows are inserted, moved and deleted; a transfer gets no new leg.       *)
Remain(rows, rows2) == \A t \in Txs :
  /\ rows[t].state # "none" => rows2[t].state # "none" /\ SameRow(rows[t], rows2[t])
  /\ rows[t].state = "deleted" => rows2[t].state = "deleted"
  /\ rows2[t].state = "live" /\ rows[t].state = "none" =>
       rows2[t].group = NoTx \/ rows[rows2[t].group].state = "none"

StaysLive(acc, acc2) == \A a \in Accounts : acc[a] = "live" => acc2[a] = "live"

LEMMA SoundKept ==
  ASSUME RequestTypes, RowsKept, NEW rows \in [Txs -> Row], Remain(tx, rows),
         NEW acc, StaysLive(accountState, acc), NEW q \in Request, Sound(tx, accountState, q)
  PROVE  Sound(rows, acc, q)
<1>1. KnowsRows(rows, acc, q)
  BY RequestIs DEF Sound, KnowsRows, Remain, StaysLive, SameRow, HeldRows
<1>2. KnowsLegs(tx, q) => KnowsLegs(rows, q)
  <2>1. ASSUME NEW g \in Txs, legsOf(tx, g) \subseteq q.rows, \A r \in q.rows : q.seen[r].group = g,
               q.rows # {}
        PROVE  legsOf(rows, g) \subseteq q.rows
    <3>1. PICK r \in q.rows : r \in Txs
      BY <2>1, RequestIs
    <3>2. tx[r].group = g
      BY <2>1, <3>1 DEF Sound, KnowsRows, SameRow, HeldRows
    <3>3. tx[g].state # "none"
      BY <3>1, <3>2, ReferenceAssumption DEF RowsKept, Provenance, LegRows
    <3>4. \A t \in Txs : tx[t] \in Row /\ rows[t] \in Row
      BY DEF RequestTypes, TypeOK
    <3>5. \A t \in Txs : tx[t].state \in {"none", "live", "deleted"}
      BY <3>4 DEF Row
    <3>. QED
      BY <2>1, <3>3, <3>5, ReferenceAssumption DEF legsOf, LiveRows, Remain, SameRow
  <2>. QED
    BY <2>1 DEF KnowsLegs
<1>3. q.kind = "remove" => Removing(rows, q)
  BY <1>2 DEF Sound, Removing
<1>4. q.kind = "update" => Updating(acc, q)
  BY DEF Sound, Updating, StaysLive
<1>5. q.kind = "reconcile" => Reconciling(acc, q)
  BY DEF Sound, Reconciling, StaysLive
<1>. QED
  BY <1>1, <1>3, <1>4, <1>5 DEF Sound

(* A step inserts the rows of N, as what they stay, and moves or deletes    *)
(* others; whatever it writes is of some amount and on a live account.     *)
Inserts(N) ==
  \A t \in N : /\ tx[t] = NoRow /\ tx'[t].state # "none"
               /\ tx'[t].source = "FEE" <=> tx'[t].feeFor # NoTx
               /\ tx'[t].feeFor # NoTx =>
                    /\ tx'[t].type = "EXPENSE" /\ tx'[t].group = NoTx
                    /\ tx'[tx'[t].feeFor].state # "none"
                    /\ \A u \in Txs \ {t} : tx'[u].feeFor # tx'[t].feeFor
               /\ tx'[t].group # NoTx =>
                    tx'[t].source = "MANUAL" /\ tx'[tx'[t].group].state # "none"

Rewrites(N) ==
  \A t \in Txs \ N : /\ tx[t].state = "none" => tx'[t] = tx[t]
                     /\ tx[t].state # "none" => tx'[t].state # "none" /\ SameRow(tx[t], tx'[t])

WritesLive(N) ==
  \A t \in Txs : tx'[t].state # "none" /\ (t \in N \/ tx'[t] # tx[t]) =>
    /\ tx'[t].account \in Accounts /\ accountState'[tx'[t].account] = "live"
    /\ tx'[t].amount \in Amounts

LEMMA RowsStep ==
  ASSUME TypeOK, tx' \in [Txs -> Row], RowsKept, StaysLive(accountState, accountState'),
         NEW N \in SUBSET Txs, Inserts(N), Rewrites(N), WritesLive(N)
  PROVE  RowsKept'
<1>. USE DEF Inserts, Rewrites, WritesLive
<1>1. \A t \in Txs : tx[t] \in Row /\ tx'[t] \in Row
  BY DEF TypeOK
<1>2. \A t \in Txs : /\ tx[t].feeFor \in Txs \union {NoTx} /\ tx[t].group \in Txs \union {NoTx}
                     /\ tx'[t].feeFor \in Txs \union {NoTx} /\ tx'[t].group \in Txs \union {NoTx}
  BY <1>1 DEF Row
<1>3. \A t \in Txs \ N : SameRow(tx[t], tx'[t])
  BY DEF SameRow
<1>4. \A t \in Txs : tx[t].state # "none" => tx'[t].state # "none"
  BY EmptyRows
<1>5. UnusedRows'
  BY EmptyRows DEF RowsKept, Provenance, UnusedRows
<1>6. InsertedRows'
  BY DEF RowsKept, Provenance, InsertedRows
<1>7. FeeRows'
  BY <1>2, <1>3, <1>4, EmptyRows, ReferenceAssumption DEF RowsKept, Provenance, FeeRows, SameRow
<1>8. FeeUnique'
  BY <1>2, <1>3, EmptyRows, ReferenceAssumption DEF RowsKept, Provenance, FeeUnique, SameRow
<1>9. LegRows'
  BY <1>2, <1>3, <1>4, EmptyRows, ReferenceAssumption DEF RowsKept, Provenance, LegRows, SameRow
<1>10. \A t \in Txs : tx'[t].state # "none" => accountState'[tx'[t].account] = "live"
  BY EmptyRows DEF RowsKept, Provenance, InsertedRows, StaysLive
<1>. QED
  BY <1>5, <1>6, <1>7, <1>8, <1>9, <1>10 DEF RowsKept, Provenance

Framed ==
  RequestTypes /\ RowsKept /\ AllSound /\ HoldsLocks /\ GoneAreDeleted /\ DeletedOnce

(* A step of request w that leaves it as q. *)
LEMMA RequestStep ==
  ASSUME Framed, NEW w \in Workers, NEW q \in Request, req' = [req EXCEPT ![w] = q],
         TypeOK', RowsKept', Remain(tx, tx'), StaysLive(accountState, accountState'),
         outdated \subseteq outdated', outdated' \subseteq Accounts,
         Sound(tx', accountState', q),
         q.pc \in {"tx", "deleted"} => TouchedOf(q) \subseteq q.locks,
         \A v \in Workers \ {w} : req[v].locks \cap q.locks = {},
         \A f \in q.gone : tx'[f].state = "deleted",
         \A v \in Workers \ {w} : \A f \in req[v].gone :
           /\ tx'[f].account = req[v].seen[f].account => tx'[f].account = tx[f].account
           /\ f \in q.gone /\ tx'[f].account \in {q.seen[f].account, req[v].seen[f].account} =>
                tx'[f].account \in outdated'
  PROVE  Framed' /\ LocksHeld(req')
<1>1. /\ req' \in [Workers -> Request] /\ req'[w] = q
      /\ \A v \in Workers \ {w} : req'[v] = req[v]
      /\ \A v \in Workers : req[v] \in Request
  BY DEF Framed, RequestTypes
<1>2. RequestTypes'
  BY <1>1 DEF RequestTypes
<1>3. AllSound'
  <2>1. tx' \in [Txs -> Row]
    BY DEF TypeOK
  <2>2. \A v \in Workers \ {w} : Sound(tx', accountState', req[v])
    BY <1>1, <2>1, SoundKept DEF Framed, AllSound
  <2>. QED
    BY <1>1, <2>2 DEF AllSound
<1>4. LocksHeld(req')
  BY <1>1, HoldsLocksIs DEF Framed, LocksHeld
<1>5. HoldsLocks'
  BY <1>1, <1>4, RequestIs DEF HoldsLocks, LocksHeld, Inside, Touched, TouchedOf, HeldRows, Seen
<1>6. GoneAreDeleted'
  BY <1>1, RequestIs DEF Framed, GoneAreDeleted, Remain
<1>7. DeletedOnce'
  <2>. SUFFICES ASSUME NEW v \in Workers, NEW u \in Workers, NEW f \in req'[v].gone \cap req'[u].gone,
                       v # u, tx'[f].account = req'[v].seen[f].account
                PROVE  tx'[f].account \in outdated'
    BY DEF DeletedOnce
  <2>1. CASE v = w
    BY <1>1, <2>1
  <2>2. CASE u = w
    BY <1>1, <2>2
  <2>3. CASE v # w /\ u # w
    <3>1. f \in req[v].gone \cap req[u].gone /\ tx'[f].account = tx[f].account
          /\ tx[f].account = req[v].seen[f].account
      BY <1>1, <2>3
    <3>. QED
      BY <3>1 DEF Framed, DeletedOnce
  <2>. QED
    BY <2>1, <2>2, <2>3
<1>. QED
  BY <1>2, <1>3, <1>4, <1>5, <1>6, <1>7 DEF Framed

LEMMA DriftAdds ==
  ASSUME NEW l \in Int, NEW l2, NEW b \in Int, NEW b2 \in Int, NEW p \in Int, NEW p2 \in Int,
         NEW o \in Int, NEW n \in Int, NEW n2, NEW m \in Int, NEW m2 \in Int,
         l = o + n, l2 = (l + (b2 - b)) + (p - p2), n2 = (n - m) + m2,
         b2 - p2 = ((b - p) - m) + m2
  PROVE  l2 = o + n2
  OBVIOUS

(* The obligation of a step on one account: the stored balance less the    *)
(* pending reversal moves by what the net sum over the changed rows does.  *)
Shifts(b, p, n, b2, p2, n2) == b2 - p2 = ((b - p) - n) + n2

Derived(l, o, n) == l = o + n

LEMMA DriftStep ==
  ASSUME Framed, DriftExplained, TypeOK', NEW w \in Workers, NEW q \in Request,
         req' = [req EXCEPT ![w] = q], LocksHeld(req'), opening' = opening,
         NEW S \in SUBSET Txs, \A t \in Txs \ S : logicalTx'[t] = logicalTx[t],
         NEW a \in Accounts \ outdated,
         Shifts(balance[a], PendingOf(req[w], a), Net(logicalTx, S, a),
                balance'[a], PendingOf(q, a), Net(logicalTx', S, a))
  PROVE  Derived(logicalBalance'[a], opening'[a], Net(logicalTx', Txs, a))
<1>1. /\ logicalBalance[a] \in Int /\ balance[a] \in Int /\ balance'[a] \in Int
      /\ PendingOf(q, a) \in Int /\ PendingOf(req[w], a) \in Int
      /\ logicalBalance'[a] = (logicalBalance[a] + (balance'[a] - balance[a]))
                                + (PendingOf(req[w], a) - PendingOf(q, a))
  <2>1. RequestTypes /\ HoldsLocks /\ balance' \in [Accounts -> Int]
    BY DEF Framed, TypeOK
  <2>. QED
    BY <2>1, BalanceMoves
<1>2. Net(logicalTx', Txs, a) = Net(logicalTx, Txs, a) - Net(logicalTx, S, a) + Net(logicalTx', S, a)
  BY NetChange
<1>3. /\ Net(logicalTx, Txs, a) \in Int /\ Net(logicalTx, S, a) \in Int
      /\ Net(logicalTx', S, a) \in Int /\ opening[a] \in Int
  BY NetInt DEF Framed, RequestTypes, TypeOK
<1>4. logicalBalance[a] = opening[a] + Net(logicalTx, Txs, a)
  BY DEF DriftExplained
<1>5. opening'[a] = opening[a]
  OBVIOUS
<1>6. logicalBalance'[a] = opening[a] + Net(logicalTx', Txs, a)
  BY ONLY <1>1, <1>2, <1>3, <1>4, DriftAdds,
     Shifts(balance[a], PendingOf(req[w], a), Net(logicalTx, S, a),
            balance'[a], PendingOf(q, a), Net(logicalTx', S, a)) DEF Shifts
<1>. QED
  BY <1>5, <1>6 DEF Derived
-----------------------------------------------------------------------------
(* Steps that read, and locks: nothing is written. *)
LEMMA FramedIs == RequestsInv <=> Framed /\ DriftExplained
  BY DEF RequestsInv, Framed

LEMMA SoundIs ==
  ASSUME Framed, NEW w \in Workers
  PROVE  req[w] \in Request /\ Sound(tx, accountState, req[w])
  BY DEF Framed, RequestTypes, AllSound

LEMMA LogicalFunctions ==
  /\ logicalTx = [t \in Txs |-> logicalTx[t]] /\ logicalTx' = [t \in Txs |-> logicalTx'[t]]
  /\ logicalBalance = [a \in Accounts |-> logicalBalance[a]]
  /\ logicalBalance' = [a \in Accounts |-> logicalBalance'[a]]
<1>1. logicalTx = [t \in Txs |-> logicalTx[t]] /\ logicalTx' = [t \in Txs |-> logicalTx'[t]]
  BY DEF logicalTx
<1>2. logicalBalance = [a \in Accounts |-> logicalBalance[a]]
  BY DEF logicalBalance
<1>3. logicalBalance' = [a \in Accounts |-> logicalBalance'[a]]
  BY DEF logicalBalance
<1>. QED
  BY <1>1, <1>2, <1>3

LEMMA Stutters ==
  ASSUME Framed, NEW w \in Workers, NEW q \in Request, req' = [req EXCEPT ![w] = q],
         LocksHeld(req'), accountState' = accountState, opening' = opening, balance' \in [Accounts -> Int],
         \A t \in Txs : logicalTx'[t] = logicalTx[t],
         \A a \in Accounts : balance'[a] - PendingOf(q, a) = balance[a] - PendingOf(req[w], a)
  PROVE  UNCHANGED <<accountState, opening, logicalBalance, logicalTx>>
<1>1. ASSUME NEW a \in Accounts PROVE logicalBalance'[a] = logicalBalance[a]
  <2>1. /\ logicalBalance[a] \in Int /\ balance[a] \in Int /\ balance'[a] \in Int
        /\ PendingOf(q, a) \in Int /\ PendingOf(req[w], a) \in Int
        /\ logicalBalance'[a] = (logicalBalance[a] + (balance'[a] - balance[a]))
                                  + (PendingOf(req[w], a) - PendingOf(q, a))
    <3>1. RequestTypes /\ HoldsLocks
      BY DEF Framed
    <3>. QED
      BY <3>1, BalanceMoves
  <2>2. balance'[a] - PendingOf(q, a) = balance[a] - PendingOf(req[w], a)
    OBVIOUS
  <2>3. PICK l, l2, b, b2, p, p2 : /\ l = logicalBalance[a] /\ l2 = logicalBalance'[a] /\ b = balance[a]
                                   /\ b2 = balance'[a] /\ p = PendingOf(req[w], a) /\ p2 = PendingOf(q, a)
    OBVIOUS
  <2>4. l \in Int /\ b \in Int /\ b2 \in Int /\ p \in Int /\ p2 \in Int
        /\ l2 = (l + (b2 - b)) + (p - p2) /\ b2 - p2 = b - p
    BY <2>1, <2>2, <2>3
  <2>5. l2 = l
    BY ONLY <2>4
  <2>. QED
    BY <2>3, <2>5
<1>2. logicalBalance' = logicalBalance /\ logicalTx' = logicalTx
  BY <1>1, LogicalFunctions
<1>. QED
  BY <1>2

LEMMA QuietStep ==
  ASSUME RequestsInv, NEW w \in Workers, NEW q \in Request, req' = [req EXCEPT ![w] = q],
         UNCHANGED <<database, outdated>>,
         Sound(tx, accountState, q), q.gone = {}, q.pc # "deleted",
         req[w].gone = {}, req[w].pc # "deleted",
         q.pc = "tx" => TouchedOf(q) \subseteq q.locks,
         \A v \in Workers \ {w} : req[v].locks \cap q.locks = {}
  PROVE  RequestsInv' /\ UNCHANGED <<accountState, opening, logicalBalance, logicalTx>>
<1>1. /\ accountState' = accountState /\ opening' = opening /\ balance' = balance /\ tx' = tx
      /\ outdated' = outdated
  BY DEF database, vars
<1>2. Framed /\ DriftExplained
  BY FramedIs
<1>3. TypeOK' /\ RowsKept' /\ outdated' \subseteq Accounts
  BY <1>1, <1>2 DEF Framed, RequestTypes, TypeOK, RowsKept, Provenance, UnusedRows, InsertedRows,
                    FeeRows, FeeUnique, LegRows
<1>4. Remain(tx, tx') /\ StaysLive(accountState, accountState') /\ Sound(tx', accountState', q)
  BY <1>1 DEF Remain, StaysLive, SameRow
<1>5. Framed' /\ LocksHeld(req')
  BY <1>1, <1>2, <1>3, <1>4, RequestStep
<1>6. Flying(q) = {} /\ Flying(req[w]) = {}
  BY DEF Flying
<1>7. \A t \in Txs : logicalTx'[t] = logicalTx[t]
  <2>. SUFFICES ASSUME NEW t \in Txs PROVE logicalTx'[t] = logicalTx[t]
    OBVIOUS
  <2>1. req \in [Workers -> Request] /\ TypeOK
    BY <1>2 DEF Framed, RequestTypes
  <2>2. /\ logicalTx'[t] = (IF t \in Flying(q) \/ AloftBut(w, t)
                            THEN [tx'[t] EXCEPT !.state = "live"] ELSE tx'[t])
        /\ Aloft(t) <=> t \in Flying(req[w]) \/ AloftBut(w, t)
    BY <2>1, LogicalStep
  <2>3. logicalTx[t] = (IF Aloft(t) THEN [tx[t] EXCEPT !.state = "live"] ELSE tx[t])
    BY <2>1, LogicalRow
  <2>. QED
    BY <1>1, <1>6, <2>2, <2>3
<1>8. \A a \in Accounts : PendingOf(q, a) = 0 /\ PendingOf(req[w], a) = 0
  BY DEF PendingOf
<1>9. UNCHANGED <<accountState, opening, logicalBalance, logicalTx>>
  <2>1. balance' \in [Accounts -> Int]
    BY <1>1, <1>2 DEF Framed, RequestTypes, TypeOK
  <2>2. \A a \in Accounts : balance'[a] - PendingOf(q, a) = balance[a] - PendingOf(req[w], a)
    BY <1>1, <1>8
  <2>. QED
    BY <1>1, <1>2, <1>5, <1>7, <2>1, <2>2, Stutters
<1>10. DriftExplained'
  BY <1>1, <1>2, <1>9 DEF DriftExplained
<1>. QED
  BY <1>5, <1>9, <1>10, FramedIs DEF RequestsInv, Framed
LEMMA IdleIs ==
  /\ Idle \in Request
  /\ Idle.kind = "idle" /\ Idle.pc = "idle" /\ Idle.rows = {} /\ Idle.fees = {} /\ Idle.gone = {}
  /\ Idle.locks = {} /\ Idle.to = NoAccount /\ Idle.fee = Omitted /\ Idle.n = 0
  /\ Idle.seen \in [Txs -> Row]
<1>1. NoRow \in Row
  BY AmountAssumption DEF NoRow, Row, Types, Sources
<1>2. [t \in Txs |-> NoRow] \in [Txs -> Row]
  BY <1>1
<1>3. Omitted \in Int
  BY DEF Omitted
<1>. HIDE DEF Omitted
<1>. QED
  BY <1>2, <1>3 DEF Idle, Request

LEMMA ReadingIs ==
  ASSUME TypeOK, NEW S \in SUBSET Txs, NEW seen \in [Txs -> Row]
  PROVE  /\ Reading(S, seen) \in [Txs -> Row] /\ \A t \in S : Reading(S, seen)[t] = tx[t]
         /\ \A t \in Txs \ S : Reading(S, seen)[t] = seen[t]
  BY DEF Reading, TypeOK

(* What a query returns now. *)
LEMMA ReadNow ==
  ASSUME Framed, NEW r \in Txs, tx[r].state = "live"
  PROVE  /\ tx[r].account \in Accounts /\ accountState[tx[r].account] = "live"
         /\ SameRow(tx[r], tx[r])
  BY DEF Framed, RowsKept, Provenance, InsertedRows, SameRow

LEMMA BeginIs ==
  ASSUME Framed, NEW w \in Workers, NEW q, Begin(w, q)
  PROVE  /\ req[w].gone = {} /\ req[w].pc # "deleted" /\ req' = [req EXCEPT ![w] = q]
         /\ UNCHANGED <<database, outdated>> /\ accountState' = accountState
  BY IdleIs DEF Begin, database, vars

LEMMA BeginRemoveStep ==
  ASSUME RequestsInv, NEW w \in Workers, NEW t \in Txs, BeginRemove(w, t)
  PROVE  RequestsInv' /\ UNCHANGED <<accountState, opening, logicalBalance, logicalTx>>
<1>1. Framed /\ TypeOK
  BY FramedIs DEF Framed, RequestTypes
<1>. DEFINE seen == Reading({t}, Idle.seen)
            pc == IF tx[t].group = NoTx THEN "read" ELSE "group"
            q == [Idle EXCEPT !.kind = "remove", !.pc = pc, !.rows = {t}, !.seen = seen]
<1>2. seen \in [Txs -> Row] /\ seen[t] = tx[t] /\ tx[t].state = "live"
      /\ tx[t].source \notin {"FEE", "DEBT_PAYMENT", "DEBT_CREATION"}
  BY <1>1, IdleIs, ReadingIs DEF BeginRemove, Removable
<1>3. pc \in {"read", "group"} /\ (pc = "read" <=> tx[t].group = NoTx)
  OBVIOUS
<1>4. Begin(w, q)
  BY DEF BeginRemove
<1>. HIDE DEF seen, pc
<1>5. /\ q \in Request /\ q.kind = "remove" /\ q.pc = pc /\ q.rows = {t} /\ q.seen = seen
      /\ q.fees = {} /\ q.gone = {} /\ q.locks = {} /\ q.to = NoAccount
  BY <1>2, <1>3, IdleIs DEF Request
<1>. HIDE DEF q
<1>6. tx[t].account \in Accounts /\ accountState[tx[t].account] = "live" /\ SameRow(tx[t], tx[t])
  BY <1>1, <1>2, ReadNow
<1>7. Sound(tx, accountState, q)
  BY <1>2, <1>3, <1>5, <1>6 DEF Sound, KnowsRows, HeldRows, Removing, KnowsLegs
<1>8. \A v \in Workers \ {w} : req[v].locks \cap q.locks = {}
  BY <1>5
<1>9. /\ req[w].gone = {} /\ req[w].pc # "deleted" /\ req' = [req EXCEPT ![w] = q]
      /\ UNCHANGED <<database, outdated>>
  BY <1>1, <1>4, BeginIs
<1>10. q.pc # "deleted" /\ q.pc # "tx"
  BY <1>3, <1>5
<1>. QED
  BY <1>5, <1>7, <1>8, <1>9, <1>10, QuietStep

LEMMA BeginUpdateStep ==
  ASSUME RequestsInv, NEW w \in Workers, NEW t \in Txs, NEW a \in Accounts, NEW n \in Amounts,
         NEW fee \in {Omitted, 0} \union BookedAmounts, BeginUpdate(w, t, a, n, fee)
  PROVE  RequestsInv' /\ UNCHANGED <<accountState, opening, logicalBalance, logicalTx>>
<1>1. Framed /\ TypeOK
  BY FramedIs DEF Framed, RequestTypes
<1>. DEFINE seen == Reading({t}, Idle.seen)
            pc == IF fee = Omitted THEN "ready" ELSE "row"
            q == [Idle EXCEPT !.kind = "update", !.pc = pc, !.rows = {t}, !.seen = seen,
                              !.to = a, !.n = n, !.fee = fee]
<1>2. seen \in [Txs -> Row] /\ seen[t] = tx[t] /\ tx[t].state = "live" /\ tx[t].group = NoTx
      /\ tx[t].source \notin {"FEE", "DEBT_PAYMENT", "DEBT_CREATION"} /\ accountState[a] = "live"
  BY <1>1, IdleIs, ReadingIs DEF BeginUpdate, Editable
<1>3. pc \in {"ready", "row"} /\ (fee = Omitted => pc = "ready")
  OBVIOUS
<1>4. Begin(w, q)
  BY DEF BeginUpdate
<1>5. n \in Int /\ fee \in Int
  BY RequestAssumption, AmountsInt DEF Omitted
<1>. HIDE DEF seen, pc
<1>6. /\ q \in Request /\ q.kind = "update" /\ q.pc = pc /\ q.rows = {t} /\ q.seen = seen
      /\ q.fees = {} /\ q.gone = {} /\ q.locks = {} /\ q.to = a /\ q.n = n /\ q.fee = fee
  BY <1>2, <1>3, <1>5, IdleIs DEF Request
<1>. HIDE DEF q
<1>7. tx[t].account \in Accounts /\ accountState[tx[t].account] = "live" /\ SameRow(tx[t], tx[t])
  BY <1>1, <1>2, ReadNow
<1>8. Sound(tx, accountState, q)
  BY <1>2, <1>3, <1>6, <1>7 DEF Sound, KnowsRows, HeldRows, Updating
<1>9. /\ req[w].gone = {} /\ req[w].pc # "deleted" /\ req' = [req EXCEPT ![w] = q]
      /\ UNCHANGED <<database, outdated>>
  BY <1>1, <1>4, BeginIs
<1>10. q.pc # "deleted" /\ q.pc # "tx" /\ \A v \in Workers \ {w} : req[v].locks \cap q.locks = {}
  BY <1>3, <1>6
<1>. QED
  BY <1>6, <1>8, <1>9, <1>10, QuietStep

LEMMA BeginReconcileStep ==
  ASSUME RequestsInv, NEW w \in Workers, NEW a \in Accounts, NEW actual \in Openings,
         BeginReconcile(w, a, actual)
  PROVE  RequestsInv' /\ UNCHANGED <<accountState, opening, logicalBalance, logicalTx>>
<1>1. Framed /\ TypeOK
  BY FramedIs DEF Framed, RequestTypes
<1>. DEFINE n == actual - balance[a]
            q == [Idle EXCEPT !.kind = "reconcile", !.pc = "ready", !.to = a, !.n = n]
<1>2. n \in Int
  BY <1>1, OpeningsAssumption DEF TypeOK
<1>3. Begin(w, q) /\ accountState[a] = "live"
  BY DEF BeginReconcile
<1>. HIDE DEF n
<1>4. /\ q \in Request /\ q.kind = "reconcile" /\ q.pc = "ready" /\ q.rows = {} /\ q.to = a
      /\ q.fees = {} /\ q.gone = {} /\ q.locks = {}
  BY <1>2, IdleIs DEF Request
<1>. HIDE DEF q
<1>5. Sound(tx, accountState, q)
  BY <1>3, <1>4 DEF Sound, KnowsRows, HeldRows, Reconciling
<1>6. /\ req[w].gone = {} /\ req[w].pc # "deleted" /\ req' = [req EXCEPT ![w] = q]
      /\ UNCHANGED <<database, outdated>>
  BY <1>1, <1>3, BeginIs
<1>7. q.pc # "deleted" /\ q.pc # "tx" /\ \A v \in Workers \ {w} : req[v].locks \cap q.locks = {}
  BY <1>4
<1>. QED
  BY <1>4, <1>5, <1>6, <1>7, QuietStep

LEMMA ReadLegsStep ==
  ASSUME RequestsInv, NEW w \in Workers, ReadLegs(w)
  PROVE  RequestsInv' /\ UNCHANGED <<accountState, opening, logicalBalance, logicalTx>>
<1>1. Framed /\ TypeOK /\ req[w] \in Request /\ Sound(tx, accountState, req[w])
      /\ req[w].kind = "remove" /\ req[w].pc = "group"
  BY FramedIs, SoundIs DEF Framed, RequestTypes, ReadLegs, At
<1>2. PICK t \in Txs : req[w].rows = {t} /\ req[w].seen[t].group # NoTx
  BY <1>1 DEF Sound, Removing
<1>3. PICK g \in Txs : g = req[w].seen[t].group
  BY <1>1, <1>2, RequestIs DEF Row
<1>. DEFINE legs == legsOf(tx, g)
            seen == Reading(legs, Idle.seen)
            q == [req[w] EXCEPT !.pc = "read", !.rows = legs, !.seen = seen]
<1>4. legs = UNION {legsOf(tx, Seen(w, u).group) : u \in req[w].rows}
  BY <1>2, <1>3 DEF Seen
<1>5. req' = [req EXCEPT ![w] = q] /\ UNCHANGED <<database, outdated>>
  BY <1>4 DEF ReadLegs, Proceed
<1>6. legs \in SUBSET Txs /\ \A r \in legs : tx[r].state = "live" /\ tx[r].group = g
  BY DEF legsOf, LiveRows
<1>7. seen \in [Txs -> Row] /\ \A r \in legs : seen[r] = tx[r]
  BY <1>1, <1>6, IdleIs, ReadingIs
<1>8. \A r \in legs : tx[r].source = "MANUAL"
  BY <1>1, <1>6, ReferenceAssumption DEF Framed, RowsKept, Provenance, LegRows
<1>9. \A r \in legs : tx[r].account \in Accounts /\ accountState[tx[r].account] = "live"
                        /\ SameRow(tx[r], tx[r])
  BY <1>1, <1>6, ReadNow
<1>10. req[w].fees = {} /\ req[w].gone = {} /\ req[w].to = NoAccount
  BY <1>1 DEF Sound, Removing
<1>. HIDE DEF seen
<1>11. /\ q \in Request /\ q.kind = "remove" /\ q.pc = "read" /\ q.rows = legs /\ q.seen = seen
       /\ q.fees = {} /\ q.gone = {} /\ q.locks = req[w].locks /\ q.to = NoAccount
  BY <1>1, <1>6, <1>7, <1>10 DEF Request
<1>. HIDE DEF q
<1>12. Sound(tx, accountState, q)
  <2>1. KnowsLegs(tx, q)
    BY <1>6, <1>7, <1>11 DEF KnowsLegs
  <2>2. KnowsRows(tx, accountState, q)
    BY <1>6, <1>7, <1>8, <1>9, <1>11 DEF KnowsRows, HeldRows
  <2>. QED
    BY <1>11, <2>1, <2>2 DEF Sound, Removing
<1>13. \A v \in Workers \ {w} : req[v].locks \cap q.locks = {}
  BY <1>1, <1>11 DEF Framed, HoldsLocks
<1>14. q.pc # "deleted" /\ q.pc # "tx" /\ req[w].pc # "deleted"
  BY <1>1, <1>11
<1>. QED
  BY <1>5, <1>10, <1>11, <1>12, <1>13, <1>14, QuietStep
LEMMA TouchedAccounts ==
  ASSUME Framed, NEW w \in Workers
  PROVE  Touched(w) = TouchedOf(req[w]) /\ Touched(w) \subseteq Accounts
<1>1. Touched(w) = TouchedOf(req[w])
  BY HoldsLocksIs
<1>2. \A r \in HeldRows(req[w]) : req[w].seen[r].account \in Accounts
  BY SoundIs DEF Sound, KnowsRows
<1>3. req[w].to \in Accounts \union {NoAccount}
  BY SoundIs, RequestIs
<1>. QED
  BY <1>1, <1>2, <1>3 DEF TouchedOf

LEMMA LockRowStep ==
  ASSUME RequestsInv, NEW w \in Workers, LockRow(w)
  PROVE  RequestsInv' /\ UNCHANGED <<accountState, opening, logicalBalance, logicalTx>>
<1>1. Framed /\ TypeOK /\ req[w] \in Request /\ Sound(tx, accountState, req[w])
      /\ req[w].kind = "update" /\ req[w].pc = "row"
  BY FramedIs, SoundIs DEF Framed, RequestTypes, LockRow, At
<1>. DEFINE locks == Touched(w)
            q == [req[w] EXCEPT !.pc = "read", !.locks = locks]
<1>2. /\ req' = [req EXCEPT ![w] = q] /\ UNCHANGED <<database, outdated>>
      /\ \A v \in Workers \ {w} : req[v].locks \cap locks = {}
  BY DEF LockRow, Proceed, Unlocked
<1>3. locks \subseteq Accounts
  BY <1>1, TouchedAccounts
<1>. HIDE DEF locks
<1>4. /\ q \in Request /\ q.kind = "update" /\ q.pc = "read" /\ q.rows = req[w].rows
      /\ q.seen = req[w].seen /\ q.fees = req[w].fees /\ q.gone = req[w].gone /\ q.locks = locks
      /\ q.to = req[w].to /\ q.n = req[w].n /\ q.fee = req[w].fee
  BY <1>1, <1>3 DEF Request
<1>. HIDE DEF q
<1>5. Sound(tx, accountState, q)
  BY <1>1, <1>4 DEF Sound, KnowsRows, HeldRows, Updating
<1>6. q.gone = {} /\ req[w].gone = {} /\ q.pc # "deleted" /\ q.pc # "tx" /\ req[w].pc # "deleted"
  BY <1>1, <1>4 DEF Sound
<1>. QED
  BY <1>2, <1>4, <1>5, <1>6, QuietStep

LEMMA ReadFeesStep ==
  ASSUME RequestsInv, NEW w \in Workers, ReadFees(w)
  PROVE  RequestsInv' /\ UNCHANGED <<accountState, opening, logicalBalance, logicalTx>>
<1>1. Framed /\ TypeOK /\ req[w] \in Request /\ Sound(tx, accountState, req[w])
      /\ req[w].kind \in {"remove", "update"} /\ req[w].pc = "read"
  BY FramedIs, SoundIs DEF Framed, RequestTypes, ReadFees, At
<1>. DEFINE fees == feeLinesOf(tx, req[w].rows)
            seen == Reading(fees, req[w].seen)
            q == [req[w] EXCEPT !.pc = "ready", !.fees = fees, !.seen = seen]
<1>2. req' = [req EXCEPT ![w] = q] /\ UNCHANGED <<database, outdated>>
  BY DEF ReadFees, Proceed
<1>3. fees \in SUBSET Txs /\ \A f \in fees : tx[f].state = "live" /\ tx[f].feeFor \in req[w].rows
  BY DEF feeLinesOf, LiveRows
<1>4. /\ seen \in [Txs -> Row] /\ \A f \in fees : seen[f] = tx[f]
      /\ \A t \in Txs \ fees : seen[t] = req[w].seen[t]
  BY <1>1, <1>3, RequestIs, ReadingIs
<1>5. \A f \in fees : tx[f].account \in Accounts /\ accountState[tx[f].account] = "live"
                        /\ SameRow(tx[f], tx[f])
  BY <1>1, <1>3, ReadNow
<1>6. \A f \in fees : f \notin req[w].rows
  <2>1. \A f \in fees : tx[f].feeFor \in Txs
    BY <1>1, <1>3, RequestIs
  <2>2. \A f \in fees : tx[f].source = "FEE"
    BY <1>1, <1>3, <2>1, ReferenceAssumption DEF Framed, RowsKept, Provenance, FeeRows
  <2>3. \A r \in req[w].rows : tx[r].source # "FEE"
    BY <1>1, SoundFlight DEF Framed
  <2>. QED
    BY <2>2, <2>3
<1>7. req[w].fees = {} /\ req[w].gone = {} /\ req[w].rows \subseteq Txs
  BY <1>1, RequestIs DEF Sound
<1>. HIDE DEF fees, seen
<1>8. /\ q \in Request /\ q.kind = req[w].kind /\ q.pc = "ready" /\ q.rows = req[w].rows
      /\ q.seen = seen /\ q.fees = fees /\ q.gone = req[w].gone /\ q.locks = req[w].locks
      /\ q.to = req[w].to /\ q.n = req[w].n /\ q.fee = req[w].fee
  BY <1>1, <1>3, <1>4 DEF Request
<1>. HIDE DEF q
<1>9. \A r \in q.rows : r \in Txs \ fees /\ q.seen[r] = req[w].seen[r]
  BY <1>4, <1>6, <1>7, <1>8
<1>10. Sound(tx, accountState, q)
  <2>1. KnowsRows(tx, accountState, q)
    <3>1. \A r \in q.rows : r \in HeldRows(req[w]) /\ r \notin q.fees
      BY <1>8, <1>9 DEF HeldRows
    <3>2. ASSUME NEW r \in HeldRows(q)
          PROVE  /\ q.seen[r].state = "live" /\ q.seen[r].account \in Accounts
                 /\ accountState[q.seen[r].account] = "live"
                 /\ tx[r].state # "none" /\ SameRow(q.seen[r], tx[r])
                 /\ r \in q.rows => q.seen[r].source \notin {"FEE", "DEBT_PAYMENT", "DEBT_CREATION"}
                 /\ r \in q.fees => q.seen[r].feeFor \in q.rows
      <4>1. CASE r \in q.rows
        BY <1>1, <1>8, <1>9, <3>1, <4>1 DEF Sound, KnowsRows
      <4>2. CASE r \in q.fees
        BY <1>3, <1>4, <1>5, <1>8, <3>1, <4>2
      <4>. QED
        BY <4>1, <4>2 DEF HeldRows
    <3>. QED
      BY <3>2 DEF KnowsRows
  <2>2. req[w].kind = "remove" => KnowsLegs(tx, req[w])
    BY <1>1 DEF Sound, Removing
  <2>3. q.kind = "remove" => KnowsLegs(tx, q)
    BY <1>8, <1>9, <2>2 DEF KnowsLegs
  <2>4. q.kind = "remove" => Removing(tx, q)
    BY <1>1, <1>8, <2>3 DEF Sound, Removing
  <2>5. q.kind = "update" => Updating(accountState, q)
    BY <1>1, <1>8, <1>9 DEF Sound, Updating
  <2>. QED
    BY <1>1, <1>7, <1>8, <2>1, <2>4, <2>5 DEF Sound
<1>11. \A v \in Workers \ {w} : req[v].locks \cap q.locks = {}
  BY <1>1, <1>8 DEF Framed, HoldsLocks
<1>12. q.gone = {} /\ q.pc # "deleted" /\ q.pc # "tx" /\ req[w].pc # "deleted"
  BY <1>1, <1>7, <1>8
<1>. QED
  BY <1>2, <1>7, <1>8, <1>10, <1>11, <1>12, QuietStep

LEMMA EnterStep ==
  ASSUME RequestsInv, NEW w \in Workers, Enter(w)
  PROVE  RequestsInv' /\ UNCHANGED <<accountState, opening, logicalBalance, logicalTx>>
<1>1. Framed /\ TypeOK /\ req[w] \in Request /\ Sound(tx, accountState, req[w])
      /\ req[w].kind \in {"remove", "update"} /\ req[w].pc = "ready"
  BY FramedIs, SoundIs DEF Framed, RequestTypes, Enter, At
<1>. DEFINE locks == Touched(w)
            q == [req[w] EXCEPT !.pc = "tx", !.locks = locks]
<1>2. /\ req' = [req EXCEPT ![w] = q] /\ UNCHANGED <<database, outdated>>
      /\ \A v \in Workers \ {w} : req[v].locks \cap locks = {}
  BY DEF Enter, Proceed, Unlocked
<1>3. locks \subseteq Accounts /\ locks = TouchedOf(req[w])
  BY <1>1, TouchedAccounts
<1>. HIDE DEF locks
<1>4. /\ q \in Request /\ q.kind = req[w].kind /\ q.pc = "tx" /\ q.rows = req[w].rows
      /\ q.seen = req[w].seen /\ q.fees = req[w].fees /\ q.gone = req[w].gone /\ q.locks = locks
      /\ q.to = req[w].to /\ q.n = req[w].n /\ q.fee = req[w].fee
  BY <1>1, <1>3 DEF Request
<1>. HIDE DEF q
<1>5. Sound(tx, accountState, q)
  <2>1. KnowsRows(tx, accountState, q) /\ HeldRows(q) = HeldRows(req[w])
    BY <1>1, <1>4 DEF Sound, KnowsRows, HeldRows
  <2>2. q.kind = "remove" => Removing(tx, q)
    BY <1>1, <1>4 DEF Sound, Removing, KnowsLegs
  <2>3. q.kind = "update" => Updating(accountState, q)
    BY <1>1, <1>4 DEF Sound, Updating
  <2>4. q.gone = {}
    BY <1>1, <1>4 DEF Sound
  <2>. QED
    BY <1>1, <1>4, <2>1, <2>2, <2>3, <2>4 DEF Sound
<1>6. q.gone = {} /\ req[w].gone = {} /\ q.pc # "deleted" /\ req[w].pc # "deleted"
  BY <1>1, <1>4 DEF Sound
<1>7. TouchedOf(q) \subseteq q.locks
  BY <1>3, <1>4 DEF TouchedOf, HeldRows
<1>. QED
  BY <1>2, <1>4, <1>5, <1>6, <1>7, QuietStep
-----------------------------------------------------------------------------
(* Steps that write. *)

(* The logical rows before and after a step of request w, row by row.      *)
Revived(r) == [r EXCEPT !.state = "live"]

LEMMA LogicalAfter ==
  ASSUME Framed, TypeOK', NEW w \in Workers, NEW q, req' = [req EXCEPT ![w] = q], NEW t \in Txs
  PROVE  /\ t \in Flying(q) \/ AloftBut(w, t) => logicalTx'[t] = Revived(tx'[t])
         /\ ~(t \in Flying(q) \/ AloftBut(w, t)) => logicalTx'[t] = tx'[t]
         /\ t \in Flying(req[w]) \/ AloftBut(w, t) => logicalTx[t] = Revived(tx[t])
         /\ ~(t \in Flying(req[w]) \/ AloftBut(w, t)) => logicalTx[t] = tx[t]
         /\ logicalTx[t].account = tx[t].account /\ logicalTx'[t].account = tx'[t].account
         /\ logicalTx[t] \in Row /\ logicalTx'[t] \in Row /\ SameRow(logicalTx'[t], tx'[t])
         /\ AloftBut(w, t) => tx[t].source = "FEE" /\ tx[t].state = "deleted"
                                /\ \E v \in Workers \ {w} : t \in req[v].gone
<1>1. req \in [Workers -> Request] /\ TypeOK /\ tx' \in [Txs -> Row] /\ tx[t] \in Row /\ tx'[t] \in Row
  BY DEF Framed, RequestTypes, TypeOK
<1>2. /\ logicalTx'[t] = (IF t \in Flying(q) \/ AloftBut(w, t)
                          THEN [tx'[t] EXCEPT !.state = "live"] ELSE tx'[t])
      /\ Aloft(t) <=> t \in Flying(req[w]) \/ AloftBut(w, t)
  BY <1>1, LogicalStep
<1>3. /\ logicalTx[t] = (IF Aloft(t) THEN [tx[t] EXCEPT !.state = "live"] ELSE tx[t])
      /\ logicalTx[t].account = tx[t].account /\ logicalTx[t] \in Row
  BY <1>1, LogicalRow
<1>4. logicalTx'[t].account = tx'[t].account /\ logicalTx'[t] \in Row /\ SameRow(logicalTx'[t], tx'[t])
  BY <1>1, <1>2 DEF Row, SameRow
<1>5. AloftBut(w, t) => tx[t].source = "FEE" /\ tx[t].state = "deleted"
                          /\ \E v \in Workers \ {w} : t \in req[v].gone
  <2>1. AloftBut(w, t) => tx[t].source = "FEE" /\ tx[t].state = "deleted"
    BY <1>2, AloftIs DEF Framed
  <2>2. AloftBut(w, t) => \E v \in Workers \ {w} : t \in req[v].gone
    BY DEF AloftBut, InFlight
  <2>. QED
    BY <2>1, <2>2
<1>6. tx'[t] = tx[t] /\ (t \in Flying(q) <=> t \in Flying(req[w])) => logicalTx'[t] = logicalTx[t]
  BY <1>2, <1>3
<1>7. logicalTx[t] = (IF t \in Flying(req[w]) \/ AloftBut(w, t)
                      THEN [tx[t] EXCEPT !.state = "live"] ELSE tx[t])
  BY <1>2, <1>3
<1>. QED
  BY <1>2, <1>3, <1>4, <1>5, <1>6, <1>7 DEF Revived

LEMMA LogicalSame ==
  ASSUME Framed, TypeOK', NEW w \in Workers, NEW q, req' = [req EXCEPT ![w] = q], NEW t \in Txs,
         tx'[t] = tx[t], t \in Flying(q) <=> t \in Flying(req[w])
  PROVE  logicalTx'[t] = logicalTx[t]
<1>1. /\ t \in Flying(q) \/ AloftBut(w, t) => logicalTx'[t] = Revived(tx'[t])
      /\ ~(t \in Flying(q) \/ AloftBut(w, t)) => logicalTx'[t] = tx'[t]
      /\ t \in Flying(req[w]) \/ AloftBut(w, t) => logicalTx[t] = Revived(tx[t])
      /\ ~(t \in Flying(req[w]) \/ AloftBut(w, t)) => logicalTx[t] = tx[t]
  <2>1. Framed /\ TypeOK' /\ req' = [req EXCEPT ![w] = q]
    OBVIOUS
  <2>. QED
    BY ONLY <2>1, LogicalAfter, w \in Workers, t \in Txs
<1>. QED
  BY <1>1

LEMMA SumsOfNothing ==
  ASSUME NEW b \in Int, NEW p, NEW p2, NEW n, NEW n2, p = 0, p2 = 0, n = 0, n2 = 0
  PROVE  Shifts(b, p, n, b, p2, n2)
  BY DEF Shifts

LEMMA FailStep ==
  ASSUME RequestsInv, NEW w \in Workers, Fail(w)
  PROVE  /\ RequestsInv'
         /\ outdated' = {} => UNCHANGED <<accountState, opening, logicalBalance, logicalTx>>
<1>1. Framed /\ DriftExplained /\ TypeOK /\ req[w] \in Request /\ Sound(tx, accountState, req[w])
      /\ outdated \subseteq Accounts
  BY FramedIs, SoundIs DEF Framed, RequestTypes
<1>. DEFINE flagged == {Seen(w, r).account : r \in req[w].gone} \union {tx[r].account : r \in req[w].gone}
<1>2. /\ req' = [req EXCEPT ![w] = Idle] /\ accountState' = accountState /\ opening' = opening
      /\ balance' = balance /\ tx' = tx /\ outdated' = outdated \union flagged
  BY DEF Fail, database, vars
<1>3. req[w].gone \subseteq HeldRows(req[w]) /\ HeldRows(req[w]) \subseteq Txs
  BY <1>1, SoundFlight, RequestIs DEF Framed, HeldRows
<1>4. flagged \subseteq Accounts
  <2>1. \A r \in req[w].gone : req[w].seen[r].account \in Accounts
    BY <1>1, <1>3 DEF Sound, KnowsRows
  <2>2. \A r \in req[w].gone : tx[r].account \in Accounts
    BY <1>1, <1>3 DEF Framed, GoneAreDeleted, RowsKept, Provenance, InsertedRows
  <2>. QED
    BY <2>1, <2>2 DEF Seen
<1>5. TypeOK' /\ RowsKept' /\ Remain(tx, tx') /\ StaysLive(accountState, accountState')
  BY <1>1, <1>2 DEF Framed, RequestTypes, TypeOK, RowsKept, Provenance, UnusedRows, InsertedRows,
                    FeeRows, FeeUnique, LegRows, Remain, StaysLive, SameRow
<1>6. Sound(tx', accountState', Idle)
  BY IdleIs DEF Sound, KnowsRows, HeldRows, Waits
<1>7. Framed' /\ LocksHeld(req')
  BY <1>1, <1>2, <1>4, <1>5, <1>6, IdleIs, RequestStep
<1>8. Flying(Idle) = {} /\ Flying(req[w]) \subseteq req[w].gone /\ \A a : PendingOf(Idle, a) = 0
  BY IdleIs DEF Flying, PendingOf
<1>9. \A t \in Txs \ req[w].gone : logicalTx'[t] = logicalTx[t]
  <2>1. Framed /\ TypeOK' /\ req' = [req EXCEPT ![w] = Idle]
    BY <1>1, <1>2, <1>5
  <2>2. \A t \in Txs \ req[w].gone : tx'[t] = tx[t] /\ (t \in Flying(Idle) <=> t \in Flying(req[w]))
    BY <1>2, <1>8
  <2>. QED
    BY <2>1, <2>2, LogicalSame
<1>10. ASSUME NEW a \in Accounts \ flagged
       PROVE  PendingOf(req[w], a) = 0
  <2>1. CASE req[w].kind = "remove" /\ req[w].pc = "deleted"
    <3>1. req[w].gone = HeldRows(req[w]) /\ req[w].to = NoAccount
      BY <1>1, <2>1 DEF Sound, Removing
    <3>2. a \notin TouchedOf(req[w])
      BY <1>10, <3>1 DEF TouchedOf, Seen
    <3>. QED
      BY <1>1, <3>2, UntouchedIsZero
  <2>2. CASE ~(req[w].kind = "remove" /\ req[w].pc = "deleted")
    BY <2>2 DEF PendingOf
  <2>. QED
    BY <2>1, <2>2
<1>11. ASSUME NEW a \in Accounts \ outdated'
       PROVE  Derived(logicalBalance'[a], opening'[a], Net(logicalTx', Txs, a))
  <2>1. a \in Accounts \ flagged /\ a \in Accounts \ outdated
    BY <1>2
  <2>2. \A t \in req[w].gone : logicalTx[t].account = tx[t].account /\ logicalTx'[t].account = tx[t].account
    BY <1>1, <1>2, <1>3, <1>5, LogicalAfter
  <2>3. \A t \in req[w].gone : Off(logicalTx[t], a) /\ Off(logicalTx'[t], a)
    BY <2>1, <2>2 DEF Off
  <2>4. Net(logicalTx, req[w].gone, a) = 0 /\ Net(logicalTx', req[w].gone, a) = 0
    BY <2>3, NetOff
  <2>5. balance[a] \in Int /\ balance'[a] = balance[a]
    BY <1>1, <1>2 DEF TypeOK
  <2>6. PendingOf(Idle, a) = 0 /\ PendingOf(req[w], a) = 0
    BY <1>8, <1>10, <2>1
  <2>7. Shifts(balance[a], PendingOf(req[w], a), Net(logicalTx, req[w].gone, a),
               balance'[a], PendingOf(Idle, a), Net(logicalTx', req[w].gone, a))
    BY <2>4, <2>5, <2>6, SumsOfNothing
  <2>8. /\ Framed /\ DriftExplained /\ TypeOK' /\ Idle \in Request
        /\ req' = [req EXCEPT ![w] = Idle] /\ LocksHeld(req') /\ opening' = opening
        /\ req[w].gone \in SUBSET Txs
    BY <1>1, <1>2, <1>3, <1>5, <1>7, IdleIs
  <2>. QED
    BY ONLY <1>9, <2>1, <2>7, <2>8, DriftStep, w \in Workers
<1>12. outdated' = {} => UNCHANGED <<accountState, opening, logicalBalance, logicalTx>>
  <2>. SUFFICES ASSUME outdated' = {} PROVE UNCHANGED <<accountState, opening, logicalBalance, logicalTx>>
    OBVIOUS
  <2>1. req[w].gone = {} /\ flagged = {}
    BY <1>2
  <2>2. \A t \in Txs : logicalTx'[t] = logicalTx[t]
    BY <1>9, <2>1
  <2>3. \A a \in Accounts : balance'[a] - PendingOf(Idle, a) = balance[a] - PendingOf(req[w], a)
    BY <1>2, <1>8, <1>10, <2>1
  <2>4. balance' \in [Accounts -> Int]
    BY <1>5 DEF TypeOK
  <2>. QED
    BY <1>1, <1>2, <1>7, <2>2, <2>3, <2>4, IdleIs, Stutters
<1>13. DriftExplained'
  <2>1. \A a \in Accounts \ outdated' : Derived(logicalBalance'[a], opening'[a], Net(logicalTx', Txs, a))
    BY <1>11
  <2>. QED
    BY <2>1 DEF DriftExplained, Derived
<1>. QED
  BY <1>7, <1>12, <1>13 DEF RequestsInv, Framed
LEMMA OutdatedOnIs ==
  ASSUME Framed, NEW w \in Workers, NEW S \in SUBSET HeldRows(req[w]), NEW now,
         \A r \in S : now[r].account \in Accounts
  PROVE  /\ OutdatedOn(w, S, now) \subseteq Accounts
         /\ \A r \in S : now[r] # req[w].seen[r] =>
              /\ req[w].seen[r].account \in OutdatedOn(w, S, now) /\ now[r].account \in OutdatedOn(w, S, now)
              /\ req[w].to # NoAccount => req[w].to \in OutdatedOn(w, S, now)
<1>1. \A r \in S : req[w].seen[r].account \in Accounts
  BY SoundIs DEF Sound, KnowsRows
<1>2. req[w].to \in Accounts \union {NoAccount}
  BY SoundIs, RequestIs
<1>. QED
  BY <1>1, <1>2, ReferenceAssumption DEF OutdatedOn, Seen

(* Deleting rows keeps what is known of rows. *)
LEMMA DeletedStep ==
  ASSUME Framed, NEW S \in SUBSET Txs, tx' = softDelete(tx, S), accountState' = accountState,
         UNCHANGED <<opening, balance>>, \A t \in S : tx[t].state # "none"
  PROVE  /\ TypeOK' /\ RowsKept' /\ Remain(tx, tx') /\ StaysLive(accountState, accountState')
         /\ \A t \in Txs : tx'[t] = (IF t \in S THEN deletedRow(tx[t]) ELSE tx[t])
         /\ \A t \in S : tx'[t].state = "deleted" /\ tx'[t].account = tx[t].account
<1>1. TypeOK /\ tx \in [Txs -> Row]
  BY DEF Framed, RequestTypes, TypeOK
<1>2. \A t \in Txs : tx'[t] = (IF t \in S THEN deletedRow(tx[t]) ELSE tx[t])
  BY DEF softDelete
<1>3. \A t \in S : /\ tx'[t].state = "deleted" /\ tx'[t].account = tx[t].account
                   /\ tx'[t].amount = tx[t].amount /\ SameRow(tx[t], tx'[t])
  BY <1>1, <1>2 DEF deletedRow, Row, SameRow
<1>4. TypeOK'
  BY <1>1, SoftDeleteType DEF TypeOK
<1>5. StaysLive(accountState, accountState')
  BY DEF StaysLive
<1>6. \A t \in Txs \ S : tx'[t] = tx[t]
  BY <1>2
<1>7. Remain(tx, tx')
  BY <1>3, <1>6 DEF Remain, SameRow
<1>8. RowsKept'
  <2>1. PICK N : N = {}
    OBVIOUS
  <2>2. Rewrites(N)
    BY <1>6, <1>7 DEF Remain, Rewrites
  <2>3. WritesLive(N)
    BY <1>3, <1>6, <2>1 DEF Framed, RowsKept, Provenance, InsertedRows, WritesLive
  <2>4. N \in SUBSET Txs /\ Inserts(N)
    BY <2>1 DEF Inserts
  <2>5. TypeOK /\ tx' \in [Txs -> Row] /\ RowsKept /\ StaysLive(accountState, accountState')
    BY <1>1, <1>4, <1>5 DEF Framed, TypeOK
  <2>. QED
    BY ONLY <2>2, <2>3, <2>4, <2>5, RowsStep
<1>. QED
  BY <1>2, <1>3, <1>4, <1>5, <1>7, <1>8

LEMMA DeleteFeeStep ==
  ASSUME RequestsInv, NEW w \in Workers, NEW f \in Txs, DeleteFee(w, f)
  PROVE  /\ RequestsInv'
         /\ outdated' = {} => UNCHANGED <<accountState, opening, logicalBalance, logicalTx>>
<1>1. Framed /\ DriftExplained /\ TypeOK /\ req[w] \in Request /\ Sound(tx, accountState, req[w])
      /\ outdated \subseteq Accounts /\ req \in [Workers -> Request]
  BY FramedIs, SoundIs DEF Framed, RequestTypes
<1>. DEFINE flagged == OutdatedOn(w, {f}, tx)
            q == [req[w] EXCEPT !.gone = @ \union {f}]
<1>2. /\ req[w].pc = "tx" /\ DeletesFees(w) /\ f \in req[w].fees /\ f \notin req[w].gone
      /\ accountState' = accountState /\ opening' = opening
      /\ balance' = balance /\ tx' = softDelete(tx, {f}) /\ outdated' = outdated \union flagged
  BY DEF DeleteFee
<1>3. req' = [req EXCEPT ![w] = q]
  BY <1>1 DEF DeleteFee
<1>4. /\ f \in HeldRows(req[w]) /\ HeldRows(req[w]) \subseteq Txs /\ tx[f].state # "none"
      /\ tx[f].account \in Accounts /\ req[w].seen[f].state = "live"
  BY <1>1, <1>2, RequestIs DEF Sound, KnowsRows, HeldRows, Framed, RowsKept, Provenance, InsertedRows
<1>5. /\ flagged \subseteq Accounts
      /\ tx[f] # req[w].seen[f] => req[w].seen[f].account \in flagged /\ tx[f].account \in flagged
  BY <1>1, <1>4, OutdatedOnIs
<1>. HIDE DEF flagged
<1>6. /\ TypeOK' /\ RowsKept' /\ Remain(tx, tx') /\ StaysLive(accountState, accountState')
      /\ tx'[f] = deletedRow(tx[f]) /\ tx'[f].state = "deleted" /\ tx'[f].account = tx[f].account
      /\ \A t \in Txs \ {f} : tx'[t] = tx[t]
  <2>1. /\ UNCHANGED <<opening, balance>> /\ \A t \in {f} : tx[t].state # "none"
        /\ {f} \in SUBSET Txs
    BY <1>2, <1>4
  <2>. QED
    BY <1>1, <1>2, <2>1, DeletedStep
<1>7. /\ q \in Request /\ q.kind = req[w].kind /\ q.pc = "tx" /\ q.rows = req[w].rows
      /\ q.seen = req[w].seen /\ q.fees = req[w].fees /\ q.gone = req[w].gone \union {f}
      /\ q.locks = req[w].locks /\ q.to = req[w].to /\ q.n = req[w].n /\ q.fee = req[w].fee
  BY <1>1, <1>2 DEF Request
<1>. HIDE DEF q
<1>8. Sound(tx', accountState', q)
  <2>1. Sound(tx', accountState', req[w])
    BY <1>1, <1>6, SoundKept DEF Framed, TypeOK
  <2>2. KnowsRows(tx', accountState', q) /\ HeldRows(q) = HeldRows(req[w])
    BY <1>7, <2>1 DEF Sound, KnowsRows, HeldRows
  <2>3. q.kind = "remove" => Removing(tx', q)
    BY <1>2, <1>7, <2>1 DEF Sound, Removing, KnowsLegs
  <2>4. q.kind = "update" => Updating(accountState', q)
    BY <1>2, <1>7, <2>1 DEF Sound, Updating, DeletesFees
  <2>. QED
    BY <1>2, <1>7, <2>1, <2>2, <2>3, <2>4 DEF Sound, Reconciling, Waits
<1>9. \A v \in Workers \ {w} : \A g \in req[v].gone :
           /\ tx'[g].account = req[v].seen[g].account => tx'[g].account = tx[g].account
           /\ g \in q.gone /\ tx'[g].account \in {q.seen[g].account, req[v].seen[g].account} =>
                tx'[g].account \in outdated'
  <2>. SUFFICES ASSUME NEW v \in Workers \ {w}, NEW g \in req[v].gone
                PROVE  /\ tx'[g].account = tx[g].account
                       /\ g \in q.gone /\ tx'[g].account \in {q.seen[g].account, req[v].seen[g].account} =>
                            tx'[g].account \in outdated'
    OBVIOUS
  <2>1. g \in Txs /\ tx[g].state = "deleted"
    BY <1>1, RequestIs DEF Framed, RequestTypes, GoneAreDeleted
  <2>2. tx'[g].account = tx[g].account
    BY <1>6, <2>1
  <2>3. CASE g = f
    BY <1>2, <1>4, <1>5, <2>1, <2>2, <2>3
  <2>4. CASE g \in req[w].gone
    BY <1>1, <1>2, <1>7, <2>2, <2>4 DEF Framed, DeletedOnce
  <2>. QED
    BY <1>7, <2>2, <2>3, <2>4
<1>10. /\ TouchedOf(q) \subseteq q.locks /\ \A v \in Workers \ {w} : req[v].locks \cap q.locks = {}
       /\ \A g \in q.gone : tx'[g].state = "deleted"
  <2>1. TouchedOf(req[w]) \subseteq req[w].locks
    BY <1>1, <1>2, HoldsLocksIs DEF Framed, LocksHeld
  <2>2. TouchedOf(q) = TouchedOf(req[w])
    BY <1>7 DEF TouchedOf, HeldRows
  <2>3. \A g \in req[w].gone : tx'[g].state = "deleted"
    BY <1>1, <1>6, RequestIs DEF Framed, GoneAreDeleted, Remain
  <2>. QED
    BY <1>1, <1>6, <1>7, <2>1, <2>2, <2>3 DEF Framed, HoldsLocks
<1>11. Framed' /\ LocksHeld(req')
  <2>1. outdated \subseteq outdated' /\ outdated' \subseteq Accounts
    BY <1>1, <1>2, <1>5
  <2>. QED
    BY <1>1, <1>3, <1>6, <1>7, <1>8, <1>9, <1>10, <2>1, RequestStep
<1>12. Flying(req[w]) = req[w].gone /\ Flying(q) = req[w].gone \union {f}
  <2>1. req[w].pc # "deleted" /\ q.pc # "deleted" /\ RowsKept /\ RowsKept'
    BY <1>1, <1>2, <1>6, <1>7 DEF Framed
  <2>2. Flying(req[w]) = req[w].gone
    BY <1>1, <2>1, SoundFlight
  <2>3. req[w].kind = "remove" /\ req[w].rows \subseteq req[w].gone \union {f} => req[w].rows = {}
    BY <1>1, <1>2, <2>1, SoundFlight DEF Sound
  <2>4. req[w].rows # {}
    BY <1>1, <1>2, <2>1, SoundFlight
  <2>. QED
    BY <1>7, <2>2, <2>3, <2>4 DEF Flying
<1>13. \A t \in Txs \ {f} : logicalTx'[t] = logicalTx[t]
  <2>1. Framed /\ TypeOK' /\ req' = [req EXCEPT ![w] = q]
    BY <1>1, <1>3, <1>6
  <2>2. \A t \in Txs \ {f} : tx'[t] = tx[t] /\ (t \in Flying(q) <=> t \in Flying(req[w]))
    BY <1>6, <1>12
  <2>. QED
    BY <2>1, <2>2, LogicalSame
<1>14. /\ logicalTx[f].account = tx[f].account /\ logicalTx'[f].account = tx[f].account
       /\ tx[f] = req[w].seen[f] => logicalTx'[f] = logicalTx[f]
  <2>1. /\ f \in Flying(q) \/ AloftBut(w, f) => logicalTx'[f] = Revived(tx'[f])
        /\ ~(f \in Flying(q) \/ AloftBut(w, f)) => logicalTx'[f] = tx'[f]
        /\ f \in Flying(req[w]) \/ AloftBut(w, f) => logicalTx[f] = Revived(tx[f])
        /\ ~(f \in Flying(req[w]) \/ AloftBut(w, f)) => logicalTx[f] = tx[f]
        /\ logicalTx[f].account = tx[f].account /\ logicalTx'[f].account = tx'[f].account
    <3>1. Framed /\ TypeOK' /\ req' = [req EXCEPT ![w] = q]
      BY <1>1, <1>3, <1>6
    <3>. QED
      BY ONLY <3>1, LogicalAfter, w \in Workers, f \in Txs
  <2>2. tx[f] \in Row
    BY <1>1 DEF TypeOK
  <2>3. tx[f] = req[w].seen[f] => /\ Revived(deletedRow(tx[f])) = tx[f]
                                  /\ Revived(tx[f]) = tx[f]
    BY <1>4, <2>2 DEF deletedRow, Row, Revived
  <2>. QED
    BY <1>6, <1>12, <2>1, <2>3
<1>15. \A a : PendingOf(q, a) = 0 /\ PendingOf(req[w], a) = 0
  BY <1>2, <1>7 DEF PendingOf
<1>16. ASSUME NEW a \in Accounts \ outdated'
       PROVE  Derived(logicalBalance'[a], opening'[a], Net(logicalTx', Txs, a))
  <2>1. a \in Accounts \ flagged /\ a \in Accounts \ outdated
    BY <1>2
  <2>2. \A t \in Txs : logicalTx'[t] = logicalTx[t] \/ (Off(logicalTx[t], a) /\ Off(logicalTx'[t], a))
    BY <1>5, <1>13, <1>14, <2>1 DEF Off
  <2>3. Net(logicalTx', Txs, a) = Net(logicalTx, Txs, a)
    BY <2>2, NetAgree
  <2>4. Net(logicalTx', Txs, a) \in Int /\ balance[a] \in Int /\ balance'[a] = balance[a]
    BY <1>1, <1>2, NetInt DEF TypeOK
  <2>5. PICK n : n = Net(logicalTx, Txs, a)
    OBVIOUS
  <2>6. Shifts(balance[a], PendingOf(req[w], a), n, balance'[a], PendingOf(q, a), n)
    <3>1. n \in Int /\ PendingOf(req[w], a) = 0 /\ PendingOf(q, a) = 0
      BY <1>15, <2>3, <2>4, <2>5
    <3>. QED
      BY <2>4, <3>1 DEF Shifts
  <2>7. Shifts(balance[a], PendingOf(req[w], a), Net(logicalTx, Txs, a),
               balance'[a], PendingOf(q, a), Net(logicalTx', Txs, a))
    BY <2>3, <2>5, <2>6
  <2>8. /\ Framed /\ DriftExplained /\ TypeOK' /\ q \in Request
        /\ req' = [req EXCEPT ![w] = q] /\ LocksHeld(req') /\ opening' = opening
        /\ Txs \in SUBSET Txs /\ \A t \in Txs \ Txs : logicalTx'[t] = logicalTx[t]
    BY <1>1, <1>2, <1>3, <1>6, <1>7, <1>11
  <2>. QED
    BY ONLY <2>1, <2>7, <2>8, DriftStep, w \in Workers
<1>17. outdated' = {} => UNCHANGED <<accountState, opening, logicalBalance, logicalTx>>
  <2>. SUFFICES ASSUME outdated' = {} PROVE UNCHANGED <<accountState, opening, logicalBalance, logicalTx>>
    OBVIOUS
  <2>1. \A t \in Txs : logicalTx'[t] = logicalTx[t]
    BY <1>2, <1>5, <1>13, <1>14
  <2>2. \A a \in Accounts : balance'[a] - PendingOf(q, a) = balance[a] - PendingOf(req[w], a)
    BY <1>2, <1>15
  <2>3. balance' \in [Accounts -> Int]
    BY <1>6 DEF TypeOK
  <2>. QED
    BY <1>1, <1>2, <1>3, <1>7, <1>11, <2>1, <2>2, <2>3, Stutters
<1>18. DriftExplained'
  <2>1. \A a \in Accounts \ outdated' : Derived(logicalBalance'[a], opening'[a], Net(logicalTx', Txs, a))
    BY <1>16
  <2>. QED
    BY <2>1 DEF DriftExplained, Derived
<1>. QED
  BY <1>11, <1>17, <1>18 DEF RequestsInv, Framed
LEMMA OverlookedAccounts ==
  ASSUME Framed, NEW w \in Workers
  PROVE  Overlooked(w) \subseteq Accounts
<1>1. ASSUME NEW f \in Txs, logicalTx[f].state = "live" PROVE tx[f].account \in Accounts
  <2>1. TypeOK /\ RequestTypes /\ RowsKept /\ AllSound /\ GoneAreDeleted
    BY DEF Framed, RequestTypes
  <2>2. tx[f].state # "none"
    BY <1>1, <2>1, AloftIs, LogicalRow
  <2>. QED
    BY <2>1, <2>2 DEF RowsKept, Provenance, InsertedRows
<1>. QED
  BY <1>1 DEF Overlooked, feeLinesOf, LiveRows

AfterDelete(q) == [q EXCEPT !.pc = "deleted", !.gone = @ \union q.rows]

(* The removal that deletes its rows: the rows it held are no longer       *)
(* logical rows, and were what it read, but on the accounts it flags.      *)
LEMMA DeleteRowsIs ==
  ASSUME RequestsInv, NEW w \in Workers, DeleteRows(w)
  PROVE  /\ AfterDelete(req[w]) \in Request /\ req' = [req EXCEPT ![w] = AfterDelete(req[w])]
         /\ AfterDelete(req[w]).kind = "remove" /\ AfterDelete(req[w]).pc = "deleted"
         /\ AfterDelete(req[w]).seen = req[w].seen /\ HeldRows(AfterDelete(req[w])) = HeldRows(req[w])
         /\ req[w].kind = "remove" /\ req[w].pc = "tx" /\ HeldRows(req[w]) \subseteq Txs
         /\ UNCHANGED <<accountState, opening, balance>> /\ TypeOK' /\ Framed' /\ LocksHeld(req')
         /\ outdated \subseteq outdated' /\ Overlooked(w) \subseteq outdated'
         /\ \A t \in Txs \ HeldRows(req[w]) : logicalTx'[t] = logicalTx[t]
         /\ \A t \in HeldRows(req[w]) :
              /\ logicalTx[t].account = tx[t].account /\ logicalTx'[t].account = tx[t].account
              /\ tx[t].account \in outdated' \/ logicalTx'[t] = deletedRow(tx[t])
              /\ logicalTx[t] # req[w].seen[t] =>
                   tx[t].account \in outdated' /\ req[w].seen[t].account \in outdated'
<1>1. Framed /\ DriftExplained /\ TypeOK /\ req[w] \in Request /\ Sound(tx, accountState, req[w])
      /\ outdated \subseteq Accounts /\ req \in [Workers -> Request]
  BY FramedIs, SoundIs DEF Framed, RequestTypes
<1>. DEFINE q == AfterDelete(req[w])
            S == HeldRows(req[w])
            flagged == OutdatedOn(w, S, logicalTx)
<1>2. /\ req[w].kind = "remove" /\ req[w].pc = "tx" /\ req[w].fees \subseteq req[w].gone
      /\ accountState' = accountState /\ opening' = opening
      /\ balance' = balance /\ tx' = softDelete(tx, req[w].rows)
      /\ outdated' = (outdated \union flagged) \union Overlooked(w)
  BY DEF DeleteRows, At, DeletedRows, HeldRows
<1>3. req' = [req EXCEPT ![w] = q]
  BY <1>1 DEF DeleteRows, AfterDelete
<1>4. /\ req[w].rows \subseteq S /\ req[w].fees \subseteq S /\ S \subseteq Txs
      /\ req[w].gone = req[w].fees /\ S = req[w].rows \union req[w].fees
  BY <1>1, <1>2, RequestIs DEF Sound, HeldRows
<1>5. \A t \in S : /\ tx[t].state # "none" /\ tx[t].account \in Accounts
                   /\ req[w].seen[t].state = "live" /\ logicalTx[t].account = tx[t].account
  <2>1. \A t \in S : tx[t].state # "none" /\ req[w].seen[t].state = "live"
    BY <1>1 DEF Sound, KnowsRows
  <2>2. \A t \in S : logicalTx[t].account = tx[t].account
    BY <1>1, <1>4, LogicalRow
  <2>. QED
    BY <1>1, <1>4, <2>1, <2>2 DEF Framed, RowsKept, Provenance, InsertedRows
<1>6. /\ flagged \subseteq Accounts
      /\ \A t \in S : logicalTx[t] # req[w].seen[t] =>
                        req[w].seen[t].account \in flagged /\ tx[t].account \in flagged
  BY <1>1, <1>5, OutdatedOnIs
<1>. HIDE DEF flagged, S
<1>7. outdated \subseteq outdated' /\ outdated' \subseteq Accounts /\ Overlooked(w) \subseteq outdated'
      /\ flagged \subseteq outdated'
  BY <1>1, <1>2, <1>6, OverlookedAccounts
<1>8. /\ TypeOK' /\ RowsKept' /\ Remain(tx, tx') /\ StaysLive(accountState, accountState')
      /\ \A t \in Txs : tx'[t] = (IF t \in req[w].rows THEN deletedRow(tx[t]) ELSE tx[t])
      /\ \A t \in req[w].rows : tx'[t].state = "deleted" /\ tx'[t].account = tx[t].account
  <2>1. /\ UNCHANGED <<opening, balance>> /\ \A t \in req[w].rows : tx[t].state # "none"
        /\ req[w].rows \in SUBSET Txs
    BY <1>2, <1>4, <1>5
  <2>. QED
    BY <1>1, <1>2, <2>1, DeletedStep
<1>9. /\ q \in Request /\ q.kind = "remove" /\ q.pc = "deleted" /\ q.rows = req[w].rows
      /\ q.seen = req[w].seen /\ q.fees = req[w].fees /\ q.gone = S
      /\ q.locks = req[w].locks /\ q.to = req[w].to /\ q.n = req[w].n /\ q.fee = req[w].fee
      /\ HeldRows(q) = S
  BY <1>1, <1>2, <1>4 DEF Request, AfterDelete, HeldRows
<1>. HIDE DEF q
<1>10. Sound(tx', accountState', q)
  <2>1. Sound(tx', accountState', req[w])
    BY <1>1, <1>8, SoundKept DEF Framed, TypeOK
  <2>2. KnowsRows(tx', accountState', q)
    BY <1>4, <1>9, <2>1 DEF Sound, KnowsRows, HeldRows
  <2>3. Removing(tx', q)
    BY <1>2, <1>9, <2>1 DEF Sound, Removing, KnowsLegs
  <2>. QED
    BY <1>9, <2>2, <2>3 DEF Sound
<1>11. \A v \in Workers \ {w} : \A g \in req[v].gone :
           /\ tx'[g].account = req[v].seen[g].account => tx'[g].account = tx[g].account
           /\ g \in q.gone /\ tx'[g].account \in {q.seen[g].account, req[v].seen[g].account} =>
                tx'[g].account \in outdated'
  <2>. SUFFICES ASSUME NEW v \in Workers \ {w}, NEW g \in req[v].gone
                PROVE  /\ tx'[g].account = tx[g].account
                       /\ g \in q.gone /\ tx'[g].account \in {q.seen[g].account, req[v].seen[g].account} =>
                            tx'[g].account \in outdated'
    OBVIOUS
  <2>1. g \in Txs /\ tx[g].state = "deleted"
    BY <1>1, RequestIs DEF Framed, RequestTypes, GoneAreDeleted
  <2>2. tx'[g].account = tx[g].account
    BY <1>8, <2>1
  <2>3. CASE g \in req[w].rows
    <3>1. tx[g].source # "FEE" /\ g \in S
      BY <1>1, <1>4, <2>3, SoundFlight DEF Framed
    <3>2. logicalTx[g] = tx[g]
      BY <1>1, <2>1, <3>1, AloftIs, LogicalRow DEF Framed
    <3>. QED
      BY <1>5, <1>6, <1>7, <2>1, <2>2, <3>1, <3>2
  <2>4. CASE g \in req[w].fees
    BY <1>1, <1>4, <1>7, <1>9, <2>2, <2>4 DEF Framed, DeletedOnce
  <2>. QED
    BY <1>4, <1>9, <2>2, <2>3, <2>4
<1>12. /\ TouchedOf(q) \subseteq q.locks /\ \A v \in Workers \ {w} : req[v].locks \cap q.locks = {}
       /\ \A g \in q.gone : tx'[g].state = "deleted"
  <2>1. TouchedOf(req[w]) \subseteq req[w].locks
    BY <1>1, <1>2, HoldsLocksIs DEF Framed, LocksHeld
  <2>2. TouchedOf(q) = TouchedOf(req[w])
    BY <1>4, <1>9 DEF TouchedOf, HeldRows
  <2>3. \A g \in req[w].gone : tx'[g].state = "deleted"
    BY <1>1, <1>8, RequestIs DEF Framed, GoneAreDeleted, Remain
  <2>. QED
    BY <1>1, <1>4, <1>8, <1>9, <2>1, <2>2, <2>3 DEF Framed, HoldsLocks
<1>13. Framed' /\ LocksHeld(req')
  BY <1>1, <1>3, <1>7, <1>8, <1>9, <1>10, <1>11, <1>12, RequestStep
<1>14. Flying(req[w]) \subseteq S /\ Flying(q) = {}
  BY <1>4, <1>9 DEF Flying
<1>15. \A t \in Txs \ S : logicalTx'[t] = logicalTx[t]
  <2>1. Framed /\ TypeOK' /\ req' = [req EXCEPT ![w] = q]
    BY <1>1, <1>3, <1>8
  <2>2. \A t \in Txs \ S : tx'[t] = tx[t] /\ (t \in Flying(q) <=> t \in Flying(req[w]))
    BY <1>4, <1>8, <1>14
  <2>. QED
    BY <2>1, <2>2, LogicalSame
<1>16. ASSUME NEW t \in S
       PROVE  /\ logicalTx'[t].account = tx[t].account
              /\ tx[t].account \in outdated' \/ logicalTx'[t] = deletedRow(tx[t])
  <2>1. /\ ~(t \in Flying(q) \/ AloftBut(w, t)) => logicalTx'[t] = tx'[t]
        /\ logicalTx'[t].account = tx'[t].account
        /\ AloftBut(w, t) => tx[t].source = "FEE" /\ tx[t].state = "deleted"
                               /\ \E v \in Workers \ {w} : t \in req[v].gone
    <3>1. Framed /\ TypeOK' /\ req' = [req EXCEPT ![w] = q] /\ t \in Txs
      BY <1>1, <1>3, <1>4, <1>8
    <3>. QED
      BY ONLY <3>1, LogicalAfter, w \in Workers
  <2>2. tx'[t].account = tx[t].account
    BY <1>4, <1>8
  <2>3. CASE ~AloftBut(w, t)
    <3>1. tx'[t] = deletedRow(tx[t])
      <4>1. CASE t \in req[w].rows
        BY <1>4, <1>8, <4>1
      <4>2. CASE t \notin req[w].rows
        <5>1. tx'[t] = tx[t] /\ tx[t].state = "deleted" /\ tx[t] \in Row
          BY <1>1, <1>4, <1>8, <4>2 DEF Framed, GoneAreDeleted, TypeOK
        <5>. QED
          BY <5>1 DEF deletedRow, Row
      <4>. QED
        BY <4>1, <4>2
    <3>. QED
      BY <1>14, <2>1, <2>2, <2>3, <3>1
  <2>4. CASE AloftBut(w, t)
    <3>1. PICK v \in Workers \ {w} : t \in req[v].gone
      BY <2>1, <2>4
    <3>2. t \notin req[w].rows
      BY <1>1, <2>1, <2>4, SoundFlight DEF Framed
    <3>3. t \in req[w].gone
      BY <1>4, <3>2
    <3>4. tx[t].account = req[w].seen[t].account => tx[t].account \in outdated'
      BY <1>1, <1>7, <3>1, <3>3 DEF Framed, DeletedOnce
    <3>5. tx[t].account # req[w].seen[t].account => tx[t].account \in outdated'
      BY <1>5, <1>6, <1>7
    <3>. QED
      BY <2>1, <2>2, <3>4, <3>5
  <2>. QED
    BY <2>3, <2>4
<1>. QED
  BY <1>2, <1>3, <1>4, <1>5, <1>6, <1>7, <1>8, <1>9, <1>13, <1>15, <1>16 DEF S, q
LEMMA SeenSum ==
  ASSUME NEW S \in SUBSET Txs, NEW rows, NEW seen, NEW a,
         \A t \in S : rows[t] # seen[t] => Off(rows[t], a) /\ Off(seen[t], a)
  PROVE  Net(rows, S, a) = Net(seen, S, a)
<1>1. \A t \in S : rows[t] = seen[t] \/ (Off(seen[t], a) /\ Off(rows[t], a))
  OBVIOUS
<1>. QED
  BY <1>1, NetAgree

LEMMA DeleteRowsStep ==
  ASSUME RequestsInv, NEW w \in Workers, DeleteRows(w)
  PROVE  RequestsInv'
<1>1. Framed /\ DriftExplained /\ TypeOK /\ req[w] \in Request
  BY FramedIs, SoundIs DEF Framed, RequestTypes
<1>2. PICK q, S, seen : q = AfterDelete(req[w]) /\ S = HeldRows(req[w]) /\ seen = req[w].seen
  OBVIOUS
<1>3. /\ q \in Request /\ req' = [req EXCEPT ![w] = q]
      /\ q.kind = "remove" /\ q.pc = "deleted" /\ q.seen = seen /\ HeldRows(q) = S
      /\ req[w].kind = "remove" /\ req[w].pc = "tx" /\ S \in SUBSET Txs
      /\ UNCHANGED <<accountState, opening, balance>> /\ TypeOK' /\ Framed' /\ LocksHeld(req')
      /\ outdated \subseteq outdated'
      /\ \A t \in Txs \ S : logicalTx'[t] = logicalTx[t]
      /\ \A t \in S : /\ logicalTx[t].account = tx[t].account /\ logicalTx'[t].account = tx[t].account
                      /\ tx[t].account \in outdated' \/ logicalTx'[t] = deletedRow(tx[t])
                      /\ logicalTx[t] # seen[t] =>
                           tx[t].account \in outdated' /\ seen[t].account \in outdated'
  BY <1>2, DeleteRowsIs
<1>4. \A a : PendingOf(req[w], a) = 0
  BY <1>3 DEF PendingOf
<1>5. \A a : PendingOf(q, a) = Net(seen, S, a)
  BY <1>3 DEF PendingOf
<1>6. ASSUME NEW a \in Accounts \ outdated'
      PROVE  Derived(logicalBalance'[a], opening'[a], Net(logicalTx', Txs, a))
  <2>1. a \in Accounts \ outdated
    BY <1>3
  <2>2. Net(logicalTx, S, a) = Net(seen, S, a)
    <3>1. \A t \in S : logicalTx[t] # seen[t] => Off(logicalTx[t], a) /\ Off(seen[t], a)
      BY <1>3 DEF Off
    <3>. QED
      BY <1>3, <3>1, SeenSum
  <2>3. Net(logicalTx', S, a) = 0
    <3>1. \A t \in S : deletedRow(tx[t]).state = "deleted"
      <4>1. \A t \in S : tx[t] \in Row
        BY <1>1, <1>3 DEF TypeOK
      <4>. QED
        BY <4>1 DEF deletedRow, Row
    <3>2. \A t \in S : Off(logicalTx'[t], a)
      BY <1>3, <3>1 DEF Off
    <3>. QED
      BY <3>2, NetOff
  <2>4. PICK n : n = Net(seen, S, a) /\ n \in Int
    BY <1>3, NetInt
  <2>5. balance[a] \in Int /\ balance'[a] = balance[a]
    BY <1>1, <1>3 DEF TypeOK
  <2>6. Shifts(balance[a], 0, n, balance[a], n, 0)
    BY <2>4, <2>5 DEF Shifts
  <2>7. Shifts(balance[a], PendingOf(req[w], a), Net(logicalTx, S, a),
               balance'[a], PendingOf(q, a), Net(logicalTx', S, a))
    BY <1>4, <1>5, <2>2, <2>3, <2>4, <2>5, <2>6
  <2>8. /\ Framed /\ DriftExplained /\ TypeOK' /\ q \in Request
        /\ req' = [req EXCEPT ![w] = q] /\ LocksHeld(req') /\ opening' = opening
        /\ S \in SUBSET Txs /\ \A t \in Txs \ S : logicalTx'[t] = logicalTx[t]
    BY <1>1, <1>3
  <2>. QED
    BY ONLY <2>1, <2>7, <2>8, DriftStep, w \in Workers
<1>7. DriftExplained'
  <2>1. \A a \in Accounts \ outdated' : Derived(logicalBalance'[a], opening'[a], Net(logicalTx', Txs, a))
    BY <1>6
  <2>. QED
    BY <2>1 DEF DriftExplained, Derived
<1>. QED
  BY <1>3, <1>7 DEF RequestsInv, Framed

LEMMA CommitRemoveStep ==
  ASSUME RequestsInv, NEW w \in Workers, CommitRemove(w)
  PROVE  RequestsInv' /\ UNCHANGED <<accountState, opening, logicalBalance, logicalTx>>
<1>1. Framed /\ DriftExplained /\ TypeOK /\ req[w] \in Request /\ Sound(tx, accountState, req[w])
      /\ outdated \subseteq Accounts
  BY FramedIs, SoundIs DEF Framed, RequestTypes
<1>2. /\ req[w].kind = "remove" /\ req[w].pc = "deleted" /\ req' = [req EXCEPT ![w] = Idle]
      /\ accountState' = accountState /\ opening' = opening /\ tx' = tx /\ outdated' = outdated
      /\ balance' = [a \in Accounts |-> Reversed(w, a)]
  BY DEF CommitRemove, At
<1>3. /\ HeldRows(req[w]) \in SUBSET Txs
      /\ \A a \in Accounts : /\ balance'[a] = balance[a] - PendingOf(req[w], a)
                             /\ PendingOf(req[w], a) \in Int /\ balance[a] \in Int
  <2>1. HeldRows(req[w]) \in SUBSET Txs
    BY <1>1, RequestIs DEF HeldRows
  <2>2. \A a \in Accounts : PendingOf(req[w], a) \in Int /\ balance[a] \in Int
    BY <1>1, PendingInt DEF TypeOK
  <2>3. \A a \in Accounts : balance'[a] = balance[a] - PendingOf(req[w], a)
    BY <1>2 DEF Reversed, PendingOf, HeldRows
  <2>. QED
    BY <2>1, <2>2, <2>3
<1>4. \A a : PendingOf(Idle, a) = 0
  BY IdleIs DEF PendingOf
<1>5. balance' \in [Accounts -> Int]
  <2>1. \A a \in Accounts : balance'[a] \in Int
    BY <1>3
  <2>2. balance' = [a \in Accounts |-> balance'[a]]
    BY <1>2
  <2>. QED
    BY <2>1, <2>2
<1>6. TypeOK' /\ RowsKept' /\ Remain(tx, tx') /\ StaysLive(accountState, accountState')
  BY <1>1, <1>2, <1>5 DEF Framed, RequestTypes, TypeOK, RowsKept, Provenance, UnusedRows, InsertedRows,
                    FeeRows, FeeUnique, LegRows, Remain, StaysLive, SameRow
<1>7. Sound(tx', accountState', Idle)
  BY IdleIs DEF Sound, KnowsRows, HeldRows, Waits
<1>8. Framed' /\ LocksHeld(req')
  BY <1>1, <1>2, <1>6, <1>7, IdleIs, RequestStep
<1>9. Flying(Idle) = {} /\ Flying(req[w]) = {}
  BY <1>1, <1>2, IdleIs DEF Flying, Sound, Removing, HeldRows
<1>10. \A t \in Txs : logicalTx'[t] = logicalTx[t]
  <2>1. Framed /\ TypeOK' /\ req' = [req EXCEPT ![w] = Idle]
    BY <1>1, <1>2, <1>6
  <2>2. \A t \in Txs : tx'[t] = tx[t] /\ (t \in Flying(Idle) <=> t \in Flying(req[w]))
    BY <1>2, <1>9
  <2>. QED
    BY <2>1, <2>2, LogicalSame
<1>11. \A a \in Accounts : balance'[a] - PendingOf(Idle, a) = balance[a] - PendingOf(req[w], a)
  BY <1>3, <1>4
<1>12. UNCHANGED <<accountState, opening, logicalBalance, logicalTx>>
  BY <1>1, <1>2, <1>5, <1>8, <1>10, <1>11, IdleIs, Stutters
<1>13. DriftExplained'
  BY <1>1, <1>2, <1>12 DEF DriftExplained
<1>. QED
  BY <1>8, <1>12, <1>13 DEF RequestsInv, Framed
-----------------------------------------------------------------------------
(* Commits of updates *)
LEMMA UpdateEffectIs ==
  ASSUME NEW w \in Workers, NEW q \in Request, q = req[w], NEW t \in Txs, q.rows = {t}, q.n \in Amounts
  PROVE  \A a : UpdateEffect(w, a) = IF a # q.to THEN 0
                  ELSE balanceDelta(q.seen[t].type, q.n) - (IF q.fee > 0 THEN q.fee ELSE 0)
<1>. DEFINE rows == [u \in Txs |-> [Seen(w, u) EXCEPT !.amount = q.n]]
<1>1. q.n \in Int /\ q.n \in 0..MaxAmountMinor /\ q.seen[t] \in Row /\ q.fee \in Int
  BY AmountsInt, RequestIs
<1>2. q.seen[t].type \in {"INCOME", "EXPENSE"}
  BY <1>1 DEF Row, Types
<1>3. rows[t].amount = q.n
  BY <1>1 DEF Seen, Row
<1>4. Total(rows, {t}) = q.n /\ Total(rows, {}) = 0
  <2>. HIDE DEF rows
  <2>. QED
    BY <1>1, <1>3, TotalOfOne, TotalOfNone
<1>5. /\ {u \in q.rows : Seen(w, u).type = "INCOME"} = (IF q.seen[t].type = "INCOME" THEN {t} ELSE {})
      /\ {u \in q.rows : Seen(w, u).type = "EXPENSE"} = (IF q.seen[t].type = "INCOME" THEN {} ELSE {t})
  BY <1>2 DEF Seen
<1>6. \A a : UpdateEffect(w, a) = IF a # q.to THEN 0
               ELSE Total(rows, {u \in q.rows : Seen(w, u).type = "INCOME"})
                    - Total(rows, {u \in q.rows : Seen(w, u).type = "EXPENSE"})
                    - (IF q.fee > 0 THEN q.fee ELSE 0)
  BY DEF UpdateEffect
<1>. HIDE DEF rows
<1>7. /\ q.seen[t].type = "INCOME" =>
           /\ Total(rows, {u \in q.rows : Seen(w, u).type = "INCOME"}) = q.n
           /\ Total(rows, {u \in q.rows : Seen(w, u).type = "EXPENSE"}) = 0
      /\ q.seen[t].type = "EXPENSE" =>
           /\ Total(rows, {u \in q.rows : Seen(w, u).type = "INCOME"}) = 0
           /\ Total(rows, {u \in q.rows : Seen(w, u).type = "EXPENSE"}) = q.n
  BY <1>4, <1>5
<1>8. PICK i, e : /\ i = Total(rows, {u \in q.rows : Seen(w, u).type = "INCOME"})
                  /\ e = Total(rows, {u \in q.rows : Seen(w, u).type = "EXPENSE"})
  OBVIOUS
<1>9. PICK n, fee, type, to : n = q.n /\ fee = q.fee /\ type = q.seen[t].type /\ to = q.to
  OBVIOUS
<1>10. (type = "INCOME" /\ i = n /\ e = 0) \/ (type = "EXPENSE" /\ i = 0 /\ e = n)
  BY <1>2, <1>7, <1>8, <1>9
<1>11. balanceDelta(type, n) - (IF fee > 0 THEN fee ELSE 0) = i - e - (IF fee > 0 THEN fee ELSE 0)
  <2>1. n \in Int /\ fee \in Int
    BY <1>1, <1>9
  <2>. QED
    BY ONLY <1>10, <2>1 DEF balanceDelta
<1>. QED
  BY <1>6, <1>8, <1>9, <1>11

(* What the commit of an update leaves behind of the request, whatever the *)
(* rows it rewrote to its account.                                         *)
LEMMA CommitIs ==
  ASSUME Framed, NEW w \in Workers, Commit(w), tx' \in [Txs -> Row], RowsKept', Remain(tx, tx'),
         \A t \in Txs : tx[t].state # "none" /\ tx'[t].account # tx[t].account =>
                          tx'[t].account = req[w].to
  PROVE  /\ TypeOK' /\ Framed' /\ LocksHeld(req') /\ req' = [req EXCEPT ![w] = Idle]
         /\ req[w].kind = "update" /\ req[w].pc = "tx" /\ UNCHANGED <<accountState, opening>>
         /\ outdated \subseteq outdated' /\ HeldRows(req[w]) \in SUBSET Txs
         /\ \A a \in Accounts : balance'[a] = (balance[a] - Net(req[w].seen, HeldRows(req[w]), a))
                                                + UpdateEffect(w, a)
         /\ \A r \in HeldRows(req[w]) : logicalTx[r] # req[w].seen[r] =>
              /\ tx[r].account \in outdated' /\ req[w].seen[r].account \in outdated'
              /\ req[w].to \in outdated'
<1>1. TypeOK /\ req[w] \in Request /\ Sound(tx, accountState, req[w])
      /\ outdated \subseteq Accounts /\ req \in [Workers -> Request]
  BY FramedIs, SoundIs DEF Framed, RequestTypes
<1>. DEFINE S == HeldRows(req[w])
            flagged == OutdatedOn(w, S, logicalTx)
<1>2. /\ req[w].kind = "update" /\ req[w].pc = "tx" /\ req' = [req EXCEPT ![w] = Idle]
      /\ accountState' = accountState /\ opening' = opening /\ outdated' = outdated \union flagged
      /\ balance' = [a \in Accounts |-> Reversed(w, a) + UpdateEffect(w, a)]
  BY DEF Commit, At, HeldRows
<1>3. PICK t \in Txs : req[w].rows = {t}
  BY <1>1, <1>2 DEF Sound, Updating
<1>4. req[w].to \in Accounts /\ req[w].n \in Amounts /\ req[w].to # NoAccount
  BY <1>1, <1>2, ReferenceAssumption DEF Sound, Updating
<1>5. /\ S \in SUBSET Txs
      /\ \A r \in S : logicalTx[r].account = tx[r].account /\ tx[r].account \in Accounts
  <2>1. S \in SUBSET Txs
    BY <1>1, RequestIs DEF HeldRows
  <2>2. \A r \in S : tx[r].state # "none"
    BY <1>1 DEF Sound, KnowsRows
  <2>3. \A r \in S : logicalTx[r].account = tx[r].account
    BY <1>1, <2>1, LogicalRow
  <2>. QED
    BY <2>1, <2>2, <2>3 DEF Framed, RowsKept, Provenance, InsertedRows
<1>6. /\ flagged \subseteq Accounts
      /\ \A r \in S : logicalTx[r] # req[w].seen[r] =>
           req[w].seen[r].account \in flagged /\ tx[r].account \in flagged /\ req[w].to \in flagged
  BY <1>4, <1>5, OutdatedOnIs
<1>. HIDE DEF flagged
<1>7. \A a \in Accounts : /\ balance'[a] = (balance[a] - Net(req[w].seen, S, a)) + UpdateEffect(w, a)
                          /\ balance'[a] \in Int
  <2>1. \A a \in Accounts : balance'[a] = (balance[a] - Net(req[w].seen, S, a)) + UpdateEffect(w, a)
    BY <1>2 DEF Reversed, HeldRows
  <2>2. \A a \in Accounts : balance[a] \in Int /\ Net(req[w].seen, S, a) \in Int
    BY <1>1, <1>5, NetInt DEF TypeOK
  <2>3. \A a \in Accounts : UpdateEffect(w, a) \in Int
    <3>1. PICK q : q = req[w]
      OBVIOUS
    <3>2. q \in Request /\ q.rows = {t} /\ q.n \in Amounts
      BY <1>1, <1>3, <1>4, <3>1
    <3>3. PICK d, fee, to : d = balanceDelta(q.seen[t].type, q.n) /\ fee = q.fee /\ to = q.to
      OBVIOUS
    <3>4. d \in Int /\ fee \in Int
      BY <3>2, <3>3, AmountsInt, RequestIs, DeltaInt
    <3>5. \A a : UpdateEffect(w, a) = IF a # to THEN 0 ELSE d - (IF fee > 0 THEN fee ELSE 0)
      BY <3>1, <3>2, <3>3, UpdateEffectIs
    <3>. QED
      BY <3>4, <3>5
  <2>. QED
    BY <2>1, <2>2, <2>3
<1>. HIDE DEF S
<1>8. TypeOK'
  <2>1. balance' = [a \in Accounts |-> balance'[a]]
    BY <1>2
  <2>2. balance' \in [Accounts -> Int]
    BY <1>7, <2>1
  <2>. QED
    BY <1>1, <1>2, <2>2 DEF TypeOK
<1>9. Sound(tx', accountState', Idle)
  BY IdleIs DEF Sound, KnowsRows, HeldRows, Waits
<1>10. \A v \in Workers \ {w} : \A g \in req[v].gone :
           tx'[g].account = req[v].seen[g].account => tx'[g].account = tx[g].account
  <2>. SUFFICES ASSUME NEW v \in Workers \ {w}, NEW g \in req[v].gone,
                       tx'[g].account = req[v].seen[g].account, tx'[g].account # tx[g].account
                PROVE  FALSE
    OBVIOUS
  <2>1. req[v] \in Request /\ Sound(tx, accountState, req[v])
    BY SoundIs
  <2>2. g \in Txs /\ tx[g].state = "deleted" /\ g \in HeldRows(req[v])
    BY <2>1, RequestIs, SoundFlight DEF Framed, GoneAreDeleted
  <2>3. req[v].seen[g].account = req[w].to
    BY <2>2
  <2>4. req[v].pc \in {"tx", "deleted"}
    BY <2>1 DEF Sound
  <2>5. req[w].to \in req[v].locks /\ req[w].to \in req[w].locks
    <3>1. LocksHeld(req)
      BY HoldsLocksIs DEF Framed
    <3>2. req[w].to \in TouchedOf(req[v]) /\ req[w].to \in TouchedOf(req[w])
      BY <1>4, <2>2, <2>3 DEF TouchedOf
    <3>. QED
      BY <1>2, <2>4, <3>1, <3>2 DEF LocksHeld
  <2>. QED
    BY <2>5 DEF Framed, HoldsLocks
<1>11. Framed' /\ LocksHeld(req')
  <2>1. /\ outdated \subseteq outdated' /\ outdated' \subseteq Accounts
        /\ StaysLive(accountState, accountState')
    BY <1>1, <1>2, <1>6 DEF StaysLive
  <2>2. /\ Idle.pc \notin {"tx", "deleted"} /\ Idle.gone = {} /\ Idle.locks = {} /\ Idle \in Request
    BY IdleIs
  <2>3. PICK q : q = Idle
    OBVIOUS
  <2>4. /\ q.pc \in {"tx", "deleted"} => TouchedOf(q) \subseteq q.locks
        /\ \A v \in Workers \ {w} : req[v].locks \cap q.locks = {}
        /\ \A f \in q.gone : tx'[f].state = "deleted"
        /\ \A v \in Workers \ {w} : \A f \in req[v].gone :
           /\ tx'[f].account = req[v].seen[f].account => tx'[f].account = tx[f].account
           /\ f \in q.gone /\ tx'[f].account \in {q.seen[f].account, req[v].seen[f].account} =>
                tx'[f].account \in outdated'
    BY <1>10, <2>2, <2>3
  <2>5. /\ Framed /\ q \in Request /\ req' = [req EXCEPT ![w] = q] /\ TypeOK' /\ RowsKept'
        /\ Remain(tx, tx') /\ Sound(tx', accountState', q)
    BY <1>2, <1>8, <1>9, <2>2, <2>3
  <2>. QED
    BY ONLY <2>1, <2>4, <2>5, RequestStep, w \in Workers
<1>. QED
  BY <1>2, <1>5, <1>6, <1>7, <1>8, <1>11 DEF S
(* The rows an update writes. *)
LEMMA RewrittenIs ==
  ASSUME Framed, NEW w \in Workers, req[w].kind = "update", NEW t \in Txs, req[w].rows = {t}
  PROVE  /\ Rewritten(w) \in [Txs -> Row] /\ Rewritten(w)[t] = MovedRow(t, req[w].to, req[w].n)
         /\ \A f \in req[w].fees : f # t /\ f \in Txs /\
              Rewritten(w)[f] = (IF req[w].fee > 0 THEN MovedRow(f, req[w].to, req[w].fee) ELSE tx[f])
         /\ \A u \in Txs \ HeldRows(req[w]) : Rewritten(w)[u] = tx[u]
         /\ \A u \in Txs : /\ SameRow(tx[u], Rewritten(w)[u]) /\ Rewritten(w)[u].state = tx[u].state
                           /\ Rewritten(w)[u] # tx[u] =>
                                /\ Rewritten(w)[u].account = req[w].to
                                /\ Rewritten(w)[u].amount \in Amounts
                                /\ tx[u].state # "none"
         /\ t \in HeldRows(req[w]) /\ req[w].to \in Accounts /\ req[w].n \in Amounts
         /\ accountState[req[w].to] = "live" /\ (req[w].fee > 0 => req[w].fee \in Amounts)
<1>1. TypeOK /\ req[w] \in Request /\ Sound(tx, accountState, req[w])
  BY SoundIs DEF Framed, RequestTypes
<1>2. PICK q : q = req[w]
  OBVIOUS
<1>3. /\ q.to \in Accounts /\ q.n \in Amounts /\ q.fee \in {Omitted, 0} \union BookedAmounts
      /\ accountState[q.to] = "live"
  BY <1>1, <1>2 DEF Sound, Updating
<1>4. q.fee > 0 => q.fee \in Amounts
  BY <1>3, RequestAssumption DEF Omitted
<1>5. /\ t \notin q.fees /\ q.fees \subseteq Txs /\ q.rows = {t} /\ HeldRows(q) = {t} \union q.fees
      /\ \A u \in HeldRows(q) : tx[u].state # "none"
  BY <1>1, <1>2, SoundFlight, RequestIs DEF Framed, Sound, KnowsRows, HeldRows
<1>6. \A u \in Txs : Rewritten(w)[u] = IF u = t THEN MovedRow(u, q.to, q.n)
                       ELSE IF u \in q.fees /\ q.fee > 0 THEN MovedRow(u, q.to, q.fee) ELSE tx[u]
  BY <1>2, <1>5 DEF Rewritten, MovedRow
<1>7. ASSUME NEW u \in Txs, NEW n \in Amounts
      PROVE  /\ MovedRow(u, q.to, n) \in Row /\ SameRow(tx[u], MovedRow(u, q.to, n))
             /\ MovedRow(u, q.to, n).state = tx[u].state /\ MovedRow(u, q.to, n).account = q.to
             /\ MovedRow(u, q.to, n).amount = n
  <2>1. tx[u] \in Row
    BY <1>1 DEF TypeOK
  <2>2. MovedRow(u, q.to, n) \in Row
    BY <1>1, <1>3, MovedRowType
  <2>. QED
    BY <2>1, <2>2 DEF MovedRow, Row, SameRow
<1>8. \A u \in Txs : tx[u] \in Row /\ SameRow(tx[u], tx[u])
  BY <1>1 DEF TypeOK, SameRow
<1>9. ASSUME NEW u \in Txs
      PROVE  /\ Rewritten(w)[u] \in Row
             /\ SameRow(tx[u], Rewritten(w)[u]) /\ Rewritten(w)[u].state = tx[u].state
             /\ Rewritten(w)[u] # tx[u] => /\ Rewritten(w)[u].account = q.to
                                           /\ Rewritten(w)[u].amount \in Amounts
                                           /\ u \in HeldRows(q)
  <2>1. CASE u = t
    BY <1>3, <1>5, <1>6, <1>7, <2>1
  <2>2. CASE u # t /\ u \in q.fees /\ q.fee > 0
    BY <1>4, <1>5, <1>6, <1>7, <2>2
  <2>3. CASE u # t /\ ~(u \in q.fees /\ q.fee > 0)
    BY <1>6, <1>8, <2>3
  <2>. QED
    BY <2>1, <2>2, <2>3
<1>10. Rewritten(w) \in [Txs -> Row]
  <2>1. Rewritten(w) = [u \in Txs |-> Rewritten(w)[u]]
    BY DEF Rewritten
  <2>. QED
    BY <1>9, <2>1
<1>. QED
  BY <1>2, <1>3, <1>4, <1>5, <1>6, <1>9, <1>10

LEMMA CommitUpdateIs ==
  ASSUME Framed, NEW w \in Workers, CommitUpdate(w)
  PROVE  /\ tx' = Rewritten(w) /\ Commit(w) /\ tx' \in [Txs -> Row] /\ RowsKept' /\ Remain(tx, tx')
         /\ \A t \in Txs : tx[t].state # "none" /\ tx'[t].account # tx[t].account =>
                          tx'[t].account = req[w].to
<1>1. Sound(tx, accountState, req[w]) /\ TypeOK /\ Commit(w) /\ tx' = Rewritten(w)
      /\ req[w].kind = "update" /\ accountState' = accountState
  BY SoundIs DEF Framed, RequestTypes, CommitUpdate, Commit, At
<1>2. PICK t \in Txs : req[w].rows = {t}
  BY <1>1 DEF Sound, Updating
<1>3. /\ tx' \in [Txs -> Row]
      /\ \A u \in Txs : /\ SameRow(tx[u], tx'[u]) /\ tx'[u].state = tx[u].state
                        /\ tx'[u] # tx[u] => /\ tx'[u].account = req[w].to
                                             /\ tx'[u].amount \in Amounts /\ tx[u].state # "none"
      /\ req[w].to \in Accounts /\ accountState[req[w].to] = "live"
  BY <1>1, <1>2, RewrittenIs
<1>4. Remain(tx, tx') /\ StaysLive(accountState, accountState')
  BY <1>1, <1>3 DEF Remain, StaysLive
<1>5. TypeOK /\ tx' \in [Txs -> Row] /\ RowsKept
  BY <1>1, <1>3 DEF Framed
<1>6. RowsKept'
  <2>1. PICK N : N = {}
    OBVIOUS
  <2>2. Rewrites(N)
    BY <1>3 DEF Rewrites
  <2>3. WritesLive(N)
    BY <1>1, <1>3, <2>1 DEF WritesLive
  <2>4. N \in SUBSET Txs /\ Inserts(N)
    BY <2>1 DEF Inserts
  <2>. QED
    BY ONLY <1>4, <1>5, <2>2, <2>3, <2>4, RowsStep
<1>. QED
  BY <1>1, <1>3, <1>4, <1>6
Moved(r, a, n) == [r EXCEPT !.account = a, !.amount = n]

LEMMA MovedIs ==
  ASSUME NEW r \in Row, NEW a \in Accounts, NEW n \in Amounts
  PROVE  /\ Moved(r, a, n) \in Row /\ Moved(r, a, n).account = a /\ Moved(r, a, n).amount = n
         /\ Moved(r, a, n).state = r.state /\ Moved(r, a, n).type = r.type
         /\ Revived(Moved(r, a, n)) = Moved(Revived(r), a, n)
         /\ r.state = "deleted" => deletedRow(Revived(r)) = r
         /\ \A x : Effect(Moved(r, a, n), x) = IF r.state = "live" /\ a = x THEN balanceDelta(r.type, n) ELSE 0
<1>1. n \in 0..MaxAmountMinor
  BY AmountsInt
<1>2. /\ Moved(r, a, n) \in Row /\ Moved(r, a, n).account = a /\ Moved(r, a, n).amount = n
      /\ Moved(r, a, n).state = r.state /\ Moved(r, a, n).type = r.type
  BY <1>1 DEF Moved, Row
<1>3. Revived(Moved(r, a, n)) = Moved(Revived(r), a, n)
  BY <1>1 DEF Moved, Revived, Row
<1>4. r.state = "deleted" => deletedRow(Revived(r)) = r
  BY DEF deletedRow, Revived, Row
<1>. QED
  BY <1>2, <1>3, <1>4 DEF Effect

LEMMA MovedEffect ==
  ASSUME NEW r \in Row, NEW to \in Accounts, NEW n \in Amounts, NEW a
  PROVE  Effect(Moved(r, to, n), a) = IF r.state = "live" /\ to = a THEN balanceDelta(r.type, n) ELSE 0
  BY MovedIs

Charges(q) == q.fee > 0

(* The logical rows after the commit of an update.                         *)
LEMMA CommittedRows ==
  ASSUME Framed, NEW w \in Workers, NEW q \in Request, q = req[w], q.kind = "update",
         NEW t \in Txs, q.rows = {t}, q.pc = "tx", DeletesFees(w) => q.fees \subseteq q.gone,
         Framed', TypeOK', req' = [req EXCEPT ![w] = Idle], outdated \subseteq outdated',
         \A u \in HeldRows(q) : tx'[u] = Rewritten(w)[u],
         \A r \in HeldRows(q) : logicalTx[r] # q.seen[r] => tx[r].account \in outdated'
  PROVE  /\ \A u \in Txs \ HeldRows(q) : tx'[u] = tx[u] => logicalTx'[u] = logicalTx[u]
         /\ logicalTx'[t] = Moved(logicalTx[t], q.to, q.n)
         /\ Charges(q) => \A f \in q.fees : logicalTx'[f] = Moved(logicalTx[f], q.to, q.fee)
         /\ ~Charges(q) => q.fees = {} \/ q.fee = 0
         /\ ~Charges(q) => \A f \in q.fees :
              /\ logicalTx'[f].account = tx[f].account
              /\ tx[f].account \in outdated' \/ logicalTx'[f] = deletedRow(logicalTx[f])
<1>1. Sound(tx, accountState, q) /\ TypeOK
  BY SoundIs DEF Framed, RequestTypes
<1>2. /\ Rewritten(w)[t] = Moved(tx[t], q.to, q.n)
      /\ \A f \in q.fees : f # t /\ f \in Txs /\
              Rewritten(w)[f] = (IF Charges(q) THEN Moved(tx[f], q.to, q.fee) ELSE tx[f])
      /\ \A u \in Txs \ HeldRows(q) : Rewritten(w)[u] = tx[u]
      /\ t \in HeldRows(q) /\ q.to \in Accounts /\ q.n \in Amounts /\ (Charges(q) => q.fee \in Amounts)
  <2>1. /\ Rewritten(w)[t] = MovedRow(t, req[w].to, req[w].n)
        /\ \A f \in req[w].fees : f # t /\ f \in Txs /\
              Rewritten(w)[f] = (IF Charges(req[w]) THEN MovedRow(f, req[w].to, req[w].fee) ELSE tx[f])
        /\ \A u \in Txs \ HeldRows(req[w]) : Rewritten(w)[u] = tx[u]
        /\ t \in HeldRows(req[w]) /\ req[w].to \in Accounts /\ req[w].n \in Amounts
        /\ (Charges(req[w]) => req[w].fee \in Amounts)
    <3>1. Framed /\ req[w].kind = "update" /\ req[w].rows = {t}
      OBVIOUS
    <3>. QED
      BY ONLY <3>1, RewrittenIs, w \in Workers, t \in Txs DEF Charges
  <2>2. \A u, a, n : MovedRow(u, a, n) = Moved(tx[u], a, n)
    BY DEF MovedRow, Moved
  <2>. QED
    BY <2>1, <2>2
<1>3. /\ Flying(Idle) = {} /\ Flying(q) = q.gone /\ q.gone \subseteq q.fees
      /\ q.fee \in {Omitted, 0} \union BookedAmounts /\ (q.fee = Omitted => q.fees = {})
      /\ (q.fee # 0 => q.gone = {}) /\ t \notin q.fees /\ q.fees \subseteq HeldRows(q)
  BY <1>1, <1>2, IdleIs DEF Flying, Sound, Updating, HeldRows
<1>4. ~Charges(q) => q.fees = {} \/ q.fee = 0
  <2>1. \A n \in Amounts : n > 0
    BY AmountAssumption DEF Amounts
  <2>2. q.fee \in BookedAmounts => q.fee \in Amounts
    BY RequestAssumption
  <2>3. q.fee = Omitted \/ q.fee = 0 \/ q.fee \in BookedAmounts
    BY <1>3
  <2>. QED
    BY <1>3, <2>1, <2>2, <2>3 DEF Charges
<1>5. \A u \in HeldRows(q) : tx'[u] = Rewritten(w)[u] /\ u \in Txs
  BY RequestIs DEF HeldRows
<1>6. \A u \in Txs \ HeldRows(q) : tx'[u] = tx[u] => logicalTx'[u] = logicalTx[u]
  <2>1. \A u \in Txs \ HeldRows(q) : u \in Flying(Idle) <=> u \in Flying(req[w])
    BY <1>3
  <2>. QED
    BY <2>1, LogicalSame
<1>7. ASSUME NEW u \in Txs
      PROVE  /\ tx[u] \in Row
             /\ AloftBut(w, u) => logicalTx'[u] = Revived(tx'[u])
             /\ ~AloftBut(w, u) => logicalTx'[u] = tx'[u]
             /\ u \in q.gone \/ AloftBut(w, u) => logicalTx[u] = Revived(tx[u])
             /\ ~(u \in q.gone \/ AloftBut(w, u)) => logicalTx[u] = tx[u]
             /\ logicalTx'[u].account = tx'[u].account
             /\ AloftBut(w, u) => \E v \in Workers \ {w} : u \in req[v].gone
  <2>1. /\ u \in Flying(Idle) \/ AloftBut(w, u) => logicalTx'[u] = Revived(tx'[u])
        /\ ~(u \in Flying(Idle) \/ AloftBut(w, u)) => logicalTx'[u] = tx'[u]
        /\ u \in Flying(req[w]) \/ AloftBut(w, u) => logicalTx[u] = Revived(tx[u])
        /\ ~(u \in Flying(req[w]) \/ AloftBut(w, u)) => logicalTx[u] = tx[u]
        /\ logicalTx'[u].account = tx'[u].account
        /\ AloftBut(w, u) => \E v \in Workers \ {w} : u \in req[v].gone
    <3>1. Framed /\ TypeOK' /\ req' = [req EXCEPT ![w] = Idle]
      OBVIOUS
    <3>. QED
      BY ONLY <3>1, LogicalAfter, w \in Workers, u \in Txs
  <2>2. tx[u] \in Row
    BY <1>1 DEF TypeOK
  <2>. QED
    BY <1>3, <2>1, <2>2
<1>8. logicalTx'[t] = Moved(logicalTx[t], q.to, q.n)
  <2>1. tx'[t] = Moved(tx[t], q.to, q.n) /\ t \notin q.gone
    BY <1>2, <1>3, <1>5
  <2>2. Revived(Moved(tx[t], q.to, q.n)) = Moved(Revived(tx[t]), q.to, q.n)
    BY <1>2, <1>7, MovedIs
  <2>. QED
    BY <1>7, <2>1, <2>2
<1>9. ASSUME Charges(q), NEW f \in q.fees
      PROVE  logicalTx'[f] = Moved(logicalTx[f], q.to, q.fee)
  <2>1. tx'[f] = Moved(tx[f], q.to, q.fee) /\ f \notin q.gone /\ f \in Txs /\ q.fee \in Amounts
    BY <1>2, <1>3, <1>5, <1>9 DEF Charges
  <2>2. Revived(Moved(tx[f], q.to, q.fee)) = Moved(Revived(tx[f]), q.to, q.fee)
    BY <1>2, <1>7, <2>1, MovedIs
  <2>. QED
    BY <1>7, <2>1, <2>2
<1>10. ASSUME ~Charges(q), NEW f \in q.fees
       PROVE  /\ logicalTx'[f].account = tx[f].account
              /\ tx[f].account \in outdated' \/ logicalTx'[f] = deletedRow(logicalTx[f])
  <2>1. tx'[f] = tx[f] /\ f \in Txs /\ f \in HeldRows(q) /\ q.fee = 0
    BY <1>2, <1>3, <1>4, <1>5, <1>10
  <2>2. f \in q.gone /\ tx[f].state = "deleted"
    <3>1. f \in q.gone
      BY <2>1 DEF DeletesFees
    <3>. QED
      BY <3>1 DEF Framed, GoneAreDeleted
  <2>3. CASE ~AloftBut(w, f)
    <3>1. deletedRow(Revived(tx[f])) = tx[f]
      BY <1>2, <1>7, <2>1, <2>2, MovedIs
    <3>. QED
      BY <1>7, <2>1, <2>2, <2>3, <3>1
  <2>4. CASE AloftBut(w, f)
    <3>1. PICK v \in Workers \ {w} : f \in req[v].gone
      BY <1>7, <2>1, <2>4
    <3>2. tx[f].account = q.seen[f].account => tx[f].account \in outdated'
      BY <2>2, <3>1 DEF Framed, DeletedOnce
    <3>3. tx[f].account # q.seen[f].account => tx[f].account \in outdated'
      <4>1. logicalTx[f].account = tx[f].account
        BY <1>1, <2>1, LogicalRow
      <4>. QED
        BY <2>1, <4>1
    <3>. QED
      BY <1>7, <2>1, <3>2, <3>3
  <2>. QED
    BY <2>3, <2>4
<1>. QED
  BY <1>4, <1>6, <1>8, <1>9, <1>10
LEMMA MovedSum ==
  ASSUME NEW rows, NEW u \in Txs, NEW r \in Row, NEW to \in Accounts, NEW n \in Amounts,
         rows[u] = Moved(r, to, n), NEW a
  PROVE  Net(rows, {u}, a) = Effect(Moved(r, to, n), a)
<1>1. rows[u] \in Row
  BY MovedIs
<1>. QED
  BY <1>1, NetOfOne

LEMMA ShiftsByCommit ==
  ASSUME NEW b \in Int, NEW p, p = 0, NEW m \in Int, NEW e \in Int, NEW b2, b2 = (b - m) + e, NEW p2, p2 = 0
  PROVE  Shifts(b, p, m, b2, p2, e)
  BY DEF Shifts

(* The logical rows after the commit of an update, and what the request    *)
(* knows of them.                                                          *)
UpdateCommitted(w, q, S, t) ==
  /\ TypeOK' /\ Framed' /\ LocksHeld(req') /\ req' = [req EXCEPT ![w] = Idle]
  /\ q.kind = "update" /\ q.pc = "tx" /\ UNCHANGED <<accountState, opening>>
  /\ outdated \subseteq outdated' /\ S \in SUBSET Txs
  /\ \A a \in Accounts : balance'[a] = (balance[a] - Net(q.seen, S, a)) + UpdateEffect(w, a)
  /\ \A r \in S : logicalTx[r] # q.seen[r] =>
       /\ tx[r].account \in outdated' /\ q.seen[r].account \in outdated' /\ q.to \in outdated'
  /\ q \in Request /\ Sound(tx, accountState, q) /\ (q.fee <= 0 \/ q.fees # {})
  /\ \A u \in Txs \ S : logicalTx'[u] = logicalTx[u]
  /\ logicalTx'[t] = Moved(logicalTx[t], q.to, q.n)
  /\ Charges(q) => \A f \in q.fees : logicalTx'[f] = Moved(logicalTx[f], q.to, q.fee)
  /\ ~Charges(q) => \A f \in q.fees :
       /\ logicalTx'[f].account = tx[f].account
       /\ tx[f].account \in outdated' \/ logicalTx'[f] = deletedRow(logicalTx[f])
  /\ q.to \in Accounts /\ q.n \in Amounts /\ q.fee \in Int /\ (q.fee > 0 => q.fee \in Amounts)
  /\ q.rows \cap q.fees = {} /\ S = {t} \union q.fees /\ q.fees \subseteq Txs
  /\ \A f \in q.fees : /\ q.seen[f].state = "live" /\ SameRow(q.seen[f], tx[f])
                       /\ q.seen[f].feeFor = t
  /\ q.seen[t].state = "live"
  /\ \A f, g \in q.fees : f = g
  /\ \A u \in Txs : /\ logicalTx[u] \in Row /\ logicalTx[u].account = tx[u].account
                    /\ SameRow(logicalTx[u], tx[u])
  /\ \A f \in q.fees : tx[f].type = "EXPENSE" /\ logicalTx[f].type = "EXPENSE"

LEMMA CommittedUpdate ==
  ASSUME RequestsInv, NEW w \in Workers, CommitUpdate(w),
         NEW q, q = req[w], NEW S, S = HeldRows(q), NEW t \in Txs, q.rows = {t}
  PROVE  UpdateCommitted(w, q, S, t)
<1>1. Framed /\ DriftExplained /\ TypeOK /\ req[w] \in Request /\ Sound(tx, accountState, req[w])
      /\ CommitUpdate(w)
  BY FramedIs, SoundIs DEF Framed, RequestTypes
<1>2. /\ tx' = Rewritten(w) /\ Commit(w) /\ tx' \in [Txs -> Row] /\ RowsKept' /\ Remain(tx, tx')
      /\ \A u \in Txs : tx[u].state # "none" /\ tx'[u].account # tx[u].account =>
                          tx'[u].account = req[w].to
  BY <1>1, CommitUpdateIs
<1>4. /\ TypeOK' /\ Framed' /\ LocksHeld(req') /\ req' = [req EXCEPT ![w] = Idle]
      /\ q.kind = "update" /\ q.pc = "tx" /\ UNCHANGED <<accountState, opening>>
      /\ outdated \subseteq outdated' /\ S \in SUBSET Txs
      /\ \A a \in Accounts : balance'[a] = (balance[a] - Net(q.seen, S, a)) + UpdateEffect(w, a)
      /\ \A r \in S : logicalTx[r] # q.seen[r] =>
              /\ tx[r].account \in outdated' /\ q.seen[r].account \in outdated' /\ q.to \in outdated'
  BY <1>1, <1>2, CommitIs
<1>5. q \in Request /\ Sound(tx, accountState, q)
  BY <1>1
<1>7. /\ DeletesFees(w) => q.fees \subseteq q.gone
      /\ q.fee <= 0 \/ q.fees # {}
  BY <1>1 DEF CommitUpdate
<1>8. /\ \A u \in Txs \ S : logicalTx'[u] = logicalTx[u]
      /\ logicalTx'[t] = Moved(logicalTx[t], q.to, q.n)
      /\ Charges(q) => \A f \in q.fees : logicalTx'[f] = Moved(logicalTx[f], q.to, q.fee)
      /\ ~Charges(q) => \A f \in q.fees :
              /\ logicalTx'[f].account = tx[f].account
              /\ tx[f].account \in outdated' \/ logicalTx'[f] = deletedRow(logicalTx[f])
  <2>1. /\ \A u \in HeldRows(q) : tx'[u] = Rewritten(w)[u]
        /\ \A r \in HeldRows(q) : logicalTx[r] # q.seen[r] => tx[r].account \in outdated'
    BY <1>2, <1>4
  <2>2. Framed /\ Framed' /\ TypeOK' /\ req' = [req EXCEPT ![w] = Idle] /\ outdated \subseteq outdated'
    BY <1>1, <1>4
  <2>3. /\ q \in Request /\ q = req[w] /\ q.kind = "update" /\ q.rows = {t} /\ q.pc = "tx"
        /\ DeletesFees(w) => q.fees \subseteq q.gone
    BY <1>4, <1>5, <1>7
  <2>4. /\ \A u \in Txs \ HeldRows(q) : tx'[u] = tx[u] => logicalTx'[u] = logicalTx[u]
        /\ logicalTx'[t] = Moved(logicalTx[t], q.to, q.n)
        /\ Charges(q) => \A f \in q.fees : logicalTx'[f] = Moved(logicalTx[f], q.to, q.fee)
        /\ ~Charges(q) => \A f \in q.fees :
              /\ logicalTx'[f].account = tx[f].account
              /\ tx[f].account \in outdated' \/ logicalTx'[f] = deletedRow(logicalTx[f])
    BY ONLY <2>1, <2>2, <2>3, CommittedRows, w \in Workers, t \in Txs, ZenonT(60)
  <2>5. \A u \in Txs \ HeldRows(q) : Rewritten(w)[u] = tx[u]
    <3>1. Framed /\ req[w].kind = "update" /\ req[w].rows = {t}
      BY <1>1, <2>3
    <3>. QED
      BY <3>1, RewrittenIs
  <2>. QED
    BY <1>2, <2>4, <2>5
<1>9. /\ q.to \in Accounts /\ q.n \in Amounts /\ q.fee \in Int /\ (q.fee > 0 => q.fee \in Amounts)
      /\ q.rows \cap q.fees = {} /\ S = {t} \union q.fees /\ q.fees \subseteq Txs
      /\ \A f \in q.fees : q.seen[f].state = "live" /\ SameRow(q.seen[f], tx[f])
                             /\ q.seen[f].feeFor = t
      /\ q.seen[t].state = "live"
  <2>1. q.to \in Accounts /\ q.n \in Amounts /\ q.fee \in {Omitted, 0} \union BookedAmounts
    BY <1>4, <1>5 DEF Sound, Updating
  <2>2. q.fee > 0 => q.fee \in Amounts
    BY <2>1, RequestAssumption DEF Omitted
  <2>3. S = {t} \union q.fees
    BY DEF HeldRows
  <2>4. q.rows \cap q.fees = {}
    BY <1>1, <1>5, SoundFlight DEF Framed
  <2>5. /\ \A f \in q.fees : q.seen[f].state = "live" /\ SameRow(q.seen[f], tx[f]) /\ q.seen[f].feeFor = t
        /\ q.seen[t].state = "live"
    BY <1>5, <2>3 DEF Sound, KnowsRows
  <2>. QED
    BY <1>5, <2>1, <2>2, <2>3, <2>4, <2>5, RequestIs
<1>10. \A f, g \in q.fees : f = g
  BY <1>1, <1>9, ReferenceAssumption DEF SameRow, Framed, RowsKept, Provenance, FeeUnique
<1>11. \A u \in Txs : logicalTx[u] \in Row /\ logicalTx[u].account = tx[u].account /\ SameRow(logicalTx[u], tx[u])
  BY <1>1, LogicalRow
<1>12. \A f \in q.fees : tx[f].type = "EXPENSE" /\ logicalTx[f].type = "EXPENSE"
  BY <1>1, <1>9, <1>11, ReferenceAssumption DEF SameRow, Framed, RowsKept, Provenance, FeeRows
<1>. QED
  BY <1>4, <1>5, <1>7, <1>8, <1>9, <1>10, <1>11, <1>12 DEF UpdateCommitted

LEMMA CommitUpdateStep ==
  ASSUME RequestsInv, NEW w \in Workers, CommitUpdate(w)
  PROVE  RequestsInv'
<1>1. Framed /\ DriftExplained /\ TypeOK /\ req[w] \in Request /\ Sound(tx, accountState, req[w])
      /\ CommitUpdate(w)
  BY FramedIs, SoundIs DEF Framed, RequestTypes
<1>2. PICK q, S : q = req[w] /\ S = HeldRows(q)
  OBVIOUS
<1>3. PICK t \in Txs : q.rows = {t}
  <2>1. req[w].kind = "update"
    BY DEF CommitUpdate, Commit, At
  <2>. QED
    BY <1>1, <1>2, <2>1 DEF Sound, Updating
<1>4. UpdateCommitted(w, q, S, t)
  <2>1. RequestsInv /\ CommitUpdate(w)
    OBVIOUS
  <2>. QED
    BY ONLY <1>2, <1>3, <2>1, CommittedUpdate, w \in Workers
<1>. USE DEF UpdateCommitted
<1>5. \A a : PendingOf(Idle, a) = 0 /\ PendingOf(req[w], a) = 0
  BY <1>2, <1>4, IdleIs DEF PendingOf
<1>6. ASSUME NEW a \in Accounts \ outdated'
       PROVE  Derived(logicalBalance'[a], opening'[a], Net(logicalTx', Txs, a))
  <2>1. a \in Accounts \ outdated
    BY <1>4
  <2>2. Net(logicalTx, S, a) = Net(q.seen, S, a) /\ Net(q.seen, S, a) \in Int
    <3>1. \A u \in S : logicalTx[u] # q.seen[u] => Off(logicalTx[u], a) /\ Off(q.seen[u], a)
      BY <1>4 DEF Off
    <3>. QED
      BY <1>4, <3>1, SeenSum, NetInt
  <2>3. a = q.to => \A u \in S : logicalTx[u] = q.seen[u]
    BY <1>4
  <2>4. PICK e : e = balanceDelta(q.seen[t].type, q.n) /\ e \in Int
    BY <1>4, DeltaInt, AmountsInt
  <2>5. Net(logicalTx', {t}, a) = IF a = q.to THEN e ELSE 0
    <3>1. a = q.to => logicalTx[t].state = "live" /\ logicalTx[t].type = q.seen[t].type
      BY <1>4, <2>3
    <3>2. PICK r, rows, to, n : r = logicalTx[t] /\ rows = logicalTx' /\ to = q.to /\ n = q.n
      OBVIOUS
    <3>3. rows[t] = Moved(r, to, n) /\ r \in Row /\ to \in Accounts /\ n \in Amounts
          /\ (a = to => r.state = "live")
      BY <1>4, <3>1, <3>2
    <3>4. Net(rows, {t}, a) = Effect(Moved(r, to, n), a)
      BY ONLY <3>3, MovedSum, t \in Txs
    <3>5. Effect(Moved(r, to, n), a) = IF r.state = "live" /\ to = a THEN balanceDelta(r.type, n) ELSE 0
      BY <3>3, MovedEffect
    <3>. QED
      BY <2>4, <3>1, <3>2, <3>3, <3>4, <3>5
  <2>6. Net(logicalTx', q.fees, a) = IF a = q.to /\ q.fee > 0 THEN -q.fee ELSE 0
    <3>1. CASE q.fee > 0
      <4>1. PICK f : q.fees = {f} /\ f \in Txs
        BY <1>4, <3>1
      <4>2. a = q.to => logicalTx[f].state = "live"
        BY <1>4, <2>3, <4>1
      <4>3. logicalTx'[f] = Moved(logicalTx[f], q.to, q.fee) /\ logicalTx[f].type = "EXPENSE"
            /\ q.fee \in Amounts
        BY <1>4, <3>1, <4>1 DEF Charges
      <4>4. PICK r, rows, to, n : r = logicalTx[f] /\ rows = logicalTx' /\ to = q.to /\ n = q.fee
        OBVIOUS
      <4>5. rows[f] = Moved(r, to, n) /\ r \in Row /\ to \in Accounts /\ n \in Amounts
            /\ (a = to => r.state = "live") /\ r.type = "EXPENSE" /\ n > 0
        BY <1>4, <3>1, <4>1, <4>2, <4>3, <4>4
      <4>6. Net(rows, {f}, a) = Effect(Moved(r, to, n), a)
        BY <4>1, <4>5, MovedSum
      <4>8. Effect(Moved(r, to, n), a) = IF r.state = "live" /\ to = a THEN balanceDelta(r.type, n) ELSE 0
        BY <4>5, MovedEffect
      <4>7. balanceDelta(r.type, n) = -n
        BY <4>5 DEF balanceDelta
      <4>. QED
        BY <3>1, <4>1, <4>4, <4>5, <4>6, <4>7, <4>8
    <3>2. CASE ~(q.fee > 0)
      <4>1. \A f \in q.fees : deletedRow(logicalTx[f]).state = "deleted"
        BY <1>4 DEF deletedRow, Row
      <4>2. \A f \in q.fees : Off(logicalTx'[f], a)
        BY <1>4, <3>2, <4>1 DEF Off, Charges
      <4>3. Net(logicalTx', q.fees, a) = 0
        BY <4>2, NetOff
      <4>. QED
        BY <3>2, <4>3
    <3>. QED
      BY <3>1, <3>2
  <2>7. Net(logicalTx', S, a) = Net(logicalTx', {t}, a) + Net(logicalTx', q.fees, a)
    BY <1>3, <1>4, NetUnion
  <2>8. UpdateEffect(w, a) = IF a # q.to THEN 0
                  ELSE balanceDelta(q.seen[t].type, q.n) - (IF q.fee > 0 THEN q.fee ELSE 0)
    BY <1>2, <1>4, <1>3, UpdateEffectIs
  <2>9. Net(logicalTx', S, a) = UpdateEffect(w, a) /\ UpdateEffect(w, a) \in Int
    <3>1. PICK fee, to, n1, n2 : fee = q.fee /\ to = q.to /\ n1 = Net(logicalTx', {t}, a) /\ n2 = Net(logicalTx', q.fees, a)
      OBVIOUS
    <3>2. /\ n1 = (IF a = to THEN e ELSE 0) /\ n2 = (IF a = to /\ fee > 0 THEN -fee ELSE 0)
          /\ UpdateEffect(w, a) = (IF a # to THEN 0 ELSE e - (IF fee > 0 THEN fee ELSE 0))
          /\ Net(logicalTx', S, a) = n1 + n2 /\ fee \in Int /\ e \in Int
      BY <1>4, <2>4, <2>5, <2>6, <2>7, <2>8, <3>1
    <3>. QED
      BY ONLY <3>2
  <2>10. Shifts(balance[a], PendingOf(req[w], a), Net(logicalTx, S, a),
               balance'[a], PendingOf(Idle, a), Net(logicalTx', S, a))
    <3>1. PICK b, b2, m, x, p, p2 : /\ b = balance[a] /\ b2 = balance'[a] /\ m = Net(q.seen, S, a)
                                    /\ x = UpdateEffect(w, a)
                                    /\ p = PendingOf(req[w], a) /\ p2 = PendingOf(Idle, a)
      OBVIOUS
    <3>2. b \in Int /\ m \in Int /\ x \in Int /\ b2 = (b - m) + x /\ p = 0 /\ p2 = 0
      BY <1>1, <1>4, <1>5, <2>2, <2>9, <3>1 DEF TypeOK
    <3>3. Shifts(b, p, m, b2, p2, x)
      BY <3>2, ShiftsByCommit
    <3>. QED
      BY <2>2, <2>9, <3>1, <3>3
  <2>11. /\ Framed /\ DriftExplained /\ TypeOK' /\ Idle \in Request
        /\ req' = [req EXCEPT ![w] = Idle] /\ LocksHeld(req') /\ opening' = opening
        /\ S \in SUBSET Txs /\ \A u \in Txs \ S : logicalTx'[u] = logicalTx[u]
    BY <1>1, <1>4, IdleIs
  <2>. QED
    BY ONLY <2>1, <2>10, <2>11, DriftStep, w \in Workers
<1>7. DriftExplained'
  <2>1. \A a \in Accounts \ outdated' : Derived(logicalBalance'[a], opening'[a], Net(logicalTx', Txs, a))
    BY <1>6
  <2>. QED
    BY <2>1 DEF DriftExplained, Derived
<1>. QED
  BY <1>4, <1>7 DEF RequestsInv, Framed
-----------------------------------------------------------------------------
(* Insertions: the atomic handlers, beside the requests in flight. *)
Books(b, o, b2, o2, n) == b2 - o2 = (b - o) + n

LEMMA BalanceLinear ==
  ASSUME NEW rq \in [Workers -> Request], NEW bal \in [Accounts -> Int], NEW bal2 \in [Accounts -> Int],
         NEW a \in Accounts
  PROVE  /\ BalanceOf(rq, bal, a) \in Int
         /\ BalanceOf(rq, bal2, a) = BalanceOf(rq, bal, a) + (bal2[a] - bal[a])
<1>1. bal[a] \in Int /\ bal2[a] \in Int
  OBVIOUS
<1>2. CASE \E w \in Workers : ReversesOn(rq[w], a)
  <2>1. PICK w \in Workers : w = CHOOSE x \in Workers : ReversesOn(rq[x], a)
    BY <1>2
  <2>2. HeldRows(rq[w]) \in SUBSET Txs
    BY RequestIs DEF HeldRows
  <2>3. PICK n : n = Net(rq[w].seen, HeldRows(rq[w]), a) /\ n \in Int
    BY <2>2, NetInt
  <2>4. BalanceOf(rq, bal, a) = bal[a] - n /\ BalanceOf(rq, bal2, a) = bal2[a] - n
    BY <1>2, <2>1, <2>3 DEF BalanceOf
  <2>. QED
    BY <1>1, <2>3, <2>4
<1>3. CASE ~ \E w \in Workers : ReversesOn(rq[w], a)
  <2>1. BalanceOf(rq, bal, a) = bal[a] /\ BalanceOf(rq, bal2, a) = bal2[a]
    BY <1>3 DEF BalanceOf
  <2>. QED
    BY <1>1, <2>1
<1>. QED
  BY <1>2, <1>3

(* The rows of S are inserted. *)
LEMMA InsertIs ==
  ASSUME Framed, Stays, TypeOK', RowsKept', StaysLive(accountState, accountState'),
         NEW S \in SUBSET Txs,
         \A t \in S : /\ tx[t] = NoRow /\ tx'[t].state = "live"
                      /\ tx'[t].group = NoTx \/ tx[tx'[t].group].state = "none",
         \A t \in Txs \ S : tx'[t] = tx[t]
  PROVE  /\ Framed'
         /\ \A t \in S : logicalTx'[t] = tx'[t] /\ logicalTx[t] = NoRow
         /\ \A t \in Txs \ S : logicalTx'[t] = logicalTx[t]
         /\ \A a \in Accounts : /\ logicalBalance[a] \in Int /\ balance[a] \in Int /\ balance'[a] \in Int
                                /\ logicalBalance'[a] = logicalBalance[a] + (balance'[a] - balance[a])
<1>1. /\ req' = req /\ outdated' = outdated /\ TypeOK /\ RequestTypes /\ RowsKept
      /\ balance \in [Accounts -> Int] /\ balance' \in [Accounts -> Int] /\ req \in [Workers -> Request]
      /\ tx \in [Txs -> Row] /\ tx' \in [Txs -> Row]
  BY DEF Stays, Framed, RequestTypes, TypeOK
<1>2. Remain(tx, tx')
  BY <1>1, EmptyRows DEF Remain, SameRow
<1>3. \A t \in Txs : tx[t].state # "none" => tx'[t] = tx[t]
  BY EmptyRows
<1>4. \A w \in Workers : req[w].gone \subseteq Txs
  BY <1>1, RequestIs
<1>5. Framed'
  <2>1. RequestTypes'
    BY <1>1 DEF RequestTypes
  <2>2. AllSound'
    <3>1. \A w \in Workers : Sound(tx, accountState, req[w]) /\ req[w] \in Request
      BY <1>1 DEF Framed, AllSound
    <3>2. \A w \in Workers : Sound(tx', accountState', req[w])
      BY <1>1, <1>2, <3>1, SoundKept
    <3>. QED
      BY <1>1, <3>2 DEF AllSound
  <2>3. HoldsLocks'
    BY <1>1 DEF Framed, HoldsLocks, Inside, Touched, Seen
  <2>4. GoneAreDeleted'
    BY <1>1, <1>3, <1>4 DEF Framed, GoneAreDeleted
  <2>5. DeletedOnce'
    BY <1>1, <1>3, <1>4 DEF Framed, GoneAreDeleted, DeletedOnce
  <2>. QED
    BY <2>1, <2>2, <2>3, <2>4, <2>5 DEF Framed
<1>6. \A t \in Txs : Aloft(t) => tx[t].state = "deleted"
  BY AloftIs DEF Framed
<1>7. \A t \in Txs : logicalTx'[t] = IF Aloft(t) THEN [tx'[t] EXCEPT !.state = "live"] ELSE tx'[t]
  BY <1>1 DEF logicalTx, Aloft, InFlight
<1>8. \A t \in Txs : logicalTx[t] = IF Aloft(t) THEN [tx[t] EXCEPT !.state = "live"] ELSE tx[t]
  BY DEF logicalTx, Aloft
<1>9. ASSUME NEW a \in Accounts
      PROVE  /\ logicalBalance[a] \in Int /\ balance[a] \in Int /\ balance'[a] \in Int
             /\ logicalBalance'[a] = logicalBalance[a] + (balance'[a] - balance[a])
  <2>1. PICK rq, bal, bal2 : rq = req /\ bal = balance /\ bal2 = balance'
    OBVIOUS
  <2>2. logicalBalance[a] = BalanceOf(rq, bal, a) /\ logicalBalance'[a] = BalanceOf(rq, bal2, a)
    BY <1>1, <2>1, LogicalBalanceIs
  <2>3. /\ BalanceOf(rq, bal, a) \in Int
        /\ BalanceOf(rq, bal2, a) = BalanceOf(rq, bal, a) + (bal2[a] - bal[a])
    BY <1>1, <2>1, BalanceLinear
  <2>. QED
    BY <1>1, <2>1, <2>2, <2>3
<1>10. \A t \in S : logicalTx'[t] = tx'[t] /\ logicalTx[t] = NoRow
  BY <1>6, <1>7, <1>8, EmptyRows
<1>11. \A t \in Txs \ S : logicalTx'[t] = logicalTx[t]
  <2>. SUFFICES ASSUME NEW t \in Txs \ S PROVE logicalTx'[t] = logicalTx[t]
    OBVIOUS
  <2>1. tx'[t] = tx[t]
    OBVIOUS
  <2>. QED
    BY ONLY <1>7, <1>8, <2>1, t \in Txs
<1>. QED
  BY <1>5, <1>9, <1>10, <1>11

LEMMA InsertStep ==
  ASSUME RequestsInv, Stays, TypeOK', RowsKept', StaysLive(accountState, accountState'),
         NEW S \in SUBSET Txs,
         \A t \in S : /\ tx[t] = NoRow /\ tx'[t].state = "live"
                      /\ tx'[t].group = NoTx \/ tx[tx'[t].group].state = "none",
         \A t \in Txs \ S : tx'[t] = tx[t],
         \A a \in Accounts \ outdated : Books(balance[a], opening[a], balance'[a], opening'[a], Net(tx', S, a))
  PROVE  RequestsInv'
<1>1. Framed /\ DriftExplained
  BY FramedIs
<1>2. /\ Framed'
      /\ \A t \in S : logicalTx'[t] = tx'[t] /\ logicalTx[t] = NoRow
      /\ \A t \in Txs \ S : logicalTx'[t] = logicalTx[t]
      /\ \A a \in Accounts : /\ logicalBalance[a] \in Int /\ balance[a] \in Int /\ balance'[a] \in Int
                             /\ logicalBalance'[a] = logicalBalance[a] + (balance'[a] - balance[a])
  BY <1>1, InsertIs
<1>3. ASSUME NEW a \in Accounts \ outdated'
      PROVE  logicalBalance'[a] = opening'[a] + Net(logicalTx', Txs, a)
  <2>1. outdated' = outdated /\ opening[a] \in Int /\ opening'[a] \in Int
    BY <1>1 DEF Stays, Framed, RequestTypes, TypeOK
  <2>2. Net(logicalTx', Txs, a) = Net(logicalTx, Txs, a) - Net(logicalTx, S, a) + Net(logicalTx', S, a)
    BY <1>2, NetChange
  <2>3. Net(logicalTx, S, a) = 0
    BY <1>2, NetOff, EmptyRows DEF Off
  <2>4. Net(logicalTx', S, a) = Net(tx', S, a)
    BY <1>2, NetSame
  <2>5. PICK n, m : n = Net(logicalTx, Txs, a) /\ m = Net(tx', S, a) /\ n \in Int /\ m \in Int
    BY NetInt
  <2>6. Net(logicalTx', Txs, a) = n + m
    BY <2>2, <2>3, <2>4, <2>5
  <2>7. logicalBalance[a] = opening[a] + n
    BY <1>1, <2>1, <2>5 DEF DriftExplained
  <2>8. Books(balance[a], opening[a], balance'[a], opening'[a], m)
    BY <2>1, <2>5
  <2>9. PICK l, l2, b, b2, o, o2 :
          /\ l = logicalBalance[a] /\ l2 = logicalBalance'[a] /\ b = balance[a] /\ b2 = balance'[a]
          /\ o = opening[a] /\ o2 = opening'[a]
    OBVIOUS
  <2>10. /\ l \in Int /\ b \in Int /\ b2 \in Int /\ o \in Int /\ o2 \in Int
         /\ l = o + n /\ l2 = l + (b2 - b) /\ Books(b, o, b2, o2, m)
    BY <1>2, <2>1, <2>7, <2>8, <2>9
  <2>11. l2 = o2 + (n + m)
    BY ONLY <2>5, <2>10 DEF Books
  <2>. QED
    BY <2>6, <2>9, <2>11
<1>4. DriftExplained'
  BY <1>3 DEF DriftExplained
<1>. QED
  BY <1>2, <1>4 DEF RequestsInv, Framed
-----------------------------------------------------------------------------
(* Two balances that move alike. *)
Parallel(bal, lb, bal2, lb2) ==
  /\ bal \in [Accounts -> Int] /\ lb \in [Accounts -> Int]
  /\ bal2 \in [Accounts -> Int] /\ lb2 \in [Accounts -> Int]
  /\ \A x \in Accounts : lb2[x] = lb[x] + (bal2[x] - bal[x])

LEMMA ParallelStart ==
  ASSUME NEW bal \in [Accounts -> Int], NEW lb \in [Accounts -> Int]
  PROVE  Parallel(bal, lb, bal, lb)
<1>1. \A x \in Accounts : bal[x] \in Int /\ lb[x] \in Int
  OBVIOUS
<1>2. \A x \in Accounts : lb[x] = lb[x] + (bal[x] - bal[x])
  BY <1>1
<1>. QED
  BY <1>2 DEF Parallel

LEMMA ParallelAdjust ==
  ASSUME NEW bal, NEW lb, NEW bal2, NEW lb2, Parallel(bal, lb, bal2, lb2), NEW a \in Accounts, NEW d \in Int
  PROVE  Parallel(bal, lb, adjustBalance(bal2, a, d), adjustBalance(lb2, a, d))
<1>1. /\ bal \in [Accounts -> Int] /\ lb \in [Accounts -> Int]
      /\ bal2 \in [Accounts -> Int] /\ lb2 \in [Accounts -> Int]
      /\ adjustBalance(bal2, a, d) \in [Accounts -> Int] /\ adjustBalance(lb2, a, d) \in [Accounts -> Int]
  BY AdjustType DEF Parallel
<1>2. ASSUME NEW x \in Accounts
      PROVE  adjustBalance(lb2, a, d)[x] = lb[x] + (adjustBalance(bal2, a, d)[x] - bal[x])
  <2>1. PICK i, i2, j, j2, k, k2 :
          /\ i = bal[x] /\ i2 = bal2[x] /\ j = lb[x] /\ j2 = lb2[x]
          /\ k = adjustBalance(bal2, a, d)[x] /\ k2 = adjustBalance(lb2, a, d)[x]
    OBVIOUS
  <2>2. k = i2 + (IF a = x THEN d ELSE 0) /\ k2 = j2 + (IF a = x THEN d ELSE 0)
    BY <1>1, <2>1, AdjustAt
  <2>3. i \in Int /\ i2 \in Int /\ j \in Int /\ j2 \in Int /\ j2 = j + (i2 - i)
    BY <1>1, <2>1 DEF Parallel
  <2>4. k2 = j + (k - i)
    BY ONLY <2>2, <2>3, d \in Int
  <2>. QED
    BY <2>1, <2>4
<1>. QED
  BY <1>1, <1>2 DEF Parallel

LEMMA ParallelIs ==
  ASSUME NEW bal, NEW lb, NEW bal2, NEW lb2, NEW lb3,
         Parallel(bal, lb, bal2, lb2), lb3 = [a \in Accounts |-> lb3[a]],
         \A x \in Accounts : lb3[x] = lb[x] + (bal2[x] - bal[x])
  PROVE  lb3 = lb2
<1>1. \A x \in Accounts : lb3[x] = lb2[x]
  BY DEF Parallel
<1>. QED
  BY <1>1 DEF Parallel

LEMMA LogicalBalanceTyped ==
  ASSUME Framed PROVE logicalBalance \in [Accounts -> Int]
<1>1. \A a \in Accounts : logicalBalance[a] \in Int
  <2>1. req \in [Workers -> Request] /\ balance \in [Accounts -> Int]
    BY DEF Framed, RequestTypes, TypeOK
  <2>2. \A a \in Accounts : BalanceOf(req, balance, a) \in Int
    BY <2>1, BalanceLinear
  <2>. QED
    BY <2>2, LogicalBalanceIs
<1>. QED
  BY <1>1, LogicalFunctions

(* The operators of the instance that take no variable. *)
LEMMA AtomicData ==
  /\ \A bal, a, d : Atomic!adjustBalance(bal, a, d) = adjustBalance(bal, a, d)
  /\ \A type, n : Atomic!balanceDelta(type, n) = balanceDelta(type, n)
  /\ \A a, type, n, s, g, f : Atomic!LiveRow(a, type, n, s, g, f) = LiveRow(a, type, n, s, g, f)
  /\ \A a, n, p : Atomic!FeeRow(a, n, p) = FeeRow(a, n, p)
<1>1. \A bal, a, d : Atomic!adjustBalance(bal, a, d) = adjustBalance(bal, a, d)
  BY DEF Atomic!adjustBalance, adjustBalance
<1>2. \A type, n : Atomic!balanceDelta(type, n) = balanceDelta(type, n)
  BY DEF Atomic!balanceDelta, balanceDelta
<1>3. \A a, type, n, s, g, f : Atomic!LiveRow(a, type, n, s, g, f) = LiveRow(a, type, n, s, g, f)
  BY DEF Atomic!LiveRow, LiveRow
<1>4. \A a, n, p : Atomic!FeeRow(a, n, p) = FeeRow(a, n, p)
  BY <1>3 DEF Atomic!FeeRow, FeeRow
<1>. QED
  BY <1>1, <1>2, <1>3, <1>4
-----------------------------------------------------------------------------
LEMMA CreateAccountStep ==
  ASSUME RequestsInv, NEW a \in Accounts, NEW o \in Openings, CreateAccount(a, o), Stays
  PROVE  RequestsInv' /\ Atomic!CreateAccount(a, o)
<1>1. Framed /\ DriftExplained /\ TypeOK /\ o \in Int /\ balance \in [Accounts -> Int]
      /\ req \in [Workers -> Request] /\ outdated' = outdated
  BY FramedIs, OpeningsAssumption DEF Framed, RequestTypes, TypeOK, Stays
<1>2. /\ accountState[a] = "none" /\ accountState' = [accountState EXCEPT ![a] = "live"]
      /\ opening' = [opening EXCEPT ![a] = o] /\ balance' = [balance EXCEPT ![a] = o] /\ tx' = tx
  BY DEF CreateAccount
<1>3. TypeOK' /\ StaysLive(accountState, accountState')
  BY <1>1, <1>2 DEF TypeOK, StaysLive
<1>4. RowsKept'
  BY <1>1, <1>2 DEF Framed, RequestTypes, TypeOK, RowsKept, Provenance, UnusedRows, InsertedRows, FeeRows, FeeUnique, LegRows
<1>5. /\ Framed' /\ \A t \in Txs : logicalTx'[t] = logicalTx[t]
      /\ \A x \in Accounts : /\ logicalBalance[x] \in Int /\ balance[x] \in Int /\ balance'[x] \in Int
                             /\ logicalBalance'[x] = logicalBalance[x] + (balance'[x] - balance[x])
  <2>1. PICK S : S = {}
    OBVIOUS
  <2>2. /\ Framed /\ Stays /\ TypeOK' /\ RowsKept' /\ StaysLive(accountState, accountState')
        /\ S \in SUBSET Txs
        /\ \A t \in S : /\ tx[t] = NoRow /\ tx'[t].state = "live"
                        /\ tx'[t].group = NoTx \/ tx[tx'[t].group].state = "none"
        /\ \A t \in Txs \ S : tx'[t] = tx[t]
    BY <1>1, <1>2, <1>3, <1>4, <2>1
  <2>3. /\ Framed'
        /\ \A t \in Txs \ S : logicalTx'[t] = logicalTx[t]
        /\ \A x \in Accounts : /\ logicalBalance[x] \in Int /\ balance[x] \in Int /\ balance'[x] \in Int
                               /\ logicalBalance'[x] = logicalBalance[x] + (balance'[x] - balance[x])
    BY ONLY <2>2, InsertIs
  <2>. QED
    BY <2>1, <2>3
<1>6. \A t \in Txs : Off(logicalTx[t], a)
  <2>1. ASSUME NEW t \in Txs, logicalTx[t].state = "live" PROVE logicalTx[t].account # a
    <3>1. logicalTx[t].account = tx[t].account /\ (Aloft(t) \/ tx[t].state = "live")
      BY <1>1, <2>1, LogicalRow
    <3>2. tx[t].state # "none"
      BY <1>1, <3>1, AloftIs DEF Framed
    <3>. QED
      BY <1>1, <1>2, <3>1, <3>2 DEF Framed, RowsKept
  <2>. QED
    BY <2>1 DEF Off
<1>7. \A w \in Workers : PendingOf(req[w], a) = 0
  <2>. SUFFICES ASSUME NEW w \in Workers PROVE PendingOf(req[w], a) = 0
    OBVIOUS
  <2>1. req[w] \in Request /\ Sound(tx, accountState, req[w])
    BY <1>1, SoundIs
  <2>2. CASE req[w].kind = "remove"
    <3>1. a \notin TouchedOf(req[w])
      BY <1>2, <2>1, <2>2 DEF TouchedOf, Sound, KnowsRows, Removing
    <3>. QED
      BY <2>1, <3>1, UntouchedIsZero
  <2>3. CASE req[w].kind # "remove"
    BY <2>3 DEF PendingOf
  <2>. QED
    BY <2>2, <2>3
<1>8. logicalBalance[a] = balance[a]
  <2>1. CASE Workers = {}
    BY <2>1, LogicalBalanceIs DEF BalanceOf
  <2>2. CASE Workers # {}
    <3>1. PICK w \in Workers : TRUE
      BY <2>2
    <3>2. LocksHeld(req)
      BY <1>1, HoldsLocksIs DEF Framed
    <3>3. BalanceOf(req, balance, a) = balance[a] - PendingOf(req[w], a)
      BY <1>1, <1>7, <3>1, <3>2, BalanceIs
    <3>. QED
      BY <1>1, <1>7, <3>1, <3>3, LogicalBalanceIs
  <2>. QED
    BY <2>1, <2>2
<1>9. /\ \A x \in Accounts \ {a} : logicalBalance'[x] = logicalBalance[x] /\ opening'[x] = opening[x]
      /\ logicalBalance'[a] = o /\ opening'[a] = o
  <2>1. \A x \in Accounts \ {a} : balance'[x] = balance[x] /\ opening'[x] = opening[x]
    BY <1>2
  <2>2. balance'[a] = o /\ opening'[a] = o
    BY <1>1, <1>2 DEF TypeOK
  <2>. QED
    BY <1>1, <1>5, <1>8, <2>1, <2>2
<1>10. logicalTx' = logicalTx
  BY <1>5, LogicalFunctions
<1>11. DriftExplained'
  <2>1. Net(logicalTx, Txs, a) = 0
    BY <1>6, NetOff
  <2>2. ASSUME NEW x \in Accounts \ outdated'
        PROVE  logicalBalance'[x] = opening'[x] + Net(logicalTx', Txs, x)
    <3>1. CASE x = a
      BY <1>1, <1>9, <1>10, <2>1, <3>1
    <3>2. CASE x # a
      BY <1>1, <1>9, <1>10, <3>2 DEF DriftExplained
    <3>. QED
      BY <3>1, <3>2
  <2>. QED
    BY <2>2 DEF DriftExplained
<1>12. Atomic!CreateAccount(a, o)
  <2>1. logicalBalance' = [logicalBalance EXCEPT ![a] = o]
    <3>1. logicalBalance \in [Accounts -> Int] /\ logicalBalance' = [x \in Accounts |-> logicalBalance'[x]]
      BY <1>1, LogicalBalanceTyped, LogicalFunctions
    <3>. QED
      BY <1>9, <3>1
  <2>. QED
    BY <1>2, <1>10, <2>1 DEF Atomic!CreateAccount
<1>. QED
  BY <1>5, <1>11, <1>12 DEF RequestsInv, Framed

(* Inserting one ordinary row. *)
LEMMA CreateTxIs ==
  ASSUME TypeOK, RowsKept, NEW t \in Txs, NEW a \in Accounts, NEW type \in Types, NEW n \in Amounts,
         NEW s \in Sources \ {"FEE"}, CreateTx(t, a, type, n, s)
  PROVE  /\ TypeOK' /\ RowsKept' /\ accountState' = accountState /\ opening' = opening
         /\ tx[t] = NoRow /\ tx'[t] = LiveRow(a, type, n, s, NoTx, NoTx)
         /\ \A u \in Txs \ {t} : tx'[u] = tx[u]
         /\ \A x \in Accounts : Books(balance[x], opening[x], balance'[x], opening'[x], Net(tx', {t}, x))
<1>. DEFINE r == LiveRow(a, type, n, s, NoTx, NoTx)
            d == balanceDelta(type, n)
<1>1. /\ tx[t] = NoRow /\ tx'[t] = r /\ \A u \in Txs \ {t} : tx'[u] = tx[u]
      /\ accountState' = accountState /\ opening' = opening /\ accountState[a] = "live"
      /\ balance' = adjustBalance(balance, a, d)
  BY DEF TypeOK, RowsKept, Provenance, UnusedRows, CreateTx, Fresh, AccountLive, accountVars
<1>2. TypeOK'
  BY CreateTxType
<1>3. /\ r.state = "live" /\ r.account = a /\ r.amount = n /\ r.source = s
      /\ r.group = NoTx /\ r.feeFor = NoTx
  BY DEF LiveRow
<1>. HIDE DEF r
<1>4. RowsKept'
  <2>1. PICK N : N = {t}
    OBVIOUS
  <2>2. Rewrites(N)
    BY <1>1, <2>1 DEF SameRow, Rewrites
  <2>3. WritesLive(N)
    BY <1>1, <1>3, <2>1 DEF WritesLive
  <2>4. N \in SUBSET Txs /\ Inserts(N)
    BY <1>1, <1>3, <2>1 DEF Inserts
  <2>5. TypeOK /\ tx' \in [Txs -> Row] /\ RowsKept /\ StaysLive(accountState, accountState')
    BY <1>1, <1>2 DEF TypeOK, StaysLive
  <2>. QED
    BY ONLY <2>2, <2>3, <2>4, <2>5, RowsStep
<1>5. ASSUME NEW x \in Accounts
      PROVE  Books(balance[x], opening[x], balance'[x], opening'[x], Net(tx', {t}, x))
  <2>1. Net(tx', {t}, x) = IF a = x THEN d ELSE 0
    BY <1>1, <1>2, NetOfOne, EffectOfLive DEF r, TypeOK
  <2>2. d \in Int /\ balance \in [Accounts -> Int] /\ balance[x] \in Int /\ opening[x] \in Int
    BY DeltaInt, AmountsInt DEF TypeOK
  <2>. HIDE DEF d
  <2>3. balance'[x] = balance[x] + (IF a = x THEN d ELSE 0)
    BY <1>1, <2>2, AdjustAt
  <2>4. PICK b, b2, p, m : b = balance[x] /\ b2 = balance'[x] /\ p = opening[x] /\ m = Net(tx', {t}, x)
    OBVIOUS
  <2>5. /\ b \in Int /\ p \in Int /\ d \in Int
        /\ m = (IF a = x THEN d ELSE 0) /\ b2 = b + (IF a = x THEN d ELSE 0)
    BY <2>1, <2>2, <2>3, <2>4
  <2>6. Books(b, p, b2, p, m)
    BY ONLY <2>5 DEF Books
  <2>. QED
    BY <1>1, <2>4, <2>6
<1>. QED
  BY <1>1, <1>2, <1>4, <1>5 DEF r
LEMMA CreateTxStep ==
  ASSUME RequestsInv, NEW t \in Txs, NEW a \in Accounts, NEW type \in Types, NEW n \in Amounts,
         NEW s \in Sources \ {"FEE"}, CreateTx(t, a, type, n, s), Stays
  PROVE  RequestsInv' /\ Atomic!CreateTx(t, a, type, n, s)
<1>1. Framed /\ DriftExplained /\ TypeOK /\ RowsKept
  BY FramedIs DEF Framed, RequestTypes
<1>2. PICK r, S, d : r = LiveRow(a, type, n, s, NoTx, NoTx) /\ S = {t} /\ d = balanceDelta(type, n)
  OBVIOUS
<1>3. /\ TypeOK' /\ RowsKept' /\ accountState' = accountState /\ opening' = opening
      /\ tx[t] = NoRow /\ tx'[t] = r
      /\ \A u \in Txs \ S : tx'[u] = tx[u]
      /\ \A x \in Accounts : Books(balance[x], opening[x], balance'[x], opening'[x], Net(tx', S, x))
  BY <1>1, <1>2, CreateTxIs
<1>4. r.state = "live" /\ r.group = NoTx /\ d \in Int
  BY <1>2, DeltaInt, AmountsInt DEF LiveRow
<1>5. /\ Framed /\ Stays /\ TypeOK' /\ RowsKept' /\ StaysLive(accountState, accountState')
      /\ S \in SUBSET Txs
      /\ \A u \in S : /\ tx[u] = NoRow /\ tx'[u].state = "live"
                      /\ tx'[u].group = NoTx \/ tx[tx'[u].group].state = "none"
      /\ \A u \in Txs \ S : tx'[u] = tx[u]
  BY <1>1, <1>2, <1>3, <1>4 DEF StaysLive
<1>6. /\ \A u \in S : logicalTx'[u] = tx'[u] /\ logicalTx[u] = NoRow
      /\ \A u \in Txs \ S : logicalTx'[u] = logicalTx[u]
      /\ \A x \in Accounts : logicalBalance'[x] = logicalBalance[x] + (balance'[x] - balance[x])
  BY ONLY <1>5, InsertIs
<1>7. RequestsInv'
  <2>1. RequestsInv /\ \A x \in Accounts \ outdated : Books(balance[x], opening[x], balance'[x], opening'[x], Net(tx', S, x))
    BY <1>3
  <2>. QED
    BY ONLY <1>5, <2>1, InsertStep
<1>8. logicalBalance' = adjustBalance(logicalBalance, a, d)
  <2>1. balance' = adjustBalance(balance, a, d)
    BY <1>2 DEF CreateTx
  <2>2. Parallel(balance, logicalBalance, balance', adjustBalance(logicalBalance, a, d))
    BY <1>1, <1>4, <2>1, ParallelStart, ParallelAdjust, LogicalBalanceTyped DEF TypeOK
  <2>. QED
    BY <1>6, <2>2, ParallelIs, LogicalFunctions
<1>9. logicalTx' = [logicalTx EXCEPT ![t] = r]
  <2>1. logicalTx \in [Txs -> Row]
    BY <1>1, LogicalIsTyped
  <2>. QED
    BY <1>2, <1>3, <1>6, <2>1, LogicalFunctions
<1>10. logicalTx[t].state = "none" /\ accountState[a] = "live"
  BY <1>2, <1>6, EmptyRows DEF CreateTx, AccountLive
<1>. QED
  BY <1>2, <1>3, <1>7, <1>8, <1>9, <1>10, AtomicData
     DEF Atomic!CreateTx, Atomic!Fresh, Atomic!AccountLive, Atomic!accountVars

(* Inserting a row and its fee line. *)
LEMMA CreateTxWithFeeIs ==
  ASSUME TypeOK, RowsKept, NEW t \in Txs, NEW f \in Txs, NEW a \in Accounts, NEW type \in Types,
         NEW n \in Amounts, NEW fee \in Amounts, CreateTxWithFee(t, f, a, type, n, fee)
  PROVE  /\ TypeOK' /\ RowsKept' /\ accountState' = accountState /\ opening' = opening
         /\ tx[t] = NoRow /\ tx'[t] = LiveRow(a, type, n, "MANUAL", NoTx, NoTx)
         /\ tx[f] = NoRow /\ tx'[f] = FeeRow(a, fee, t) /\ t # f
         /\ \A u \in Txs \ {t, f} : tx'[u] = tx[u]
         /\ \A x \in Accounts : Books(balance[x], opening[x], balance'[x], opening'[x], Net(tx', {t, f}, x))
<1>. DEFINE r == LiveRow(a, type, n, "MANUAL", NoTx, NoTx)
            q == FeeRow(a, fee, t)
            d == balanceDelta(type, n)
            m == -fee
            bal == adjustBalance(balance, a, d)
<1>1. /\ t # f /\ tx[t] = NoRow /\ tx'[t] = r /\ tx[f] = NoRow /\ tx'[f] = q
      /\ \A u \in Txs \ {t, f} : tx'[u] = tx[u]
      /\ accountState' = accountState /\ opening' = opening /\ accountState[a] = "live"
  BY DEF TypeOK, RowsKept, Provenance, UnusedRows, CreateTxWithFee, Fresh, AccountLive, accountVars
<1>10. tx' = [tx EXCEPT ![t] = r, ![f] = q] /\ balance' = adjustBalance(bal, a, m)
  BY DEF CreateTxWithFee
<1>2. d \in Int /\ m \in Int /\ m = -fee /\ balance \in [Accounts -> Int]
  BY DeltaInt, AmountsInt DEF TypeOK
<1>3. /\ r.state = "live" /\ r.account = a /\ r.amount = n /\ r.source = "MANUAL"
      /\ r.group = NoTx /\ r.feeFor = NoTx
      /\ q.state = "live" /\ q.account = a /\ q.amount = fee /\ q.source = "FEE"
      /\ q.group = NoTx /\ q.feeFor = t /\ q.type = "EXPENSE"
  BY DEF LiveRow, FeeRow
<1>4. \A x : Effect(r, x) = (IF a = x THEN d ELSE 0) /\ Effect(q, x) = (IF a = x THEN m ELSE 0)
  BY EffectOfLive, EffectOfFee
<1>5. r \in Row /\ q \in Row
  BY LiveRowType, FeeRowType DEF Sources
<1>. HIDE DEF r, q, d, m, bal
<1>6. /\ bal \in [Accounts -> Int] /\ balance' \in [Accounts -> Int]
      /\ \A x \in Accounts : /\ bal[x] = balance[x] + (IF a = x THEN d ELSE 0)
                             /\ balance'[x] = bal[x] + (IF a = x THEN m ELSE 0)
  <2>1. bal \in [Accounts -> Int] /\ \A x \in Accounts : bal[x] = balance[x] + (IF a = x THEN d ELSE 0)
    BY <1>2, AdjustType, AdjustAt DEF bal
  <2>2. balance' \in [Accounts -> Int] /\ \A x \in Accounts : balance'[x] = bal[x] + (IF a = x THEN m ELSE 0)
    <3>1. PICK b, b2 : b = bal /\ b2 = adjustBalance(b, a, m)
      OBVIOUS
    <3>2. b2 \in [Accounts -> Int] /\ \A x \in Accounts : b2[x] = b[x] + (IF a = x THEN m ELSE 0)
      <4>1. b \in [Accounts -> Int] /\ m \in Int
        BY <1>2, <2>1, <3>1
      <4>2. adjustBalance(b, a, m) \in [Accounts -> Int]
        BY <4>1, AdjustType
      <4>3. \A x \in Accounts : adjustBalance(b, a, m)[x] = b[x] + (IF a = x THEN m ELSE 0)
        BY <4>1, AdjustAt
      <4>. QED
        BY <3>1, <4>2, <4>3
    <3>. QED
      BY <1>10, <3>1, <3>2
  <2>. QED
    BY <2>1, <2>2
<1>7. TypeOK'
  BY <1>1, <1>5, <1>6, <1>10 DEF TypeOK
<1>8. RowsKept'
  <2>1. PICK N : N = {t, f}
    OBVIOUS
  <2>2. Rewrites(N)
    BY <1>1, <2>1 DEF SameRow, Rewrites
  <2>3. WritesLive(N)
    BY <1>1, <1>3, <2>1 DEF WritesLive
  <2>4. \A v \in Txs \ {f} : tx'[v].feeFor # t
    <3>1. \A g \in Txs : tx[g].feeFor # t
      BY <1>1, EmptyRows, ReferenceAssumption DEF RowsKept, Provenance, FeeRows
    <3>. QED
      BY <1>1, <1>3, <3>1, ReferenceAssumption
  <2>5. N \in SUBSET Txs /\ Inserts(N)
    BY <1>1, <1>3, <2>1, <2>4, ReferenceAssumption DEF Inserts
  <2>6. TypeOK /\ tx' \in [Txs -> Row] /\ RowsKept /\ StaysLive(accountState, accountState')
    BY <1>1, <1>7 DEF TypeOK, StaysLive
  <2>. QED
    BY ONLY <2>2, <2>3, <2>5, <2>6, RowsStep
<1>9. ASSUME NEW x \in Accounts
      PROVE  Books(balance[x], opening[x], balance'[x], opening'[x], Net(tx', {t, f}, x))
  <2>1. Net(tx', {t, f}, x) = Effect(r, x) + Effect(q, x)
    BY <1>1, <1>7, NetOfTwo DEF TypeOK
  <2>2. PICK b, b1, b2, p, w : /\ b = balance[x] /\ b1 = bal[x] /\ b2 = balance'[x] /\ p = opening[x]
                               /\ w = Net(tx', {t, f}, x)
    OBVIOUS
  <2>3. b \in Int /\ p \in Int
    BY <1>2, <2>2 DEF TypeOK
  <2>4. /\ b1 = b + (IF a = x THEN d ELSE 0) /\ b2 = b1 + (IF a = x THEN m ELSE 0)
        /\ w = (IF a = x THEN d ELSE 0) + (IF a = x THEN m ELSE 0)
    BY <1>4, <1>6, <2>1, <2>2
  <2>5. Books(b, p, b2, p, w)
    BY ONLY <1>2, <2>3, <2>4 DEF Books
  <2>. QED
    BY <1>1, <2>2, <2>5
<1>. QED
  BY <1>1, <1>7, <1>8, <1>9 DEF r, q

LEMMA CreateTxWithFeeStep ==
  ASSUME RequestsInv, NEW t \in Txs, NEW f \in Txs, NEW a \in Accounts, NEW type \in Types,
         NEW n \in Amounts, NEW fee \in Amounts, CreateTxWithFee(t, f, a, type, n, fee), Stays
  PROVE  RequestsInv' /\ Atomic!CreateTxWithFee(t, f, a, type, n, fee)
<1>1. Framed /\ DriftExplained /\ TypeOK /\ RowsKept
  BY FramedIs DEF Framed, RequestTypes
<1>2. PICK r, q, S, d, m : /\ r = LiveRow(a, type, n, "MANUAL", NoTx, NoTx) /\ q = FeeRow(a, fee, t)
                           /\ S = {t, f} /\ d = balanceDelta(type, n) /\ m = -fee
  OBVIOUS
<1>3. /\ TypeOK' /\ RowsKept' /\ accountState' = accountState /\ opening' = opening
      /\ tx[t] = NoRow /\ tx'[t] = r /\ tx[f] = NoRow /\ tx'[f] = q /\ t # f
      /\ \A u \in Txs \ S : tx'[u] = tx[u]
      /\ \A x \in Accounts : Books(balance[x], opening[x], balance'[x], opening'[x], Net(tx', S, x))
  BY <1>1, <1>2, CreateTxWithFeeIs
<1>4. r.state = "live" /\ r.group = NoTx /\ q.state = "live" /\ q.group = NoTx /\ d \in Int /\ m \in Int
  BY <1>2, DeltaInt, AmountsInt DEF LiveRow, FeeRow
<1>5. /\ Framed /\ Stays /\ TypeOK' /\ RowsKept' /\ StaysLive(accountState, accountState')
      /\ S \in SUBSET Txs
      /\ \A u \in S : /\ tx[u] = NoRow /\ tx'[u].state = "live"
                      /\ tx'[u].group = NoTx \/ tx[tx'[u].group].state = "none"
      /\ \A u \in Txs \ S : tx'[u] = tx[u]
  BY <1>1, <1>2, <1>3, <1>4 DEF StaysLive
<1>6. /\ \A u \in S : logicalTx'[u] = tx'[u] /\ logicalTx[u] = NoRow
      /\ \A u \in Txs \ S : logicalTx'[u] = logicalTx[u]
      /\ \A x \in Accounts : logicalBalance'[x] = logicalBalance[x] + (balance'[x] - balance[x])
  BY ONLY <1>5, InsertIs
<1>7. RequestsInv'
  <2>1. RequestsInv /\ \A x \in Accounts \ outdated : Books(balance[x], opening[x], balance'[x], opening'[x], Net(tx', S, x))
    BY <1>3
  <2>. QED
    BY ONLY <1>5, <2>1, InsertStep
<1>8. logicalBalance' = adjustBalance(adjustBalance(logicalBalance, a, d), a, m)
  <2>1. balance' = adjustBalance(adjustBalance(balance, a, d), a, m)
    BY <1>2 DEF CreateTxWithFee
  <2>2. Parallel(balance, logicalBalance, adjustBalance(balance, a, d), adjustBalance(logicalBalance, a, d))
    BY <1>1, <1>4, ParallelStart, ParallelAdjust, LogicalBalanceTyped DEF TypeOK
  <2>3. Parallel(balance, logicalBalance, balance', adjustBalance(adjustBalance(logicalBalance, a, d), a, m))
    BY <1>4, <2>1, <2>2, ParallelAdjust
  <2>. QED
    BY <1>6, <2>3, ParallelIs, LogicalFunctions
<1>9. logicalTx' = [logicalTx EXCEPT ![t] = r, ![f] = q]
  <2>1. logicalTx \in [Txs -> Row]
    BY <1>1, LogicalIsTyped
  <2>. QED
    BY <1>2, <1>3, <1>6, <2>1, LogicalFunctions
<1>10. logicalTx[t].state = "none" /\ logicalTx[f].state = "none" /\ accountState[a] = "live"
  BY <1>2, <1>6, EmptyRows DEF CreateTxWithFee, AccountLive
<1>. QED
  BY <1>2, <1>3, <1>7, <1>8, <1>9, <1>10, AtomicData
     DEF Atomic!CreateTxWithFee, Atomic!Fresh, Atomic!AccountLive, Atomic!accountVars
-----------------------------------------------------------------------------
(* Inserting the two legs of a transfer, and the fee line of the outbound one. *)
LEMMA TransferBalanceAt ==
  ASSUME NEW bal \in [Accounts -> Int], NEW from \in Accounts, NEW to \in Accounts,
         NEW m \in Int, NEW n \in Int
  PROVE  /\ adjustBalance(adjustBalance(bal, from, m), to, n) \in [Accounts -> Int]
         /\ \A x \in Accounts : adjustBalance(adjustBalance(bal, from, m), to, n)[x]
                = (bal[x] + (IF from = x THEN m ELSE 0)) + (IF to = x THEN n ELSE 0)
<1>1. PICK b1 : b1 = adjustBalance(bal, from, m)
  OBVIOUS
<1>2. b1 \in [Accounts -> Int]
  BY <1>1, AdjustType
<1>3. \A x \in Accounts : b1[x] = bal[x] + (IF from = x THEN m ELSE 0)
  BY <1>1, AdjustAt
<1>4. adjustBalance(b1, to, n) \in [Accounts -> Int]
  BY <1>2, AdjustType
<1>5. \A x \in Accounts : adjustBalance(b1, to, n)[x] = b1[x] + (IF to = x THEN n ELSE 0)
  BY <1>2, AdjustAt
<1>. QED
  BY <1>1, <1>3, <1>4, <1>5

LEMMA TransferIs ==
  ASSUME TypeOK, RowsKept, NEW out \in Txs, NEW in \in Txs, NEW from \in Accounts,
         NEW to \in Accounts, NEW n \in Amounts, Transfer(out, in, from, to, n)
  PROVE  /\ TypeOK' /\ RowsKept' /\ accountState' = accountState /\ opening' = opening
         /\ tx[out] = NoRow /\ tx'[out] = LiveRow(from, "EXPENSE", n, "MANUAL", out, NoTx)
         /\ tx[in] = NoRow /\ tx'[in] = LiveRow(to, "INCOME", n, "MANUAL", out, NoTx) /\ out # in
         /\ \A u \in Txs \ {out, in} : tx'[u] = tx[u]
         /\ \A x \in Accounts : Books(balance[x], opening[x], balance'[x], opening'[x], Net(tx', {out, in}, x))
<1>. DEFINE r == LiveRow(from, "EXPENSE", n, "MANUAL", out, NoTx)
            q == LiveRow(to, "INCOME", n, "MANUAL", out, NoTx)
            m == -n
<1>1. /\ out # in /\ tx[out] = NoRow /\ tx'[out] = r /\ tx[in] = NoRow /\ tx'[in] = q
      /\ \A u \in Txs \ {out, in} : tx'[u] = tx[u]
      /\ accountState' = accountState /\ opening' = opening
      /\ accountState[from] = "live" /\ accountState[to] = "live"
  BY DEF TypeOK, RowsKept, Provenance, UnusedRows, Transfer, TransferRows, Fresh, AccountLive, accountVars
<1>2. tx' = [tx EXCEPT ![out] = r, ![in] = q] /\ balance' = adjustBalance(adjustBalance(balance, from, m), to, n)
  BY DEF Transfer, TransferRows, TransferBalance
<1>3. /\ r.state = "live" /\ r.account = from /\ r.amount = n /\ r.source = "MANUAL"
      /\ r.group = out /\ r.feeFor = NoTx
      /\ q.state = "live" /\ q.account = to /\ q.amount = n /\ q.source = "MANUAL"
      /\ q.group = out /\ q.feeFor = NoTx
  BY DEF LiveRow
<1>4. \A x : Effect(r, x) = (IF from = x THEN m ELSE 0) /\ Effect(q, x) = (IF to = x THEN n ELSE 0)
  BY EffectOfLive DEF balanceDelta
<1>5. r \in Row /\ q \in Row /\ n \in Int /\ m \in Int /\ m = -n
  BY LiveRowType, AmountsInt DEF Sources, Types
<1>. HIDE DEF r, q, m
<1>6. /\ balance' \in [Accounts -> Int]
      /\ \A x \in Accounts : balance'[x] = (balance[x] + (IF from = x THEN m ELSE 0)) + (IF to = x THEN n ELSE 0)
  <2>1. balance \in [Accounts -> Int]
    BY DEF TypeOK
  <2>. QED
    BY <1>2, <1>5, <2>1, TransferBalanceAt
<1>7. TypeOK'
  BY <1>1, <1>2, <1>5, <1>6 DEF TypeOK
<1>8. RowsKept'
  <2>1. PICK N : N = {out, in}
    OBVIOUS
  <2>2. Rewrites(N)
    BY <1>1, <2>1 DEF SameRow, Rewrites
  <2>3. WritesLive(N)
    BY <1>1, <1>3, <2>1 DEF WritesLive
  <2>4. N \in SUBSET Txs /\ Inserts(N)
    BY <1>1, <1>3, <2>1 DEF Inserts
  <2>5. TypeOK /\ tx' \in [Txs -> Row] /\ RowsKept /\ StaysLive(accountState, accountState')
    BY <1>1, <1>7 DEF TypeOK, StaysLive
  <2>. QED
    BY ONLY <2>2, <2>3, <2>4, <2>5, RowsStep
<1>9. ASSUME NEW x \in Accounts
      PROVE  Books(balance[x], opening[x], balance'[x], opening'[x], Net(tx', {out, in}, x))
  <2>1. Net(tx', {out, in}, x) = Effect(r, x) + Effect(q, x)
    BY <1>1, <1>7, NetOfTwo DEF TypeOK
  <2>2. PICK b, b2, p, w : /\ b = balance[x] /\ b2 = balance'[x] /\ p = opening[x]
                           /\ w = Net(tx', {out, in}, x)
    OBVIOUS
  <2>3. b \in Int /\ p \in Int
    BY <2>2 DEF TypeOK
  <2>4. /\ b2 = (b + (IF from = x THEN m ELSE 0)) + (IF to = x THEN n ELSE 0)
        /\ w = (IF from = x THEN m ELSE 0) + (IF to = x THEN n ELSE 0)
    BY <1>4, <1>6, <2>1, <2>2
  <2>5. Books(b, p, b2, p, w)
    BY ONLY <1>5, <2>3, <2>4 DEF Books
  <2>. QED
    BY <1>1, <2>2, <2>5
<1>. QED
  BY <1>1, <1>7, <1>8, <1>9 DEF r, q

LEMMA TransferStep ==
  ASSUME RequestsInv, NEW out \in Txs, NEW in \in Txs, NEW from \in Accounts,
         NEW to \in Accounts, NEW n \in Amounts, Transfer(out, in, from, to, n), Stays
  PROVE  RequestsInv' /\ Atomic!Transfer(out, in, from, to, n)
<1>1. Framed /\ DriftExplained /\ TypeOK /\ RowsKept
  BY FramedIs DEF Framed, RequestTypes
<1>2. PICK r, q, S, m : /\ r = LiveRow(from, "EXPENSE", n, "MANUAL", out, NoTx)
                        /\ q = LiveRow(to, "INCOME", n, "MANUAL", out, NoTx)
                        /\ S = {out, in} /\ m = -n
  OBVIOUS
<1>3. /\ TypeOK' /\ RowsKept' /\ accountState' = accountState /\ opening' = opening
      /\ tx[out] = NoRow /\ tx'[out] = r /\ tx[in] = NoRow /\ tx'[in] = q /\ out # in
      /\ \A u \in Txs \ S : tx'[u] = tx[u]
      /\ \A x \in Accounts : Books(balance[x], opening[x], balance'[x], opening'[x], Net(tx', S, x))
  BY <1>1, <1>2, TransferIs
<1>4. r.state = "live" /\ r.group = out /\ q.state = "live" /\ q.group = out /\ m \in Int /\ n \in Int
  BY <1>2, AmountsInt DEF LiveRow
<1>5. /\ Framed /\ Stays /\ TypeOK' /\ RowsKept' /\ StaysLive(accountState, accountState')
      /\ S \in SUBSET Txs
      /\ \A u \in S : /\ tx[u] = NoRow /\ tx'[u].state = "live"
                      /\ tx'[u].group = NoTx \/ tx[tx'[u].group].state = "none"
      /\ \A u \in Txs \ S : tx'[u] = tx[u]
  BY <1>1, <1>2, <1>3, <1>4, EmptyRows DEF StaysLive
<1>6. /\ \A u \in S : logicalTx'[u] = tx'[u] /\ logicalTx[u] = NoRow
      /\ \A u \in Txs \ S : logicalTx'[u] = logicalTx[u]
      /\ \A x \in Accounts : logicalBalance'[x] = logicalBalance[x] + (balance'[x] - balance[x])
  BY ONLY <1>5, InsertIs
<1>7. RequestsInv'
  <2>1. RequestsInv /\ \A x \in Accounts \ outdated : Books(balance[x], opening[x], balance'[x], opening'[x], Net(tx', S, x))
    BY <1>3
  <2>. QED
    BY ONLY <1>5, <2>1, InsertStep
<1>8. logicalBalance' = adjustBalance(adjustBalance(logicalBalance, from, m), to, n)
  <2>1. balance' = adjustBalance(adjustBalance(balance, from, m), to, n)
    BY <1>2 DEF Transfer, TransferBalance
  <2>2. Parallel(balance, logicalBalance, adjustBalance(balance, from, m), adjustBalance(logicalBalance, from, m))
    BY <1>1, <1>4, ParallelStart, ParallelAdjust, LogicalBalanceTyped DEF TypeOK
  <2>3. Parallel(balance, logicalBalance, balance', adjustBalance(adjustBalance(logicalBalance, from, m), to, n))
    BY <1>4, <2>1, <2>2, ParallelAdjust
  <2>. QED
    BY <1>6, <2>3, ParallelIs, LogicalFunctions
<1>9. logicalTx' = [logicalTx EXCEPT ![out] = r, ![in] = q]
  <2>1. logicalTx \in [Txs -> Row]
    BY <1>1, LogicalIsTyped
  <2>. QED
    BY <1>2, <1>3, <1>6, <2>1, LogicalFunctions
<1>10. /\ logicalTx[out].state = "none" /\ logicalTx[in].state = "none"
       /\ accountState[from] = "live" /\ accountState[to] = "live"
  BY <1>2, <1>6, EmptyRows DEF Transfer, AccountLive
<1>. QED
  BY <1>2, <1>3, <1>7, <1>8, <1>9, <1>10, AtomicData
     DEF Atomic!Transfer, Atomic!TransferRows, Atomic!TransferBalance, Atomic!Fresh, Atomic!AccountLive,
         Atomic!accountVars

LEMMA TransferWithFeeIs ==
  ASSUME TypeOK, RowsKept, NEW out \in Txs, NEW in \in Txs, NEW f \in Txs, NEW from \in Accounts,
         NEW to \in Accounts, NEW n \in Amounts, NEW fee \in Amounts,
         TransferWithFee(out, in, f, from, to, n, fee)
  PROVE  /\ TypeOK' /\ RowsKept' /\ accountState' = accountState /\ opening' = opening
         /\ tx[out] = NoRow /\ tx'[out] = LiveRow(from, "EXPENSE", n, "MANUAL", out, NoTx)
         /\ tx[in] = NoRow /\ tx'[in] = LiveRow(to, "INCOME", n, "MANUAL", out, NoTx) /\ out # in
         /\ tx[f] = NoRow /\ tx'[f] = FeeRow(from, fee, out) /\ f \notin {out, in}
         /\ \A u \in Txs \ {out, in, f} : tx'[u] = tx[u]
         /\ \A x \in Accounts : Books(balance[x], opening[x], balance'[x], opening'[x], Net(tx', {out, in, f}, x))
<1>. DEFINE r == LiveRow(from, "EXPENSE", n, "MANUAL", out, NoTx)
            q == LiveRow(to, "INCOME", n, "MANUAL", out, NoTx)
            l == FeeRow(from, fee, out)
            m == -n
            k == -fee
            bal == adjustBalance(adjustBalance(balance, from, m), to, n)
<1>1. /\ out # in /\ tx[out] = NoRow /\ tx'[out] = r /\ tx[in] = NoRow /\ tx'[in] = q
      /\ f \notin {out, in} /\ tx[f] = NoRow /\ tx'[f] = l
      /\ \A u \in Txs \ {out, in, f} : tx'[u] = tx[u]
      /\ accountState' = accountState /\ opening' = opening
      /\ accountState[from] = "live" /\ accountState[to] = "live"
  BY DEF TypeOK, RowsKept, Provenance, UnusedRows, TransferWithFee, TransferRows, Fresh, AccountLive, accountVars
<1>2. /\ tx' = [[tx EXCEPT ![out] = r, ![in] = q] EXCEPT ![f] = l]
      /\ balance' = adjustBalance(bal, from, k)
  BY DEF TransferWithFee, TransferRows, TransferBalance
<1>3. /\ r.state = "live" /\ r.account = from /\ r.amount = n /\ r.source = "MANUAL"
      /\ r.group = out /\ r.feeFor = NoTx
      /\ q.state = "live" /\ q.account = to /\ q.amount = n /\ q.source = "MANUAL"
      /\ q.group = out /\ q.feeFor = NoTx
      /\ l.state = "live" /\ l.account = from /\ l.amount = fee /\ l.source = "FEE"
      /\ l.group = NoTx /\ l.feeFor = out /\ l.type = "EXPENSE"
  BY DEF LiveRow, FeeRow
<1>4. \A x : /\ Effect(r, x) = (IF from = x THEN m ELSE 0) /\ Effect(q, x) = (IF to = x THEN n ELSE 0)
             /\ Effect(l, x) = (IF from = x THEN k ELSE 0)
  BY EffectOfLive, EffectOfFee DEF balanceDelta
<1>5. r \in Row /\ q \in Row /\ l \in Row /\ n \in Int /\ m \in Int /\ m = -n /\ k \in Int
  BY LiveRowType, FeeRowType, AmountsInt DEF Sources, Types
<1>6. bal \in [Accounts -> Int]
      /\ \A x \in Accounts : bal[x] = (balance[x] + (IF from = x THEN m ELSE 0)) + (IF to = x THEN n ELSE 0)
  <2>1. balance \in [Accounts -> Int]
    BY DEF TypeOK
  <2>. HIDE DEF m
  <2>. QED
    BY <1>5, <2>1, TransferBalanceAt
<1>. HIDE DEF r, q, l, m, k, bal
<1>7. balance' \in [Accounts -> Int]
      /\ \A x \in Accounts : balance'[x] = bal[x] + (IF from = x THEN k ELSE 0)
  <2>1. PICK b : b = bal
    OBVIOUS
  <2>2. adjustBalance(b, from, k) \in [Accounts -> Int]
    BY <1>5, <1>6, <2>1, AdjustType
  <2>3. \A x \in Accounts : adjustBalance(b, from, k)[x] = b[x] + (IF from = x THEN k ELSE 0)
    BY <1>5, <1>6, <2>1, AdjustAt
  <2>. QED
    BY <1>2, <2>1, <2>2, <2>3
<1>8. TypeOK'
  BY <1>1, <1>2, <1>5, <1>7 DEF TypeOK
<1>9. RowsKept'
  <2>1. PICK N : N = {out, in, f}
    OBVIOUS
  <2>2. Rewrites(N)
    BY <1>1, <2>1 DEF SameRow, Rewrites
  <2>3. WritesLive(N)
    BY <1>1, <1>3, <2>1 DEF WritesLive
  <2>4. \A v \in Txs \ {f} : tx'[v].feeFor # out
    <3>1. \A g \in Txs : tx[g].feeFor # out
      BY <1>1, EmptyRows, ReferenceAssumption DEF RowsKept, Provenance, FeeRows
    <3>. QED
      BY <1>1, <1>3, <3>1, ReferenceAssumption
  <2>5. N \in SUBSET Txs /\ Inserts(N)
    BY <1>1, <1>3, <2>1, <2>4, ReferenceAssumption DEF Inserts
  <2>6. TypeOK /\ tx' \in [Txs -> Row] /\ RowsKept /\ StaysLive(accountState, accountState')
    BY <1>1, <1>8 DEF TypeOK, StaysLive
  <2>. QED
    BY ONLY <2>2, <2>3, <2>5, <2>6, RowsStep
<1>10. ASSUME NEW x \in Accounts
       PROVE  Books(balance[x], opening[x], balance'[x], opening'[x], Net(tx', {out, in, f}, x))
  <2>1. Net(tx', {out, in, f}, x) = Effect(r, x) + Effect(q, x) + Effect(l, x)
    BY <1>1, <1>8, NetOfThree DEF TypeOK
  <2>2. PICK b, b1, b2, p, w : /\ b = balance[x] /\ b1 = bal[x] /\ b2 = balance'[x] /\ p = opening[x]
                               /\ w = Net(tx', {out, in, f}, x)
    OBVIOUS
  <2>3. b \in Int /\ p \in Int
    BY <2>2 DEF TypeOK
  <2>4. /\ b1 = (b + (IF from = x THEN m ELSE 0)) + (IF to = x THEN n ELSE 0)
        /\ b2 = b1 + (IF from = x THEN k ELSE 0)
        /\ w = (IF from = x THEN m ELSE 0) + (IF to = x THEN n ELSE 0) + (IF from = x THEN k ELSE 0)
    BY <1>4, <1>6, <1>7, <2>1, <2>2
  <2>5. Books(b, p, b2, p, w)
    BY ONLY <1>5, <2>3, <2>4 DEF Books
  <2>. QED
    BY <1>1, <2>2, <2>5
<1>. QED
  BY <1>1, <1>8, <1>9, <1>10 DEF r, q, l

LEMMA TransferWithFeeStep ==
  ASSUME RequestsInv, NEW out \in Txs, NEW in \in Txs, NEW f \in Txs, NEW from \in Accounts,
         NEW to \in Accounts, NEW n \in Amounts, NEW fee \in Amounts,
         TransferWithFee(out, in, f, from, to, n, fee), Stays
  PROVE  RequestsInv' /\ Atomic!TransferWithFee(out, in, f, from, to, n, fee)
<1>1. Framed /\ DriftExplained /\ TypeOK /\ RowsKept
  BY FramedIs DEF Framed, RequestTypes
<1>2. PICK r, q, l, S, m, k : /\ r = LiveRow(from, "EXPENSE", n, "MANUAL", out, NoTx)
                              /\ q = LiveRow(to, "INCOME", n, "MANUAL", out, NoTx)
                              /\ l = FeeRow(from, fee, out)
                              /\ S = {out, in, f} /\ m = -n /\ k = -fee
  OBVIOUS
<1>3. /\ TypeOK' /\ RowsKept' /\ accountState' = accountState /\ opening' = opening
      /\ tx[out] = NoRow /\ tx'[out] = r /\ tx[in] = NoRow /\ tx'[in] = q /\ out # in
      /\ tx[f] = NoRow /\ tx'[f] = l /\ f \notin {out, in}
      /\ \A u \in Txs \ S : tx'[u] = tx[u]
      /\ \A x \in Accounts : Books(balance[x], opening[x], balance'[x], opening'[x], Net(tx', S, x))
  <2>1. TypeOK /\ RowsKept /\ TransferWithFee(out, in, f, from, to, n, fee)
    BY <1>1
  <2>2. /\ TypeOK' /\ RowsKept' /\ accountState' = accountState /\ opening' = opening
        /\ tx[out] = NoRow /\ tx'[out] = LiveRow(from, "EXPENSE", n, "MANUAL", out, NoTx)
        /\ tx[in] = NoRow /\ tx'[in] = LiveRow(to, "INCOME", n, "MANUAL", out, NoTx) /\ out # in
        /\ tx[f] = NoRow /\ tx'[f] = FeeRow(from, fee, out) /\ f \notin {out, in}
        /\ \A u \in Txs \ {out, in, f} : tx'[u] = tx[u]
        /\ \A x \in Accounts : Books(balance[x], opening[x], balance'[x], opening'[x], Net(tx', {out, in, f}, x))
    BY ONLY <2>1, TransferWithFeeIs, out \in Txs, in \in Txs, f \in Txs, from \in Accounts,
       to \in Accounts, n \in Amounts, fee \in Amounts
  <2>. QED
    BY <1>2, <2>2
<1>4. /\ r.state = "live" /\ r.group = out /\ q.state = "live" /\ q.group = out
      /\ l.state = "live" /\ l.group = NoTx /\ m \in Int /\ n \in Int /\ k \in Int
  BY <1>2, AmountsInt DEF LiveRow, FeeRow
<1>5. /\ Framed /\ Stays /\ TypeOK' /\ RowsKept' /\ StaysLive(accountState, accountState')
      /\ S \in SUBSET Txs
      /\ \A u \in S : /\ tx[u] = NoRow /\ tx'[u].state = "live"
                      /\ tx'[u].group = NoTx \/ tx[tx'[u].group].state = "none"
      /\ \A u \in Txs \ S : tx'[u] = tx[u]
  BY <1>1, <1>2, <1>3, <1>4, EmptyRows DEF StaysLive
<1>6. /\ \A u \in S : logicalTx'[u] = tx'[u] /\ logicalTx[u] = NoRow
      /\ \A u \in Txs \ S : logicalTx'[u] = logicalTx[u]
      /\ \A x \in Accounts : logicalBalance'[x] = logicalBalance[x] + (balance'[x] - balance[x])
  BY ONLY <1>5, InsertIs
<1>7. RequestsInv'
  <2>1. RequestsInv /\ \A x \in Accounts \ outdated : Books(balance[x], opening[x], balance'[x], opening'[x], Net(tx', S, x))
    BY <1>3
  <2>. QED
    BY ONLY <1>5, <2>1, InsertStep
<1>8. logicalBalance' = adjustBalance(adjustBalance(adjustBalance(logicalBalance, from, m), to, n), from, k)
  <2>1. balance' = adjustBalance(adjustBalance(adjustBalance(balance, from, m), to, n), from, k)
    BY <1>2 DEF TransferWithFee, TransferBalance
  <2>2. Parallel(balance, logicalBalance, adjustBalance(balance, from, m), adjustBalance(logicalBalance, from, m))
    BY <1>1, <1>4, ParallelStart, ParallelAdjust, LogicalBalanceTyped DEF TypeOK
  <2>3. Parallel(balance, logicalBalance, adjustBalance(adjustBalance(balance, from, m), to, n),
                 adjustBalance(adjustBalance(logicalBalance, from, m), to, n))
    BY <1>4, <2>2, ParallelAdjust
  <2>4. Parallel(balance, logicalBalance, balance',
                 adjustBalance(adjustBalance(adjustBalance(logicalBalance, from, m), to, n), from, k))
    BY <1>4, <2>1, <2>3, ParallelAdjust
  <2>. QED
    BY <1>6, <2>4, ParallelIs, LogicalFunctions
<1>9. logicalTx' = [[logicalTx EXCEPT ![out] = r, ![in] = q] EXCEPT ![f] = l]
  <2>1. logicalTx \in [Txs -> Row]
    BY <1>1, LogicalIsTyped
  <2>. QED
    BY <1>2, <1>3, <1>6, <2>1, LogicalFunctions
<1>10. /\ logicalTx[out].state = "none" /\ logicalTx[in].state = "none" /\ logicalTx[f].state = "none"
       /\ accountState[from] = "live" /\ accountState[to] = "live"
  BY <1>2, <1>6, EmptyRows DEF TransferWithFee, AccountLive
<1>. QED
  BY <1>2, <1>3, <1>7, <1>8, <1>9, <1>10, AtomicData
     DEF Atomic!TransferWithFee, Atomic!TransferRows, Atomic!TransferBalance, Atomic!Fresh,
         Atomic!AccountLive, Atomic!accountVars
-----------------------------------------------------------------------------
LEMMA ShiftsByBooks ==
  ASSUME NEW b \in Int, NEW o \in Int, NEW b2 \in Int, NEW n \in Int, Books(b, o, b2, o, n),
         NEW p, NEW p2, NEW m, p = 0, p2 = 0, m = 0
  PROVE  Shifts(b, p, m, b2, p2, n)
  BY DEF Books, Shifts

(* The row a reconciliation books takes effect at once. *)
LEMMA CommitReconcileIs ==
  ASSUME RequestsInv, NEW w \in Workers, NEW t \in Txs, NEW a \in Accounts, a = req[w].to,
         NEW type \in Types, NEW n \in Amounts, At(w, {"reconcile"}, "ready"),
         CreateTx(t, a, type, n, "ADJUSTMENT"), req' = [req EXCEPT ![w] = Idle], outdated' = outdated
  PROVE  RequestsInv' /\ Atomic!CreateTx(t, a, type, n, "ADJUSTMENT")
<1>1. Framed /\ DriftExplained /\ TypeOK /\ RowsKept /\ RequestTypes /\ HoldsLocks
      /\ req[w] \in Request /\ Sound(tx, accountState, req[w]) /\ outdated \subseteq Accounts
  BY FramedIs, SoundIs DEF Framed, RequestTypes
<1>2. PICK r, S, d : r = LiveRow(a, type, n, "ADJUSTMENT", NoTx, NoTx) /\ S = {t} /\ d = balanceDelta(type, n)
  OBVIOUS
<1>3. /\ TypeOK' /\ RowsKept' /\ accountState' = accountState /\ opening' = opening
      /\ tx[t] = NoRow /\ tx'[t] = r
      /\ \A u \in Txs \ S : tx'[u] = tx[u]
      /\ \A x \in Accounts : Books(balance[x], opening[x], balance'[x], opening'[x], Net(tx', S, x))
  <2>1. "ADJUSTMENT" \in Sources \ {"FEE"}
    BY DEF Sources
  <2>. QED
    BY <1>1, <1>2, <2>1, CreateTxIs
<1>4. r.state = "live" /\ r.group = NoTx /\ d \in Int
  BY <1>2, DeltaInt, AmountsInt DEF LiveRow
<1>5. req[w].kind = "reconcile" /\ req[w].pc = "ready" /\ req[w].gone = {}
  BY <1>1 DEF At, Sound
<1>6. Remain(tx, tx') /\ StaysLive(accountState, accountState')
  BY <1>2, <1>3, <1>4, EmptyRows DEF Remain, StaysLive, SameRow
<1>7. Framed' /\ LocksHeld(req')
  <2>1. PICK q : q = Idle
    OBVIOUS
  <2>2. /\ q \in Request /\ q.kind = "idle" /\ q.pc = "idle" /\ q.rows = {} /\ q.fees = {}
        /\ q.gone = {} /\ q.locks = {}
    BY <2>1, IdleIs
  <2>3. Sound(tx', accountState', q)
    BY <2>2 DEF Sound, KnowsRows, HeldRows, Waits
  <2>4. /\ q.pc \in {"tx", "deleted"} => TouchedOf(q) \subseteq q.locks
        /\ \A v \in Workers \ {w} : req[v].locks \cap q.locks = {}
        /\ \A f \in q.gone : tx'[f].state = "deleted"
        /\ \A v \in Workers \ {w} : \A f \in req[v].gone :
           /\ tx'[f].account = req[v].seen[f].account => tx'[f].account = tx[f].account
           /\ f \in q.gone /\ tx'[f].account \in {q.seen[f].account, req[v].seen[f].account} =>
                tx'[f].account \in outdated'
    <3>1. ASSUME NEW v \in Workers, NEW f \in req[v].gone PROVE tx'[f] = tx[f]
      <4>1. f \in Txs /\ tx[f].state = "deleted"
        BY <1>1, <3>1, RequestIs DEF RequestTypes, Framed, GoneAreDeleted
      <4>. QED
        BY <1>2, <1>3, <4>1, EmptyRows
    <3>. QED
      BY <2>2, <3>1
  <2>5. /\ Framed /\ q \in Request /\ req' = [req EXCEPT ![w] = q] /\ TypeOK' /\ RowsKept'
        /\ Remain(tx, tx') /\ StaysLive(accountState, accountState') /\ Sound(tx', accountState', q)
        /\ outdated \subseteq outdated' /\ outdated' \subseteq Accounts
    BY <1>1, <1>3, <1>6, <2>1, <2>2, <2>3
  <2>. QED
    BY ONLY <2>4, <2>5, RequestStep, w \in Workers
<1>8. Flying(Idle) = {} /\ Flying(req[w]) = {} /\ \A x : PendingOf(Idle, x) = 0 /\ PendingOf(req[w], x) = 0
  BY <1>5, IdleIs DEF Flying, PendingOf
<1>9. \A u \in Txs \ S : logicalTx'[u] = logicalTx[u]
  BY <1>1, <1>3, <1>8, LogicalSame
<1>10. logicalTx'[t] = r /\ logicalTx[t] = NoRow
  <2>1. Framed /\ TypeOK' /\ req' = [req EXCEPT ![w] = Idle]
    BY <1>1, <1>3
  <2>2. /\ ~(t \in Flying(Idle) \/ AloftBut(w, t)) => logicalTx'[t] = tx'[t]
        /\ ~(t \in Flying(req[w]) \/ AloftBut(w, t)) => logicalTx[t] = tx[t]
        /\ AloftBut(w, t) => tx[t].state = "deleted"
    BY ONLY <2>1, LogicalAfter, w \in Workers, t \in Txs
  <2>. QED
    BY <1>3, <1>8, <2>2, EmptyRows
<1>11. \A x \in Accounts : logicalBalance'[x] = logicalBalance[x] + (balance'[x] - balance[x])
  <2>. SUFFICES ASSUME NEW x \in Accounts
                PROVE  logicalBalance'[x] = logicalBalance[x] + (balance'[x] - balance[x])
    OBVIOUS
  <2>1. /\ RequestTypes /\ HoldsLocks /\ balance' \in [Accounts -> Int] /\ Idle \in Request
        /\ req' = [req EXCEPT ![w] = Idle] /\ LocksHeld(req')
    BY <1>1, <1>3, <1>7, IdleIs DEF TypeOK
  <2>2. /\ logicalBalance[x] \in Int /\ balance[x] \in Int /\ balance'[x] \in Int
        /\ logicalBalance'[x] = (logicalBalance[x] + (balance'[x] - balance[x]))
                                  + (PendingOf(req[w], x) - PendingOf(Idle, x))
    BY ONLY <2>1, BalanceMoves, w \in Workers, x \in Accounts
  <2>3. PICK l, l2, b, b2, p, p2 : /\ l = logicalBalance[x] /\ l2 = logicalBalance'[x] /\ b = balance[x]
                                   /\ b2 = balance'[x] /\ p = PendingOf(req[w], x) /\ p2 = PendingOf(Idle, x)
    OBVIOUS
  <2>4. l \in Int /\ b \in Int /\ b2 \in Int /\ p = 0 /\ p2 = 0 /\ l2 = (l + (b2 - b)) + (p - p2)
    BY <1>8, <2>2, <2>3
  <2>5. l2 = l + (b2 - b)
    BY ONLY <2>4
  <2>. QED
    BY <2>3, <2>5
<1>12. ASSUME NEW x \in Accounts \ outdated'
       PROVE  Derived(logicalBalance'[x], opening'[x], Net(logicalTx', Txs, x))
  <2>1. Net(logicalTx, S, x) = 0
    BY <1>2, <1>10, NetOff, EmptyRows DEF Off
  <2>2. Net(logicalTx', S, x) = Net(tx', S, x)
    BY <1>2, <1>3, <1>10, NetSame
  <2>3. Shifts(balance[x], PendingOf(req[w], x), Net(logicalTx, S, x),
               balance'[x], PendingOf(Idle, x), Net(logicalTx', S, x))
    <3>1. PICK b, b2, o, m, p, p2, k : /\ b = balance[x] /\ b2 = balance'[x] /\ o = opening[x]
                                       /\ m = Net(tx', S, x) /\ p = PendingOf(req[w], x)
                                       /\ p2 = PendingOf(Idle, x) /\ k = Net(logicalTx, S, x)
      OBVIOUS
    <3>2. b \in Int /\ b2 \in Int /\ o \in Int /\ m \in Int /\ p = 0 /\ p2 = 0 /\ k = 0
          /\ Books(b, o, b2, o, m)
      BY <1>1, <1>2, <1>3, <1>8, <2>1, <3>1, NetInt DEF TypeOK
    <3>3. Shifts(b, p, k, b2, p2, m)
      BY ONLY <3>2, ShiftsByBooks
    <3>. QED
      BY <2>2, <3>1, <3>3
  <2>4. /\ Framed /\ DriftExplained /\ TypeOK' /\ Idle \in Request
        /\ req' = [req EXCEPT ![w] = Idle] /\ LocksHeld(req') /\ opening' = opening
        /\ S \in SUBSET Txs /\ \A u \in Txs \ S : logicalTx'[u] = logicalTx[u]
        /\ x \in Accounts \ outdated
    BY <1>1, <1>2, <1>3, <1>7, <1>9, IdleIs
  <2>. QED
    BY ONLY <2>3, <2>4, DriftStep, w \in Workers
<1>13. RequestsInv'
  <2>1. DriftExplained'
    BY <1>12 DEF DriftExplained, Derived
  <2>. QED
    BY <1>7, <2>1 DEF RequestsInv, Framed
<1>14. logicalBalance' = adjustBalance(logicalBalance, a, d)
  <2>1. balance' = adjustBalance(balance, a, d)
    BY <1>2 DEF CreateTx
  <2>2. Parallel(balance, logicalBalance, balance', adjustBalance(logicalBalance, a, d))
    BY <1>1, <1>4, <2>1, ParallelStart, ParallelAdjust, LogicalBalanceTyped DEF TypeOK
  <2>. QED
    BY <1>11, <2>2, ParallelIs, LogicalFunctions
<1>15. logicalTx' = [logicalTx EXCEPT ![t] = r]
  <2>1. logicalTx \in [Txs -> Row]
    BY <1>1, LogicalIsTyped
  <2>. QED
    BY <1>2, <1>9, <1>10, <2>1, LogicalFunctions
<1>16. logicalTx[t].state = "none" /\ accountState[a] = "live"
  BY <1>10, EmptyRows DEF CreateTx, AccountLive
<1>. QED
  BY <1>2, <1>3, <1>13, <1>14, <1>15, <1>16, AtomicData
     DEF Atomic!CreateTx, Atomic!Fresh, Atomic!AccountLive, Atomic!accountVars

LEMMA CommitReconcileStep ==
  ASSUME RequestsInv, NEW w \in Workers, NEW t \in Txs, CommitReconcile(w, t)
  PROVE  RequestsInv' /\ AtomicStep
<1>1. Sound(tx, accountState, req[w]) /\ At(w, {"reconcile"}, "ready")
      /\ req' = [req EXCEPT ![w] = Idle] /\ outdated' = outdated
  BY FramedIs, SoundIs DEF CommitReconcile
<1>2. PICK a \in Accounts : a = req[w].to
  BY <1>1 DEF Sound, Reconciling, At
<1>3. PICK type \in Types, n \in Amounts : CreateTx(t, a, type, n, "ADJUSTMENT")
  BY <1>2 DEF CommitReconcile, Types, storable
<1>4. RequestsInv' /\ Atomic!CreateTx(t, a, type, n, "ADJUSTMENT")
  BY <1>1, <1>2, <1>3, CommitReconcileIs
<1>. QED
  BY <1>4 DEF AtomicStep
-----------------------------------------------------------------------------
(* The commit that adds a fee line. *)
LEMMA NewFeeIs ==
  ASSUME Framed, NEW w \in Workers, NEW f \in Txs, CommitUpdateNewFee(w, f),
         NEW t \in Txs, req[w].rows = {t}
  PROVE  /\ Commit(w) /\ tx' \in [Txs -> Row] /\ RowsKept' /\ Remain(tx, tx')
         /\ \A u \in Txs : tx[u].state # "none" /\ tx'[u].account # tx[u].account =>
                          tx'[u].account = req[w].to
         /\ req[w].fees = {} /\ HeldRows(req[w]) = {t} /\ f # t /\ FeeSlotFree(tx, t)
         /\ req[w].fee \in Amounts /\ req[w].fee > 0 /\ req[w].kind = "update"
         /\ tx[f] = NoRow /\ tx'[f] = FeeRow(req[w].to, req[w].fee, t) /\ tx'[t] = Rewritten(w)[t]
         /\ \A u \in Txs \ {t, f} : tx'[u] = tx[u]
<1>1. Sound(tx, accountState, req[w]) /\ req[w] \in Request /\ TypeOK /\ RowsKept
  BY SoundIs DEF Framed, RequestTypes
<1>2. PICK q, l : q = req[w] /\ l = FeeRow(q.to, q.fee, t)
  OBVIOUS
<1>3. /\ Commit(w) /\ q.kind = "update" /\ accountState' = accountState
      /\ q.fees = {} /\ q.fee > 0 /\ tx[f] = NoRow /\ FeeSlotFree(tx, t)
  BY <1>2 DEF CommitUpdateNewFee, Commit, At
<1>4. tx' = [Rewritten(w) EXCEPT ![f] = l]
  BY <1>2 DEF CommitUpdateNewFee
<1>5. HeldRows(q) = {t} /\ tx[t].state # "none" /\ f # t
  BY <1>1, <1>2, <1>3, EmptyRows DEF Sound, KnowsRows, HeldRows
<1>6. /\ Rewritten(w) \in [Txs -> Row]
      /\ \A u \in Txs \ {t} : Rewritten(w)[u] = tx[u]
      /\ \A u \in Txs : /\ SameRow(tx[u], Rewritten(w)[u]) /\ Rewritten(w)[u].state = tx[u].state
                        /\ Rewritten(w)[u] # tx[u] =>
                             /\ Rewritten(w)[u].account = q.to
                             /\ Rewritten(w)[u].amount \in Amounts
                             /\ tx[u].state # "none"
      /\ q.to \in Accounts /\ accountState[q.to] = "live" /\ q.fee \in Amounts
  <2>1. Framed /\ req[w].kind = "update" /\ req[w].rows = {t}
    BY <1>2, <1>3
  <2>2. /\ Rewritten(w) \in [Txs -> Row]
        /\ \A u \in Txs \ HeldRows(req[w]) : Rewritten(w)[u] = tx[u]
        /\ \A u \in Txs : /\ SameRow(tx[u], Rewritten(w)[u]) /\ Rewritten(w)[u].state = tx[u].state
                          /\ Rewritten(w)[u] # tx[u] =>
                               /\ Rewritten(w)[u].account = req[w].to
                               /\ Rewritten(w)[u].amount \in Amounts
                               /\ tx[u].state # "none"
        /\ req[w].to \in Accounts /\ accountState[req[w].to] = "live"
        /\ (req[w].fee > 0 => req[w].fee \in Amounts)
    BY <2>1, RewrittenIs
  <2>. QED
    BY <1>2, <1>3, <1>5, <2>2
<1>7. /\ l \in Row /\ l.state = "live" /\ l.account = q.to /\ l.amount = q.fee /\ l.source = "FEE"
      /\ l.group = NoTx /\ l.feeFor = t /\ l.type = "EXPENSE"
  <2>1. l \in Row
    BY <1>2, <1>6, FeeRowType
  <2>. QED
    BY <1>2, <2>1 DEF LiveRow, FeeRow
<1>8. /\ tx' \in [Txs -> Row] /\ tx'[f] = l /\ \A u \in Txs \ {f} : tx'[u] = Rewritten(w)[u]
  BY <1>4, <1>6, <1>7
<1>9. \A u \in Txs \ {f} : /\ SameRow(tx[u], tx'[u]) /\ tx'[u].state = tx[u].state
                           /\ tx'[u] # tx[u] => /\ tx'[u].account = q.to
                                                /\ tx'[u].amount \in Amounts
                                                /\ tx[u].state # "none"
  BY <1>6, <1>8
<1>10. Remain(tx, tx') /\ StaysLive(accountState, accountState')
  BY <1>3, <1>7, <1>8, <1>9, EmptyRows DEF Remain, StaysLive
<1>11. RowsKept'
  <2>1. PICK N : N = {f}
    OBVIOUS
  <2>2. Rewrites(N)
    BY <1>9, <2>1 DEF Rewrites
  <2>3. WritesLive(N)
    BY <1>3, <1>6, <1>7, <1>8, <1>9, <2>1 DEF WritesLive
  <2>4. \A v \in Txs \ {f} : tx'[v].feeFor # t
    BY <1>3, <1>9 DEF FeeSlotFree, SameRow
  <2>5. N \in SUBSET Txs /\ Inserts(N)
    <3>1. tx'[t].state # "none"
      BY <1>5, <1>9
    <3>. QED
      BY <1>3, <1>7, <1>8, <2>1, <2>4, <3>1, ReferenceAssumption DEF Inserts
  <2>6. TypeOK /\ tx' \in [Txs -> Row] /\ RowsKept /\ StaysLive(accountState, accountState')
    BY <1>1, <1>8, <1>10
  <2>. QED
    BY ONLY <2>2, <2>3, <2>5, <2>6, RowsStep
<1>12. \A u \in Txs : tx[u].state # "none" /\ tx'[u].account # tx[u].account => tx'[u].account = q.to
  BY <1>3, <1>9, EmptyRows
<1>13. \A u \in Txs \ {t, f} : tx'[u] = tx[u]
  BY <1>6, <1>8
<1>. QED
  BY <1>2, <1>3, <1>5, <1>6, <1>8, <1>10, <1>11, <1>12, <1>13

(* The logical rows after the commit that adds fee line f, and what the    *)
(* request knows of them.                                                  *)
NewFeeCommitted(w, q, S, t, f) ==
  /\ Framed /\ DriftExplained /\ TypeOK /\ q \in Request /\ Sound(tx, accountState, q)
  /\ TypeOK' /\ Framed' /\ LocksHeld(req') /\ req' = [req EXCEPT ![w] = Idle]
  /\ q.pc = "tx" /\ UNCHANGED <<accountState, opening>> /\ outdated \subseteq outdated'
  /\ q.fees = {} /\ q.fee \in Amounts /\ q.fee > 0 /\ q.kind = "update" /\ f # t
  /\ \A a \in Accounts : balance'[a] = (balance[a] - Net(q.seen, {t}, a)) + UpdateEffect(w, a)
  /\ logicalTx[t] # q.seen[t] =>
       /\ tx[t].account \in outdated' /\ q.seen[t].account \in outdated' /\ q.to \in outdated'
  /\ logicalTx'[t] = Moved(logicalTx[t], q.to, q.n)
  /\ logicalTx'[f] = FeeRow(q.to, q.fee, t) /\ logicalTx[f] = NoRow
  /\ \A u \in Txs \ S : logicalTx'[u] = logicalTx[u]
  /\ q.to \in Accounts /\ q.n \in Amounts /\ q.fee \in Int /\ q.seen[t].state = "live"
  /\ logicalTx[t] \in Row /\ logicalTx[t].account = tx[t].account
  /\ \A a : PendingOf(Idle, a) = 0 /\ PendingOf(req[w], a) = 0
  /\ logicalTx' \in [Txs -> Row] /\ logicalTx \in [Txs -> Row] /\ FeeSlotFree(tx, t)

LEMMA CommittedNewFee ==
  ASSUME RequestsInv, NEW w \in Workers, NEW f \in Txs, CommitUpdateNewFee(w, f),
         NEW q, q = req[w], NEW t \in Txs, q.rows = {t}, NEW S, S = {t, f}
  PROVE  NewFeeCommitted(w, q, S, t, f)
<1>1. Framed /\ DriftExplained /\ TypeOK /\ req[w] \in Request /\ Sound(tx, accountState, req[w])
  BY FramedIs, SoundIs DEF Framed, RequestTypes
<1>4. /\ Commit(w) /\ tx' \in [Txs -> Row] /\ RowsKept' /\ Remain(tx, tx')
      /\ \A u \in Txs : tx[u].state # "none" /\ tx'[u].account # tx[u].account => tx'[u].account = q.to
      /\ q.fees = {} /\ HeldRows(q) = {t} /\ f # t /\ FeeSlotFree(tx, t)
      /\ q.fee \in Amounts /\ q.fee > 0 /\ q.kind = "update"
      /\ tx[f] = NoRow /\ tx'[f] = FeeRow(q.to, q.fee, t) /\ tx'[t] = Rewritten(w)[t]
      /\ \A u \in Txs \ S : tx'[u] = tx[u]
  <2>1. Framed /\ CommitUpdateNewFee(w, f) /\ req[w].rows = {t}
    BY <1>1
  <2>2. /\ Commit(w) /\ tx' \in [Txs -> Row] /\ RowsKept' /\ Remain(tx, tx')
        /\ \A u \in Txs : tx[u].state # "none" /\ tx'[u].account # tx[u].account => tx'[u].account = req[w].to
        /\ req[w].fees = {} /\ HeldRows(req[w]) = {t} /\ f # t /\ FeeSlotFree(tx, t)
        /\ req[w].fee \in Amounts /\ req[w].fee > 0 /\ req[w].kind = "update"
        /\ tx[f] = NoRow /\ tx'[f] = FeeRow(req[w].to, req[w].fee, t) /\ tx'[t] = Rewritten(w)[t]
        /\ \A u \in Txs \ {t, f} : tx'[u] = tx[u]
    BY ONLY <2>1, NewFeeIs, w \in Workers, f \in Txs, t \in Txs
  <2>. QED
    BY <2>2
<1>5. /\ TypeOK' /\ Framed' /\ LocksHeld(req') /\ req' = [req EXCEPT ![w] = Idle]
      /\ q.pc = "tx" /\ UNCHANGED <<accountState, opening>>
      /\ outdated \subseteq outdated'
      /\ \A a \in Accounts : balance'[a] = (balance[a] - Net(q.seen, {t}, a)) + UpdateEffect(w, a)
      /\ logicalTx[t] # q.seen[t] =>
              /\ tx[t].account \in outdated' /\ q.seen[t].account \in outdated' /\ q.to \in outdated'
  <2>1. /\ TypeOK' /\ Framed' /\ LocksHeld(req') /\ req' = [req EXCEPT ![w] = Idle]
        /\ q.pc = "tx" /\ UNCHANGED <<accountState, opening>>
        /\ outdated \subseteq outdated'
        /\ \A a \in Accounts : balance'[a] = (balance[a] - Net(q.seen, HeldRows(q), a)) + UpdateEffect(w, a)
        /\ \A r \in HeldRows(q) : logicalTx[r] # q.seen[r] =>
              /\ tx[r].account \in outdated' /\ q.seen[r].account \in outdated' /\ q.to \in outdated'
    BY <1>1, <1>4, CommitIs
  <2>. QED
    BY <1>4, <2>1
<1>6. q \in Request /\ Sound(tx, accountState, q) /\ q.rows = {t}
  BY <1>1
<1>7. /\ \A u \in Txs \ {t} : tx'[u] = tx[u] => logicalTx'[u] = logicalTx[u]
      /\ logicalTx'[t] = Moved(logicalTx[t], q.to, q.n)
  <2>1. /\ \A u \in HeldRows(q) : tx'[u] = Rewritten(w)[u]
        /\ \A r \in HeldRows(q) : logicalTx[r] # q.seen[r] => tx[r].account \in outdated'
    BY <1>4, <1>5
  <2>2. Framed /\ Framed' /\ TypeOK' /\ req' = [req EXCEPT ![w] = Idle] /\ outdated \subseteq outdated'
    BY <1>1, <1>5
  <2>3. /\ q \in Request /\ q = req[w] /\ q.kind = "update" /\ q.rows = {t} /\ q.pc = "tx"
        /\ DeletesFees(w) => q.fees \subseteq q.gone
    BY <1>4, <1>5, <1>6
  <2>4. /\ \A u \in Txs \ HeldRows(q) : tx'[u] = tx[u] => logicalTx'[u] = logicalTx[u]
        /\ logicalTx'[t] = Moved(logicalTx[t], q.to, q.n)
    BY ONLY <2>1, <2>2, <2>3, CommittedRows, w \in Workers, t \in Txs, ZenonT(60)
  <2>. QED
    BY <1>4, <2>4
<1>8. logicalTx'[f] = FeeRow(q.to, q.fee, t) /\ logicalTx[f] = NoRow
  <2>1. Framed /\ TypeOK' /\ req' = [req EXCEPT ![w] = Idle]
    BY <1>1, <1>5
  <2>2. /\ ~(f \in Flying(Idle) \/ AloftBut(w, f)) => logicalTx'[f] = tx'[f]
        /\ ~(f \in Flying(req[w]) \/ AloftBut(w, f)) => logicalTx[f] = tx[f]
        /\ AloftBut(w, f) => tx[f].state = "deleted"
    BY ONLY <2>1, LogicalAfter, w \in Workers, f \in Txs
  <2>3. Flying(Idle) = {} /\ f \notin Flying(req[w])
    <3>1. Flying(req[w]) \subseteq req[w].fees
      BY <1>1, SoundFlight DEF Framed
    <3>. QED
      BY <1>4, <3>1, IdleIs DEF Flying
  <2>. QED
    BY <1>4, <2>2, <2>3, EmptyRows
<1>9. \A u \in Txs \ S : logicalTx'[u] = logicalTx[u]
  BY <1>4, <1>7
<1>10. /\ q.to \in Accounts /\ q.n \in Amounts /\ q.fee \in Int /\ q.seen[t].state = "live"
  <2>1. q.to \in Accounts /\ q.n \in Amounts /\ q.seen[t].state = "live"
    BY <1>4, <1>6 DEF Sound, Updating, KnowsRows
  <2>. QED
    BY <1>6, <2>1, RequestIs
<1>11. logicalTx[t] \in Row /\ logicalTx[t].account = tx[t].account
  BY <1>1, LogicalRow
<1>12. \A a : PendingOf(Idle, a) = 0 /\ PendingOf(req[w], a) = 0
  BY <1>4, IdleIs DEF PendingOf
<1>13. logicalTx' \in [Txs -> Row] /\ logicalTx \in [Txs -> Row]
  <2>1. TypeOK'
    BY <1>5
  <2>2. (TypeOK => logicalTx \in [Txs -> Row])'
    BY LogicalIsTyped, PTL
  <2>. QED
    BY <1>1, <2>1, <2>2, LogicalIsTyped
<1>. QED
  BY <1>1, <1>4, <1>5, <1>6, <1>7, <1>8, <1>9, <1>10, <1>11, <1>12, <1>13 DEF NewFeeCommitted

LEMMA CommitNewFeeStep ==
  ASSUME RequestsInv, NEW w \in Workers, NEW f \in Txs, CommitUpdateNewFee(w, f)
  PROVE  RequestsInv'
<1>1. PICK q : q = req[w]
  OBVIOUS
<1>2. PICK t \in Txs : q.rows = {t}
  <2>1. req[w].kind = "update" /\ Sound(tx, accountState, req[w])
    BY FramedIs, SoundIs DEF CommitUpdateNewFee, Commit, At
  <2>. QED
    BY <1>1, <2>1 DEF Sound, Updating
<1>3. PICK S : S = {t, f}
  OBVIOUS
<1>4. NewFeeCommitted(w, q, S, t, f)
  <2>1. RequestsInv /\ CommitUpdateNewFee(w, f)
    OBVIOUS
  <2>. QED
    BY ONLY <1>1, <1>2, <1>3, <2>1, CommittedNewFee, w \in Workers, f \in Txs, t \in Txs
<1>. USE DEF NewFeeCommitted
<1>5. ASSUME NEW a \in Accounts \ outdated'
       PROVE  Derived(logicalBalance'[a], opening'[a], Net(logicalTx', Txs, a))
  <2>1. a \in Accounts \ outdated
    BY <1>4
  <2>2. Net(logicalTx, S, a) = Net(q.seen, {t}, a) /\ Net(q.seen, {t}, a) \in Int
    <3>1. logicalTx[t] # q.seen[t] => Off(logicalTx[t], a) /\ Off(q.seen[t], a)
      BY <1>4 DEF Off
    <3>2. Net(logicalTx, {t}, a) = Net(q.seen, {t}, a) /\ Net(q.seen, {t}, a) \in Int
      BY <3>1, SeenSum, NetInt
    <3>3. Net(logicalTx, {f}, a) = 0
      BY <1>4, NetOff, EmptyRows DEF Off
    <3>4. Net(logicalTx, {t} \union {f}, a) = Net(logicalTx, {t}, a) + Net(logicalTx, {f}, a)
      BY <1>4, NetUnion
    <3>5. {t} \union {f} = S
      BY <1>3
    <3>6. PICK x, y, z : x = Net(logicalTx, {t}, a) /\ y = Net(logicalTx, {f}, a) /\ z = Net(q.seen, {t}, a)
      OBVIOUS
    <3>7. x = z /\ z \in Int /\ y = 0
      BY <3>2, <3>3, <3>6
    <3>8. x + y = z
      BY ONLY <3>7
    <3>. QED
      BY <3>4, <3>5, <3>6, <3>7, <3>8
  <2>3. a = q.to => logicalTx[t] = q.seen[t]
    BY <1>4
  <2>4. PICK e : e = balanceDelta(q.seen[t].type, q.n) /\ e \in Int
    BY <1>4, DeltaInt, AmountsInt
  <2>5. Effect(logicalTx'[t], a) = IF a = q.to THEN e ELSE 0
    <3>1. a = q.to => logicalTx[t].state = "live" /\ logicalTx[t].type = q.seen[t].type
      BY <1>4, <2>3
    <3>2. PICK r, to, n : r = logicalTx[t] /\ to = q.to /\ n = q.n
      OBVIOUS
    <3>3. logicalTx'[t] = Moved(r, to, n) /\ r \in Row /\ to \in Accounts /\ n \in Amounts
          /\ (a = to => r.state = "live")
      BY <1>4, <3>1, <3>2
    <3>4. Effect(Moved(r, to, n), a) = IF r.state = "live" /\ to = a THEN balanceDelta(r.type, n) ELSE 0
      BY <3>3, MovedEffect
    <3>. QED
      BY <2>4, <3>1, <3>2, <3>3, <3>4
  <2>6. Effect(logicalTx'[f], a) = IF a = q.to THEN -q.fee ELSE 0
    BY <1>4, EffectOfFee
  <2>7. Net(logicalTx', S, a) = Effect(logicalTx'[t], a) + Effect(logicalTx'[f], a)
    BY <1>3, <1>4, NetOfTwo
  <2>8. UpdateEffect(w, a) = IF a # q.to THEN 0
                  ELSE balanceDelta(q.seen[t].type, q.n) - (IF q.fee > 0 THEN q.fee ELSE 0)
    BY <1>1, <1>2, <1>4, UpdateEffectIs
  <2>9. Net(logicalTx', S, a) = UpdateEffect(w, a) /\ UpdateEffect(w, a) \in Int
    <3>1. PICK fee, to, n1, n2 : fee = q.fee /\ to = q.to /\ n1 = Effect(logicalTx'[t], a) /\ n2 = Effect(logicalTx'[f], a)
      OBVIOUS
    <3>2. /\ n1 = (IF a = to THEN e ELSE 0) /\ n2 = (IF a = to THEN -fee ELSE 0)
          /\ UpdateEffect(w, a) = (IF a # to THEN 0 ELSE e - (IF fee > 0 THEN fee ELSE 0))
          /\ Net(logicalTx', S, a) = n1 + n2 /\ fee \in Int /\ e \in Int /\ fee > 0
      BY <1>4, <2>4, <2>5, <2>6, <2>7, <2>8, <3>1
    <3>. QED
      BY ONLY <3>2
  <2>10. Shifts(balance[a], PendingOf(req[w], a), Net(logicalTx, S, a),
               balance'[a], PendingOf(Idle, a), Net(logicalTx', S, a))
    <3>1. PICK b, b2, m, x, p, p2 : /\ b = balance[a] /\ b2 = balance'[a] /\ m = Net(q.seen, {t}, a)
                                    /\ x = UpdateEffect(w, a)
                                    /\ p = PendingOf(req[w], a) /\ p2 = PendingOf(Idle, a)
      OBVIOUS
    <3>2. b \in Int /\ m \in Int /\ x \in Int /\ b2 = (b - m) + x /\ p = 0 /\ p2 = 0
      BY <1>4, <2>2, <2>9, <3>1 DEF TypeOK
    <3>3. Shifts(b, p, m, b2, p2, x)
      BY <3>2, ShiftsByCommit
    <3>. QED
      BY <2>2, <2>9, <3>1, <3>3
  <2>11. /\ Framed /\ DriftExplained /\ TypeOK' /\ Idle \in Request
        /\ req' = [req EXCEPT ![w] = Idle] /\ LocksHeld(req') /\ opening' = opening
        /\ S \in SUBSET Txs /\ \A u \in Txs \ S : logicalTx'[u] = logicalTx[u]
    BY <1>4, <1>3, IdleIs
  <2>. QED
    BY ONLY <2>1, <2>10, <2>11, DriftStep, w \in Workers
<1>6. DriftExplained'
  <2>1. \A a \in Accounts \ outdated' : Derived(logicalBalance'[a], opening'[a], Net(logicalTx', Txs, a))
    BY <1>5
  <2>. QED
    BY <2>1 DEF DriftExplained, Derived
<1>. QED
  BY <1>4, <1>6 DEF RequestsInv, Framed
-----------------------------------------------------------------------------
(* The invariant. *)
LEMMA RequestsStart == RequestsInit => RequestsInv
<1>. SUFFICES ASSUME RequestsInit PROVE RequestsInv
  OBVIOUS
<1>1. /\ accountState = [a \in Accounts |-> "none"] /\ opening = [a \in Accounts |-> 0]
      /\ balance = [a \in Accounts |-> 0] /\ tx = [t \in Txs |-> NoRow]
      /\ req = [w \in Workers |-> Idle] /\ outdated = {}
  BY DEF RequestsInit, Init
<1>2. NoRow \in Row
  BY AmountAssumption DEF NoRow, Row, Types, Sources
<1>3. TypeOK
  BY <1>1, <1>2 DEF TypeOK
<1>4. RequestTypes
  BY <1>1, <1>3, IdleIs DEF RequestTypes
<1>5. RowsKept
  BY <1>1, EmptyRows, ReferenceAssumption
     DEF RowsKept, Provenance, UnusedRows, InsertedRows, FeeRows, FeeUnique, LegRows
<1>6. AllSound
  BY <1>1, IdleIs DEF AllSound, Sound, KnowsRows, HeldRows, Waits
<1>7. HoldsLocks /\ GoneAreDeleted /\ DeletedOnce
  BY <1>1, IdleIs DEF HoldsLocks, Inside, GoneAreDeleted, DeletedOnce
<1>8. DriftExplained
  <2>1. \A w \in Workers : req[w].kind = "idle" /\ req[w].gone = {}
    BY <1>1, IdleIs
  <2>3. \A a \in Accounts, t \in Txs : Off(logicalTx[t], a)
    BY <1>1, <2>1, EmptyRows DEF logicalTx, InFlight, Off
  <2>4. \A a \in Accounts : Net(logicalTx, Txs, a) = 0
    BY <2>3, NetOff
  <2>5. \A a \in Accounts : logicalBalance[a] = 0
    BY <1>1, <2>1 DEF logicalBalance, Reverses, At
  <2>. QED
    BY <1>1, <2>4, <2>5 DEF DriftExplained
<1>. QED
  BY <1>4, <1>5, <1>6, <1>7, <1>8 DEF RequestsInv

LEMMA NewRowTypes ==
  /\ BookedAmounts \subseteq Amounts
  /\ \A s \in EntrySources : s \in Sources \ {"FEE"}
  BY RequestAssumption, EntrySourcesAssumption DEF Sources

LEMMA RequestsStep ==
  ASSUME RequestsInv, RequestsNext
  PROVE  RequestsInv'
<1>1. ASSUME NEW a \in Accounts, NEW o \in Openings, CreateAccount(a, o) /\ Stays
      PROVE  RequestsInv'
  BY <1>1, CreateAccountStep
<1>2. ASSUME NEW t \in Txs, NEW a \in Accounts, NEW type \in Types, NEW n \in BookedAmounts,
             NEW s \in EntrySources, CreateTx(t, a, type, n, s) /\ Stays
      PROVE  RequestsInv'
  BY <1>2, CreateTxStep, NewRowTypes
<1>3. ASSUME NEW t \in Txs, NEW f \in Txs, NEW a \in Accounts, NEW type \in Types,
             NEW n \in BookedAmounts, NEW fee \in BookedAmounts,
             CreateTxWithFee(t, f, a, type, n, fee) /\ Stays
      PROVE  RequestsInv'
  BY <1>3, CreateTxWithFeeStep, NewRowTypes
<1>4. ASSUME NEW out \in Txs, NEW in \in Txs, NEW from \in Accounts, NEW to \in Accounts,
             NEW n \in BookedAmounts, Transfer(out, in, from, to, n) /\ Stays
      PROVE  RequestsInv'
  BY <1>4, TransferStep, NewRowTypes
<1>5. ASSUME NEW out \in Txs, NEW in \in Txs, NEW f \in Txs, NEW from \in Accounts, NEW to \in Accounts,
             NEW n \in BookedAmounts, NEW fee \in BookedAmounts,
             TransferWithFee(out, in, f, from, to, n, fee) /\ Stays
      PROVE  RequestsInv'
  BY <1>5, TransferWithFeeStep, NewRowTypes
<1>6. ASSUME NEW w \in Workers, NEW t \in Txs, BeginRemove(w, t)
      PROVE  RequestsInv'
  BY <1>6, BeginRemoveStep
<1>7. ASSUME NEW w \in Workers, NEW t \in Txs, NEW a \in Accounts, NEW n \in Amounts,
             NEW fee \in {Omitted, 0} \union BookedAmounts, BeginUpdate(w, t, a, n, fee)
      PROVE  RequestsInv'
  BY <1>7, BeginUpdateStep
<1>8. ASSUME NEW w \in Workers, NEW a \in Accounts, NEW actual \in Openings, BeginReconcile(w, a, actual)
      PROVE  RequestsInv'
  BY <1>8, BeginReconcileStep
<1>9. ASSUME NEW w \in Workers, ReadLegs(w)
      PROVE  RequestsInv'
  BY <1>9, ReadLegsStep
<1>10. ASSUME NEW w \in Workers, LockRow(w)
       PROVE  RequestsInv'
  BY <1>10, LockRowStep
<1>11. ASSUME NEW w \in Workers, ReadFees(w)
       PROVE  RequestsInv'
  BY <1>11, ReadFeesStep
<1>12. ASSUME NEW w \in Workers, Enter(w)
       PROVE  RequestsInv'
  BY <1>12, EnterStep
<1>13. ASSUME NEW w \in Workers, DeleteRows(w)
       PROVE  RequestsInv'
  BY <1>13, DeleteRowsStep
<1>14. ASSUME NEW w \in Workers, CommitRemove(w)
       PROVE  RequestsInv'
  BY <1>14, CommitRemoveStep
<1>15. ASSUME NEW w \in Workers, CommitUpdate(w)
       PROVE  RequestsInv'
  BY <1>15, CommitUpdateStep
<1>16. ASSUME NEW w \in Workers, Fail(w)
       PROVE  RequestsInv'
  BY <1>16, FailStep
<1>17. ASSUME NEW w \in Workers, NEW t \in Txs, DeleteFee(w, t)
       PROVE  RequestsInv'
  BY <1>17, DeleteFeeStep
<1>18. ASSUME NEW w \in Workers, NEW t \in Txs, CommitUpdateNewFee(w, t)
       PROVE  RequestsInv'
  BY <1>18, CommitNewFeeStep
<1>19. ASSUME NEW w \in Workers, NEW t \in Txs, CommitReconcile(w, t)
       PROVE  RequestsInv'
  BY <1>19, CommitReconcileStep
<1>. QED
  BY <1>1, <1>2, <1>3, <1>4, <1>5, <1>6, <1>7, <1>8, <1>9, <1>10, <1>11, <1>12, <1>13, <1>14, <1>15,
     <1>16, <1>17, <1>18, <1>19 DEF RequestsNext

LEMMA RequestsStutter ==
  ASSUME RequestsInv, UNCHANGED requestsVars
  PROVE  RequestsInv'
<1>1. /\ accountState' = accountState /\ opening' = opening /\ balance' = balance /\ tx' = tx
      /\ req' = req /\ outdated' = outdated
  BY DEF requestsVars, database, vars
<1>2. logicalTx' = logicalTx /\ logicalBalance' = logicalBalance
  BY <1>1 DEF logicalTx, InFlight, logicalBalance, Reverses, At, Reversed
<1>3. RequestTypes' /\ RowsKept' /\ AllSound'
  BY <1>1 DEF RequestsInv, RequestTypes, TypeOK, RowsKept, Provenance, UnusedRows, InsertedRows,
              FeeRows, FeeUnique, LegRows, AllSound
<1>4. HoldsLocks' /\ GoneAreDeleted' /\ DeletedOnce'
  BY <1>1 DEF RequestsInv, HoldsLocks, Inside, Touched, Seen, GoneAreDeleted, DeletedOnce
<1>5. DriftExplained'
  BY <1>1, <1>2 DEF RequestsInv, DriftExplained
<1>. QED
  BY <1>3, <1>4, <1>5 DEF RequestsInv

LEMMA RequestsInductive == RequestsSpec => []RequestsInv
<1>1. RequestsInv /\ [RequestsNext]_requestsVars => RequestsInv'
  BY RequestsStep, RequestsStutter
<1>. QED
  BY RequestsStart, <1>1, PTL DEF RequestsSpec

(* RG-A3, RG-A8 for any number of requests in flight, any accounts and     *)
(* transactions: a stored balance that differs from the recomputed one is  *)
(* explained by a removal between its deletes and its commit, or by a      *)
(* request that acted on an outdated read of the account or died after a   *)
(* delete.                                                                 *)
THEOREM DriftIsExplained == RequestsSpec => []DriftExplained
<1>1. RequestsInv => DriftExplained
  BY DEF RequestsInv
<1>. QED
  BY <1>1, RequestsInductive, PTL
-----------------------------------------------------------------------------
(* The refinement. *)
LEMMA AtomicRows ==
  /\ Atomic!Amounts = Amounts /\ Atomic!Types = Types /\ Atomic!NoRow = NoRow
  /\ \A r : Atomic!deletedRow(r) = deletedRow(r)
  /\ \A rows, S : Atomic!softDelete(rows, S) = softDelete(rows, S)
  /\ \A rows, S : Atomic!feeLinesOf(rows, S) = feeLinesOf(rows, S)
  /\ \A rows, g : Atomic!legsOf(rows, g) = legsOf(rows, g)
  /\ \A rows, S, a : Atomic!Net(rows, S, a) = Net(rows, S, a)
  /\ \A rows, S, a : Atomic!FeesOn(rows, S, a) = FeesOn(rows, S, a)
  /\ \A rows, t : Atomic!FeeSlotFree(rows, t) <=> FeeSlotFree(rows, t)
<1>1. Atomic!Amounts = Amounts /\ Atomic!Types = Types /\ Atomic!NoRow = NoRow
  BY DEF Atomic!Amounts, Amounts, Atomic!Types, Types, Atomic!NoRow, NoRow
<1>2. \A r : Atomic!deletedRow(r) = deletedRow(r)
  BY DEF Atomic!deletedRow, deletedRow
<1>3. \A rows, S : Atomic!softDelete(rows, S) = softDelete(rows, S)
  BY <1>2 DEF Atomic!softDelete, softDelete
<1>4. \A rows : Atomic!LiveRows(rows) = LiveRows(rows)
  BY DEF Atomic!LiveRows, LiveRows
<1>5. \A rows, S : Atomic!feeLinesOf(rows, S) = feeLinesOf(rows, S)
  BY <1>4 DEF Atomic!feeLinesOf, feeLinesOf
<1>6. \A rows, g : Atomic!legsOf(rows, g) = legsOf(rows, g)
  BY <1>4 DEF Atomic!legsOf, legsOf
<1>7. \A rows, S : Atomic!Total(rows, S) = Total(rows, S)
  <2>1. \A rows, S : Atomic!Units(rows, S) = Units(rows, S)
    BY DEF Atomic!Units, Units
  <2>2. ASSUME NEW S PROVE Atomic!Cardinality(S) = Cardinality(S)
    BY DEF Atomic!Cardinality, Cardinality
  <2>. QED
    BY <2>1, <2>2 DEF Atomic!Total, Total
<1>8. \A rows, S, a, type : Atomic!OnAccount(rows, S, a, type) = OnAccount(rows, S, a, type)
  BY DEF Atomic!OnAccount, OnAccount
<1>9. \A rows, S, a : Atomic!Net(rows, S, a) = Net(rows, S, a)
  BY <1>7, <1>8 DEF Atomic!Net, Net
<1>10. \A rows, S, a : Atomic!FeesOn(rows, S, a) = FeesOn(rows, S, a)
  BY <1>7 DEF Atomic!FeesOn, FeesOn
<1>11. \A rows, t : Atomic!FeeSlotFree(rows, t) <=> FeeSlotFree(rows, t)
  BY DEF Atomic!FeeSlotFree, FeeSlotFree
<1>. QED
  BY <1>1, <1>2, <1>3, <1>5, <1>6, <1>9, <1>10, <1>11

(* While nothing is outdated the logical balances move with the rows.      *)
LEMMA LogicalMoves ==
  ASSUME RequestsInv, RequestsInv', outdated = {}, outdated' = {}, opening' = opening,
         NEW S \in SUBSET Txs, \A t \in Txs \ S : logicalTx'[t] = logicalTx[t], NEW x \in Accounts
  PROVE  /\ logicalBalance[x] \in Int /\ Net(logicalTx, S, x) \in Int /\ Net(logicalTx', S, x) \in Int
         /\ logicalBalance'[x] = (logicalBalance[x] - Net(logicalTx, S, x)) + Net(logicalTx', S, x)
<1>1. PICK l, l2, o, n, n2, m, m2 :
        /\ l = logicalBalance[x] /\ l2 = logicalBalance'[x] /\ o = opening[x]
        /\ n = Net(logicalTx, Txs, x) /\ n2 = Net(logicalTx', Txs, x)
        /\ m = Net(logicalTx, S, x) /\ m2 = Net(logicalTx', S, x)
  OBVIOUS
<1>2. l = o + n
  BY <1>1 DEF RequestsInv, DriftExplained
<1>3. l2 = o + n2
  <2>1. \A a \in Accounts \ outdated' : logicalBalance'[a] = opening'[a] + Net(logicalTx', Txs, a)
    BY DEF RequestsInv, DriftExplained
  <2>. QED
    BY <1>1, <2>1
<1>4. n2 = n - m + m2
  BY <1>1, NetChange
<1>5. o \in Int /\ n \in Int /\ m \in Int /\ m2 \in Int
  BY <1>1, NetInt DEF RequestsInv, RequestTypes, TypeOK
<1>6. l \in Int /\ l2 = (l - m) + m2
  BY ONLY <1>2, <1>3, <1>4, <1>5
<1>. QED
  BY <1>1, <1>5, <1>6

(* Adjustments, one account after the other.                               *)
LEMMA AdjustedIs ==
  ASSUME NEW bal \in [Accounts -> Int], NEW a \in Accounts, NEW d \in Int,
         NEW bal2, bal2 = [x \in Accounts |-> bal2[x]],
         \A x \in Accounts : bal2[x] = bal[x] + (IF a = x THEN d ELSE 0)
  PROVE  bal2 = adjustBalance(bal, a, d)
<1>1. adjustBalance(bal, a, d) \in [Accounts -> Int]
  BY AdjustType
<1>2. \A x \in Accounts : adjustBalance(bal, a, d)[x] = bal2[x]
  BY AdjustAt
<1>. QED
  BY <1>1, <1>2

LEMMA RowEffect ==
  ASSUME NEW r \in Row, r.state = "live", r.account \in Accounts
  PROVE  /\ balanceDelta(r.type, r.amount) \in Int /\ -balanceDelta(r.type, r.amount) \in Int
         /\ \A x : Effect(r, x) = IF r.account = x THEN balanceDelta(r.type, r.amount) ELSE 0
<1>1. r.amount \in Int
  BY AmountsInt DEF Row
<1>2. balanceDelta(r.type, r.amount) \in Int /\ -balanceDelta(r.type, r.amount) \in Int
  BY <1>1, DeltaInt
<1>3. \A x : Effect(r, x) = IF r.account = x THEN balanceDelta(r.type, r.amount) ELSE 0
  BY DEF Effect
<1>. QED
  BY <1>2, <1>3

(* What a removal has read is what it deletes, if nothing is outdated.     *)
LEMMA RemovedIs ==
  ASSUME RequestsInv, NEW w \in Workers, DeleteRows(w), outdated' = {}
  PROVE  /\ RequestsInv' /\ outdated = {} /\ UNCHANGED <<accountState, opening>>
         /\ req[w].rows \subseteq Txs /\ HeldRows(req[w]) \in SUBSET Txs
         /\ req[w].fees = feeLinesOf(logicalTx, req[w].rows)
         /\ req[w].rows \cap req[w].fees = {} /\ (req[w].rows = {} => req[w].fees = {})
         /\ logicalTx' = softDelete(logicalTx, HeldRows(req[w]))
         /\ \A r \in HeldRows(req[w]) : /\ logicalTx[r] = req[w].seen[r] /\ logicalTx[r].state = "live"
                                       /\ logicalTx[r].account \in Accounts
         /\ \A f \in req[w].fees : logicalTx[f].type = "EXPENSE"
         /\ \A r \in req[w].rows : logicalTx[r].source \notin {"FEE", "DEBT_PAYMENT", "DEBT_CREATION"}
         /\ KnowsLegs(logicalTx, req[w])
<1>1. Framed /\ TypeOK /\ req[w] \in Request /\ Sound(tx, accountState, req[w]) /\ RowsKept
  BY FramedIs, SoundIs DEF Framed, RequestTypes
<1>2. PICK q, S : q = req[w] /\ S = HeldRows(q)
  OBVIOUS
<1>3. /\ q.kind = "remove" /\ q.pc = "tx" /\ S \in SUBSET Txs
      /\ UNCHANGED <<accountState, opening>>
      /\ outdated \subseteq outdated' /\ Overlooked(w) \subseteq outdated'
      /\ \A t \in Txs \ S : logicalTx'[t] = logicalTx[t]
      /\ \A t \in S : /\ tx[t].account \in outdated' \/ logicalTx'[t] = deletedRow(tx[t])
                      /\ logicalTx[t] # q.seen[t] => tx[t].account \in outdated'
  BY <1>2, DeleteRowsIs
<1>4. /\ outdated = {} /\ Overlooked(w) = {}
      /\ \A t \in S : logicalTx'[t] = deletedRow(tx[t]) /\ logicalTx[t] = q.seen[t]
  BY <1>3
<1>5. q.rows \subseteq S /\ q.fees \subseteq S /\ S = q.rows \union q.fees /\ q \in Request
      /\ Sound(tx, accountState, q)
  BY <1>1, <1>2 DEF HeldRows
<1>6. /\ \A r \in S : /\ q.seen[r].state = "live" /\ q.seen[r].account \in Accounts
                      /\ tx[r].state # "none" /\ SameRow(q.seen[r], tx[r])
      /\ \A r \in q.rows : q.seen[r].source \notin {"FEE", "DEBT_PAYMENT", "DEBT_CREATION"}
      /\ \A f \in q.fees : q.seen[f].feeFor \in q.rows
  BY <1>2, <1>5 DEF Sound, KnowsRows
<1>7. q.rows \cap q.fees = {} /\ (q.rows = {} => q.fees = {}) /\ \A f \in q.fees : tx[f].source = "FEE"
  BY <1>1, <1>5, SoundFlight
<1>8. \A f \in q.fees : logicalTx[f].type = "EXPENSE"
  <2>1. \A f \in q.fees : tx[f].type = "EXPENSE" /\ SameRow(q.seen[f], tx[f])
    BY <1>1, <1>3, <1>5, <1>6, <1>7 DEF RowsKept, Provenance, FeeRows
  <2>. QED
    BY <1>4, <1>5, <2>1 DEF SameRow
<1>9. q.fees = feeLinesOf(logicalTx, q.rows)
  <2>1. \A f \in q.fees : f \in feeLinesOf(logicalTx, q.rows)
    BY <1>3, <1>4, <1>5, <1>6 DEF feeLinesOf, LiveRows
  <2>2. feeLinesOf(logicalTx, q.rows) \subseteq q.fees
    BY <1>2, <1>4 DEF Overlooked
  <2>. QED
    BY <2>1, <2>2
<1>10. logicalTx' = softDelete(logicalTx, S)
  <2>1. \A t \in S : deletedRow(tx[t]) = deletedRow(logicalTx[t])
    <3>1. \A t \in S : tx[t] \in Row /\ (logicalTx[t] = tx[t] \/ logicalTx[t] = Revived(tx[t]))
      BY <1>1, <1>3, LogicalRow DEF TypeOK, Revived
    <3>2. \A r \in Row : deletedRow(Revived(r)) = deletedRow(r)
      BY DEF deletedRow, Revived, Row
    <3>. QED
      BY <3>1, <3>2
  <2>2. \A t \in Txs : logicalTx'[t] = softDelete(logicalTx, S)[t]
    BY <1>3, <1>4, <2>1 DEF softDelete
  <2>. QED
    BY <2>2, LogicalFunctions DEF softDelete
<1>11. KnowsLegs(logicalTx, q)
  <2>1. KnowsLegs(tx, q)
    BY <1>3, <1>5 DEF Sound, Removing
  <2>2. ASSUME NEW g \in Txs, NEW r \in legsOf(logicalTx, g)
        PROVE  r \in legsOf(tx, g)
    <3>1. r \in Txs /\ logicalTx[r].state = "live" /\ logicalTx[r].group = g
      BY DEF legsOf, LiveRows
    <3>2. tx[r].group = g /\ (Aloft(r) \/ logicalTx[r] = tx[r])
      BY <1>1, <3>1, LogicalRow DEF SameRow
    <3>3. ~Aloft(r)
      <4>1. Aloft(r) => tx[r].source = "FEE"
        BY <1>1, <3>1, AloftIs DEF Framed
      <4>. QED
        BY <1>1, <3>1, <3>2, <4>1, ReferenceAssumption DEF RowsKept, Provenance, FeeRows
    <3>. QED
      BY <3>1, <3>2, <3>3 DEF legsOf, LiveRows
  <2>. QED
    BY <2>1, <2>2 DEF KnowsLegs
<1>12. RequestsInv'
  BY DeleteRowsStep
<1>13. /\ q.rows \subseteq Txs /\ \A r \in S : logicalTx[r] = q.seen[r]
       /\ \A r \in S : logicalTx[r].state = "live" /\ logicalTx[r].account \in Accounts
       /\ \A r \in q.rows : logicalTx[r].source \notin {"FEE", "DEBT_PAYMENT", "DEBT_CREATION"}
  BY <1>3, <1>4, <1>5, <1>6
<1>. QED
  BY <1>2, <1>3, <1>4, <1>7, <1>8, <1>9, <1>10, <1>11, <1>12, <1>13
LEMMA RemovedBalance ==
  ASSUME RequestsInv, NEW w \in Workers, DeleteRows(w), outdated' = {}, NEW x \in Accounts
  PROVE  /\ logicalBalance[x] \in Int /\ Net(logicalTx, req[w].rows, x) \in Int
         /\ FeesOn(logicalTx, req[w].fees, x) \in Int
         /\ logicalBalance'[x] = (logicalBalance[x] - Net(logicalTx, req[w].rows, x))
                                   + FeesOn(logicalTx, req[w].fees, x)
<1>1. PICK rows, fees, S, lt : /\ rows = req[w].rows /\ fees = req[w].fees
                               /\ S = HeldRows(req[w]) /\ lt = logicalTx
  OBVIOUS
<1>2. /\ RequestsInv' /\ outdated = {} /\ UNCHANGED <<accountState, opening>>
      /\ rows \subseteq Txs /\ S \in SUBSET Txs /\ S = rows \union fees /\ fees \subseteq Txs
      /\ rows \cap fees = {} /\ logicalTx' = softDelete(lt, S)
      /\ \A r \in S : lt[r].state = "live" /\ lt[r] \in Row
      /\ \A f \in fees : lt[f].type = "EXPENSE"
  <2>1. /\ RequestsInv' /\ outdated = {} /\ UNCHANGED <<accountState, opening>>
        /\ rows \subseteq Txs /\ S \in SUBSET Txs /\ rows \cap fees = {}
        /\ logicalTx' = softDelete(lt, S) /\ \A r \in S : lt[r].state = "live"
        /\ \A f \in fees : lt[f].type = "EXPENSE"
    BY <1>1, RemovedIs
  <2>2. S = rows \union fees
    BY <1>1 DEF HeldRows
  <2>3. TypeOK
    BY DEF RequestsInv, RequestTypes
  <2>4. \A r \in Txs : lt[r] \in Row
    BY <1>1, <2>3, LogicalRow
  <2>. QED
    BY <2>1, <2>2, <2>4
<1>3. /\ \A t \in Txs \ S : logicalTx'[t] = lt[t]
      /\ \A t \in S : logicalTx'[t].state # "live"
  <2>1. \A t \in S : deletedRow(lt[t]).state = "deleted"
    BY <1>2 DEF deletedRow, Row
  <2>. QED
    BY <1>2, <2>1 DEF softDelete
<1>4. PICK l, l2, m, m2 : l = logicalBalance[x] /\ l2 = logicalBalance'[x] /\ m = Net(lt, S, x) /\ m2 = Net(logicalTx', S, x)
  OBVIOUS
<1>5. l \in Int /\ m \in Int /\ l2 = (l - m) + m2
  BY <1>1, <1>2, <1>3, <1>4, LogicalMoves
<1>6. m2 = 0
  BY <1>3, <1>4, NetOfDead
<1>7. PICK n, k, f : n = Net(lt, rows, x) /\ k = Net(lt, fees, x) /\ f = FeesOn(lt, fees, x)
  OBVIOUS
<1>8. m = n + k /\ n \in Int
  BY <1>2, <1>4, <1>7, NetUnion, NetInt
<1>9. k = -f /\ f \in Int
  BY <1>2, <1>7, NetOfExpenses
<1>10. l2 = (l - n) + f
  BY ONLY <1>5, <1>6, <1>8, <1>9
<1>. QED
  BY <1>1, <1>4, <1>5, <1>7, <1>8, <1>9, <1>10

LEMMA DeleteRowsImplements ==
  ASSUME RequestsInv, NEW w \in Workers, DeleteRows(w), outdated' = {}
  PROVE  \/ UNCHANGED <<accountState, opening, logicalBalance, logicalTx>>
         \/ \E t \in Txs : Atomic!RemoveTx(t, "none") \/ Atomic!RemoveTransfer(t)
<1>1. PICK rows, fees, S, lt, lb, q :
        /\ rows = req[w].rows /\ fees = req[w].fees /\ q = req[w]
        /\ S = HeldRows(req[w]) /\ lt = logicalTx /\ lb = logicalBalance
  OBVIOUS
<1>2. /\ accountState' = accountState /\ opening' = opening
      /\ rows \subseteq Txs /\ fees = feeLinesOf(lt, rows) /\ (rows = {} => fees = {})
      /\ logicalTx' = softDelete(lt, S)
      /\ \A r \in S : lt[r] = q.seen[r] /\ lt[r].state = "live" /\ lt[r].account \in Accounts
      /\ \A r \in rows : lt[r].source \notin {"FEE", "DEBT_PAYMENT", "DEBT_CREATION"}
      /\ KnowsLegs(lt, q)
  BY <1>1, RemovedIs
<1>3. S = rows \union fees /\ q.rows = rows
  BY <1>1 DEF HeldRows
<1>4. lt \in [Txs -> Row] /\ lb \in [Accounts -> Int] /\ Framed
  <2>1. TypeOK /\ Framed
    BY FramedIs DEF Framed, RequestTypes
  <2>. QED
    BY <1>1, <2>1, LogicalIsTyped, LogicalBalanceTyped
<1>5. \A x \in Accounts : /\ lb[x] \in Int /\ Net(lt, rows, x) \in Int /\ FeesOn(lt, fees, x) \in Int
                          /\ logicalBalance'[x] = (lb[x] - Net(lt, rows, x)) + FeesOn(lt, fees, x)
  BY <1>1, RemovedBalance
<1>6. logicalBalance' = [x \in Accounts |-> (lb[x] - Net(lt, rows, x)) + FeesOn(lt, fees, x)]
  BY <1>5, LogicalFunctions
<1>7. CASE rows = {}
  <2>1. logicalTx' = lt
    BY <1>2, <1>3, <1>4, <1>7 DEF softDelete
  <2>2. \A x \in Accounts : Net(lt, rows, x) = 0 /\ FeesOn(lt, fees, x) = 0
    <3>1. \A x \in Accounts : Net(lt, {}, x) = 0
      BY NetOfDead
    <3>2. \A x \in Accounts : FeesOn(lt, {}, x) = Total(lt, {})
      BY DEF FeesOn
    <3>. QED
      BY <1>2, <1>7, <3>1, <3>2, TotalOfNone
  <2>3. \A x \in Accounts : logicalBalance'[x] = lb[x]
    BY <1>5, <2>2
  <2>4. logicalBalance' = lb
    BY <1>4, <2>3, LogicalFunctions
  <2>. QED
    BY <1>1, <1>2, <2>1, <2>4
<1>8. ASSUME NEW t \in Txs, rows = {t}, q.seen[t].group = NoTx
      PROVE  Atomic!RemoveTx(t, "none")
  <2>1. /\ lt[t].state = "live" /\ lt[t].group = NoTx /\ lt[t].account \in Accounts /\ lt[t] \in Row
        /\ lt[t].source \notin {"FEE", "DEBT_PAYMENT", "DEBT_CREATION"}
    BY <1>2, <1>3, <1>4, <1>8
  <2>2. PICK a, d, m : a = lt[t].account /\ d = balanceDelta(lt[t].type, lt[t].amount) /\ m = -d
    OBVIOUS
  <2>3. /\ a \in Accounts /\ d \in Int /\ m \in Int
        /\ \A x : Effect(lt[t], x) = IF a = x THEN d ELSE 0
    BY <2>1, <2>2, RowEffect
  <2>4. \A x \in Accounts : Net(lt, rows, x) = IF a = x THEN d ELSE 0
    BY <1>4, <1>8, <2>3, NetOfOne
  <2>5. \A x \in Accounts : (lb[x] - Net(lt, rows, x)) = adjustBalance(lb, a, m)[x]
    <3>. SUFFICES ASSUME NEW x \in Accounts PROVE (lb[x] - Net(lt, rows, x)) = adjustBalance(lb, a, m)[x]
      OBVIOUS
    <3>1. PICK l, n, k : l = lb[x] /\ n = Net(lt, rows, x) /\ k = adjustBalance(lb, a, m)[x]
      OBVIOUS
    <3>2. l \in Int /\ n = (IF a = x THEN d ELSE 0) /\ k = l + (IF a = x THEN m ELSE 0)
      BY <1>4, <2>3, <2>4, <3>1, AdjustAt
    <3>3. l - n = k
      BY ONLY <2>2, <2>3, <3>2
    <3>. QED
      BY <3>1, <3>3
  <2>6. logicalBalance' = [x \in Accounts |-> adjustBalance(lb, a, m)[x] + FeesOn(lt, fees, x)]
    BY <1>6, <2>5
  <2>7. /\ logicalTx' = Atomic!softDelete(logicalTx, {t} \union Atomic!feeCascade({t}))
        /\ logicalBalance' = Atomic!FeesRestored(
             Atomic!adjustBalance(logicalBalance, logicalTx[t].account,
                                  -Atomic!balanceDelta(logicalTx[t].type, logicalTx[t].amount)),
             Atomic!feeCascade({t}))
    <3>1. Atomic!feeCascade({t}) = fees
      BY <1>1, <1>2, <1>8, AtomicRows DEF Atomic!feeCascade
    <3>2. logicalTx' = Atomic!softDelete(logicalTx, {t} \union fees)
      BY <1>1, <1>2, <1>3, <1>8, AtomicRows
    <3>3. Atomic!adjustBalance(logicalBalance, logicalTx[t].account,
                -Atomic!balanceDelta(logicalTx[t].type, logicalTx[t].amount)) = adjustBalance(lb, a, m)
      BY <1>1, <2>2, AtomicData
    <3>4. Atomic!FeesRestored(adjustBalance(lb, a, m), fees)
            = [x \in Accounts |-> adjustBalance(lb, a, m)[x] + FeesOn(lt, fees, x)]
      BY <1>1, AtomicRows DEF Atomic!FeesRestored
    <3>. QED
      BY <2>6, <3>1, <3>2, <3>3, <3>4
  <2>. QED
    BY <1>1, <1>2, <2>1, <2>7 DEF Atomic!RemoveTx, Atomic!Removable, Atomic!accountVars
<1>9. ASSUME NEW g \in Txs, legsOf(lt, g) \subseteq rows, \A r \in rows : q.seen[r].group = g, rows # {}
      PROVE  \E t \in Txs : Atomic!RemoveTransfer(t)
  <2>1. PICK t \in rows : t \in Txs
    BY <1>2, <1>9
  <2>2. /\ lt[t].state = "live" /\ lt[t].group = g /\ g # NoTx
        /\ lt[t].source \notin {"FEE", "DEBT_PAYMENT", "DEBT_CREATION"}
    BY <1>2, <1>3, <1>9, <2>1, ReferenceAssumption
  <2>3. legsOf(lt, g) = rows
    BY <1>2, <1>3, <1>9 DEF legsOf, LiveRows
  <2>4. Atomic!transferLegs(t) = rows /\ Atomic!feeCascade(rows) = fees
    BY <1>1, <1>2, <2>2, <2>3, AtomicRows DEF Atomic!feeCascade, Atomic!transferLegs
  <2>5. logicalTx' = Atomic!softDelete(logicalTx, rows \union fees)
    BY <1>1, <1>2, <1>3, AtomicRows
  <2>6. logicalBalance' = Atomic!FeesRestored([x \in Accounts |-> logicalBalance[x] - Atomic!Net(logicalTx, rows, x)], fees)
    BY <1>1, <1>6, AtomicRows DEF Atomic!FeesRestored
  <2>7. Atomic!RemoveTransfer(t)
    BY <1>1, <1>2, <2>2, <2>4, <2>5, <2>6 DEF Atomic!RemoveTransfer, Atomic!Removable, Atomic!accountVars
  <2>. QED
    BY <2>1, <2>7
<1>. QED
  BY <1>2, <1>3, <1>7, <1>8, <1>9 DEF KnowsLegs
(* The balance of the atomic update, account by account.                   *)
LEMMA AtomicMoved ==
  ASSUME Framed, NEW t \in Txs, logicalTx[t].state = "live", logicalTx[t].account \in Accounts,
         NEW to \in Accounts, NEW n \in Amounts
  PROVE  /\ Atomic!MovedBalance(t, to, n) \in [Accounts -> Int]
         /\ \A x \in Accounts :
              /\ Effect(logicalTx[t], x) \in Int /\ Effect(Moved(logicalTx[t], to, n), x) \in Int
              /\ Atomic!MovedBalance(t, to, n)[x]
                   = (logicalBalance[x] - Effect(logicalTx[t], x)) + Effect(Moved(logicalTx[t], to, n), x)
<1>1. PICK r, lb, from, m, k, e :
        /\ r = logicalTx[t] /\ lb = logicalBalance /\ from = r.account
        /\ m = balanceDelta(r.type, r.amount) /\ k = -m /\ e = balanceDelta(r.type, n)
  OBVIOUS
<1>2. r \in Row /\ r.state = "live" /\ from \in Accounts /\ lb \in [Accounts -> Int]
  BY <1>1, LogicalRow, LogicalBalanceTyped DEF Framed, RequestTypes
<1>3. m \in Int /\ k \in Int /\ k = -m /\ e \in Int
  BY <1>1, <1>2, RowEffect, DeltaInt, AmountsInt
<1>4. \A x : /\ Effect(r, x) = (IF from = x THEN m ELSE 0)
             /\ Effect(Moved(r, to, n), x) = (IF to = x THEN e ELSE 0)
  BY <1>1, <1>2, RowEffect, MovedEffect
<1>5. PICK bal : bal = adjustBalance(adjustBalance(lb, from, k), to, e)
  OBVIOUS
<1>6. Atomic!MovedBalance(t, to, n) = bal
  BY <1>1, <1>5, AtomicData DEF Atomic!MovedBalance
<1>7. /\ bal \in [Accounts -> Int]
      /\ \A x \in Accounts : bal[x] = (lb[x] + (IF from = x THEN k ELSE 0)) + (IF to = x THEN e ELSE 0)
  <2>1. /\ lb \in [Accounts -> Int] /\ from \in Accounts /\ k \in Int /\ e \in Int
        /\ bal = adjustBalance(adjustBalance(lb, from, k), to, e)
    BY <1>2, <1>3, <1>5
  <2>. QED
    BY ONLY <2>1, TransferBalanceAt, to \in Accounts
<1>8. ASSUME NEW x \in Accounts
      PROVE  /\ Effect(r, x) \in Int /\ Effect(Moved(r, to, n), x) \in Int
             /\ bal[x] = (lb[x] - Effect(r, x)) + Effect(Moved(r, to, n), x)
  <2>1. PICK l, b, i, j : l = lb[x] /\ b = bal[x] /\ i = Effect(r, x) /\ j = Effect(Moved(r, to, n), x)
    OBVIOUS
  <2>2. /\ l \in Int /\ i = (IF from = x THEN m ELSE 0) /\ j = (IF to = x THEN e ELSE 0)
        /\ b = (l + (IF from = x THEN k ELSE 0)) + (IF to = x THEN e ELSE 0)
    BY <1>2, <1>4, <1>7, <2>1
  <2>3. i \in Int /\ j \in Int /\ b = (l - i) + j
    BY ONLY <1>3, <2>2
  <2>. QED
    BY <2>1, <2>3
<1>. QED
  BY <1>1, <1>6, <1>7, <1>8

LEMMA MovedAlone ==
  ASSUME RequestsInv, RequestsInv', outdated = {}, outdated' = {}, opening' = opening,
         NEW t \in Txs, \A u \in Txs \ {t} : logicalTx'[u] = logicalTx[u],
         logicalTx[t].state = "live", logicalTx[t].account \in Accounts,
         NEW to \in Accounts, NEW n \in Amounts, logicalTx'[t] = Moved(logicalTx[t], to, n)
  PROVE  logicalBalance' = Atomic!MovedBalance(t, to, n)
<1>1. PICK r, r2, bal, S : /\ r = logicalTx[t] /\ r2 = logicalTx'[t] /\ bal = Atomic!MovedBalance(t, to, n)
                           /\ S = {t}
  OBVIOUS
<1>2. /\ bal \in [Accounts -> Int]
      /\ \A x \in Accounts : /\ Effect(r, x) \in Int /\ Effect(r2, x) \in Int
                             /\ bal[x] = (logicalBalance[x] - Effect(r, x)) + Effect(r2, x)
  BY <1>1, AtomicMoved, FramedIs
<1>3. r \in Row /\ r2 \in Row
  <2>1. r \in Row
    BY <1>1, LogicalRow DEF RequestsInv, RequestTypes
  <2>2. r2 = Moved(r, to, n)
    BY <1>1
  <2>. QED
    BY <2>1, <2>2, MovedIs
<1>4. \A x \in Accounts : Net(logicalTx, S, x) = Effect(r, x) /\ Net(logicalTx', S, x) = Effect(r2, x)
  BY <1>1, <1>3, NetOfOne
<1>5. \A x \in Accounts : logicalBalance'[x] = (logicalBalance[x] - Net(logicalTx, S, x)) + Net(logicalTx', S, x)
  BY <1>1, LogicalMoves
<1>6. \A x \in Accounts : logicalBalance'[x] = bal[x]
  BY <1>2, <1>4, <1>5
<1>. QED
  BY <1>1, <1>2, <1>6, LogicalFunctions

LEMMA MovedBeside ==
  ASSUME RequestsInv, RequestsInv', outdated = {}, outdated' = {}, opening' = opening,
         NEW t \in Txs, NEW f \in Txs, t # f, \A u \in Txs \ {t, f} : logicalTx'[u] = logicalTx[u],
         logicalTx[t].state = "live", logicalTx[t].account \in Accounts, logicalTx' \in [Txs -> Row],
         NEW to \in Accounts, NEW n \in Amounts, logicalTx'[t] = Moved(logicalTx[t], to, n)
  PROVE  /\ Atomic!MovedBalance(t, to, n) \in [Accounts -> Int]
         /\ \A x \in Accounts :
              /\ Effect(logicalTx[f], x) \in Int /\ Effect(logicalTx'[f], x) \in Int
              /\ logicalBalance'[x] = (Atomic!MovedBalance(t, to, n)[x] - Effect(logicalTx[f], x))
                                        + Effect(logicalTx'[f], x)
<1>1. PICK r, r2, g, g2, bal, S :
        /\ r = logicalTx[t] /\ r2 = logicalTx'[t] /\ bal = Atomic!MovedBalance(t, to, n)
        /\ g = logicalTx[f] /\ g2 = logicalTx'[f] /\ S = {t, f}
  OBVIOUS
<1>2. /\ bal \in [Accounts -> Int]
      /\ \A x \in Accounts : bal[x] = (logicalBalance[x] - Effect(r, x)) + Effect(r2, x)
  BY <1>1, AtomicMoved, FramedIs
<1>3. logicalTx \in [Txs -> Row]
  BY LogicalIsTyped DEF RequestsInv, RequestTypes
<1>4. ASSUME NEW x \in Accounts
      PROVE  /\ Effect(g, x) \in Int /\ Effect(g2, x) \in Int
             /\ logicalBalance'[x] = (bal[x] - Effect(g, x)) + Effect(g2, x)
  <2>1. PICK l, l2, b, i, j, i2, j2 :
          /\ l = logicalBalance[x] /\ l2 = logicalBalance'[x] /\ b = bal[x]
          /\ i = Effect(r, x) /\ j = Effect(g, x) /\ i2 = Effect(r2, x) /\ j2 = Effect(g2, x)
    OBVIOUS
  <2>2. Net(logicalTx, S, x) = i + j /\ i \in Int /\ j \in Int
    BY <1>1, <1>3, <2>1, NetOfTwo
  <2>3. Net(logicalTx', S, x) = i2 + j2 /\ i2 \in Int /\ j2 \in Int
    BY <1>1, <2>1, NetOfTwo
  <2>4. l2 = (l - Net(logicalTx, S, x)) + Net(logicalTx', S, x) /\ l \in Int
    BY <1>1, <2>1, LogicalMoves
  <2>5. b = (l - i) + i2
    BY <1>2, <2>1
  <2>6. l2 = (l - (i + j)) + (i2 + j2)
    BY <2>2, <2>3, <2>4
  <2>7. l2 = (b - j) + j2
    <3>1. l \in Int
      BY <2>4
    <3>2. i \in Int /\ j \in Int /\ i2 \in Int /\ j2 \in Int
      BY <2>2, <2>3
    <3>. QED
      BY ONLY <2>5, <2>6, <3>1, <3>2
  <2>. QED
    BY <2>1, <2>2, <2>3, <2>7
<1>. QED
  BY <1>1, <1>2, <1>4
(* What the commit of an update writes, if nothing is outdated.            *)
UpdateKnown(q, t) ==
  /\ RequestsInv' /\ outdated = {} /\ UNCHANGED <<accountState, opening>>
  /\ logicalTx \in [Txs -> Row] /\ logicalTx' \in [Txs -> Row]
  /\ logicalTx[t].state = "live" /\ logicalTx[t].group = NoTx /\ logicalTx[t].account \in Accounts
  /\ logicalTx[t].source \notin {"FEE", "DEBT_PAYMENT", "DEBT_CREATION"}
  /\ q.to \in Accounts /\ accountState[q.to] = "live" /\ q.n \in Amounts
  /\ logicalTx'[t] = Moved(logicalTx[t], q.to, q.n)
  /\ \A u \in Txs \ ({t} \union q.fees) : logicalTx'[u] = logicalTx[u]
  /\ q.fees = {} \/ \E f \in Txs : q.fees = {f} /\ f # t
  /\ \A f \in q.fees :
       /\ logicalTx[f].state = "live" /\ logicalTx[f].feeFor = t /\ logicalTx[f].type = "EXPENSE"
       /\ logicalTx[f].account \in Accounts
       /\ \/ ~Charges(q) /\ logicalTx'[f] = deletedRow(logicalTx[f])
          \/ q.fee \in Amounts /\ logicalTx'[f] = Moved(logicalTx[f], q.to, q.fee)

LEMMA CommitKnows ==
  ASSUME RequestsInv, NEW w \in Workers, CommitUpdate(w), outdated' = {},
         NEW q, q = req[w], NEW t \in Txs, q.rows = {t}
  PROVE  UpdateKnown(q, t)
<1>1. PICK S : S = HeldRows(q)
  OBVIOUS
<1>2. UpdateCommitted(w, q, S, t)
  BY <1>1, CommittedUpdate
<1>3. /\ q.kind = "update" /\ UNCHANGED <<accountState, opening>> /\ outdated = {} /\ TypeOK'
      /\ Sound(tx, accountState, q) /\ q.fees \subseteq S /\ t \in S /\ S = {t} \union q.fees
      /\ q.to \in Accounts /\ q.n \in Amounts /\ (Charges(q) => q.fee \in Amounts)
      /\ q.fees \subseteq Txs /\ t \notin q.fees
  BY <1>2 DEF UpdateCommitted, Charges
<1>4. \A r \in S : logicalTx[r] = q.seen[r]
  BY <1>2 DEF UpdateCommitted
<1>5. /\ \A r \in S : logicalTx[r].state = "live" /\ logicalTx[r].account \in Accounts
      /\ logicalTx[t].source \notin {"FEE", "DEBT_PAYMENT", "DEBT_CREATION"}
      /\ \A f \in q.fees : logicalTx[f].feeFor = t
  BY <1>1, <1>3, <1>4 DEF Sound, KnowsRows
<1>6. logicalTx[t].group = NoTx /\ accountState[q.to] = "live"
  <2>1. Updating(accountState, q)
    BY <1>3 DEF Sound
  <2>2. q.seen[t].group = NoTx
    BY <2>1 DEF Updating
  <2>. QED
    BY <1>3, <1>4, <2>1, <2>2 DEF Updating
<1>7. /\ logicalTx'[t] = Moved(logicalTx[t], q.to, q.n)
      /\ \A u \in Txs \ S : logicalTx'[u] = logicalTx[u]
      /\ \A f \in q.fees : logicalTx[f].type = "EXPENSE"
      /\ Charges(q) => \A f \in q.fees : logicalTx'[f] = Moved(logicalTx[f], q.to, q.fee)
      /\ ~Charges(q) => \A f \in q.fees : logicalTx'[f] = deletedRow(logicalTx[f])
  BY <1>2 DEF UpdateCommitted
<1>8. q.fees = {} \/ \E f \in Txs : q.fees = {f} /\ f # t
  <2>1. \A f, g \in q.fees : f = g
    BY <1>2 DEF UpdateCommitted
  <2>. QED
    BY <1>3, <2>1
<1>9. logicalTx \in [Txs -> Row] /\ logicalTx' \in [Txs -> Row]
  <2>1. (TypeOK => logicalTx \in [Txs -> Row])'
    BY LogicalIsTyped, PTL
  <2>. QED
    BY <1>3, <2>1, LogicalIsTyped DEF RequestsInv, RequestTypes
<1>10. RequestsInv'
  BY CommitUpdateStep
<1>. QED
  BY <1>3, <1>5, <1>6, <1>7, <1>8, <1>9, <1>10 DEF UpdateKnown

AtomicUpdate ==
  \E t \in Txs, a \in Accounts, n \in Amounts :
    \/ Atomic!UpdateTx(t, a, n)
    \/ \E f \in Txs : Atomic!UpdateDropFee(t, f, a, n)
    \/ \E f \in Txs, fee \in Amounts : Atomic!UpdateChangeFee(t, f, a, n, fee) \/ Atomic!UpdateAddFee(t, f, a, n, fee)

LEMMA CommitUpdateImplements ==
  ASSUME RequestsInv, NEW w \in Workers, CommitUpdate(w), outdated' = {}
  PROVE  AtomicUpdate
<1>1. PICK q : q = req[w]
  OBVIOUS
<1>2. PICK t \in Txs : q.rows = {t}
  <2>1. req[w].kind = "update" /\ Sound(tx, accountState, req[w])
    BY FramedIs, SoundIs DEF CommitUpdate, Commit, At
  <2>. QED
    BY <1>1, <2>1 DEF Sound, Updating
<1>3. PICK a, n, fee : a = q.to /\ n = q.n /\ fee = q.fee
  OBVIOUS
<1>4. /\ RequestsInv' /\ outdated = {} /\ opening' = opening /\ accountState' = accountState
      /\ logicalTx \in [Txs -> Row] /\ logicalTx' \in [Txs -> Row]
      /\ logicalTx[t].state = "live" /\ logicalTx[t].group = NoTx /\ logicalTx[t].account \in Accounts
      /\ logicalTx[t].source \notin {"FEE", "DEBT_PAYMENT", "DEBT_CREATION"}
      /\ a \in Accounts /\ accountState[a] = "live" /\ n \in Amounts
      /\ logicalTx'[t] = Moved(logicalTx[t], a, n)
      /\ \A u \in Txs \ ({t} \union q.fees) : logicalTx'[u] = logicalTx[u]
      /\ q.fees = {} \/ \E f \in Txs : q.fees = {f} /\ f # t
      /\ \A f \in q.fees :
           /\ logicalTx[f].state = "live" /\ logicalTx[f].feeFor = t /\ logicalTx[f].type = "EXPENSE"
           /\ logicalTx[f].account \in Accounts
           /\ \/ logicalTx'[f] = deletedRow(logicalTx[f])
              \/ fee \in Amounts /\ logicalTx'[f] = Moved(logicalTx[f], a, fee)
  <2>1. RequestsInv /\ CommitUpdate(w) /\ outdated' = {}
    OBVIOUS
  <2>2. UpdateKnown(q, t)
    BY ONLY <1>1, <1>2, <2>1, CommitKnows, w \in Workers
  <2>. QED
    BY <1>3, <2>2 DEF UpdateKnown
<1>5. Atomic!Editable(t) /\ Atomic!AccountLive(a) /\ UNCHANGED Atomic!accountVars
  BY <1>4 DEF Atomic!Editable, Atomic!AccountLive, Atomic!accountVars
<1>6. \A u : Atomic!MovedRow(u, a, n) = Moved(logicalTx[u], a, n)
  BY DEF Atomic!MovedRow, Moved
<1>7. CASE q.fees = {}
  <2>1. \A u \in Txs \ {t} : logicalTx'[u] = logicalTx[u]
    BY <1>4, <1>7
  <2>2. logicalBalance' = Atomic!MovedBalance(t, a, n)
    BY <1>4, <2>1, MovedAlone
  <2>3. logicalTx' = [logicalTx EXCEPT ![t] = Moved(logicalTx[t], a, n)]
    BY <1>4, <2>1
  <2>4. Atomic!UpdateTx(t, a, n)
    BY <1>5, <1>6, <2>2, <2>3 DEF Atomic!UpdateTx
  <2>. QED
    BY <1>4, <2>4 DEF AtomicUpdate
<1>8. CASE q.fees # {}
  <2>1. PICK f \in Txs : q.fees = {f} /\ f # t
    BY <1>4, <1>8
  <2>2. PICK l, l2, mb : l = logicalTx[f] /\ l2 = logicalTx'[f] /\ mb = Atomic!MovedBalance(t, a, n)
    OBVIOUS
  <2>3. /\ l \in Row /\ l.state = "live" /\ l.feeFor = t /\ l.type = "EXPENSE" /\ l.account \in Accounts
        /\ l2 = deletedRow(l) \/ (fee \in Amounts /\ l2 = Moved(l, a, fee))
        /\ \A u \in Txs \ {t, f} : logicalTx'[u] = logicalTx[u]
    BY <1>4, <2>1, <2>2
  <2>4. /\ mb \in [Accounts -> Int]
        /\ \A x \in Accounts : /\ Effect(l, x) \in Int /\ Effect(l2, x) \in Int
                               /\ logicalBalance'[x] = (mb[x] - Effect(l, x)) + Effect(l2, x)
    BY <1>4, <2>1, <2>2, <2>3, MovedBeside
  <2>5. f \in Atomic!feeLinesOf(logicalTx, {t})
    BY <2>2, <2>3, AtomicRows DEF feeLinesOf, LiveRows
  <2>6. PICK g, c : g = l.account /\ c = l.amount
    OBVIOUS
  <2>7. c \in Int /\ g \in Accounts
    BY <2>3, <2>6, AmountsInt DEF Row
  <2>8. \A x : Effect(l, x) = IF g = x THEN -c ELSE 0
    BY <2>3, <2>6 DEF Effect, balanceDelta
  <2>9. CASE l2 = deletedRow(l)
    <3>1. \A x : Effect(l2, x) = 0
      BY <2>3, <2>9 DEF Effect, deletedRow, Row
    <3>2. ASSUME NEW x \in Accounts PROVE logicalBalance'[x] = mb[x] + (IF g = x THEN c ELSE 0)
      <4>1. PICK l1, b, i, j : l1 = logicalBalance'[x] /\ b = mb[x] /\ i = Effect(l, x) /\ j = Effect(l2, x)
        OBVIOUS
      <4>2. l1 = (b - i) + j /\ b \in Int /\ i = (IF g = x THEN -c ELSE 0) /\ j = 0
        BY <2>4, <2>8, <3>1, <4>1
      <4>3. l1 = b + (IF g = x THEN c ELSE 0)
        BY ONLY <2>7, <4>2
      <4>. QED
        BY <4>1, <4>3
    <3>3. logicalBalance' = adjustBalance(mb, g, c)
      <4>1. PICK lb : lb = logicalBalance'
        OBVIOUS
      <4>2. lb = [x \in Accounts |-> lb[x]] /\ \A x \in Accounts : lb[x] = mb[x] + (IF g = x THEN c ELSE 0)
        BY <3>2, <4>1, LogicalFunctions
      <4>3. lb = adjustBalance(mb, g, c)
        BY ONLY <2>4, <2>7, <4>2, AdjustedIs
      <4>. QED
        BY <4>1, <4>3
    <3>4. logicalTx' = [logicalTx EXCEPT ![t] = Moved(logicalTx[t], a, n), ![f] = deletedRow(logicalTx[f])]
      BY <1>4, <2>1, <2>2, <2>3, <2>9
    <3>5. Atomic!UpdateDropFee(t, f, a, n)
      BY <1>5, <1>6, <2>2, <2>5, <2>6, <3>3, <3>4, AtomicData, AtomicRows DEF Atomic!UpdateDropFee
    <3>. QED
      BY <1>4, <2>1, <3>5 DEF AtomicUpdate
  <2>10. CASE fee \in Amounts /\ l2 = Moved(l, a, fee)
    <3>1. PICK d : d = -fee /\ d \in Int
      BY <2>10, AmountsInt
    <3>2. \A x : Effect(l2, x) = IF a = x THEN d ELSE 0
      <4>1. \A x : Effect(Moved(l, a, fee), x) = IF l.state = "live" /\ a = x THEN balanceDelta(l.type, fee) ELSE 0
        BY <1>4, <2>3, <2>10, MovedEffect
      <4>. QED
        BY <2>3, <2>10, <3>1, <4>1 DEF balanceDelta
    <3>3. ASSUME NEW x \in Accounts
          PROVE  logicalBalance'[x] = (mb[x] + (IF g = x THEN c ELSE 0)) + (IF a = x THEN d ELSE 0)
      <4>1. PICK l1, b, i, j : l1 = logicalBalance'[x] /\ b = mb[x] /\ i = Effect(l, x) /\ j = Effect(l2, x)
        OBVIOUS
      <4>2. l1 = (b - i) + j /\ b \in Int /\ i = (IF g = x THEN -c ELSE 0) /\ j = (IF a = x THEN d ELSE 0)
        BY <2>4, <2>8, <3>2, <4>1
      <4>3. l1 = (b + (IF g = x THEN c ELSE 0)) + (IF a = x THEN d ELSE 0)
        BY ONLY <2>7, <3>1, <4>2
      <4>. QED
        BY <4>1, <4>3
    <3>4. logicalBalance' = adjustBalance(adjustBalance(mb, g, c), a, d)
      <4>1. PICK lb : lb = logicalBalance'
        OBVIOUS
      <4>2. /\ lb = [x \in Accounts |-> lb[x]]
            /\ \A x \in Accounts : lb[x] = (mb[x] + (IF g = x THEN c ELSE 0)) + (IF a = x THEN d ELSE 0)
        BY <3>3, <4>1, LogicalFunctions
      <4>3. mb \in [Accounts -> Int] /\ a \in Accounts /\ d \in Int /\ g \in Accounts /\ c \in Int
        BY <1>4, <2>4, <2>7, <3>1
      <4>4. lb = adjustBalance(adjustBalance(mb, g, c), a, d)
        <5>1. PICK bal3 : bal3 = adjustBalance(adjustBalance(mb, g, c), a, d)
          OBVIOUS
        <5>2. /\ bal3 \in [Accounts -> Int]
              /\ \A x \in Accounts : bal3[x] = (mb[x] + (IF g = x THEN c ELSE 0)) + (IF a = x THEN d ELSE 0)
          BY ONLY <4>3, <5>1, TransferBalanceAt
        <5>3. \A x \in Accounts : lb[x] = bal3[x]
          BY ONLY <4>2, <5>2
        <5>. QED
          BY ONLY <4>2, <5>1, <5>2, <5>3
      <4>. QED
        BY <4>1, <4>4
    <3>5. logicalTx' = [logicalTx EXCEPT ![t] = Moved(logicalTx[t], a, n), ![f] = Moved(logicalTx[f], a, fee)]
      BY <1>4, <2>1, <2>2, <2>3, <2>10
    <3>6. Atomic!MovedRow(f, a, fee) = Moved(logicalTx[f], a, fee)
      BY DEF Atomic!MovedRow, Moved
    <3>7. Atomic!UpdateChangeFee(t, f, a, n, fee)
      BY <1>5, <1>6, <2>2, <2>5, <2>6, <3>1, <3>4, <3>5, <3>6, AtomicData DEF Atomic!UpdateChangeFee
    <3>. QED
      BY <1>4, <2>1, <2>10, <3>7 DEF AtomicUpdate
  <2>. QED
    BY <2>3, <2>9, <2>10
<1>. QED
  BY <1>7, <1>8
(* What the commit that adds a fee line writes, if nothing is outdated.    *)
NewFeeKnown(q, t, f) ==
  /\ RequestsInv' /\ outdated = {} /\ UNCHANGED <<accountState, opening>>
  /\ logicalTx \in [Txs -> Row] /\ logicalTx' \in [Txs -> Row]
  /\ logicalTx[t].state = "live" /\ logicalTx[t].group = NoTx /\ logicalTx[t].account \in Accounts
  /\ logicalTx[t].source \notin {"FEE", "DEBT_PAYMENT", "DEBT_CREATION"}
  /\ q.to \in Accounts /\ accountState[q.to] = "live" /\ q.n \in Amounts /\ q.fee \in Amounts
  /\ logicalTx'[t] = Moved(logicalTx[t], q.to, q.n)
  /\ f # t /\ logicalTx[f] = NoRow /\ logicalTx'[f] = FeeRow(q.to, q.fee, t)
  /\ \A u \in Txs \ {t, f} : logicalTx'[u] = logicalTx[u]
  /\ FeeSlotFree(logicalTx, t)

LEMMA NewFeeKnows ==
  ASSUME RequestsInv, NEW w \in Workers, NEW f \in Txs, CommitUpdateNewFee(w, f), outdated' = {},
         NEW q, q = req[w], NEW t \in Txs, q.rows = {t}
  PROVE  NewFeeKnown(q, t, f)
<1>1. PICK S : S = {t, f}
  OBVIOUS
<1>2. NewFeeCommitted(w, q, S, t, f)
  <2>1. RequestsInv /\ CommitUpdateNewFee(w, f) /\ q = req[w] /\ q.rows = {t}
    OBVIOUS
  <2>. QED
    BY ONLY <1>1, <2>1, CommittedNewFee, w \in Workers, f \in Txs, t \in Txs
<1>3. /\ UNCHANGED <<accountState, opening>> /\ outdated = {} /\ Framed /\ TypeOK
      /\ Sound(tx, accountState, q) /\ q.kind = "update" /\ f # t /\ q.fees = {}
      /\ q.to \in Accounts /\ q.n \in Amounts /\ q.fee \in Amounts
      /\ logicalTx \in [Txs -> Row] /\ logicalTx' \in [Txs -> Row]
      /\ logicalTx'[t] = Moved(logicalTx[t], q.to, q.n)
      /\ logicalTx[f] = NoRow /\ logicalTx'[f] = FeeRow(q.to, q.fee, t)
      /\ \A u \in Txs \ S : logicalTx'[u] = logicalTx[u]
      /\ FeeSlotFree(tx, t) /\ logicalTx[t] = q.seen[t]
  BY <1>2 DEF NewFeeCommitted
<1>4. Updating(accountState, q) /\ HeldRows(q) = {t}
  BY <1>3 DEF Sound, HeldRows
<1>5. /\ logicalTx[t].state = "live" /\ logicalTx[t].account \in Accounts
      /\ logicalTx[t].source \notin {"FEE", "DEBT_PAYMENT", "DEBT_CREATION"}
  BY <1>3, <1>4 DEF Sound, KnowsRows
<1>6. logicalTx[t].group = NoTx /\ accountState[q.to] = "live"
  <2>1. q.seen[t].group = NoTx
    BY <1>4 DEF Updating
  <2>. QED
    BY <1>3, <1>4, <2>1 DEF Updating
<1>7. FeeSlotFree(logicalTx, t)
  <2>1. \A u \in Txs : SameRow(logicalTx[u], tx[u])
    BY <1>3, LogicalRow
  <2>. QED
    BY <1>3, <2>1 DEF FeeSlotFree, SameRow
<1>8. RequestsInv'
  BY CommitNewFeeStep
<1>. QED
  BY <1>1, <1>3, <1>5, <1>6, <1>7, <1>8 DEF NewFeeKnown

LEMMA CommitNewFeeImplements ==
  ASSUME RequestsInv, NEW w \in Workers, NEW f \in Txs, CommitUpdateNewFee(w, f), outdated' = {}
  PROVE  AtomicUpdate
<1>1. PICK q : q = req[w]
  OBVIOUS
<1>2. PICK t \in Txs : q.rows = {t}
  <2>1. req[w].kind = "update" /\ Sound(tx, accountState, req[w])
    BY FramedIs, SoundIs DEF CommitUpdateNewFee, Commit, At
  <2>. QED
    BY <1>1, <2>1 DEF Sound, Updating
<1>3. PICK a, n, fee, l : a = q.to /\ n = q.n /\ fee = q.fee /\ l = FeeRow(q.to, q.fee, t)
  OBVIOUS
<1>4. /\ RequestsInv' /\ outdated = {} /\ opening' = opening /\ accountState' = accountState
      /\ logicalTx \in [Txs -> Row] /\ logicalTx' \in [Txs -> Row]
      /\ logicalTx[t].state = "live" /\ logicalTx[t].group = NoTx /\ logicalTx[t].account \in Accounts
      /\ logicalTx[t].source \notin {"FEE", "DEBT_PAYMENT", "DEBT_CREATION"}
      /\ a \in Accounts /\ accountState[a] = "live" /\ n \in Amounts /\ fee \in Amounts
      /\ logicalTx'[t] = Moved(logicalTx[t], a, n)
      /\ f # t /\ logicalTx[f] = NoRow /\ logicalTx'[f] = l /\ l = FeeRow(a, fee, t)
      /\ \A u \in Txs \ {t, f} : logicalTx'[u] = logicalTx[u]
      /\ FeeSlotFree(logicalTx, t)
  <2>1. RequestsInv /\ CommitUpdateNewFee(w, f) /\ outdated' = {}
    OBVIOUS
  <2>2. NewFeeKnown(q, t, f)
    BY ONLY <1>1, <1>2, <2>1, NewFeeKnows, w \in Workers, f \in Txs
  <2>. QED
    BY <1>3, <2>2 DEF NewFeeKnown
<1>5. Atomic!Editable(t) /\ Atomic!AccountLive(a) /\ UNCHANGED Atomic!accountVars
  BY <1>4 DEF Atomic!Editable, Atomic!AccountLive, Atomic!accountVars
<1>6. Atomic!MovedRow(t, a, n) = Moved(logicalTx[t], a, n) /\ Atomic!FeeRow(a, fee, t) = l
  BY <1>4 DEF Atomic!MovedRow, Moved, Atomic!FeeRow, FeeRow, Atomic!LiveRow, LiveRow
<1>7. Atomic!Fresh(f) /\ Atomic!FeeSlotFree(logicalTx, t)
  BY <1>4, EmptyRows, AtomicRows DEF Atomic!Fresh
<1>8. PICK mb, d : mb = Atomic!MovedBalance(t, a, n) /\ d = -fee
  OBVIOUS
<1>9. /\ mb \in [Accounts -> Int]
      /\ \A x \in Accounts : logicalBalance'[x] = (mb[x] - Effect(logicalTx[f], x)) + Effect(logicalTx'[f], x)
  BY <1>4, <1>8, MovedBeside
<1>10. fee \in Int /\ d \in Int
  BY <1>4, <1>8, AmountsInt
<1>11. /\ \A x : Effect(logicalTx[f], x) = 0
       /\ \A x : Effect(logicalTx'[f], x) = IF a = x THEN d ELSE 0
  <2>1. \A x : Effect(l, x) = IF x = a THEN -fee ELSE 0
    BY <1>4, <1>10, EffectOfFee
  <2>. QED
    BY <1>4, <1>8, <2>1, EmptyRows DEF Effect
<1>12. ASSUME NEW x \in Accounts PROVE logicalBalance'[x] = mb[x] + (IF a = x THEN d ELSE 0)
  <2>1. PICK l1, b, i, j : l1 = logicalBalance'[x] /\ b = mb[x] /\ i = Effect(logicalTx[f], x) /\ j = Effect(logicalTx'[f], x)
    OBVIOUS
  <2>2. l1 = (b - i) + j /\ b \in Int /\ i = 0 /\ j = (IF a = x THEN d ELSE 0) /\ d \in Int
    BY <1>9, <1>10, <1>11, <2>1
  <2>3. l1 = b + (IF a = x THEN d ELSE 0)
    BY ONLY <2>2
  <2>. QED
    BY <2>1, <2>3
<1>13. logicalBalance' = adjustBalance(mb, a, d)
  <2>1. PICK lb : lb = logicalBalance'
    OBVIOUS
  <2>2. lb = [x \in Accounts |-> lb[x]] /\ \A x \in Accounts : lb[x] = mb[x] + (IF a = x THEN d ELSE 0)
    BY <1>12, <2>1, LogicalFunctions
  <2>3. mb \in [Accounts -> Int] /\ a \in Accounts /\ d \in Int
    BY <1>4, <1>9, <1>10
  <2>4. lb = adjustBalance(mb, a, d)
    BY ONLY <2>2, <2>3, AdjustedIs
  <2>. QED
    BY <2>1, <2>4
<1>14. logicalTx' = [logicalTx EXCEPT ![t] = Moved(logicalTx[t], a, n), ![f] = l]
  BY <1>4
<1>15. Atomic!UpdateAddFee(t, f, a, n, fee)
  BY <1>4, <1>5, <1>6, <1>7, <1>8, <1>13, <1>14, AtomicData DEF Atomic!UpdateAddFee
<1>. QED
  BY <1>4, <1>15 DEF AtomicUpdate
LEMMA AtomicSteps ==
  /\ \A a \in Accounts, o \in Openings : Atomic!CreateAccount(a, o) => AtomicStep
  /\ \A t \in Txs, a \in Accounts, type \in Types, n \in Amounts, s \in EntrySources :
       Atomic!CreateTx(t, a, type, n, s) => AtomicStep
  /\ \A t \in Txs, f \in Txs, a \in Accounts, type \in Types, n \in Amounts, fee \in Amounts :
       Atomic!CreateTxWithFee(t, f, a, type, n, fee) => AtomicStep
  /\ \A out \in Txs, in \in Txs, from \in Accounts, to \in Accounts, n \in Amounts :
       Atomic!Transfer(out, in, from, to, n) => AtomicStep
  /\ \A out \in Txs, in \in Txs, f \in Txs, from \in Accounts, to \in Accounts, n \in Amounts, fee \in Amounts :
       Atomic!TransferWithFee(out, in, f, from, to, n, fee) => AtomicStep
  /\ AtomicUpdate => AtomicStep
  /\ \A t \in Txs : Atomic!RemoveTx(t, "none") \/ Atomic!RemoveTransfer(t) => AtomicStep
<1>1. Atomic!Amounts = Amounts /\ Atomic!Types = Types
  BY AtomicRows
<1>2. Atomic!Next => AtomicStep
  BY DEF AtomicStep
<1>3. ASSUME NEW a \in Accounts, NEW o \in Openings, Atomic!CreateAccount(a, o)
      PROVE  Atomic!Next
  BY <1>3 DEF Atomic!Next
<1>4. ASSUME NEW t \in Txs, NEW a \in Accounts, NEW type \in Types, NEW n \in Amounts, NEW s \in EntrySources,
             Atomic!CreateTx(t, a, type, n, s)
      PROVE  Atomic!Next
  BY <1>1, <1>4 DEF Atomic!Next
<1>5. ASSUME NEW t \in Txs, NEW f \in Txs, NEW a \in Accounts, NEW type \in Types, NEW n \in Amounts,
             NEW fee \in Amounts, Atomic!CreateTxWithFee(t, f, a, type, n, fee)
      PROVE  Atomic!Next
  BY <1>1, <1>5 DEF Atomic!Next
<1>6. ASSUME NEW out \in Txs, NEW in \in Txs, NEW from \in Accounts, NEW to \in Accounts, NEW n \in Amounts,
             Atomic!Transfer(out, in, from, to, n)
      PROVE  Atomic!Next
  BY <1>1, <1>6 DEF Atomic!Next
<1>7. ASSUME NEW out \in Txs, NEW in \in Txs, NEW f \in Txs, NEW from \in Accounts, NEW to \in Accounts,
             NEW n \in Amounts, NEW fee \in Amounts, Atomic!TransferWithFee(out, in, f, from, to, n, fee)
      PROVE  Atomic!Next
  BY <1>1, <1>7 DEF Atomic!Next
<1>8. ASSUME AtomicUpdate PROVE Atomic!Next
  <2>1. PICK t \in Txs, a \in Accounts, n \in Amounts :
          \/ Atomic!UpdateTx(t, a, n)
          \/ \E f \in Txs : Atomic!UpdateDropFee(t, f, a, n)
          \/ \E f \in Txs, fee \in Amounts : Atomic!UpdateChangeFee(t, f, a, n, fee) \/ Atomic!UpdateAddFee(t, f, a, n, fee)
    BY <1>8 DEF AtomicUpdate
  <2>2. CASE Atomic!UpdateTx(t, a, n)
    BY <1>1, <2>2 DEF Atomic!Next
  <2>3. CASE \E f \in Txs : Atomic!UpdateDropFee(t, f, a, n)
    BY <1>1, <2>3 DEF Atomic!Next
  <2>4. CASE \E f \in Txs, fee \in Amounts : Atomic!UpdateChangeFee(t, f, a, n, fee)
    BY <1>1, <2>4 DEF Atomic!Next
  <2>5. CASE \E f \in Txs, fee \in Amounts : Atomic!UpdateAddFee(t, f, a, n, fee)
    BY <1>1, <2>5 DEF Atomic!Next
  <2>. QED
    BY <2>1, <2>2, <2>3, <2>4, <2>5
<1>9. ASSUME NEW t \in Txs, Atomic!RemoveTx(t, "none") \/ Atomic!RemoveTransfer(t)
      PROVE  Atomic!Next
  BY <1>9 DEF Atomic!Next
<1>. QED
  BY <1>2, <1>3, <1>4, <1>5, <1>6, <1>7, <1>8, <1>9

LEMMA RequestsImplement ==
  ASSUME RequestsInv, RequestsNext, outdated' = {}
  PROVE  AtomicStep \/ UNCHANGED <<accountState, opening, logicalBalance, logicalTx>>
<1>. DEFINE Implemented == AtomicStep \/ UNCHANGED <<accountState, opening, logicalBalance, logicalTx>>
<1>1. ASSUME NEW a \in Accounts, NEW o \in Openings, CreateAccount(a, o) /\ Stays
      PROVE  Implemented
  BY <1>1, CreateAccountStep, AtomicSteps
<1>2. ASSUME NEW t \in Txs, NEW a \in Accounts, NEW type \in Types, NEW n \in BookedAmounts,
             NEW s \in EntrySources, CreateTx(t, a, type, n, s) /\ Stays
      PROVE  Implemented
  BY <1>2, CreateTxStep, NewRowTypes, AtomicSteps
<1>3. ASSUME NEW t \in Txs, NEW f \in Txs, NEW a \in Accounts, NEW type \in Types,
             NEW n \in BookedAmounts, NEW fee \in BookedAmounts,
             CreateTxWithFee(t, f, a, type, n, fee) /\ Stays
      PROVE  Implemented
  BY <1>3, CreateTxWithFeeStep, NewRowTypes, AtomicSteps
<1>4. ASSUME NEW out \in Txs, NEW in \in Txs, NEW from \in Accounts, NEW to \in Accounts,
             NEW n \in BookedAmounts, Transfer(out, in, from, to, n) /\ Stays
      PROVE  Implemented
  BY <1>4, TransferStep, NewRowTypes, AtomicSteps
<1>5. ASSUME NEW out \in Txs, NEW in \in Txs, NEW f \in Txs, NEW from \in Accounts, NEW to \in Accounts,
             NEW n \in BookedAmounts, NEW fee \in BookedAmounts,
             TransferWithFee(out, in, f, from, to, n, fee) /\ Stays
      PROVE  Implemented
  BY <1>5, TransferWithFeeStep, NewRowTypes, AtomicSteps
<1>6. ASSUME NEW w \in Workers, NEW t \in Txs, BeginRemove(w, t)
      PROVE  Implemented
  BY <1>6, BeginRemoveStep
<1>7. ASSUME NEW w \in Workers, NEW t \in Txs, NEW a \in Accounts, NEW n \in Amounts,
             NEW fee \in {Omitted, 0} \union BookedAmounts, BeginUpdate(w, t, a, n, fee)
      PROVE  Implemented
  BY <1>7, BeginUpdateStep
<1>8. ASSUME NEW w \in Workers, NEW a \in Accounts, NEW actual \in Openings, BeginReconcile(w, a, actual)
      PROVE  Implemented
  BY <1>8, BeginReconcileStep
<1>9. ASSUME NEW w \in Workers, ReadLegs(w)
      PROVE  Implemented
  BY <1>9, ReadLegsStep
<1>10. ASSUME NEW w \in Workers, LockRow(w)
      PROVE  Implemented
  BY <1>10, LockRowStep
<1>11. ASSUME NEW w \in Workers, ReadFees(w)
      PROVE  Implemented
  BY <1>11, ReadFeesStep
<1>12. ASSUME NEW w \in Workers, Enter(w)
      PROVE  Implemented
  BY <1>12, EnterStep
<1>13. ASSUME NEW w \in Workers, DeleteRows(w)
      PROVE  Implemented
  BY <1>13, DeleteRowsImplements, AtomicSteps
<1>14. ASSUME NEW w \in Workers, CommitRemove(w)
      PROVE  Implemented
  BY <1>14, CommitRemoveStep
<1>15. ASSUME NEW w \in Workers, CommitUpdate(w)
      PROVE  Implemented
  BY <1>15, CommitUpdateImplements, AtomicSteps
<1>16. ASSUME NEW w \in Workers, Fail(w)
      PROVE  Implemented
  BY <1>16, FailStep
<1>17. ASSUME NEW w \in Workers, NEW t \in Txs, DeleteFee(w, t)
      PROVE  Implemented
  BY <1>17, DeleteFeeStep
<1>18. ASSUME NEW w \in Workers, NEW t \in Txs, CommitUpdateNewFee(w, t)
      PROVE  Implemented
  BY <1>18, CommitNewFeeImplements, AtomicSteps
<1>19. ASSUME NEW w \in Workers, NEW t \in Txs, CommitReconcile(w, t)
      PROVE  Implemented
  BY <1>19, CommitReconcileStep
<1>. HIDE DEF Implemented
<1>20. Implemented
  BY <1>1, <1>2, <1>3, <1>4, <1>5, <1>6, <1>7, <1>8, <1>9, <1>10, <1>11, <1>12, <1>13, <1>14,
     <1>15, <1>16, <1>17, <1>18, <1>19 DEF RequestsNext
<1>. QED
  BY <1>20 DEF Implemented

LEMMA AtomicStart == RequestsInit => Atomic!Init
<1>. SUFFICES ASSUME RequestsInit PROVE Atomic!Init
  OBVIOUS
<1>1. /\ accountState = [a \in Accounts |-> "none"] /\ opening = [a \in Accounts |-> 0]
      /\ balance = [a \in Accounts |-> 0] /\ tx = [t \in Txs |-> NoRow]
      /\ req = [w \in Workers |-> Idle] /\ outdated = {}
  BY DEF RequestsInit, Init
<1>2. logicalTx = [t \in Txs |-> NoRow]
  BY <1>1, IdleIs DEF logicalTx, InFlight
<1>3. logicalBalance = [a \in Accounts |-> 0]
  BY <1>1, IdleIs DEF logicalBalance, Reverses, At
<1>. QED
  BY <1>1, <1>2, <1>3, AtomicRows DEF Atomic!Init

(* While no request has acted on an outdated read or died after a delete,  *)
(* the database accesses of any number of concurrent requests amount to    *)
(* the atomic handlers of Ledger, one after the other: every access is one *)
(* of those handlers in full, or changes nothing the ledger shows.         *)
THEOREM RequestsImplementLedger == RequestsSpec => ImplementsLedger
<1>1. UNCHANGED <<accountState, opening, logicalBalance, logicalTx>> => Atomic!vars' = Atomic!vars
  BY DEF Atomic!vars
<1>2. RequestsInv /\ RequestsNext /\ outdated' = {} /\ Atomic!vars' # Atomic!vars => AtomicStep
  BY <1>1, RequestsImplement
<1>3. RequestsInv /\ [RequestsNext]_requestsVars
        => [outdated' = {} /\ Atomic!vars' # Atomic!vars => AtomicStep]_requestsVars
  BY <1>2
<1>. QED
  BY AtomicStart, RequestsInductive, <1>3, PTL DEF RequestsSpec, ImplementsLedger
-----------------------------------------------------------------------------
(* Sums over finite sets. *)

Any(T) == CHOOSE x \in T : TRUE

IsSum(f, S, g) ==
  g = [T \in SUBSET S |-> IF T = {} THEN 0 ELSE f[Any(T)] + g[T \ {Any(T)}]]

SumOf(f, S) == (CHOOSE g : IsSum(f, S, g))[S]

(* The sum of the community modules, as it is used here.                   *)
LEMMA SumOfIs == \A f, S : SumFunctionOnSet(f, S) = SumOf(f, S)
  BY DEF SumFunctionOnSet, FoldFunctionOnSet, MapThenFoldSet, SumOf, IsSum, Any

LEMMA SumFunctionIs == ASSUME NEW f, NEW S, S = DOMAIN f PROVE SumFunction(f) = SumOf(f, S)
  BY SumOfIs DEF SumFunction

(* Any element of a set is one of its elements.                            *)
LEMMA AnyIn == \A T : T # {} => Any(T) \in T
  BY DEF Any

(* A non-empty family of subsets of a finite set has a smallest one.       *)
LEMMA SubsetOrder ==
  ASSUME NEW S, IsFiniteSet(S), NEW B \in SUBSET SUBSET S, B # {}
  PROVE  \E T \in B : \A U \in B : U \subseteq T => U = T
<1>1. IsWellFoundedOn(StrictSubsetOrdering(S), FiniteSubsetsOf(S)) /\ FiniteSubsetsOf(S) = SUBSET S
  BY FS_StrictSubsetOrderingWellFounded, FS_FiniteSubsetsOfFinite
<1>2. PICK T \in B : \A U \in B : ~ (<<U, T>> \in StrictSubsetOrdering(S))
  <2>1. IsWellFoundedOn(StrictSubsetOrdering(S), SUBSET S) /\ B \subseteq SUBSET S /\ B # {}
    BY <1>1
  <2>. QED
    BY ONLY <2>1, WFMin
<1>3. ASSUME NEW U \in B, U \subseteq T PROVE U = T
  BY <1>2, <1>3 DEF StrictSubsetOrdering
<1>. QED
  BY <1>2, <1>3

(* What holds of the empty set and stays so when an element is added.      *)
LEMMA SubsetInduction ==
  ASSUME NEW S, IsFiniteSet(S), NEW P, {} \in P,
         \A T \in SUBSET S, x \in S : T \in P /\ x \notin T => T \union {x} \in P
  PROVE  \A T \in SUBSET S : T \in P
<1>. DEFINE B == {T \in SUBSET S : T \notin P}
<1>1. SUFFICES ASSUME B # {} PROVE FALSE
  OBVIOUS
<1>2. PICK T \in B : \A U \in B : U \subseteq T => U = T
  <2>1. B \in SUBSET SUBSET S /\ B # {} /\ IsFiniteSet(S)
    BY <1>1
  <2>. HIDE DEF B
  <2>. QED
    BY ONLY <2>1, SubsetOrder
<1>3. PICK x \in T : TRUE
  BY <1>2
<1>4. T \ {x} \in P
  BY <1>2, <1>3
<1>5. (T \ {x}) \union {x} = T
  BY <1>3
<1>. QED
  BY <1>2, <1>3, <1>4, <1>5

(* Two sums of the same elements agree on every subset they share.         *)
LEMMA SumsAreUnique ==
  ASSUME NEW S, IsFiniteSet(S), NEW U \in SUBSET S, NEW f, NEW f2, \A x \in U : f[x] = f2[x],
         NEW g, IsSum(f, S, g), NEW g2, IsSum(f2, U, g2)
  PROVE  \A T \in SUBSET U : g[T] = g2[T]
<1>. DEFINE P == {T \in SUBSET U : g[T] # g2[T]}
<1>1. SUFFICES ASSUME P # {} PROVE FALSE
  OBVIOUS
<1>2. PICK T \in P : \A V \in P : V \subseteq T => V = T
  <2>1. P \in SUBSET SUBSET U /\ P # {} /\ IsFiniteSet(U)
    BY <1>1, FS_Subset
  <2>. HIDE DEF P
  <2>. QED
    BY ONLY <2>1, SubsetOrder
<1>3. /\ \A V \in SUBSET S : g[V] = IF V = {} THEN 0 ELSE f[Any(V)] + g[V \ {Any(V)}]
      /\ \A V \in SUBSET U : g2[V] = IF V = {} THEN 0 ELSE f2[Any(V)] + g2[V \ {Any(V)}]
  BY DEF IsSum
<1>4. T # {} /\ T \in SUBSET S
  BY <1>2, <1>3
<1>5. PICK x \in T : x = Any(T)
  BY <1>4, AnyIn
<1>6. g[T \ {x}] = g2[T \ {x}]
  BY <1>2, <1>5
<1>7. g[T] = f[x] + g[T \ {x}] /\ g2[T] = f2[x] + g2[T \ {x}] /\ f[x] = f2[x]
  BY <1>2, <1>3, <1>4, <1>5
<1>. QED
  BY <1>2, <1>6, <1>7

(* The recursive equation of a sum has a solution.                         *)
LEMMA SumsExist ==
  ASSUME NEW S, IsFiniteSet(S), NEW f
  PROVE  \E g : IsSum(f, S, g)
<1>. DEFINE B == {T \in SUBSET S : ~ \E g : IsSum(f, T, g)}
<1>1. SUFFICES ASSUME B # {} PROVE FALSE
  OBVIOUS
<1>2. PICK T \in B : \A U \in B : U \subseteq T => U = T
  <2>1. B \in SUBSET SUBSET S /\ B # {} /\ IsFiniteSet(S)
    BY <1>1
  <2>. HIDE DEF B
  <2>. QED
    BY ONLY <2>1, SubsetOrder
<1>. DEFINE of(U) == CHOOSE g : IsSum(f, U, g)
<1>3. ASSUME NEW U \in SUBSET T, U # T PROVE IsSum(f, U, of(U)) /\ IsFiniteSet(U)
  <2>1. \E g : IsSum(f, U, g)
    BY <1>2, <1>3
  <2>. QED
    BY <1>2, <2>1, FS_Subset
<1>. HIDE DEF of
<1>4. ASSUME NEW U \in SUBSET T, U # T, U # {} PROVE of(U)[U] = f[Any(U)] + of(U \ {Any(U)})[U \ {Any(U)}]
  <2>1. PICK x, V : x = Any(U) /\ x \in U /\ V = U \ {x}
    BY <1>4, AnyIn
  <2>2. V \in SUBSET T /\ V # T /\ V \in SUBSET U
    BY <1>4, <2>1
  <2>3. IsSum(f, U, of(U)) /\ IsSum(f, V, of(V)) /\ IsFiniteSet(U)
    BY <1>3, <1>4, <2>2
  <2>4. of(U)[V] = of(V)[V]
    BY <2>2, <2>3, SumsAreUnique
  <2>5. of(U)[U] = f[x] + of(U)[V]
    BY <1>4, <2>1, <2>3 DEF IsSum
  <2>. QED
    BY <2>1, <2>4, <2>5
<1>. DEFINE below == [U \in SUBSET T |-> IF U # T THEN of(U)[U] ELSE 0]
            h == [U \in SUBSET T |-> IF U = {} THEN 0 ELSE f[Any(U)] + below[U \ {Any(U)}]]
<1>5. ASSUME NEW U \in SUBSET T, U # T PROVE h[U] = below[U]
  <2>1. CASE U = {}
    <3>1. of({})[{}] = 0
      BY <1>3, <1>5, <2>1 DEF IsSum
    <3>. QED
      BY <1>5, <2>1, <3>1
  <2>2. CASE U # {}
    <3>1. Any(U) \in U
      BY <2>2, AnyIn
    <3>2. U \ {Any(U)} \in SUBSET T /\ U \ {Any(U)} # T
      BY <1>5, <3>1
    <3>. QED
      BY <1>4, <1>5, <2>2, <3>2
  <2>. QED
    BY <2>1, <2>2
<1>6. h = [U \in SUBSET T |-> IF U = {} THEN 0 ELSE f[Any(U)] + h[U \ {Any(U)}]]
  <2>1. ASSUME NEW U \in SUBSET T, U # {} PROVE h[U \ {Any(U)}] = below[U \ {Any(U)}]
    <3>1. Any(U) \in U
      BY <2>1, AnyIn
    <3>2. U \ {Any(U)} \in SUBSET T /\ U \ {Any(U)} # T
      BY <2>1, <3>1
    <3>. QED
      BY <1>5, <3>2
  <2>2. \A U \in SUBSET T : h[U] = IF U = {} THEN 0 ELSE f[Any(U)] + h[U \ {Any(U)}]
    BY <2>1
  <2>3. h = [U \in SUBSET T |-> h[U]]
    OBVIOUS
  <2>. HIDE DEF h, below
  <2>. QED
    BY <2>2, <2>3
<1>7. IsSum(f, T, h)
  BY <1>6 DEF IsSum
<1>. HIDE DEF h
<1>. QED
  BY <1>2, <1>7

(* The equation of a sum.                                                  *)
LEMMA SumIs ==
  ASSUME NEW S, IsFiniteSet(S), NEW f
  PROVE  /\ SumOf(f, {}) = 0
         /\ S # {} => SumOf(f, S) = f[Any(S)] + SumOf(f, S \ {Any(S)})
<1>. DEFINE of(U) == CHOOSE g : IsSum(f, U, g)
<1>1. \A U \in SUBSET S : IsSum(f, U, of(U)) /\ SumOf(f, U) = of(U)[U] /\ IsFiniteSet(U)
  BY SumsExist, FS_Subset DEF SumOf
<1>. HIDE DEF of
<1>2. SumOf(f, {}) = 0
  BY <1>1 DEF IsSum
<1>3. ASSUME S # {} PROVE SumOf(f, S) = f[Any(S)] + SumOf(f, S \ {Any(S)})
  <2>1. PICK V : V = S \ {Any(S)}
    OBVIOUS
  <2>2. IsSum(f, S, of(S)) /\ IsSum(f, V, of(V)) /\ V \in SUBSET S
    BY <1>1, <2>1
  <2>3. of(S)[V] = of(V)[V]
    BY <2>2, SumsAreUnique
  <2>4. of(S)[S] = f[Any(S)] + of(S)[V]
    BY <1>3, <2>1, <2>2 DEF IsSum
  <2>. QED
    BY <1>1, <2>1, <2>2, <2>3, <2>4
<1>. QED
  BY <1>2, <1>3

(* A sum of integers is an integer.                                        *)
LEMMA SumInt ==
  ASSUME NEW S, IsFiniteSet(S), NEW f, \A x \in S : f[x] \in Int
  PROVE  SumOf(f, S) \in Int
<1>. DEFINE B == {T \in SUBSET S : SumOf(f, T) \notin Int}
<1>1. SUFFICES ASSUME B # {} PROVE FALSE
  OBVIOUS
<1>2. PICK T \in B : \A U \in B : U \subseteq T => U = T
  <2>1. B \in SUBSET SUBSET S /\ B # {} /\ IsFiniteSet(S)
    BY <1>1
  <2>. HIDE DEF B
  <2>. QED
    BY ONLY <2>1, SubsetOrder
<1>3. IsFiniteSet(T)
  BY <1>2, FS_Subset
<1>4. T # {}
  <2>1. SumOf(f, {}) = 0
    BY SumIs
  <2>. QED
    BY <1>2, <2>1
<1>5. PICK x \in T : x = Any(T)
  BY <1>4, AnyIn
<1>6. SumOf(f, T) = f[x] + SumOf(f, T \ {x}) /\ SumOf(f, T \ {x}) \in Int /\ f[x] \in Int
  BY <1>2, <1>3, <1>4, <1>5, SumIs
<1>7. SumOf(f, T) \in Int
  BY <1>6
<1>. QED
  BY <1>2, <1>7

(* The order of a sum does not matter.                                     *)
LEMMA SumWithout ==
  ASSUME NEW S, IsFiniteSet(S), NEW f, \A x \in S : f[x] \in Int, NEW z \in S
  PROVE  SumOf(f, S) = f[z] + SumOf(f, S \ {z})
<1>. DEFINE B == {T \in SUBSET S : \E x \in T : SumOf(f, T) # f[x] + SumOf(f, T \ {x})}
<1>1. SUFFICES ASSUME B # {} PROVE FALSE
  OBVIOUS
<1>2. PICK T \in B : \A U \in B : U \subseteq T => U = T
  <2>1. B \in SUBSET SUBSET S /\ B # {} /\ IsFiniteSet(S)
    BY <1>1
  <2>. HIDE DEF B
  <2>. QED
    BY ONLY <2>1, SubsetOrder
<1>3. PICK x \in T : SumOf(f, T) # f[x] + SumOf(f, T \ {x})
  BY <1>2
<1>4. PICK c \in T : c = Any(T)
  BY <1>3, AnyIn
<1>5. SumOf(f, T) = f[c] + SumOf(f, T \ {c})
  BY <1>2, <1>3, <1>4, SumIs, FS_Subset
<1>6. x # c
  BY <1>3, <1>5
<1>7. PICK U, V, W : U = T \ {c} /\ V = T \ {x} /\ W = (T \ {c}) \ {x}
  OBVIOUS
<1>8. U \in SUBSET S /\ V \in SUBSET S /\ W \in SUBSET S /\ U \subseteq T /\ V \subseteq T
      /\ U # T /\ V # T /\ x \in U /\ c \in V /\ W = U \ {x} /\ W = V \ {c}
  BY <1>2, <1>6, <1>7
<1>9. SumOf(f, U) = f[x] + SumOf(f, W) /\ SumOf(f, V) = f[c] + SumOf(f, W)
  BY <1>2, <1>8
<1>10. f[x] \in Int /\ f[c] \in Int /\ SumOf(f, W) \in Int
  <2>1. IsFiniteSet(W) /\ \A y \in W : f[y] \in Int
    BY <1>8, FS_Subset
  <2>. QED
    BY <1>2, <2>1, SumInt
<1>. QED
  BY <1>3, <1>5, <1>7, <1>9, <1>10

(* A sum with one element more.                                            *)
LEMMA SumAdd ==
  ASSUME NEW S, IsFiniteSet(S), NEW z, z \notin S, NEW f, \A x \in S \union {z} : f[x] \in Int
  PROVE  /\ SumOf(f, S \union {z}) = SumOf(f, S) + f[z]
         /\ SumOf(f, S) \in Int /\ SumOf(f, S \union {z}) \in Int /\ f[z] \in Int
<1>1. PICK T : T = S \union {z}
  OBVIOUS
<1>2. IsFiniteSet(T) /\ z \in T /\ T \ {z} = S
  BY <1>1, FS_AddElement
<1>3. SumOf(f, T) = f[z] + SumOf(f, S)
  BY <1>1, <1>2, SumWithout
<1>4. SumOf(f, S) \in Int /\ f[z] \in Int /\ SumOf(f, T) \in Int
  BY <1>1, <1>2, SumInt
<1>. QED
  BY <1>1, <1>3, <1>4

(* A sum depends on its set only.                                          *)
LEMMA SumSame ==
  ASSUME NEW S, IsFiniteSet(S), NEW f, NEW f2, \A x \in S : f[x] = f2[x]
  PROVE  SumOf(f, S) = SumOf(f2, S)
<1>1. PICK g, g2 : g = (CHOOSE h : IsSum(f, S, h)) /\ g2 = (CHOOSE h : IsSum(f2, S, h))
  OBVIOUS
<1>2. IsSum(f, S, g) /\ IsSum(f2, S, g2)
  BY <1>1, SumsExist
<1>3. g[S] = g2[S]
  BY <1>2, SumsAreUnique
<1>. QED
  BY <1>1, <1>3 DEF SumOf

(* Sums over disjoint sets add up.                                         *)
LEMMA SumUnion ==
  ASSUME NEW S, IsFiniteSet(S), NEW R, IsFiniteSet(R), R \cap S = {}, NEW f,
         \A x \in R \union S : f[x] \in Int
  PROVE  SumOf(f, R \union S) = SumOf(f, R) + SumOf(f, S)
<1>. DEFINE P == {T \in SUBSET S : SumOf(f, R \union T) = SumOf(f, R) + SumOf(f, T)}
<1>1. SumOf(f, R) \in Int
  BY SumInt
<1>2. {} \in P
  <2>1. SumOf(f, {}) = 0 /\ R \union {} = R
    BY SumIs
  <2>. QED
    BY <1>1, <2>1
<1>3. ASSUME NEW T \in SUBSET S, NEW x \in S, T \in P, x \notin T PROVE T \union {x} \in P
  <2>1. PICK U : U = R \union T
    OBVIOUS
  <2>2. IsFiniteSet(T) /\ IsFiniteSet(U) /\ x \notin U /\ R \union (T \union {x}) = U \union {x}
    BY <1>3, <2>1, FS_Subset, FS_Union
  <2>3. SumOf(f, U \union {x}) = SumOf(f, U) + f[x] /\ f[x] \in Int
    BY <1>3, <2>1, <2>2, SumAdd
  <2>4. SumOf(f, T \union {x}) = SumOf(f, T) + f[x] /\ SumOf(f, T) \in Int
    BY <1>3, <2>2, SumAdd
  <2>5. SumOf(f, U) = SumOf(f, R) + SumOf(f, T)
    BY <1>3, <2>1
  <2>6. SumOf(f, U \union {x}) = SumOf(f, R) + SumOf(f, T \union {x})
    BY <1>1, <2>3, <2>4, <2>5
  <2>. QED
    BY <1>3, <2>2, <2>6
<1>4. S \in P
  <2>1. IsFiniteSet(S) /\ {} \in P /\ \A T \in SUBSET S, x \in S : T \in P /\ x \notin T => T \union {x} \in P
    BY <1>2, <1>3
  <2>. HIDE DEF P
  <2>2. \A T \in SUBSET S : T \in P
    BY ONLY <2>1, SubsetInduction
  <2>. QED
    BY <2>2
<1>. QED
  BY <1>4

(* Sums are linear.                                                        *)
LEMMA SumLinear ==
  ASSUME NEW S, IsFiniteSet(S), NEW f, NEW g, NEW h, NEW k \in Int,
         \A x \in S : f[x] \in Int /\ g[x] \in Int /\ h[x] = f[x] + k * g[x]
  PROVE  SumOf(h, S) = SumOf(f, S) + k * SumOf(g, S)
<1>. DEFINE P == {T \in SUBSET S : SumOf(h, T) = SumOf(f, T) + k * SumOf(g, T)}
<1>1. {} \in P
  <2>1. SumOf(h, {}) = 0 /\ SumOf(f, {}) = 0 /\ SumOf(g, {}) = 0
    BY SumIs
  <2>. QED
    BY <2>1
<1>2. ASSUME NEW T \in SUBSET S, NEW x \in S, T \in P, x \notin T PROVE T \union {x} \in P
  <2>1. IsFiniteSet(T) /\ \A y \in S : h[y] \in Int
    BY FS_Subset
  <2>2. PICK a, b, c, i, j, l : /\ a = SumOf(f, T) /\ b = SumOf(g, T) /\ c = SumOf(h, T)
                                /\ i = f[x] /\ j = g[x] /\ l = h[x]
    OBVIOUS
  <2>3. SumOf(f, T \union {x}) = a + i /\ a \in Int /\ i \in Int
    BY <1>2, <2>1, <2>2, SumAdd
  <2>4. SumOf(g, T \union {x}) = b + j /\ b \in Int /\ j \in Int
    BY <1>2, <2>1, <2>2, SumAdd
  <2>5. SumOf(h, T \union {x}) = c + l /\ c = a + k * b /\ l = i + k * j
    BY <1>2, <2>1, <2>2, SumAdd
  <2>6. k * (b + j) = k * b + k * j /\ k * b \in Int /\ k * j \in Int
    BY ONLY <2>4, k \in Int
  <2>7. PICK kb, kj : kb = k * b /\ kj = k * j
    OBVIOUS
  <2>8. c + l = (a + i) + (kb + kj)
    BY <2>3, <2>5, <2>6, <2>7
  <2>. QED
    BY <1>2, <2>3, <2>4, <2>5, <2>6, <2>7, <2>8
<1>3. S \in P
  <2>1. IsFiniteSet(S) /\ {} \in P /\ \A T \in SUBSET S, x \in S : T \in P /\ x \notin T => T \union {x} \in P
    BY <1>1, <1>2
  <2>. HIDE DEF P
  <2>2. \A T \in SUBSET S : T \in P
    BY ONLY <2>1, SubsetInduction
  <2>. QED
    BY <2>2
<1>. QED
  BY <1>3

(* Elements filed under keys: the sum over the keys of what is filed under *)
(* each.                                                                   *)
KeptUnder(S, key, k) == {x \in S : key[x] = k}

LEMMA SumByKey ==
  ASSUME NEW K, IsFiniteSet(K), NEW S, IsFiniteSet(S), NEW f, \A x \in S : f[x] \in Int,
         NEW key, \A x \in S : key[x] \in K,
         NEW h, \A k \in K : h[k] = SumOf(f, KeptUnder(S, key, k))
  PROVE  SumOf(h, K) = SumOf(f, S)
<1>. USE DEF KeptUnder
<1>. DEFINE P == {T \in SUBSET K : SumOf(h, T) = SumOf(f, {x \in S : key[x] \in T})}
<1>1. {} \in P
  <2>1. SumOf(h, {}) = 0 /\ SumOf(f, {}) = 0 /\ {x \in S : key[x] \in {}} = {}
    BY SumIs
  <2>. QED
    BY <2>1
<1>2. ASSUME NEW T \in SUBSET K, NEW k \in K, T \in P, k \notin T PROVE T \union {k} \in P
  <2>1. PICK A, B : A = {x \in S : key[x] \in T} /\ B = {x \in S : key[x] = k}
    OBVIOUS
  <2>2. /\ A \in SUBSET S /\ B \in SUBSET S /\ IsFiniteSet(A) /\ IsFiniteSet(B) /\ A \cap B = {}
        /\ A \union B = {x \in S : key[x] \in T \union {k}} /\ IsFiniteSet(T)
    BY <1>2, <2>1, FS_Subset
  <2>3. SumOf(f, A \union B) = SumOf(f, A) + SumOf(f, B)
    BY <2>2, SumUnion
  <2>4. \A j \in K : h[j] \in Int
    <3>1. \A j \in K : SumOf(f, {x \in S : key[x] = j}) \in Int
      <4>1. ASSUME NEW j \in K PROVE SumOf(f, {x \in S : key[x] = j}) \in Int
        <5>1. PICK C : C = {x \in S : key[x] = j}
          OBVIOUS
        <5>2. IsFiniteSet(C) /\ \A x \in C : f[x] \in Int
          BY <5>1, FS_Subset
        <5>. QED
          BY <5>1, <5>2, SumInt
      <4>. QED
        BY <4>1
    <3>. QED
      BY <3>1
  <2>5. SumOf(h, T \union {k}) = SumOf(h, T) + h[k]
    <3>1. IsFiniteSet(T) /\ k \notin T /\ \A x \in T \union {k} : h[x] \in Int
      BY <1>2, <2>2, <2>4
    <3>. QED
      BY ONLY <3>1, SumAdd
  <2>6. SumOf(h, T) = SumOf(f, A) /\ h[k] = SumOf(f, B)
    BY <1>2, <2>1
  <2>. QED
    BY <1>2, <2>2, <2>3, <2>5, <2>6
<1>3. K \in P
  <2>1. IsFiniteSet(K) /\ {} \in P /\ \A T \in SUBSET K, x \in K : T \in P /\ x \notin T => T \union {x} \in P
    BY <1>1, <1>2
  <2>. HIDE DEF P
  <2>2. \A T \in SUBSET K : T \in P
    BY ONLY <2>1, SubsetInduction
  <2>. QED
    BY <2>2
<1>4. {x \in S : key[x] \in K} = S
  OBVIOUS
<1>. QED
  BY <1>3, <1>4

(* |x| <= b / 2 *)
Near(x, b) == 2 * x <= b /\ -b <= 2 * x

(* Errors add up.                                                          *)
LEMMA NearAdds ==
  ASSUME NEW x \in Int, NEW y \in Int, NEW b \in Int, NEW c \in Int, Near(x, b), Near(y, c)
  PROVE  Near(x + y, b + c)
  BY DEF Near

(* Every element is near: the sums are, once per element of D.             *)
LEMMA SumNear ==
  ASSUME NEW S, IsFiniteSet(S), NEW D, NEW f, NEW d \in Nat,
         \A x \in S : f[x] \in Int /\ Near(f[x], IF x \in D THEN d ELSE 0)
  PROVE  Near(SumOf(f, S), d * Cardinality(S \cap D))
<1>. DEFINE P == {T \in SUBSET S : Near(SumOf(f, T), d * Cardinality(T \cap D))}
<1>1. {} \in P
  <2>1. SumOf(f, {}) = 0 /\ {} \cap D = {} /\ Cardinality({}) = 0 /\ d * 0 = 0
    BY SumIs, FS_EmptySet
  <2>2. Near(0, 0)
    BY DEF Near
  <2>. QED
    BY <2>1, <2>2
<1>2. ASSUME NEW T \in SUBSET S, NEW x \in S, T \in P, x \notin T PROVE T \union {x} \in P
  <2>1. PICK C, n, a, i : C = T \cap D /\ n = Cardinality(C) /\ a = SumOf(f, T) /\ i = f[x]
    OBVIOUS
  <2>2. IsFiniteSet(T) /\ IsFiniteSet(C) /\ n \in Nat /\ x \notin C
    <3>1. IsFiniteSet(T)
      BY <1>2, FS_Subset
    <3>2. IsFiniteSet(C)
      BY <2>1, <3>1, FS_Subset
    <3>. QED
      BY <1>2, <2>1, <3>1, <3>2, FS_CardinalityType
  <2>3. SumOf(f, T \union {x}) = a + i /\ a \in Int /\ i \in Int
    <3>1. IsFiniteSet(T) /\ x \notin T /\ \A y \in T \union {x} : f[y] \in Int
      BY <1>2, <2>2
    <3>. QED
      BY ONLY <2>1, <3>1, SumAdd
  <2>4. Near(a, d * n)
    BY <1>2, <2>1
  <2>5. d * n \in Int
    BY <2>2
  <2>6. CASE x \in D
    <3>1. (T \union {x}) \cap D = C \union {x} /\ Cardinality(C \union {x}) = n + 1
      <4>1. Cardinality(C \union {x}) = Cardinality(C) + 1
        BY ONLY <2>2, FS_AddElement
      <4>. QED
        BY <2>1, <2>6, <4>1
    <3>2. Near(i, d)
      BY <2>1, <2>6
    <3>3. Near(a + i, d * n + d)
      BY <2>3, <2>4, <2>5, <3>2, NearAdds
    <3>4. d * n + d = d * (n + 1)
      BY ONLY <2>2, d \in Nat
    <3>. QED
      BY <1>2, <2>3, <3>1, <3>3, <3>4
  <2>7. CASE x \notin D
    <3>1. (T \union {x}) \cap D = C
      BY <2>1, <2>7
    <3>2. Near(i, 0)
      BY <2>1, <2>7
    <3>3. Near(a + i, d * n + 0)
      BY <2>3, <2>4, <2>5, <3>2, NearAdds
    <3>4. d * n + 0 = d * n
      BY <2>5
    <3>. QED
      BY <1>2, <2>1, <2>3, <3>1, <3>3, <3>4
  <2>. QED
    BY <2>6, <2>7
<1>3. S \in P
  <2>1. IsFiniteSet(S) /\ {} \in P /\ \A T \in SUBSET S, x \in S : T \in P /\ x \notin T => T \union {x} \in P
    BY <1>1, <1>2
  <2>. HIDE DEF P
  <2>2. \A T \in SUBSET S : T \in P
    BY ONLY <2>1, SubsetInduction
  <2>. QED
    BY <2>2
<1>. QED
  BY <1>3

(* A sum of zeros is zero.                                                 *)
LEMMA SumZero ==
  ASSUME NEW S, IsFiniteSet(S), NEW f, \A x \in S : f[x] = 0
  PROVE  SumOf(f, S) = 0
<1>1. \A x \in S : f[x] \in Int /\ Near(f[x], IF x \in {} THEN 0 ELSE 0)
  BY DEF Near
<1>2. Near(SumOf(f, S), 0 * Cardinality(S \cap {}))
  BY ONLY <1>1, IsFiniteSet(S), 0 \in Nat, SumNear
<1>3. Cardinality(S \cap {}) = 0 /\ 0 * 0 = 0
  <2>1. S \cap {} = {}
    OBVIOUS
  <2>. QED
    BY <2>1, FS_EmptySet
<1>4. SumOf(f, S) \in Int
  BY <1>1, SumInt
<1>. QED
  BY <1>2, <1>3, <1>4 DEF Near

(* The sum of two elements.                                                *)
LEMMA SumOfTwo ==
  ASSUME NEW t, NEW u, t # u, NEW f, f[t] \in Int, f[u] \in Int
  PROVE  SumOf(f, {t, u}) = f[t] + f[u]
<1>1. IsFiniteSet({t}) /\ IsFiniteSet({}) /\ {} \union {t} = {t} /\ {t} \union {u} = {t, u}
  BY FS_Singleton, FS_EmptySet
<1>2. SumOf(f, {} \union {t}) = SumOf(f, {}) + f[t]
  BY <1>1, SumAdd
<1>3. SumOf(f, {t} \union {u}) = SumOf(f, {t}) + f[u]
  BY <1>1, SumAdd
<1>4. SumOf(f, {}) = 0
  BY <1>1, SumIs
<1>. QED
  BY <1>1, <1>2, <1>3, <1>4

(* The amounts the database sums are the sum of the rows' amounts.         *)
LEMMA TotalIs ==
  ASSUME NEW rows \in [Txs -> Row], NEW f, \A t \in Txs : f[t] = rows[t].amount,
         NEW S \in SUBSET Txs
  PROVE  Total(rows, S) = SumOf(f, S) /\ IsFiniteSet(S) /\ Total(rows, S) \in Nat
<1>. DEFINE P == {T \in SUBSET S : Total(rows, T) = SumOf(f, T)}
<1>1. IsFiniteSet(S) /\ \A t \in S : f[t] \in Int /\ rows[t].amount \in 0..MaxAmountMinor
  <2>1. IsFiniteSet(S) /\ 0..MaxAmountMinor \subseteq Int
    BY FiniteRows, FS_Subset, AmountsInt
  <2>2. \A t \in S : rows[t].amount \in 0..MaxAmountMinor
    BY DEF Row
  <2>. QED
    BY <2>1, <2>2
<1>2. {} \in P
  <2>1. Total(rows, {}) = 0 /\ SumOf(f, {}) = 0
    BY TotalOfNone, SumIs, FS_EmptySet
  <2>. QED
    BY <2>1
<1>3. ASSUME NEW T \in SUBSET S, NEW t \in S, T \in P, t \notin T PROVE T \union {t} \in P
  <2>1. IsFiniteSet(T) /\ T \in SUBSET Txs /\ {t} \in SUBSET Txs /\ T \cap {t} = {}
    BY <1>1, <1>3, FS_Subset
  <2>2. Total(rows, T \union {t}) = Total(rows, T) + Total(rows, {t})
    BY <2>1, TotalUnion
  <2>3. Total(rows, {t}) = f[t]
    BY <1>1, TotalOfOne
  <2>4. SumOf(f, T \union {t}) = SumOf(f, T) + f[t]
    <3>1. \A x \in T \union {t} : f[x] \in Int
      BY <1>1
    <3>. QED
      BY ONLY <1>3, <2>1, <3>1, SumAdd
  <2>5. Total(rows, T) = SumOf(f, T)
    BY <1>3
  <2>. QED
    BY <1>3, <2>2, <2>3, <2>4, <2>5
<1>4. S \in P
  <2>1. IsFiniteSet(S) /\ {} \in P /\ \A T \in SUBSET S, x \in S : T \in P /\ x \notin T => T \union {x} \in P
    BY <1>1, <1>2, <1>3
  <2>. HIDE DEF P
  <2>2. \A T \in SUBSET S : T \in P
    BY ONLY <2>1, SubsetInduction
  <2>. QED
    BY <2>2
<1>. QED
  BY <1>1, <1>4, TotalNat

-----------------------------------------------------------------------------
(* Conversions *)

(* A number from its quotient and remainder.                               *)
LEMMA DivMod ==
  ASSUME NEW n \in Nat, NEW d \in Nat \ {0}
  PROVE  /\ n \div d \in Nat /\ n % d \in Nat /\ n % d < d
         /\ n = (d * (n \div d)) + (n % d)
<1>1. n % d \in Nat /\ n % d < d
  OBVIOUS
<1>2. n \div d \in Int
  OBVIOUS
<1>3. n = (d * (n \div d)) + (n % d)
  OBVIOUS
<1>4. n \div d >= 0
  OBVIOUS
<1>. QED
  BY <1>1, <1>2, <1>3, <1>4

(* A rounded quotient is at most half a unit from the exact one.           *)
LEMMA RoundsToNearest ==
  ASSUME NEW n \in Int, NEW d \in Nat \ {0}
  PROVE  bankersRoundDiv(n, d) \in Int /\ Near(d * bankersRoundDiv(n, d) - n, d)
<1>1. PICK size : size = (IF n < 0 THEN -n ELSE n)
  OBVIOUS
<1>2. size \in Nat
  BY <1>1
<1>3. PICK q, r, odd : q = size \div d /\ r = size % d /\ odd = q % 2
  OBVIOUS
<1>4. q \in Nat /\ r \in Nat /\ r < d /\ size = d * q + r
  BY <1>2, <1>3, DivMod
<1>5. PICK result : result = (IF 2 * r > d \/ (2 * r = d /\ odd = 1) THEN q + 1 ELSE q)
  OBVIOUS
<1>6. bankersRoundDiv(n, d) = IF n < 0 THEN -result ELSE result
  BY <1>1, <1>3, <1>5 DEF bankersRoundDiv
<1>7. PICK dq : dq = d * q
  OBVIOUS
<1>8. dq \in Int /\ d * (q + 1) = dq + d
  BY <1>4, <1>7
<1>9. result \in Int /\ Near(d * result - size, d)
  <2>1. CASE 2 * r > d \/ (2 * r = d /\ odd = 1)
    <3>1. result = q + 1 /\ d * result = dq + d /\ size = dq + r
      BY <1>4, <1>5, <1>7, <1>8, <2>1
    <3>. QED
      BY <1>4, <1>8, <2>1, <3>1 DEF Near
  <2>2. CASE ~ (2 * r > d \/ (2 * r = d /\ odd = 1))
    <3>1. result = q /\ d * result = dq /\ size = dq + r
      BY <1>4, <1>5, <1>7, <2>2
    <3>. QED
      BY <1>4, <1>8, <2>2, <3>1 DEF Near
  <2>. QED
    BY <2>1, <2>2
<1>10. PICK dr : dr = d * result
  OBVIOUS
<1>11. dr \in Int /\ d * (-result) = -dr
  BY <1>9, <1>10
<1>12. CASE n < 0
  BY <1>1, <1>2, <1>6, <1>9, <1>10, <1>11, <1>12 DEF Near
<1>13. CASE ~ n < 0
  BY <1>1, <1>6, <1>9, <1>13
<1>. QED
  BY <1>12, <1>13

RateOk(rate) == rate.num \in Nat \ {0} /\ rate.den \in Nat \ {0}

(* Rates are positive fractions.                                           *)
LEMMA UsableIsOk == \A rate \in UsableRates : RateOk(rate)
<1>1. \A rate \in UsableRates : rate \in UNION RateTables
  BY DEF UsableRates, resolveRate
<1>. QED
  BY <1>1, ReportsAssumption DEF RateOk

(* A converted amount is exact in the base currency, and else at most half *)
(* a unit off.                                                             *)
LEMMA ConvertIs ==
  ASSUME NEW n \in Int, NEW c \in Currencies, NEW rate, RateOk(rate)
  PROVE  /\ convert(n, c, rate) \in Int /\ Exact(n, c, rate) \in Int
         /\ Near(rate.den * convert(n, c, rate) - Exact(n, c, rate),
                 IF c = Foreign THEN rate.den ELSE 0)
<1>1. PICK p, d : p = rate.num /\ d = rate.den
  OBVIOUS
<1>2. p \in Nat \ {0} /\ d \in Nat \ {0}
  BY <1>1 DEF RateOk
<1>3. CASE c = Base
  <2>1. convert(n, c, rate) = n /\ Exact(n, c, rate) = n * d /\ c # Foreign
    BY <1>1, <1>3, ReportsAssumption DEF convert, Exact
  <2>2. n * d \in Int /\ d * n - n * d = 0
    BY ONLY <1>2, n \in Int
  <2>. QED
    BY <1>1, <2>1, <2>2 DEF Near
<1>4. CASE c # Base
  <2>1. c = Foreign
    BY <1>4 DEF Currencies
  <2>2. convert(n, c, rate) = bankersRoundDiv(n * p, d) /\ Exact(n, c, rate) = n * p
    BY <1>1, <1>4 DEF convert, Exact
  <2>3. PICK m : m = n * p
    OBVIOUS
  <2>4. m \in Int
    BY ONLY <1>2, <2>3, n \in Int
  <2>5. bankersRoundDiv(m, d) \in Int /\ Near(d * bankersRoundDiv(m, d) - m, d)
    BY <1>2, <2>4, RoundsToNearest
  <2>. QED
    BY <1>1, <2>1, <2>2, <2>3, <2>4, <2>5
<1>. QED
  BY <1>3, <1>4

-----------------------------------------------------------------------------
(* The rows of a report *)

AccountsUsed == {a \in Accounts : accountState[a] # "none"}

(* Only finitely many accounts were ever created.                          *)
ReportsInv == IInv /\ IsFiniteSet(AccountsUsed)

(* What a live row is.                                                     *)
LEMMA LiveRowIs ==
  ASSUME IInv
  PROVE  /\ tx \in [Txs -> Row] /\ LiveRows(tx) \in SUBSET Txs
         /\ \A t \in LiveRows(tx) :
              /\ tx[t].account \in LiveAccounts /\ tx[t].amount \in Int
              /\ tx[t].type \in Types /\ tx[t].group \in Txs \union {NoTx} /\ tx[t].source \in Sources
<1>1. tx \in [Txs -> Row] /\ LiveRows(tx) \in SUBSET Txs
  BY DEF IInv, Structure, TypeOK, LiveRows
<1>2. ASSUME NEW t \in LiveRows(tx)
      PROVE  /\ tx[t].account \in LiveAccounts /\ tx[t].amount \in Int
             /\ tx[t].type \in Types /\ tx[t].group \in Txs \union {NoTx} /\ tx[t].source \in Sources
  <2>1. tx[t] \in Row /\ tx[t].state # "none" /\ t \in Txs
    BY <1>1, <1>2 DEF LiveRows
  <2>2. tx[t].account \in Accounts /\ AccountLive(tx[t].account)
    BY <1>2, <2>1 DEF IInv, Structure, Provenance, InsertedRows, RowsOnLiveAccounts
  <2>3. tx[t].amount \in Int
    BY <2>1, AmountsInt DEF Row
  <2>. QED
    BY <2>1, <2>2, <2>3 DEF LiveAccounts, Row
<1>. QED
  BY <1>1, <1>2

(* A sum over the live accounts is one over a finite set.                  *)
LEMMA LiveAccountsFinite == ASSUME ReportsInv PROVE IsFiniteSet(LiveAccounts)
<1>1. LiveAccounts \in SUBSET AccountsUsed
  BY DEF LiveAccounts, AccountsUsed, AccountLive
<1>. QED
  BY <1>1, FS_Subset DEF ReportsInv

(* The exact value of an amount is linear in it.                           *)
LEMMA ExactIs ==
  ASSUME NEW rate, RateOk(rate), NEW c
  PROVE  \E w \in Int : \A n \in Int : Exact(n, c, rate) = n * w /\ Exact(n, c, rate) \in Int
<1>1. PICK w : w = (IF c = Base THEN rate.den ELSE rate.num)
  OBVIOUS
<1>2. w \in Int
  BY <1>1 DEF RateOk
<1>3. ASSUME NEW n \in Int PROVE Exact(n, c, rate) = n * w /\ Exact(n, c, rate) \in Int
  <2>1. Exact(n, c, rate) = n * w
    BY <1>1 DEF Exact
  <2>. QED
    BY <1>2, <2>1
<1>. QED
  BY <1>2, <1>3

(* A factor comes out of a sum.                                            *)
LEMMA SumTimes ==
  ASSUME NEW S, IsFiniteSet(S), NEW f, NEW g, NEW k \in Int, \A x \in S : f[x] \in Int /\ g[x] = f[x] * k
  PROVE  SumOf(g, S) = SumOf(f, S) * k /\ SumOf(f, S) \in Int
<1>. DEFINE zero == [x \in S |-> 0]
<1>1. \A x \in S : zero[x] \in Int /\ f[x] \in Int /\ g[x] = zero[x] + k * f[x]
  BY k \in Int
<1>2. SumOf(zero, S) = 0
  BY SumZero
<1>. HIDE DEF zero
<1>3. SumOf(g, S) = SumOf(zero, S) + k * SumOf(f, S)
  BY ONLY <1>1, k \in Int, IsFiniteSet(S), SumLinear
<1>4. SumOf(f, S) \in Int
  BY SumInt
<1>. QED
  BY <1>2, <1>3, <1>4

(* A consolidated sum is at most half a unit from the exact one.           *)
LEMMA ConsolidateIs ==
  ASSUME IInv, NEW cur \in [Accounts -> Currencies], NEW rate, RateOk(rate),
         NEW S \in SUBSET LiveRows(tx),
         NEW x, \A t \in LiveRows(tx) : x[t] = Exact(tx[t].amount, cur[tx[t].account], rate)
  PROVE  /\ consolidateToBase(S, cur, rate) \in Int
         /\ Near(rate.den * consolidateToBase(S, cur, rate) - SumOf(x, S), rate.den)
         /\ SumOf(x, S) \in Int
<1>1. PICK B, F, f, p, d : /\ B = In(S, cur, Base) /\ F = In(S, cur, Foreign)
                           /\ f = [t \in Txs |-> tx[t].amount] /\ p = rate.num /\ d = rate.den
  OBVIOUS
<1>2. p \in Nat \ {0} /\ d \in Nat \ {0}
  BY <1>1 DEF RateOk
<1>3. \A t \in S : tx[t].account \in Accounts /\ tx[t].amount \in Int
  BY LiveRowIs DEF LiveAccounts
<1>4. B \in SUBSET S /\ F \in SUBSET S /\ B \cap F = {} /\ B \union F = S
  <2>1. \A t \in S : cur[tx[t].account] = Base \/ cur[tx[t].account] = Foreign
    BY <1>3 DEF Currencies
  <2>. QED
    BY <1>1, <2>1, ReportsAssumption DEF In
<1>5. tx \in [Txs -> Row] /\ S \in SUBSET Txs /\ B \in SUBSET Txs /\ F \in SUBSET Txs
  BY <1>4, LiveRowIs
<1>6. \A t \in Txs : f[t] = tx[t].amount
  BY <1>1
<1>7. PICK b, v : b = Total(tx, B) /\ v = Total(tx, F)
  OBVIOUS
<1>8. b = SumOf(f, B) /\ IsFiniteSet(B) /\ b \in Nat
  BY <1>5, <1>6, <1>7, TotalIs
<1>9. v = SumOf(f, F) /\ IsFiniteSet(F) /\ v \in Nat
  BY <1>5, <1>6, <1>7, TotalIs
<1>10. SumOf(x, B) = b * d
  <2>1. \A t \in B : f[t] \in Int /\ x[t] = f[t] * d
    BY <1>1, <1>3, <1>4, <1>6, <1>5 DEF In, Exact
  <2>. QED
    BY <1>2, <1>8, <2>1, SumTimes
<1>11. SumOf(x, F) = v * p
  <2>1. \A t \in F : f[t] \in Int /\ x[t] = f[t] * p
    BY <1>1, <1>3, <1>4, <1>6, <1>5, ReportsAssumption DEF In, Exact
  <2>. QED
    BY <1>2, <1>9, <2>1, SumTimes
<1>12. SumOf(x, S) = SumOf(x, B) + SumOf(x, F)
  <2>1. \A t \in S : x[t] \in Int
    BY <1>3, ExactIs
  <2>. QED
    BY <1>4, <1>8, <1>9, <2>1, SumUnion
<1>13. PICK m, r, e : m = v * p /\ r = bankersRoundDiv(m, d) /\ e = d * r
  OBVIOUS
<1>14. m \in Int /\ r \in Int /\ Near(d * r - m, d)
  <2>1. m \in Int
    BY <1>2, <1>9, <1>13
  <2>. QED
    BY <1>2, <1>13, <2>1, RoundsToNearest
<1>15. consolidateToBase(S, cur, rate) = b + r
  BY <1>1, <1>7, <1>13, ReportsAssumption DEF consolidateToBase, convert
<1>16. d * (b + r) = (b * d) + e /\ b * d \in Int /\ e \in Int
  BY ONLY <1>2, <1>8, <1>13, <1>14
<1>17. PICK bd : bd = b * d
  OBVIOUS
<1>18. Near((bd + e) - (bd + m), d)
  BY <1>2, <1>13, <1>14, <1>16, <1>17 DEF Near
<1>. QED
  BY <1>1, <1>8, <1>10, <1>11, <1>12, <1>13, <1>14, <1>15, <1>16, <1>17, <1>18

(* The legs of transfers cancel, leg by leg.                               *)
LEMMA PairsCancel ==
  ASSUME IInv, NEW Z \in SUBSET LiveRows(tx), NEW f,
         \A t \in Z : tx[t].group # NoTx /\ legsOf(tx, tx[t].group) \subseteq Z /\ f[t] \in Int,
         \A t, u \in Z : tx[t].group = tx[u].group /\ tx[t].type # tx[u].type
                           /\ tx[t].amount = tx[u].amount => f[t] + f[u] = 0
  PROVE  SumOf(f, Z) = 0
<1>1. PICK key : key = [t \in Txs |-> tx[t].group]
  OBVIOUS
<1>2. PICK h : h = [g \in Txs |-> SumOf(f, {t \in Z : key[t] = g})]
  OBVIOUS
<1>3. Z \in SUBSET Txs /\ IsFiniteSet(Z) /\ IsFiniteSet(Txs) /\ \A t \in Z : key[t] \in Txs
  <2>1. Z \in SUBSET Txs
    BY LiveRowIs
  <2>2. \A t \in Z : key[t] \in Txs
    BY <1>1, <2>1, LiveRowIs
  <2>. QED
    BY <2>1, <2>2, FiniteRows, FS_Subset
<1>4. ASSUME NEW g \in Txs PROVE h[g] = 0
  <2>1. PICK L : L = {t \in Z : key[t] = g}
    OBVIOUS
  <2>2. h[g] = SumOf(f, L)
    BY <1>2, <2>1
  <2>3. CASE L = {}
    BY <2>2, <2>3, SumIs, FS_EmptySet
  <2>4. CASE L # {}
    <3>1. PICK t \in L : TRUE
      BY <2>4
    <3>2. t \in Z /\ tx[t].group = g /\ t \in LiveRows(tx) /\ g # NoTx
      BY <1>1, <1>3, <2>1, <3>1
    <3>3. PICK u \in Txs : /\ u # t /\ legsOf(tx, g) = {t, u} /\ tx[u].amount = tx[t].amount
                           /\ tx[u].type # tx[t].type
      BY <3>2 DEF IInv, Structure, TransferPaired
    <3>4. u \in Z /\ tx[u].group = g
      BY <3>2, <3>3 DEF legsOf
    <3>5. L = {t, u}
      <4>1. L \subseteq legsOf(tx, g)
        BY <1>1, <1>3, <2>1 DEF legsOf
      <4>. QED
        BY <1>1, <1>3, <2>1, <3>2, <3>3, <3>4, <4>1
    <3>6. f[t] \in Int /\ f[u] \in Int /\ f[t] + f[u] = 0
      BY <3>2, <3>3, <3>4
    <3>7. SumOf(f, {t, u}) = f[t] + f[u]
      BY <3>3, <3>6, SumOfTwo
    <3>. QED
      BY <2>2, <3>5, <3>6, <3>7
  <2>. QED
    BY <2>3, <2>4
<1>5. SumOf(h, Txs) = SumOf(f, Z)
  <2>1. \A g \in Txs : h[g] = SumOf(f, KeptUnder(Z, key, g))
    BY <1>2 DEF KeptUnder
  <2>2. \A t \in Z : f[t] \in Int
    OBVIOUS
  <2>. QED
    BY ONLY <1>3, <2>1, <2>2, SumByKey
<1>. QED
  BY <1>3, <1>4, <1>5, SumZero

LegsOf(type) == {t \in LiveRows(tx) : tx[t].group # NoTx /\ tx[t].type = type}

Legs == {t \in LiveRows(tx) : tx[t].group # NoTx}

(* The live rows are the entries of either type and the legs.              *)
LEMMA PartsOfRows ==
  ASSUME IInv
  PROVE  /\ \A type \in Types : /\ Rows(type) \in SUBSET LiveRows(tx) /\ LegsOf(type) \in SUBSET LiveRows(tx)
                                /\ Rows(type) \cap LegsOf(type) = {}
                                /\ Rows(type) \union LegsOf(type) = {t \in LiveRows(tx) : tx[t].type = type}
         /\ Legs \in SUBSET LiveRows(tx) /\ Legs = LegsOf("INCOME") \union LegsOf("EXPENSE")
         /\ LegsOf("INCOME") \cap LegsOf("EXPENSE") = {}
         /\ (Rows("INCOME") \union Rows("EXPENSE")) \union Legs = LiveRows(tx)
         /\ Rows("INCOME") \cap Rows("EXPENSE") = {}
         /\ (Rows("INCOME") \union Rows("EXPENSE")) \cap Legs = {}
  BY LiveRowIs DEF Rows, LegsOf, Legs, Types

(* What leaves by transfers comes in.                                      *)
LEMMA TransfersCancel ==
  ASSUME IInv
  PROVE  Total(tx, LegsOf("INCOME")) = Total(tx, LegsOf("EXPENSE"))
<1>1. PICK f, g : /\ f = [t \in Txs |-> tx[t].amount]
                  /\ g = [t \in Txs |-> balanceDelta(tx[t].type, tx[t].amount)]
  OBVIOUS
<1>2. PICK I, E : I = LegsOf("INCOME") /\ E = LegsOf("EXPENSE")
  OBVIOUS
<1>3. I \in SUBSET Txs /\ E \in SUBSET Txs /\ I \cap E = {} /\ Legs = I \union E /\ tx \in [Txs -> Row]
      /\ \A t \in Legs : tx[t].amount \in Int
  BY <1>2, PartsOfRows, LiveRowIs DEF Types
<1>4. SumOf(g, Legs) = 0
  <2>1. Legs \in SUBSET LiveRows(tx) /\ \A t \in Legs : tx[t].group # NoTx /\ legsOf(tx, tx[t].group) \subseteq Legs
    BY DEF Legs, legsOf
  <2>2. \A t \in Legs : g[t] \in Int
    BY <1>1, <1>3 DEF balanceDelta
  <2>3. ASSUME NEW t \in Legs, NEW u \in Legs, tx[t].type # tx[u].type, tx[t].amount = tx[u].amount
        PROVE  g[t] + g[u] = 0
    <3>1. tx[t].type \in Types /\ tx[u].type \in Types /\ t \in Txs /\ u \in Txs
      BY <1>3, LiveRowIs DEF Legs
    <3>. QED
      BY <1>1, <1>3, <2>3, <3>1 DEF balanceDelta, Types
  <2>. QED
    BY <2>1, <2>2, <2>3, PairsCancel
<1>5. PICK i, e : i = Total(tx, I) /\ e = Total(tx, E)
  OBVIOUS
<1>6. i = SumOf(f, I) /\ IsFiniteSet(I) /\ i \in Nat /\ e = SumOf(f, E) /\ IsFiniteSet(E) /\ e \in Nat
  <2>1. \A t \in Txs : f[t] = tx[t].amount
    BY <1>1
  <2>. QED
    BY <1>3, <1>5, <2>1, TotalIs
<1>7. SumOf(g, I) = i * 1
  <2>1. \A t \in I : f[t] \in Int /\ g[t] = f[t] * 1
    BY <1>1, <1>2, <1>3 DEF LegsOf, balanceDelta
  <2>. QED
    BY <1>6, <2>1, SumTimes
<1>8. SumOf(g, E) = e * (-1)
  <2>1. \A t \in E : f[t] \in Int /\ g[t] = f[t] * (-1)
    BY <1>1, <1>2, <1>3 DEF LegsOf, balanceDelta
  <2>. QED
    BY <1>6, <2>1, SumTimes
<1>9. SumOf(g, I \union E) = SumOf(g, I) + SumOf(g, E)
  <2>1. \A t \in I \union E : g[t] \in Int
    BY <1>1, <1>3 DEF balanceDelta
  <2>. QED
    BY <1>3, <1>6, <2>1, SumUnion
<1>10. SumOf(g, I \union E) = 0
  BY <1>3, <1>4
<1>11. i \in Int /\ e \in Int /\ i * 1 = i /\ e * (-1) = -e
  BY ONLY <1>6
<1>12. i + (-e) = 0
  BY <1>7, <1>8, <1>9, <1>10, <1>11
<1>. QED
  BY <1>2, <1>5, <1>11, <1>12

(* The sums by account add up to the entries and the legs of the type.     *)
LEMMA ByAccount ==
  ASSUME ReportsInv, NEW type \in Types
  PROVE  SumFunction([a \in LiveAccounts |-> Total(tx, OnAccount(tx, Txs, a, type))])
           = Total(tx, Rows(type)) + Total(tx, LegsOf(type))
<1>. USE DEF ReportsInv
<1>1. PICK f, S, key, h : /\ f = [t \in Txs |-> tx[t].amount]
                          /\ S = {t \in LiveRows(tx) : tx[t].type = type}
                          /\ key = [t \in Txs |-> tx[t].account]
                          /\ h = [a \in LiveAccounts |-> Total(tx, OnAccount(tx, Txs, a, type))]
  OBVIOUS
<1>2. S \in SUBSET Txs /\ tx \in [Txs -> Row] /\ \A t \in S : key[t] \in LiveAccounts /\ f[t] \in Int
  BY <1>1, LiveRowIs
<1>3. \A t \in Txs : f[t] = tx[t].amount
  BY <1>1
<1>4. Total(tx, S) = SumOf(f, S) /\ IsFiniteSet(S)
  BY <1>2, <1>3, TotalIs
<1>5. ASSUME NEW a \in LiveAccounts PROVE h[a] = SumOf(f, KeptUnder(S, key, a))
  <2>1. PICK T : T = KeptUnder(S, key, a)
    OBVIOUS
  <2>2. T = OnAccount(tx, Txs, a, type) /\ T \in SUBSET Txs
    BY <1>1, <1>2, <2>1 DEF OnAccount, LiveRows, KeptUnder
  <2>3. Total(tx, T) = SumOf(f, T)
    BY <1>2, <1>3, <2>2, TotalIs
  <2>. QED
    BY <1>1, <2>1, <2>2, <2>3
<1>6. SumOf(h, LiveAccounts) = SumOf(f, S)
  <2>1. IsFiniteSet(LiveAccounts)
    BY LiveAccountsFinite
  <2>2. \A t \in S : key[t] \in LiveAccounts
    BY <1>2
  <2>3. \A t \in S : f[t] \in Int
    BY <1>2
  <2>4. \A a \in LiveAccounts : h[a] = SumOf(f, KeptUnder(S, key, a))
    BY <1>5
  <2>. QED
    BY ONLY <1>4, <2>1, <2>2, <2>3, <2>4, SumByKey
<1>7. SumFunction(h) = SumOf(h, LiveAccounts)
  BY <1>1, SumFunctionIs
<1>8. Total(tx, S) = Total(tx, Rows(type)) + Total(tx, LegsOf(type))
  <2>1. PICK R, L : R = Rows(type) /\ L = LegsOf(type)
    OBVIOUS
  <2>2. R \in SUBSET Txs /\ L \in SUBSET Txs /\ R \cap L = {} /\ R \union L = S
    BY <1>1, <2>1, PartsOfRows, LiveRowIs
  <2>. QED
    BY <2>1, <2>2, TotalUnion
<1>. QED
  BY <1>1, <1>4, <1>6, <1>7, <1>8

(* The list of accounts and the summary.                                   *)
LEMMA SummaryHolds == ASSUME ReportsInv PROVE SummaryAgrees
<1>1. ASSUME NEW a \in LiveAccounts PROVE entries(a) - exits(a) = balance[a] - opening[a]
  <2>1. balance[a] = opening[a] + Net(tx, Txs, a) /\ opening[a] \in Int
    BY DEF ReportsInv, IInv, BalanceDerived, computedMinor, LiveAccounts, Structure, TypeOK
  <2>2. Net(tx, Txs, a) = entries(a) - exits(a) /\ Net(tx, Txs, a) \in Int
    BY NetInt DEF Net, entries, exits
  <2>. QED
    BY <2>1, <2>2
<1>2. summary.income + summary.transfer = SumFunction([a \in LiveAccounts |-> entries(a)])
  BY ByAccount, TransfersCancel DEF ReportsInv, summary, entries, LegsOf, Types
<1>3. summary.expense + summary.transfer = SumFunction([a \in LiveAccounts |-> exits(a)])
  BY ByAccount DEF summary, exits, LegsOf, Types
<1>. QED
  BY <1>1, <1>2, <1>3 DEF SummaryAgrees

(* The list of transactions and the summary.                               *)
LEMMA ListHolds == ASSUME IInv PROVE ListAgrees
<1>1. where("EXPENSE") = Rows("EXPENSE") /\ where("TRANSFER") = Legs
  BY DEF where, Rows, Legs
<1>2. summary.expense = Total(tx, Rows("EXPENSE")) /\ summary.legs = Cardinality(Legs)
  BY DEF summary, Legs
<1>3. ASSUME NEW t \in LiveRows(tx)
      PROVE  \E type \in TypeFilters :
               t \in where(type) /\ \A other \in TypeFilters \ {type} : t \notin where(other)
  <2>1. tx[t].type \in Types
    BY LiveRowIs
  <2>2. CASE tx[t].group # NoTx
    <3>1. t \in where("TRANSFER") /\ \A other \in TypeFilters \ {"TRANSFER"} : t \notin where(other)
      BY <2>2 DEF where, TypeFilters
    <3>. QED
      BY <3>1 DEF TypeFilters
  <2>3. CASE tx[t].group = NoTx
    <3>1. t \in where(tx[t].type) /\ \A other \in TypeFilters \ {tx[t].type} : t \notin where(other)
      BY <2>1, <2>3 DEF where, TypeFilters, Types
    <3>. QED
      BY <2>1, <3>1 DEF TypeFilters, Types
  <2>. QED
    BY <2>2, <2>3
<1>. QED
  BY <1>1, <1>2, <1>3 DEF ListAgrees

-----------------------------------------------------------------------------
(* The net worth *)

(* What a row weighs on a balance, in the exact units of a rate.           *)
Weights(cur, rate) ==
  [t \in Txs |-> Exact(balanceDelta(tx[t].type, tx[t].amount), cur[tx[t].account], rate)]

Sizes(cur, rate) == [t \in Txs |-> Exact(tx[t].amount, cur[tx[t].account], rate)]

(* An entry weighs its size, with a sign.                                  *)
LEMMA WeightIs ==
  ASSUME IInv, NEW cur \in [Accounts -> Currencies], NEW rate, RateOk(rate), NEW t \in LiveRows(tx)
  PROVE  /\ Weights(cur, rate)[t] \in Int /\ Sizes(cur, rate)[t] \in Int
         /\ Weights(cur, rate)[t] = Sizes(cur, rate)[t] * (IF tx[t].type = "INCOME" THEN 1 ELSE -1)
<1>1. t \in Txs /\ tx[t].amount \in Int
  BY LiveRowIs
<1>2. PICK n, c, m : n = tx[t].amount /\ c = cur[tx[t].account] /\ m = -n
  OBVIOUS
<1>3. PICK w \in Int : \A k \in Int : Exact(k, c, rate) = k * w /\ Exact(k, c, rate) \in Int
  BY ExactIs
<1>4. n \in Int /\ m \in Int
  BY <1>1, <1>2
<1>5. PICK x : x = n * w
  OBVIOUS
<1>6. x \in Int /\ m * w = -x /\ x * 1 = x /\ x * (-1) = -x
  BY ONLY <1>2, <1>4, <1>5, w \in Int
<1>7. Sizes(cur, rate)[t] = x
  BY <1>1, <1>2, <1>3, <1>4, <1>5 DEF Sizes
<1>8. CASE tx[t].type = "INCOME"
  BY <1>1, <1>2, <1>3, <1>4, <1>5, <1>6, <1>7, <1>8 DEF Weights, balanceDelta
<1>9. CASE tx[t].type # "INCOME"
  BY <1>1, <1>2, <1>3, <1>4, <1>5, <1>6, <1>7, <1>9 DEF Weights, balanceDelta
<1>. QED
  BY <1>8, <1>9

(* Every live row weighs in once: the income, less the expense, and the    *)
(* legs between two currencies.                                            *)
LEMMA WeightOfRows ==
  ASSUME IInv, NEW cur \in [Accounts -> Currencies], NEW rate, RateOk(rate),
         NEW w, w = Weights(cur, rate), NEW x, x = Sizes(cur, rate)
  PROVE  /\ SumOf(w, LiveRows(tx))
               = ((SumOf(x, Rows("INCOME")) - SumOf(x, Rows("EXPENSE"))) + Crossed(cur, rate))
         /\ SumOf(x, Rows("INCOME")) \in Int /\ SumOf(x, Rows("EXPENSE")) \in Int
         /\ Crossed(cur, rate) \in Int
<1>1. PICK I, E, C, N : /\ I = Rows("INCOME") /\ E = Rows("EXPENSE")
                        /\ C = Crossing(cur) /\ N = Legs \ Crossing(cur)
  OBVIOUS
<1>2. /\ I \in SUBSET LiveRows(tx) /\ E \in SUBSET LiveRows(tx)
      /\ C \in SUBSET LiveRows(tx) /\ N \in SUBSET LiveRows(tx)
      /\ I \cap E = {} /\ (I \union E) \cap (C \union N) = {} /\ C \cap N = {}
      /\ (I \union E) \union (C \union N) = LiveRows(tx)
  <2>1. C \subseteq Legs
    BY <1>1 DEF Crossing, Legs
  <2>. QED
    BY <1>1, <2>1, PartsOfRows DEF Types
<1>3. /\ IsFiniteSet(I) /\ IsFiniteSet(E) /\ IsFiniteSet(C) /\ IsFiniteSet(N)
      /\ IsFiniteSet(I \union E) /\ IsFiniteSet(C \union N)
  BY <1>2, LiveRowIs, FiniteRows, FS_Subset, FS_Union
<1>4. \A t \in LiveRows(tx) : w[t] \in Int /\ x[t] \in Int
  BY WeightIs
<1>5. SumOf(w, I) = SumOf(x, I) * 1 /\ SumOf(x, I) \in Int
  <2>1. \A t \in I : x[t] \in Int /\ w[t] = x[t] * 1
    BY <1>1, <1>2, WeightIs DEF Rows
  <2>. QED
    BY <1>3, <2>1, SumTimes
<1>6. SumOf(w, E) = SumOf(x, E) * (-1) /\ SumOf(x, E) \in Int
  <2>1. \A t \in E : x[t] \in Int /\ w[t] = x[t] * (-1)
    BY <1>1, <1>2, WeightIs DEF Rows
  <2>2. PICK k : k = -1
    OBVIOUS
  <2>3. k \in Int /\ \A t \in E : x[t] \in Int /\ w[t] = x[t] * k
    BY <2>1, <2>2
  <2>4. SumOf(w, E) = SumOf(x, E) * k /\ SumOf(x, E) \in Int
    BY ONLY <1>3, <2>3, SumTimes
  <2>. QED
    BY <2>2, <2>4
<1>7. SumOf(w, N) = 0
  <2>1. ASSUME NEW t \in N PROVE tx[t].group # NoTx /\ legsOf(tx, tx[t].group) \subseteq N /\ w[t] \in Int
    <3>1. t \in LiveRows(tx) /\ tx[t].group # NoTx
      BY <1>1, <2>1 DEF Legs
    <3>2. \A u \in legsOf(tx, tx[t].group) : cur[tx[u].account] = cur[tx[t].account]
      BY <1>1, <2>1, <3>1 DEF Crossing
    <3>3. ASSUME NEW u \in legsOf(tx, tx[t].group) PROVE u \in N
      <4>1. u \in LiveRows(tx) /\ tx[u].group = tx[t].group
        BY <3>3 DEF legsOf
      <4>2. \A v \in legsOf(tx, tx[u].group) : cur[tx[v].account] = cur[tx[u].account]
        BY <3>2, <3>3, <4>1
      <4>. QED
        BY <1>1, <3>1, <4>1, <4>2 DEF Legs, Crossing
    <3>. QED
      BY <1>2, <1>4, <2>1, <3>1, <3>3
  <2>2. ASSUME NEW t \in N, NEW u \in N, tx[t].group = tx[u].group, tx[t].type # tx[u].type,
               tx[t].amount = tx[u].amount
        PROVE  w[t] + w[u] = 0
    <3>1. t \in LiveRows(tx) /\ u \in LiveRows(tx) /\ u \in legsOf(tx, tx[t].group)
      BY <1>2, <2>2 DEF legsOf
    <3>2. cur[tx[u].account] = cur[tx[t].account]
      BY <1>1, <2>2, <3>1 DEF Crossing, Legs
    <3>3. x[t] = x[u]
      BY <2>2, <3>1, <3>2, LiveRowIs DEF Sizes
    <3>4. tx[t].type \in Types /\ tx[u].type \in Types
      BY <3>1, LiveRowIs
    <3>5. PICK y : y = x[t]
      OBVIOUS
    <3>6. y \in Int /\ y * 1 = y /\ y * (-1) = -y
      <4>1. y \in Int
        BY <1>4, <3>1, <3>5
      <4>. QED
        BY ONLY <4>1
    <3>7. /\ w[t] = y * (IF tx[t].type = "INCOME" THEN 1 ELSE -1)
          /\ w[u] = y * (IF tx[u].type = "INCOME" THEN 1 ELSE -1)
      BY <3>1, <3>3, <3>5, WeightIs
    <3>8. CASE tx[t].type = "INCOME"
      <4>1. tx[u].type # "INCOME"
        BY <2>2, <3>8
      <4>2. w[t] = y /\ w[u] = -y
        BY <3>6, <3>7, <3>8, <4>1
      <4>. QED
        BY <3>6, <4>2
    <3>9. CASE tx[t].type # "INCOME"
      <4>1. tx[u].type = "INCOME"
        BY <2>2, <3>4, <3>9 DEF Types
      <4>2. w[t] = -y /\ w[u] = y
        BY <3>6, <3>7, <3>9, <4>1
      <4>. QED
        BY <3>6, <4>2
    <3>. QED
      BY <3>8, <3>9
  <2>. QED
    BY <1>2, <2>1, <2>2, PairsCancel
<1>8. Crossed(cur, rate) = SumOf(w, C)
  <2>1. PICK g : g = [t \in C |-> Exact(balanceDelta(tx[t].type, tx[t].amount), cur[tx[t].account], rate)]
    OBVIOUS
  <2>2. \A t \in C : g[t] = w[t]
    BY <1>2, <2>1, LiveRowIs DEF Weights
  <2>3. SumFunction(g) = SumOf(g, C)
    BY <2>1, SumFunctionIs
  <2>4. SumOf(g, C) = SumOf(w, C)
    BY <1>3, <2>2, SumSame
  <2>. QED
    BY <1>1, <2>1, <2>3, <2>4 DEF Crossed
<1>9. SumOf(w, I \union E) = SumOf(w, I) + SumOf(w, E)
  <2>1. \A t \in I \union E : w[t] \in Int
    BY <1>2, <1>4
  <2>. QED
    BY <1>2, <1>3, <2>1, SumUnion
<1>10. SumOf(w, C \union N) = SumOf(w, C) + SumOf(w, N) /\ SumOf(w, C) \in Int
  <2>1. \A t \in C \union N : w[t] \in Int
    BY <1>2, <1>4
  <2>2. SumOf(w, C) \in Int
    BY <1>3, <2>1, SumInt
  <2>. QED
    BY <1>2, <1>3, <2>1, <2>2, SumUnion
<1>11. SumOf(w, LiveRows(tx)) = SumOf(w, I \union E) + SumOf(w, C \union N)
  <2>1. PICK A, B : A = I \union E /\ B = C \union N
    OBVIOUS
  <2>2. A \cap B = {} /\ A \union B = LiveRows(tx) /\ IsFiniteSet(A) /\ IsFiniteSet(B)
    BY <1>2, <1>3, <2>1
  <2>3. \A t \in A \union B : w[t] \in Int
    BY <1>4, <2>2
  <2>4. SumOf(w, A \union B) = SumOf(w, A) + SumOf(w, B)
    BY <2>2, <2>3, SumUnion
  <2>. QED
    BY <2>1, <2>2, <2>4
<1>12. PICK i, e, c : i = SumOf(x, I) /\ e = SumOf(x, E) /\ c = SumOf(w, C)
  OBVIOUS
<1>13. i \in Int /\ e \in Int /\ c \in Int /\ i * 1 = i /\ e * (-1) = -e
  <2>1. i \in Int /\ e \in Int /\ c \in Int
    BY <1>5, <1>6, <1>10, <1>12
  <2>. QED
    BY ONLY <2>1
<1>14. SumOf(w, LiveRows(tx)) = (i + (-e)) + (c + 0)
  BY <1>5, <1>6, <1>7, <1>9, <1>10, <1>11, <1>12, <1>13
<1>. QED
  BY <1>1, <1>8, <1>12, <1>13, <1>14

(* The rows of an account weigh what they add to its balance.              *)
LEMMA NetWeighs ==
  ASSUME IInv, NEW cur \in [Accounts -> Currencies], NEW rate, RateOk(rate), NEW a \in Accounts,
         NEW key, key = [t \in Txs |-> tx[t].account]
  PROVE  SumOf(Weights(cur, rate), KeptUnder(LiveRows(tx), key, a)) = Exact(Net(tx, Txs, a), cur[a], rate)
<1>1. PICK w, f, I, E : /\ w = Weights(cur, rate) /\ f = [t \in Txs |-> tx[t].amount]
                        /\ I = OnAccount(tx, Txs, a, "INCOME") /\ E = OnAccount(tx, Txs, a, "EXPENSE")
  OBVIOUS
<1>2. PICK k \in Int : \A n \in Int : Exact(n, cur[a], rate) = n * k /\ Exact(n, cur[a], rate) \in Int
  BY ExactIs
<1>3. PICK m : m = -k
  OBVIOUS
<1>4. m \in Int
  BY <1>3
<1>5. /\ I \in SUBSET Txs /\ E \in SUBSET Txs /\ I \cap E = {} /\ I \union E = KeptUnder(LiveRows(tx), key, a)
      /\ I \subseteq LiveRows(tx) /\ E \subseteq LiveRows(tx) /\ tx \in [Txs -> Row]
  <2>1. \A t \in LiveRows(tx) : tx[t].type = "INCOME" \/ tx[t].type = "EXPENSE"
    BY LiveRowIs DEF Types
  <2>. QED
    BY <1>1, <2>1, LiveRowIs DEF OnAccount, KeptUnder, LiveRows
<1>6. PICK i, e : i = Total(tx, I) /\ e = Total(tx, E)
  OBVIOUS
<1>7. i = SumOf(f, I) /\ IsFiniteSet(I) /\ i \in Nat /\ e = SumOf(f, E) /\ IsFiniteSet(E) /\ e \in Nat
  <2>1. \A t \in Txs : f[t] = tx[t].amount
    BY <1>1
  <2>. QED
    BY <1>5, <1>6, <2>1, TotalIs
<1>8. \A t \in I \union E : f[t] = tx[t].amount /\ f[t] \in Int /\ w[t] \in Int
  <2>1. \A t \in I \union E : f[t] = tx[t].amount /\ f[t] \in Int
    BY <1>1, <1>5, LiveRowIs
  <2>. QED
    BY <1>1, <1>5, <2>1, WeightIs
<1>9. \A t \in I : w[t] = f[t] * k
  BY <1>1, <1>2, <1>5, <1>8 DEF Weights, balanceDelta, OnAccount
<1>10. \A t \in E : w[t] = f[t] * m
  <2>1. \A n \in Int : -n \in Int /\ (-n) * k = n * m
    BY <1>3
  <2>2. ASSUME NEW t \in E PROVE w[t] = f[t] * m
    <3>1. balanceDelta(tx[t].type, tx[t].amount) = -f[t] /\ tx[t].account = a /\ t \in Txs
      BY <1>1, <1>5, <1>8, <2>2 DEF balanceDelta, OnAccount
    <3>2. w[t] = Exact(-f[t], cur[a], rate)
      BY <1>1, <3>1 DEF Weights
    <3>. QED
      BY <1>2, <1>8, <2>1, <2>2, <3>2
  <2>. QED
    BY <2>2
<1>11. SumOf(w, I) = i * k
  <2>1. \A t \in I : f[t] \in Int /\ w[t] = f[t] * k
    BY <1>8, <1>9
  <2>2. SumOf(w, I) = SumOf(f, I) * k
    BY ONLY <1>7, <2>1, k \in Int, SumTimes
  <2>. QED
    BY <1>7, <2>2
<1>12. SumOf(w, E) = e * m
  <2>1. \A t \in E : f[t] \in Int /\ w[t] = f[t] * m
    BY <1>8, <1>10
  <2>2. SumOf(w, E) = SumOf(f, E) * m
    BY ONLY <1>4, <1>7, <2>1, SumTimes
  <2>. QED
    BY <1>7, <2>2
<1>13. SumOf(w, I \union E) = SumOf(w, I) + SumOf(w, E)
  BY <1>5, <1>7, <1>8, SumUnion
<1>14. Net(tx, Txs, a) = i - e
  BY <1>1, <1>6 DEF Net
<1>15. (i - e) * k = (i * k) + (e * m) /\ i - e \in Int
  BY ONLY <1>3, <1>7, k \in Int
<1>. QED
  BY <1>1, <1>2, <1>5, <1>11, <1>12, <1>13, <1>14, <1>15

(* The exact worth of the accounts is what they opened with and the weight *)
(* of the rows.                                                            *)
LEMMA WorthFromRows ==
  ASSUME ReportsInv, NEW cur \in [Accounts -> Currencies], NEW rate, RateOk(rate),
         NEW ex, ex = [a \in LiveAccounts |-> Exact(balance[a], cur[a], rate)]
  PROVE  /\ SumOf(ex, LiveAccounts) = Opened(cur, rate) + SumOf(Weights(cur, rate), LiveRows(tx))
         /\ Opened(cur, rate) \in Int /\ SumOf(Weights(cur, rate), LiveRows(tx)) \in Int
<1>1. PICK w, key, o, h, A : /\ w = Weights(cur, rate) /\ key = [t \in Txs |-> tx[t].account]
                             /\ o = [a \in LiveAccounts |-> Exact(opening[a], cur[a], rate)]
                             /\ h = [a \in LiveAccounts |-> Exact(Net(tx, Txs, a), cur[a], rate)]
                             /\ A = LiveAccounts
  OBVIOUS
<1>2. IInv /\ IsFiniteSet(A) /\ A \subseteq Accounts
  BY <1>1, LiveAccountsFinite DEF ReportsInv, LiveAccounts
<1>3. ASSUME NEW a \in A PROVE o[a] \in Int /\ h[a] \in Int /\ ex[a] = o[a] + 1 * h[a]
  <2>1. PICK k \in Int : \A n \in Int : Exact(n, cur[a], rate) = n * k /\ Exact(n, cur[a], rate) \in Int
    BY ExactIs
  <2>2. PICK i, n : i = opening[a] /\ n = Net(tx, Txs, a)
    OBVIOUS
  <2>3. i \in Int /\ n \in Int /\ balance[a] = i + n
    BY <1>2, <2>2, NetInt DEF IInv, BalanceDerived, computedMinor, Structure, TypeOK
  <2>4. i + n \in Int /\ (i + n) * k = (i * k) + (n * k) /\ i * k \in Int /\ n * k \in Int
    BY ONLY <2>3, k \in Int
  <2>5. o[a] = i * k /\ h[a] = n * k /\ ex[a] = (i + n) * k
    BY <1>1, <2>1, <2>2, <2>3, <2>4
  <2>. QED
    BY <2>4, <2>5
<1>4. SumOf(ex, A) = SumOf(o, A) + 1 * SumOf(h, A) /\ SumOf(o, A) \in Int /\ SumOf(h, A) \in Int
  <2>1. \A a \in A : o[a] \in Int /\ h[a] \in Int /\ ex[a] = o[a] + 1 * h[a]
    BY <1>3
  <2>2. SumOf(ex, A) = SumOf(o, A) + 1 * SumOf(h, A)
    BY ONLY <1>2, <2>1, 1 \in Int, SumLinear
  <2>. QED
    BY <1>2, <2>1, <2>2, SumInt
<1>5. SumOf(h, A) = SumOf(w, LiveRows(tx))
  <2>1. \A a \in A : h[a] = SumOf(w, KeptUnder(LiveRows(tx), key, a))
    BY <1>1, <1>2, NetWeighs
  <2>2. IsFiniteSet(LiveRows(tx)) /\ \A t \in LiveRows(tx) : key[t] \in A
    BY <1>1, <1>2, LiveRowIs, FiniteRows, FS_Subset
  <2>3. \A t \in LiveRows(tx) : w[t] \in Int
    BY <1>1, <1>2, WeightIs
  <2>4. PICK S : S = LiveRows(tx)
    OBVIOUS
  <2>5. SumOf(h, A) = SumOf(w, S)
    <3>1. IsFiniteSet(S) /\ \A t \in S : key[t] \in A
      BY <2>2, <2>4
    <3>2. \A t \in S : w[t] \in Int
      BY <2>3, <2>4
    <3>3. \A a \in A : h[a] = SumOf(w, KeptUnder(S, key, a))
      BY <2>1, <2>4
    <3>. QED
      BY ONLY <1>2, <3>1, <3>2, <3>3, SumByKey
  <2>. QED
    BY <2>4, <2>5
<1>6. Opened(cur, rate) = SumOf(o, A)
  BY <1>1, SumFunctionIs DEF Opened
<1>. QED
  BY <1>1, <1>4, <1>5, <1>6

(* The net worth is near the exact one, by half a unit for every account   *)
(* that is converted.                                                      *)
LEMMA NetWorthIs ==
  ASSUME ReportsInv, NEW cur \in [Accounts -> Currencies], NEW rate, RateOk(rate),
         NEW ex, ex = [a \in LiveAccounts |-> Exact(balance[a], cur[a], rate)]
  PROVE  /\ netWorth(cur, rate) \in Int /\ SumOf(ex, LiveAccounts) \in Int
         /\ Near((rate.den * netWorth(cur, rate)) - SumOf(ex, LiveAccounts),
                 rate.den * Cardinality({a \in LiveAccounts : cur[a] = Foreign}))
<1>1. PICK A, D, d, conv, dconv, err :
        /\ A = LiveAccounts /\ D = {a \in LiveAccounts : cur[a] = Foreign} /\ d = rate.den
        /\ conv = [a \in A |-> convert(balance[a], cur[a], rate)]
        /\ dconv = [a \in A |-> d * convert(balance[a], cur[a], rate)]
        /\ err = [a \in A |-> (d * convert(balance[a], cur[a], rate)) - Exact(balance[a], cur[a], rate)]
  OBVIOUS
<1>2. IInv /\ IsFiniteSet(A) /\ A \subseteq Accounts /\ d \in Nat /\ A \cap D = D
  BY <1>1, LiveAccountsFinite DEF ReportsInv, LiveAccounts, RateOk
<1>3. ASSUME NEW a \in A
      PROVE  /\ conv[a] \in Int /\ ex[a] \in Int /\ dconv[a] \in Int /\ err[a] \in Int
             /\ dconv[a] = conv[a] * d /\ dconv[a] = ex[a] + 1 * err[a]
             /\ Near(err[a], IF a \in D THEN d ELSE 0)
  <2>1. PICK b, c, n, e : b = balance[a] /\ c = cur[a] /\ n = convert(b, c, rate) /\ e = Exact(b, c, rate)
    OBVIOUS
  <2>2. b \in Int /\ c \in Currencies
    BY <1>2, <2>1 DEF IInv, Structure, TypeOK
  <2>3. n \in Int /\ e \in Int /\ Near(d * n - e, IF c = Foreign THEN d ELSE 0)
    BY <1>1, <2>1, <2>2, ConvertIs
  <2>4. conv[a] = n /\ ex[a] = e /\ dconv[a] = d * n /\ err[a] = (d * n) - e
    BY <1>1, <2>1
  <2>5. d * n \in Int /\ d * n = n * d
    BY ONLY <1>2, <2>3
  <2>6. a \in D <=> c = Foreign
    BY <1>1, <2>1
  <2>. QED
    BY <2>3, <2>4, <2>5, <2>6
<1>4. SumOf(dconv, A) = SumOf(conv, A) * d /\ SumOf(conv, A) \in Int
  <2>1. \A a \in A : conv[a] \in Int /\ dconv[a] = conv[a] * d
    BY <1>3
  <2>2. d \in Int
    BY <1>2
  <2>. QED
    BY ONLY <1>2, <2>1, <2>2, SumTimes
<1>5. SumOf(dconv, A) = SumOf(ex, A) + 1 * SumOf(err, A)
  <2>1. \A a \in A : ex[a] \in Int /\ err[a] \in Int /\ dconv[a] = ex[a] + 1 * err[a]
    BY <1>3
  <2>. QED
    BY ONLY <1>2, <2>1, 1 \in Int, SumLinear
<1>6. SumOf(ex, A) \in Int /\ SumOf(err, A) \in Int
  BY <1>2, <1>3, SumInt
<1>7. Near(SumOf(err, A), d * Cardinality(D))
  <2>1. \A a \in A : err[a] \in Int /\ Near(err[a], IF a \in D THEN d ELSE 0)
    BY <1>3
  <2>2. Near(SumOf(err, A), d * Cardinality(A \cap D))
    BY ONLY <1>2, <2>1, SumNear
  <2>. QED
    BY <1>2, <2>2
<1>8. netWorth(cur, rate) = SumOf(conv, A)
  BY <1>1, SumFunctionIs DEF netWorth
<1>9. PICK n, e, r : n = SumOf(conv, A) /\ e = SumOf(ex, A) /\ r = SumOf(err, A)
  OBVIOUS
<1>10. d * n = n * d /\ d * n \in Int
  <2>1. n \in Int
    BY <1>4, <1>9
  <2>. QED
    BY ONLY <1>2, <2>1
<1>11. (d * n) - e = r
  BY <1>4, <1>5, <1>6, <1>9, <1>10
<1>. QED
  BY <1>1, <1>4, <1>6, <1>7, <1>8, <1>9, <1>11

(* The bound as the property states it.                                    *)
LEMMA NearIsWithin ==
  ASSUME NEW rate, RateOk(rate), NEW k \in Nat, NEW x \in Int, Near(x, rate.den * k)
  PROVE  Within(x, rate, k)
<1>1. PICK b : b = rate.den * k
  OBVIOUS
<1>2. b \in Int
  BY <1>1 DEF RateOk
<1>. QED
  BY <1>1, <1>2 DEF Near, Within

(* The net worth is explained by the openings, the month and the transfers *)
(* between currencies.                                                     *)
LEMMA WorthByMonth ==
  ASSUME ReportsInv, NEW cur \in [Accounts -> Currencies], NEW rate, RateOk(rate),
         NEW foreign, foreign = {a \in LiveAccounts : cur[a] = Foreign},
         NEW month, month = monthly(cur, rate)
  PROVE  Within(rate.den * (netWorth(cur, rate) - month.income + month.expense)
                  - Opened(cur, rate) - Crossed(cur, rate),
                rate, Cardinality(foreign) + 2)
<1>1. PICK d, ex, w, x : /\ d = rate.den /\ w = Weights(cur, rate) /\ x = Sizes(cur, rate)
                         /\ ex = [a \in LiveAccounts |-> Exact(balance[a], cur[a], rate)]
  OBVIOUS
<1>2. PICK n, i, e, op, cr, xi, xe, k :
        /\ n = netWorth(cur, rate) /\ i = month.income /\ e = month.expense
        /\ op = Opened(cur, rate) /\ cr = Crossed(cur, rate)
        /\ xi = SumOf(x, Rows("INCOME")) /\ xe = SumOf(x, Rows("EXPENSE")) /\ k = Cardinality(foreign)
  OBVIOUS
<1>3. IInv /\ d \in Nat /\ k \in Nat
  <2>1. foreign \in SUBSET LiveAccounts /\ IsFiniteSet(LiveAccounts)
    BY LiveAccountsFinite
  <2>. QED
    BY <1>1, <1>2, <2>1, FS_Subset, FS_CardinalityType DEF ReportsInv, RateOk
<1>4. PICK s : s = SumOf(ex, LiveAccounts)
  OBVIOUS
<1>5. n \in Int /\ s \in Int /\ Near((d * n) - s, d * k)
  BY <1>1, <1>2, <1>4, NetWorthIs
<1>6. s = op + ((xi - xe) + cr) /\ op \in Int /\ cr \in Int /\ xi \in Int /\ xe \in Int
  <2>1. s = op + SumOf(w, LiveRows(tx)) /\ op \in Int
    BY <1>1, <1>2, <1>4, WorthFromRows
  <2>2. SumOf(w, LiveRows(tx)) = ((xi - xe) + cr) /\ xi \in Int /\ xe \in Int /\ cr \in Int
    BY <1>1, <1>2, <1>3, WeightOfRows
  <2>. QED
    BY <2>1, <2>2
<1>7. \A t \in LiveRows(tx) : x[t] = Exact(tx[t].amount, cur[tx[t].account], rate)
  BY <1>1, <1>3, LiveRowIs DEF Sizes
<1>8. i \in Int /\ Near((d * i) - xi, d)
  <2>1. Rows("INCOME") \in SUBSET LiveRows(tx) /\ i = consolidateToBase(Rows("INCOME"), cur, rate)
    BY <1>2 DEF Rows, monthly
  <2>. QED
    BY <1>1, <1>2, <1>3, <1>7, <2>1, ConsolidateIs
<1>9. e \in Int /\ Near((d * e) - xe, d)
  <2>1. Rows("EXPENSE") \in SUBSET LiveRows(tx) /\ e = consolidateToBase(Rows("EXPENSE"), cur, rate)
    BY <1>2 DEF Rows, monthly
  <2>. QED
    BY <1>1, <1>2, <1>3, <1>7, <2>1, ConsolidateIs
<1>10. PICK dn, di, de, dk : dn = d * n /\ di = d * i /\ de = d * e /\ dk = d * k
  OBVIOUS
<1>11. /\ dn \in Int /\ di \in Int /\ de \in Int /\ dk \in Int
       /\ d * (n - i + e) = dn - di + de /\ d * (k + 2) = (dk + d) + d
  BY ONLY <1>3, <1>5, <1>8, <1>9, <1>10
<1>12. PICK y : y = dn - di + de - op - cr
  OBVIOUS
<1>13. y \in Int /\ y = ((dn - s) + (-(di - xi))) + (de - xe)
  BY <1>6, <1>11, <1>12
<1>14. Near(y, (dk + d) + d)
  BY <1>3, <1>5, <1>6, <1>8, <1>9, <1>10, <1>11, <1>13 DEF Near
<1>15. Within(y, rate, k + 2)
  <2>1. k + 2 \in Nat /\ Near(y, rate.den * (k + 2))
    BY <1>1, <1>3, <1>11, <1>14
  <2>. QED
    BY <1>13, <2>1, NearIsWithin
<1>16. d * (n - i + e) = rate.den * (netWorth(cur, rate) - month.income + month.expense)
  BY <1>1, <1>2
<1>17. PICK v : v = d * (n - i + e)
  OBVIOUS
<1>18. y = v - op - cr
  BY <1>6, <1>11, <1>12, <1>17
<1>19. v - op - cr = rate.den * (netWorth(cur, rate) - month.income + month.expense)
                      - Opened(cur, rate) - Crossed(cur, rate)
  BY ONLY <1>2, <1>16, <1>17
<1>. QED
  BY <1>2, <1>15, <1>18, <1>19

(* There are finitely many groups.                                         *)
LEMMA GroupsFinite == ASSUME IInv PROVE IsFiniteSet(Groups) /\ Cardinality(Groups) \in Nat
<1>1. IsFiniteSet(Sources)
  <2>1. /\ IsFiniteSet({"MANUAL"}) /\ IsFiniteSet({"ADJUSTMENT"}) /\ IsFiniteSet({"DEBT_PAYMENT"})
        /\ IsFiniteSet({"DEBT_CREATION"}) /\ IsFiniteSet({"FEE"})
    BY FS_Singleton
  <2>2. IsFiniteSet((({"MANUAL"} \union {"ADJUSTMENT"}) \union {"DEBT_PAYMENT"}) \union ({"DEBT_CREATION"} \union {"FEE"}))
    BY <2>1, FS_Union
  <2>3. Sources = (({"MANUAL"} \union {"ADJUSTMENT"}) \union {"DEBT_PAYMENT"}) \union ({"DEBT_CREATION"} \union {"FEE"})
    BY DEF Sources
  <2>. QED
    BY <2>2, <2>3
<1>2. Groups \in SUBSET Sources
  BY LiveRowIs DEF Groups, Identified, Rows
<1>. QED
  BY <1>1, <1>2, FS_Subset, FS_CardinalityType

(* The spending by category and the unaccounted line add up to the expense *)
(* of the month.                                                           *)
LEMMA SpendingByMonth ==
  ASSUME ReportsInv, NEW cur \in [Accounts -> Currencies], NEW rate, RateOk(rate),
         NEW month, month = monthly(cur, rate), NEW spent, spent = spendingByCategory(cur, rate)
  PROVE  Within(rate.den * (month.expense - spent.total - spent.unaccounted),
                rate, Cardinality(Groups) + 2)
<1>1. PICK d, x, key, G : /\ d = rate.den /\ x = Sizes(cur, rate)
                          /\ key = [t \in Txs |-> tx[t].source] /\ G = Groups
  OBVIOUS
<1>2. PICK part, dpart, size, err :
        /\ part = [s \in G |-> consolidateToBase(Filed(s), cur, rate)]
        /\ dpart = [s \in G |-> d * consolidateToBase(Filed(s), cur, rate)]
        /\ size = [s \in G |-> SumOf(x, Filed(s))]
        /\ err = [s \in G |-> (d * consolidateToBase(Filed(s), cur, rate)) - SumOf(x, Filed(s))]
  OBVIOUS
<1>3. IInv /\ IsFiniteSet(G) /\ Cardinality(G) \in Nat /\ d \in Nat /\ d \in Int
  BY <1>1, GroupsFinite DEF ReportsInv, RateOk
<1>4. \A t \in LiveRows(tx) : x[t] = Exact(tx[t].amount, cur[tx[t].account], rate) /\ x[t] \in Int
  BY <1>1, <1>3, LiveRowIs, WeightIs DEF Sizes
<1>5. ASSUME NEW s \in G
      PROVE  /\ part[s] \in Int /\ size[s] \in Int /\ dpart[s] \in Int /\ err[s] \in Int
             /\ dpart[s] = part[s] * d /\ dpart[s] = size[s] + 1 * err[s]
             /\ Near(err[s], IF s \in G THEN d ELSE 0)
  <2>1. PICK n, e : n = consolidateToBase(Filed(s), cur, rate) /\ e = SumOf(x, Filed(s))
    OBVIOUS
  <2>2. Filed(s) \in SUBSET LiveRows(tx)
    BY DEF Filed, Identified, Rows
  <2>3. n \in Int /\ e \in Int /\ Near(d * n - e, d)
    BY <1>1, <1>3, <1>4, <2>1, <2>2, ConsolidateIs
  <2>4. part[s] = n /\ size[s] = e /\ dpart[s] = d * n /\ err[s] = (d * n) - e
    BY <1>2, <2>1
  <2>5. d * n \in Int /\ d * n = n * d
    BY ONLY <1>3, <2>3
  <2>. QED
    BY <1>5, <2>3, <2>4, <2>5
<1>6. SumOf(dpart, G) = SumOf(part, G) * d /\ SumOf(part, G) \in Int
  <2>1. \A s \in G : part[s] \in Int /\ dpart[s] = part[s] * d
    BY <1>5
  <2>. QED
    BY ONLY <1>3, <2>1, SumTimes
<1>7. SumOf(dpart, G) = SumOf(size, G) + 1 * SumOf(err, G)
  <2>1. \A s \in G : size[s] \in Int /\ err[s] \in Int /\ dpart[s] = size[s] + 1 * err[s]
    BY <1>5
  <2>. QED
    BY ONLY <1>3, <2>1, 1 \in Int, SumLinear
<1>8. SumOf(size, G) \in Int /\ SumOf(err, G) \in Int
  BY <1>3, <1>5, SumInt
<1>9. Near(SumOf(err, G), d * Cardinality(G))
  <2>1. \A s \in G : err[s] \in Int /\ Near(err[s], IF s \in G THEN d ELSE 0)
    BY <1>5
  <2>2. Near(SumOf(err, G), d * Cardinality(G \cap G))
    BY ONLY <1>3, <2>1, SumNear
  <2>3. G \cap G = G
    OBVIOUS
  <2>. QED
    BY <2>2, <2>3
<1>10. PICK S, U, E : S = Identified /\ U = Adjusted /\ E = Rows("EXPENSE")
  OBVIOUS
<1>11. /\ S \in SUBSET LiveRows(tx) /\ U \in SUBSET LiveRows(tx) /\ E \in SUBSET LiveRows(tx)
       /\ S \cap U = {} /\ S \union U = E /\ IsFiniteSet(S) /\ IsFiniteSet(U)
  <2>1. S \in SUBSET LiveRows(tx) /\ U \in SUBSET LiveRows(tx) /\ E \in SUBSET LiveRows(tx)
    BY <1>10 DEF Identified, Adjusted, Rows
  <2>2. IsFiniteSet(LiveRows(tx))
    BY <1>3, LiveRowIs, FiniteRows, FS_Subset
  <2>3. S \cap U = {} /\ S \union U = E
    BY <1>10 DEF Identified, Adjusted
  <2>. QED
    BY <2>1, <2>2, <2>3, FS_Subset
<1>12. SumOf(size, G) = SumOf(x, S)
  <2>1. \A t \in S : key[t] \in G /\ x[t] \in Int
    BY <1>1, <1>3, <1>4, <1>10, <1>11, LiveRowIs DEF Groups
  <2>2. ASSUME NEW s \in G PROVE size[s] = SumOf(x, KeptUnder(S, key, s))
    <3>1. \A t \in S : t \in Txs
      BY <1>3, <1>11, LiveRowIs
    <3>2. Filed(s) = KeptUnder(S, key, s)
      BY <1>1, <1>10, <3>1 DEF Filed, KeptUnder
    <3>. QED
      BY <1>2, <2>2, <3>2
  <2>3. \A s \in G : size[s] = SumOf(x, KeptUnder(S, key, s))
    BY <2>2
  <2>4. \A t \in S : key[t] \in G
    BY <2>1
  <2>5. \A t \in S : x[t] \in Int
    BY <2>1
  <2>. QED
    BY ONLY <1>3, <1>11, <2>3, <2>4, <2>5, SumByKey
<1>13. SumOf(x, E) = SumOf(x, S) + SumOf(x, U)
  <2>1. \A t \in S \union U : x[t] \in Int
    BY <1>4, <1>11
  <2>2. SumOf(x, S \union U) = SumOf(x, S) + SumOf(x, U)
    BY <1>11, <2>1, SumUnion
  <2>. QED
    BY <1>11, <2>2
<1>14. PICK e, p, u, xe, xs, xu, r, k :
         /\ e = month.expense /\ p = spent.total /\ u = spent.unaccounted
         /\ xe = SumOf(x, E) /\ xs = SumOf(x, S) /\ xu = SumOf(x, U) /\ r = SumOf(err, G)
         /\ k = Cardinality(G)
  OBVIOUS
<1>15. e \in Int /\ xe \in Int /\ Near((d * e) - xe, d)
  <2>1. e = consolidateToBase(E, cur, rate)
    BY <1>10, <1>14 DEF monthly
  <2>. QED
    BY <1>1, <1>3, <1>4, <1>11, <1>14, <2>1, ConsolidateIs
<1>16. u \in Int /\ xu \in Int /\ Near((d * u) - xu, d)
  <2>1. u = consolidateToBase(U, cur, rate)
    BY <1>10, <1>14 DEF spendingByCategory
  <2>. QED
    BY <1>1, <1>3, <1>4, <1>11, <1>14, <2>1, ConsolidateIs
<1>17. p \in Int /\ xs \in Int /\ r \in Int /\ p * d = xs + 1 * r /\ Near(r, d * k)
  <2>1. p = SumOf(part, G)
    BY <1>1, <1>2, <1>14, SumFunctionIs DEF spendingByCategory
  <2>. QED
    BY <1>6, <1>7, <1>8, <1>9, <1>12, <1>14, <2>1
<1>18. PICK de, dp, du, dk : de = d * e /\ dp = d * p /\ du = d * u /\ dk = d * k
  OBVIOUS
<1>19. /\ de \in Int /\ dp \in Int /\ du \in Int /\ dk \in Int /\ dp = p * d
       /\ d * (e - p - u) = de - dp - du /\ d * (k + 2) = (dk + d) + d
  <2>1. k \in Nat
    BY <1>3, <1>14
  <2>. QED
    BY ONLY <1>3, <1>15, <1>16, <1>17, <1>18, <2>1
<1>20. PICK y : y = de - dp - du
  OBVIOUS
<1>21. y \in Int /\ Near(y, (dk + d) + d)
  <2>1. xe = xs + xu /\ dp = xs + r
    BY <1>13, <1>14, <1>17, <1>19
  <2>. QED
    BY <1>3, <1>15, <1>16, <1>17, <1>18, <1>19, <1>20, <2>1 DEF Near
<1>22. Within(y, rate, k + 2)
  <2>1. k + 2 \in Nat /\ Near(y, rate.den * (k + 2))
    BY <1>1, <1>3, <1>14, <1>19, <1>21
  <2>. QED
    BY <1>21, <2>1, NearIsWithin
<1>. QED
  BY <1>1, <1>14, <1>18, <1>19, <1>20, <1>22

(* Both parts of the property.                                             *)
LEMMA WorthHolds ==
  ASSUME ReportsInv, NEW cur \in [Accounts -> Currencies], NEW rate \in UsableRates
  PROVE  WorthExplained(cur, rate)
  BY UsableIsOk, WorthByMonth, SpendingByMonth DEF WorthExplained

-----------------------------------------------------------------------------
(* The pages of a list *)

(* Every set of natural numbers has a smallest one.                        *)
LEMMA LeastNumber ==
  ASSUME NEW S \in SUBSET Nat, S # {}
  PROVE  \E n \in S : \A m \in S : n <= m
<1>1. PICK top \in S : TRUE
  OBVIOUS
<1>. DEFINE B == {T \in SUBSET (0..top) : \E m \in S : T = 0..m}
<1>2. IsFiniteSet(0..top)
  BY FS_Interval
<1>3. 0..top \in B
  OBVIOUS
<1>4. PICK T \in B : \A U \in B : U \subseteq T => U = T
  <2>1. PICK D : D = 0..top
    OBVIOUS
  <2>2. B \in SUBSET SUBSET D /\ B # {} /\ IsFiniteSet(D)
    BY <1>2, <1>3, <2>1
  <2>. HIDE DEF B
  <2>. QED
    BY ONLY <2>2, SubsetOrder
<1>5. PICK n \in S : T = 0..n
  BY <1>4
<1>6. n \in Nat /\ n <= top
  <2>1. n \in 0..n
    OBVIOUS
  <2>2. n \in 0..top
    BY <1>4, <1>5, <2>1
  <2>. QED
    BY <2>2
<1>7. ASSUME NEW m \in S, ~ n <= m PROVE FALSE
  <2>1. m \in Nat /\ m < n
    BY <1>6, <1>7
  <2>2. 0..m \in B /\ 0..m \subseteq T
    BY <1>1, <1>5, <1>6, <2>1
  <2>3. n \notin 0..m /\ n \in 0..n
    BY <1>6, <2>1
  <2>. QED
    BY <1>4, <1>5, <2>2, <2>3
<1>. QED
  BY <1>7

(* Min and Max are what they are named for.                                *)
LEMMA MinIs ==
  ASSUME NEW S \in SUBSET Nat, S # {}
  PROVE  Min(S) \in S /\ \A m \in S : Min(S) <= m
  BY LeastNumber DEF Min

LEMMA MaxIs ==
  ASSUME NEW S \in SUBSET (1..Places), S # {}
  PROVE  Max(S) \in S /\ \A m \in S : Max(S) >= m
<1>1. PICK bounds : bounds = {n \in 0..Places : \A m \in S : m <= n}
  OBVIOUS
<1>2. Places \in Nat
  BY ReportsAssumption
<1>3. bounds \in SUBSET Nat /\ Places \in bounds
  BY <1>1, <1>2
<1>4. PICK n \in bounds : \A m \in bounds : n <= m
  BY <1>3, LeastNumber
<1>5. n \in Nat /\ n <= Places /\ \A m \in S : m <= n
  BY <1>1, <1>2, <1>4
<1>6. n \in S
  <2>1. SUFFICES ASSUME n \notin S PROVE FALSE
    OBVIOUS
  <2>2. PICK m \in S : TRUE
    OBVIOUS
  <2>3. m \in Nat /\ m >= 1 /\ m <= n
    BY <1>5, <2>2
  <2>4. PICK p : p = n - 1
    OBVIOUS
  <2>5. p \in 0..Places /\ p < n
    BY <1>2, <1>5, <2>3, <2>4
  <2>6. \A k \in S : k <= p
    BY <1>2, <1>5, <2>1, <2>4
  <2>. QED
    BY <1>1, <1>4, <1>5, <2>5, <2>6
<1>7. \E k \in S : \A m \in S : k >= m
  BY <1>2, <1>5, <1>6
<1>. QED
  BY <1>7 DEF Max

(* What a page may show, and what it shows.                                *)
Left(R, c) ==
  LET from == {n \in R : n >= c} IN
  IF c = 0 \/ from = {} THEN from ELSE from \ {Min(from)}

FirstOf(L, limit) == {n \in L : Cardinality({m \in L : m < n}) < limit}

(* A page in these terms.                                                  *)
LEMMA ListIs ==
  ASSUME NEW R, NEW c, NEW limit
  PROVE  /\ list(R, c, limit).items = FirstOf(Left(R, c), limit)
         /\ list(R, c, limit).nextCursor = IF Cardinality(Left(R, c)) > limit
                                           THEN Max(FirstOf(Left(R, c), limit)) ELSE 0
  BY DEF list, Left, FirstOf

(* The first rows of what is left: all when they fit, and at least one.    *)
LEMMA FirstOfIs ==
  ASSUME NEW L \in SUBSET (1..Places), NEW limit \in Nat \ {0}
  PROVE  /\ IsFiniteSet(L) /\ Cardinality(L) \in Nat /\ FirstOf(L, limit) \in SUBSET L
         /\ Cardinality(L) <= limit => FirstOf(L, limit) = L
         /\ L # {} => FirstOf(L, limit) # {} /\ Cardinality(L \ FirstOf(L, limit)) < Cardinality(L)
         /\ Cardinality(L \ FirstOf(L, limit)) \in Nat
         /\ \A n \in FirstOf(L, limit), m \in L : m < n => m \in FirstOf(L, limit)
<1>. DEFINE below(n) == {m \in L : m < n}
            I == FirstOf(L, limit)
<1>1. IsFiniteSet(L) /\ Cardinality(L) \in Nat /\ I \in SUBSET L /\ L \in SUBSET Nat
  <2>1. IsFiniteSet(1..Places) /\ 1..Places \in SUBSET Nat
    BY ReportsAssumption, FS_Interval
  <2>. QED
    BY <2>1, FS_Subset, FS_CardinalityType DEF FirstOf
<1>2. \A n : IsFiniteSet(below(n)) /\ Cardinality(below(n)) \in Nat
  <2>1. ASSUME NEW n PROVE IsFiniteSet(below(n)) /\ Cardinality(below(n)) \in Nat
    <3>1. below(n) \in SUBSET L
      OBVIOUS
    <3>. QED
      BY <1>1, <3>1, FS_Subset, FS_CardinalityType
  <2>. QED
    BY <2>1
<1>3. ASSUME Cardinality(L) <= limit, NEW n \in L PROVE n \in I
  <2>1. below(n) \in SUBSET (L \ {n}) /\ IsFiniteSet(L \ {n}) /\ Cardinality(L \ {n}) = Cardinality(L) - 1
    BY <1>1, FS_RemoveElement
  <2>2. Cardinality(below(n)) <= Cardinality(L \ {n})
    BY <2>1, FS_Subset
  <2>3. Cardinality(below(n)) < limit
    BY <1>1, <1>2, <1>3, <2>1, <2>2
  <2>. QED
    BY <2>3 DEF FirstOf
<1>4. ASSUME L # {} PROVE I # {}
  <2>1. PICK n \in L : \A m \in L : n <= m
    BY <1>1, <1>4, LeastNumber
  <2>2. below(n) = {}
    <3>1. \A k \in L : ~ k < n
      BY <1>1, <2>1
    <3>. QED
      BY <3>1
  <2>3. Cardinality(below(n)) < limit
    BY <2>2, FS_EmptySet
  <2>. QED
    BY <2>3 DEF FirstOf
<1>5. Cardinality(L \ I) \in Nat
  <2>1. L \ I \in SUBSET L
    OBVIOUS
  <2>. QED
    BY <1>1, <2>1, FS_Subset, FS_CardinalityType
<1>6. ASSUME L # {} PROVE Cardinality(L \ I) < Cardinality(L)
  <2>1. PICK V : V = L \ I
    OBVIOUS
  <2>2. V \in SUBSET L /\ V # L
    BY <1>1, <1>4, <1>6, <2>1
  <2>3. Cardinality(V) <= Cardinality(L) /\ Cardinality(V) # Cardinality(L)
    BY <1>1, <2>2, FS_Subset
  <2>. QED
    BY <1>1, <1>5, <2>1, <2>3
<1>7. ASSUME NEW n \in I, NEW m \in L, m < n PROVE m \in I
  <2>1. below(m) \in SUBSET below(n)
    <3>1. m \in Nat /\ n \in Nat /\ \A k \in L : k \in Nat
      BY <1>1
    <3>2. \A k \in L : k < m => k < n
      BY ONLY <1>7, <3>1
    <3>. QED
      BY <3>2
  <2>2. Cardinality(below(m)) <= Cardinality(below(n))
    BY <1>2, <2>1, FS_Subset
  <2>3. Cardinality(below(n)) < limit
    BY DEF FirstOf
  <2>4. Cardinality(below(m)) < limit
    BY <1>2, <2>2, <2>3
  <2>. QED
    BY <2>4 DEF FirstOf
<1>. QED
  BY <1>1, <1>3, <1>4, <1>5, <1>6, <1>7

(* What a page shows of what is left, and where it stops.                   *)
PageIs(L, R, limit, page) ==
  /\ L \in SUBSET R /\ page.items \in SUBSET L /\ page.items = FirstOf(L, limit)
  /\ page.nextCursor = 0 => page.items = L
  /\ page.nextCursor # 0 => /\ L # {} /\ page.nextCursor \in page.items
                            /\ \A n \in page.items : n <= page.nextCursor

(* A page shows all that is left, or stops at a row it shows.              *)
LEMMA CursorIs ==
  ASSUME NEW R \in SUBSET (1..Places), NEW c, NEW limit \in Nat \ {0}
  PROVE  PageIs(Left(R, c), R, limit, list(R, c, limit))
<1>. SUFFICES ASSUME NEW L, L = Left(R, c), NEW page, page = list(R, c, limit)
     PROVE  PageIs(L, R, limit, page)
  OBVIOUS
<1>. USE DEF PageIs
<1>1. L \in SUBSET R
  BY DEF Left
<1>2. page.items = FirstOf(L, limit)
      /\ page.nextCursor = IF Cardinality(L) > limit THEN Max(FirstOf(L, limit)) ELSE 0
  BY ListIs
<1>3. L \in SUBSET (1..Places)
  BY <1>1
<1>4. Cardinality(L) \in Nat /\ FirstOf(L, limit) \in SUBSET L
      /\ (Cardinality(L) <= limit => FirstOf(L, limit) = L) /\ (L # {} => FirstOf(L, limit) # {})
  BY <1>3, FirstOfIs
<1>5. CASE Cardinality(L) > limit
  <2>1. L # {}
    BY <1>5, FS_EmptySet
  <2>2. page.items \in SUBSET (1..Places) /\ page.items # {} /\ page.nextCursor = Max(page.items)
    BY <1>2, <1>3, <1>4, <1>5, <2>1
  <2>3. page.nextCursor \in page.items /\ \A n \in page.items : page.nextCursor >= n
    BY <2>2, MaxIs
  <2>4. page.nextCursor \in 1..Places /\ \A n \in page.items : n <= page.nextCursor
    BY <2>2, <2>3, ReportsAssumption
  <2>. QED
    BY <1>1, <1>2, <1>4, <2>1, <2>3, <2>4
<1>6. CASE ~ Cardinality(L) > limit
  BY <1>1, <1>2, <1>4, <1>6
<1>. QED
  BY <1>5, <1>6

(* Upward closed in R.                                                     *)
Tail(L, R) == L \subseteq R /\ \A n \in L, m \in R : n < m => m \in L

Above(R, c) == {n \in R : n > c}

(* What is left at a cursor: the rows after it, without the first of them  *)
(* when the cursor row is gone.                                            *)
LEMMA LeftIs ==
  ASSUME NEW R \in SUBSET (1..Places), NEW c \in Nat
  PROVE  /\ Left(R, 0) = R
         /\ c # 0 /\ c \in R => Left(R, c) = Above(R, c)
         /\ c # 0 => Tail(Left(R, c), R) /\ \A n \in Left(R, c) : n > c
         /\ c # 0 /\ c \notin R =>
              Left(R, c) = Above(R, c) \ (IF Above(R, c) # {} THEN {Min(Above(R, c))} ELSE {})
<1>1. R \in SUBSET Nat /\ \A n \in R : n \in Nat /\ n > 0
  BY ReportsAssumption
<1>2. PICK from, above : from = {n \in R : n >= c} /\ above = {n \in R : n > c}
  OBVIOUS
<1>3. Left(R, c) = IF c = 0 \/ from = {} THEN from ELSE from \ {Min(from)}
  BY <1>2 DEF Left
<1>4. from \in SUBSET Nat /\ above \in SUBSET R
  BY <1>1, <1>2
<1>5. Left(R, 0) = R
  <2>1. {n \in R : n >= 0} = R
    <3>1. \A n \in R : n >= 0
      BY <1>1
    <3>. QED
      BY <3>1
  <2>. QED
    BY <2>1 DEF Left
<1>6. ASSUME c # 0, c \in R PROVE Left(R, c) = above
  <2>1. c \in from /\ from # {}
    BY <1>2, <1>6
  <2>2. Min(from) \in from /\ \A m \in from : Min(from) <= m
    BY <1>4, <2>1, MinIs
  <2>3. Min(from) = c
    <3>1. PICK m : m = Min(from)
      OBVIOUS
    <3>2. m \in Nat /\ m <= c /\ m >= c
      BY <1>2, <1>4, <2>1, <2>2, <3>1
    <3>. QED
      BY <3>1, <3>2
  <2>4. from \ {c} = above
    <3>1. \A n \in R : n > c <=> n >= c /\ n # c
      BY <1>1
    <3>. QED
      BY <1>2, <3>1
  <2>. QED
    BY <1>3, <1>6, <2>1, <2>3, <2>4
<1>7. ASSUME c \notin R PROVE from = above
  <2>1. \A n \in R : n > c <=> n >= c
    BY <1>1, <1>7
  <2>. QED
    BY <1>2, <2>1
<1>8. ASSUME c # 0, c \notin R
      PROVE  Left(R, c) = above \ (IF above # {} THEN {Min(above)} ELSE {})
  BY <1>3, <1>7, <1>8
<1>9. ASSUME c # 0 PROVE Tail(Left(R, c), R) /\ \A n \in Left(R, c) : n > c
  <2>1. CASE c \in R \/ above = {}
    <3>1. Left(R, c) = above
      BY <1>6, <1>8, <1>9, <2>1
    <3>2. \A n \in above, m \in R : n < m => m > c
      BY <1>1, <1>2
    <3>. QED
      BY <1>2, <3>1, <3>2 DEF Tail
  <2>2. CASE c \notin R /\ above # {}
    <3>1. PICK x : x = Min(above)
      OBVIOUS
    <3>2. Left(R, c) = above \ {x} /\ x \in above /\ \A m \in above : x <= m
      BY <1>1, <1>4, <1>8, <1>9, <2>2, <3>1, MinIs
    <3>3. \A n \in above \ {x}, m \in R : n < m => m > c /\ m # x
      BY <1>1, <1>2, <3>2
    <3>. QED
      BY <1>2, <3>2, <3>3 DEF Tail
  <2>. QED
    BY <2>1, <2>2
<1>10. Above(R, c) = above
  BY <1>2 DEF Above
<1>. QED
  BY <1>5, <1>6, <1>8, <1>9, <1>10

PagesOf(R, limit, c, m, g) ==
  g = [k \in 1..m |-> list(R, IF k = 1 THEN c ELSE g[k - 1].nextCursor, limit)]

(* The recursive equation of the pages has a solution.                     *)
LEMMA PagesExist == \A R, limit, c : \A m \in Nat : \E g : PagesOf(R, limit, c, m, g)
<1>. SUFFICES ASSUME NEW R, NEW limit, NEW c PROVE \A m \in Nat : \E g : PagesOf(R, limit, c, m, g)
  OBVIOUS
<1>. DEFINE bad == {m \in Nat : ~ \E g : PagesOf(R, limit, c, m, g)}
<1>1. SUFFICES ASSUME bad # {} PROVE FALSE
  OBVIOUS
<1>2. PICK m \in bad : \A n \in bad : m <= n
  BY <1>1, LeastNumber
<1>3. CASE m = 0
  <2>1. PICK g : g = [k \in {} |-> 0]
    OBVIOUS
  <2>2. 1..0 = {}
    OBVIOUS
  <2>3. PagesOf(R, limit, c, 0, g)
    BY <2>1, <2>2 DEF PagesOf
  <2>. QED
    BY <1>2, <1>3, <2>3
<1>4. CASE m # 0
  <2>1. PICK p : p = m - 1
    OBVIOUS
  <2>2. p \in Nat /\ ~ m <= p /\ m \in Nat
    BY <1>2, <1>4, <2>1
  <2>3. PICK g : PagesOf(R, limit, c, p, g)
    BY <1>2, <2>2
  <2>4. \A k \in 1..p : g[k] = list(R, IF k = 1 THEN c ELSE g[k - 1].nextCursor, limit)
    BY <2>3 DEF PagesOf
  <2>5. PICK h : h = [k \in 1..m |-> IF k = m THEN list(R, IF m = 1 THEN c ELSE g[p].nextCursor, limit)
                                     ELSE g[k]]
    OBVIOUS
  <2>6. ASSUME NEW k \in 1..m PROVE h[k] = list(R, IF k = 1 THEN c ELSE h[k - 1].nextCursor, limit)
    <3>1. k # 1 => k - 1 \in 1..m /\ k - 1 # m
      BY <2>2
    <3>2. k # 1 => h[k - 1] = g[k - 1]
      BY <2>5, <3>1
    <3>3. CASE k = m
      BY <2>1, <2>5, <3>2, <3>3
    <3>4. CASE k # m
      <4>1. k \in 1..p /\ h[k] = g[k]
        BY <2>1, <2>2, <2>5, <3>4
      <4>. QED
        BY <2>4, <3>2, <4>1
    <3>. QED
      BY <3>3, <3>4
  <2>7. h = [k \in 1..m |-> list(R, IF k = 1 THEN c ELSE h[k - 1].nextCursor, limit)]
    <3>1. h = [k \in 1..m |-> h[k]]
      BY <2>5
    <3>. QED
      BY <2>6, <3>1
  <2>8. PagesOf(R, limit, c, m, h)
    BY <2>7 DEF PagesOf
  <2>. QED
    BY <1>2, <2>8
<1>. QED
  BY <1>3, <1>4

IsRead(page, k) == k = 1 \/ \A j \in 1..k - 1 : page[j].nextCursor # 0

(* What following the cursor reads, in these terms.                        *)
LEMMA FollowedPages ==
  ASSUME NEW R, NEW limit, NEW c
  PROVE  \E page : /\ PagesOf(R, limit, c, Places, page)
                   /\ Followed(R, limit, c) = UNION {page[k].items : k \in {k \in 1..Places : IsRead(page, k)}}
<1>1. \E g : PagesOf(R, limit, c, Places, g)
  BY PagesExist, ReportsAssumption
<1>2. PICK page : page = CHOOSE g : PagesOf(R, limit, c, Places, g)
  OBVIOUS
<1>3. PagesOf(R, limit, c, Places, page)
  BY <1>1, <1>2
<1>4. Followed(R, limit, c) = UNION {page[k].items : k \in {k \in 1..Places : IsRead(page, k)}}
  BY <1>2 DEF Followed, PagesOf, IsRead
<1>. QED
  BY <1>3, <1>4

(* Where the k-th page starts.                                             *)
StartOf(page, c, k) == IF k = 1 THEN c ELSE page[k - 1].nextCursor

(* Up to page k: the cursor is on a row, and what was left at the start is *)
(* on the pages before, or still left, one row fewer for every page.       *)
PageInv(R, page, c, k) ==
  LET L == Left(R, StartOf(page, c, k)) IN
  /\ StartOf(page, c, k) \in 1..Places
  /\ L \subseteq Left(R, c) /\ Tail(L, R)
  /\ \A n \in Left(R, c) : n \in L \/ \E j \in 1..k - 1 : n \in page[j].items
  /\ Cardinality(L) + k <= Places

(* It holds of the first page, and of every page that is asked for.        *)
LEMMA FirstPageInv ==
  ASSUME NEW R \in SUBSET (1..Places), NEW c \in 1..Places, NEW page
  PROVE  PageInv(R, page, c, 1)
<1>1. Places \in Nat /\ c \in Nat /\ c >= 1 /\ c # 0
  BY ReportsAssumption
<1>2. StartOf(page, c, 1) = c
  BY DEF StartOf
<1>3. PICK L : L = Left(R, c)
  OBVIOUS
<1>4. Tail(L, R) /\ \A n \in L : n > c
  BY <1>1, <1>3, LeftIs
<1>5. L \in SUBSET (2..Places)
  <2>1. \A n \in L : n \in 1..Places /\ n > c
    BY <1>4 DEF Tail
  <2>. QED
    BY <1>1, <2>1
<1>6. Cardinality(L) + 1 <= Places
  <2>1. IsFiniteSet(2..Places) /\ Cardinality(2..Places) = IF 2 > Places THEN 0 ELSE Places - 2 + 1
    BY <1>1, FS_Interval
  <2>2. Cardinality(L) <= Cardinality(2..Places) /\ Cardinality(L) \in Nat
    BY <1>5, <2>1, FS_Subset, FS_CardinalityType
  <2>3. Places >= 1
    BY ReportsAssumption
  <2>. QED
    BY <1>1, <2>1, <2>2, <2>3
<1>. QED
  BY <1>2, <1>3, <1>4, <1>6 DEF PageInv

LEMMA NextPageInv ==
  ASSUME NEW R \in SUBSET (1..Places), NEW c \in 1..Places, NEW limit \in Nat \ {0},
         NEW page, PagesOf(R, limit, c, Places, page),
         NEW k \in 1..Places, k # Places, PageInv(R, page, c, k), page[k].nextCursor # 0
  PROVE  PageInv(R, page, c, k + 1)
<1>1. Places \in Nat /\ k \in Nat /\ k + 1 \in 1..Places /\ k + 1 # 1 /\ (k + 1) - 1 = k /\ k >= 1
  BY ReportsAssumption
<1>2. PICK L, I, x, M : /\ L = Left(R, StartOf(page, c, k)) /\ I = page[k].items
                        /\ x = page[k].nextCursor /\ M = Left(R, x)
  OBVIOUS
<1>3. StartOf(page, c, k + 1) = x
  BY <1>1, <1>2 DEF StartOf
<1>4. page[k] = list(R, StartOf(page, c, k), limit)
  BY DEF PagesOf, StartOf
<1>5. /\ L \in SUBSET R /\ I \in SUBSET L /\ I = FirstOf(L, limit)
      /\ L # {} /\ x \in I /\ \A n \in I : n <= x
  <2>1. PICK s, p : s = StartOf(page, c, k) /\ p = page[k]
    OBVIOUS
  <2>2. L = Left(R, s) /\ p = list(R, s, limit) /\ p.nextCursor # 0 /\ I = p.items /\ x = p.nextCursor
    BY <1>2, <1>4, <2>1
  <2>3. PageIs(L, R, limit, p)
    BY <2>2, CursorIs
  <2>. QED
    BY <2>2, <2>3 DEF PageIs
<1>6. /\ L \subseteq Left(R, c) /\ Tail(L, R) /\ Cardinality(L) + k <= Places
      /\ \A n \in Left(R, c) : n \in L \/ \E j \in 1..k - 1 : n \in page[j].items
  BY <1>2 DEF PageInv
<1>7. L \in SUBSET (1..Places) /\ \A n \in L : n \in Nat /\ n >= 1
  BY <1>1, <1>5
<1>8. x \in R /\ x \in Nat /\ x # 0 /\ x \in 1..Places
  BY <1>5, <1>7
<1>9. M = {n \in R : n > x} /\ Tail(M, R)
  BY <1>2, <1>8, LeftIs DEF Above
<1>10. \A n \in I, m \in L : m < n => m \in I
  BY <1>5, <1>7, FirstOfIs
<1>11. M = L \ I
  <2>1. ASSUME NEW n \in M PROVE n \in L \ I
    <3>1. n \in R /\ n > x /\ n \in Nat
      BY <1>1, <1>9, <2>1
    <3>2. n \in L
      BY <1>5, <1>6, <1>8, <3>1 DEF Tail
    <3>3. n \notin I
      BY <1>5, <1>8, <3>1
    <3>. QED
      BY <3>2, <3>3
  <2>2. ASSUME NEW n \in L \ I PROVE n \in M
    <3>1. n \in R /\ n \in Nat
      BY <1>5, <1>7
    <3>2. ~ n < x /\ n # x
      BY <1>5, <1>10, <2>2
    <3>. QED
      BY <1>8, <1>9, <3>1, <3>2
  <2>. QED
    BY <2>1, <2>2
<1>12. Cardinality(M) + (k + 1) <= Places
  <2>1. Cardinality(L \ I) < Cardinality(L) /\ Cardinality(L \ I) \in Nat /\ Cardinality(L) \in Nat
    BY <1>5, <1>7, FirstOfIs
  <2>. QED
    BY <1>1, <1>6, <1>11, <2>1
<1>13. ASSUME NEW n \in Left(R, c) PROVE n \in M \/ \E j \in 1..(k + 1) - 1 : n \in page[j].items
  <2>1. CASE n \in L
    <3>1. n \in M \/ n \in page[k].items
      BY <1>2, <1>11, <2>1
    <3>2. k \in 1..(k + 1) - 1
      BY <1>1
    <3>. QED
      BY <3>1, <3>2
  <2>2. CASE n \notin L
    <3>1. PICK j \in 1..k - 1 : n \in page[j].items
      BY <1>6, <2>2
    <3>2. j \in 1..(k + 1) - 1
      BY <1>1
    <3>. QED
      BY <3>1, <3>2
  <2>. QED
    BY <2>1, <2>2
<1>14. M \subseteq Left(R, c)
  BY <1>6, <1>11
<1>. QED
  BY <1>2, <1>3, <1>8, <1>9, <1>12, <1>13, <1>14 DEF PageInv

(* Following the cursor reads what was left at the start.                  *)
LEMMA FollowedIs ==
  ASSUME NEW R \in SUBSET (1..Places), NEW c \in 1..Places, NEW limit \in Nat \ {0}
  PROVE  Followed(R, limit, c) = Left(R, c)
<1>1. PICK page : /\ PagesOf(R, limit, c, Places, page)
                  /\ Followed(R, limit, c) = UNION {page[k].items : k \in {k \in 1..Places : IsRead(page, k)}}
  BY FollowedPages
<1>2. Places \in Nat /\ Places >= 1
  BY ReportsAssumption
<1>3. ASSUME NEW k \in 1..Places
      PROVE  LET L == Left(R, StartOf(page, c, k)) IN
             /\ page[k].items \in SUBSET L /\ L \in SUBSET (1..Places)
             /\ page[k].nextCursor = 0 => page[k].items = L
             /\ page[k].nextCursor # 0 => L # {}
  <2>1. page[k] = list(R, StartOf(page, c, k), limit)
    BY <1>1 DEF PagesOf, StartOf
  <2>2. PICK L : L = Left(R, StartOf(page, c, k))
    OBVIOUS
  <2>3. PageIs(L, R, limit, page[k])
    BY <2>1, <2>2, CursorIs
  <2>. QED
    BY <2>2, <2>3 DEF PageIs
<1>4. ASSUME NEW k \in 1..Places, IsRead(page, k) PROVE PageInv(R, page, c, k)
  <2>. DEFINE bad == {n \in 1..Places : IsRead(page, n) /\ ~ PageInv(R, page, c, n)}
  <2>1. SUFFICES ASSUME bad # {} PROVE FALSE
    BY <1>4
  <2>2. PICK n \in bad : \A m \in bad : n <= m
    <3>1. bad \in SUBSET Nat
      OBVIOUS
    <3>. QED
      BY <2>1, <3>1, LeastNumber
  <2>3. n \in 1..Places /\ n \in Nat /\ IsRead(page, n) /\ ~ PageInv(R, page, c, n)
    BY <2>2
  <2>4. n # 1
    BY <2>3, FirstPageInv
  <2>5. PICK p : p = n - 1
    OBVIOUS
  <2>6. p \in 1..Places /\ p # Places /\ p + 1 = n /\ ~ n <= p /\ p \in 1..n - 1 /\ 1..p - 1 \subseteq 1..n - 1
    BY <1>2, <2>3, <2>4, <2>5
  <2>7. page[p].nextCursor # 0 /\ IsRead(page, p)
    BY <2>3, <2>4, <2>6 DEF IsRead
  <2>8. PageInv(R, page, c, p)
    BY <2>2, <2>6, <2>7
  <2>9. PageInv(R, page, c, p + 1)
    BY <1>1, <2>6, <2>7, <2>8, NextPageInv
  <2>. QED
    BY <2>3, <2>6, <2>9
<1>5. Followed(R, limit, c) \subseteq Left(R, c)
  <2>1. ASSUME NEW k \in 1..Places, IsRead(page, k) PROVE page[k].items \subseteq Left(R, c)
    BY <1>3, <1>4, <2>1 DEF PageInv
  <2>. QED
    BY <1>1, <2>1
<1>. DEFINE last == {k \in 1..Places : page[k].nextCursor = 0}
<1>6. last # {}
  <2>1. SUFFICES ASSUME last = {} PROVE FALSE
    OBVIOUS
  <2>2. \A k \in 1..Places : page[k].nextCursor # 0
    BY <2>1
  <2>3. Places \in 1..Places /\ 1..Places - 1 \subseteq 1..Places
    BY <1>2
  <2>4. IsRead(page, Places)
    BY <2>2, <2>3 DEF IsRead
  <2>5. PICK L : L = Left(R, StartOf(page, c, Places))
    OBVIOUS
  <2>6. Cardinality(L) + Places <= Places
    BY <1>4, <2>3, <2>4, <2>5 DEF PageInv
  <2>7. L # {} /\ L \in SUBSET (1..Places)
    BY <1>3, <2>2, <2>3, <2>5
  <2>8. IsFiniteSet(L) /\ Cardinality(L) \in Nat
    BY <2>7, FirstOfIs
  <2>9. Cardinality(L) = 0
    BY <1>2, <2>6, <2>8
  <2>. QED
    BY <2>7, <2>8, <2>9, FS_EmptySet
<1>7. PICK k \in last : \A m \in last : k <= m
  <2>1. last \in SUBSET Nat
    OBVIOUS
  <2>. QED
    BY <1>6, <2>1, LeastNumber
<1>8. \A j \in 1..k : j \in 1..Places /\ IsRead(page, j)
  <2>1. ASSUME NEW j \in 1..k PROVE j \in 1..Places /\ IsRead(page, j)
    <3>1. j \in 1..Places
      BY <1>2, <1>7, <2>1
    <3>2. ASSUME NEW i \in 1..j - 1 PROVE page[i].nextCursor # 0
      <4>1. i \in 1..Places /\ ~ k <= i
        BY <1>2, <1>7, <2>1, <3>2
      <4>. QED
        BY <1>7, <4>1
    <3>. QED
      BY <3>1, <3>2 DEF IsRead
  <2>. QED
    BY <2>1
<1>9. ASSUME NEW n \in Left(R, c) PROVE n \in Followed(R, limit, c)
  <2>1. k \in 1..k /\ 1..k - 1 \subseteq 1..k /\ k \in 1..Places
    BY <1>2, <1>7
  <2>2. PageInv(R, page, c, k) /\ page[k].items = Left(R, StartOf(page, c, k))
    BY <1>3, <1>4, <1>7, <1>8, <2>1
  <2>3. \E j \in 1..k : n \in page[j].items
    BY <2>1, <2>2 DEF PageInv
  <2>. QED
    BY <1>1, <1>8, <2>3
<1>. QED
  BY <1>5, <1>9

(* The pages show each row once.                                           *)
LEMMA PagesHold == PagesAgree
<1>. SUFFICES ASSUME NEW listed \in SUBSET (1..Places), NEW gone \in SUBSET (1..Places),
                     NEW limit \in 1..Places - 1
     PROVE  LET first == list(listed, 0, limit)
                after == {n \in listed \ gone : n > first.nextCursor}
                lost  == IF first.nextCursor \in gone /\ after # {} THEN {Min(after)} ELSE {}
            IN  IF first.nextCursor = 0 THEN first.items = listed
                ELSE Followed(listed \ gone, limit, first.nextCursor) = after \ lost
  BY DEF PagesAgree
<1>1. limit \in Nat \ {0} /\ 0 \in Nat
  BY ReportsAssumption
<1>2. PICK first, c, R, after : /\ first = list(listed, 0, limit) /\ c = first.nextCursor
                                /\ R = listed \ gone /\ after = Above(R, c)
  OBVIOUS
<1>3. Left(listed, 0) = listed
  BY <1>1, LeftIs
<1>4. (c = 0 => first.items = listed) /\ (c # 0 => c \in listed)
  <2>1. PICK z : z = 0
    OBVIOUS
  <2>2. listed = Left(listed, z) /\ first = list(listed, z, limit)
    BY <1>2, <1>3, <2>1
  <2>3. PageIs(listed, listed, limit, first)
    BY <1>1, <2>2, CursorIs
  <2>. QED
    BY <1>2, <2>3 DEF PageIs
<1>5. ASSUME c # 0 PROVE Followed(R, limit, c) = after \ (IF c \in gone /\ after # {} THEN {Min(after)} ELSE {})
  <2>1. c \in listed
    BY <1>4, <1>5
  <2>2. R \in SUBSET (1..Places) /\ c \in 1..Places /\ (c \in R <=> c \notin gone)
    BY <1>2, <2>1
  <2>3. c \in Nat
    BY <2>2, ReportsAssumption
  <2>4. Followed(R, limit, c) = Left(R, c)
    BY <1>1, <2>2, FollowedIs
  <2>5. CASE c \in gone
    <3>1. Left(R, c) = Above(R, c) \ (IF Above(R, c) # {} THEN {Min(Above(R, c))} ELSE {})
      BY <1>5, <2>2, <2>3, <2>5, LeftIs
    <3>. QED
      BY <1>2, <2>4, <2>5, <3>1
  <2>6. CASE c \notin gone
    <3>1. Left(R, c) = Above(R, c)
      BY <1>5, <2>2, <2>3, <2>6, LeftIs
    <3>. QED
      BY <1>2, <2>4, <2>6, <3>1
  <2>. QED
    BY <2>5, <2>6
<1>6. after = {n \in listed \ gone : n > first.nextCursor}
  BY <1>2 DEF Above
<1>. QED
  BY <1>2, <1>4, <1>5, <1>6

-----------------------------------------------------------------------------
(* The reports *)

(* The invariant holds at the start.                                       *)
LEMMA InitReports == Init => ReportsInv
<1>. SUFFICES ASSUME Init PROVE ReportsInv
  OBVIOUS
<1>1. AccountsUsed = {}
  BY DEF Init, AccountsUsed
<1>. QED
  BY <1>1, InitIInv, FS_EmptySet DEF ReportsInv

(* A request creates at most one account.                                  *)
LEMMA AccountsStep == TypeOK /\ Next => \E a : AccountsUsed' \subseteq AccountsUsed \union {a}
<1>. SUFFICES ASSUME TypeOK, Next PROVE \E a : AccountsUsed' \subseteq AccountsUsed \union {a}
  OBVIOUS
<1>1. CASE UNCHANGED accountState
  BY <1>1 DEF AccountsUsed
<1>2. ASSUME NEW a \in Accounts, NEW o \in Openings, CreateAccount(a, o)
      PROVE  AccountsUsed' \subseteq AccountsUsed \union {a}
  BY <1>2 DEF CreateAccount, AccountsUsed, TypeOK
<1>3. ASSUME NEW a \in Accounts, RemoveAccount(a)
      PROVE  AccountsUsed' \subseteq AccountsUsed \union {a}
  BY <1>3 DEF RemoveAccount, AccountsUsed, TypeOK
<1>4. ASSUME NEW t, NEW a, NEW type, NEW n, NEW s, CreateTx(t, a, type, n, s) PROVE UNCHANGED accountState
  BY <1>4 DEF CreateTx, accountVars
<1>5. ASSUME NEW t, NEW f, NEW a, NEW type, NEW n, NEW fee, CreateTxWithFee(t, f, a, type, n, fee) PROVE UNCHANGED accountState
  BY <1>5 DEF CreateTxWithFee, accountVars
<1>6. ASSUME NEW out, NEW in, NEW from, NEW to, NEW n, Transfer(out, in, from, to, n) PROVE UNCHANGED accountState
  BY <1>6 DEF Transfer, accountVars
<1>7. ASSUME NEW out, NEW in, NEW f, NEW from, NEW to, NEW n, NEW fee, TransferWithFee(out, in, f, from, to, n, fee) PROVE UNCHANGED accountState
  BY <1>7 DEF TransferWithFee, accountVars
<1>8. ASSUME NEW t, NEW a, NEW n, UpdateTx(t, a, n) PROVE UNCHANGED accountState
  BY <1>8 DEF UpdateTx, accountVars
<1>9. ASSUME NEW t, NEW f, NEW a, NEW n, UpdateDropFee(t, f, a, n) PROVE UNCHANGED accountState
  BY <1>9 DEF UpdateDropFee, accountVars
<1>10. ASSUME NEW t, NEW f, NEW a, NEW n, NEW fee, UpdateChangeFee(t, f, a, n, fee) PROVE UNCHANGED accountState
  BY <1>10 DEF UpdateChangeFee, accountVars
<1>11. ASSUME NEW t, NEW f, NEW a, NEW n, NEW fee, UpdateAddFee(t, f, a, n, fee) PROVE UNCHANGED accountState
  BY <1>11 DEF UpdateAddFee, accountVars
<1>12. ASSUME NEW t, NEW allow, RemoveTx(t, allow) PROVE UNCHANGED accountState
  BY <1>12 DEF RemoveTx, accountVars
<1>13. ASSUME NEW t, RemoveTransfer(t) PROVE UNCHANGED accountState
  BY <1>13 DEF RemoveTransfer, accountVars
<1>14. ASSUME NEW a, NEW actual, NEW t, Reconcile(a, actual, t) PROVE UNCHANGED accountState
  BY <1>14 DEF Reconcile, CreateTx, accountVars
<1>. QED
  BY <1>1, <1>2, <1>3, <1>4, <1>5, <1>6, <1>7, <1>8, <1>9, <1>10, <1>11, <1>12, <1>13, <1>14 DEF Next

(* Every request preserves the invariant.                                  *)
LEMMA ReportsStep == ReportsInv /\ [Next]_vars => ReportsInv'
<1>. SUFFICES ASSUME ReportsInv, [Next]_vars PROVE ReportsInv'
  OBVIOUS
<1>1. IInv'
  BY StepIInv DEF ReportsInv
<1>2. IsFiniteSet(AccountsUsed')
  <2>1. CASE Next
    <3>1. PICK a : AccountsUsed' \subseteq AccountsUsed \union {a}
      BY <2>1, AccountsStep DEF ReportsInv, IInv, Structure
    <3>2. IsFiniteSet(AccountsUsed \union {a})
      BY FS_AddElement DEF ReportsInv
    <3>. QED
      BY <3>1, <3>2, FS_Subset
  <2>2. CASE UNCHANGED vars
    <3>1. AccountsUsed' = AccountsUsed
      BY <2>2 DEF vars, AccountsUsed
    <3>. QED
      BY <3>1 DEF ReportsInv
  <2>. QED
    BY <2>1, <2>2
<1>. QED
  BY <1>1, <1>2 DEF ReportsInv

(* The reports agree in every state of the invariant.                      *)
LEMMA ReportsFollow == ReportsInv => ReportsAgree
<1>. SUFFICES ASSUME ReportsInv PROVE ReportsAgree
  OBVIOUS
<1>1. SummaryAgrees /\ ListAgrees /\ PagesAgree
  BY SummaryHolds, ListHolds, PagesHold DEF ReportsInv
<1>2. \A cur \in [Accounts -> Currencies], rate \in UsableRates : WorthExplained(cur, rate)
  BY WorthHolds
<1>. QED
  BY <1>1, <1>2 DEF ReportsAgree

(* RG-T5, RG-A10, RG-RP3: for any accounts, rows, amounts, currencies and  *)
(* rates, the net worth, the month, the spending by category, the list of  *)
(* accounts, the summary and the pages of the list agree with each other   *)
(* and with the balances.                                                  *)
THEOREM ReportsHold == Spec => []ReportsAgree
<1>1. Init => ReportsInv
  BY InitReports
<1>2. ReportsInv /\ [Next]_vars => ReportsInv'
  BY ReportsStep
<1>3. ReportsInv => ReportsAgree
  BY ReportsFollow
<1>. QED
  BY <1>1, <1>2, <1>3, PTL DEF Spec
=============================================================================
