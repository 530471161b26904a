------------------------------ MODULE Reports ------------------------------
(***************************************************************************)
(* What `reporting`, the list of accounts and the list and the summary of  *)
(* transactions compute from the ledger: sums over rows by currency, each  *)
(* converted at one rate and rounded.  A row is in the currency of its     *)
(* account (RG-T2; an account keeps its currency).  The ledger has no      *)
(* categories and no dates: rows are filed under what made them, and all   *)
(* lie in the range that is asked; the debts of the net worth are left     *)
(* out.                                                                    *)
(***************************************************************************)
EXTENDS Ledger, FiniteSetsExt

CONSTANTS
  Base, Foreign,  \* the user's baseCurrency, and another one
  RateTables,     \* bound: the stored rates from Foreign to Base, as sets of candidates
  Instants,       \* bound: the days a rate is asked for
  Places          \* bound: the rows of a list

(* A rate is a fraction that includes the powers of ten of the minor units. *)
ASSUME ReportsAssumption ==
  /\ Places \in Nat \ {0}
  /\ Base # Foreign
  /\ \A c \in UNION RateTables :
       /\ {c.num, c.den} \subseteq Nat \ {0}
       /\ c.source \in {"PEGGED", "MANUAL", "PROVIDER"}

Currencies == {Base, Foreign}

-----------------------------------------------------------------------------
(* Rates *)

(* A pegged rate, or else the most recent one that is valid; the report is *)
(* refused when there is none.                                             *)
resolveRate(table, at) ==
  LET pegged     == {c \in table : c.source = "PEGGED"}
      applicable == {c \in table : c.validFrom <= at}
  IN  IF pegged # {} THEN pegged
      ELSE {c \in applicable : \A d \in applicable : d.validFrom <= c.validFrom}

UsableRates == UNION {resolveRate(table, at) : table \in RateTables, at \in Instants}

(* To the nearest, a half to the even one, alike on both sides of zero. *)
bankersRoundDiv(n, d) ==
  LET size   == IF n < 0 THEN -n ELSE n
      twice  == 2 * (size % d)
      result == IF twice > d \/ (twice = d /\ (size \div d) % 2 = 1)
                THEN size \div d + 1 ELSE size \div d
  IN  IF n < 0 THEN -result ELSE result

convert(n, currency, rate) ==
  IF currency = Base THEN n ELSE bankersRoundDiv(n * rate.num, rate.den)

-----------------------------------------------------------------------------
(* Reports.  cur gives each account its currency. *)

Rows(type) == {t \in LiveRows(tx) : tx[t].type = type /\ tx[t].group = NoTx}

In(S, cur, c) == {t \in S : cur[tx[t].account] = c}

consolidateToBase(S, cur, rate) ==
  Total(tx, In(S, cur, Base)) + convert(Total(tx, In(S, cur, Foreign)), Foreign, rate)

Adjusted == {t \in Rows("EXPENSE") : tx[t].source = "ADJUSTMENT"}

AnySource == Rows("EXPENSE")

Identified == {t \in Rows("EXPENSE") : tx[t].source # "ADJUSTMENT"}

Groups == {tx[t].source : t \in Identified}

Filed(s) == {t \in Identified : tx[t].source = s}

spendingByCategory(cur, rate) ==
  [total       |-> SumFunction([s \in Groups |-> consolidateToBase(Filed(s), cur, rate)]),
   unaccounted |-> consolidateToBase(Adjusted, cur, rate)]

monthly(cur, rate) ==
  [income  |-> consolidateToBase(Rows("INCOME"), cur, rate),
   expense |-> consolidateToBase(Rows("EXPENSE"), cur, rate)]

LiveAccounts == {a \in Accounts : AccountLive(a)}

netWorth(cur, rate) ==
  SumFunction([a \in LiveAccounts |-> convert(balance[a], cur[a], rate)])

(* The list of accounts. *)
entries(a) == Total(tx, OnAccount(tx, Txs, a, "INCOME"))
exits(a)   == Total(tx, OnAccount(tx, Txs, a, "EXPENSE"))

(* The summary of the list of transactions, which converts nothing. *)
summary ==
  LET legs == {t \in LiveRows(tx) : tx[t].group # NoTx} IN
  [expense |-> Total(tx, Rows("EXPENSE")), income |-> Total(tx, Rows("INCOME")),
   transfer |-> Total(tx, {t \in legs : tx[t].type = "EXPENSE"}), legs |-> Cardinality(legs)]

-----------------------------------------------------------------------------
(* The list of transactions *)

TypeFilters == {"EXPENSE", "INCOME", "TRANSFER"}

where(type) ==
  {t \in LiveRows(tx) : IF type = "TRANSFER" THEN tx[t].group # NoTx
                        ELSE tx[t].type = type /\ tx[t].group = NoTx}

(* One page of it.  `listed` are the positions of the rows it shows, in    *)
(* its order; 0 is no cursor.  The database starts at the place of the     *)
(* cursor row, deleted or not, and skips one row.                          *)
list(listed, cursor, limit) ==
  LET from  == {n \in listed : n >= cursor}
      left  == IF cursor = 0 \/ from = {} THEN from ELSE from \ {Min(from)}
      items == {n \in left : Cardinality({m \in left : m < n}) < limit}
  IN  [items |-> items, nextCursor |-> IF Cardinality(left) > limit THEN Max(items) ELSE 0]

(* All that is read by following the cursor from one page on. *)
Followed(listed, limit, cursor) ==
  LET page[k \in 1..Places] ==
        list(listed, IF k = 1 THEN cursor ELSE page[k - 1].nextCursor, limit)
      read == {k \in 1..Places : k = 1 \/ \A j \in 1..k - 1 : page[j].nextCursor # 0}
  IN  UNION {page[k].items : k \in read}

-----------------------------------------------------------------------------
(* Properties *)

Within(x, rate, roundings) == 2 * (IF x < 0 THEN -x ELSE x) <= rate.den * roundings

(* The legs of transfers between currencies: both carry the same number. *)
Crossing(cur) ==
  {t \in LiveRows(tx) : tx[t].group # NoTx /\
     \E u \in legsOf(tx, tx[t].group) : cur[tx[u].account] # cur[tx[t].account]}

(* Amounts in units of 1 / rate.den of the base currency: nothing rounds. *)
Exact(n, currency, rate) == n * (IF currency = Base THEN rate.den ELSE rate.num)

Opened(cur, rate) == SumFunction([a \in LiveAccounts |-> Exact(opening[a], cur[a], rate)])

Crossed(cur, rate) ==
  SumFunction([t \in Crossing(cur) |->
                 Exact(balanceDelta(tx[t].type, tx[t].amount), cur[tx[t].account], rate)])

(* RG-T5, RG-A10, RG-RP3: the net worth is what the accounts opened with,  *)
(* plus the income, less the spending by category and the unaccounted      *)
(* line, to half a unit for every conversion; no transfer weighs in, but   *)
(* one between two currencies.                                             *)
WorthExplained(cur, rate) ==
  LET month   == monthly(cur, rate)
      spent   == spendingByCategory(cur, rate)
      foreign == {a \in LiveAccounts : cur[a] = Foreign}
  IN  /\ Within(rate.den * (netWorth(cur, rate) - month.income + month.expense)
                  - Opened(cur, rate) - Crossed(cur, rate),
                rate, Cardinality(foreign) + 2)
      /\ Within(rate.den * (month.expense - spent.total - spent.unaccounted),
                rate, Cardinality(Groups) + 2)

(* The list of accounts and the summary count every row once, transfers    *)
(* on both sides.                                                          *)
SummaryAgrees ==
  /\ \A a \in LiveAccounts : entries(a) - exits(a) = balance[a] - opening[a]
  /\ summary.income + summary.transfer = SumFunction([a \in LiveAccounts |-> entries(a)])
  /\ summary.expense + summary.transfer = SumFunction([a \in LiveAccounts |-> exits(a)])

(* The list shows every row under one type, as the summary counts it, and  *)
(* its pages show each row once; when rows are deleted between two pages,  *)
(* one of which is the cursor, the row after it is not shown.              *)
ListAgrees ==
  /\ \A t \in LiveRows(tx) : \E type \in TypeFilters :
       t \in where(type) /\ \A other \in TypeFilters \ {type} : t \notin where(other)
  /\ summary.expense = Total(tx, where("EXPENSE")) /\ summary.legs = Cardinality(where("TRANSFER"))

PagesAgree ==
  \A listed \in SUBSET (1..Places), gone \in SUBSET (1..Places), limit \in 1..Places - 1 :
    LET first == list(listed, 0, limit)
        after == {n \in listed \ gone : n > first.nextCursor}
        lost  == IF first.nextCursor \in gone /\ after # {} THEN {Min(after)} ELSE {}
    IN  IF first.nextCursor = 0 THEN first.items = listed
        ELSE Followed(listed \ gone, limit, first.nextCursor) = after \ lost

(* The reports agree with each other and with the balances, whatever was   *)
(* entered, moved, adjusted and deleted, at any rate and whatever the      *)
(* currencies of the accounts.                                             *)
ReportsAgree ==
  /\ SummaryAgrees /\ ListAgrees /\ PagesAgree
  /\ \A cur \in [Accounts -> Currencies], rate \in UsableRates : WorthExplained(cur, rate)

=============================================================================
