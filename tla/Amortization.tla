---------------------------- MODULE Amortization ----------------------------
(***************************************************************************)
(* The amortization engine of `debts`, exactly: what Debts takes for "any  *)
(* list of lines" is computed here.  A periodic rate is a fraction; where  *)
(* the code rounds a floating-point number, the fraction is rounded, and   *)
(* the two differ only when the floating-point error reaches a half.       *)
(***************************************************************************)
EXTENDS Debts

CONSTANTS
  Principals,     \* bound: amounts that are amortized
  Rates,          \* bound: numerators of the periodic rate
  RateUnit,       \* its denominator
  MaxPeriods      \* maxPeriods, 1200 in the code

ASSUME EngineAssumption ==
  /\ Principals \subseteq Nat \ {0} /\ Rates \subseteq Nat
  /\ {RateUnit, MaxPeriods} \subseteq Nat \ {0}

-----------------------------------------------------------------------------
(* Arithmetic *)

(* bankersRoundToBigInt(): to the nearest, a half to the even one. *)
Round(n, d) ==
  LET floor == n \div d
      twice == 2 * (n % d)
  IN  IF twice < d \/ (twice = d /\ floor % 2 = 0) THEN floor ELSE floor + 1

Power(base, n) == LET p[k \in 0..n] == IF k = 0 THEN 1 ELSE base * p[k - 1] IN p[n]

Interest(balance, rate) == Round(balance * rate, RateUnit)

(* principal * i / (1 - (1 + i)^-n), or principal / n. *)
Annuity(principal, rate, n) ==
  LET growth == Power(RateUnit + rate, n) IN
  IF rate > 0 THEN Round(principal * rate * growth, RateUnit * (growth - Power(RateUnit, n)))
              ELSE Round(principal, n)

Line(principal, interest) ==
  [status |-> "SCHEDULED", principal |-> principal, interest |-> interest, paid |-> 0]

-----------------------------------------------------------------------------
(* Schedules: sequence -> line.  part[k][balance] is the principal of the  *)
(* k-th line, from the balance before it.                                  *)

Balances(principal, n, part) ==
  LET b[k \in 0..n] == IF k = 0 THEN principal ELSE b[k - 1] - part[k][b[k - 1]] IN b

Schedule(principal, rate, n, first, part) ==
  LET before == Balances(principal, n, part) IN
  [s \in first..first + n - 1 |->
     Line(part[s - first + 1][before[s - first]], Interest(before[s - first], rate))]

AsComputed(k, n, balance, computed) == IF computed > balance THEN balance ELSE computed

(* RG-D1, RG-D2: the last line absorbs the rounding. *)
Share(k, n, balance, computed) ==
  IF k = n \/ computed > balance THEN balance ELSE computed

(* generateForCount(); generateForRemainingCount() with another n. *)
ForCount(principal, rate, n, first) ==
  LET installment == Annuity(principal, rate, n)
      part == [k \in 1..n |-> [balance \in 0..principal |->
                 Share(k, n, balance, installment - Interest(balance, rate))]]
  IN  Schedule(principal, rate, n, first, part)

(* generateFixedInstallmentSchedule(): until nothing is left, or the cap. *)
FixedInstallment(principal, rate, installment, first) ==
  LET part == [k \in 1..MaxPeriods |-> [balance \in 0..principal |->
                 minOf(balance, IF installment > Interest(balance, rate)
                                THEN installment - Interest(balance, rate) ELSE 0)]]
      after == Balances(principal, MaxPeriods, part)
      n == CHOOSE n \in 1..MaxPeriods :
             /\ after[n] = 0 \/ n = MaxPeriods
             /\ \A k \in 1..n - 1 : after[k] > 0
  IN  Schedule(principal, rate, n, first, part)

InterestOf(lines) == SumOver(DOMAIN lines, [s \in DOMAIN lines |-> lines[s].interest])

AtLeastOne(n) == IF n < 1 THEN 1 ELSE n

(* What an extra payment would save, when `scheduled` is what was due.  A  *)
(* debt without an installment (0) gets an even one.                       *)
simulatePayoff(outstanding, extra, rate, installment, scheduled) ==
  LET left  == outstanding - extra
      even  == Round(left, AtLeastOne(Cardinality(DOMAIN scheduled)))
      lines == FixedInstallment(left, rate, IF installment = 0 THEN even ELSE installment, 1)
  IN  IF left <= 0 THEN [count |-> 0, saved |-> InterestOf(scheduled)]
      ELSE [count |-> Cardinality(DOMAIN lines), saved |-> InterestOf(scheduled) - InterestOf(lines)]

-----------------------------------------------------------------------------
(* Properties *)

RepaidBy(lines) == SumOver(DOMAIN lines, [s \in DOMAIN lines |-> lines[s].principal])

(* No line adds to the balance, or asks for more interest than one before. *)
Descends(lines) ==
  \A s, u \in DOMAIN lines :
    lines[s].principal >= 0 /\ (s < u => lines[s].interest >= lines[u].interest)

(* Paying more never leaves more installments nor saves less interest.     *)
(* The installment of a schedule gives its lines again, all but the last:  *)
(* what its rounding left is paid in as many more lines as that takes.     *)
PayoffShortens(p, r) ==
  \A n \in 1..MaxPeriods :
    LET scheduled   == ForCount(p, r, n, 1)
        installment == AtLeastOne(Annuity(p, r, n))
        kept        == FixedInstallment(p, r, installment, 1)
        with(extra) == simulatePayoff(p, extra, r, installment, scheduled)
    IN  /\ Annuity(p, r, n) > 0 => \A s \in DOMAIN kept : s < n => kept[s] = scheduled[s]
        /\ with(p) = [count |-> 0, saved |-> InterestOf(scheduled)]
        /\ \A extra \in 1..p : /\ with(extra).count <= with(extra - 1).count
                               /\ with(extra).saved >= with(extra - 1).saved

(* RG-D1, RG-D2: whatever the rounding, the n lines of a schedule repay    *)
(* the principal exactly and never add to the balance; a fixed installment *)
(* repays less only when it is cut at the cap.  So every schedule of the   *)
(* engine is one of Lines or of Capped.  It is asked before there is a     *)
(* debt: any amount may come.                                              *)
EngineRepays ==
  debt = NoDebt => \A p \in Principals, r \in Rates :
    /\ PayoffShortens(p, r)
    /\ \A n \in 1..MaxPeriods :
         LET lines == ForCount(p, r, n, 1) IN RepaidBy(lines) = p /\ Descends(lines)
    /\ \A installment \in 0..p + Interest(p, r) :
         LET lines == FixedInstallment(p, r, installment, 1) IN
         /\ Descends(lines)
         /\ RepaidBy(lines) = p \/ (RepaidBy(lines) < p /\ DOMAIN lines = 1..MaxPeriods)

=============================================================================
