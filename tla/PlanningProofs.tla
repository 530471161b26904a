--------------------------- MODULE PlanningProofs ---------------------------
(***************************************************************************)
(* Proofs about what a user plans: the debts and the budgets.              *)
(*                                                                         *)
(* A debt, its schedule and its payments: any number of installments and   *)
(* payments, any amounts, any schedule the engine may compute.  The three  *)
(* properties are one invariant: that a payment is allocated whole         *)
(* (Allocated) keeps what an installment was paid within its total,        *)
(* without which the deletion of a payment could leave a PARTIAL one with  *)
(* nothing left to pay (Sound).                                            *)
(*                                                                         *)
(* The engine that computes the schedules: any amount, rate and number of  *)
(* periods.  Rounding keeps the order of fractions, so an installment pays *)
(* at least the interest of the first period, no line adds to the balance, *)
(* and a smaller balance stays the smaller one.                            *)
(*                                                                         *)
(* The budgets and their periods: any number of budgets, entries, workers  *)
(* and months.  The invariant says what a worker that waits for the        *)
(* database still knows (SoundTask): the sum or the rows it read are what  *)
(* they were, unless the history says that they changed meanwhile.  From   *)
(* it follows what its write leaves behind.                                *)
(***************************************************************************)
EXTENDS Amortization, Budgets, FiniteSetTheorems, WellFoundedInduction, TLAPS

-----------------------------------------------------------------------------
(* Sums *)

(* A sum is a natural number. *)
LEMMA SumType ==
  ASSUME NEW S, IsFiniteSet(S), NEW n, \A p \in S : n[p] \in Nat
  PROVE  IsFiniteSet(UnitsOf(S, n)) /\ SumOver(S, n) \in Nat
<1>. DEFINE pile == [p \in S |-> {p} \X (1..n[p])]
            piles == {pile[p] : p \in S}
<1>1. pile \in Surjection(S, piles)
  BY DEF Surjection
<1>2. IsFiniteSet(piles)
  BY <1>1, FS_Surjection
<1>3. ASSUME NEW T \in piles PROVE IsFiniteSet(T)
  <2>1. PICK p \in S : T = {p} \X (1..n[p])
    BY <1>3
  <2>. DEFINE k == n[p]
  <2>0. k \in Int /\ 1 \in Int
    BY <2>1
  <2>. HIDE DEF k
  <2>2. IsFiniteSet({p}) /\ IsFiniteSet(1..k)
    BY <2>0, FS_Singleton, FS_Interval
  <2>. QED
    BY <2>1, <2>2, FS_Product DEF k
<1>4. UnitsOf(S, n) = UNION piles
  BY DEF UnitsOf
<1>. HIDE DEF piles
<1>5. IsFiniteSet(UnitsOf(S, n))
  BY <1>2, <1>3, <1>4, FS_UNION
<1>. QED
  BY <1>5, FS_CardinalityType DEF SumOver

LEMMA SumOfNone == ASSUME NEW n PROVE SumOver({}, n) = 0
  BY FS_EmptySet DEF SumOver, UnitsOf

(* The sum depends on the terms over its set only. *)
LEMMA SumSame ==
  ASSUME NEW S, NEW n, NEW m, \A p \in S : m[p] = n[p]
  PROVE  SumOver(S, m) = SumOver(S, n)
<1>1. UnitsOf(S, m) = UnitsOf(S, n)
  BY DEF UnitsOf
<1>. QED
  BY <1>1 DEF SumOver

(* One more term. *)
LEMMA SumGrows ==
  ASSUME NEW S, IsFiniteSet(S), NEW p, p \notin S, NEW T, T = S \union {p}, NEW n, NEW m,
         m[p] \in Nat, \A q \in S : n[q] \in Nat /\ m[q] = n[q]
  PROVE  SumOver(T, m) = SumOver(S, n) + m[p]
<1>. DEFINE k == m[p]
            new == {p} \X (1..k)
            old == UnitsOf(S, n)
<1>1. UnitsOf(T, m) = old \union new
  BY DEF UnitsOf
<1>2. old \cap new = {}
  BY DEF UnitsOf
<1>3. IsFiniteSet(old) /\ Cardinality(old) \in Nat
  BY SumType DEF SumOver
<1>4. IsFiniteSet({p}) /\ Cardinality({p}) = 1
  BY FS_Singleton
<1>5. k \in Nat /\ k \in Int /\ 1 \in Int
  OBVIOUS
<1>. HIDE DEF k
<1>6. IsFiniteSet(1..k) /\ Cardinality(1..k) = IF 1 > k THEN 0 ELSE k - 1 + 1
  BY ONLY <1>5, FS_Interval
<1>7. IsFiniteSet(new) /\ Cardinality(new) = Cardinality({p}) * Cardinality(1..k)
  BY <1>4, <1>6, FS_Product
<1>8. Cardinality(new) = k
  BY <1>4, <1>5, <1>6, <1>7
<1>9. Cardinality(old \union new) = Cardinality(old) + Cardinality(new) - Cardinality(old \cap new)
  BY <1>3, <1>7, FS_Union
<1>. HIDE DEF old, new
<1>10. Cardinality(old \cap new) = 0
  BY <1>2, FS_EmptySet
<1>11. Cardinality(old \union new) = Cardinality(old) + k
  BY <1>3, <1>5, <1>8, <1>9, <1>10
<1>. QED
  BY <1>1, <1>11 DEF SumOver, k, old, new

(* One term less. *)
LEMMA SumShrinks ==
  ASSUME NEW S, IsFiniteSet(S), NEW p \in S, NEW n, NEW m, \A q \in S : n[q] \in Nat,
         NEW T, T = S \ {p}, \A q \in T : m[q] = n[q]
  PROVE  SumOver(T, m) = SumOver(S, n) - n[p] /\ n[p] <= SumOver(S, n)
<1>1. IsFiniteSet(T) /\ p \notin T /\ S = T \union {p} /\ \A q \in T : n[q] \in Nat /\ m[q] = n[q]
  BY FS_Subset
<1>2. SumOver(T \union {p}, n) = SumOver(T, n) + n[p]
  <2>1. IsFiniteSet(T) /\ p \notin T /\ n[p] \in Nat /\ \A q \in T : n[q] \in Nat
    BY <1>1
  <2>. QED
    BY ONLY <2>1, SumGrows
<1>3. SumOver(T, n) \in Nat /\ n[p] \in Nat
  BY <1>1, SumType
<1>4. SumOver(T, m) = SumOver(T, n)
  BY <1>1, SumSame
<1>. QED
  <2>1. SumOver(S, n) = SumOver(T, n) + n[p]
    BY <1>1, <1>2
  <2>2. SumOver(T, m) = SumOver(S, n) - n[p] /\ n[p] <= SumOver(S, n)
    BY <1>3, <1>4, <2>1
  <2>. QED
    BY <2>2

-----------------------------------------------------------------------------
(* The invariant *)

Statuses == {"none", "SCHEDULED", "LATE", "PARTIAL", "PAID", "SKIPPED"}

InstRow == [status : Statuses, principal : Nat, interest : Nat, paid : Nat]

PayRow == [state : {"none", "live", "deleted"}, inst : Sequences \union {Extra},
           amount : Nat, principal : Nat, interest : Nat]

DebtRow == [state : {"none", "live", "deleted"}, mode : {"AUTO", "MANUAL"},
            status : {"ACTIVE", "DEFAULTED", "PAID_OFF"}, principal : Nat, outstanding : Nat]

(* The live payments of a table, and what some of them add up to. *)
Live(pays) == {p \in Payments : pays[p].state = "live"}
On(pays, s) == {p \in Payments : pays[p].state = "live" /\ pays[p].inst = s}

AmountOf(pays, S) == SumOver(S, [p \in S |-> pays[p].amount])
PrincipalOf(pays, S) == SumOver(S, [p \in S |-> pays[p].principal])
InterestIn(pays, S) == SumOver(S, [p \in S |-> pays[p].interest])

DebtTypes == /\ debt \in DebtRow /\ inst \in [Sequences -> InstRow]
             /\ pay \in [Payments -> PayRow] /\ aborted \in BOOLEAN
             /\ IsFiniteSet(Live(pay))

(* A row, and what its live payments add up to. *)
Sound(row, amount, principal, interest) ==
  /\ row.paid = amount /\ amount = principal + interest
  /\ principal <= row.principal /\ interest <= row.interest
  /\ row.status = "PAID" => row.paid >= row.principal + row.interest
  /\ row.status = "PARTIAL" => row.paid \in 1..(row.principal + row.interest - 1)
  /\ row.status \notin {"PAID", "PARTIAL"} => row.paid = 0

Tracked(row, pays, s) ==
  Sound(row, AmountOf(pays, On(pays, s)), PrincipalOf(pays, On(pays, s)), InterestIn(pays, On(pays, s)))

Allocated(r) == r.state = "live" => r.amount > 0 /\ r.amount = r.principal + r.interest

Owed == debt.outstanding >= debt.principal - PrincipalOf(pay, Live(pay))

NothingYet == debt.state = "none" => Live(pay) = {} /\ inst = [s \in Sequences |-> NoInstallment]

DebtInv == /\ DebtTypes /\ Owed /\ NothingYet /\ PaidOffLeavesNothingDue
           /\ \A p \in Payments : Allocated(pay[p])
           /\ \A s \in Sequences : Tracked(inst[s], pay, s)

LEMMA DebtSuffices ==
  DebtInv => InstallmentTracksPayments /\ AllocationBounded /\ PaidOffLeavesNothingDue
<1>. SUFFICES ASSUME DebtInv
              PROVE  InstallmentTracksPayments /\ AllocationBounded
  BY DEF DebtInv
<1>1. \A s \in Sequences : Sound(inst[s], PaidAmount(PaymentsOn(s)), PaidPrincipal(PaymentsOn(s)),
                                 PaidInterest(PaymentsOn(s)))
  BY DEF DebtInv, Tracked, AmountOf, PrincipalOf, InterestIn, On, PaymentsOn,
         PaidAmount, PaidPrincipal, PaidInterest
<1>2. InstallmentTracksPayments
  <2>1. ASSUME NEW s \in Sequences
        PROVE  /\ inst[s].paid = PaidAmount(PaymentsOn(s))
               /\ inst[s].status = "PAID" => inst[s].paid >= total(s)
               /\ inst[s].status = "PARTIAL" => inst[s].paid \in 1..(total(s) - 1)
               /\ inst[s].status \notin {"PAID", "PARTIAL"} => inst[s].paid = 0
    <3>1. Sound(inst[s], PaidAmount(PaymentsOn(s)), PaidPrincipal(PaymentsOn(s)),
                PaidInterest(PaymentsOn(s)))
      BY <1>1
    <3>2. inst[s].principal \in Nat /\ inst[s].interest \in Nat /\ inst[s].paid \in Nat
      BY DEF DebtInv, DebtTypes, InstRow
    <3>. QED
      BY <3>1, <3>2 DEF Sound, total
  <2>. QED
    BY <2>1 DEF InstallmentTracksPayments
<1>3. \A p \in LivePayments : pay[p].principal + pay[p].interest = pay[p].amount
  BY DEF DebtInv, Allocated, LivePayments
<1>4. AllocationBounded
  BY <1>1, <1>3 DEF AllocationBounded, Sound, DebtInv, Owed, PaidPrincipal, PrincipalOf, Live, LivePayments
<1>. QED
  BY <1>2, <1>4

-----------------------------------------------------------------------------
(* Rows *)

(* What is due, skipped or not there: nothing is paid of it. *)
Unpaid(row) == row \in InstRow /\ row.paid = 0 /\ row.status \notin {"PAID", "PARTIAL"}

LEMMA UnpaidForUnpaid ==
  ASSUME NEW row, NEW row2, Unpaid(row), Unpaid(row2),
         NEW a \in Nat, NEW p \in Nat, NEW i \in Nat, Sound(row, a, p, i)
  PROVE  Sound(row2, a, p, i)
<1>1. a = 0 /\ p = 0 /\ i = 0
  BY DEF Unpaid, Sound
<1>. QED
  BY <1>1 DEF Unpaid, Sound, InstRow

LEMMA RowPaid ==
  ASSUME NEW row \in InstRow, NEW a \in Nat, NEW p \in Nat, NEW i \in Nat, Sound(row, a, p, i),
         NEW n \in Nat, n > 0, n <= row.principal + row.interest - i - p,
         NEW pi, pi = minOf(n, row.interest - i), NEW pp, pp = minOf(n - pi, row.principal - p)
  PROVE  /\ pi \in Nat /\ pp \in Nat /\ pp + pi = n
         /\ Settled(row, row.paid + n) \in InstRow
         /\ Sound(Settled(row, row.paid + n), a + n, p + pp, i + pi)
<1>1. row.principal \in Nat /\ row.interest \in Nat /\ row.paid \in Nat /\ row.paid = p + i
  BY DEF InstRow, Sound
<1>2. p <= row.principal /\ i <= row.interest /\ a = p + i
  BY DEF Sound
<1>3. pi \in Nat /\ pp \in Nat /\ pp + pi = n /\ p + pp <= row.principal /\ i + pi <= row.interest
  BY <1>1, <1>2 DEF minOf
<1>. DEFINE new == Settled(row, row.paid + n)
<1>4. /\ new.paid = row.paid + n /\ new.principal = row.principal /\ new.interest = row.interest
      /\ new.status = IF row.paid + n >= row.principal + row.interest THEN "PAID" ELSE "PARTIAL"
      /\ new \in InstRow
  <2>. DEFINE status == IF row.paid + n >= row.principal + row.interest THEN "PAID" ELSE "PARTIAL"
  <2>1. status \in Statuses /\ row.paid + n \in Nat /\ new = [row EXCEPT !.paid = row.paid + n, !.status = status]
    BY <1>1 DEF Settled, Statuses
  <2>. HIDE DEF status, new
  <2>2. /\ new.paid = row.paid + n /\ new.principal = row.principal /\ new.interest = row.interest
        /\ new.status = status /\ new \in InstRow
    BY <2>1 DEF InstRow
  <2>. QED
    BY <2>2 DEF status
<1>. HIDE DEF new
<1>5. Sound(new, a + n, p + pp, i + pi)
  BY <1>1, <1>2, <1>3, <1>4 DEF Sound
<1>. QED
  BY <1>3, <1>4, <1>5 DEF new

LEMMA RowReverted ==
  ASSUME NEW row \in InstRow, NEW a \in Nat, NEW p \in Nat, NEW i \in Nat, Sound(row, a, p, i),
         NEW n \in Nat, n > 0, NEW pp \in Nat, NEW pi \in Nat, n = pp + pi, pp <= p, pi <= i
  PROVE  /\ Reverted(row, row.paid - n) \in InstRow
         /\ Sound(Reverted(row, row.paid - n), a - n, p - pp, i - pi)
<1>1. /\ row.principal \in Nat /\ row.interest \in Nat /\ row.paid = p + i /\ a = p + i
      /\ p <= row.principal /\ i <= row.interest
  BY DEF InstRow, Sound
<1>. DEFINE new == Reverted(row, row.paid - n)
<1>2. /\ new.paid = row.paid - n /\ new.principal = row.principal /\ new.interest = row.interest
      /\ new.status = IF row.paid - n <= 0 THEN "SCHEDULED" ELSE "PARTIAL"
      /\ new \in InstRow
  <2>. DEFINE status == IF row.paid - n <= 0 THEN "SCHEDULED" ELSE "PARTIAL"
              left == row.paid - n
  <2>0. status \in Statuses /\ left \in Nat /\ (IF left < 0 THEN 0 ELSE left) = left
    BY <1>1 DEF Statuses
  <2>1. new = [row EXCEPT !.paid = left, !.status = status]
    BY <2>0 DEF Reverted
  <2>. HIDE DEF status, new
  <2>2. /\ new.paid = left /\ new.principal = row.principal /\ new.interest = row.interest
        /\ new.status = status /\ new \in InstRow
    BY <2>0, <2>1 DEF InstRow
  <2>. QED
    BY <2>2 DEF status
<1>. HIDE DEF new
<1>3. Sound(new, a - n, p - pp, i - pi)
  BY <1>1, <1>2 DEF Sound
<1>. QED
  BY <1>2, <1>3 DEF new

(* Another schedule for what is not paid. *)
Rescheduled(rows, rows2) ==
  /\ rows2 \in [Sequences -> InstRow]
  /\ \A s \in Sequences : rows2[s] = rows[s] \/ (Unpaid(rows[s]) /\ Unpaid(rows2[s]))

LEMMA RescheduledSound ==
  ASSUME NEW rows, NEW rows2, Rescheduled(rows, rows2), NEW s \in Sequences,
         NEW a \in Nat, NEW p \in Nat, NEW i \in Nat, Sound(rows[s], a, p, i)
  PROVE  Sound(rows2[s], a, p, i)
  BY UnpaidForUnpaid DEF Rescheduled

(* What finish, sweep and removal do to the rows. *)
LEMMA SkippedIsRescheduled ==
  ASSUME NEW rows \in [Sequences -> InstRow],
         \A s \in Sequences : rows[s].status \in {"SCHEDULED", "LATE"} => rows[s].paid = 0
  PROVE  /\ Rescheduled(rows, Skipped(rows))
         /\ \A s \in Sequences : Skipped(rows)[s].status \notin {"SCHEDULED", "LATE"}
<1>1. ASSUME NEW s \in Sequences
      PROVE  /\ Skipped(rows)[s] \in InstRow
             /\ Skipped(rows)[s] = rows[s] \/ (Unpaid(rows[s]) /\ Unpaid(Skipped(rows)[s]))
             /\ Skipped(rows)[s].status \notin {"SCHEDULED", "LATE"}
  <2>. DEFINE row == rows[s]
              new == [row EXCEPT !.status = "SKIPPED"]
  <2>1. row \in InstRow /\ new \in InstRow /\ new.status = "SKIPPED" /\ new.paid = row.paid
    BY DEF InstRow, Statuses
  <2>2. Skipped(rows)[s] = IF row.status \in {"SCHEDULED", "LATE"} THEN new ELSE row
    BY DEF Skipped
  <2>. HIDE DEF new
  <2>. QED
    BY <2>1, <2>2 DEF Unpaid
<1>2. Skipped(rows) = [s \in Sequences |-> Skipped(rows)[s]]
  BY DEF Skipped
<1>. QED
  BY <1>1, <1>2 DEF Rescheduled

LEMMA UnskippedIsRescheduled ==
  ASSUME NEW rows \in [Sequences -> InstRow],
         \A s \in Sequences : rows[s].status = "SKIPPED" => rows[s].paid = 0
  PROVE  Rescheduled(rows, Unskipped(rows))
<1>1. ASSUME NEW s \in Sequences
      PROVE  /\ Unskipped(rows)[s] \in InstRow
             /\ Unskipped(rows)[s] = rows[s] \/ (Unpaid(rows[s]) /\ Unpaid(Unskipped(rows)[s]))
  <2>. DEFINE row == rows[s]
              new == [row EXCEPT !.status = "SCHEDULED"]
  <2>1. row \in InstRow /\ new \in InstRow /\ new.status = "SCHEDULED" /\ new.paid = row.paid
    BY DEF InstRow, Statuses
  <2>2. Unskipped(rows)[s] = IF row.status = "SKIPPED" THEN new ELSE row
    BY DEF Unskipped
  <2>. HIDE DEF new
  <2>. QED
    BY <2>1, <2>2 DEF Unpaid
<1>2. Unskipped(rows) = [s \in Sequences |-> Unskipped(rows)[s]]
  BY DEF Unskipped
<1>. QED
  BY <1>1, <1>2 DEF Rescheduled

(* The lines of a schedule have not been paid. *)
LEMMA LinesAreUnpaid ==
  ASSUME NEW first, NEW balance, NEW lines \in Lines(first, balance), NEW s \in DOMAIN lines
  PROVE  Unpaid(lines[s])
<1>. DEFINE Of(last, f) == [t \in first..last |-> [status |-> "SCHEDULED", principal |-> f[t].p,
                                                   interest |-> f[t].i, paid |-> 0]]
<1>0. PICK last \in first..MaxSequence : lines \in {Of(last, f) : f \in Shares(first, last, balance)}
  BY DEF Lines
<1>1. PICK f \in Shares(first, last, balance) : lines = Of(last, f)
  BY <1>0
<1>. f \in [first..last -> [p : 0..balance, i : 0..MaxInterest]]
  BY DEF Shares
<1>2. s \in first..last /\ f[s].p \in Nat /\ f[s].i \in Nat
  BY <1>1
<1>. QED
  BY <1>1, <1>2 DEF Unpaid, InstRow, Statuses

LEMMA NewLinesAreUnpaid ==
  ASSUME NEW first, NEW balance, NEW lines \in Regenerated(first, balance) \union AutoLines(balance)
                                                  \union ManualLines(balance),
         NEW s \in DOMAIN lines
  PROVE  Unpaid(lines[s])
<1>1. lines # <<>>
  OBVIOUS
<1>2. \E n, b : lines \in Lines(n, b)
  BY <1>1 DEF Regenerated, Capped, AutoLines, ManualLines
<1>. QED
  BY <1>2, LinesAreUnpaid

LEMMA EmptyIsUnpaid == Unpaid(NoInstallment)
  BY DEF Unpaid, NoInstallment, InstRow, Statuses

LEMMA ReplacedIsRescheduled ==
  ASSUME DebtInv, NEW first, NEW balance, NEW lines \in Regenerated(first, balance)
  PROVE  Rescheduled(inst, Replaced(lines))
<1>1. inst \in [Sequences -> InstRow]
  BY DEF DebtInv, DebtTypes
<1>2. \A s \in Due : Unpaid(inst[s])
  BY <1>1 DEF DebtInv, Tracked, Sound, Due, WithStatus, Unpaid
<1>3. CASE Clashes(lines)
  BY <1>1, <1>3 DEF Replaced, Rescheduled
<1>4. CASE ~ Clashes(lines)
  <2>1. Replaced(lines) = WithLines(lines, Kept)
    BY <1>4 DEF Replaced
  <2>2. ASSUME NEW s \in Sequences
        PROVE  /\ Replaced(lines)[s] \in InstRow
               /\ Replaced(lines)[s] = inst[s] \/ (Unpaid(inst[s]) /\ Unpaid(Replaced(lines)[s]))
    <3>1. Kept[s] = IF s \in Due THEN NoInstallment ELSE inst[s]
      BY DEF Kept, Replaceable
    <3>2. Replaced(lines)[s] = IF s \in DOMAIN lines THEN lines[s] ELSE Kept[s]
      BY <2>1 DEF WithLines
    <3>3. CASE s \in DOMAIN lines
      <4>1. Unpaid(lines[s])
        BY <3>3, NewLinesAreUnpaid
      <4>2. Unpaid(inst[s])
        BY <1>2, <1>4, <3>1, <3>3, EmptyIsUnpaid DEF Clashes
      <4>. QED
        BY <3>2, <3>3, <4>1, <4>2 DEF Unpaid
    <3>4. CASE s \notin DOMAIN lines
      BY <1>1, <1>2, <3>1, <3>2, <3>4, EmptyIsUnpaid DEF Unpaid
    <3>. QED
      BY <3>3, <3>4
  <2>3. Replaced(lines) = [s \in Sequences |-> Replaced(lines)[s]]
    BY <2>1 DEF WithLines
  <2>. QED
    BY <2>2, <2>3 DEF Rescheduled
<1>. QED
  BY <1>3, <1>4

-----------------------------------------------------------------------------
(* Payments *)

(* The sums are numbers. *)
LEMMA PaidTypes ==
  ASSUME NEW pays \in [Payments -> PayRow], IsFiniteSet(Live(pays)), NEW S \in SUBSET Live(pays)
  PROVE  /\ IsFiniteSet(S)
         /\ AmountOf(pays, S) \in Nat /\ PrincipalOf(pays, S) \in Nat /\ InterestIn(pays, S) \in Nat
<1>1. IsFiniteSet(S) /\ \A p \in S : pays[p] \in PayRow
  BY FS_Subset DEF Live
<1>. DEFINE a == [p \in S |-> pays[p].amount]
            b == [p \in S |-> pays[p].principal]
            c == [p \in S |-> pays[p].interest]
<1>2. \A p \in S : a[p] \in Nat /\ b[p] \in Nat /\ c[p] \in Nat
  BY <1>1 DEF PayRow
<1>. HIDE DEF a, b, c
<1>3. SumOver(S, a) \in Nat /\ SumOver(S, b) \in Nat /\ SumOver(S, c) \in Nat
  BY <1>1, <1>2, SumType
<1>. QED
  BY <1>1, <1>3 DEF AmountOf, PrincipalOf, InterestIn, a, b, c

LEMMA OnIsLive == \A pays, s : On(pays, s) \subseteq Live(pays)
  BY DEF On, Live

(* A table in which one row is another, and some payments without it. *)
LEMMA SumsStay ==
  ASSUME NEW pays, NEW S, NEW after, \A q \in S : after[q] = pays[q]
  PROVE  /\ AmountOf(after, S) = AmountOf(pays, S) /\ PrincipalOf(after, S) = PrincipalOf(pays, S)
         /\ InterestIn(after, S) = InterestIn(pays, S)
<1>2. /\ [q \in S |-> after[q].amount] = [q \in S |-> pays[q].amount]
      /\ [q \in S |-> after[q].principal] = [q \in S |-> pays[q].principal]
      /\ [q \in S |-> after[q].interest] = [q \in S |-> pays[q].interest]
  OBVIOUS
<1>3. /\ AmountOf(after, S) = AmountOf(pays, S) /\ PrincipalOf(after, S) = PrincipalOf(pays, S)
      /\ InterestIn(after, S) = InterestIn(pays, S)
  BY <1>2 DEF AmountOf, PrincipalOf, InterestIn
<1>. QED
  BY <1>3

(* A payment is written. *)
LEMMA SumsGrow ==
  ASSUME NEW pays, NEW S, IsFiniteSet(S), \A q \in S : pays[q] \in PayRow,
         NEW p, p \notin S, NEW T, T = S \union {p},
         NEW after, after[p] \in PayRow, \A q \in S : after[q] = pays[q]
  PROVE  /\ AmountOf(after, T) = AmountOf(pays, S) + after[p].amount
         /\ PrincipalOf(after, T) = PrincipalOf(pays, S) + after[p].principal
         /\ InterestIn(after, T) = InterestIn(pays, S) + after[p].interest
<1>1. after[p] \in PayRow /\ p \notin S /\ \A q \in S : after[q] = pays[q] /\ pays[q] \in PayRow
  OBVIOUS
<1>2. IsFiniteSet(S)
  OBVIOUS
<1>. DEFINE a == [q \in S |-> pays[q].amount]
            b == [q \in S |-> pays[q].principal]
            c == [q \in S |-> pays[q].interest]
            a2 == [q \in T |-> after[q].amount]
            b2 == [q \in T |-> after[q].principal]
            c2 == [q \in T |-> after[q].interest]
<1>3. /\ a2[p] = after[p].amount /\ b2[p] = after[p].principal /\ c2[p] = after[p].interest
      /\ after[p].amount \in Nat /\ after[p].principal \in Nat /\ after[p].interest \in Nat
  BY <1>1 DEF PayRow
<1>4. \A q \in S : /\ a[q] \in Nat /\ a2[q] = a[q] /\ b[q] \in Nat /\ b2[q] = b[q]
                   /\ c[q] \in Nat /\ c2[q] = c[q]
  BY <1>1 DEF PayRow
<1>. HIDE DEF a, b, c, a2, b2, c2
<1>5. SumOver(T, a2) = SumOver(S, a) + after[p].amount
  <2>1. /\ IsFiniteSet(S) /\ p \notin S /\ T = S \union {p} /\ a2[p] \in Nat /\ a2[p] = after[p].amount
        /\ \A q \in S : a[q] \in Nat /\ a2[q] = a[q]
    BY <1>1, <1>2, <1>3, <1>4
  <2>2. SumOver(T, a2) = SumOver(S, a) + a2[p]
    BY ONLY <2>1, SumGrows
  <2>. QED
    BY <2>1, <2>2
<1>6. SumOver(T, b2) = SumOver(S, b) + after[p].principal
  <2>1. /\ IsFiniteSet(S) /\ p \notin S /\ T = S \union {p} /\ b2[p] \in Nat /\ b2[p] = after[p].principal
        /\ \A q \in S : b[q] \in Nat /\ b2[q] = b[q]
    BY <1>1, <1>2, <1>3, <1>4
  <2>2. SumOver(T, b2) = SumOver(S, b) + b2[p]
    BY ONLY <2>1, SumGrows
  <2>. QED
    BY <2>1, <2>2
<1>7. SumOver(T, c2) = SumOver(S, c) + after[p].interest
  <2>1. /\ IsFiniteSet(S) /\ p \notin S /\ T = S \union {p} /\ c2[p] \in Nat /\ c2[p] = after[p].interest
        /\ \A q \in S : c[q] \in Nat /\ c2[q] = c[q]
    BY <1>1, <1>2, <1>3, <1>4
  <2>2. SumOver(T, c2) = SumOver(S, c) + c2[p]
    BY ONLY <2>1, SumGrows
  <2>. QED
    BY <2>1, <2>2
<1>. QED
  BY <1>5, <1>6, <1>7 DEF AmountOf, PrincipalOf, InterestIn, a, b, c, a2, b2, c2

(* A payment is deleted. *)
LEMMA SumsShrink ==
  ASSUME NEW pays, NEW S, IsFiniteSet(S), \A q \in S : pays[q] \in PayRow,
         NEW p \in S, NEW T, T = S \ {p}, NEW after, \A q \in T : after[q] = pays[q]
  PROVE  /\ AmountOf(after, T) = AmountOf(pays, S) - pays[p].amount
         /\ PrincipalOf(after, T) = PrincipalOf(pays, S) - pays[p].principal
         /\ InterestIn(after, T) = InterestIn(pays, S) - pays[p].interest
         /\ pays[p].principal <= PrincipalOf(pays, S) /\ pays[p].interest <= InterestIn(pays, S)
<1>1. \A q \in T : after[q] = pays[q]
  OBVIOUS
<1>2. IsFiniteSet(S) /\ \A q \in S : pays[q] \in PayRow
  OBVIOUS
<1>. DEFINE a == [q \in S |-> pays[q].amount]
            b == [q \in S |-> pays[q].principal]
            c == [q \in S |-> pays[q].interest]
            a2 == [q \in T |-> after[q].amount]
            b2 == [q \in T |-> after[q].principal]
            c2 == [q \in T |-> after[q].interest]
<1>3. a[p] = pays[p].amount /\ b[p] = pays[p].principal /\ c[p] = pays[p].interest
  OBVIOUS
<1>4. \A q \in S : a[q] \in Nat /\ b[q] \in Nat /\ c[q] \in Nat
  BY <1>2 DEF PayRow
<1>5. \A q \in T : a2[q] = a[q] /\ b2[q] = b[q] /\ c2[q] = c[q]
  BY <1>1
<1>9. p \in S /\ T = S \ {p}
  OBVIOUS
<1>. HIDE DEF a, b, c, a2, b2, c2
<1>6. SumOver(T, a2) = SumOver(S, a) - a[p]
  BY ONLY <1>2, <1>4, <1>5, <1>9, SumShrinks
<1>7. SumOver(T, b2) = SumOver(S, b) - b[p] /\ b[p] <= SumOver(S, b)
  BY ONLY <1>2, <1>4, <1>5, <1>9, SumShrinks
<1>8. SumOver(T, c2) = SumOver(S, c) - c[p] /\ c[p] <= SumOver(S, c)
  BY ONLY <1>2, <1>4, <1>5, <1>9, SumShrinks
<1>. QED
  BY <1>3, <1>6, <1>7, <1>8 DEF AmountOf, PrincipalOf, InterestIn, a, b, c, a2, b2, c2

LEMMA Recorded ==
  ASSUME NEW pays \in [Payments -> PayRow], IsFiniteSet(Live(pays)), NEW p \in Payments,
         p \notin Live(pays), NEW after \in [Payments -> PayRow], after[p].state = "live",
         \A q \in Payments \ {p} : after[q] = pays[q]
  PROVE  /\ IsFiniteSet(Live(after))
         /\ PrincipalOf(after, Live(after)) = PrincipalOf(pays, Live(pays)) + after[p].principal
         /\ \A s \in Sequences : s = after[p].inst =>
              /\ AmountOf(after, On(after, s)) = AmountOf(pays, On(pays, s)) + after[p].amount
              /\ PrincipalOf(after, On(after, s)) = PrincipalOf(pays, On(pays, s)) + after[p].principal
              /\ InterestIn(after, On(after, s)) = InterestIn(pays, On(pays, s)) + after[p].interest
         /\ \A s \in Sequences : s # after[p].inst =>
              \A row : Tracked(row, pays, s) => Tracked(row, after, s)
<1>a. ASSUME NEW S \in SUBSET Live(pays), NEW T, T = S \union {p}
      PROVE  /\ AmountOf(after, T) = AmountOf(pays, S) + after[p].amount
             /\ PrincipalOf(after, T) = PrincipalOf(pays, S) + after[p].principal
             /\ InterestIn(after, T) = InterestIn(pays, S) + after[p].interest
  <2>1. /\ p \notin S /\ after[p] \in PayRow /\ \A q \in S : after[q] = pays[q]
        /\ IsFiniteSet(S) /\ (\A q \in S : pays[q] \in PayRow)
    BY FS_Subset DEF Live
  <2>2. p \notin S /\ T = S \union {p} /\ after[p] \in PayRow
    BY <1>a, <2>1
  <2>3. /\ AmountOf(after, T) = AmountOf(pays, S) + after[p].amount
        /\ PrincipalOf(after, T) = PrincipalOf(pays, S) + after[p].principal
        /\ InterestIn(after, T) = InterestIn(pays, S) + after[p].interest
    BY ONLY <2>1, <2>2, SumsGrow
  <2>. QED
    BY <2>3
<1>b. ASSUME NEW S \in SUBSET Live(pays), p \notin S
      PROVE  /\ AmountOf(after, S) = AmountOf(pays, S) /\ PrincipalOf(after, S) = PrincipalOf(pays, S)
             /\ InterestIn(after, S) = InterestIn(pays, S)
  <2>1. \A q \in S : after[q] = pays[q]
    BY <1>b DEF Live
  <2>. QED
    BY ONLY <2>1, SumsStay
<1>1. Live(after) = Live(pays) \union {p}
  BY DEF Live
<1>2. IsFiniteSet(Live(after))
  <2>1. IsFiniteSet(Live(pays) \union {p})
    BY FS_AddElement
  <2>. QED
    BY ONLY <1>1, <2>1, Zenon
<1>3. PrincipalOf(after, Live(after)) = PrincipalOf(pays, Live(pays)) + after[p].principal
  BY <1>1, <1>a
<1>4. ASSUME NEW s \in Sequences, s = after[p].inst
      PROVE  /\ AmountOf(after, On(after, s)) = AmountOf(pays, On(pays, s)) + after[p].amount
             /\ PrincipalOf(after, On(after, s)) = PrincipalOf(pays, On(pays, s)) + after[p].principal
             /\ InterestIn(after, On(after, s)) = InterestIn(pays, On(pays, s)) + after[p].interest
  <2>1. On(after, s) = On(pays, s) \union {p} /\ On(pays, s) \in SUBSET Live(pays)
    BY <1>4, OnIsLive DEF On
  <2>. QED
    BY <2>1, <1>a
<1>5. ASSUME NEW s \in Sequences, s # after[p].inst
      PROVE  \A row : Tracked(row, pays, s) => Tracked(row, after, s)
  <2>1. On(after, s) = On(pays, s) /\ On(pays, s) \in SUBSET Live(pays) /\ p \notin On(pays, s)
    BY <1>5, OnIsLive DEF On, Live
  <2>2. /\ AmountOf(after, On(pays, s)) = AmountOf(pays, On(pays, s))
        /\ PrincipalOf(after, On(pays, s)) = PrincipalOf(pays, On(pays, s))
        /\ InterestIn(after, On(pays, s)) = InterestIn(pays, On(pays, s))
    BY <2>1, <1>b
  <2>. QED
    BY <2>1, <2>2 DEF Tracked
<1>. QED
  BY <1>1, <1>2, <1>3, <1>4, <1>5

LEMMA Withdrawn ==
  ASSUME NEW pays \in [Payments -> PayRow], IsFiniteSet(Live(pays)), NEW p \in Live(pays),
         NEW after \in [Payments -> PayRow], after[p].state # "live",
         \A q \in Payments \ {p} : after[q] = pays[q]
  PROVE  /\ IsFiniteSet(Live(after))
         /\ PrincipalOf(after, Live(after)) = PrincipalOf(pays, Live(pays)) - pays[p].principal
         /\ \A s \in Sequences : s = pays[p].inst =>
              /\ AmountOf(after, On(after, s)) = AmountOf(pays, On(pays, s)) - pays[p].amount
              /\ PrincipalOf(after, On(after, s)) = PrincipalOf(pays, On(pays, s)) - pays[p].principal
              /\ InterestIn(after, On(after, s)) = InterestIn(pays, On(pays, s)) - pays[p].interest
              /\ pays[p].principal <= PrincipalOf(pays, On(pays, s))
              /\ pays[p].interest <= InterestIn(pays, On(pays, s))
         /\ \A s \in Sequences : s # pays[p].inst =>
              \A row : Tracked(row, pays, s) => Tracked(row, after, s)
<1>0. p \in Payments /\ pays[p].state = "live"
  BY DEF Live
<1>a. ASSUME NEW S \in SUBSET Live(pays), p \in S, NEW T, T = S \ {p}
      PROVE  /\ AmountOf(after, T) = AmountOf(pays, S) - pays[p].amount
             /\ PrincipalOf(after, T) = PrincipalOf(pays, S) - pays[p].principal
             /\ InterestIn(after, T) = InterestIn(pays, S) - pays[p].interest
             /\ pays[p].principal <= PrincipalOf(pays, S) /\ pays[p].interest <= InterestIn(pays, S)
  <2>1. /\ \A q \in T : after[q] = pays[q]
        /\ IsFiniteSet(S) /\ \A q \in S : pays[q] \in PayRow
    BY <1>0, <1>a, FS_Subset DEF Live
  <2>. QED
    BY ONLY <1>a, <2>1, SumsShrink
<1>b. ASSUME NEW S \in SUBSET Live(pays), p \notin S
      PROVE  /\ AmountOf(after, S) = AmountOf(pays, S) /\ PrincipalOf(after, S) = PrincipalOf(pays, S)
             /\ InterestIn(after, S) = InterestIn(pays, S)
  <2>1. \A q \in S : after[q] = pays[q]
    BY <1>0, <1>b DEF Live
  <2>. QED
    BY ONLY <2>1, SumsStay
<1>1. Live(after) = Live(pays) \ {p}
  BY <1>0 DEF Live
<1>2. IsFiniteSet(Live(after))
  BY <1>1, FS_Subset
<1>3. PrincipalOf(after, Live(after)) = PrincipalOf(pays, Live(pays)) - pays[p].principal
  BY <1>0, <1>1, <1>a
<1>4. ASSUME NEW s \in Sequences, s = pays[p].inst
      PROVE  /\ AmountOf(after, On(after, s)) = AmountOf(pays, On(pays, s)) - pays[p].amount
             /\ PrincipalOf(after, On(after, s)) = PrincipalOf(pays, On(pays, s)) - pays[p].principal
             /\ InterestIn(after, On(after, s)) = InterestIn(pays, On(pays, s)) - pays[p].interest
             /\ pays[p].principal <= PrincipalOf(pays, On(pays, s))
             /\ pays[p].interest <= InterestIn(pays, On(pays, s))
  <2>1. /\ On(after, s) = On(pays, s) \ {p} /\ On(pays, s) \in SUBSET Live(pays)
        /\ p \in On(pays, s)
    BY <1>0, <1>4, OnIsLive DEF On
  <2>. QED
    BY <2>1, <1>a
<1>5. ASSUME NEW s \in Sequences, s # pays[p].inst
      PROVE  \A row : Tracked(row, pays, s) => Tracked(row, after, s)
  <2>1. On(after, s) = On(pays, s) /\ On(pays, s) \in SUBSET Live(pays) /\ p \notin On(pays, s)
    BY <1>0, <1>5, OnIsLive DEF On
  <2>2. /\ AmountOf(after, On(pays, s)) = AmountOf(pays, On(pays, s))
        /\ PrincipalOf(after, On(pays, s)) = PrincipalOf(pays, On(pays, s))
        /\ InterestIn(after, On(pays, s)) = InterestIn(pays, On(pays, s))
    BY <2>1, <1>b
  <2>. QED
    BY <2>1, <2>2 DEF Tracked
<1>. QED
  BY <1>1, <1>2, <1>3, <1>4, <1>5

(* A schedule in which only what is not paid changes is still what the     *)
(* payments add up to.                                                     *)
LEMMA RescheduledTracked ==
  ASSUME NEW pays \in [Payments -> PayRow], IsFiniteSet(Live(pays)), NEW rows, NEW rows2,
         Rescheduled(rows, rows2), \A s \in Sequences : Tracked(rows[s], pays, s)
  PROVE  \A s \in Sequences : Tracked(rows2[s], pays, s)
<1>1. ASSUME NEW s \in Sequences PROVE Tracked(rows2[s], pays, s)
  <2>1. /\ AmountOf(pays, On(pays, s)) \in Nat /\ PrincipalOf(pays, On(pays, s)) \in Nat
        /\ InterestIn(pays, On(pays, s)) \in Nat
    BY OnIsLive, PaidTypes
  <2>. QED
    BY <2>1, RescheduledSound DEF Tracked
<1>. QED
  BY <1>1

LEMMA FinishTracks ==
  ASSUME NEW pays \in [Payments -> PayRow], IsFiniteSet(Live(pays)),
         NEW rows \in [Sequences -> InstRow], \A s \in Sequences : Tracked(rows[s], pays, s),
         NEW refused \in BOOLEAN, aborted \in BOOLEAN, Finish(rows, refused)
  PROVE  /\ inst' \in [Sequences -> InstRow] /\ aborted' \in BOOLEAN
         /\ \A s \in Sequences : Tracked(inst'[s], pays, s)
         /\ debt'.status = "PAID_OFF" /\ ~ aborted' => Due' = {}
<1>1. \A s \in Sequences : rows[s].status \in {"SCHEDULED", "LATE"} => rows[s].paid = 0
  BY DEF Tracked, Sound
<1>2. /\ Rescheduled(rows, Skipped(rows))
      /\ \A s \in Sequences : Skipped(rows)[s].status \notin {"SCHEDULED", "LATE"}
  BY <1>1, SkippedIsRescheduled
<1>3. \A s \in Sequences : Tracked(Skipped(rows)[s], pays, s)
  BY <1>2, RescheduledTracked
<1>4. CASE ~ refused /\ debt'.status = "PAID_OFF"
  <2>1. inst' = Skipped(rows)
    BY <1>4 DEF Finish
  <2>. QED
    BY <1>2, <1>3, <2>1 DEF Finish, Rescheduled, Due, WithStatus
<1>5. CASE refused \/ debt'.status # "PAID_OFF"
  BY <1>5 DEF Finish
<1>. QED
  BY <1>4, <1>5

-----------------------------------------------------------------------------
(* The actions *)

LEMMA InitDebt == Init => DebtInv
<1>. SUFFICES ASSUME Init PROVE DebtInv
  OBVIOUS
<1>1. Live(pay) = {} /\ \A s : On(pay, s) = {}
  BY DEF Init, NoPayment, Live, On
<1>2. IsFiniteSet(Live(pay))
  BY <1>1, FS_EmptySet
<1>3. PrincipalOf(pay, {}) = 0 /\ AmountOf(pay, {}) = 0 /\ InterestIn(pay, {}) = 0
  BY SumOfNone DEF PrincipalOf, AmountOf, InterestIn
<1>4. DebtTypes
  BY <1>2 DEF DebtTypes, Init, NoDebt, NoInstallment, NoPayment, DebtRow, InstRow, PayRow, Statuses
<1>5. ASSUME NEW s \in Sequences PROVE Tracked(inst[s], pay, s)
  <2>1. inst[s] = NoInstallment /\ On(pay, s) = {}
    BY <1>1 DEF Init
  <2>. QED
    BY <1>3, <2>1 DEF Tracked, Sound, NoInstallment
<1>6. Owed /\ NothingYet /\ PaidOffLeavesNothingDue
  BY <1>1, <1>3 DEF Owed, NothingYet, PaidOffLeavesNothingDue, Init, NoDebt
<1>. QED
  BY <1>4, <1>5, <1>6 DEF DebtInv, Allocated, Init, NoPayment

(* The payments stay, and so does what is owed. *)
LEMMA PaymentsStay ==
  ASSUME DebtInv, UNCHANGED pay, debt' \in DebtRow, aborted' \in BOOLEAN, Rescheduled(inst, inst'),
         debt'.outstanding = debt.outstanding /\ debt'.principal = debt.principal,
         debt'.state # "none", PaidOffLeavesNothingDue'
  PROVE  DebtInv'
<1>1. DebtTypes'
  BY DEF DebtInv, DebtTypes, Rescheduled
<1>2. \A s \in Sequences : Tracked(inst'[s], pay, s)
  BY RescheduledTracked DEF DebtInv, DebtTypes
<1>3. Owed' /\ NothingYet'
  BY DEF DebtInv, Owed, NothingYet
<1>. QED
  BY <1>1, <1>2, <1>3 DEF DebtInv

LEMMA SameRows == ASSUME DebtInv PROVE Rescheduled(inst, inst)
  BY DEF DebtInv, DebtTypes, Rescheduled

LEMMA CreatePreserves ==
  ASSUME DebtInv, NEW mode \in {"AUTO", "MANUAL"}, NEW principal \in 0..MaxPrincipal,
         NEW lines \in AutoLines(principal) \union ManualLines(principal), NEW refused \in BOOLEAN,
         Create(mode, principal, lines, refused)
  PROVE  DebtInv'
<1>1. Live(pay) = {} /\ inst = [s \in Sequences |-> NoInstallment] /\ inst' = WithLines(lines, inst)
  BY DEF Create, DebtInv, NothingYet
<1>2. /\ debt' = [state |-> "live", mode |-> mode, status |-> "ACTIVE", principal |-> principal,
                  outstanding |-> principal]
      /\ aborted' = refused /\ pay' = pay
  BY DEF Create
<1>3. principal \in Nat
  BY DebtAssumption
<1>4. Rescheduled(inst, inst')
  <2>1. ASSUME NEW s \in Sequences
        PROVE  inst'[s] \in InstRow /\ Unpaid(inst[s]) /\ Unpaid(inst'[s])
    <3>1. CASE s \in DOMAIN lines
      <4>1. inst'[s] = lines[s] /\ inst[s] = NoInstallment
        BY <1>1, <3>1 DEF WithLines
      <4>2. Unpaid(lines[s])
        BY <3>1, NewLinesAreUnpaid
      <4>. QED
        BY <4>1, <4>2, EmptyIsUnpaid DEF Unpaid
    <3>2. CASE s \notin DOMAIN lines
      BY <1>1, <3>2, EmptyIsUnpaid DEF WithLines, Unpaid
    <3>. QED
      BY <3>1, <3>2
  <2>2. inst' = [s \in Sequences |-> inst'[s]]
    BY <1>1 DEF WithLines
  <2>. QED
    BY <2>1, <2>2 DEF Rescheduled
<1>5. DebtTypes'
  BY <1>2, <1>3, <1>4 DEF DebtInv, DebtTypes, Rescheduled, DebtRow
<1>6. \A s \in Sequences : Tracked(inst'[s], pay, s)
  BY <1>4, RescheduledTracked DEF DebtInv, DebtTypes
<1>7. Owed' /\ NothingYet' /\ PaidOffLeavesNothingDue'
  <2>1. PrincipalOf(pay, {}) = 0
    BY SumOfNone DEF PrincipalOf
  <2>. QED
    BY <1>1, <1>2, <1>3, <2>1 DEF Owed, NothingYet, PaidOffLeavesNothingDue
<1>. QED
  BY <1>2, <1>5, <1>6, <1>7 DEF DebtInv

LEMMA UpdatePreserves ==
  ASSUME DebtInv, NEW status \in {"ACTIVE", "DEFAULTED"}, Update(status)
  PROVE  DebtInv'
<1>1. debt \in DebtRow /\ debt.state = "live" /\ debt' = [debt EXCEPT !.status = status]
  BY DEF DebtInv, DebtTypes, Update
<1>2. /\ debt' \in DebtRow /\ debt'.state = "live" /\ debt'.status # "PAID_OFF"
      /\ debt'.outstanding = debt.outstanding /\ debt'.principal = debt.principal
  BY <1>1 DEF DebtRow
<1>3. PaidOffLeavesNothingDue' /\ UNCHANGED <<inst, pay, aborted>>
  BY <1>2 DEF PaidOffLeavesNothingDue, Update
<1>. QED
  BY <1>2, <1>3, SameRows, PaymentsStay DEF DebtInv, DebtTypes

LEMMA RemovePreserves == ASSUME DebtInv, Remove PROVE DebtInv'
<1>1. debt \in DebtRow /\ debt' = [debt EXCEPT !.state = "deleted"] /\ UNCHANGED <<inst, pay, aborted>>
  BY DEF DebtInv, DebtTypes, Remove
<1>2. /\ debt' \in DebtRow /\ debt'.state # "none" /\ debt'.status = debt.status
      /\ debt'.outstanding = debt.outstanding /\ debt'.principal = debt.principal
  BY <1>1 DEF DebtRow
<1>3. PaidOffLeavesNothingDue'
  BY <1>1, <1>2 DEF DebtInv, PaidOffLeavesNothingDue, Due, WithStatus
<1>. QED
  BY <1>1, <1>2, <1>3, SameRows, PaymentsStay DEF DebtInv, DebtTypes

LEMMA SweepPreserves ==
  ASSUME DebtInv, NEW s \in Sequences, Sweep(s)
  PROVE  DebtInv'
<1>1. /\ inst \in [Sequences -> InstRow] /\ inst[s].status = "SCHEDULED"
      /\ inst' = [inst EXCEPT ![s].status = "LATE"] /\ UNCHANGED <<debt, pay, aborted>>
  BY DEF DebtInv, DebtTypes, Sweep
<1>2. inst[s].paid = 0
  BY <1>1 DEF DebtInv, Tracked, Sound
<1>3. Rescheduled(inst, inst')
  <2>. DEFINE row == [inst[s] EXCEPT !.status = "LATE"]
  <2>1. row \in InstRow /\ row.paid = 0 /\ row.status = "LATE" /\ inst[s] \in InstRow
    BY <1>1, <1>2 DEF InstRow, Statuses
  <2>2. inst' = [inst EXCEPT ![s] = row]
    BY <1>1
  <2>. HIDE DEF row
  <2>. QED
    BY <1>1, <1>2, <2>1, <2>2 DEF Rescheduled, Unpaid
<1>4. debt.state # "none"
  BY <1>1 DEF DebtInv, NothingYet, NoInstallment
<1>5. s \in Due
  BY <1>1 DEF Due, WithStatus
<1>6. PaidOffLeavesNothingDue'
  BY <1>1, <1>5 DEF DebtInv, PaidOffLeavesNothingDue
<1>. QED
  BY <1>1, <1>3, <1>4, <1>6, PaymentsStay DEF DebtInv, DebtTypes

LEMMA RegenerateSchedulePreserves == ASSUME DebtInv, RegenerateSchedule PROVE DebtInv'
<1>1. PICK lines \in Regenerated(NextSequence, debt.outstanding) : inst' = Replaced(lines)
  BY DEF RegenerateSchedule
<1>2. Rescheduled(inst, inst')
  BY <1>1, ReplacedIsRescheduled
<1>3. UNCHANGED <<debt, pay, aborted>> /\ debt.state = "live" /\ Due # {}
  BY DEF RegenerateSchedule, Replaceable
<1>4. PaidOffLeavesNothingDue'
  BY <1>3 DEF DebtInv, PaidOffLeavesNothingDue
<1>. QED
  BY <1>2, <1>3, <1>4, PaymentsStay DEF DebtInv, DebtTypes

(* RG-D8: the debt after a repayment. *)
LEMMA RepaidOwes ==
  ASSUME debt \in DebtRow, debt.state = "live", debt.status = "ACTIVE", NEW part \in Nat,
         debt' = Repaid(part)
  PROVE  /\ debt' \in DebtRow /\ debt'.state = "live" /\ debt'.principal = debt.principal
         /\ debt'.outstanding >= debt.outstanding - part
         /\ debt'.status = "PAID_OFF" => debt'.outstanding = 0
<1>. DEFINE left == debt.outstanding - part
<1>1. left \in Int /\ debt.outstanding \in Nat
  BY DEF DebtRow
<1>2. CASE left <= 0
  <2>1. debt' = [debt EXCEPT !.outstanding = 0, !.status = "PAID_OFF"]
    BY <1>2 DEF Repaid, paidOff
  <2>. HIDE DEF left
  <2>. DEFINE status == "PAID_OFF"
              none == 0
  <2>0. status \in {"ACTIVE", "DEFAULTED", "PAID_OFF"} /\ none \in Nat
    OBVIOUS
  <2>. HIDE DEF status, none
  <2>a. debt' = [debt EXCEPT !.outstanding = none, !.status = status]
    BY <2>1 DEF status, none
  <2>b. /\ debt' \in DebtRow /\ debt'.state = "live" /\ debt'.principal = debt.principal
        /\ debt'.outstanding = none
    BY <2>0, <2>a DEF DebtRow
  <2>2. /\ debt' \in DebtRow /\ debt'.state = "live" /\ debt'.principal = debt.principal
        /\ debt'.outstanding = 0
    BY <2>b DEF none
  <2>. QED
    BY <1>1, <1>2, <2>2 DEF left
<1>3. CASE ~ (left <= 0)
  <2>. HIDE DEF left
  <2>0. left \in Nat
    BY <1>1, <1>3
  <2>1. debt' = [debt EXCEPT !.outstanding = left]
    BY <1>3 DEF Repaid, paidOff, left
  <2>2. /\ debt' \in DebtRow /\ debt'.state = "live" /\ debt'.principal = debt.principal
        /\ debt'.outstanding = left /\ debt'.status = "ACTIVE"
    BY <2>0, <2>1 DEF DebtRow
  <2>. QED
    BY <2>0, <2>2 DEF left
<1>. QED
  BY <1>2, <1>3

(* A payment of part as principal was written, and the rest is finished. *)
LEMMA PaymentWritten ==
  ASSUME DebtInv, NEW p \in Payments, pay[p].state = "none", debt.state = "live",
         debt.status = "ACTIVE", NEW r \in PayRow, r.state = "live", Allocated(r),
         pay' = [pay EXCEPT ![p] = r], debt' = Repaid(r.principal),
         NEW rows \in [Sequences -> InstRow], \A s \in Sequences : Tracked(rows[s], pay', s),
         NEW refused \in BOOLEAN, Finish(rows, refused)
  PROVE  DebtInv'
<1>. DEFINE after == pay'
<1>1. /\ debt \in DebtRow /\ pay \in [Payments -> PayRow] /\ IsFiniteSet(Live(pay))
      /\ aborted \in BOOLEAN /\ p \notin Live(pay) /\ r.principal \in Nat
  BY DEF DebtInv, DebtTypes, Live, PayRow
<1>2. after = [pay EXCEPT ![p] = r]
  OBVIOUS
<1>3. /\ debt' \in DebtRow /\ debt'.state = "live" /\ debt'.principal = debt.principal
      /\ debt'.outstanding >= debt.outstanding - r.principal
      /\ debt'.status = "PAID_OFF" => debt'.outstanding = 0
  BY <1>1, RepaidOwes
<1>. HIDE DEF after
<1>a. /\ after \in [Payments -> PayRow] /\ after[p] = r
      /\ \A q \in Payments \ {p} : after[q] = pay[q]
  BY <1>1, <1>2
<1>4. /\ IsFiniteSet(Live(after))
      /\ PrincipalOf(after, Live(after)) = PrincipalOf(pay, Live(pay)) + r.principal
  BY <1>1, <1>a, Recorded
<1>5. \A s \in Sequences : Tracked(rows[s], after, s)
  BY DEF after
<1>6. /\ inst' \in [Sequences -> InstRow] /\ aborted' \in BOOLEAN
      /\ \A s \in Sequences : Tracked(inst'[s], after, s)
      /\ debt'.status = "PAID_OFF" /\ ~ aborted' => Due' = {}
  BY <1>1, <1>4, <1>5, <1>a, FinishTracks
<1>7. DebtTypes'
  BY <1>3, <1>4, <1>6, <1>a DEF DebtTypes, after
<1>8. Owed'
  <2>1. PrincipalOf(pay, Live(pay)) \in Nat
    BY <1>1, PaidTypes
  <2>2. /\ debt.outstanding >= debt.principal - PrincipalOf(pay, Live(pay))
        /\ debt.outstanding \in Nat /\ debt.principal \in Nat /\ debt'.outstanding \in Nat
    BY <1>1, <1>3 DEF DebtInv, Owed, DebtRow
  <2>3. debt'.outstanding >= debt'.principal - PrincipalOf(after, Live(after))
    BY <1>1, <1>3, <1>4, <2>1, <2>2
  <2>. QED
    BY <2>3 DEF Owed, after
<1>9. NothingYet' /\ PaidOffLeavesNothingDue'
  BY <1>3, <1>6 DEF NothingYet, PaidOffLeavesNothingDue
<1>10. \A q \in Payments : Allocated(after[q])
  BY <1>1, <1>2 DEF DebtInv
<1>. QED
  BY <1>6, <1>7, <1>8, <1>9, <1>10 DEF DebtInv, after

LEMMA RecordPaymentPreserves ==
  ASSUME DebtInv, NEW p \in Payments, NEW s \in Sequences,
         NEW n \in 1..(MaxPrincipal + MaxInterest), NEW refused \in BOOLEAN,
         RecordPayment(p, s, n, refused)
  PROVE  DebtInv'
<1>. DEFINE part == split(s, n)
            r == [state |-> "live", inst |-> s, amount |-> n, principal |-> part.principal,
                  interest |-> part.interest]
            paid == PrincipalOf(pay, On(pay, s))
            interest == InterestIn(pay, On(pay, s))
            row == Settled(inst[s], inst[s].paid + n)
            rows == [inst EXCEPT ![s] = row]
            after == pay'
<1>1. /\ inst \in [Sequences -> InstRow] /\ pay \in [Payments -> PayRow]
      /\ IsFiniteSet(Live(pay)) /\ pay[p].state = "none" /\ p \notin Live(pay)
      /\ debt.state = "live" /\ debt.status = "ACTIVE" /\ inst[s] \in InstRow
  BY DEF DebtInv, DebtTypes, RecordPayment, Payable, Live
<1>2. debt' = Repaid(part.principal) /\ pay' = [pay EXCEPT ![p] = r] /\ Finish(rows, refused)
  BY DEF RecordPayment
<1>3. n \in Nat /\ n > 0
  BY DebtAssumption
<1>4. AmountOf(pay, On(pay, s)) \in Nat /\ paid \in Nat /\ interest \in Nat
  BY <1>1, OnIsLive, PaidTypes
<1>5. Sound(inst[s], AmountOf(pay, On(pay, s)), paid, interest)
  BY DEF DebtInv, Tracked
<1>6. PaidPrincipal(PaymentsOn(s)) = paid /\ PaidInterest(PaymentsOn(s)) = interest
  BY DEF PaidPrincipal, PaidInterest, PaymentsOn, PrincipalOf, InterestIn, On
<1>7. n <= inst[s].principal + inst[s].interest - interest - paid
  <2>. n <= remainingTotal(s)
    BY DEF RecordPayment
  <2>. QED
    BY <1>1, <1>3, <1>4, <1>6 DEF remainingTotal, total, InstRow
<1>8. /\ part.interest = minOf(n, inst[s].interest - interest)
      /\ part.principal = minOf(n - part.interest, inst[s].principal - paid)
  BY <1>6 DEF split
<1>. HIDE DEF part, paid, interest, row
<1>9. /\ part.interest \in Nat /\ part.principal \in Nat /\ part.principal + part.interest = n
      /\ row \in InstRow
      /\ Sound(row, AmountOf(pay, On(pay, s)) + n, paid + part.principal, interest + part.interest)
  BY <1>1, <1>3, <1>4, <1>5, <1>7, <1>8, RowPaid DEF row
<1>10. /\ r \in PayRow /\ r.state = "live" /\ r.inst = s /\ r.amount = n
       /\ r.principal = part.principal /\ r.interest = part.interest /\ Allocated(r)
  BY <1>3, <1>9 DEF PayRow, Allocated
<1>. HIDE DEF r
<1>11. after = [pay EXCEPT ![p] = r]
  BY <1>2
<1>. HIDE DEF after
<1>12. /\ AmountOf(after, On(after, s)) = AmountOf(pay, On(pay, s)) + n
       /\ PrincipalOf(after, On(after, s)) = paid + part.principal
       /\ InterestIn(after, On(after, s)) = interest + part.interest
       /\ \A t \in Sequences : t # s => \A any : Tracked(any, pay, t) => Tracked(any, after, t)
  <2>1. /\ after \in [Payments -> PayRow] /\ after[p] = r
        /\ \A q \in Payments \ {p} : after[q] = pay[q]
    BY <1>1, <1>10, <1>11
  <2>. QED
    BY <1>1, <1>10, <2>1, Recorded DEF paid, interest
<1>13. rows \in [Sequences -> InstRow] /\ \A t \in Sequences : Tracked(rows[t], after, t)
  <2>1. rows \in [Sequences -> InstRow] /\ rows[s] = row
    BY <1>1, <1>9
  <2>2. Tracked(rows[s], after, s)
    BY <1>9, <1>12, <2>1 DEF Tracked
  <2>3. \A t \in Sequences \ {s} : rows[t] = inst[t]
    BY <1>1
  <2>. QED
    BY <1>12, <2>1, <2>2, <2>3 DEF DebtInv
<1>. HIDE DEF rows
<1>14. \A t \in Sequences : Tracked(rows[t], pay', t)
  BY <1>13 DEF after
<1>15. pay' = [pay EXCEPT ![p] = r] /\ debt' = Repaid(r.principal)
  BY <1>2, <1>10
<1>. QED
  BY <1>1, <1>2, <1>10, <1>13, <1>14, <1>15, PaymentWritten

LEMMA RecordExtraPreserves ==
  ASSUME DebtInv, NEW p \in Payments, NEW n \in 1..MaxPrincipal, NEW refused \in BOOLEAN,
         RecordExtra(p, n, refused)
  PROVE  DebtInv'
<1>. DEFINE r == [state |-> "live", inst |-> Extra, amount |-> n, principal |-> n, interest |-> 0]
            after == pay'
<1>1. /\ inst \in [Sequences -> InstRow] /\ pay \in [Payments -> PayRow]
      /\ IsFiniteSet(Live(pay)) /\ pay[p].state = "none" /\ p \notin Live(pay)
      /\ debt.state = "live" /\ debt.status = "ACTIVE"
  BY DEF DebtInv, DebtTypes, RecordExtra, Payable, Live
<1>2. n \in Nat /\ n > 0 /\ Extra \notin Sequences
  BY DebtAssumption DEF Extra, Sequences
<1>3. pay' = [pay EXCEPT ![p] = r] /\ debt' = Repaid(n)
  BY DEF RecordExtra
<1>4. /\ r \in PayRow /\ r.state = "live" /\ r.inst = Extra /\ Allocated(r) /\ r.principal = n
  BY <1>2 DEF PayRow, Allocated
<1>. HIDE DEF r
<1>5. after = [pay EXCEPT ![p] = r]
  BY <1>3
<1>. HIDE DEF after
<1>a. /\ after \in [Payments -> PayRow] /\ after[p] = r
      /\ \A q \in Payments \ {p} : after[q] = pay[q]
  BY <1>1, <1>4, <1>5
<1>6. \A s \in Sequences : Tracked(inst[s], after, s)
  <2>1. \A s \in Sequences : \A any : Tracked(any, pay, s) => Tracked(any, after, s)
    BY <1>1, <1>2, <1>4, <1>a, Recorded
  <2>. QED
    BY <2>1 DEF DebtInv
<1>7. after \in [Payments -> PayRow] /\ IsFiniteSet(Live(after))
  BY <1>1, <1>4, <1>a, Recorded
<1>8. \E rows : \E no \in BOOLEAN : Rescheduled(inst, rows) /\ Finish(rows, no)
  <2>0. Rescheduled(inst, inst)
    BY SameRows
  <2>1. CASE ~ Regenerates /\ Finish(inst, refused)
    <3>. WITNESS inst
    <3>. WITNESS refused \in BOOLEAN
    <3>. QED
      BY <2>0, <2>1
  <2>2. CASE Regenerates
    <3>1. PICK lines \in Regenerated(NextSequence, debt'.outstanding) :
            IF Clashes(lines) THEN Finish(inst, TRUE) ELSE Finish(Replaced(lines), refused)
      BY <2>2 DEF RecordExtra
    <3>2. Rescheduled(inst, Replaced(lines))
      BY ReplacedIsRescheduled
    <3>3. CASE Clashes(lines)
      <4>. WITNESS inst
      <4>. WITNESS TRUE \in BOOLEAN
      <4>. QED
        BY <2>0, <3>1, <3>3
    <3>4. CASE ~ Clashes(lines)
      <4>. WITNESS Replaced(lines)
      <4>. WITNESS refused \in BOOLEAN
      <4>. QED
        BY <3>1, <3>2, <3>4
    <3>. QED
      BY <3>3, <3>4
  <2>. QED
    BY <2>1, <2>2 DEF RecordExtra
<1>9. PICK rows : \E no \in BOOLEAN : Rescheduled(inst, rows) /\ Finish(rows, no)
  BY <1>8
<1>b. PICK no \in BOOLEAN : Finish(rows, no)
  BY <1>9
<1>10. rows \in [Sequences -> InstRow] /\ \A s \in Sequences : Tracked(rows[s], after, s)
  BY <1>6, <1>7, <1>9, RescheduledTracked DEF Rescheduled
<1>11. \A s \in Sequences : Tracked(rows[s], pay', s)
  BY <1>10 DEF after
<1>12. pay' = [pay EXCEPT ![p] = r] /\ debt' = Repaid(r.principal)
  BY <1>3, <1>4
<1>. QED
  BY <1>1, <1>4, <1>b, <1>10, <1>11, <1>12, PaymentWritten

LEMMA RemovePaymentPreserves ==
  ASSUME DebtInv, NEW p \in Payments, RemovePayment(p)
  PROVE  DebtInv'
<1>. DEFINE old == pay[p]
            r == [NoPayment EXCEPT !.state = "deleted"]
            after == pay'
            rows == IF old.inst = Extra THEN inst
                    ELSE [inst EXCEPT ![old.inst] = Reverted(@, inst[old.inst].paid - old.amount)]
<1>1. /\ debt \in DebtRow /\ inst \in [Sequences -> InstRow] /\ pay \in [Payments -> PayRow]
      /\ IsFiniteSet(Live(pay)) /\ p \in Live(pay) /\ debt.state = "live" /\ aborted \in BOOLEAN
      /\ old \in PayRow /\ old.principal \in Nat /\ old.interest \in Nat /\ Allocated(old)
      /\ old.state = "live"
  BY DEF DebtInv, DebtTypes, RemovePayment, Live, PayRow
<1>2. r \in PayRow /\ r.state # "live" /\ pay' = [pay EXCEPT ![p] = r] /\ aborted' = aborted
  BY DEF RemovePayment, NoPayment, PayRow
<1>. HIDE DEF r
<1>3. /\ debt'.outstanding = debt.outstanding + old.principal /\ debt' \in DebtRow
      /\ debt'.state = "live" /\ debt'.principal = debt.principal /\ debt'.status # "PAID_OFF"
      /\ inst' \in {rows, Unskipped(rows)}
  <2>. DEFINE back == debt.outstanding + old.principal
  <2>0. back \in Nat
    BY <1>1 DEF DebtRow
  <2>1. CASE debt.status = "PAID_OFF"
    <3>1. debt' = [debt EXCEPT !.outstanding = back, !.status = "ACTIVE"] /\ inst' = Unskipped(rows)
      BY <2>1 DEF RemovePayment
    <3>. HIDE DEF back, rows
    <3>2. /\ debt'.outstanding = back /\ debt' \in DebtRow /\ debt'.state = "live"
          /\ debt'.principal = debt.principal /\ debt'.status = "ACTIVE"
      BY <1>1, <2>0, <3>1 DEF DebtRow
    <3>. QED
      BY <3>1, <3>2 DEF back
  <2>2. CASE debt.status # "PAID_OFF"
    <3>1. debt' = [debt EXCEPT !.outstanding = back] /\ inst' = rows
      BY <2>2 DEF RemovePayment
    <3>. HIDE DEF back, rows
    <3>2. /\ debt'.outstanding = back /\ debt' \in DebtRow /\ debt'.state = "live"
          /\ debt'.principal = debt.principal /\ debt'.status = debt.status
      BY <1>1, <2>0, <3>1 DEF DebtRow
    <3>. QED
      BY <2>2, <3>1, <3>2 DEF back
  <2>. QED
    BY <2>1, <2>2
<1>4. after = [pay EXCEPT ![p] = r]
  BY <1>2
<1>. HIDE DEF after
<1>a. /\ after \in [Payments -> PayRow] /\ after[p] = r
      /\ \A q \in Payments \ {p} : after[q] = pay[q]
  BY <1>1, <1>2, <1>4
<1>5. /\ IsFiniteSet(Live(after))
      /\ PrincipalOf(after, Live(after)) = PrincipalOf(pay, Live(pay)) - old.principal
  BY <1>1, <1>2, <1>a, Withdrawn
<1>6. \A s \in Sequences \ {old.inst} : \A any : Tracked(any, pay, s) => Tracked(any, after, s)
  BY <1>1, <1>2, <1>a, Withdrawn
<1>7. rows \in [Sequences -> InstRow] /\ \A s \in Sequences : Tracked(rows[s], after, s)
  <2>1. CASE old.inst = Extra
    <3>1. Extra \notin Sequences
      BY DebtAssumption DEF Extra, Sequences
    <3>. QED
      BY <1>1, <1>6, <2>1, <3>1 DEF DebtInv
  <2>2. CASE old.inst # Extra
    <3>. DEFINE s == old.inst
                a == AmountOf(pay, On(pay, s))
                b == PrincipalOf(pay, On(pay, s))
                c == InterestIn(pay, On(pay, s))
                row == Reverted(inst[s], inst[s].paid - old.amount)
    <3>1. s \in Sequences /\ inst[s] \in InstRow
      BY <1>1, <2>2 DEF PayRow
    <3>2. a \in Nat /\ b \in Nat /\ c \in Nat
      BY <1>1, OnIsLive, PaidTypes
    <3>3. Sound(inst[s], a, b, c)
      BY <3>1 DEF DebtInv, Tracked
    <3>4. /\ AmountOf(after, On(after, s)) = a - old.amount
          /\ PrincipalOf(after, On(after, s)) = b - old.principal
          /\ InterestIn(after, On(after, s)) = c - old.interest
          /\ old.principal <= b /\ old.interest <= c
      BY <1>1, <1>2, <1>a, <3>1, Withdrawn
    <3>5. old.amount \in Nat /\ old.amount > 0 /\ old.amount = old.principal + old.interest
      BY <1>1 DEF Allocated
    <3>. HIDE DEF a, b, c
    <3>6. row \in InstRow /\ Sound(row, a - old.amount, b - old.principal, c - old.interest)
      BY <1>1, <3>1, <3>2, <3>3, <3>4, <3>5, RowReverted
    <3>. HIDE DEF row
    <3>7. rows = [inst EXCEPT ![s] = row]
      BY <2>2 DEF row
    <3>8. /\ rows \in [Sequences -> InstRow] /\ rows[s] = row
          /\ \A t \in Sequences \ {s} : rows[t] = inst[t]
      BY <1>1, <3>1, <3>6, <3>7
    <3>9. Tracked(rows[s], after, s)
      BY <3>4, <3>6, <3>8 DEF Tracked
    <3>. QED
      BY <1>6, <3>8, <3>9 DEF DebtInv
  <2>. QED
    BY <2>1, <2>2
<1>. HIDE DEF rows
<1>8. inst' \in [Sequences -> InstRow] /\ \A s \in Sequences : Tracked(inst'[s], after, s)
  <2>1. \A s \in Sequences : rows[s].status = "SKIPPED" => rows[s].paid = 0
    BY <1>7 DEF Tracked, Sound
  <2>2. Rescheduled(rows, Unskipped(rows))
    BY <1>7, <2>1, UnskippedIsRescheduled
  <2>3. \A s \in Sequences : Tracked(Unskipped(rows)[s], after, s)
    BY <1>5, <1>7, <1>a, <2>2, RescheduledTracked
  <2>. QED
    BY <1>3, <1>7, <2>2, <2>3 DEF Rescheduled
<1>9. DebtTypes'
  BY <1>1, <1>2, <1>3, <1>5, <1>8, <1>a DEF DebtTypes, after
<1>10. Owed'
  <2>1. PrincipalOf(pay, Live(pay)) \in Nat
    BY <1>1, PaidTypes
  <2>2. /\ debt.outstanding >= debt.principal - PrincipalOf(pay, Live(pay))
        /\ debt.outstanding \in Nat /\ debt.principal \in Nat
    BY <1>1 DEF DebtInv, Owed, DebtRow
  <2>3. debt'.outstanding >= debt'.principal - PrincipalOf(after, Live(after))
    BY <1>1, <1>3, <1>5, <2>1, <2>2
  <2>. QED
    BY <2>3 DEF Owed, after
<1>11. NothingYet' /\ PaidOffLeavesNothingDue'
  BY <1>3 DEF NothingYet, PaidOffLeavesNothingDue
<1>12. \A q \in Payments : Allocated(after[q])
  BY <1>1, <1>2, <1>4 DEF DebtInv, Allocated
<1>. QED
  BY <1>8, <1>9, <1>10, <1>11, <1>12 DEF DebtInv, after

-----------------------------------------------------------------------------
LEMMA StepDebt == DebtInv /\ [Next]_vars => DebtInv'
<1>. SUFFICES ASSUME DebtInv, [Next]_vars PROVE DebtInv'
  OBVIOUS
<1>1. CASE UNCHANGED vars
  BY <1>1 DEF vars, DebtInv, DebtTypes, Owed, NothingYet, PaidOffLeavesNothingDue, Due, WithStatus
<1>2. ASSUME NEW principal \in 0..MaxPrincipal, NEW refused \in BOOLEAN,
             \/ \E lines \in AutoLines(principal) : Create("AUTO", principal, lines, refused)
             \/ \E lines \in ManualLines(principal) : Create("MANUAL", principal, lines, refused)
      PROVE  DebtInv'
  BY <1>2, CreatePreserves
<1>. QED
  BY <1>1, <1>2, UpdatePreserves, RemovePreserves, SweepPreserves, RegenerateSchedulePreserves,
     RecordPaymentPreserves, RecordExtraPreserves, RemovePaymentPreserves DEF Next

LEMMA DebtKept == Spec => []DebtInv
  BY InitDebt, StepDebt, PTL DEF Spec

(* RG-D6, RG-D9: what an installment shows as paid is the sum of its live  *)
(* payments, and its status says how that compares with its total.         *)
THEOREM InstallmentsTrackPayments == Spec => []InstallmentTracksPayments
  BY DebtKept, DebtSuffices, PTL

(* RG-D6: payments are allocated whole and within the installment, and     *)
(* nothing forgives part of a debt.                                        *)
THEOREM AllocationsAreBounded == Spec => []AllocationBounded
  BY DebtKept, DebtSuffices, PTL

(* RG-D8: a debt that is paid off has nothing left to come, unless a       *)
(* request was refused halfway.                                            *)
THEOREM NothingIsDueWhenPaidOff == Spec => []PaidOffLeavesNothingDue
  BY DebtKept, DebtSuffices, PTL

-----------------------------------------------------------------------------
(* Numbers *)

(* The least number principle. *)
LEMMA LeastNumber ==
  ASSUME NEW S \in SUBSET Nat, S # {}
  PROVE  \E n \in S : \A m \in S : n <= m
<1>. DEFINE R == OpToRel(<, Nat)
<1>1. IsWellFoundedOn(R, Nat)
  BY NatLessThanWellFounded
<1>2. \A x \in Nat : \A y \in Nat : y < x => <<y, x>> \in R
  BY DEF OpToRel
<1>. HIDE DEF R
<1>3. PICK n \in S : \A m \in S : ~ (<<m, n>> \in R)
  BY <1>1, WFMin
<1>4. ASSUME NEW m \in S PROVE n <= m
  <2>1. n \in Nat /\ m \in Nat /\ ~ (m < n)
    BY <1>2, <1>3
  <2>. QED
    BY <2>1
<1>. QED
  BY <1>4

(* Max() of numbers that have a bound. *)
LEMMA Largest ==
  ASSUME NEW N \in Nat, NEW S, S \subseteq 0..N, S # {}
  PROVE  Max(S) \in S /\ \A x \in S : x <= Max(S)
<1>. DEFINE T == {N - x : x \in S}
<1>0. \A x \in S : N - x \in Nat
  OBVIOUS
<1>1. T \in SUBSET Nat /\ T # {}
  BY <1>0
<1>2. PICK n \in T : \A k \in T : n <= k
  <2>. HIDE DEF T
  <2>. QED
    BY <1>1, LeastNumber
<1>3. PICK y \in S : n = N - y
  BY <1>2
<1>4. ASSUME NEW x \in S PROVE x <= y
  <2>1. N - x \in T /\ x \in 0..N /\ y \in 0..N
    BY <1>3
  <2>2. n <= N - x
    BY <1>2, <2>1
  <2>. QED
    BY <1>3, <2>1, <2>2
<1>5. \E z \in S : \A x \in S : z >= x
  BY <1>4
<1>6. Max(S) \in S /\ \A x \in S : Max(S) >= x
  BY <1>5 DEF Max
<1>. QED
  BY <1>6

LEMMA LeastAmount == Min(Amounts) \in Amounts
<1>1. Amounts \in SUBSET Nat /\ Amounts # {}
  BY BudgetAssumption
<1>2. \E x \in Amounts : \A y \in Amounts : x <= y
  BY <1>1, LeastNumber
<1>. QED
  BY <1>2 DEF Min

LEMMA MonthsAre == MaxNow \in Nat /\ Ahead \in Nat /\ Months = 0..(MaxNow + Ahead) /\ Months \subseteq Nat
  BY BudgetAssumption DEF Months

(* The last period of a budget. *)
LEMMA LastMade ==
  ASSUME NEW b, Made(b) # {}
  PROVE  /\ Max(Made(b)) \in Made(b) /\ Max(Made(b)) \in Nat
         /\ \A m \in Made(b) : m <= Max(Made(b))
<1>. DEFINE S == Made(b)
            N == MaxNow + Ahead
<1>1. S \subseteq 0..N /\ N \in Nat /\ S # {}
  BY MonthsAre DEF Made
<1>. HIDE DEF S, N
<1>2. Max(S) \in S /\ \A m \in S : m <= Max(S)
  BY <1>1, Largest
<1>. QED
  BY <1>1, <1>2 DEF S, N

(* The highest threshold, of those that were crossed or already announced. *)
LEMMA HighestCrossed ==
  ASSUME NEW row, NEW S, S \subseteq Crossed(row) \union {row.alert}, S # {},
         row.alert \in Thresholds \union {0}
  PROVE  Max(S) \in S /\ Max(S) \in Thresholds \union {0} /\ \A x \in S : x <= Max(S)
<1>. DEFINE N == 500
<1>1. S \subseteq 0..N /\ N \in Nat /\ S # {}
  BY BudgetAssumption DEF Crossed
<1>. HIDE DEF N
<1>2. Max(S) \in S /\ \A m \in S : m <= Max(S)
  BY ONLY <1>1, Largest
<1>. QED
  BY <1>2 DEF Crossed

-----------------------------------------------------------------------------
(* Sums *)

(* What was spent is a natural number. *)
LEMMA SpentType ==
  ASSUME NEW rows, \A e \in Entries : rows[e].amount \in Nat, NEW b, NEW m
  PROVE  SpentOf(rows, b, m) \in Nat
<1>. DEFINE S == {e \in Entries : /\ rows[e].live /\ rows[e].month = m
                                  /\ rows[e].cat \in Scope(budget[b].cat)}
            pile == [e \in S |-> {e} \X (1..rows[e].amount)]
            piles == {{e} \X (1..rows[e].amount) : e \in S}
<1>0. IsFiniteSet(S)
  BY BudgetAssumption, FS_Subset
<1>1. pile \in Surjection(S, piles)
  BY DEF Surjection
<1>2. IsFiniteSet(piles)
  <2>. HIDE DEF pile, piles, S
  <2>. QED
    BY <1>0, <1>1, FS_Surjection
<1>3. ASSUME NEW T \in piles PROVE IsFiniteSet(T)
  <2>1. PICK e \in S : T = {e} \X (1..rows[e].amount)
    BY <1>3
  <2>. DEFINE k == rows[e].amount
  <2>0. k \in Int /\ 1 \in Int
    BY <2>1
  <2>. HIDE DEF k
  <2>2. IsFiniteSet({e}) /\ IsFiniteSet(1..k)
    BY <2>0, FS_Singleton, FS_Interval
  <2>. QED
    BY <2>1, <2>2, FS_Product DEF k
<1>4. SpentOf(rows, b, m) = Cardinality(UNION piles)
  <2>2. SpentOf(rows, b, m) = Cardinality(UNION {{e} \X (1..rows[e].amount) : e \in S})
    BY DEF SpentOf
  <2>. HIDE DEF S
  <2>. QED
    BY <2>2
<1>5. IsFiniteSet(UNION piles)
  <2>. HIDE DEF piles
  <2>. QED
    BY <1>2, <1>3, FS_UNION
<1>. QED
  <2>. HIDE DEF piles
  <2>. QED
    BY <1>4, <1>5, FS_CardinalityType

(* The sum depends on the rows it counts only. *)
LEMMA SpentSame ==
  ASSUME NEW rows, NEW more, NEW b, NEW m,
         \A e \in Entries : \/ more[e] = rows[e]
                            \/ /\ ~ (rows[e].live /\ rows[e].month = m /\ rows[e].cat \in Scope(budget[b].cat))
                               /\ ~ (more[e].live /\ more[e].month = m /\ more[e].cat \in Scope(budget[b].cat))
  PROVE  SpentOf(more, b, m) = SpentOf(rows, b, m)
<1>. DEFINE Counted(r) == {e \in Entries : /\ r[e].live /\ r[e].month = m
                                           /\ r[e].cat \in Scope(budget[b].cat)}
<1>1. Counted(more) = Counted(rows) /\ \A e \in Counted(rows) : more[e] = rows[e]
  OBVIOUS
<1>2. UNION {{e} \X (1..more[e].amount) : e \in Counted(more)}
        = UNION {{e} \X (1..rows[e].amount) : e \in Counted(rows)}
  <2>. HIDE DEF Counted
  <2>. QED
    BY <1>1
<1>. QED
  BY <1>2 DEF SpentOf

-----------------------------------------------------------------------------
(* The cascade *)

Into(b, spent, carry, n) == IF ~budget[b].rollover \/ n - 1 \notin Made(b) THEN 0
                            ELSE budget[b].amount + carry[n - 1] - spent[n - 1]

(* What cascadeRollover() computes satisfies its recursion. *)
LEMMA CarriesRule ==
  ASSUME NEW b, budget[b].amount \in Int, NEW spent, \A n \in Made(b) : spent[n] \in Int
  PROVE  \A n \in Months : /\ Carries(b, spent)[n] \in Int
                           /\ Carries(b, spent)[n] = Into(b, spent, Carries(b, spent), n)
<1>. DEFINE N == MaxNow + Ahead
            Good(k, g) == \A n \in 0..k : g[n] \in Int /\ g[n] = Into(b, spent, g, n)
            Bad == {k \in Nat : ~ \E g : Good(k, g)}
<1>1. N \in Nat /\ Months = 0..N
  BY MonthsAre
<1>. HIDE DEF N
<1>2. Bad = {}
  <2>1. SUFFICES ASSUME Bad # {} PROVE FALSE
    OBVIOUS
  <2>2. PICK k \in Bad : \A j \in Bad : k <= j
    <3>1. Bad \in SUBSET Nat
      OBVIOUS
    <3>. HIDE DEF Bad
    <3>. QED
      BY <2>1, <3>1, LeastNumber
  <2>3. k \in Nat
    BY <2>2
  <2>4. CASE k = 0
    <3>. DEFINE g == [n \in 0..0 |-> 0]
    <3>1. 0 - 1 \notin Made(b)
      BY <1>1 DEF Made
    <3>2. Good(0, g)
      BY <3>1 DEF Into
    <3>. QED
      BY <2>2, <2>4, <3>2
  <2>5. CASE k # 0
    <3>1. k - 1 \in Nat /\ ~ (k <= k - 1)
      BY <2>3, <2>5
    <3>2. k - 1 \notin Bad
      <4>. HIDE DEF Bad
      <4>. QED
        BY <2>2, <3>1
    <3>3. PICK g : Good(k - 1, g)
      BY <3>1, <3>2
    <3>. DEFINE h == [n \in 0..k |-> IF n = k THEN Into(b, spent, g, k) ELSE g[n]]
    <3>4. Into(b, spent, g, k) \in Int
      BY <3>1, <3>3 DEF Into
    <3>5. ASSUME NEW n \in 0..k PROVE h[n] \in Int /\ h[n] = Into(b, spent, h, n)
      <4>1. h[n - 1] = g[n - 1] \/ n = 0
        BY <2>3
      <4>2. n = 0 => n - 1 \notin Made(b)
        BY <1>1 DEF Made
      <4>3. Into(b, spent, h, n) = Into(b, spent, g, n)
        BY <4>1, <4>2 DEF Into
      <4>4. n # k => n \in 0..(k - 1)
        BY <2>3
      <4>. QED
        BY <3>3, <3>4, <4>3, <4>4
    <3>6. Good(k, h)
      <4>. HIDE DEF h
      <4>. QED
        BY <3>5
    <3>. QED
      BY <2>2, <3>6
  <2>. QED
    BY <2>4, <2>5
<1>3. PICK g : Good(N, g)
  BY <1>1, <1>2
<1>4. [n \in Months |-> g[n]] = [n \in Months |-> Into(b, spent, [k \in Months |-> g[k]], n)]
  <2>1. ASSUME NEW n \in Months PROVE Into(b, spent, [k \in Months |-> g[k]], n) = Into(b, spent, g, n)
    BY DEF Into, Made
  <2>. QED
    BY <1>1, <1>3, <2>1
<1>5. Carries(b, spent) = [n \in Months |-> Into(b, spent, Carries(b, spent), n)]
  <2>. DEFINE f == [n \in Months |-> g[n]]
  <2>1. f = [n \in Months |-> Into(b, spent, f, n)]
    BY <1>4
  <2>. HIDE DEF f
  <2>. QED
    BY <2>1 DEF Carries, Into
<1>. DEFINE c == Carries(b, spent)
            Odd == {n \in Months : c[n] \notin Int}
<1>6. \A n \in Months : c[n] = Into(b, spent, c, n)
  <2>. HIDE DEF c
  <2>1. c = [n \in Months |-> Into(b, spent, c, n)]
    BY <1>5 DEF c
  <2>. QED
    BY <2>1
<1>7. Odd = {}
  <2>. HIDE DEF c
  <2>1. SUFFICES ASSUME Odd # {} PROVE FALSE
    OBVIOUS
  <2>2. PICK k \in Odd : \A j \in Odd : k <= j
    <3>1. Odd \in SUBSET Nat
      BY <1>1
    <3>. HIDE DEF Odd
    <3>. QED
      BY <2>1, <3>1, LeastNumber
  <2>3. c[k] = Into(b, spent, c, k) /\ k \in Months
    BY <1>6, <2>2
  <2>4. k - 1 \in Made(b) => c[k - 1] \in Int
    <3>1. k - 1 \in Made(b) => k - 1 \in Months /\ k \in Nat /\ k - 1 \in Nat
      BY <1>1, <2>3 DEF Made
    <3>2. k - 1 \in Made(b) => k - 1 \notin Odd
      <4>. HIDE DEF Odd
      <4>. QED
        BY <2>2, <3>1
    <3>. QED
      BY <3>1, <3>2
  <2>5. c[k] \in Int
    BY <2>3, <2>4 DEF Into
  <2>. QED
    BY <2>2, <2>5
<1>. QED
  <2>. HIDE DEF c
  <2>1. \A n \in Months : c[n] \in Int
    BY <1>7
  <2>2. \A n \in Months : c[n] \in Int /\ c[n] = Into(b, spent, c, n)
    BY <1>6, <2>1
  <2>. QED
    BY <2>2 DEF c

-----------------------------------------------------------------------------
(* The invariant *)

AllocationRow == [carried : Int, allocated : Int]
Plans == UNION {[D -> AllocationRow \union PeriodRow] : D \in SUBSET Months}

Jobs == {"none", "event", "create", "update", "nightly", "repair"}
Steps == {"idle", "save", "change", "generate", "extend", "insert", "budgets", "next", "write",
          "cascade", "store", "alert", "repair"}

Lefts == SUBSET (Budgets \X BOOLEAN)

Task == [job : Jobs, pc : Steps, todo : Seq(EntryRow), left : Lefts,
         b : Budgets \union {None}, m : Nat, rollover : BOOLEAN, amount : Amounts \union {0},
         spent : Nat, carry : Int, row : PeriodRow \union BudgetRow \union Change, plan : Plans,
         late : SUBSET {"sum", "rows"}]

BgTypes ==
  /\ entry \in [Entries -> EntryRow] /\ removed \in SUBSET Cats
  /\ budget \in [Budgets -> BudgetRow] /\ period \in [Budgets -> [Months -> PeriodRow]]
  /\ now \in 0..MaxNow /\ task \in [Workers -> Task]
  /\ announced \in [Budgets \X Months -> SUBSET Nat]

(* What a step of a worker can count on. *)
Placed(w) == LET t == task[w] IN
  /\ t.pc # "save" /\ t.b # None => budget[t.b].state # "none"
  /\ \A x \in t.left : budget[x[1]].state # "none"
  /\ t.pc \in {"save", "change", "extend", "insert", "write", "cascade", "store", "alert", "repair"} =>
       t.b \in Budgets
  /\ t.pc = "save" => budget[t.b].state = "none" /\ t.row \in NewBudgets
  /\ t.pc = "change" => t.row \in Change
  /\ t.pc \in {"budgets", "next", "write", "alert"} => t.job = "event"
  /\ t.pc \in {"idle", "save", "change", "generate", "extend", "insert", "repair"} => t.job # "event"
  /\ t.pc = "insert" => t.m \in Months
  /\ t.pc = "next" => t.todo # <<>>
  /\ t.pc \in {"write", "cascade", "store", "alert"} /\ t.job = "event" =>
       t.m \in Made(t.b) /\ t.todo # <<>>
  /\ t.pc \in {"cascade", "store", "alert"} /\ t.job = "event" => t.row \in PeriodRow
  /\ t.pc = "store" =>
       \A m \in DOMAIN t.plan : t.plan[m].carried \in Int /\ t.plan[m].allocated \in Int
  /\ t.pc = "repair" => /\ DOMAIN t.plan \subseteq Made(t.b)
                        /\ \A m \in DOMAIN t.plan : t.plan[m] \in PeriodRow /\ t.plan[m].made

(* RG-B5 for some rows of a budget. *)
MadeIn(rows) == {m \in Months : rows[m].made}

Chain(rows, b) ==
  \A m \in MadeIn(rows) :
    /\ rows[m].allocated = b.amount + rows[m].carried
    /\ rows[m].carried = IF b.rollover /\ m - 1 \in MadeIn(rows)
                         THEN rows[m - 1].allocated - rows[m - 1].spent ELSE 0

Given(row, c, a) == [made |-> row.made, spent |-> row.spent, carried |-> c, allocated |-> a,
                     alert |-> row.alert]

Cascaded(rows, plan) ==
  [m \in Months |-> IF m \in DOMAIN plan THEN Given(rows[m], plan[m].carried, plan[m].allocated)
                    ELSE rows[m]]

Patched(rows, plan) == [m \in Months |-> IF m \in DOMAIN plan THEN plan[m] ELSE rows[m]]

(* What a worker has read is still so, unless it is late. *)
SumKnown(w) == \A b \in Budgets, m \in Months : LET t == task[w] IN
  t.pc \in {"write", "insert"} /\ t.b = b /\ t.m = m /\ "sum" \notin t.late => t.spent = Spent(b, m)

RowsKnown(w) == \A b \in Budgets : LET t == task[w] IN
  t.pc \in {"extend", "insert"} /\ t.b = b /\ "rows" \notin t.late =>
    /\ t.rollover = budget[b].rollover /\ t.amount = budget[b].amount
    /\ \A n \in Made(b) : n < t.m
    /\ t.carry = IF t.m - 1 \in Made(b)
                 THEN period[b][t.m - 1].allocated - period[b][t.m - 1].spent ELSE 0

StoreRight(w) == \A b \in Budgets : LET t == task[w] IN
  t.pc = "store" /\ t.b = b /\ t.late = {} => Chain(Cascaded(period[b], t.plan), budget[b])

RepairRight(w) == \A b \in Budgets : LET t == task[w] IN
  t.pc = "repair" /\ t.b = b /\ t.late = {} =>
    /\ Chain(Patched(period[b], t.plan), budget[b])
    /\ \A m \in Made(b) : Patched(period[b], t.plan)[m].spent = Spent(b, m)

SoundTask(w) == Placed(w) /\ SumKnown(w) /\ RowsKnown(w) /\ StoreRight(w) /\ RepairRight(w)

Alone == \A v, w \in Workers :
  v # w /\ task[v].pc = "save" /\ task[w].pc = "save" => task[v].b # task[w].b

(* Budgets, periods and what was announced. *)
OfTop == \A b \in Budgets : budget[b].cat = Top /\ (budget[b].state = "none" => Made(b) = {})

SpentKnown(b, m) == \/ period[b][m].spent = Spent(b, m)
                    \/ <<b, m>> \in stale
                    \/ \E w \in Workers : Owes(w, b, m)

Chained(b) == b \in skewed \/ (\E w \in Workers : OwesCascade(w, b)) \/ Chain(period[b], budget[b])

Announced(b, m) ==
  /\ m \notin Made(b) => announced[<<b, m>>] = {}
  /\ <<b, m>> \notin misled => \A x \in announced[<<b, m>>] : x <= period[b][m].alert

BgInv ==
  /\ BgTypes /\ (\A w \in Workers : SoundTask(w)) /\ Alone /\ OfTop
  /\ \A b \in Budgets : Working(b) => \A m \in Made(b) : SpentKnown(b, m)
  /\ \A b \in Budgets : Chained(b)
  /\ \A b \in Budgets : \A m \in Months : Announced(b, m)
  /\ AlertOnce

-----------------------------------------------------------------------------
(* Steps of other workers *)

(* A worker that waits: only what it holds may have become late. *)
Waits(u, t) ==
  /\ u.job = t.job /\ u.pc = t.pc /\ u.todo = t.todo /\ u.left = t.left /\ u.b = t.b /\ u.m = t.m
  /\ u.rollover = t.rollover /\ u.amount = t.amount /\ u.spent = t.spent /\ u.carry = t.carry
  /\ u.row = t.row /\ u.plan = t.plan /\ t.late \subseteq u.late

LEMMA IdleType == Idle \in Task /\ NoPlan \in Plans /\ NoPeriod \in PeriodRow
<1>1. NoPeriod \in PeriodRow
  BY DEF NoPeriod, PeriodRow
<1>2. NoPlan \in [{} -> AllocationRow \union PeriodRow] /\ {} \in SUBSET Months
  BY DEF NoPlan
<1>3. NoPlan \in Plans
  BY <1>2 DEF Plans
<1>4. <<>> \in Seq(EntryRow) /\ {} \in Lefts
  BY DEF Lefts
<1>. HIDE DEF NoPlan
<1>. QED
  BY <1>1, <1>3, <1>4 DEF Idle, Task, Jobs, Steps

LEMMA LateType ==
  ASSUME NEW t \in Task, NEW l \in SUBSET {"sum", "rows"}
  PROVE  [t EXCEPT !.late = l] \in Task
  BY DEF Task

LEMMA LateSelf ==
  ASSUME NEW tasks, NEW w \in Workers, NEW what, NEW bs
  PROVE  Late(tasks, w, what, bs)[w] = tasks[w]
  BY DEF Late

LEMMA LateWaits ==
  ASSUME NEW tasks \in [Workers -> Task], NEW w, NEW what \in {"sum", "rows"}, NEW bs, NEW v \in Workers
  PROVE  /\ Late(tasks, w, what, bs)[v] \in Task
         /\ Waits(Late(tasks, w, what, bs)[v], tasks[v])
         /\ v # w /\ tasks[v].pc \in Holds[what] /\ tasks[v].b \in bs =>
              what \in Late(tasks, w, what, bs)[v].late
<1>. DEFINE t == tasks[v]
            u == [t EXCEPT !.late = @ \union {what}]
<1>1. t \in Task
  OBVIOUS
<1>2. u \in Task
  <2>1. t.late \union {what} \in SUBSET {"sum", "rows"}
    BY <1>1 DEF Task
  <2>. HIDE DEF t
  <2>2. [t EXCEPT !.late = t.late \union {what}] \in Task
    BY ONLY <1>1, <2>1, LateType
  <2>. QED
    BY <2>2
<1>3. Waits(u, t) /\ what \in u.late /\ Waits(t, t)
  BY <1>1 DEF Task, Waits
<1>4. Late(tasks, w, what, bs)[v] = IF v # w /\ tasks[v].pc \in Holds[what] /\ tasks[v].b \in bs
                                   THEN u ELSE t
  BY DEF Late
<1>. HIDE DEF u, t
<1>. QED
  <2>1. CASE v # w /\ tasks[v].pc \in Holds[what] /\ tasks[v].b \in bs
    BY <1>2, <1>3, <1>4, <2>1 DEF t
  <2>2. CASE ~ (v # w /\ tasks[v].pc \in Holds[what] /\ tasks[v].b \in bs)
    BY <1>1, <1>3, <1>4, <2>2 DEF t
  <2>. QED
    BY <2>1, <2>2

(* The rows of a budget, but for what they announced. *)
RowsStay(b) ==
  /\ budget'[b].amount = budget[b].amount /\ budget'[b].rollover = budget[b].rollover
  /\ \A m \in Months : /\ period'[b][m].made = period[b][m].made
                       /\ period'[b][m].spent = period[b][m].spent
                       /\ period'[b][m].carried = period[b][m].carried
                       /\ period'[b][m].allocated = period[b][m].allocated

SameSums(b) == \A m : Spent(b, m)' = Spent(b, m)

LEMMA HoldsAre == Holds["sum"] = {"write", "insert", "repair"}
                  /\ Holds["rows"] = {"store", "extend", "insert", "repair"}
  BY DEF Holds

(* A row with another allocation. *)
LEMMA GivenRow ==
  ASSUME NEW x \in PeriodRow, NEW c, NEW a
  PROVE  /\ [x EXCEPT !.carried = c, !.allocated = a] = Given(x, c, a)
         /\ c \in Int /\ a \in Int => Given(x, c, a) \in PeriodRow
<1>. DEFINE y == [made |-> x.made, spent |-> x.spent, carried |-> c, allocated |-> x.allocated,
                  alert |-> x.alert]
<1>1. [x EXCEPT !.carried = c] = y
  BY DEF PeriodRow
<1>2. ASSUME NEW x1, NEW x2, NEW x3, NEW x4, NEW x5, NEW x6
      PROVE  [[made |-> x1, spent |-> x2, carried |-> x3, allocated |-> x4, alert |-> x5]
                EXCEPT !.allocated = x6]
               = [made |-> x1, spent |-> x2, carried |-> x3, allocated |-> x6, alert |-> x5]
  OBVIOUS
<1>3. [y EXCEPT !.allocated = a] = Given(x, c, a)
  BY <1>2 DEF Given
<1>4. [[x EXCEPT !.carried = c] EXCEPT !.allocated = a] = Given(x, c, a)
  <2>. HIDE DEF y
  <2>. QED
    BY ONLY <1>1, <1>3
<1>5. [x EXCEPT !.carried = c, !.allocated = a] = Given(x, c, a)
  BY ONLY <1>4
<1>6. c \in Int /\ a \in Int => Given(x, c, a) \in PeriodRow
  BY DEF PeriodRow, Given
<1>. QED
  BY <1>5, <1>6

LEMMA StaysSound ==
  ASSUME BgInv, NEW v \in Workers, Waits(task'[v], task[v]),
         task[v].pc = "save" => budget'[task[v].b].state = "none",
         \A b \in Budgets : budget[b].state # "none" => budget'[b].state # "none",
         \A b \in Budgets, m \in Months : period[b][m].made => period'[b][m].made,
         task[v].pc \in Holds["rows"] => "rows" \in task'[v].late \/ RowsStay(task[v].b),
         task[v].pc \in Holds["sum"] => "sum" \in task'[v].late \/ SameSums(task[v].b)
  PROVE  SoundTask(v)'
<1>. DEFINE t == task[v]
            u == task'[v]
<1>1. SoundTask(v) /\ t \in Task
  BY DEF BgInv, BgTypes
<1>2. Waits(u, t)
  OBVIOUS
<1>3. t.b \in Budgets \union {None} /\ t.left \in SUBSET (Budgets \X BOOLEAN) /\ None \notin Budgets
  BY <1>1, BudgetAssumption DEF Task, Lefts
<1>4. Placed(v)'
  <2>1. Placed(v)
    BY <1>1 DEF SoundTask
  <2>. QED
    BY <1>2, <1>3, <2>1 DEF Placed, Waits, Made
<1>5. SumKnown(v)'
  <2>1. SumKnown(v)
    BY <1>1 DEF SoundTask
  <2>2. SUFFICES ASSUME NEW b \in Budgets, NEW m \in Months, u.pc \in {"write", "insert"}, u.b = b, u.m = m,
                        "sum" \notin u.late
                 PROVE  u.spent = Spent(b, m)'
    BY DEF SumKnown
  <2>3. SameSums(b) /\ t.spent = Spent(b, m)
    BY <1>2, <2>1, <2>2, HoldsAre DEF SumKnown, Waits
  <2>. QED
    BY <1>2, <2>3 DEF SameSums, Waits
<1>6. RowsKnown(v)'
  <2>1. RowsKnown(v)
    BY <1>1 DEF SoundTask
  <2>2. SUFFICES ASSUME NEW b \in Budgets, u.pc \in {"extend", "insert"}, u.b = b, "rows" \notin u.late
                 PROVE  /\ u.rollover = budget'[b].rollover /\ u.amount = budget'[b].amount
                        /\ \A n \in Made(b)' : n < u.m
                        /\ u.carry = IF u.m - 1 \in Made(b)'
                                     THEN period'[b][u.m - 1].allocated - period'[b][u.m - 1].spent ELSE 0
    BY DEF RowsKnown
  <2>3. RowsStay(b) /\ "rows" \notin t.late
    BY <1>2, <2>2, HoldsAre DEF Waits
  <2>4. Made(b)' = Made(b)
    BY <2>3 DEF RowsStay, Made
  <2>5. u.m - 1 \in Made(b) => u.m - 1 \in Months
    BY DEF Made
  <2>. QED
    BY <1>2, <2>1, <2>2, <2>3, <2>4, <2>5 DEF RowsKnown, Waits, RowsStay
<1>7. ASSUME NEW b \in Budgets, RowsStay(b), NEW plan, NEW rows, NEW after,
             \/ rows = Cascaded(period[b], plan) /\ after = Cascaded(period'[b], plan)
             \/ rows = Patched(period[b], plan) /\ after = Patched(period'[b], plan),
             Chain(rows, budget[b])
      PROVE  Chain(after, budget'[b])
  <2>1. \A m \in Months : /\ after[m].made = rows[m].made /\ after[m].spent = rows[m].spent
                          /\ after[m].carried = rows[m].carried /\ after[m].allocated = rows[m].allocated
    BY <1>7 DEF RowsStay, Cascaded, Patched, Given
  <2>2. MadeIn(after) = MadeIn(rows)
    BY <2>1 DEF MadeIn
  <2>3. \A m \in MadeIn(rows) : m \in Months
    BY DEF MadeIn
  <2>. QED
    BY <1>7, <2>1, <2>2, <2>3 DEF Chain, RowsStay
<1>8. StoreRight(v)'
  <2>1. StoreRight(v)
    BY <1>1 DEF SoundTask
  <2>2. SUFFICES ASSUME NEW b \in Budgets, u.pc = "store", u.b = b, u.late = {}
                 PROVE  Chain(Cascaded(period'[b], u.plan), budget'[b])
    BY DEF StoreRight
  <2>3. RowsStay(b) /\ t.late = {} /\ u.plan = t.plan /\ t.pc = "store" /\ t.b = b
    BY <1>2, <2>2, HoldsAre DEF Waits
  <2>4. Chain(Cascaded(period[b], t.plan), budget[b])
    BY <2>1, <2>3 DEF StoreRight
  <2>6. Chain(Cascaded(period'[b], t.plan), budget'[b])
    BY <1>7, <2>3, <2>4
  <2>. QED
    BY <2>3, <2>6
<1>9. RepairRight(v)'
  <2>1. RepairRight(v)
    BY <1>1 DEF SoundTask
  <2>2. SUFFICES ASSUME NEW b \in Budgets, u.pc = "repair", u.b = b, u.late = {}
                 PROVE  /\ Chain(Patched(period'[b], u.plan), budget'[b])
                        /\ \A m \in Made(b)' : Patched(period'[b], u.plan)[m].spent = Spent(b, m)'
    BY DEF RepairRight
  <2>3. RowsStay(b) /\ SameSums(b) /\ t.late = {} /\ u.plan = t.plan /\ t.pc = "repair" /\ t.b = b
    BY <1>2, <2>2, HoldsAre DEF Waits
  <2>4. /\ Chain(Patched(period[b], t.plan), budget[b])
        /\ \A m \in Made(b) : Patched(period[b], t.plan)[m].spent = Spent(b, m)
    BY <2>1, <2>3 DEF RepairRight
  <2>6. Chain(Patched(period'[b], t.plan), budget'[b])
    BY <1>7, <2>3, <2>4
  <2>7. ASSUME NEW m \in Made(b)' PROVE Patched(period'[b], t.plan)[m].spent = Spent(b, m)'
    <3>1. m \in Made(b) /\ m \in Months
      BY <2>3 DEF RowsStay, Made
    <3>2. Patched(period'[b], t.plan)[m].spent = Patched(period[b], t.plan)[m].spent
      BY <2>3, <3>1 DEF RowsStay, Patched
    <3>. QED
      BY <2>3, <2>4, <3>1, <3>2 DEF SameSums
  <2>. QED
    BY <2>3, <2>6, <2>7
<1>. QED
  BY <1>4, <1>5, <1>6, <1>8, <1>9 DEF SoundTask

LEMMA OwesStays ==
  ASSUME NEW v \in Workers, Waits(task'[v], task[v]), NEW b \in Budgets, NEW m,
         budget'[b].cat = budget[b].cat, removed' = removed, Owes(v, b, m)
  PROVE  Owes(v, b, m)'
  BY DEF Waits, Owes, Scope

LEMMA CascadeStays ==
  ASSUME NEW v \in Workers, Waits(task'[v], task[v]), NEW b \in Budgets, OwesCascade(v, b)
  PROVE  OwesCascade(v, b)'
  BY DEF Waits, OwesCascade

LEMMA WaitsSame == ASSUME NEW t, NEW u, u = t PROVE Waits(u, t)
  BY DEF Waits

(* What stays when no row changes. *)
LEMMA Unmoved ==
  ASSUME UNCHANGED <<entry, removed, budget, period>>, NEW b \in Budgets
  PROVE  /\ RowsStay(b) /\ SameSums(b) /\ Made(b)' = Made(b) /\ Working(b)' = Working(b)
         /\ Chain(period[b], budget[b])' = Chain(period[b], budget[b])
<1>1. RowsStay(b)
  BY DEF RowsStay
<1>2. \A m : Spent(b, m)' = Spent(b, m)
  BY DEF Spent, SpentOf, Scope
<1>. QED
  BY <1>1, <1>2 DEF SameSums, Made, Working, Chain, MadeIn

(* A step of a worker that changes no row. *)
LEMMA OwnStep ==
  ASSUME BgInv, NEW w \in Workers, task' \in [Workers -> Task],
         \A v \in Workers \ {w} : task'[v] = task[v],
         UNCHANGED <<entry, removed, budget, period, now, announced, misled, again>>,
         Placed(w)', SumKnown(w)', RowsKnown(w)', StoreRight(w)', RepairRight(w)',
         task'[w].pc = "save" => \A v \in Workers \ {w} : task[v].pc = "save" => task[v].b # task'[w].b,
         stale \subseteq stale', skewed \subseteq skewed',
         \A b \in Budgets, m \in Months :
           Working(b) /\ m \in Made(b) /\ Owes(w, b, m) => Owes(w, b, m)' \/ <<b, m>> \in stale',
         \A b \in Budgets : OwesCascade(w, b) => OwesCascade(w, b)' \/ b \in skewed'
  PROVE  BgInv'
<1>1. task \in [Workers -> Task]
  BY DEF BgInv, BgTypes
<1>2. \A v \in Workers : v # w => task'[v] = task[v]
  OBVIOUS
<1>3. BgTypes'
  BY DEF BgInv, BgTypes
<1>4. ASSUME NEW v \in Workers PROVE SoundTask(v)'
  <2>1. CASE v = w
    BY <2>1 DEF SoundTask
  <2>2. CASE v # w
    <3>1. Waits(task'[v], task[v])
      BY <1>2, <2>2, WaitsSame
    <3>2. Placed(v) /\ task[v] \in Task
      BY <1>1 DEF BgInv, SoundTask
    <3>3. task[v].pc \in Holds["rows"] \union Holds["sum"] => task[v].b \in Budgets
      BY <3>2, HoldsAre DEF Placed
    <3>4. task[v].pc \in Holds["rows"] => RowsStay(task[v].b)
      BY <3>3, Unmoved
    <3>5. task[v].pc \in Holds["sum"] => SameSums(task[v].b)
      BY <3>3, Unmoved
    <3>6. task[v].pc = "save" => budget'[task[v].b].state = "none"
      BY <3>2 DEF Placed
    <3>7. \A b \in Budgets : budget[b].state # "none" => budget'[b].state # "none"
      OBVIOUS
    <3>8. \A b \in Budgets, m \in Months : period[b][m].made => period'[b][m].made
      OBVIOUS
    <3>. QED
      BY <3>1, <3>4, <3>5, <3>6, <3>7, <3>8, StaysSound
  <2>. QED
    BY <2>1, <2>2
<1>5. Alone'
  <2>1. Alone
    BY DEF BgInv
  <2>. QED
    BY <1>2, <2>1 DEF Alone
<1>6. OfTop'
  BY DEF BgInv, OfTop, Made
<1>7. ASSUME NEW b \in Budgets, Working(b)', NEW m \in Made(b)' PROVE SpentKnown(b, m)'
  <2>1. Working(b) /\ m \in Made(b) /\ m \in Months /\ SameSums(b)
    BY <1>7, Unmoved DEF Made
  <2>2. SpentKnown(b, m)
    BY <2>1 DEF BgInv
  <2>3. CASE period[b][m].spent = Spent(b, m) \/ <<b, m>> \in stale
    BY <2>1, <2>3 DEF SpentKnown, SameSums
  <2>4. ASSUME NEW v \in Workers, Owes(v, b, m) PROVE <<b, m>> \in stale' \/ Owes(v, b, m)'
    <3>1. CASE v = w
      BY <2>1, <2>4, <3>1
    <3>2. CASE v # w
      <4>1. Waits(task'[v], task[v])
        BY <1>2, <3>2, WaitsSame
      <4>. QED
        BY <2>4, <4>1, OwesStays
    <3>. QED
      BY <3>1, <3>2
  <2>. QED
    BY <2>2, <2>3, <2>4 DEF SpentKnown
<1>8. ASSUME NEW b \in Budgets PROVE Chained(b)'
  <2>1. Chained(b)
    BY DEF BgInv
  <2>2. CASE b \in skewed
    BY <2>2 DEF Chained
  <2>3. CASE Chain(period[b], budget[b])
    BY <2>3, Unmoved DEF Chained
  <2>4. ASSUME NEW v \in Workers, OwesCascade(v, b) PROVE Chained(b)'
    <3>1. CASE v = w
      BY <2>4, <3>1 DEF Chained
    <3>2. CASE v # w
      <4>1. Waits(task'[v], task[v])
        BY <1>2, <3>2, WaitsSame
      <4>. QED
        BY <2>4, <4>1, CascadeStays DEF Chained
    <3>. QED
      BY <3>1, <3>2
  <2>. QED
    BY <2>1, <2>2, <2>3, <2>4 DEF Chained
<1>9. ASSUME NEW b \in Budgets, NEW m \in Months PROVE Announced(b, m)'
  BY DEF BgInv, Announced, Made
<1>10. AlertOnce'
  BY DEF BgInv, AlertOnce
<1>. QED
  BY <1>3, <1>4, <1>5, <1>6, <1>7, <1>8, <1>9, <1>10 DEF BgInv

LEMMA SetsTask ==
  ASSUME BgTypes, NEW w \in Workers, NEW t \in Task, task' = [task EXCEPT ![w] = t]
  PROVE  task' \in [Workers -> Task] /\ task'[w] = t /\ \A v \in Workers \ {w} : task'[v] = task[v]
  BY DEF BgTypes

(* The tasks that a step sets. *)
LEMMA SaveType ==
  ASSUME NEW b \in Budgets, NEW row \in BudgetRow
  PROVE  [Idle EXCEPT !.job = "create", !.pc = "save", !.b = b, !.row = row] \in Task
<1>1. Idle \in Task /\ "save" \in Steps /\ "create" \in Jobs
  BY IdleType DEF Steps, Jobs
<1>. QED
  BY <1>1 DEF Task

LEMMA GenerateType ==
  ASSUME NEW left \in Lefts, NEW job \in Jobs
  PROVE  [Idle EXCEPT !.job = job, !.pc = "generate", !.left = left] \in Task
<1>1. Idle \in Task /\ "generate" \in Steps
  BY IdleType DEF Steps
<1>. QED
  BY <1>1 DEF Task

LEMMA IdleOwes ==
  ASSUME NEW w, task[w] = Idle, NEW b \in Budgets, NEW m
  PROVE  ~ Owes(w, b, m) /\ ~ OwesCascade(w, b)
  BY DEF Idle, Owes, OwesCascade

LEMMA NewBudgetsAre ==
  ASSUME NEW row \in NewBudgets
  PROVE  row \in BudgetRow /\ row.cat = Top /\ row.state = "live"
<1>1. Min(Amounts) \in Amounts /\ Forever \in Months /\ 0 \in Months /\ Top \in Cats
  BY LeastAmount, MonthsAre DEF Forever, Cats
<1>. QED
  BY <1>1 DEF NewBudgets, BudgetRow

-----------------------------------------------------------------------------
(* Steps that change no row *)

LEMMA CheckBudgetKeeps ==
  ASSUME BgInv, NEW w \in Workers, NEW b \in Budgets, NEW row \in NewBudgets, CheckBudget(w, b, row)
  PROVE  BgInv'
<1>. DEFINE t == [Idle EXCEPT !.job = "create", !.pc = "save", !.b = b, !.row = row]
<1>1. /\ t.job = "create" /\ t.pc = "save" /\ t.b = b /\ t.row = row /\ t.left = {}
  BY DEF Idle
<1>2. t \in Task
  <2>1. row \in BudgetRow /\ b \in Budgets
    BY NewBudgetsAre
  <2>. QED
    BY ONLY <2>1, SaveType
<1>3. task' = [task EXCEPT ![w] = t] /\ task[w] = Idle /\ budget[b].state = "none"
      /\ \A v \in Workers : task[v].b # b
  BY DEF CheckBudget, Begins
<1>4. UNCHANGED <<entry, removed, budget, period, now, announced, misled, again, stale, skewed>>
  BY DEF CheckBudget, table, history
<1>. HIDE DEF t
<1>5. task' \in [Workers -> Task] /\ task'[w] = t /\ \A v \in Workers \ {w} : task'[v] = task[v]
  BY <1>2, <1>3, SetsTask DEF BgInv
<1>6. Placed(w)'
  BY <1>1, <1>3, <1>4, <1>5 DEF Placed
<1>7. SumKnown(w)' /\ RowsKnown(w)' /\ StoreRight(w)' /\ RepairRight(w)'
  BY <1>1, <1>5 DEF SumKnown, RowsKnown, StoreRight, RepairRight
<1>. QED
  BY <1>1, <1>3, <1>4, <1>5, <1>6, <1>7, OwnStep, IdleOwes

LEMMA NightlyKeeps ==
  ASSUME BgInv, NEW w \in Workers, Nightly(w)
  PROVE  BgInv'
<1>. DEFINE left == {<<b, FALSE>> : b \in {x \in Budgets : Working(x)}}
            t == [Idle EXCEPT !.job = "nightly", !.pc = "generate", !.left = left]
<1>0. left \in Lefts /\ \A x \in left : budget[x[1]].state # "none"
  <2>1. ASSUME NEW x \in left PROVE x \in Budgets \X BOOLEAN /\ budget[x[1]].state # "none"
    <3>1. PICK b \in Budgets : Working(b) /\ x = <<b, FALSE>>
      OBVIOUS
    <3>. QED
      BY <3>1 DEF Working
  <2>. HIDE DEF left
  <2>. QED
    BY <2>1 DEF Lefts
<1>3. task' = [task EXCEPT ![w] = t] /\ task[w] = Idle
  BY DEF Nightly
<1>. HIDE DEF left
<1>1. /\ t.job = "nightly" /\ t.pc = "generate" /\ t.b = None /\ t.left = left
  BY DEF Idle
<1>2. t \in Task
  <2>1. left \in Lefts /\ "nightly" \in Jobs
    BY <1>0 DEF Jobs
  <2>. QED
    BY ONLY <2>1, GenerateType
<1>4. UNCHANGED <<entry, removed, budget, period, now, announced, misled, again, stale, skewed>>
  BY DEF Nightly, table, history
<1>. HIDE DEF t
<1>5. task' \in [Workers -> Task] /\ task'[w] = t /\ \A v \in Workers \ {w} : task'[v] = task[v]
  BY <1>2, <1>3, SetsTask DEF BgInv
<1>6. Placed(w)'
  BY <1>0, <1>1, <1>3, <1>4, <1>5 DEF Placed
<1>7. SumKnown(w)' /\ RowsKnown(w)' /\ StoreRight(w)' /\ RepairRight(w)'
  BY <1>1, <1>5 DEF SumKnown, RowsKnown, StoreRight, RepairRight
<1>. QED
  BY <1>1, <1>3, <1>4, <1>5, <1>6, <1>7, OwnStep, IdleOwes

LEMMA LoseKeeps ==
  ASSUME BgInv, NEW w \in Workers, Lose(w)
  PROVE  BgInv'
<1>3. task' = [task EXCEPT ![w] = Idle] /\ Idle \in Task
  BY IdleType DEF Lose
<1>4. UNCHANGED <<entry, removed, budget, period, now, announced, misled, again>>
  BY DEF Lose, table
<1>5. task' \in [Workers -> Task] /\ task'[w] = Idle /\ \A v \in Workers \ {w} : task'[v] = task[v]
  BY <1>3, SetsTask DEF BgInv
<1>6. Placed(w)'
  BY <1>5 DEF Placed, Idle
<1>7. SumKnown(w)' /\ RowsKnown(w)' /\ StoreRight(w)' /\ RepairRight(w)'
  BY <1>5 DEF SumKnown, RowsKnown, StoreRight, RepairRight, Idle
<1>8. /\ stale \subseteq stale' /\ skewed \subseteq skewed'
      /\ \A b \in Budgets, m \in Months : Owes(w, b, m) => <<b, m>> \in stale'
      /\ \A b \in Budgets : OwesCascade(w, b) => b \in skewed'
  BY DEF Lose, OwesCascade, At
<1>9. task'[w].pc # "save"
  BY <1>5 DEF Idle
<1>. QED
  BY <1>4, <1>5, <1>6, <1>7, <1>8, <1>9, OwnStep

(* What is known of a worker before its step. *)
LEMMA TaskKnown ==
  ASSUME BgInv, NEW w \in Workers
  PROVE  /\ task[w] \in Task /\ SoundTask(w) /\ None \notin Budgets
         /\ \A x \in task[w].left : x \in Budgets \X BOOLEAN /\ budget[x[1]].state # "none"
         /\ \A b \in Budgets : budget[b] \in BudgetRow /\ \A m \in Months : period[b][m] \in PeriodRow
<1>1. task[w] \in Task /\ SoundTask(w)
  BY DEF BgInv, BgTypes
<1>2. task[w].left \in SUBSET (Budgets \X BOOLEAN)
  BY <1>1 DEF Task, Lefts
<1>3. \A x \in task[w].left : budget[x[1]].state # "none"
  BY <1>1 DEF SoundTask, Placed
<1>4. \A b \in Budgets : budget[b] \in BudgetRow /\ \A m \in Months : period[b][m] \in PeriodRow
  BY DEF BgInv, BgTypes
<1>. QED
  BY <1>1, <1>2, <1>3, <1>4, BudgetAssumption

LEMMA LeftsAre == ASSUME NEW left, \A x \in left : x \in Budgets \X BOOLEAN PROVE left \in Lefts
  BY DEF Lefts

LEMMA ExtendType ==
  ASSUME NEW t \in Task, NEW b \in Budgets, NEW left \in Lefts, NEW m \in Nat, NEW rollover \in BOOLEAN,
         NEW amount \in Amounts \union {0}, NEW carry \in Int, NEW row \in BudgetRow
  PROVE  [t EXCEPT !.pc = "extend", !.b = b, !.left = left, !.late = {}, !.m = m,
                   !.rollover = rollover, !.amount = amount, !.row = row, !.carry = carry] \in Task
<1>1. "extend" \in Steps /\ {} \in SUBSET {"sum", "rows"}
  BY DEF Steps
<1>. QED
  BY <1>1 DEF Task

LEMMA ExtendFields ==
  ASSUME NEW t \in Task, NEW b, NEW left, NEW m, NEW rollover, NEW amount, NEW carry, NEW row
  PROVE  LET u == [t EXCEPT !.pc = "extend", !.b = b, !.left = left, !.late = {}, !.m = m,
                            !.rollover = rollover, !.amount = amount, !.row = row, !.carry = carry] IN
         /\ u.pc = "extend" /\ u.b = b /\ u.left = left /\ u.late = {} /\ u.m = m
         /\ u.rollover = rollover /\ u.amount = amount /\ u.carry = carry
         /\ u.job = t.job
  BY DEF Task

LEMMA NoEventOwes ==
  ASSUME NEW w, task[w].job # "event", NEW b \in Budgets, NEW m
  PROVE  ~ Owes(w, b, m)
  BY DEF Owes

LEMMA ReadLastKeeps ==
  ASSUME BgInv, NEW w \in Workers, NEW b \in Budgets, ReadLast(w, b)
  PROVE  BgInv'
<1>. DEFINE t == task[w]
            last == IF Made(b) = {} THEN NoPeriod ELSE period[b][Max(Made(b))]
            left == t.left \ {<<b, FALSE>>}
            rollover == budget[b].rollover
            amount == budget[b].amount
            carry == last.allocated - last.spent
            m == Following(b)
            row == budget[b]
            u == [t EXCEPT !.pc = "extend", !.b = b, !.left = left, !.late = {}, !.m = m,
                           !.rollover = rollover, !.amount = amount, !.row = row, !.carry = carry]
<1>1. t.pc = "generate" /\ <<b, FALSE>> \in t.left /\ task' = [task EXCEPT ![w] = u]
  BY DEF ReadLast, At, Becomes
<1>2. UNCHANGED <<entry, removed, budget, period, now, announced, misled, again, stale, skewed>>
  BY DEF ReadLast, table, history
<1>3. t \in Task /\ left \in Lefts /\ budget[b].state # "none" /\ t.job # "event"
  <2>1. <<b, FALSE>>[1] = b
    OBVIOUS
  <2>2. t.job # "event"
    BY <1>1, TaskKnown DEF SoundTask, Placed
  <2>. QED
    BY <1>1, <2>1, <2>2, TaskKnown, LeftsAre
<1>4. /\ rollover \in BOOLEAN /\ amount \in Amounts \union {0} /\ budget[b].starts \in Nat
      /\ budget[b] \in BudgetRow
  BY TaskKnown, MonthsAre DEF BudgetRow
<1>6. /\ m \in Nat /\ \A n \in Made(b) : n < m
      /\ carry = IF m - 1 \in Made(b) THEN period[b][m - 1].allocated - period[b][m - 1].spent ELSE 0
      /\ carry \in Int
  <2>1. CASE Made(b) = {}
    BY <1>4, <2>1 DEF Following, NoPeriod
  <2>2. CASE Made(b) # {}
    <3>. DEFINE k == Max(Made(b))
    <3>1. k \in Made(b) /\ k \in Nat /\ k \in Months /\ \A n \in Made(b) : n \in Nat /\ n <= k
      BY <2>2, LastMade, MonthsAre DEF Made
    <3>2. m = k + 1 /\ last = period[b][k] /\ period[b][k] \in PeriodRow
      BY <2>2, <3>1, TaskKnown DEF Following
    <3>. HIDE DEF k, m, last
    <3>3. m - 1 = k
      BY <3>1, <3>2
    <3>. QED
      BY <3>1, <3>2, <3>3 DEF PeriodRow
  <2>. QED
    BY <2>1, <2>2
<1>. HIDE DEF t, left, rollover, amount, carry, m, last, row
<1>7. u \in Task
  <2>1. /\ t \in Task /\ b \in Budgets /\ left \in Lefts /\ m \in Nat /\ rollover \in BOOLEAN
        /\ amount \in Amounts \union {0} /\ carry \in Int /\ row \in BudgetRow
    BY <1>3, <1>4, <1>6 DEF row
  <2>. QED
    BY ONLY <2>1, ExtendType
<1>8. /\ u.pc = "extend" /\ u.b = b /\ u.left = left /\ u.late = {} /\ u.m = m
      /\ u.rollover = rollover /\ u.amount = amount /\ u.carry = carry /\ u.job = t.job
  BY ONLY <1>3, ExtendFields
<1>. HIDE DEF u
<1>9. task' \in [Workers -> Task] /\ task'[w] = u /\ \A v \in Workers \ {w} : task'[v] = task[v]
  BY <1>1, <1>7, SetsTask DEF BgInv
<1>10. Placed(w)'
  <2>1. \A x \in left : budget[x[1]].state # "none"
    BY TaskKnown DEF left, t
  <2>. QED
    BY <1>2, <1>3, <1>8, <1>9, <2>1 DEF Placed
<1>11. RowsKnown(w)'
  <2>1. Made(b)' = Made(b)
    BY <1>2 DEF Made
  <2>. QED
    BY <1>2, <1>6, <1>8, <1>9, <2>1 DEF RowsKnown, rollover, amount
<1>12. SumKnown(w)' /\ StoreRight(w)' /\ RepairRight(w)'
  BY <1>8, <1>9 DEF SumKnown, StoreRight, RepairRight
<1>13. \A c \in Budgets : ~ OwesCascade(w, c)
  BY <1>1 DEF OwesCascade, t
<1>. QED
  BY <1>2, <1>3, <1>8, <1>9, <1>10, <1>11, <1>12, <1>13, OwnStep, NoEventOwes DEF t

LEMMA InsertType ==
  ASSUME NEW t \in Task, NEW spent \in Nat
  PROVE  LET u == [t EXCEPT !.pc = "insert", !.spent = spent, !.late = @ \ {"sum"}] IN
         /\ u \in Task /\ u.pc = "insert" /\ u.spent = spent /\ u.late = t.late \ {"sum"}
         /\ u.job = t.job /\ u.b = t.b /\ u.m = t.m /\ u.left = t.left
         /\ u.rollover = t.rollover /\ u.amount = t.amount /\ u.carry = t.carry
<1>. DEFINE late == t.late \ {"sum"}
<1>1. late \in SUBSET {"sum", "rows"} /\ "insert" \in Steps
  BY DEF Task, Steps
<1>. HIDE DEF late
<1>2. [t EXCEPT !.pc = "insert", !.spent = spent, !.late = late] \in Task
  BY <1>1 DEF Task
<1>3. LET u == [t EXCEPT !.pc = "insert", !.spent = spent, !.late = late] IN
         /\ u.pc = "insert" /\ u.spent = spent /\ u.late = late
         /\ u.job = t.job /\ u.b = t.b /\ u.m = t.m /\ u.left = t.left
         /\ u.rollover = t.rollover /\ u.amount = t.amount /\ u.carry = t.carry
  BY DEF Task
<1>. QED
  BY <1>2, <1>3 DEF late

LEMMA SpentNat ==
  ASSUME BgTypes, NEW b, NEW m
  PROVE  Spent(b, m) \in Nat
<1>1. \A e \in Entries : entry[e].amount \in Nat
  <2>1. ASSUME NEW e \in Entries PROVE entry[e].amount \in Nat
    <3>1. entry[e] \in EntryRow
      BY DEF BgTypes
    <3>2. \A a \in Amounts \union {0} : a \in Nat
      BY BudgetAssumption
    <3>3. entry[e].amount \in Amounts \union {0}
      BY <3>1 DEF EntryRow
    <3>. QED
      BY ONLY <3>2, <3>3
  <2>. QED
    BY <2>1
<1>. QED
  BY <1>1, SpentType DEF Spent

(* A worker that holds nothing. *)
LEMMA HoldsNothing ==
  ASSUME NEW w, task'[w].pc \notin {"write", "insert", "extend", "store", "repair"}
  PROVE  SumKnown(w)' /\ RowsKnown(w)' /\ StoreRight(w)' /\ RepairRight(w)'
  BY DEF SumKnown, RowsKnown, StoreRight, RepairRight

LEMMA IdleFields ==
  /\ Idle.pc = "idle" /\ Idle.job = "none" /\ Idle.left = {} /\ Idle.b = None /\ Idle.todo = <<>>
  /\ \A job, pc : LET u == [Idle EXCEPT !.job = job, !.pc = pc] IN
       u.job = job /\ u.pc = pc /\ u.left = {} /\ u.b = None /\ u.todo = <<>>
  BY DEF Idle

(* A worker that goes idle. *)
LEMMA IdlePlaced ==
  ASSUME NEW w, task'[w] = Idle
  PROVE  Placed(w)' /\ SumKnown(w)' /\ RowsKnown(w)' /\ StoreRight(w)' /\ RepairRight(w)'
         /\ task'[w].pc = "idle"
<1>1. task'[w].pc = "idle" /\ task'[w].left = {} /\ task'[w].b = None /\ task'[w].job = "none"
  BY IdleFields
<1>. QED
  BY <1>1, HoldsNothing DEF Placed

(* A worker that generates the periods of other budgets. *)
LEMMA GeneratePlaced ==
  ASSUME NEW w, task'[w].pc = "generate", task'[w].job # "event", task'[w].b = None,
         \A x \in task'[w].left : budget'[x[1]].state # "none"
  PROVE  Placed(w)' /\ SumKnown(w)' /\ RowsKnown(w)' /\ StoreRight(w)' /\ RepairRight(w)'
  BY HoldsNothing DEF Placed

LEMMA ExtendKeeps ==
  ASSUME BgInv, NEW w \in Workers, Extend(w)
  PROVE  BgInv'
<1>. DEFINE t == task[w]
            next == [Idle EXCEPT !.job = t.job, !.pc = "generate", !.left = t.left]
            more == [t EXCEPT !.pc = "insert", !.spent = Spent(t.b, t.m), !.late = @ \ {"sum"}]
<1>1. /\ t.pc = "extend"
      /\ \/ t.m <= now + Ahead /\ t.m <= t.row.ends /\ task' = [task EXCEPT ![w] = more]
         \/ task' = [task EXCEPT ![w] = Idle]
         \/ task' = [task EXCEPT ![w] = next]
  BY DEF Extend, At, Becomes
<1>2. UNCHANGED <<entry, removed, budget, period, now, announced, misled, again, stale, skewed>>
  BY DEF Extend, table, history
<1>3. /\ t \in Task /\ t.job # "event" /\ t.job \in Jobs /\ t.left \in Lefts /\ t.b \in Budgets /\ t.m \in Nat
      /\ t.b # None /\ budget[t.b].state # "none" /\ \A x \in t.left : budget[x[1]].state # "none"
  BY <1>1, TaskKnown DEF SoundTask, Placed, Task
<1>4. (\A b \in Budgets : ~ OwesCascade(w, b)) /\ \A b \in Budgets : \A m : ~ Owes(w, b, m)
  BY <1>1, <1>3, NoEventOwes DEF OwesCascade
<1>5. CASE task' = [task EXCEPT ![w] = Idle]
  <2>1. task' \in [Workers -> Task] /\ task'[w] = Idle /\ \A v \in Workers \ {w} : task'[v] = task[v]
    BY <1>5, IdleType, SetsTask DEF BgInv
  <2>. QED
    BY <1>2, <1>4, <2>1, IdlePlaced, OwnStep
<1>6. CASE task' = [task EXCEPT ![w] = next]
  <2>1. next \in Task
    BY <1>3, GenerateType
  <2>2. task' \in [Workers -> Task] /\ task'[w] = next /\ \A v \in Workers \ {w} : task'[v] = task[v]
    <3>. HIDE DEF next
    <3>. QED
      BY <1>6, <2>1, SetsTask DEF BgInv
  <2>4. next.pc = "generate" /\ next.job = t.job /\ next.b = None /\ next.left = t.left
    BY DEF Idle
  <2>3. Placed(w)' /\ SumKnown(w)' /\ RowsKnown(w)' /\ StoreRight(w)' /\ RepairRight(w)'
        /\ task'[w].pc = "generate"
    <3>. HIDE DEF next, t
    <3>. QED
      BY <1>2, <1>3, <2>2, <2>4, GeneratePlaced
  <2>. QED
    BY <1>2, <1>4, <2>2, <2>3, OwnStep
<1>7. CASE t.m <= now + Ahead /\ t.m <= t.row.ends /\ task' = [task EXCEPT ![w] = more]
  <2>. DEFINE spent == Spent(t.b, t.m)
  <2>1. spent \in Nat /\ t.m \in Months /\ t.pc = "extend"
    <3>1. now \in 0..MaxNow
      BY DEF BgInv, BgTypes
    <3>2. t.m \in Months
      BY <1>3, <1>7, <3>1, MonthsAre
    <3>. QED
      BY <1>1, <3>2, SpentNat DEF BgInv
  <2>. HIDE DEF t, spent
  <2>2. /\ more \in Task /\ more.pc = "insert" /\ more.spent = spent /\ more.late = t.late \ {"sum"}
        /\ more.job = t.job /\ more.b = t.b /\ more.m = t.m /\ more.left = t.left
        /\ more.rollover = t.rollover /\ more.amount = t.amount /\ more.carry = t.carry
    <3>1. [t EXCEPT !.pc = "insert", !.spent = spent, !.late = @ \ {"sum"}] = more
      BY DEF spent
    <3>2. t \in Task /\ spent \in Nat
      BY <1>3, <2>1
    <3>. HIDE DEF more
    <3>. QED
      BY ONLY <3>1, <3>2, InsertType
  <2>. HIDE DEF more
  <2>3. task' \in [Workers -> Task] /\ task'[w] = more /\ \A v \in Workers \ {w} : task'[v] = task[v]
    BY <1>7, <2>2, SetsTask DEF BgInv
  <2>4. Placed(w)'
    BY <1>2, <1>3, <2>1, <2>2, <2>3 DEF Placed
  <2>5. SumKnown(w)'
    <3>2. ASSUME NEW b \in Budgets, NEW m \in Months, t.b = b, t.m = m PROVE Spent(b, m)' = spent
      BY <1>2, <3>2, Unmoved DEF SameSums, spent
    <3>. QED
      BY <2>2, <2>3, <3>2 DEF SumKnown
  <2>6. RowsKnown(w)'
    <3>1. RowsKnown(w) /\ "rows" # "sum" /\ \A b \in Budgets : Made(b)' = Made(b)
      BY <1>2, TaskKnown DEF SoundTask, Made
    <3>. QED
      BY <1>2, <1>3, <2>1, <2>2, <2>3, <3>1 DEF RowsKnown, t
  <2>7. StoreRight(w)' /\ RepairRight(w)'
    BY <2>2, <2>3 DEF StoreRight, RepairRight
  <2>. QED
    BY <1>2, <1>4, <2>2, <2>3, <2>4, <2>5, <2>6, <2>7, OwnStep
<1>. QED
  BY <1>1, <1>5, <1>6, <1>7

LEMMA NextType ==
  ASSUME NEW t \in Task, NEW left \in Lefts
  PROVE  LET u == [t EXCEPT !.pc = "next", !.left = left] IN
         /\ u \in Task /\ u.pc = "next" /\ u.left = left /\ u.todo = t.todo /\ u.job = t.job /\ u.b = t.b
<1>1. "next" \in Steps
  BY DEF Steps
<1>. QED
  BY <1>1 DEF Task

LEMMA ReadBudgetsKeeps ==
  ASSUME BgInv, NEW w \in Workers, ReadBudgets(w)
  PROVE  BgInv'
<1>. DEFINE t == task[w]
            left == {<<b, budget[b].rollover>> : b \in {x \in Budgets : Working(x)}}
            more == [t EXCEPT !.pc = "next", !.left = left]
<1>1. /\ t.pc = "budgets"
      /\ \/ t.todo = <<>> /\ task' = [task EXCEPT ![w] = Idle]
         \/ t.todo # <<>> /\ task' = [task EXCEPT ![w] = more]
  BY DEF ReadBudgets, At, Becomes
<1>2. UNCHANGED <<entry, removed, budget, period, now, announced, misled, again, stale, skewed>>
  BY DEF ReadBudgets, table, history
<1>3. /\ t \in Task /\ t.job = "event" /\ (t.b # None => budget[t.b].state # "none")
  BY <1>1, TaskKnown DEF SoundTask, Placed
<1>4. \A b \in Budgets : ~ OwesCascade(w, b)
  BY <1>1 DEF OwesCascade
<1>5. CASE t.todo = <<>> /\ task' = [task EXCEPT ![w] = Idle]
  <2>1. task' \in [Workers -> Task] /\ task'[w] = Idle /\ \A v \in Workers \ {w} : task'[v] = task[v]
    BY <1>5, IdleType, SetsTask DEF BgInv
  <2>2. \A b \in Budgets : \A m : ~ Owes(w, b, m)
    BY <1>1, <1>5 DEF Owes
  <2>. QED
    BY <1>2, <1>4, <2>1, <2>2, IdlePlaced, OwnStep
<1>6. CASE t.todo # <<>> /\ task' = [task EXCEPT ![w] = more]
  <2>1. \A x \in left : x \in Budgets \X BOOLEAN /\ budget[x[1]].state # "none"
    <3>1. ASSUME NEW x \in left PROVE x \in Budgets \X BOOLEAN /\ budget[x[1]].state # "none"
      <4>1. PICK b \in Budgets : Working(b) /\ x = <<b, budget[b].rollover>>
        BY <3>1
      <4>2. budget[b].rollover \in BOOLEAN
        BY TaskKnown DEF BudgetRow
      <4>. QED
        BY <4>1, <4>2 DEF Working
    <3>. QED
      BY <3>1
  <2>2. \A b \in Budgets : Working(b) => \E x \in left : x[1] = b
    <3>1. ASSUME NEW b \in Budgets, Working(b) PROVE \E x \in left : x[1] = b
      <4>1. <<b, budget[b].rollover>> \in left /\ <<b, budget[b].rollover>>[1] = b
        BY <3>1
      <4>. QED
        BY <4>1
    <3>. QED
      BY <3>1
  <2>. HIDE DEF left, t
  <2>3. left \in Lefts
    BY <2>1, LeftsAre
  <2>4. /\ more \in Task /\ more.pc = "next" /\ more.left = left /\ more.todo = t.todo /\ more.job = t.job
        /\ more.b = t.b
    BY ONLY <1>3, <2>3, NextType
  <2>. HIDE DEF more
  <2>5. task' \in [Workers -> Task] /\ task'[w] = more /\ \A v \in Workers \ {w} : task'[v] = task[v]
    BY <1>6, <2>4, SetsTask DEF BgInv
  <2>6. Placed(w)'
    BY <1>2, <1>3, <1>6, <2>1, <2>4, <2>5 DEF Placed
  <2>7. ASSUME NEW b \in Budgets, NEW m \in Months, Working(b), Owes(w, b, m) PROVE Owes(w, b, m)'
    BY <1>1, <1>2, <1>3, <2>2, <2>4, <2>5, <2>7 DEF Owes, Scope, t
  <2>8. SumKnown(w)' /\ RowsKnown(w)' /\ StoreRight(w)' /\ RepairRight(w)'
    BY <2>4, <2>5, HoldsNothing
  <2>. QED
    BY <1>2, <1>4, <2>4, <2>5, <2>6, <2>7, <2>8, OwnStep
<1>. QED
  BY <1>1, <1>5, <1>6

LEMMA EventType ==
  ASSUME NEW todo \in Seq(EntryRow)
  PROVE  LET u == [Idle EXCEPT !.job = "event", !.pc = "budgets", !.todo = todo] IN
         /\ u \in Task /\ u.pc = "budgets" /\ u.left = {} /\ u.todo = todo /\ u.job = "event" /\ u.b = None
<1>1. "budgets" \in Steps /\ "event" \in Jobs /\ Idle \in Task
  BY IdleType DEF Steps, Jobs
<1>2. [Idle EXCEPT !.job = "event", !.pc = "budgets", !.todo = todo] \in Task
  BY <1>1 DEF Task
<1>. QED
  BY <1>2 DEF Idle

LEMMA WriteType ==
  ASSUME NEW t \in Task, NEW b \in Budgets, NEW rollover \in BOOLEAN, NEW left \in Lefts, NEW m \in Nat,
         NEW spent \in Nat
  PROVE  [t EXCEPT !.pc = "write", !.b = b, !.rollover = rollover, !.left = left,
                   !.late = {}, !.m = m, !.spent = spent] \in Task
<1>1. "write" \in Steps /\ {} \in SUBSET {"sum", "rows"}
  BY DEF Steps
<1>. QED
  BY <1>1 DEF Task

LEMMA WriteFields ==
  ASSUME NEW t \in Task, NEW b, NEW rollover, NEW left, NEW m, NEW spent
  PROVE  LET u == [t EXCEPT !.pc = "write", !.b = b, !.rollover = rollover, !.left = left,
                            !.late = {}, !.m = m, !.spent = spent] IN
         /\ u.pc = "write" /\ u.b = b /\ u.rollover = rollover /\ u.left = left
         /\ u.late = {} /\ u.m = m /\ u.spent = spent /\ u.todo = t.todo /\ u.job = t.job
  BY DEF Task

LEMMA SkipType ==
  ASSUME NEW t \in Task, NEW left \in Lefts
  PROVE  LET u == [t EXCEPT !.left = left] IN
         /\ u \in Task /\ u.pc = t.pc /\ u.left = left /\ u.todo = t.todo /\ u.job = t.job /\ u.b = t.b
  BY DEF Task

LEMMA NextBudgetKeeps ==
  ASSUME BgInv, NEW w \in Workers, NextBudget(w)
  PROVE  BgInv'
<1>. DEFINE t == task[w]
            todo == Tail(t.todo)
            done == [Idle EXCEPT !.job = "event", !.pc = "budgets", !.todo = todo]
            place == Head(t.todo)
            Write(x) == [t EXCEPT !.pc = "write", !.b = x[1], !.rollover = x[2], !.left = @ \ {x},
                                  !.late = {}, !.m = place.month, !.spent = Spent(x[1], place.month)]
            Skip(x) == [t EXCEPT !.left = @ \ {x}]
<1>1. /\ t.pc = "next"
      /\ \/ t.left = {} /\ task' = [task EXCEPT ![w] = done]
         \/ \E x \in t.left : Concerned(w, x[1]) /\ task' = [task EXCEPT ![w] = Write(x)]
         \/ \E x \in t.left : ~ Concerned(w, x[1]) /\ task' = [task EXCEPT ![w] = Skip(x)]
  BY DEF NextBudget, At, Becomes
<1>2. UNCHANGED <<entry, removed, budget, period, now, announced, misled, again, stale, skewed>>
  BY DEF NextBudget, table, history
<1>3. /\ t \in Task /\ t.job = "event" /\ t.todo # <<>> /\ t.todo \in Seq(EntryRow)
      /\ \A x \in t.left : x \in Budgets \X BOOLEAN /\ budget[x[1]].state # "none"
      /\ (t.b # None => budget[t.b].state # "none")
  BY <1>1, TaskKnown DEF SoundTask, Placed, Task
<1>4. \A b \in Budgets : ~ OwesCascade(w, b)
  BY <1>1 DEF OwesCascade
<1>5. place = t.todo[1] /\ place \in EntryRow /\ 1 \in DOMAIN t.todo /\ todo \in Seq(EntryRow)
      /\ DOMAIN t.todo = 1..Len(t.todo) /\ DOMAIN todo = 1..(Len(t.todo) - 1) /\ Len(t.todo) \in Nat
      /\ \A i \in 1..(Len(t.todo) - 1) : todo[i] = t.todo[i + 1]
  BY <1>3
<1>6. CASE t.left = {} /\ task' = [task EXCEPT ![w] = done]
  <2>1. /\ done \in Task /\ done.pc = "budgets" /\ done.left = {} /\ done.todo = todo
        /\ done.job = "event" /\ done.b = None
    <3>1. todo \in Seq(EntryRow)
      BY <1>5
    <3>. HIDE DEF todo
    <3>. QED
      BY ONLY <3>1, EventType
  <2>. HIDE DEF done
  <2>2. task' \in [Workers -> Task] /\ task'[w] = done /\ \A v \in Workers \ {w} : task'[v] = task[v]
    BY <1>6, <2>1, SetsTask DEF BgInv
  <2>3. Placed(w)'
    BY <2>1, <2>2 DEF Placed
  <2>4. ASSUME NEW b \in Budgets, NEW m \in Months, Owes(w, b, m) PROVE Owes(w, b, m)'
    <3>1. PICK i \in DOMAIN t.todo : i > 1 /\ t.todo[i].month = m /\ t.todo[i].cat \in Scope(budget[b].cat)
      BY <1>1, <1>6, <2>4 DEF Owes
    <3>2. i - 1 \in DOMAIN todo /\ todo[i - 1] = t.todo[i]
      BY <1>5, <3>1
    <3>3. Scope(budget[b].cat)' = Scope(budget[b].cat)
      BY <1>2 DEF Scope
    <3>. HIDE DEF todo
    <3>. QED
      BY <1>2, <2>1, <2>2, <3>1, <3>2, <3>3 DEF Owes
  <2>5. SumKnown(w)' /\ RowsKnown(w)' /\ StoreRight(w)' /\ RepairRight(w)'
    BY <2>1, <2>2, HoldsNothing
  <2>. QED
    BY <1>2, <1>4, <2>1, <2>2, <2>3, <2>4, <2>5, OwnStep
<1>7. ASSUME NEW x \in t.left, Concerned(w, x[1]), task' = [task EXCEPT ![w] = Write(x)]
      PROVE  BgInv'
  <2>. DEFINE b == x[1]
              rollover == x[2]
              left == t.left \ {x}
              m == place.month
              spent == Spent(b, m)
              u == Write(x)
  <2>1. b \in Budgets /\ rollover \in BOOLEAN /\ budget[b].state # "none"
    BY <1>3
  <2>2. m \in Months /\ m \in Nat /\ m \in Made(b) /\ period[b][m].made
    BY <1>7, MonthsAre DEF Concerned, Made
  <2>3. spent \in Nat
    BY SpentNat DEF BgInv
  <2>4. left \in Lefts /\ \A y \in left : budget[y[1]].state # "none"
    BY <1>3, LeftsAre
  <2>5. u = [t EXCEPT !.pc = "write", !.b = b, !.rollover = rollover, !.left = left,
                            !.late = {}, !.m = m, !.spent = spent]
    OBVIOUS
  <2>6. task' = [task EXCEPT ![w] = u]
    BY <1>7
  <2>. HIDE DEF b, rollover, left, m, spent, u, Write
  <2>7. /\ u \in Task /\ u.pc = "write" /\ u.b = b /\ u.rollover = rollover /\ u.left = left
        /\ u.late = {} /\ u.m = m /\ u.spent = spent /\ u.todo = t.todo /\ u.job = t.job
    <3>1. t \in Task /\ b \in Budgets /\ rollover \in BOOLEAN /\ left \in Lefts /\ m \in Nat /\ spent \in Nat
      BY <1>3, <2>1, <2>2, <2>3, <2>4
    <3>. HIDE DEF t
    <3>2. [t EXCEPT !.pc = "write", !.b = b, !.rollover = rollover, !.left = left,
                    !.late = {}, !.m = m, !.spent = spent] \in Task
      BY ONLY <3>1, WriteType
    <3>3. LET v == [t EXCEPT !.pc = "write", !.b = b, !.rollover = rollover, !.left = left,
                             !.late = {}, !.m = m, !.spent = spent] IN
          /\ v.pc = "write" /\ v.b = b /\ v.rollover = rollover /\ v.left = left
          /\ v.late = {} /\ v.m = m /\ v.spent = spent /\ v.todo = t.todo /\ v.job = t.job
      BY ONLY <3>1, WriteFields
    <3>. QED
      BY ONLY <2>5, <3>2, <3>3
  <2>8. task' \in [Workers -> Task] /\ task'[w] = u /\ \A v \in Workers \ {w} : task'[v] = task[v]
    BY <2>6, <2>7, SetsTask DEF BgInv
  <2>9. Placed(w)'
    BY <1>2, <1>3, <2>1, <2>2, <2>4, <2>7, <2>8 DEF Placed, Made
  <2>10. SumKnown(w)'
    <3>1. \A c \in Budgets, n \in Months : c = b /\ n = m => Spent(c, n)' = spent
      BY <1>2, Unmoved DEF SameSums, spent
    <3>. QED
      BY <2>7, <2>8, <3>1 DEF SumKnown
  <2>11. RowsKnown(w)' /\ StoreRight(w)' /\ RepairRight(w)'
    BY <2>7, <2>8 DEF RowsKnown, StoreRight, RepairRight
  <2>12. ASSUME NEW c \in Budgets, NEW n \in Months, Owes(w, c, n) PROVE Owes(w, c, n)'
    <3>1. PICK i \in DOMAIN t.todo : /\ t.todo[i].month = n /\ t.todo[i].cat \in Scope(budget[c].cat)
                                     /\ i > 1 \/ \E y \in t.left : y[1] = c
      BY <1>1, <2>12 DEF Owes
    <3>2. Scope(budget[c].cat)' = Scope(budget[c].cat)
      BY <1>2 DEF Scope
    <3>3. CASE i > 1 \/ \E y \in left : y[1] = c
      BY <1>2, <1>3, <2>7, <2>8, <3>1, <3>2, <3>3 DEF Owes
    <3>4. CASE ~ (i > 1) /\ ~ \E y \in left : y[1] = c
      <4>1. i = 1 /\ x[1] = c
        BY <1>5, <3>1, <3>4 DEF left
      <4>2. c = b /\ n = m
        BY <1>5, <3>1, <4>1 DEF b, m
      <4>. QED
        BY <1>3, <2>7, <2>8, <4>2 DEF Owes
    <3>. QED
      BY <3>3, <3>4
  <2>. QED
    BY <1>2, <1>4, <2>7, <2>8, <2>9, <2>10, <2>11, <2>12, OwnStep
<1>8. ASSUME NEW x \in t.left, ~ Concerned(w, x[1]), task' = [task EXCEPT ![w] = Skip(x)]
      PROVE  BgInv'
  <2>. DEFINE left == t.left \ {x}
              u == Skip(x)
  <2>4. left \in Lefts /\ \A y \in left : budget[y[1]].state # "none"
    BY <1>3, LeftsAre
  <2>5. u = [t EXCEPT !.left = left]
    OBVIOUS
  <2>6. task' = [task EXCEPT ![w] = u]
    BY <1>8
  <2>. HIDE DEF left, u, Skip
  <2>7. u \in Task /\ u.pc = t.pc /\ u.left = left /\ u.todo = t.todo /\ u.job = t.job /\ u.b = t.b
    <3>1. t \in Task /\ left \in Lefts
      BY <1>3, <2>4
    <3>. HIDE DEF t
    <3>. QED
      BY ONLY <2>5, <3>1, SkipType
  <2>8. task' \in [Workers -> Task] /\ task'[w] = u /\ \A v \in Workers \ {w} : task'[v] = task[v]
    BY <2>6, <2>7, SetsTask DEF BgInv
  <2>9. Placed(w)'
    BY <1>1, <1>2, <1>3, <2>4, <2>7, <2>8 DEF Placed
  <2>10. SumKnown(w)' /\ RowsKnown(w)' /\ StoreRight(w)' /\ RepairRight(w)'
    BY <1>1, <2>7, <2>8, HoldsNothing
  <2>12. ASSUME NEW c \in Budgets, NEW n \in Months, n \in Made(c), Owes(w, c, n) PROVE Owes(w, c, n)'
    <3>1. PICK i \in DOMAIN t.todo : /\ t.todo[i].month = n /\ t.todo[i].cat \in Scope(budget[c].cat)
                                     /\ i > 1 \/ \E y \in t.left : y[1] = c
      BY <1>1, <2>12 DEF Owes
    <3>2. Scope(budget[c].cat)' = Scope(budget[c].cat)
      BY <1>2 DEF Scope
    <3>3. CASE i > 1 \/ \E y \in left : y[1] = c
      BY <1>2, <1>3, <2>7, <2>8, <3>1, <3>2, <3>3 DEF Owes
    <3>4. CASE ~ (i > 1) /\ ~ \E y \in left : y[1] = c
      <4>1. i = 1 /\ x[1] = c
        BY <1>5, <3>1, <3>4 DEF left
      <4>2. Concerned(w, x[1])
        BY <1>5, <2>12, <3>1, <4>1 DEF Concerned
      <4>. QED
        BY <1>8, <4>2
    <3>. QED
      BY <3>3, <3>4
  <2>. QED
    BY <1>1, <1>2, <1>4, <2>7, <2>8, <2>9, <2>10, <2>12, OwnStep
<1>. QED
  BY <1>1, <1>6, <1>7, <1>8

(* The rows that recascade() leaves. *)
LEMMA CascadeRight ==
  ASSUME BgInv, NEW b \in Budgets, NEW plan, plan = [m \in OffTrack(b) |-> Allocation(b, m)]
  PROVE  /\ Chain(Cascaded(period[b], plan), budget[b]) /\ plan \in Plans
         /\ \A m \in DOMAIN plan : plan[m].carried \in Int /\ plan[m].allocated \in Int
<1>. DEFINE spent == [n \in Made(b) |-> period[b][n].spent]
            c == Carries(b, spent)
            rows == Cascaded(period[b], plan)
            amount == budget[b].amount
<1>1. budget[b] \in BudgetRow /\ \A m \in Months : period[b][m] \in PeriodRow
  BY DEF BgInv, BgTypes
<1>2. amount \in Int
  <2>1. \A a \in Amounts \union {0} : a \in Int
    BY BudgetAssumption
  <2>2. amount \in Amounts \union {0}
    BY <1>1 DEF BudgetRow
  <2>. QED
    BY ONLY <2>1, <2>2
<1>3. \A n \in Made(b) : spent[n] \in Int /\ spent[n] = period[b][n].spent
  BY <1>1 DEF Made, PeriodRow
<1>4. \A n \in Months : c[n] \in Int /\ c[n] = Into(b, spent, c, n)
  <2>. HIDE DEF spent
  <2>. QED
    BY <1>2, <1>3, CarriesRule
<1>5. \A m : Allocation(b, m) = [carried |-> c[m], allocated |-> amount + c[m]]
  BY DEF Allocation, CarryInto
<1>. HIDE DEF c, spent
<1>6. OffTrack(b) \subseteq Months /\ OffTrack(b) \subseteq Made(b)
      /\ \A m \in Made(b) : \/ m \in OffTrack(b)
                            \/ period[b][m].carried = c[m] /\ period[b][m].allocated = amount + c[m]
  BY <1>5 DEF OffTrack, Made
<1>7. DOMAIN plan = OffTrack(b)
      /\ \A m \in OffTrack(b) : plan[m] = [carried |-> c[m], allocated |-> amount + c[m]]
  BY <1>5
<1>8. \A m \in DOMAIN plan : /\ plan[m].carried \in Int /\ plan[m].allocated \in Int
                             /\ plan[m] \in AllocationRow
  BY <1>2, <1>4, <1>6, <1>7 DEF AllocationRow
<1>9. plan \in Plans
  <2>1. plan \in [OffTrack(b) -> AllocationRow \union PeriodRow]
    BY <1>7, <1>8
  <2>. QED
    BY <1>6, <2>1 DEF Plans
<1>. HIDE DEF amount
<1>10. \A m \in Months : /\ rows[m].made = period[b][m].made /\ rows[m].spent = period[b][m].spent
                         /\ m \in Made(b) => rows[m].carried = c[m] /\ rows[m].allocated = amount + c[m]
  <2>1. ASSUME NEW m \in Months
        PROVE  /\ rows[m].made = period[b][m].made /\ rows[m].spent = period[b][m].spent
               /\ m \in Made(b) => rows[m].carried = c[m] /\ rows[m].allocated = amount + c[m]
    <3>1. CASE m \in OffTrack(b)
      <4>1. rows[m] = Given(period[b][m], c[m], amount + c[m])
        BY <1>7, <3>1 DEF Cascaded
      <4>. QED
        BY <4>1 DEF Given
    <3>2. CASE m \notin OffTrack(b)
      <4>1. rows[m] = period[b][m]
        BY <1>7, <3>2 DEF Cascaded
      <4>. QED
        BY <1>6, <3>2, <4>1
    <3>. QED
      BY <3>1, <3>2
  <2>. QED
    BY <2>1
<1>. HIDE DEF rows
<1>11. Chain(rows, budget[b])
  <2>1. MadeIn(rows) = Made(b)
    BY <1>10 DEF MadeIn, Made
  <2>2. ASSUME NEW m \in Made(b)
        PROVE  /\ rows[m].allocated = amount + rows[m].carried
               /\ rows[m].carried = IF budget[b].rollover /\ m - 1 \in Made(b)
                                    THEN rows[m - 1].allocated - rows[m - 1].spent ELSE 0
    <3>1. m \in Months /\ (m - 1 \in Made(b) => m - 1 \in Months)
      BY DEF Made
    <3>2. c[m] = Into(b, spent, c, m) /\ c[m] \in Int
      BY <1>4, <3>1
    <3>3. m - 1 \in Made(b) => /\ rows[m - 1].allocated = amount + c[m - 1]
                               /\ rows[m - 1].spent = spent[m - 1]
      BY <1>3, <1>10, <3>1
    <3>4. rows[m].carried = c[m] /\ rows[m].allocated = amount + c[m]
      BY <1>10, <3>1
    <3>5. c[m] = IF budget[b].rollover /\ m - 1 \in Made(b) THEN amount + c[m - 1] - spent[m - 1] ELSE 0
      BY <3>2 DEF Into, amount
    <3>6. CASE budget[b].rollover /\ m - 1 \in Made(b)
      <4>1. amount \in Int /\ c[m - 1] \in Int /\ spent[m - 1] \in Int
        BY <1>2, <1>3, <1>4, <3>1, <3>6
      <4>2. rows[m - 1].allocated = amount + c[m - 1] /\ rows[m - 1].spent = spent[m - 1]
        BY <3>3, <3>6
      <4>3. rows[m].carried = amount + c[m - 1] - spent[m - 1]
        BY <3>4, <3>5, <3>6
      <4>. QED
        BY <3>4, <3>6, <4>1, <4>2, <4>3
    <3>7. CASE ~ (budget[b].rollover /\ m - 1 \in Made(b))
      BY <3>4, <3>5, <3>7
    <3>. QED
      BY <3>6, <3>7
  <2>. QED
    BY <2>1, <2>2 DEF Chain, amount
<1>. QED
  BY <1>8, <1>9, <1>11 DEF rows

LEMMA StoreType ==
  ASSUME NEW t \in Task, NEW plan \in Plans
  PROVE  LET u == [t EXCEPT !.pc = "store", !.late = {}, !.plan = plan] IN
         /\ u \in Task /\ u.pc = "store" /\ u.late = {} /\ u.plan = plan
         /\ u.job = t.job /\ u.b = t.b /\ u.m = t.m /\ u.left = t.left /\ u.todo = t.todo /\ u.row = t.row
<1>1. "store" \in Steps /\ {} \in SUBSET {"sum", "rows"}
  BY DEF Steps
<1>. QED
  BY <1>1 DEF Task

LEMMA ReadCascadeKeeps ==
  ASSUME BgInv, NEW w \in Workers, ReadCascade(w)
  PROVE  BgInv'
<1>. DEFINE t == task[w]
            plan == [m \in OffTrack(t.b) |-> Allocation(t.b, m)]
            u == [t EXCEPT !.pc = "store", !.late = {}, !.plan = plan]
<1>1. t.pc = "cascade" /\ task' = [task EXCEPT ![w] = u]
  BY DEF ReadCascade, At, Becomes
<1>2. UNCHANGED <<entry, removed, budget, period, now, announced, misled, again, stale, skewed>>
  BY DEF ReadCascade, table, history
<1>3. t \in Task /\ t.b \in Budgets /\ Placed(w) /\ None \notin Budgets
      /\ \A x \in t.left : budget[x[1]].state # "none"
  BY <1>1, TaskKnown DEF SoundTask, Placed
<1>. HIDE DEF t, plan
<1>4. /\ Chain(Cascaded(period[t.b], plan), budget[t.b]) /\ plan \in Plans
      /\ \A m \in DOMAIN plan : plan[m].carried \in Int /\ plan[m].allocated \in Int
  BY <1>3, CascadeRight DEF plan
<1>5. /\ u \in Task /\ u.pc = "store" /\ u.late = {} /\ u.plan = plan
      /\ u.job = t.job /\ u.b = t.b /\ u.m = t.m /\ u.left = t.left /\ u.todo = t.todo /\ u.row = t.row
  <2>1. t \in Task /\ plan \in Plans
    BY <1>3, <1>4
  <2>. QED
    BY ONLY <2>1, StoreType
<1>. HIDE DEF u
<1>6. task' \in [Workers -> Task] /\ task'[w] = u /\ \A v \in Workers \ {w} : task'[v] = task[v]
  BY <1>1, <1>5, SetsTask DEF BgInv
<1>7. Placed(w)'
  BY <1>1, <1>2, <1>3, <1>4, <1>5, <1>6 DEF Placed, Made, t
<1>8. StoreRight(w)'
  BY <1>2, <1>4, <1>5, <1>6 DEF StoreRight, Chain, MadeIn, Cascaded
<1>9. SumKnown(w)' /\ RowsKnown(w)' /\ RepairRight(w)'
  BY <1>5, <1>6 DEF SumKnown, RowsKnown, RepairRight
<1>10. ASSUME NEW b \in Budgets PROVE OwesCascade(w, b) => OwesCascade(w, b)'
  BY <1>5, <1>6 DEF OwesCascade, t
<1>11. ASSUME NEW b \in Budgets, NEW m \in Months, Owes(w, b, m) PROVE Owes(w, b, m)'
  BY <1>1, <1>2, <1>5, <1>6, <1>11 DEF Owes, Scope, t
<1>. QED
  BY <1>2, <1>5, <1>6, <1>7, <1>8, <1>9, <1>10, <1>11, OwnStep

(* A row that the repair script writes. *)
LEMMA RepairedIs ==
  ASSUME NEW b, NEW m, period[b][m] \in PeriodRow, NEW c \in Int, NEW a \in Int, NEW spent \in Nat
  PROVE  LET x == RepairedRow(b, m, [carried |-> c, allocated |-> a], spent) IN
         /\ x \in PeriodRow /\ x.made = period[b][m].made /\ x.spent = spent
         /\ x.carried = c /\ x.allocated = a
<1>. DEFINE x == RepairedRow(b, m, [carried |-> c, allocated |-> a], spent)
            p == period[b][m]
            row == [p EXCEPT !.spent = spent, !.carried = c, !.allocated = a]
            alert == IF row.allocated > 0 THEN Max(Crossed(row) \union {row.alert}) ELSE row.alert
<1>1. x = [row EXCEPT !.alert = alert]
  BY DEF RepairedRow
<1>2. row \in PeriodRow /\ row.made = p.made /\ row.spent = spent /\ row.carried = c /\ row.allocated = a
  <2>. HIDE DEF p
  <2>1. p \in PeriodRow
    BY DEF p
  <2>. QED
    BY <2>1 DEF PeriodRow
<1>. HIDE DEF row
<1>3. row.alert \in Thresholds \union {0}
  BY <1>2 DEF PeriodRow
<1>4. alert \in Thresholds \union {0}
  <2>. DEFINE S == Crossed(row) \union {row.alert}
  <2>1. S \subseteq Crossed(row) \union {row.alert} /\ S # {}
    OBVIOUS
  <2>. HIDE DEF S
  <2>2. Max(S) \in Thresholds \union {0}
    BY <1>3, <2>1, HighestCrossed
  <2>. QED
    BY <1>3, <2>2 DEF S
<1>. HIDE DEF alert
<1>5. [row EXCEPT !.alert = alert] \in PeriodRow /\ [row EXCEPT !.alert = alert].made = row.made
      /\ [row EXCEPT !.alert = alert].spent = row.spent
      /\ [row EXCEPT !.alert = alert].carried = row.carried
      /\ [row EXCEPT !.alert = alert].allocated = row.allocated
  BY <1>2, <1>4 DEF PeriodRow
<1>. HIDE DEF x
<1>6. /\ x \in PeriodRow /\ x.made = period[b][m].made /\ x.spent = spent
      /\ x.carried = c /\ x.allocated = a
  BY <1>1, <1>2, <1>5
<1>. QED
  BY <1>6 DEF x

LEMMA RepairType ==
  ASSUME NEW b \in Budgets, NEW plan \in Plans
  PROVE  LET u == [Idle EXCEPT !.job = "repair", !.pc = "repair", !.b = b, !.plan = plan] IN
         /\ u \in Task /\ u.pc = "repair" /\ u.b = b /\ u.plan = plan /\ u.job = "repair"
         /\ u.left = {} /\ u.late = {}
<1>1. "repair" \in Steps /\ "repair" \in Jobs /\ Idle \in Task
  BY IdleType DEF Steps, Jobs
<1>2. [Idle EXCEPT !.job = "repair", !.pc = "repair", !.b = b, !.plan = plan] \in Task
  BY <1>1 DEF Task
<1>. QED
  BY <1>2 DEF Idle

LEMMA PlanRepairKeeps ==
  ASSUME BgInv, NEW w \in Workers, NEW b \in Budgets, PlanRepair(w, b)
  PROVE  BgInv'
<1>. DEFINE right == [m \in Made(b) |-> Spent(b, m)]
            carry == Carries(b, right)
            amount == budget[b].amount
            wanted == [m \in Made(b) |->
                        RepairedRow(b, m, [carried |-> carry[m], allocated |-> budget[b].amount + carry[m]],
                                    right[m])]
            differs == {m \in Made(b) : \/ wanted[m].spent # period[b][m].spent
                                        \/ wanted[m].carried # period[b][m].carried
                                        \/ wanted[m].allocated # period[b][m].allocated}
            plan == [m \in differs |-> wanted[m]]
            u == [Idle EXCEPT !.job = "repair", !.pc = "repair", !.b = b, !.plan = plan]
            rows == Patched(period[b], plan)
<1>1. task[w] = Idle /\ budget[b].state = "live" /\ task' = [task EXCEPT ![w] = u]
  BY DEF PlanRepair, Begins
<1>2. UNCHANGED <<entry, removed, budget, period, now, announced, misled, again, stale, skewed>>
  BY DEF PlanRepair, table, history
<1>3. budget[b] \in BudgetRow /\ \A m \in Months : period[b][m] \in PeriodRow
  BY TaskKnown
<1>4. amount \in Int
  <2>1. \A a \in Amounts \union {0} : a \in Int
    BY BudgetAssumption
  <2>2. amount \in Amounts \union {0}
    BY <1>3 DEF BudgetRow
  <2>. QED
    BY ONLY <2>1, <2>2
<1>5. \A m \in Made(b) : right[m] \in Nat /\ right[m] = Spent(b, m)
  BY SpentNat DEF BgInv
<1>6. \A m \in Months : carry[m] \in Int /\ carry[m] = Into(b, right, carry, m)
  <2>. HIDE DEF right
  <2>1. \A m \in Made(b) : right[m] \in Int
    BY <1>5
  <2>. QED
    BY <1>4, <2>1, CarriesRule
<1>. HIDE DEF right, carry
<1>7. ASSUME NEW m \in Made(b)
      PROVE  /\ wanted[m] \in PeriodRow /\ wanted[m].made /\ wanted[m].spent = right[m]
             /\ wanted[m].carried = carry[m] /\ wanted[m].allocated = amount + carry[m]
  <2>. DEFINE a == amount + carry[m]
              c == carry[m]
              s == right[m]
  <2>1. m \in Months /\ period[b][m].made /\ period[b][m] \in PeriodRow
    BY <1>3 DEF Made
  <2>2. a \in Int /\ c \in Int /\ s \in Nat
    BY <1>4, <1>5, <1>6, <2>1
  <2>3. wanted[m] = RepairedRow(b, m, [carried |-> c, allocated |-> a], s)
    OBVIOUS
  <2>. HIDE DEF a, c, s, wanted
  <2>4. /\ wanted[m] \in PeriodRow /\ wanted[m].made = period[b][m].made /\ wanted[m].spent = s
        /\ wanted[m].carried = c /\ wanted[m].allocated = a
    <3>1. period[b][m] \in PeriodRow /\ c \in Int /\ a \in Int /\ s \in Nat
      BY <2>1, <2>2
    <3>2. LET x == RepairedRow(b, m, [carried |-> c, allocated |-> a], s) IN
          /\ x \in PeriodRow /\ x.made = period[b][m].made /\ x.spent = s
          /\ x.carried = c /\ x.allocated = a
      BY ONLY <3>1, RepairedIs
    <3>. QED
      BY <2>3, <3>2
  <2>. QED
    BY <2>1, <2>4 DEF a, c, s
<1>. HIDE DEF wanted
<1>8. DOMAIN plan = differs /\ differs \subseteq Made(b) /\ differs \subseteq Months
      /\ \A m \in differs : plan[m] = wanted[m]
  BY DEF Made
<1>9. \A m \in Made(b) \ differs : /\ period[b][m].spent = right[m] /\ period[b][m].carried = carry[m]
                                   /\ period[b][m].allocated = amount + carry[m]
  BY <1>7
<1>. HIDE DEF differs
<1>10. plan \in Plans
  <2>1. plan \in [differs -> AllocationRow \union PeriodRow]
    BY <1>7, <1>8
  <2>. QED
    BY <1>8, <2>1 DEF Plans
<1>. HIDE DEF plan
<1>11. \A m \in Months : rows[m] = IF m \in differs THEN wanted[m] ELSE period[b][m]
  BY <1>8 DEF Patched
<1>. HIDE DEF rows, amount
<1>12. ASSUME NEW m \in Made(b)
       PROVE  /\ rows[m].spent = right[m] /\ rows[m].carried = carry[m]
              /\ rows[m].allocated = amount + carry[m] /\ m \in Months
  BY <1>7, <1>9, <1>11 DEF Made
<1>13. MadeIn(rows) = Made(b)
  <2>1. \A m \in Months : rows[m].made <=> period[b][m].made
    BY <1>7, <1>8, <1>11 DEF Made
  <2>. QED
    BY <2>1 DEF MadeIn, Made
<1>14. Chain(rows, budget[b])
  <2>2. ASSUME NEW m \in Made(b)
        PROVE  /\ rows[m].allocated = amount + rows[m].carried
               /\ rows[m].carried = IF budget[b].rollover /\ m - 1 \in Made(b)
                                    THEN rows[m - 1].allocated - rows[m - 1].spent ELSE 0
    <3>5. carry[m] = IF budget[b].rollover /\ m - 1 \in Made(b) THEN amount + carry[m - 1] - right[m - 1] ELSE 0
      BY <1>6, <1>12 DEF Into, amount
    <3>6. CASE budget[b].rollover /\ m - 1 \in Made(b)
      <4>1. amount \in Int /\ carry[m - 1] \in Int /\ right[m - 1] \in Int
        BY <1>4, <1>5, <1>6, <1>12, <3>6
      <4>2. rows[m - 1].allocated = amount + carry[m - 1] /\ rows[m - 1].spent = right[m - 1]
        BY <1>12, <3>6
      <4>3. rows[m].carried = amount + carry[m - 1] - right[m - 1]
        BY <1>12, <3>5, <3>6
      <4>. QED
        BY <1>12, <3>6, <4>1, <4>2, <4>3
    <3>7. CASE ~ (budget[b].rollover /\ m - 1 \in Made(b))
      BY <1>12, <3>5, <3>7
    <3>. QED
      BY <3>6, <3>7
  <2>. QED
    BY <1>13, <2>2 DEF Chain, amount
<1>15. /\ u \in Task /\ u.pc = "repair" /\ u.b = b /\ u.plan = plan /\ u.job = "repair"
       /\ u.left = {} /\ u.late = {}
  <2>1. b \in Budgets /\ plan \in Plans
    BY <1>10
  <2>. QED
    BY ONLY <2>1, RepairType
<1>. HIDE DEF u
<1>16. task' \in [Workers -> Task] /\ task'[w] = u /\ \A v \in Workers \ {w} : task'[v] = task[v]
  BY <1>1, <1>15, SetsTask DEF BgInv
<1>17. Placed(w)'
  <2>1. \A m \in DOMAIN plan : m \in Made(b) /\ plan[m] \in PeriodRow /\ plan[m].made
    BY <1>7, <1>8
  <2>. QED
    BY <1>1, <1>2, <1>15, <1>16, <2>1 DEF Placed, Made
<1>18. RepairRight(w)'
  <2>1. Made(b)' = Made(b) /\ \A m \in Made(b) : Spent(b, m)' = Spent(b, m)
    BY <1>2, Unmoved DEF SameSums
  <2>2. Chain(rows, budget[b])' = Chain(rows, budget[b])'
    OBVIOUS
  <2>3. \A m \in Made(b) : rows[m].spent = Spent(b, m)
    BY <1>5, <1>12
  <2>. QED
    BY <1>2, <1>14, <1>15, <1>16, <2>1, <2>3 DEF RepairRight, rows, Chain, MadeIn, Patched
<1>19. SumKnown(w)' /\ RowsKnown(w)' /\ StoreRight(w)'
  BY <1>15, <1>16 DEF SumKnown, RowsKnown, StoreRight
<1>. QED
  BY <1>1, <1>2, <1>15, <1>16, <1>17, <1>18, <1>19, OwnStep, IdleOwes

-----------------------------------------------------------------------------
(* Steps that change rows *)

(* Every other worker waits, and what it holds may have become late. *)
LEMMA OthersWait ==
  ASSUME BgTypes, NEW w \in Workers, NEW t \in Task, NEW what \in {"sum", "rows"}, NEW bs,
         task' = Late([task EXCEPT ![w] = t], w, what, bs)
  PROVE  /\ task' \in [Workers -> Task] /\ task'[w] = t
         /\ \A v \in Workers \ {w} :
              /\ Waits(task'[v], task[v])
              /\ task[v].pc \in Holds[what] /\ task[v].b \in bs => what \in task'[v].late
<1>. DEFINE tasks == [task EXCEPT ![w] = t]
<1>1. tasks \in [Workers -> Task] /\ tasks[w] = t /\ \A v \in Workers \ {w} : tasks[v] = task[v]
  BY DEF BgTypes
<1>. HIDE DEF tasks
<1>2. ASSUME NEW v \in Workers
      PROVE  /\ task'[v] \in Task /\ Waits(task'[v], tasks[v])
             /\ v # w /\ tasks[v].pc \in Holds[what] /\ tasks[v].b \in bs => what \in task'[v].late
  <2>1. task' = Late(tasks, w, what, bs)
    BY DEF tasks
  <2>2. tasks \in [Workers -> Task] /\ what \in {"sum", "rows"} /\ v \in Workers
    BY <1>1
  <2>3. /\ Late(tasks, w, what, bs)[v] \in Task
        /\ Waits(Late(tasks, w, what, bs)[v], tasks[v])
        /\ v # w /\ tasks[v].pc \in Holds[what] /\ tasks[v].b \in bs =>
             what \in Late(tasks, w, what, bs)[v].late
    BY ONLY <2>2, LateWaits
  <2>. QED
    BY ONLY <2>1, <2>3
<1>3. DOMAIN task' = Workers /\ task' = [v \in Workers |-> task'[v]]
  BY DEF Late
<1>4. task'[w] = tasks[w]
  <2>1. task' = Late(tasks, w, what, bs)
    BY DEF tasks
  <2>2. Late(tasks, w, what, bs)[w] = tasks[w]
    BY LateSelf
  <2>. QED
    BY ONLY <2>1, <2>2
<1>. QED
  BY <1>1, <1>2, <1>3, <1>4

LEMMA AllWait ==
  ASSUME BgTypes, NEW what \in {"sum", "rows"}, NEW bs, task' = Late(task, None, what, bs)
  PROVE  /\ task' \in [Workers -> Task]
         /\ \A v \in Workers :
              /\ Waits(task'[v], task[v])
              /\ task[v].pc \in Holds[what] /\ task[v].b \in bs => what \in task'[v].late
<1>1. task \in [Workers -> Task]
  BY DEF BgTypes
<1>2. ASSUME NEW v \in Workers
      PROVE  /\ task'[v] \in Task /\ Waits(task'[v], task[v])
             /\ task[v].pc \in Holds[what] /\ task[v].b \in bs => what \in task'[v].late
  <2>1. v # None
    BY BudgetAssumption
  <2>. QED
    BY <1>1, <2>1, LateWaits
<1>3. DOMAIN task' = Workers /\ task' = [v \in Workers |-> task'[v]]
  BY DEF Late
<1>. QED
  BY <1>2, <1>3

LEMMA OthersSound ==
  ASSUME BgInv, NEW w, \A v \in Workers \ {w} : Waits(task'[v], task[v]),
         w \in Workers => task'[w].pc # "save" /\ SoundTask(w)',
         \A v \in Workers \ {w} : task[v].pc = "save" => budget'[task[v].b].state = "none",
         \A b \in Budgets : budget[b].state # "none" => budget'[b].state # "none",
         \A b \in Budgets, m \in Months : period[b][m].made => period'[b][m].made,
         \A v \in Workers \ {w} : task[v].pc \in Holds["rows"] =>
           "rows" \in task'[v].late \/ RowsStay(task[v].b),
         \A v \in Workers \ {w} : task[v].pc \in Holds["sum"] =>
           "sum" \in task'[v].late \/ SameSums(task[v].b)
  PROVE  (\A v \in Workers : SoundTask(v)') /\ Alone'
<1>1. ASSUME NEW v \in Workers PROVE SoundTask(v)'
  <2>1. CASE v = w
    BY <2>1
  <2>2. CASE v # w
    BY <2>2, StaysSound
  <2>. QED
    BY <2>1, <2>2
<1>2. Alone'
  <2>1. \A v \in Workers : task'[v].pc = "save" => v # w /\ task[v].pc = "save" /\ task'[v].b = task[v].b
    BY DEF Waits
  <2>2. Alone
    BY DEF BgInv
  <2>. QED
    BY <2>1, <2>2 DEF Alone
<1>. QED
  BY <1>1, <1>2

LEMMA SpentStays ==
  ASSUME BgInv, NEW w, \A v \in Workers \ {w} : Waits(task'[v], task[v]),
         NEW b \in Budgets, NEW m \in Made(b), Working(b),
         budget'[b].cat = budget[b].cat, removed' = removed,
         period'[b][m].spent = period[b][m].spent, Spent(b, m)' = Spent(b, m),
         <<b, m>> \in stale => <<b, m>> \in stale',
         w \in Workers /\ Owes(w, b, m) => <<b, m>> \in stale' \/ Owes(w, b, m)'
  PROVE  SpentKnown(b, m)'
<1>1. SpentKnown(b, m)
  BY DEF BgInv
<1>2. CASE period[b][m].spent = Spent(b, m) \/ <<b, m>> \in stale
  BY <1>2 DEF SpentKnown
<1>3. ASSUME NEW v \in Workers, Owes(v, b, m) PROVE SpentKnown(b, m)'
  <2>1. CASE v = w
    BY <1>3, <2>1 DEF SpentKnown
  <2>2. CASE v # w
    BY <1>3, <2>2, OwesStays DEF SpentKnown
  <2>. QED
    BY <2>1, <2>2
<1>. QED
  BY <1>1, <1>2, <1>3 DEF SpentKnown

LEMMA SameChain ==
  ASSUME NEW b \in Budgets, RowsStay(b), Chain(period[b], budget[b])
  PROVE  Chain(period[b], budget[b])'
<1>1. MadeIn(period[b])' = MadeIn(period[b])
  BY DEF RowsStay, MadeIn
<1>2. \A m \in MadeIn(period[b]) : m \in Months
  BY DEF MadeIn
<1>. QED
  BY <1>1, <1>2 DEF RowsStay, Chain

LEMMA ChainStays ==
  ASSUME BgInv, NEW w, \A v \in Workers \ {w} : Waits(task'[v], task[v]),
         NEW b \in Budgets, RowsStay(b),
         b \in skewed => b \in skewed',
         w \in Workers /\ OwesCascade(w, b) => OwesCascade(w, b)' \/ b \in skewed'
  PROVE  Chained(b)'
<1>1. Chained(b)
  BY DEF BgInv
<1>2. CASE b \in skewed
  BY <1>2 DEF Chained
<1>3. CASE Chain(period[b], budget[b])
  BY <1>3, SameChain DEF Chained
<1>4. ASSUME NEW v \in Workers, OwesCascade(v, b) PROVE Chained(b)'
  <2>1. CASE v = w
    BY <1>4, <2>1 DEF Chained
  <2>2. CASE v # w
    BY <1>4, <2>2, CascadeStays DEF Chained
  <2>. QED
    BY <2>1, <2>2
<1>. QED
  BY <1>1, <1>2, <1>3, <1>4 DEF Chained

LEMMA AnnouncedStays ==
  ASSUME BgInv, UNCHANGED announced, misled \subseteq misled', NEW b \in Budgets, NEW m \in Months,
         period'[b][m].made = period[b][m].made, period'[b][m].alert = period[b][m].alert
  PROVE  Announced(b, m)'
  BY DEF BgInv, Announced, Made

(* A sum in which no row changed. *)
LEMMA SumStays ==
  ASSUME NEW b \in Budgets, UNCHANGED <<entry, removed>>, budget'[b].cat = budget[b].cat
  PROVE  SameSums(b)
  BY DEF SameSums, Spent, SpentOf, Scope

LEMMA SaveBudgetKeeps ==
  ASSUME BgInv, NEW w \in Workers, SaveBudget(w)
  PROVE  BgInv'
<1>0. PICK b \in Budgets : b = task[w].b
  BY TaskKnown DEF SaveBudget, At, SoundTask, Placed
<1>. DEFINE t == task[w]
            left == {<<b, FALSE>>}
            u == [Idle EXCEPT !.job = "create", !.pc = "generate", !.left = left]
<1>1. t.pc = "save" /\ budget' = [budget EXCEPT ![b] = t.row] /\ task' = [task EXCEPT ![w] = u]
      /\ t.b = b
  BY <1>0 DEF SaveBudget, At, Becomes
<1>2. UNCHANGED <<entry, removed, period, now, announced, misled, again, stale, skewed>>
  BY DEF SaveBudget, history
<1>3. b \in Budgets /\ budget[b].state = "none" /\ t.row \in NewBudgets /\ t.job # "event"
  BY <1>1, TaskKnown DEF SoundTask, Placed
<1>4. t.row \in BudgetRow /\ t.row.cat = Top /\ t.row.state = "live"
  BY <1>3, NewBudgetsAre
<1>5. budget' \in [Budgets -> BudgetRow] /\ budget'[b] = t.row
      /\ \A c \in Budgets \ {b} : budget'[c] = budget[c]
  BY <1>1, <1>3, <1>4 DEF BgInv, BgTypes
<1>6. left \in Lefts /\ \A x \in left : x[1] = b
  <2>1. <<b, FALSE>> \in Budgets \X BOOLEAN /\ <<b, FALSE>>[1] = b
    BY <1>3
  <2>. QED
    BY <2>1 DEF Lefts
<1>7. u \in Task /\ u.pc = "generate" /\ u.job = "create" /\ u.left = left /\ u.b = None
  <2>1. "create" \in Jobs /\ left \in Lefts
    BY <1>6 DEF Jobs
  <2>. HIDE DEF left
  <2>2. u \in Task
    BY ONLY <2>1, GenerateType
  <2>. QED
    BY <2>2 DEF Idle
<1>. HIDE DEF u, left
<1>8. task' \in [Workers -> Task] /\ task'[w] = u /\ \A v \in Workers \ {w} : task'[v] = task[v]
  BY <1>1, <1>7, SetsTask DEF BgInv
<1>9. SoundTask(w)' /\ task'[w].pc # "save"
  <2>1. \A x \in task'[w].left : budget'[x[1]].state # "none"
    BY <1>4, <1>5, <1>6, <1>7, <1>8
  <2>. QED
    BY <1>7, <1>8, <2>1, GeneratePlaced DEF SoundTask
<1>10. ASSUME NEW v \in Workers \ {w}
       PROVE  /\ Waits(task'[v], task[v])
              /\ task[v].pc = "save" => budget'[task[v].b].state = "none"
              /\ task[v].pc \in Holds["rows"] \union Holds["sum"] => task[v].b \in Budgets \ {b}
  <2>1. Waits(task'[v], task[v])
    BY <1>8, WaitsSame
  <2>2. Placed(v) /\ task[v] \in Task
    BY TaskKnown DEF SoundTask
  <2>3. task[v].pc = "save" => task[v].b # b /\ task[v].b \in Budgets /\ budget[task[v].b].state = "none"
    BY <1>1, <2>2 DEF BgInv, Alone, Placed
  <2>4. task[v].pc \in Holds["rows"] \union Holds["sum"] =>
          task[v].b \in Budgets /\ budget[task[v].b].state # "none"
    BY <2>2, HoldsAre, BudgetAssumption DEF Placed
  <2>. QED
    BY <1>3, <1>5, <2>1, <2>3, <2>4
<1>11. ASSUME NEW c \in Budgets \ {b} PROVE RowsStay(c) /\ SameSums(c)
  <2>1. budget'[c] = budget[c]
    BY <1>5
  <2>. QED
    BY <1>2, <2>1, SumStays DEF RowsStay
<1>12. (\A v \in Workers : SoundTask(v)') /\ Alone'
  <2>1. \A c \in Budgets : budget[c].state # "none" => budget'[c].state # "none"
    BY <1>3, <1>5
  <2>2. \A c \in Budgets, m \in Months : period[c][m].made => period'[c][m].made
    BY <1>2
  <2>. QED
    BY <1>9, <1>10, <1>11, <2>1, <2>2, OthersSound
<1>13. BgTypes'
  BY <1>2, <1>5, <1>8 DEF BgInv, BgTypes
<1>14. OfTop' /\ Made(b)' = {} /\ \A c \in Budgets : Made(c)' = Made(c)
  <2>1. \A c \in Budgets : Made(c)' = Made(c)
    BY <1>2 DEF Made
  <2>2. Made(b) = {} /\ OfTop
    BY <1>3 DEF BgInv, OfTop
  <2>. QED
    BY <1>3, <1>4, <1>5, <2>1, <2>2 DEF OfTop
<1>15. ASSUME NEW c \in Budgets, Working(c)', NEW m \in Made(c)' PROVE SpentKnown(c, m)'
  <2>1. c # b /\ m \in Made(c) /\ m \in Months /\ budget'[c] = budget[c]
    <3>1. c # b /\ m \in Made(c)
      BY <1>14, <1>15
    <3>. QED
      BY <1>5, <3>1 DEF Made
  <2>2. Working(c) /\ Spent(c, m)' = Spent(c, m)
    BY <1>11, <1>15, <2>1 DEF Working, SameSums
  <2>3. ~ Owes(w, c, m)
    BY <1>3, NoEventOwes
  <2>4. \A v \in Workers \ {w} : Waits(task'[v], task[v])
    BY <1>10
  <2>. QED
    BY <1>2, <2>1, <2>2, <2>3, <2>4, SpentStays
<1>16. ASSUME NEW c \in Budgets PROVE Chained(c)'
  <2>1. CASE c = b
    <3>1. MadeIn(period'[b]) = {}
      BY <1>14 DEF Made, MadeIn
    <3>. QED
      BY <2>1, <3>1 DEF Chained, Chain, MadeIn
  <2>2. CASE c # b
    <3>1. ~ OwesCascade(w, c)
      BY <1>1 DEF OwesCascade
    <3>2. \A v \in Workers \ {w} : Waits(task'[v], task[v])
      BY <1>10
    <3>. QED
      BY <1>2, <1>11, <2>2, <3>1, <3>2, ChainStays
  <2>. QED
    BY <2>1, <2>2
<1>17. ASSUME NEW c \in Budgets, NEW m \in Months PROVE Announced(c, m)'
  BY <1>2, AnnouncedStays
<1>18. AlertOnce'
  BY <1>2 DEF BgInv, AlertOnce
<1>. QED
  BY <1>12, <1>13, <1>14, <1>15, <1>16, <1>17, <1>18 DEF BgInv

(* Nothing changes but the month. *)
LEMMA Frame ==
  ASSUME BgInv, UNCHANGED <<entry, removed, budget, period, task, announced, misled, again, stale, skewed>>,
         now' \in 0..MaxNow
  PROVE  BgInv'
<1>1. (\A v \in Workers : SoundTask(v)') /\ Alone'
  <2>1. ASSUME NEW v \in Workers
        PROVE  /\ Waits(task'[v], task[v]) /\ (task[v].pc = "save" => budget'[task[v].b].state = "none")
               /\ task[v].pc \in Holds["rows"] \union Holds["sum"] => task[v].b \in Budgets
    <3>1. Placed(v)
      BY TaskKnown DEF SoundTask
    <3>. QED
      BY <3>1, WaitsSame, HoldsAre DEF Placed
  <2>2. \A b \in Budgets : RowsStay(b) /\ SameSums(b)
    BY Unmoved
  <2>3. ASSUME NEW v \in Workers PROVE SoundTask(v)'
    BY <2>1, <2>2, StaysSound
  <2>. QED
    BY <2>3 DEF BgInv, Alone
<1>2. BgTypes' /\ OfTop' /\ AlertOnce'
  BY DEF BgInv, BgTypes, OfTop, Made, AlertOnce
<1>3. ASSUME NEW b \in Budgets, Working(b)', NEW m \in Made(b)' PROVE SpentKnown(b, m)'
  <2>1. Working(b) /\ m \in Made(b) /\ Spent(b, m)' = Spent(b, m)
    BY <1>3, Unmoved DEF SameSums
  <2>2. SpentKnown(b, m)
    BY <2>1 DEF BgInv
  <2>3. \A w : Owes(w, b, m)' = Owes(w, b, m)
    BY DEF Owes, Scope
  <2>. QED
    BY <2>1, <2>2, <2>3 DEF SpentKnown
<1>4. ASSUME NEW b \in Budgets PROVE Chained(b)'
  <2>1. Chained(b) /\ Chain(period[b], budget[b])' = Chain(period[b], budget[b])
    BY Unmoved DEF BgInv
  <2>. QED
    BY <2>1 DEF Chained, OwesCascade
<1>5. ASSUME NEW b \in Budgets, NEW m \in Months PROVE Announced(b, m)'
  BY AnnouncedStays
<1>. QED
  BY <1>1, <1>2, <1>3, <1>4, <1>5 DEF BgInv

LEMMA NextMonthKeeps == ASSUME BgInv, NextMonth PROVE BgInv'
<1>1. now' \in 0..MaxNow
  BY BudgetAssumption DEF NextMonth, BgInv, BgTypes
<1>. QED
  BY <1>1, Frame DEF NextMonth, table, history

LEMMA RemoveBudgetKeeps ==
  ASSUME BgInv, NEW b \in Budgets, RemoveBudget(b)
  PROVE  BgInv'
<1>1. budget[b].state = "live" /\ budget' = [budget EXCEPT ![b].state = "deleted"]
  BY DEF RemoveBudget
<1>2. UNCHANGED <<entry, removed, period, now, task, announced, misled, again, stale, skewed>>
  BY DEF RemoveBudget, history
<1>3. budget \in [Budgets -> BudgetRow]
  BY DEF BgInv, BgTypes
<1>4. budget' \in [Budgets -> BudgetRow] /\ budget'[b].state = "deleted"
      /\ budget'[b].cat = budget[b].cat /\ budget'[b].amount = budget[b].amount
      /\ budget'[b].rollover = budget[b].rollover
      /\ \A c \in Budgets \ {b} : budget'[c] = budget[c]
  <2>. DEFINE r == budget[b]
              x == [r EXCEPT !.state = "deleted"]
  <2>1. r \in BudgetRow
    BY <1>3
  <2>2. budget' = [budget EXCEPT ![b] = x]
    BY <1>1
  <2>. HIDE DEF r
  <2>3. x \in BudgetRow /\ x.state = "deleted" /\ x.cat = r.cat /\ x.amount = r.amount
        /\ x.rollover = r.rollover
    BY <2>1 DEF BudgetRow
  <2>. HIDE DEF x
  <2>. QED
    BY <1>3, <2>2, <2>3 DEF r
<1>5. ASSUME NEW c \in Budgets
      PROVE  RowsStay(c) /\ SameSums(c) /\ budget'[c].cat = budget[c].cat /\ Made(c)' = Made(c)
             /\ (budget'[c].state = "none" => budget[c].state = "none")
             /\ (budget[c].state = "none" => budget'[c].state = "none")
             /\ (Working(c)' => Working(c))
  <2>1. /\ budget'[c].cat = budget[c].cat /\ budget'[c].amount = budget[c].amount
        /\ budget'[c].rollover = budget[c].rollover
    BY <1>4
  <2>2. SameSums(c)
    BY <1>2, <2>1, SumStays
  <2>3. RowsStay(c)
    BY <1>2, <2>1 DEF RowsStay
  <2>. QED
    BY <1>1, <1>2, <1>4, <2>1, <2>2, <2>3 DEF Made, Working
<1>6. ASSUME NEW v \in Workers
      PROVE  /\ Waits(task'[v], task[v]) /\ (task[v].pc = "save" => budget'[task[v].b].state = "none")
             /\ task[v].pc \in Holds["rows"] \union Holds["sum"] => task[v].b \in Budgets
  <2>1. Placed(v)
    BY TaskKnown DEF SoundTask
  <2>. QED
    BY <1>2, <1>5, <2>1, WaitsSame, HoldsAre DEF Placed
<1>7. (\A v \in Workers : SoundTask(v)') /\ Alone'
  <2>1. \A c \in Budgets, m \in Months : period[c][m].made => period'[c][m].made
    BY <1>2
  <2>2. ASSUME NEW v \in Workers PROVE SoundTask(v)'
    BY <1>5, <1>6, <2>1, StaysSound
  <2>. QED
    BY <1>2, <2>2 DEF BgInv, Alone
<1>8. BgTypes' /\ OfTop' /\ AlertOnce'
  BY <1>2, <1>4, <1>5 DEF BgInv, BgTypes, OfTop, AlertOnce
<1>9. ASSUME NEW c \in Budgets, Working(c)', NEW m \in Made(c)' PROVE SpentKnown(c, m)'
  <2>1. m \in Made(c) /\ Working(c) /\ m \in Months /\ Spent(c, m)' = Spent(c, m)
    BY <1>5, <1>9 DEF Made, SameSums
  <2>2. SpentKnown(c, m)
    BY <2>1 DEF BgInv
  <2>3. \A v \in Workers : Owes(v, c, m) => Owes(v, c, m)'
    BY <1>2, <1>5, <1>6, OwesStays
  <2>. QED
    BY <1>2, <2>1, <2>2, <2>3 DEF SpentKnown
<1>10. ASSUME NEW c \in Budgets PROVE Chained(c)'
  <2>1. Chained(c) /\ (Chain(period[c], budget[c]) => Chain(period[c], budget[c])')
    BY <1>5, SameChain DEF BgInv
  <2>2. \A v \in Workers : OwesCascade(v, c) => OwesCascade(v, c)'
    BY <1>6, CascadeStays
  <2>. QED
    BY <1>2, <2>1, <2>2 DEF Chained
<1>11. ASSUME NEW c \in Budgets, NEW m \in Months PROVE Announced(c, m)'
  BY <1>2, AnnouncedStays
<1>. QED
  BY <1>7, <1>8, <1>9, <1>10, <1>11 DEF BgInv

LEMMA CascadeType ==
  ASSUME NEW b \in Budgets
  PROVE  LET u == [Idle EXCEPT !.job = "update", !.pc = "cascade", !.b = b] IN
         u \in Task /\ u.job = "update" /\ u.pc = "cascade" /\ u.b = b /\ u.left = {}
<1>1. "update" \in Jobs /\ "cascade" \in Steps /\ Idle \in Task
  BY IdleType DEF Jobs, Steps
<1>2. [Idle EXCEPT !.job = "update", !.pc = "cascade", !.b = b] \in Task
  BY <1>1 DEF Task
<1>. QED
  BY <1>2 DEF Idle

LEMMA ChangesAre == ASSUME NEW dto \in Changes PROVE dto \in Change
<1>1. 0 \in Months
  BY BudgetAssumption DEF Months
<1>2. CASE \E a \in Amounts : dto = [NoChange EXCEPT !.amount = a]
  BY <1>2 DEF Change, NoChange
<1>3. CASE \E x \in BOOLEAN : dto = [NoChange EXCEPT !.rollover = x]
  BY <1>3 DEF Change, NoChange
<1>4. CASE \E x \in BOOLEAN : dto = [NoChange EXCEPT !.active = x]
  BY <1>4 DEF Change, NoChange
<1>5. CASE dto = [NoChange EXCEPT !.ends = 0]
  BY <1>1, <1>5 DEF Change, NoChange
<1>. QED
  BY <1>2, <1>3, <1>4, <1>5 DEF Changes

(* The row that an update writes keeps what its body leaves out. *)
LEMMA ChangedIs ==
  ASSUME NEW r \in BudgetRow, NEW dto \in Change
  PROVE  LET row == Changed(r, dto) IN
         row \in BudgetRow /\ row.cat = r.cat /\ row.state = r.state
<1>1. /\ OrKept(dto.amount, r.amount) \in Amounts \union {0}
      /\ OrKept(dto.rollover, r.rollover) \in BOOLEAN
      /\ OrKept(dto.ends, r.ends) \in Months
      /\ OrKept(dto.active, r.active) \in BOOLEAN
  BY DEF OrKept, Change, BudgetRow
<1>. QED
  BY <1>1 DEF Changed, BudgetRow

LEMMA ChangeType ==
  ASSUME NEW b \in Budgets, NEW dto \in Change, NEW a \in Amounts \union {0}, NEW x \in BOOLEAN
  PROVE  [Idle EXCEPT !.job = "update", !.pc = "change", !.b = b, !.row = dto,
                      !.amount = a, !.rollover = x] \in Task
<1>1. "update" \in Jobs /\ "change" \in Steps /\ Idle \in Task
  BY IdleType DEF Jobs, Steps
<1>. QED
  BY <1>1 DEF Task

LEMMA ChangeFields ==
  ASSUME NEW b, NEW dto, NEW a, NEW x
  PROVE  LET u == [Idle EXCEPT !.job = "update", !.pc = "change", !.b = b, !.row = dto,
                               !.amount = a, !.rollover = x] IN
         u.job = "update" /\ u.pc = "change" /\ u.b = b /\ u.left = {} /\ u.row = dto
  BY DEF Idle

LEMMA CheckUpdateKeeps ==
  ASSUME BgInv, NEW w \in Workers, NEW b \in Budgets, NEW dto \in Changes, CheckUpdate(w, b, dto)
  PROVE  BgInv'
<1>. DEFINE amount == budget[b].amount
            rollover == budget[b].rollover
            u == [Idle EXCEPT !.job = "update", !.pc = "change", !.b = b, !.row = dto,
                              !.amount = amount, !.rollover = rollover]
<1>1. budget[b].state = "live" /\ task[w] = Idle /\ task' = [task EXCEPT ![w] = u]
  BY DEF CheckUpdate, Begins
<1>2. UNCHANGED <<entry, removed, budget, period, now, announced, misled, again, stale, skewed>>
  BY DEF CheckUpdate, table, history
<1>3. /\ b \in Budgets /\ dto \in Change
      /\ amount \in Amounts \union {0} /\ rollover \in BOOLEAN
  BY TaskKnown, ChangesAre DEF BudgetRow
<1>. HIDE DEF amount, rollover
<1>4. u \in Task /\ u.job = "update" /\ u.pc = "change" /\ u.b = b /\ u.left = {} /\ u.row = dto
  <2>1. u \in Task
    BY ONLY <1>3, ChangeType
  <2>. QED
    BY ONLY <2>1, ChangeFields
<1>. HIDE DEF u
<1>5. task' \in [Workers -> Task] /\ task'[w] = u /\ \A v \in Workers \ {w} : task'[v] = task[v]
  BY <1>1, <1>4, SetsTask DEF BgInv
<1>6. Placed(w)'
  BY <1>1, <1>2, <1>3, <1>4, <1>5 DEF Placed
<1>7. SumKnown(w)' /\ RowsKnown(w)' /\ StoreRight(w)' /\ RepairRight(w)'
  BY <1>4, <1>5 DEF SumKnown, RowsKnown, StoreRight, RepairRight
<1>. QED
  BY <1>1, <1>2, <1>4, <1>5, <1>6, <1>7, OwnStep, IdleOwes

LEMMA UpdateBudgetKeeps ==
  ASSUME BgInv, NEW w \in Workers, UpdateBudget(w)
  PROVE  BgInv'
<1>0. PICK b \in Budgets : b = task[w].b
  BY TaskKnown DEF UpdateBudget, At, SoundTask, Placed
<1>. DEFINE row == Changed(budget[b], task[w].row)
            moves == Reallocates(row, budget[b])
            cascades == Reallocates(row, task[w])
            mine == IF cascades THEN [Idle EXCEPT !.job = "update", !.pc = "cascade", !.b = b] ELSE Idle
            moved == IF moves THEN {b} ELSE {}
<1>1. /\ task[w].pc = "change" /\ budget' = [budget EXCEPT ![b] = row]
      /\ task' = Late([task EXCEPT ![w] = mine], w, "rows", moved)
      /\ stale' = IF row.active /\ ~budget[b].active
                  THEN stale \union {bm \in Wrong(entry) : bm[1] = b} ELSE stale
      /\ skewed' = IF moves /\ ~cascades THEN skewed \union {b} ELSE skewed
  BY <1>0 DEF UpdateBudget, At
<1>2. UNCHANGED <<entry, removed, period, now, announced, misled, again>>
  BY DEF UpdateBudget
<1>3. /\ budget[b] \in BudgetRow /\ row \in BudgetRow
      /\ row.cat = budget[b].cat /\ row.state = budget[b].state /\ budget[b].state # "none"
      /\ task[w].job # "event"
  <2>1. Placed(w) /\ b # None
    BY TaskKnown, BudgetAssumption DEF SoundTask
  <2>2. task[w].row \in Change /\ budget[b].state # "none" /\ task[w].job # "event"
    BY <1>0, <1>1, <2>1 DEF Placed
  <2>. QED
    BY <2>2, TaskKnown, ChangedIs
<1>. DEFINE same == row.amount = budget[b].amount /\ row.rollover = budget[b].rollover
<1>31. moves <=> ~same
  BY DEF Reallocates
<1>32. \A c \in Budgets, m \in Months : ~ Owes(w, c, m) /\ ~ OwesCascade(w, c)
  BY <1>1, <1>3 DEF Owes, OwesCascade
<1>. HIDE DEF row, same, moves
<1>4. budget' \in [Budgets -> BudgetRow] /\ budget'[b] = row
      /\ \A c \in Budgets \ {b} : budget'[c] = budget[c]
  BY <1>1, <1>3 DEF BgInv, BgTypes
<1>5. /\ mine \in Task /\ mine.pc # "save" /\ mine.left = {} /\ mine.job # "event"
      /\ mine.pc \in {"idle", "cascade"} /\ mine.b \in {b, None}
      /\ mine.pc = "cascade" => mine.b = b
      /\ same \/ b \in skewed' \/ (mine.pc = "cascade" /\ mine.b = b)
  BY <1>1, <1>31, IdleType, IdleFields, CascadeType
<1>. HIDE DEF mine
<1>6. /\ task' \in [Workers -> Task] /\ task'[w] = mine
      /\ \A v \in Workers \ {w} :
           /\ Waits(task'[v], task[v])
           /\ task[v].pc \in Holds["rows"] /\ task[v].b = b => same \/ "rows" \in task'[v].late
  <2>1. BgTypes /\ w \in Workers /\ mine \in Task /\ "rows" \in {"sum", "rows"}
    BY <1>5 DEF BgInv
  <2>2. /\ task' \in [Workers -> Task] /\ task'[w] = mine
        /\ \A v \in Workers \ {w} :
             /\ Waits(task'[v], task[v])
             /\ task[v].pc \in Holds["rows"] /\ task[v].b \in moved => "rows" \in task'[v].late
    BY ONLY <1>1, <2>1, OthersWait
  <2>. QED
    BY <1>31, <2>2
<1>7. ASSUME NEW c \in Budgets
      PROVE  SameSums(c) /\ budget'[c].cat = budget[c].cat /\ Made(c)' = Made(c)
             /\ (budget'[c].state = "none" => budget[c].state = "none")
             /\ (budget[c].state = "none" => budget'[c].state = "none")
             /\ (c # b \/ same => RowsStay(c))
  <2>1. budget'[c].cat = budget[c].cat
    BY <1>3, <1>4
  <2>2. SameSums(c)
    BY <1>2, <2>1, SumStays
  <2>. QED
    BY <1>1, <1>2, <1>3, <1>4, <2>1, <2>2 DEF Made, RowsStay, same
<1>8. SoundTask(w)' /\ task'[w].pc # "save"
  <2>1. Placed(w)'
    BY <1>3, <1>4, <1>5, <1>6, BudgetAssumption DEF Placed
  <2>. QED
    BY <1>5, <1>6, <2>1, HoldsNothing DEF SoundTask
<1>9. ASSUME NEW v \in Workers \ {w}
      PROVE  /\ task[v].pc = "save" => budget'[task[v].b].state = "none"
             /\ task[v].pc \in Holds["rows"] => "rows" \in task'[v].late \/ RowsStay(task[v].b)
             /\ task[v].pc \in Holds["sum"] => SameSums(task[v].b)
  <2>1. Placed(v)
    BY TaskKnown DEF SoundTask
  <2>. QED
    BY <1>6, <1>7, <2>1, HoldsAre DEF Placed
<1>10. (\A v \in Workers : SoundTask(v)') /\ Alone'
  <2>1. \A c \in Budgets, m \in Months : period[c][m].made => period'[c][m].made
    BY <1>2
  <2>. QED
    BY <1>6, <1>7, <1>8, <1>9, <2>1, OthersSound
<1>11. BgTypes' /\ OfTop' /\ AlertOnce'
  <2>1. BgTypes'
    BY <1>2, <1>4, <1>6 DEF BgInv, BgTypes
  <2>. QED
    BY <1>2, <1>7, <2>1 DEF BgInv, OfTop, AlertOnce
<1>12. ASSUME NEW c \in Budgets, Working(c)', NEW m \in Made(c)' PROVE SpentKnown(c, m)'
  <2>1. m \in Made(c) /\ m \in Months /\ Spent(c, m)' = Spent(c, m)
    BY <1>7, <1>12 DEF Made, SameSums
  <2>2. CASE Working(c)
    <3>1. ~ Owes(w, c, m)
      BY <1>32, <2>1
    <3>2. stale \subseteq stale'
      BY <1>1
    <3>3. budget'[c].cat = budget[c].cat /\ period'[c][m].spent = period[c][m].spent
      BY <1>2, <1>7
    <3>. QED
      BY <1>2, <1>6, <2>1, <2>2, <3>1, <3>2, <3>3, SpentStays
  <2>3. CASE ~ Working(c)
    <3>1. c = b /\ row.active /\ ~ budget[b].active
      BY <1>1, <1>3, <1>4, <1>12, <2>3 DEF Working
    <3>2. CASE period[c][m].spent = Spent(c, m)
      BY <1>2, <2>1, <3>2 DEF SpentKnown
    <3>3. CASE period[c][m].spent # Spent(c, m)
      <4>1. <<c, m>> \in Budgets \X Months /\ <<c, m>>[1] = c /\ <<c, m>>[2] = m
        BY <2>1
      <4>2. <<c, m>> \in Wrong(entry)
        BY <2>1, <3>3, <4>1 DEF Wrong, Spent, Made
      <4>. QED
        BY <1>1, <3>1, <4>1, <4>2 DEF SpentKnown
    <3>. QED
      BY <3>2, <3>3
  <2>. QED
    BY <2>2, <2>3
<1>13. ASSUME NEW c \in Budgets PROVE Chained(c)'
  <2>1. CASE RowsStay(c)
    <3>1. ~ OwesCascade(w, c)
      <4>1. 0 \in Months
        BY BudgetAssumption DEF Months
      <4>. QED
        BY <1>32, <4>1
    <3>2. skewed \subseteq skewed'
      BY <1>1
    <3>. QED
      BY <1>2, <1>6, <2>1, <3>1, <3>2, ChainStays
  <2>2. CASE ~ RowsStay(c)
    <3>1. c = b /\ (b \in skewed' \/ (mine.pc = "cascade" /\ mine.b = b))
      BY <1>5, <1>7, <2>2
    <3>2. c \in skewed' \/ OwesCascade(w, c)'
      BY <1>6, <3>1 DEF OwesCascade
    <3>. QED
      BY <3>2 DEF Chained
  <2>. QED
    BY <2>1, <2>2
<1>14. ASSUME NEW c \in Budgets, NEW m \in Months PROVE Announced(c, m)'
  BY <1>2, AnnouncedStays
<1>. QED
  BY <1>10, <1>11, <1>12, <1>13, <1>14 DEF BgInv

LEMMA EntryRowsAre == NoEntry \in EntryRow /\ \A row \in EntryRows : row \in EntryRow
<1>1. Min(Amounts) \in Amounts /\ 0 \in Months
  BY LeastAmount, MonthsAre
<1>2. NoEntry \in EntryRow
  BY <1>1 DEF NoEntry, EntryRow, Cats
<1>3. [NoEntry EXCEPT !.live = TRUE, !.amount = Min(Amounts)] \in EntryRow
  <2>. DEFINE a == Min(Amounts)
  <2>1. a \in Amounts
    BY <1>1
  <2>. HIDE DEF a
  <2>2. [NoEntry EXCEPT !.live = TRUE, !.amount = a] \in EntryRow
    BY <1>2, <2>1 DEF EntryRow
  <2>. QED
    BY <2>2 DEF a
<1>4. ASSUME NEW row \in [live : {TRUE}, cat : {Sub}, month : {0}, amount : Amounts] PROVE row \in EntryRow
  BY <1>1, <1>4 DEF EntryRow, Cats
<1>5. ASSUME NEW row \in [live : {TRUE}, cat : {Sub}, month : Months \ {0}, amount : {Min(Amounts)}]
      PROVE  row \in EntryRow
  BY <1>1, <1>5 DEF EntryRow, Cats
<1>. QED
  BY <1>2, <1>3, <1>4, <1>5 DEF EntryRows

LEMMA PlacesAre ==
  ASSUME NEW before \in EntryRow, NEW after \in EntryRow
  PROVE  /\ Places(before, after) \in Seq(EntryRow)
         /\ before.live => \E i \in DOMAIN Places(before, after) : Places(before, after)[i] = before
         /\ after.live => \E i \in DOMAIN Places(before, after) : Places(before, after)[i] = after
<1>1. CASE before.live /\ after.live
  <2>1. Places(before, after) = <<before>> \o <<after>>
    BY <1>1 DEF Places, PlaceOf
  <2>. DEFINE both == <<before>> \o <<after>>
  <2>2. both \in Seq(EntryRow) /\ DOMAIN both = 1..2 /\ both[1] = before /\ both[2] = after
    OBVIOUS
  <2>. HIDE DEF both
  <2>3. 1 \in DOMAIN both /\ 2 \in DOMAIN both
    BY <2>2
  <2>4. Places(before, after) = both
    BY <2>1 DEF both
  <2>. QED
    BY <2>2, <2>3, <2>4
<1>2. CASE before.live /\ ~ after.live
  <2>1. Places(before, after) = <<before>>
    BY <1>2 DEF Places, PlaceOf
  <2>. QED
    BY <1>2, <2>1
<1>3. CASE ~ before.live /\ after.live
  <2>1. Places(before, after) = <<after>>
    BY <1>3 DEF Places, PlaceOf
  <2>. QED
    BY <1>3, <2>1
<1>4. CASE ~ before.live /\ ~ after.live
  <2>1. Places(before, after) = <<>>
    BY <1>4 DEF Places, PlaceOf
  <2>. QED
    BY <1>4, <2>1
<1>. QED
  BY <1>1, <1>2, <1>3, <1>4

(* A step after which the sums that were read are late. *)
LEMMA EntriesSound ==
  ASSUME BgInv, NEW w, UNCHANGED <<budget, period>>,
         \A v \in Workers \ {w} : /\ Waits(task'[v], task[v])
                                  /\ task[v].pc \in Holds["sum"] /\ task[v].b \in Budgets =>
                                       "sum" \in task'[v].late,
         w \in Workers => task'[w].pc # "save" /\ SoundTask(w)'
  PROVE  (\A v \in Workers : SoundTask(v)') /\ Alone' /\ OfTop'
<1>1. \A b \in Budgets : RowsStay(b)
  BY DEF RowsStay
<1>2. ASSUME NEW v \in Workers \ {w}
      PROVE  /\ task[v].pc = "save" => budget'[task[v].b].state = "none"
             /\ task[v].pc \in Holds["rows"] => RowsStay(task[v].b)
             /\ task[v].pc \in Holds["sum"] => "sum" \in task'[v].late
  <2>1. Placed(v)
    BY TaskKnown DEF SoundTask
  <2>. QED
    BY <1>1, <2>1, HoldsAre DEF Placed
<1>3. (\A v \in Workers : SoundTask(v)') /\ Alone'
  <2>1. \A c \in Budgets, m \in Months : period[c][m].made => period'[c][m].made
    OBVIOUS
  <2>. QED
    BY <1>2, <2>1, OthersSound
<1>4. OfTop'
  BY DEF BgInv, OfTop, Made
<1>. QED
  BY <1>3, <1>4

LEMMA WriteEntryKeeps ==
  ASSUME BgInv, NEW w \in Workers, NEW e \in Entries, NEW row \in EntryRows, WriteEntry(w, e, row)
  PROVE  BgInv'
<1>. DEFINE before == entry[e]
            todo == Places(before, row)
            u == [Idle EXCEPT !.job = "event", !.pc = "budgets", !.todo = todo]
<1>1. /\ task[w] = Idle /\ entry' = [entry EXCEPT ![e] = row]
      /\ task' = Late([task EXCEPT ![w] = u], w, "sum", Budgets)
  BY DEF WriteEntry
<1>2. UNCHANGED <<removed, budget, period, now, announced, misled, again, stale, skewed>>
  BY DEF WriteEntry, history
<1>3. entry \in [Entries -> EntryRow] /\ before \in EntryRow /\ row \in EntryRow
  BY EntryRowsAre DEF BgInv, BgTypes
<1>4. entry' \in [Entries -> EntryRow] /\ entry'[e] = row /\ \A x \in Entries \ {e} : entry'[x] = entry[x]
  BY <1>1, <1>3
<1>. HIDE DEF before
<1>5. /\ todo \in Seq(EntryRow)
      /\ before.live => \E i \in DOMAIN todo : todo[i] = before
      /\ row.live => \E i \in DOMAIN todo : todo[i] = row
  BY <1>3, PlacesAre
<1>. HIDE DEF todo
<1>6. /\ u \in Task /\ u.pc = "budgets" /\ u.left = {} /\ u.todo = todo /\ u.job = "event" /\ u.b = None
  BY ONLY <1>5, EventType
<1>. HIDE DEF u
<1>7. /\ task' \in [Workers -> Task] /\ task'[w] = u
      /\ \A v \in Workers \ {w} :
           /\ Waits(task'[v], task[v])
           /\ task[v].pc \in Holds["sum"] /\ task[v].b \in Budgets => "sum" \in task'[v].late
  <2>1. BgTypes /\ w \in Workers /\ u \in Task /\ "sum" \in {"sum", "rows"}
    BY <1>6 DEF BgInv
  <2>. QED
    BY ONLY <1>1, <2>1, OthersWait
<1>8. SoundTask(w)' /\ task'[w].pc # "save"
  <2>1. Placed(w)'
    BY <1>6, <1>7 DEF Placed
  <2>. QED
    BY <1>6, <1>7, <2>1, HoldsNothing DEF SoundTask
<1>9. (\A v \in Workers : SoundTask(v)') /\ Alone' /\ OfTop'
  BY <1>2, <1>7, <1>8, EntriesSound
<1>10. BgTypes' /\ AlertOnce'
  <2>1. BgTypes'
    BY <1>2, <1>4, <1>7 DEF BgInv, BgTypes
  <2>. QED
    BY <1>2, <2>1 DEF BgInv, AlertOnce
<1>11. ASSUME NEW b \in Budgets, Working(b)', NEW m \in Made(b)' PROVE SpentKnown(b, m)'
  <2>. DEFINE Counts(r) == r.live /\ r.month = m /\ r.cat \in Scope(budget[b].cat)
  <2>1. m \in Made(b) /\ Working(b) /\ Scope(budget[b].cat)' = Scope(budget[b].cat)
    BY <1>2, <1>11 DEF Made, Working, Scope
  <2>2. CASE Counts(before) \/ Counts(row)
    <3>1. \E i \in DOMAIN todo : Counts(todo[i])
      BY <1>5, <2>2
    <3>2. Owes(w, b, m)'
      BY <1>2, <1>6, <1>7, <2>1, <3>1 DEF Owes
    <3>. QED
      BY <3>2 DEF SpentKnown
  <2>3. CASE ~ Counts(before) /\ ~ Counts(row)
    <3>1. SpentOf(entry', b, m) = SpentOf(entry, b, m)
      <4>1. \A x \in Entries : entry'[x] = entry[x] \/ (x = e /\ entry[x] = before /\ entry'[x] = row)
        BY <1>4 DEF before
      <4>. QED
        BY <2>3, <4>1, SpentSame
    <3>2. Spent(b, m)' = Spent(b, m)
      BY <1>2, <3>1 DEF Spent, SpentOf, Scope
    <3>3. ~ Owes(w, b, m)
      BY <1>1, IdleOwes
    <3>. QED
      BY <1>2, <1>7, <2>1, <3>2, <3>3, SpentStays
  <2>. QED
    BY <2>2, <2>3
<1>12. ASSUME NEW b \in Budgets PROVE Chained(b)'
  <2>1. ~ OwesCascade(w, b)
    BY <1>1, IdleOwes
  <2>2. RowsStay(b)
    BY <1>2 DEF RowsStay
  <2>. QED
    BY <1>2, <1>7, <2>1, <2>2, ChainStays
<1>13. ASSUME NEW c \in Budgets, NEW m \in Months PROVE Announced(c, m)'
  BY <1>2, AnnouncedStays
<1>. QED
  BY <1>9, <1>10, <1>11, <1>12, <1>13 DEF BgInv

LEMMA WriteFeeLineKeeps ==
  ASSUME BgInv, NEW e \in Entries, NEW row \in EntryRows, WriteFeeLine(e, row)
  PROVE  BgInv'
<1>1. /\ entry' = [entry EXCEPT ![e] = row] /\ task' = Late(task, None, "sum", Budgets)
      /\ stale' = stale \union {bm \in Wrong(entry') : bm \notin Wrong(entry)}
  BY DEF WriteFeeLine
<1>2. UNCHANGED <<removed, budget, period, now, announced, misled, again, skewed>>
  BY DEF WriteFeeLine
<1>3. entry' \in [Entries -> EntryRow]
  BY <1>1, EntryRowsAre DEF BgInv, BgTypes
<1>4. None \notin Workers
  BY BudgetAssumption
<1>5. /\ task' \in [Workers -> Task]
      /\ \A v \in Workers \ {None} :
           /\ Waits(task'[v], task[v])
           /\ task[v].pc \in Holds["sum"] /\ task[v].b \in Budgets => "sum" \in task'[v].late
  <2>1. BgTypes /\ "sum" \in {"sum", "rows"}
    BY DEF BgInv
  <2>. QED
    BY ONLY <1>1, <1>4, <2>1, AllWait
<1>6. (\A v \in Workers : SoundTask(v)') /\ Alone' /\ OfTop'
  BY <1>2, <1>4, <1>5, EntriesSound
<1>7. BgTypes' /\ AlertOnce'
  <2>1. BgTypes'
    BY <1>2, <1>3, <1>5 DEF BgInv, BgTypes
  <2>. QED
    BY <1>2, <2>1 DEF BgInv, AlertOnce
<1>8. ASSUME NEW b \in Budgets, Working(b)', NEW m \in Made(b)' PROVE SpentKnown(b, m)'
  <2>1. m \in Made(b) /\ Working(b) /\ m \in Months /\ period[b][m].made
    BY <1>2, <1>8 DEF Made, Working
  <2>2. SpentKnown(b, m) /\ Spent(b, m)' = SpentOf(entry', b, m)
    BY <1>2, <2>1 DEF BgInv, Spent, SpentOf, Scope
  <2>3. CASE <<b, m>> \in stale \/ \E v \in Workers : Owes(v, b, m)
    <3>1. \A v \in Workers : Owes(v, b, m) => Owes(v, b, m)'
      BY <1>2, <1>4, <1>5, OwesStays
    <3>. QED
      BY <1>1, <2>3, <3>1 DEF SpentKnown
  <2>4. CASE period[b][m].spent = Spent(b, m)
    <3>1. CASE period[b][m].spent = SpentOf(entry', b, m)
      BY <1>2, <2>2, <3>1 DEF SpentKnown
    <3>2. CASE period[b][m].spent # SpentOf(entry', b, m)
      <4>1. <<b, m>> \in Budgets \X Months /\ <<b, m>>[1] = b /\ <<b, m>>[2] = m
        BY <2>1
      <4>2. <<b, m>> \in Wrong(entry')
        BY <2>1, <3>2, <4>1 DEF Wrong
      <4>3. <<b, m>> \notin Wrong(entry)
        BY <2>4, <4>1 DEF Wrong, Spent
      <4>. QED
        BY <1>1, <4>2, <4>3 DEF SpentKnown
    <3>. QED
      BY <3>1, <3>2
  <2>. QED
    BY <2>2, <2>3, <2>4 DEF SpentKnown
<1>9. ASSUME NEW b \in Budgets PROVE Chained(b)'
  <2>1. RowsStay(b)
    BY <1>2 DEF RowsStay
  <2>. QED
    BY <1>2, <1>4, <1>5, <2>1, ChainStays
<1>10. ASSUME NEW c \in Budgets, NEW m \in Months PROVE Announced(c, m)'
  BY <1>2, AnnouncedStays
<1>. QED
  BY <1>6, <1>7, <1>8, <1>9, <1>10 DEF BgInv

LEMMA RemoveCategoryKeeps ==
  ASSUME BgInv, NEW c \in {Sub}, NEW d \in Cats, RemoveCategory(c, d)
  PROVE  BgInv'
<1>1. /\ entry' = [e \in Entries |-> IF entry[e].live /\ entry[e].cat = c
                                     THEN [entry[e] EXCEPT !.cat = d] ELSE entry[e]]
      /\ task' = Late(task, None, "sum", Budgets) /\ removed' = removed \union {c}
      /\ stale' = stale \union {bm \in Budgets \X Months : budget[bm[1]].cat \in {Top, c, d}}
  BY DEF RemoveCategory
<1>2. UNCHANGED <<budget, period, now, announced, misled, again, skewed>>
  BY DEF RemoveCategory
<1>3. entry' \in [Entries -> EntryRow] /\ removed' \in SUBSET Cats
  <2>1. ASSUME NEW r \in EntryRow PROVE [r EXCEPT !.cat = d] \in EntryRow
    BY <2>1 DEF EntryRow
  <2>2. entry \in [Entries -> EntryRow] /\ removed \in SUBSET Cats /\ c \in Cats
    BY DEF BgInv, BgTypes, Cats
  <2>3. ASSUME NEW e \in Entries PROVE entry'[e] \in EntryRow
    BY <1>1, <2>1, <2>2
  <2>4. entry' \in [Entries -> EntryRow]
    BY <1>1, <2>3
  <2>. QED
    BY <1>1, <2>2, <2>4
<1>4. None \notin Workers
  BY BudgetAssumption
<1>5. /\ task' \in [Workers -> Task]
      /\ \A v \in Workers \ {None} :
           /\ Waits(task'[v], task[v])
           /\ task[v].pc \in Holds["sum"] /\ task[v].b \in Budgets => "sum" \in task'[v].late
  <2>1. BgTypes /\ "sum" \in {"sum", "rows"}
    BY DEF BgInv
  <2>. QED
    BY ONLY <1>1, <1>4, <2>1, AllWait
<1>6. (\A v \in Workers : SoundTask(v)') /\ Alone' /\ OfTop'
  BY <1>2, <1>4, <1>5, EntriesSound
<1>7. BgTypes' /\ AlertOnce'
  <2>1. BgTypes'
    BY <1>2, <1>3, <1>5 DEF BgInv, BgTypes
  <2>. QED
    BY <1>2, <2>1 DEF BgInv, AlertOnce
<1>8. ASSUME NEW b \in Budgets, NEW m \in Made(b)' PROVE SpentKnown(b, m)'
  <2>1. <<b, m>> \in Budgets \X Months /\ <<b, m>>[1] = b
    BY <1>2, <1>8 DEF Made
  <2>2. budget[b].cat = Top
    BY DEF BgInv, OfTop
  <2>. QED
    BY <1>1, <2>1, <2>2 DEF SpentKnown
<1>9. ASSUME NEW b \in Budgets PROVE Chained(b)'
  <2>1. RowsStay(b)
    BY <1>2 DEF RowsStay
  <2>. QED
    BY <1>2, <1>4, <1>5, <2>1, ChainStays
<1>10. ASSUME NEW b \in Budgets, NEW m \in Months PROVE Announced(b, m)'
  BY <1>2, AnnouncedStays
<1>. QED
  BY <1>6, <1>7, <1>8, <1>9, <1>10 DEF BgInv

LEMMA MarksAre ==
  ASSUME NEW marked, NEW what, NEW wrong
  PROVE  /\ wrong => what \subseteq Marks(marked, what, wrong)
         /\ marked \ what \subseteq Marks(marked, what, wrong)
  BY DEF Marks

LEMMA FreshType ==
  ASSUME NEW spent \in Nat, NEW in \in Int, NEW amount \in Amounts \union {0}
  PROVE  LET fresh == [made |-> TRUE, spent |-> spent, carried |-> in, allocated |-> amount + in, alert |-> 0] IN
         fresh \in PeriodRow /\ fresh.made /\ fresh.spent = spent /\ fresh.carried = in
         /\ fresh.allocated = amount + in /\ fresh.alert = 0 /\ amount \in Int
<1>1. amount \in Int
  <2>1. \A a \in Amounts \union {0} : a \in Int
    BY BudgetAssumption
  <2>. QED
    BY <2>1
<1>. QED
  BY <1>1 DEF PeriodRow

LEMMA MoreType ==
  ASSUME NEW t \in Task, NEW m \in Nat, NEW carry \in Int
  PROVE  [t EXCEPT !.pc = "extend", !.m = m, !.carry = carry] \in Task
<1>1. "extend" \in Steps
  BY DEF Steps
<1>. QED
  BY <1>1 DEF Task

LEMMA MoreFields ==
  ASSUME NEW t \in Task, NEW m, NEW carry
  PROVE  LET u == [t EXCEPT !.pc = "extend", !.m = m, !.carry = carry] IN
         /\ u.pc = "extend" /\ u.m = m /\ u.carry = carry
         /\ u.job = t.job /\ u.b = t.b /\ u.left = t.left /\ u.late = t.late
         /\ u.rollover = t.rollover /\ u.amount = t.amount
  BY DEF Task

(* A step that writes one row of a period. *)
LEMMA OneRow ==
  ASSUME BgTypes, NEW b \in Budgets, NEW m \in Months, NEW row \in PeriodRow,
         period' = [period EXCEPT ![b][m] = row]
  PROVE  /\ period' \in [Budgets -> [Months -> PeriodRow]] /\ period'[b][m] = row
         /\ \A c \in Budgets, n \in Months : c # b \/ n # m => period'[c][n] = period[c][n]
  BY DEF BgTypes

LEMMA InsertPeriodKeeps ==
  ASSUME BgInv, NEW w \in Workers, InsertPeriod(w)
  PROVE  BgInv'
<1>0. /\ task[w].pc = "insert" /\ task[w] \in Task /\ task[w].b \in Budgets /\ task[w].job # "event"
      /\ task[w].m \in Months /\ budget[task[w].b].state # "none" /\ SoundTask(w)
      /\ \A x \in task[w].left : budget[x[1]].state # "none"
  BY TaskKnown DEF InsertPeriod, At, SoundTask, Placed
<1>1. PICK b \in Budgets, m \in Months : b = task[w].b /\ m = task[w].m
  BY <1>0
<1>. DEFINE t == task[w]
            in == IF t.rollover THEN t.carry ELSE 0
            fresh == [made |-> TRUE, spent |-> t.spent, carried |-> in,
                      allocated |-> t.amount + in, alert |-> 0]
            u == [t EXCEPT !.pc = "extend", !.m = t.m + 1, !.carry = fresh.allocated - t.spent]
<1>2. UNCHANGED <<entry, removed, budget, now, announced, misled, again>>
  BY DEF InsertPeriod
<1>3. (\A c \in Budgets : ~ OwesCascade(w, c)) /\ \A c \in Budgets : \A n : ~ Owes(w, c, n)
  BY <1>0, NoEventOwes DEF OwesCascade
<1>4. CASE task' = [task EXCEPT ![w] = Idle] /\ UNCHANGED <<period, stale, skewed>>
  <2>1. task' \in [Workers -> Task] /\ task'[w] = Idle /\ \A v \in Workers \ {w} : task'[v] = task[v]
    BY <1>4, IdleType, SetsTask DEF BgInv
  <2>. QED
    BY <1>2, <1>3, <1>4, <2>1, IdlePlaced, OwnStep
<1>5. CASE /\ m \notin Made(b) /\ period' = [period EXCEPT ![b][m] = fresh]
           /\ task' = Late([task EXCEPT ![w] = u], w, "rows", {b})
           /\ stale' = Marks(stale, {<<b, m>>}, "sum" \in t.late)
           /\ skewed' = IF "rows" \in t.late THEN skewed \union {b} ELSE skewed
  <2>1. t \in Task /\ t.spent \in Nat /\ t.carry \in Int /\ t.amount \in Amounts \union {0}
        /\ t.rollover \in BOOLEAN /\ in \in Int /\ m \in Nat /\ t.b = b /\ t.m = m
    BY <1>0, <1>1, MonthsAre DEF Task
  <2>. HIDE DEF t, in
  <2>2. /\ fresh \in PeriodRow /\ fresh.made /\ fresh.spent = t.spent /\ fresh.carried = in
        /\ fresh.allocated = t.amount + in /\ fresh.alert = 0 /\ t.amount \in Int
    <3>1. t.spent \in Nat /\ in \in Int /\ t.amount \in Amounts \union {0}
      BY <2>1
    <3>. QED
      BY ONLY <3>1, FreshType
  <2>. HIDE DEF fresh
  <2>3. /\ period' \in [Budgets -> [Months -> PeriodRow]] /\ period'[b][m] = fresh
        /\ \A c \in Budgets, n \in Months : c # b \/ n # m => period'[c][n] = period[c][n]
    <3>1. BgTypes /\ b \in Budgets /\ m \in Months /\ fresh \in PeriodRow /\ period' = [period EXCEPT ![b][m] = fresh]
      BY <1>5, <2>2 DEF BgInv
    <3>. QED
      BY ONLY <3>1, OneRow
  <2>4. /\ u \in Task /\ u.pc = "extend" /\ u.m = m + 1 /\ u.carry = fresh.allocated - fresh.spent
        /\ u.job = t.job /\ u.b = b /\ u.left = t.left /\ u.late = t.late
        /\ u.rollover = t.rollover /\ u.amount = t.amount
    <3>. DEFINE k == t.m + 1
                carry == fresh.allocated - t.spent
    <3>1. t \in Task /\ k \in Nat /\ carry \in Int
      BY <2>1, <2>2
    <3>. HIDE DEF k, carry
    <3>2. /\ u \in Task /\ u.pc = "extend" /\ u.m = k /\ u.carry = carry
          /\ u.job = t.job /\ u.b = t.b /\ u.left = t.left /\ u.late = t.late
          /\ u.rollover = t.rollover /\ u.amount = t.amount
      <4>. DEFINE x == [t EXCEPT !.pc = "extend", !.m = k, !.carry = carry]
      <4>0. x \in Task
        BY ONLY <3>1, MoreType
      <4>1. /\ x.pc = "extend" /\ x.m = k /\ x.carry = carry
            /\ x.job = t.job /\ x.b = t.b /\ x.left = t.left /\ x.late = t.late
            /\ x.rollover = t.rollover /\ x.amount = t.amount
        BY ONLY <3>1, MoreFields
      <4>2. u = x
        BY DEF k, carry
      <4>. HIDE DEF u, x
      <4>. QED
        BY ONLY <4>0, <4>1, <4>2
    <3>. HIDE DEF u
    <3>. QED
      BY <2>1, <2>2, <3>2 DEF k, carry
  <2>. HIDE DEF u
  <2>5. /\ task' \in [Workers -> Task] /\ task'[w] = u
        /\ \A v \in Workers \ {w} :
             /\ Waits(task'[v], task[v])
             /\ task[v].pc \in Holds["rows"] /\ task[v].b \in {b} => "rows" \in task'[v].late
    <3>1. BgTypes /\ w \in Workers /\ u \in Task /\ "rows" \in {"sum", "rows"}
          /\ task' = Late([task EXCEPT ![w] = u], w, "rows", {b})
      BY <1>5, <2>4 DEF BgInv
    <3>. QED
      BY ONLY <3>1, OthersWait
  <2>6. Made(b)' = Made(b) \union {m} /\ m \notin Made(b)
    BY <1>5, <2>2, <2>3 DEF Made
  <2>7. ASSUME NEW c \in Budgets
        PROVE  SameSums(c) /\ (c # b => RowsStay(c)) /\ (c # b => Made(c)' = Made(c))
               /\ Working(c)' = Working(c)
    <3>1. SameSums(c)
      BY <1>2, SumStays
    <3>. QED
      BY <1>2, <2>3, <3>1 DEF RowsStay, Made, Working
  <2>8. "rows" \notin t.late => /\ t.rollover = budget[b].rollover /\ t.amount = budget[b].amount
                                /\ \A n \in Made(b) : n < m
                                /\ t.carry = IF m - 1 \in Made(b)
                                             THEN period[b][m - 1].allocated - period[b][m - 1].spent ELSE 0
    BY <1>0, <2>1 DEF SoundTask, RowsKnown, t
  <2>9. SoundTask(w)' /\ task'[w].pc # "save"
    <3>1. Placed(w)'
      BY <1>0, <1>2, <2>1, <2>4, <2>5 DEF Placed, t
    <3>2. RowsKnown(w)'
      <4>1. SUFFICES ASSUME "rows" \notin u.late
                     PROVE  /\ u.rollover = budget[b].rollover /\ u.amount = budget[b].amount
                            /\ \A n \in Made(b)' : n < u.m
                            /\ u.carry = IF u.m - 1 \in Made(b)'
                                         THEN period'[b][u.m - 1].allocated - period'[b][u.m - 1].spent ELSE 0
        BY <1>2, <2>4, <2>5 DEF RowsKnown
      <4>2. u.m - 1 = m /\ \A n \in Made(b) : n \in Nat
        BY <2>1, <2>4, MonthsAre DEF Made
      <4>3. \A n \in Made(b)' : n < u.m
        BY <2>1, <2>4, <2>6, <2>8, <4>1, <4>2
      <4>. QED
        BY <2>3, <2>4, <2>6, <2>8, <4>1, <4>2, <4>3
    <3>3. SumKnown(w)' /\ StoreRight(w)' /\ RepairRight(w)' /\ task'[w].pc # "save"
      BY <2>4, <2>5 DEF SumKnown, StoreRight, RepairRight
    <3>. QED
      BY <3>1, <3>2, <3>3 DEF SoundTask
  <2>10. (\A v \in Workers : SoundTask(v)') /\ Alone'
    <3>1. ASSUME NEW v \in Workers \ {w}
          PROVE  /\ task[v].pc = "save" => budget'[task[v].b].state = "none"
                 /\ task[v].pc \in Holds["rows"] => "rows" \in task'[v].late \/ RowsStay(task[v].b)
                 /\ task[v].pc \in Holds["sum"] => SameSums(task[v].b)
      <4>1. Placed(v)
        BY TaskKnown DEF SoundTask
      <4>. QED
        BY <1>2, <2>5, <2>7, <4>1, HoldsAre DEF Placed
    <3>2. \A c \in Budgets, n \in Months : period[c][n].made => period'[c][n].made
      BY <2>2, <2>3
    <3>. QED
      BY <1>2, <2>5, <2>9, <3>1, <3>2, OthersSound
  <2>11. BgTypes' /\ AlertOnce'
    <3>1. BgTypes'
      BY <1>2, <2>3, <2>5 DEF BgInv, BgTypes
    <3>. QED
      BY <1>2, <3>1 DEF BgInv, AlertOnce
  <2>12. OfTop'
    <3>1. budget[b].state # "none"
      BY <1>0, <1>1
    <3>. QED
      BY <1>2, <2>7, <3>1 DEF BgInv, OfTop
  <2>13. ASSUME NEW c \in Budgets, Working(c)', NEW n \in Made(c)' PROVE SpentKnown(c, n)'
    <3>1. CASE c = b /\ n = m
      <4>1. CASE "sum" \in t.late
        BY <1>5, <3>1, <4>1, MarksAre DEF SpentKnown
      <4>2. CASE "sum" \notin t.late
        <5>1. t.spent = Spent(b, m)
          BY <1>0, <2>1, <4>2 DEF SoundTask, SumKnown, t
        <5>. QED
          BY <2>2, <2>3, <2>7, <3>1, <5>1 DEF SpentKnown, SameSums
      <4>. QED
        BY <4>1, <4>2
    <3>2. CASE ~ (c = b /\ n = m)
      <4>1. n \in Made(c) /\ n \in Months /\ Working(c)
        BY <2>6, <2>7, <2>13, <3>2 DEF Made
      <4>2. period'[c][n] = period[c][n] /\ Spent(c, n)' = Spent(c, n)
        BY <2>3, <2>7, <3>2, <4>1 DEF SameSums
      <4>3. <<c, n>> \in stale => <<c, n>> \in stale'
        <5>1. <<c, n>> # <<b, m>>
          BY <3>2
        <5>. QED
          BY <1>5, <5>1, MarksAre
      <4>. QED
        BY <1>2, <1>3, <2>5, <4>1, <4>2, <4>3, SpentStays
    <3>. QED
      BY <3>1, <3>2
  <2>14. ASSUME NEW c \in Budgets PROVE Chained(c)'
    <3>1. CASE c # b
      BY <1>3, <1>5, <2>5, <2>7, <3>1, ChainStays
    <3>2. CASE c = b
      <4>1. CASE "rows" \in t.late \/ b \in skewed
        BY <1>5, <3>2, <4>1 DEF Chained
      <4>2. CASE \E v \in Workers : OwesCascade(v, b)
        BY <1>3, <2>5, <3>2, <4>2, CascadeStays DEF Chained
      <4>3. CASE "rows" \notin t.late /\ Chain(period[b], budget[b])
        <5>1. MadeIn(period'[b]) = Made(b) \union {m} /\ MadeIn(period[b]) = Made(b)
          BY <2>6 DEF Made, MadeIn
        <5>2. \A n \in Made(b) : n \in Months /\ n \in Nat /\ n < m /\ n # m /\ n - 1 # m
          BY <2>1, <2>8, <4>3, MonthsAre DEF Made
        <5>3. \A n \in Made(b) : period'[b][n] = period[b][n]
          BY <2>3, <5>2
        <5>4. ASSUME NEW n \in Made(b) \union {m}
              PROVE  /\ period'[b][n].allocated = budget[b].amount + period'[b][n].carried
                     /\ period'[b][n].carried =
                          IF budget[b].rollover /\ n - 1 \in Made(b) \union {m}
                          THEN period'[b][n - 1].allocated - period'[b][n - 1].spent ELSE 0
          <6>1. CASE n \in Made(b)
            BY <4>3, <5>1, <5>2, <5>3, <6>1 DEF Chain
          <6>2. CASE n = m
            <7>1. n - 1 # m
              BY <2>1, <6>2
            <7>2. period'[b][n] = fresh /\ fresh.allocated = budget[b].amount + fresh.carried
              BY <2>2, <2>3, <2>8, <4>3, <6>2
            <7>3. fresh.carried = IF budget[b].rollover /\ m - 1 \in Made(b)
                                  THEN period[b][m - 1].allocated - period[b][m - 1].spent ELSE 0
              BY <2>2, <2>8, <4>3 DEF in
            <7>4. m - 1 \in Made(b) => period'[b][m - 1] = period[b][m - 1]
              BY <5>3
            <7>. QED
              BY <6>2, <7>1, <7>2, <7>3, <7>4
          <6>. QED
            BY <6>1, <6>2
        <5>5. Chain(period[b], budget[b])'
          BY <1>2, <5>1, <5>4 DEF Chain
        <5>. QED
          BY <3>2, <5>5 DEF Chained
      <4>4. Chained(b)
        BY DEF BgInv
      <4>. QED
        BY <4>1, <4>2, <4>3, <4>4 DEF Chained
    <3>. QED
      BY <3>1, <3>2
  <2>15. ASSUME NEW c \in Budgets, NEW n \in Months PROVE Announced(c, n)'
    <3>1. Announced(c, n)
      BY DEF BgInv
    <3>2. CASE c = b /\ n = m
      BY <1>2, <2>6, <3>1, <3>2 DEF Announced
    <3>3. CASE ~ (c = b /\ n = m)
      <4>1. period'[c][n] = period[c][n]
        BY <2>3, <3>3
      <4>2. misled \subseteq misled'
        BY <1>2
      <4>. QED
        BY <1>2, <4>1, <4>2, AnnouncedStays
    <3>. QED
      BY <3>2, <3>3
  <2>. QED
    BY <2>10, <2>11, <2>12, <2>13, <2>14, <2>15 DEF BgInv
<1>. QED
  <2>1. [task EXCEPT ![w].pc = "extend", ![w].m = t.m + 1, ![w].carry = fresh.allocated - t.spent]
          = [task EXCEPT ![w] = u]
    BY DEF BgInv, BgTypes
  <2>. QED
    BY <1>1, <1>4, <1>5, <2>1 DEF InsertPeriod, Becomes

LEMMA SpentRowType ==
  ASSUME NEW x \in PeriodRow, NEW spent \in Nat
  PROVE  LET y == [x EXCEPT !.spent = spent] IN
         /\ y \in PeriodRow /\ y.spent = spent /\ y.made = x.made /\ y.carried = x.carried
         /\ y.allocated = x.allocated /\ y.alert = x.alert
  BY DEF PeriodRow

LEMMA AfterType ==
  ASSUME NEW t \in Task, NEW pc \in Steps, NEW row \in PeriodRow
  PROVE  [t EXCEPT !.pc = pc, !.row = row] \in Task
  BY DEF Task

LEMMA AfterFields ==
  ASSUME NEW t \in Task, NEW pc, NEW row
  PROVE  LET u == [t EXCEPT !.pc = pc, !.row = row] IN
         /\ u.pc = pc /\ u.row = row /\ u.job = t.job /\ u.b = t.b /\ u.m = t.m /\ u.left = t.left
         /\ u.todo = t.todo
  BY DEF Task

LEMMA WriteSpentKeeps ==
  ASSUME BgInv, NEW w \in Workers, WriteSpent(w)
  PROVE  BgInv'
<1>0. /\ task[w].pc = "write" /\ task[w] \in Task /\ task[w].b \in Budgets /\ task[w].job = "event"
      /\ task[w].m \in Months /\ task[w].m \in Made(task[w].b) /\ budget[task[w].b].state # "none" /\ SoundTask(w)
      /\ task[w].todo # <<>>
      /\ \A x \in task[w].left : budget[x[1]].state # "none"
  BY TaskKnown DEF WriteSpent, At, SoundTask, Placed, Made
<1>1. PICK b \in Budgets, m \in Months : b = task[w].b /\ m = task[w].m
  BY <1>0
<1>. DEFINE t == task[w]
            old == period[b][m]
            fresh == [old EXCEPT !.spent = t.spent]
            pc == AfterSpent(t)
            u == [t EXCEPT !.pc = pc, !.row = fresh]
<1>2. UNCHANGED <<entry, removed, budget, now, announced, misled, again>>
  BY DEF WriteSpent
<1>3. t \in Task /\ t.spent \in Nat /\ t.rollover \in BOOLEAN /\ t.b = b /\ t.m = m /\ t.job = "event"
      /\ t.pc = "write" /\ t.todo # <<>> /\ m \in Made(b) /\ old.made /\ old \in PeriodRow
      /\ pc \in Steps /\ pc = IF t.rollover THEN "cascade" ELSE "alert"
  BY <1>0, <1>1, TaskKnown DEF Task, Made, AfterSpent, Steps
<1>. HIDE DEF t, old, pc
<1>4. /\ fresh \in PeriodRow /\ fresh.spent = t.spent /\ fresh.made = old.made /\ fresh.carried = old.carried
      /\ fresh.allocated = old.allocated /\ fresh.alert = old.alert
  <2>1. old \in PeriodRow /\ t.spent \in Nat
    BY <1>3
  <2>. QED
    BY ONLY <2>1, SpentRowType
<1>5. period' = [period EXCEPT ![b][m] = fresh]
  BY <1>1 DEF WriteSpent, t, old
<1>. HIDE DEF fresh
<1>6. /\ period' \in [Budgets -> [Months -> PeriodRow]] /\ period'[b][m] = fresh
      /\ \A c \in Budgets, n \in Months : c # b \/ n # m => period'[c][n] = period[c][n]
  <2>1. BgTypes /\ b \in Budgets /\ m \in Months /\ fresh \in PeriodRow
    BY <1>4 DEF BgInv
  <2>. QED
    BY ONLY <1>5, <2>1, OneRow
<1>7. u \in Task /\ u.pc = pc /\ u.row = fresh /\ u.job = t.job /\ u.b = b /\ u.m = m /\ u.left = t.left
      /\ u.todo = t.todo
  <2>1. t \in Task /\ pc \in Steps /\ fresh \in PeriodRow
    BY <1>3, <1>4
  <2>2. u \in Task
    BY ONLY <2>1, AfterType
  <2>3. /\ u.pc = pc /\ u.row = fresh /\ u.job = t.job /\ u.b = t.b /\ u.m = t.m /\ u.left = t.left
        /\ u.todo = t.todo
    BY ONLY <2>1, AfterFields
  <2>. QED
    BY <1>3, <2>2, <2>3
<1>8. /\ task' = Late([task EXCEPT ![w] = u], w, "rows", {b})
      /\ stale' = Marks(stale, {<<b, m>>}, "sum" \in t.late)
      /\ skewed' = IF budget[b].rollover /\ ~t.rollover THEN skewed \union {b} ELSE skewed
  <2>1. [task EXCEPT ![w].pc = AfterSpent(t), ![w].row = period'[b][m]] = [task EXCEPT ![w] = u]
    BY <1>6 DEF BgInv, BgTypes, t, pc
  <2>. QED
    BY <1>1, <2>1 DEF WriteSpent, t
<1>. HIDE DEF u
<1>9. /\ task' \in [Workers -> Task] /\ task'[w] = u
      /\ \A v \in Workers \ {w} :
           /\ Waits(task'[v], task[v])
           /\ task[v].pc \in Holds["rows"] /\ task[v].b \in {b} => "rows" \in task'[v].late
  <2>1. BgTypes /\ w \in Workers /\ u \in Task /\ "rows" \in {"sum", "rows"}
        /\ task' = Late([task EXCEPT ![w] = u], w, "rows", {b})
    BY <1>7, <1>8 DEF BgInv
  <2>. QED
    BY ONLY <2>1, OthersWait
<1>10. ASSUME NEW c \in Budgets
       PROVE  SameSums(c) /\ (c # b => RowsStay(c)) /\ Made(c)' = Made(c) /\ Working(c)' = Working(c)
  <2>1. SameSums(c)
    BY <1>2, SumStays
  <2>. QED
    BY <1>2, <1>4, <1>6, <2>1 DEF RowsStay, Made, Working, old
<1>11. SoundTask(w)' /\ task'[w].pc # "save"
  <2>1. Placed(w)'
    BY <1>0, <1>1, <1>2, <1>3, <1>4, <1>7, <1>9, <1>10 DEF Placed, t
  <2>. QED
    BY <1>3, <1>7, <1>9, <2>1, HoldsNothing DEF SoundTask
<1>12. (\A v \in Workers : SoundTask(v)') /\ Alone'
  <2>1. ASSUME NEW v \in Workers \ {w}
        PROVE  /\ task[v].pc = "save" => budget'[task[v].b].state = "none"
               /\ task[v].pc \in Holds["rows"] => "rows" \in task'[v].late \/ RowsStay(task[v].b)
               /\ task[v].pc \in Holds["sum"] => SameSums(task[v].b)
    <3>1. Placed(v)
      BY TaskKnown DEF SoundTask
    <3>. QED
      BY <1>2, <1>9, <1>10, <3>1, HoldsAre DEF Placed
  <2>2. \A c \in Budgets, n \in Months : period[c][n].made => period'[c][n].made
    BY <1>3, <1>4, <1>6
  <2>. QED
    BY <1>2, <1>9, <1>11, <2>1, <2>2, OthersSound
<1>13. BgTypes' /\ AlertOnce' /\ OfTop'
  <2>1. BgTypes'
    BY <1>2, <1>6, <1>9 DEF BgInv, BgTypes
  <2>. QED
    BY <1>2, <1>10, <2>1 DEF BgInv, AlertOnce, OfTop
<1>14. ASSUME NEW c \in Budgets, Working(c)', NEW n \in Made(c)' PROVE SpentKnown(c, n)'
  <2>1. CASE c = b /\ n = m
    <3>1. CASE "sum" \in t.late
      BY <1>8, <2>1, <3>1, MarksAre DEF SpentKnown
    <3>2. CASE "sum" \notin t.late
      <4>1. t.spent = Spent(b, m)
        BY <1>0, <1>3, <3>2 DEF SoundTask, SumKnown, t
      <4>. QED
        BY <1>4, <1>6, <1>10, <2>1, <4>1 DEF SpentKnown, SameSums
    <3>. QED
      BY <3>1, <3>2
  <2>2. CASE ~ (c = b /\ n = m)
    <3>1. n \in Made(c) /\ n \in Months /\ Working(c)
      BY <1>10, <1>14 DEF Made
    <3>2. period'[c][n] = period[c][n] /\ Spent(c, n)' = Spent(c, n)
      BY <1>6, <1>10, <2>2, <3>1 DEF SameSums
    <3>3. <<c, n>> \in stale => <<c, n>> \in stale'
      <4>1. <<c, n>> # <<b, m>>
        BY <2>2
      <4>. QED
        BY <1>8, <4>1, MarksAre
    <3>4. Owes(w, c, n) => Owes(w, c, n)'
      BY <1>0, <1>1, <1>2, <1>3, <1>7, <1>9, <2>2 DEF Owes, Scope, t
    <3>. QED
      BY <1>2, <1>9, <3>1, <3>2, <3>3, <3>4, SpentStays
  <2>. QED
    BY <2>1, <2>2
<1>15. ASSUME NEW c \in Budgets PROVE Chained(c)'
  <2>0. ~ OwesCascade(w, c)
    BY <1>0 DEF OwesCascade
  <2>1. CASE c # b
    <3>1. c \in skewed => c \in skewed'
      BY <1>8
    <3>. QED
      BY <1>9, <1>10, <2>0, <2>1, <3>1, ChainStays
  <2>2. CASE c = b /\ t.rollover
    <3>1. OwesCascade(w, b)'
      BY <1>3, <1>7, <1>9, <2>2 DEF OwesCascade
    <3>. QED
      BY <2>2, <3>1 DEF Chained
  <2>3. CASE c = b /\ ~ t.rollover /\ budget[b].rollover
    BY <1>8, <2>3 DEF Chained
  <2>4. CASE c = b /\ ~ t.rollover /\ ~ budget[b].rollover
    <3>1. CASE b \in skewed
      BY <1>8, <2>4, <3>1 DEF Chained
    <3>2. CASE \E v \in Workers : OwesCascade(v, b)
      BY <1>9, <2>0, <2>4, <3>2, CascadeStays DEF Chained
    <3>3. CASE Chain(period[b], budget[b])
      <4>1. \A n \in Months : /\ period'[b][n].made = period[b][n].made
                              /\ period'[b][n].carried = period[b][n].carried
                              /\ period'[b][n].allocated = period[b][n].allocated
        BY <1>4, <1>6 DEF old
      <4>2. MadeIn(period'[b]) = MadeIn(period[b]) /\ \A n \in MadeIn(period[b]) : n \in Months
        BY <4>1 DEF MadeIn
      <4>3. Chain(period[b], budget[b])'
        BY <1>2, <2>4, <3>3, <4>1, <4>2 DEF Chain
      <4>. QED
        BY <2>4, <4>3 DEF Chained
    <3>4. Chained(b)
      BY DEF BgInv
    <3>. QED
      BY <3>1, <3>2, <3>3, <3>4 DEF Chained
  <2>. QED
    BY <2>1, <2>2, <2>3, <2>4
<1>16. ASSUME NEW c \in Budgets, NEW n \in Months PROVE Announced(c, n)'
  <2>1. period'[c][n].made = period[c][n].made /\ period'[c][n].alert = period[c][n].alert
    BY <1>4, <1>6 DEF old
  <2>2. misled \subseteq misled'
    BY <1>2
  <2>. QED
    BY <1>2, <2>1, <2>2, AnnouncedStays
<1>. QED
  BY <1>12, <1>13, <1>14, <1>15, <1>16 DEF BgInv

LEMMA AlertType ==
  ASSUME NEW t \in Task
  PROVE  LET u == [t EXCEPT !.pc = "alert", !.plan = NoPlan] IN
         /\ u \in Task /\ u.pc = "alert" /\ u.row = t.row /\ u.job = t.job /\ u.b = t.b /\ u.m = t.m
         /\ u.left = t.left /\ u.todo = t.todo
<1>1. "alert" \in Steps /\ NoPlan \in Plans
  BY IdleType DEF Steps
<1>. HIDE DEF NoPlan
<1>2. [t EXCEPT !.pc = "alert", !.plan = NoPlan] \in Task
  BY <1>1 DEF Task
<1>. QED
  BY <1>2 DEF Task


LEMMA StoreCascadeKeeps ==
  ASSUME BgInv, NEW w \in Workers, StoreCascade(w)
  PROVE  BgInv'
<1>0. /\ task[w].pc = "store" /\ task[w] \in Task /\ task[w].b \in Budgets
      /\ budget[task[w].b].state # "none" /\ SoundTask(w)
  BY TaskKnown DEF StoreCascade, At, SoundTask, Placed
<1>1. PICK b \in Budgets : b = task[w].b
  BY <1>0
<1>. DEFINE t == task[w]
            rows == Cascaded(period[b], t.plan)
            alert == [t EXCEPT !.pc = "alert", !.plan = NoPlan]
            u == IF t.job = "event" THEN alert ELSE Idle
<1>2. UNCHANGED <<entry, removed, budget, now, announced, stale, misled, again>>
  BY DEF StoreCascade
<1>3. /\ t \in Task /\ t.b = b /\ t.pc = "store" /\ period[b] \in [Months -> PeriodRow]
      /\ \A m \in DOMAIN t.plan : t.plan[m].carried \in Int /\ t.plan[m].allocated \in Int
      /\ t.late = {} => Chain(rows, budget[b])
  BY <1>0, <1>1 DEF SoundTask, Placed, StoreRight, BgInv, BgTypes
<1>4. period' = [period EXCEPT ![b] = rows]
  <2>1. [m \in Months |->
           IF m \in DOMAIN t.plan
           THEN [period[b][m] EXCEPT !.carried = t.plan[m].carried, !.allocated = t.plan[m].allocated]
           ELSE period[b][m]] = rows
    <3>1. ASSUME NEW m \in Months
          PROVE  [period[b][m] EXCEPT !.carried = t.plan[m].carried, !.allocated = t.plan[m].allocated]
                   = Given(period[b][m], t.plan[m].carried, t.plan[m].allocated)
      <4>. DEFINE c == t.plan[m].carried
                  a == t.plan[m].allocated
                  x == period[b][m]
      <4>1. x \in PeriodRow
        BY <1>3
      <4>. HIDE DEF c, a, x
      <4>2. [x EXCEPT !.carried = c, !.allocated = a] = Given(x, c, a)
        BY ONLY <4>1, GivenRow
      <4>. QED
        BY <4>2 DEF c, a, x
    <3>. QED
      BY <3>1 DEF Cascaded
  <2>. HIDE DEF rows
  <2>. QED
    BY <1>1, <2>1 DEF StoreCascade, BgInv, BgTypes
<1>5. \A m \in Months : /\ rows[m] \in PeriodRow /\ rows[m].made = period[b][m].made
                        /\ rows[m].spent = period[b][m].spent /\ rows[m].alert = period[b][m].alert
  <2>1. ASSUME NEW m \in Months, m \in DOMAIN t.plan
        PROVE  /\ rows[m] \in PeriodRow /\ rows[m].made = period[b][m].made
               /\ rows[m].spent = period[b][m].spent /\ rows[m].alert = period[b][m].alert
    <3>. DEFINE c == t.plan[m].carried
                a == t.plan[m].allocated
                x == period[b][m]
    <3>1. x \in PeriodRow /\ c \in Int /\ a \in Int /\ rows[m] = Given(x, c, a)
      BY <1>3, <2>1 DEF Cascaded
    <3>. HIDE DEF c, a, x, rows
    <3>2. Given(x, c, a) \in PeriodRow
      BY <3>1, GivenRow
    <3>3. Given(x, c, a).made = x.made /\ Given(x, c, a).spent = x.spent /\ Given(x, c, a).alert = x.alert
      BY DEF Given
    <3>. QED
      BY <3>1, <3>2, <3>3 DEF x
  <2>2. ASSUME NEW m \in Months, m \notin DOMAIN t.plan PROVE rows[m] = period[b][m] /\ rows[m] \in PeriodRow
    BY <1>3, <2>2 DEF Cascaded
  <2>. HIDE DEF rows
  <2>. QED
    BY <2>1, <2>2
<1>6. DOMAIN rows = Months /\ rows = [m \in Months |-> rows[m]]
  BY DEF Cascaded
<1>. HIDE DEF rows
<1>7. /\ period' \in [Budgets -> [Months -> PeriodRow]] /\ period'[b] = rows
      /\ \A c \in Budgets : c # b => period'[c] = period[c]
  BY <1>4, <1>5, <1>6 DEF BgInv, BgTypes
<1>8. /\ u \in Task
      /\ t.job = "event" => /\ u.pc = "alert" /\ u.row = t.row /\ u.job = "event" /\ u.b = b /\ u.m = t.m
                            /\ u.left = t.left /\ u.todo = t.todo
      /\ t.job # "event" => u = Idle
  BY <1>3, AlertType, IdleType
<1>9. /\ task' = Late([task EXCEPT ![w] = u], w, "rows", {b})
      /\ skewed' = Marks(skewed, {b}, t.late # {})
  BY <1>1 DEF StoreCascade
<1>10. u.pc = "alert" \/ u.pc = "idle"
  BY <1>8, IdleFields
<1>. HIDE DEF u, t
<1>11. /\ task' \in [Workers -> Task] /\ task'[w] = u
       /\ \A v \in Workers \ {w} :
            /\ Waits(task'[v], task[v])
            /\ task[v].pc \in Holds["rows"] /\ task[v].b \in {b} => "rows" \in task'[v].late
  <2>1. BgTypes /\ w \in Workers /\ u \in Task /\ "rows" \in {"sum", "rows"}
        /\ task' = Late([task EXCEPT ![w] = u], w, "rows", {b})
    BY <1>8, <1>9 DEF BgInv
  <2>. QED
    BY ONLY <2>1, OthersWait
<1>12. ASSUME NEW c \in Budgets
       PROVE  SameSums(c) /\ (c # b => RowsStay(c)) /\ Made(c)' = Made(c) /\ Working(c)' = Working(c)
  <2>1. SameSums(c)
    BY <1>2, SumStays
  <2>. QED
    BY <1>2, <1>5, <1>7, <2>1 DEF RowsStay, Made, Working
<1>13. SoundTask(w)' /\ task'[w].pc # "save"
  <2>1. Placed(w)'
    <3>1. CASE t.job = "event"
      BY <1>0, <1>1, <1>2, <1>3, <1>8, <1>11, <1>12, <3>1 DEF Placed, SoundTask, t
    <3>2. CASE t.job # "event"
      BY <1>8, <1>11, <3>2, IdlePlaced
    <3>. QED
      BY <3>1, <3>2
  <2>. QED
    BY <1>10, <1>11, <2>1, HoldsNothing DEF SoundTask
<1>14. (\A v \in Workers : SoundTask(v)') /\ Alone'
  <2>1. ASSUME NEW v \in Workers \ {w}
        PROVE  /\ task[v].pc = "save" => budget'[task[v].b].state = "none"
               /\ task[v].pc \in Holds["rows"] => "rows" \in task'[v].late \/ RowsStay(task[v].b)
               /\ task[v].pc \in Holds["sum"] => SameSums(task[v].b)
    <3>1. Placed(v)
      BY TaskKnown DEF SoundTask
    <3>. QED
      BY <1>2, <1>11, <1>12, <3>1, HoldsAre DEF Placed
  <2>2. \A c \in Budgets, n \in Months : period[c][n].made => period'[c][n].made
    BY <1>5, <1>7
  <2>. QED
    BY <1>2, <1>11, <1>13, <2>1, <2>2, OthersSound
<1>15. BgTypes' /\ AlertOnce' /\ OfTop'
  <2>1. BgTypes'
    BY <1>2, <1>7, <1>11 DEF BgInv, BgTypes
  <2>. QED
    BY <1>2, <1>12, <2>1 DEF BgInv, AlertOnce, OfTop
<1>16. ASSUME NEW c \in Budgets, Working(c)', NEW n \in Made(c)' PROVE SpentKnown(c, n)'
  <2>1. n \in Made(c) /\ n \in Months /\ Working(c)
    BY <1>12, <1>16 DEF Made
  <2>2. period'[c][n].spent = period[c][n].spent /\ Spent(c, n)' = Spent(c, n)
    BY <1>5, <1>7, <1>12, <2>1 DEF SameSums
  <2>3. Owes(w, c, n) => Owes(w, c, n)'
    BY <1>1, <1>2, <1>3, <1>8, <1>11 DEF Owes, Scope, t
  <2>. QED
    BY <1>2, <1>11, <2>1, <2>2, <2>3, SpentStays
<1>17. ASSUME NEW c \in Budgets PROVE Chained(c)'
  <2>1. CASE c # b
    <3>1. c \in skewed => c \in skewed'
      BY <1>9, <2>1, MarksAre
    <3>2. ~ OwesCascade(w, c)
      BY <1>1, <2>1 DEF OwesCascade
    <3>. QED
      BY <1>11, <1>12, <2>1, <3>1, <3>2, ChainStays
  <2>2. CASE c = b /\ t.late # {}
    BY <1>9, <2>2, MarksAre DEF Chained
  <2>3. CASE c = b /\ t.late = {}
    BY <1>2, <1>3, <1>7, <2>3 DEF Chained
  <2>. QED
    BY <2>1, <2>2, <2>3
<1>18. ASSUME NEW c \in Budgets, NEW n \in Months PROVE Announced(c, n)'
  <2>1. period'[c][n].made = period[c][n].made /\ period'[c][n].alert = period[c][n].alert
    BY <1>5, <1>7
  <2>2. misled \subseteq misled'
    BY <1>2
  <2>. QED
    BY <1>2, <2>1, <2>2, AnnouncedStays
<1>. QED
  BY <1>14, <1>15, <1>16, <1>17, <1>18 DEF BgInv

LEMMA AlertRowType ==
  ASSUME NEW x \in PeriodRow, NEW top \in Thresholds \union {0}
  PROVE  LET y == [x EXCEPT !.alert = top] IN
         /\ y \in PeriodRow /\ y.spent = x.spent /\ y.made = x.made /\ y.carried = x.carried
         /\ y.allocated = x.allocated /\ y.alert = top
  BY DEF PeriodRow

LEMMA OnType ==
  ASSUME NEW todo \in Seq(EntryRow), NEW left \in Lefts, NEW job \in Jobs
  PROVE  [Idle EXCEPT !.job = job, !.pc = "next", !.todo = todo, !.left = left] \in Task
<1>1. "next" \in Steps /\ Idle \in Task
  BY IdleType DEF Steps
<1>. QED
  BY <1>1 DEF Task

LEMMA OnFields ==
  ASSUME NEW todo, NEW left, NEW job
  PROVE  LET u == [Idle EXCEPT !.job = job, !.pc = "next", !.todo = todo, !.left = left] IN
         u.pc = "next" /\ u.left = left /\ u.todo = todo /\ u.job = job /\ u.b = None
  BY DEF Idle

(* What an evaluation announces is above every threshold of the row it saw. *)
LEMMA AnnouncesAbove ==
  ASSUME NEW row \in PeriodRow, Announces(row)
  PROVE  /\ Max(Crossed(row)) \in Thresholds /\ Max(Crossed(row)) \in Nat /\ row.alert < Max(Crossed(row))
         /\ row.alert \in Nat
<1>. DEFINE S == Crossed(row)
<1>1. S # {} /\ row.alert < Max(S) /\ row.alert \in Thresholds \union {0}
  BY DEF Announces, PeriodRow
<1>2. S \subseteq Crossed(row) \union {row.alert} /\ S \subseteq Thresholds
  BY DEF Crossed
<1>. HIDE DEF S
<1>3. Max(S) \in S
  BY ONLY <1>1, <1>2, HighestCrossed
<1>4. \A x \in Thresholds \union {0} : x \in Nat
  BY BudgetAssumption
<1>. QED
  BY <1>1, <1>2, <1>3, <1>4 DEF S

LEMMA EvaluateAlertKeeps ==
  ASSUME BgInv, NEW w \in Workers, EvaluateAlert(w)
  PROVE  BgInv'
<1>0. /\ task[w].pc = "alert" /\ task[w] \in Task /\ task[w].b \in Budgets /\ task[w].job = "event"
      /\ task[w].m \in Months /\ task[w].m \in Made(task[w].b) /\ task[w].todo # <<>>
      /\ task[w].row \in PeriodRow /\ budget[task[w].b].state # "none"
      /\ \A x \in task[w].left : x \in Budgets \X BOOLEAN /\ budget[x[1]].state # "none"
  BY TaskKnown DEF EvaluateAlert, At, SoundTask, Placed, Made
<1>1. PICK b \in Budgets, m \in Months : b = task[w].b /\ m = task[w].m
  BY <1>0
<1>. DEFINE t == task[w]
            top == Max(Crossed(t.row))
            old == period[b][m]
            fresh == [old EXCEPT !.alert = top]
            u == [Idle EXCEPT !.job = t.job, !.pc = "next", !.todo = t.todo, !.left = t.left]
<1>2. UNCHANGED <<entry, removed, budget, now, stale, skewed>> /\ task' = [task EXCEPT ![w] = u]
  BY DEF EvaluateAlert, Becomes
<1>3. /\ t \in Task /\ t.job = "event" /\ t.job \in Jobs /\ t.todo \in Seq(EntryRow) /\ t.todo # <<>>
      /\ t.left \in Lefts /\ t.row \in PeriodRow /\ t.pc = "alert"
      /\ \A x \in t.left : budget[x[1]].state # "none"
      /\ old \in PeriodRow /\ old.made /\ m \in Made(b)
  BY <1>0, <1>1, TaskKnown DEF Task, Made
<1>4. \/ /\ Announces(t.row)
         /\ period' = [period EXCEPT ![b][m] = fresh]
         /\ announced' = [announced EXCEPT ![<<b, m>>] = @ \union {top}]
         /\ misled' = IF t.row.alert # old.alert THEN misled \union {<<b, m>>} ELSE misled
         /\ again' = IF top \in announced[<<b, m>>] THEN again \union {<<b, m>>} ELSE again
      \/ UNCHANGED <<period, announced, misled, again>>
  <2>1. [period EXCEPT ![b][m].alert = top] = [period EXCEPT ![b][m] = fresh]
    OBVIOUS
  <2>. HIDE DEF fresh, top
  <2>. QED
    BY <1>1, <2>1 DEF EvaluateAlert, top, old
<1>5. /\ u \in Task /\ u.pc = "next" /\ u.left = t.left /\ u.todo = t.todo /\ u.job = t.job /\ u.b = None
  <2>1. t.todo \in Seq(EntryRow) /\ t.left \in Lefts /\ t.job \in Jobs
    BY <1>3
  <2>. DEFINE todo == t.todo
              left == t.left
              job == t.job
              x == [Idle EXCEPT !.job = job, !.pc = "next", !.todo = todo, !.left = left]
  <2>2. u = x
    OBVIOUS
  <2>. HIDE DEF t, u, todo, left, job
  <2>3. /\ x \in Task /\ x.pc = "next" /\ x.left = left /\ x.todo = todo /\ x.job = job /\ x.b = None
    <3>1. todo \in Seq(EntryRow) /\ left \in Lefts /\ job \in Jobs
      BY <2>1 DEF todo, left, job
    <3>2. x \in Task
      BY ONLY <3>1, OnType
    <3>3. x.pc = "next" /\ x.left = left /\ x.todo = todo /\ x.job = job /\ x.b = None
      BY ONLY OnFields
    <3>. HIDE DEF x
    <3>. QED
      BY <3>2, <3>3
  <2>. HIDE DEF x
  <2>. QED
    BY <2>2, <2>3 DEF todo, left, job
<1>. HIDE DEF u, t, old, top, fresh
<1>6. task' \in [Workers -> Task] /\ task'[w] = u /\ \A v \in Workers \ {w} : task'[v] = task[v]
  BY <1>2, <1>5, SetsTask DEF BgInv
<1>7. /\ Placed(w)' /\ SumKnown(w)' /\ RowsKnown(w)' /\ StoreRight(w)' /\ RepairRight(w)'
      /\ task'[w].pc = "next"
  <2>1. Placed(w)'
    BY <1>2, <1>3, <1>5, <1>6 DEF Placed
  <2>. QED
    BY <1>5, <1>6, <2>1, HoldsNothing
<1>8. \A c \in Budgets : ~ OwesCascade(w, c)
  BY <1>3 DEF OwesCascade, t
<1>9. ASSUME NEW c \in Budgets, NEW n, Owes(w, c, n) PROVE Owes(w, c, n)'
  BY <1>2, <1>3, <1>5, <1>6, <1>9 DEF Owes, Scope, t
<1>10. CASE UNCHANGED <<period, announced, misled, again>>
  BY <1>2, <1>6, <1>7, <1>8, <1>9, <1>10, OwnStep
<1>11. CASE /\ Announces(t.row)
            /\ period' = [period EXCEPT ![b][m] = fresh]
            /\ announced' = [announced EXCEPT ![<<b, m>>] = @ \union {top}]
            /\ misled' = IF t.row.alert # old.alert THEN misled \union {<<b, m>>} ELSE misled
            /\ again' = IF top \in announced[<<b, m>>] THEN again \union {<<b, m>>} ELSE again
  <2>1. top \in Thresholds /\ top \in Nat /\ t.row.alert < top /\ t.row.alert \in Nat
    <3>1. t.row \in PeriodRow /\ Announces(t.row)
      BY <1>3, <1>11
    <3>. QED
      BY <3>1, AnnouncesAbove DEF top
  <2>2. /\ fresh \in PeriodRow /\ fresh.spent = old.spent /\ fresh.made = old.made
        /\ fresh.carried = old.carried /\ fresh.allocated = old.allocated /\ fresh.alert = top
    <3>1. old \in PeriodRow /\ top \in Thresholds \union {0}
      BY <1>3, <2>1
    <3>. QED
      BY ONLY <3>1, AlertRowType DEF fresh
  <2>3. /\ period' \in [Budgets -> [Months -> PeriodRow]] /\ period'[b][m] = fresh
        /\ \A c \in Budgets, n \in Months : c # b \/ n # m => period'[c][n] = period[c][n]
    <3>1. BgTypes /\ b \in Budgets /\ m \in Months /\ fresh \in PeriodRow
          /\ period' = [period EXCEPT ![b][m] = fresh]
      BY <1>11, <2>2 DEF BgInv
    <3>. QED
      BY ONLY <3>1, OneRow
  <2>4. ASSUME NEW c \in Budgets
        PROVE  SameSums(c) /\ RowsStay(c) /\ Made(c)' = Made(c) /\ Working(c)' = Working(c)
    <3>1. SameSums(c)
      BY <1>2, SumStays
    <3>. QED
      BY <1>2, <2>2, <2>3, <3>1 DEF RowsStay, Made, Working, old
  <2>5. \A v \in Workers \ {w} : Waits(task'[v], task[v])
    BY <1>6, WaitsSame
  <2>6. (\A v \in Workers : SoundTask(v)') /\ Alone'
    <3>1. ASSUME NEW v \in Workers \ {w}
          PROVE  /\ task[v].pc = "save" => budget'[task[v].b].state = "none"
                 /\ task[v].pc \in Holds["rows"] => RowsStay(task[v].b)
                 /\ task[v].pc \in Holds["sum"] => SameSums(task[v].b)
      <4>1. Placed(v)
        BY TaskKnown DEF SoundTask
      <4>. QED
        BY <1>2, <2>4, <4>1, HoldsAre DEF Placed
    <3>2. \A c \in Budgets, n \in Months : period[c][n].made => period'[c][n].made
      BY <2>2, <2>3 DEF old
    <3>3. SoundTask(w)' /\ task'[w].pc # "save"
      BY <1>7 DEF SoundTask
    <3>. QED
      BY <1>2, <2>5, <3>1, <3>2, <3>3, OthersSound
  <2>7. BgTypes' /\ OfTop'
    <3>1. announced' \in [Budgets \X Months -> SUBSET Nat]
      BY <1>11, <2>1 DEF BgInv, BgTypes
    <3>2. BgTypes'
      BY <1>2, <1>6, <2>3, <3>1 DEF BgInv, BgTypes
    <3>. QED
      BY <1>2, <2>4, <3>2 DEF BgInv, OfTop
  <2>8. ASSUME NEW c \in Budgets, Working(c)', NEW n \in Made(c)' PROVE SpentKnown(c, n)'
    <3>1. n \in Made(c) /\ n \in Months /\ Working(c)
      BY <2>4, <2>8 DEF Made
    <3>2. period'[c][n].spent = period[c][n].spent /\ Spent(c, n)' = Spent(c, n)
      BY <2>4, <3>1 DEF SameSums, RowsStay
    <3>. QED
      BY <1>2, <1>9, <2>5, <3>1, <3>2, SpentStays
  <2>9. ASSUME NEW c \in Budgets PROVE Chained(c)'
    BY <1>2, <1>8, <2>4, <2>5, ChainStays
  <2>10. Announced(b, m) /\ announced \in [Budgets \X Months -> SUBSET Nat] /\ old.alert \in Nat
    <3>1. \A x \in Thresholds \union {0} : x \in Nat
      BY BudgetAssumption
    <3>. QED
      BY <1>3, <3>1 DEF BgInv, BgTypes, PeriodRow
  <2>11. ASSUME NEW c \in Budgets, NEW n \in Months PROVE Announced(c, n)'
    <3>1. CASE c = b /\ n = m
      <4>1. announced'[<<b, m>>] = announced[<<b, m>>] \union {top} /\ m \in Made(b)'
        BY <1>3, <1>11, <2>4, <2>10
      <4>2. ASSUME <<b, m>> \notin misled', NEW x \in announced'[<<b, m>>] PROVE x <= top
        <5>1. <<b, m>> \notin misled /\ t.row.alert = old.alert
          BY <1>11, <4>2
        <5>2. CASE x = top
          BY <2>1, <5>2
        <5>3. CASE x \in announced[<<b, m>>]
          <6>1. x \in Nat /\ x <= old.alert
            BY <2>10, <5>1, <5>3 DEF Announced, old
          <6>. QED
            BY <2>1, <2>10, <5>1, <6>1
        <5>. QED
          BY <4>1, <4>2, <5>2, <5>3
      <4>. QED
        BY <2>2, <2>3, <3>1, <4>1, <4>2 DEF Announced
    <3>2. CASE ~ (c = b /\ n = m)
      <4>1. period'[c][n] = period[c][n] /\ <<c, n>> # <<b, m>>
        BY <2>3, <3>2
      <4>2. announced'[<<c, n>>] = announced[<<c, n>>] /\ (<<c, n>> \in misled => <<c, n>> \in misled')
        BY <1>11, <2>10, <4>1
      <4>3. Announced(c, n)
        BY DEF BgInv
      <4>. QED
        BY <2>4, <4>1, <4>2, <4>3 DEF Announced
    <3>. QED
      BY <3>1, <3>2
  <2>12. AlertOnce'
    <3>1. AlertOnce /\ misled \subseteq misled'
      BY <1>11 DEF BgInv
    <3>2. top \in announced[<<b, m>>] => <<b, m>> \in misled'
      <4>1. SUFFICES ASSUME top \in announced[<<b, m>>], <<b, m>> \notin misled' PROVE FALSE
        OBVIOUS
      <4>2. <<b, m>> \notin misled /\ t.row.alert = old.alert
        BY <1>11, <4>1
      <4>3. top <= old.alert
        BY <2>10, <4>1, <4>2 DEF Announced, old
      <4>. QED
        BY <2>1, <2>10, <4>2, <4>3
    <3>. QED
      BY <1>11, <3>1, <3>2 DEF AlertOnce
  <2>. QED
    BY <2>6, <2>7, <2>8, <2>9, <2>11, <2>12 DEF BgInv
<1>. QED
  BY <1>4, <1>10, <1>11

LEMMA ApplyRepairKeeps ==
  ASSUME BgInv, NEW w \in Workers, ApplyRepair(w)
  PROVE  BgInv'
<1>0. /\ task[w].pc = "repair" /\ task[w] \in Task /\ task[w].b \in Budgets /\ task[w].job # "event"
      /\ budget[task[w].b].state # "none" /\ SoundTask(w)
  BY TaskKnown DEF ApplyRepair, At, SoundTask, Placed
<1>1. PICK b \in Budgets : b = task[w].b
  BY <1>0
<1>. DEFINE t == task[w]
            rows == Patched(period[b], t.plan)
<1>2. UNCHANGED <<entry, removed, budget, now, announced, again>>
  BY DEF ApplyRepair
<1>3. /\ t \in Task /\ t.b = b /\ t.pc = "repair" /\ t.job # "event" /\ period[b] \in [Months -> PeriodRow]
      /\ \A m \in DOMAIN t.plan : m \in Made(b) /\ t.plan[m] \in PeriodRow /\ t.plan[m].made
      /\ t.late = {} => Chain(rows, budget[b]) /\ \A m \in Made(b) : rows[m].spent = Spent(b, m)
  BY <1>0, <1>1 DEF SoundTask, Placed, RepairRight, BgInv, BgTypes
<1>4. /\ period' = [period EXCEPT ![b] = rows] /\ task' = Late([task EXCEPT ![w] = Idle], w, "rows", {b})
      /\ stale' = Marks(stale, {b} \X Months, t.late # {}) /\ skewed' = Marks(skewed, {b}, t.late # {})
      /\ misled' = misled \union {<<b, m>> : m \in {n \in DOMAIN t.plan : t.plan[n].alert < period[b][n].alert}}
  <2>1. [m \in Months |-> IF m \in DOMAIN t.plan THEN t.plan[m] ELSE period[b][m]] = rows
    BY DEF Patched
  <2>. HIDE DEF rows
  <2>. QED
    BY <1>1, <2>1 DEF ApplyRepair, BgInv, BgTypes
<1>5. \A m \in Months : /\ rows[m] \in PeriodRow /\ rows[m].made = period[b][m].made
                        /\ rows[m] = period[b][m] \/ (m \in DOMAIN t.plan /\ rows[m] = t.plan[m])
  <2>1. ASSUME NEW m \in Months, m \in DOMAIN t.plan
        PROVE  rows[m] = t.plan[m] /\ t.plan[m] \in PeriodRow /\ t.plan[m].made = period[b][m].made
    <3>1. rows[m] = t.plan[m] /\ t.plan[m] \in PeriodRow /\ t.plan[m].made
      BY <1>3, <2>1 DEF Patched
    <3>2. period[b][m] \in PeriodRow /\ period[b][m].made
      BY <1>3, <2>1 DEF Made
    <3>3. \A x \in PeriodRow : x.made => x.made = TRUE
      BY DEF PeriodRow
    <3>. QED
      BY <3>1, <3>2, <3>3
  <2>2. ASSUME NEW m \in Months, m \notin DOMAIN t.plan
        PROVE  rows[m] = period[b][m] /\ period[b][m] \in PeriodRow
    BY <1>3, <2>2 DEF Patched
  <2>. HIDE DEF rows, t
  <2>. QED
    BY <2>1, <2>2
<1>6. DOMAIN rows = Months /\ rows = [m \in Months |-> rows[m]]
  BY DEF Patched
<1>. HIDE DEF rows
<1>7. /\ period' \in [Budgets -> [Months -> PeriodRow]] /\ period'[b] = rows
      /\ \A c \in Budgets : c # b => period'[c] = period[c]
  BY <1>4, <1>5, <1>6 DEF BgInv, BgTypes
<1>. HIDE DEF t
<1>8. /\ task' \in [Workers -> Task] /\ task'[w] = Idle
      /\ \A v \in Workers \ {w} :
           /\ Waits(task'[v], task[v])
           /\ task[v].pc \in Holds["rows"] /\ task[v].b \in {b} => "rows" \in task'[v].late
  <2>1. BgTypes /\ w \in Workers /\ Idle \in Task /\ "rows" \in {"sum", "rows"}
        /\ task' = Late([task EXCEPT ![w] = Idle], w, "rows", {b})
    BY <1>4, IdleType DEF BgInv
  <2>. HIDE DEF Idle
  <2>. QED
    BY ONLY <2>1, OthersWait
<1>9. ASSUME NEW c \in Budgets
      PROVE  SameSums(c) /\ (c # b => RowsStay(c)) /\ Made(c)' = Made(c) /\ Working(c)' = Working(c)
  <2>1. SameSums(c)
    BY <1>2, SumStays
  <2>. QED
    BY <1>2, <1>5, <1>7, <2>1 DEF RowsStay, Made, Working
<1>10. SoundTask(w)' /\ task'[w].pc # "save"
  BY <1>8, IdlePlaced DEF SoundTask
<1>11. (\A v \in Workers : SoundTask(v)') /\ Alone'
  <2>1. ASSUME NEW v \in Workers \ {w}
        PROVE  /\ task[v].pc = "save" => budget'[task[v].b].state = "none"
               /\ task[v].pc \in Holds["rows"] => "rows" \in task'[v].late \/ RowsStay(task[v].b)
               /\ task[v].pc \in Holds["sum"] => SameSums(task[v].b)
    <3>1. Placed(v)
      BY TaskKnown DEF SoundTask
    <3>. QED
      BY <1>2, <1>8, <1>9, <3>1, HoldsAre DEF Placed
  <2>2. \A c \in Budgets, n \in Months : period[c][n].made => period'[c][n].made
    BY <1>5, <1>7
  <2>. QED
    BY <1>2, <1>8, <1>10, <2>1, <2>2, OthersSound
<1>12. BgTypes' /\ OfTop'
  <2>1. BgTypes'
    BY <1>2, <1>7, <1>8 DEF BgInv, BgTypes
  <2>. QED
    BY <1>2, <1>9, <2>1 DEF BgInv, OfTop
<1>13. AlertOnce' /\ misled \subseteq misled'
  BY <1>2, <1>4 DEF BgInv, AlertOnce
<1>14. (\A c \in Budgets : ~ OwesCascade(w, c)) /\ \A c \in Budgets : \A n : ~ Owes(w, c, n)
  BY <1>0, NoEventOwes DEF OwesCascade
<1>15. ASSUME NEW c \in Budgets, Working(c)', NEW n \in Made(c)' PROVE SpentKnown(c, n)'
  <2>1. n \in Made(c) /\ n \in Months /\ Working(c) /\ Spent(c, n)' = Spent(c, n)
    BY <1>9, <1>15 DEF Made, SameSums
  <2>2. CASE c # b
    <3>1. <<c, n>> \in stale => <<c, n>> \in stale'
      <4>1. <<c, n>> \notin {b} \X Months
        BY <2>2
      <4>. QED
        BY <1>4, <4>1, MarksAre
    <3>2. period'[c][n].spent = period[c][n].spent
      BY <1>7, <2>2
    <3>. QED
      BY <1>2, <1>8, <1>14, <2>1, <3>1, <3>2, SpentStays
  <2>3. CASE c = b /\ t.late # {}
    <3>1. <<c, n>> \in {b} \X Months
      BY <2>1, <2>3
    <3>. QED
      BY <1>4, <2>3, <3>1, MarksAre DEF SpentKnown
  <2>4. CASE c = b /\ t.late = {}
    BY <1>3, <1>7, <2>1, <2>4 DEF SpentKnown
  <2>. QED
    BY <2>2, <2>3, <2>4
<1>16. ASSUME NEW c \in Budgets PROVE Chained(c)'
  <2>1. CASE c # b
    <3>1. c \in skewed => c \in skewed'
      BY <1>4, <2>1, MarksAre
    <3>. QED
      BY <1>8, <1>9, <1>14, <2>1, <3>1, ChainStays
  <2>2. CASE c = b /\ t.late # {}
    BY <1>4, <2>2, MarksAre DEF Chained
  <2>3. CASE c = b /\ t.late = {}
    BY <1>2, <1>3, <1>7, <2>3 DEF Chained
  <2>. QED
    BY <2>1, <2>2, <2>3
<1>17. ASSUME NEW c \in Budgets, NEW n \in Months PROVE Announced(c, n)'
  <2>1. Announced(c, n)
    BY DEF BgInv
  <2>2. ASSUME <<c, n>> \notin misled', NEW x \in announced[<<c, n>>] PROVE x <= period'[c][n].alert
    <3>1. x \in Nat /\ x <= period[c][n].alert /\ period[c][n] \in PeriodRow
      BY <1>13, <2>1, <2>2, TaskKnown DEF Announced, BgInv, BgTypes
    <3>2. \A y \in Thresholds \union {0} : y \in Nat
      BY BudgetAssumption
    <3>3. period[c][n].alert \in Nat
      BY <3>1, <3>2 DEF PeriodRow
    <3>4. CASE period'[c][n] = period[c][n]
      BY <3>1, <3>4
    <3>5. CASE c = b /\ n \in DOMAIN t.plan /\ rows[n] = t.plan[n]
      <4>1. t.plan[n].alert \in Nat /\ ~ (t.plan[n].alert < period[b][n].alert)
        <5>1. t.plan[n] \in PeriodRow
          BY <1>3, <3>5
        <5>2. t.plan[n].alert < period[b][n].alert => <<b, n>> \in misled'
          BY <1>4, <3>5
        <5>. QED
          BY <2>2, <3>2, <3>5, <5>1, <5>2 DEF PeriodRow
      <4>. QED
        BY <1>7, <3>1, <3>3, <3>5, <4>1
    <3>. QED
      BY <1>5, <1>7, <3>4, <3>5
  <2>. QED
    BY <1>2, <1>9, <2>1, <2>2 DEF Announced
<1>. QED
  BY <1>11, <1>12, <1>13, <1>15, <1>16, <1>17 DEF BgInv

-----------------------------------------------------------------------------
(* The first state *)

(* The rows that create() gave a budget: each one carries what the one before it left. *)
LEMMA GeneratedRows ==
  ASSUME NEW r \in BudgetRow, r.amount \in Nat
  PROVE  /\ Generated(r) \in [Months -> PeriodRow] /\ Chain(Generated(r), r)
         /\ \A m \in Months : Generated(r)[m].spent = 0
         /\ r.state = "none" => MadeIn(Generated(r)) = {}
<1>. DEFINE rows == Generated(r)
            In(m) == IF r.rollover THEN m * r.amount ELSE 0
            Row(m) == [NoPeriod EXCEPT !.made = TRUE, !.carried = In(m), !.allocated = r.amount + In(m)]
<1>0. r.rollover \in BOOLEAN /\ r.amount \in Int /\ Ahead \in Nat
  BY BudgetAssumption DEF BudgetRow
<1>1. \A m \in Months : rows[m] = IF r.state = "none" \/ m > Ahead THEN NoPeriod ELSE Row(m)
  BY DEF Generated
<1>2. rows = [m \in Months |-> rows[m]]
  BY DEF Generated
<1>3. \A m \in Months : m \in Nat /\ In(m) \in Int
  BY <1>0, MonthsAre
<1>4. ASSUME NEW m \in Months
      PROVE  /\ Row(m) \in PeriodRow /\ Row(m).made /\ Row(m).spent = 0 /\ Row(m).carried = In(m)
             /\ Row(m).allocated = r.amount + In(m)
  <2>. DEFINE in == In(m)
              amount == r.amount
  <2>1. in \in Int /\ amount \in Int
    BY <1>0, <1>3
  <2>. HIDE DEF in, amount
  <2>2. [NoPeriod EXCEPT !.made = TRUE, !.carried = in, !.allocated = amount + in] \in PeriodRow
    <3>. DEFINE x == [NoPeriod EXCEPT !.made = TRUE]
                all == amount + in
    <3>1. x \in PeriodRow
      BY IdleType DEF PeriodRow
    <3>3. in \in Int /\ all \in Int
      BY <2>1
    <3>. HIDE DEF x, all
    <3>4. [x EXCEPT !.carried = in, !.allocated = all] = Given(x, in, all) /\ Given(x, in, all) \in PeriodRow
      BY ONLY <3>1, <3>3, GivenRow
    <3>5. [[NoPeriod EXCEPT !.made = TRUE] EXCEPT !.carried = in, !.allocated = all] \in PeriodRow
      BY ONLY <3>4 DEF x
    <3>6. [NoPeriod EXCEPT !.made = TRUE, !.carried = in, !.allocated = all] \in PeriodRow
      BY ONLY <3>5
    <3>. QED
      BY <3>6 DEF all
  <2>3. LET row == [NoPeriod EXCEPT !.made = TRUE, !.carried = in, !.allocated = amount + in] IN
        row.made /\ row.spent = 0 /\ row.carried = in /\ row.allocated = amount + in
    BY DEF NoPeriod
  <2>. QED
    BY <2>2, <2>3 DEF in, amount
<1>5. ~ NoPeriod.made /\ NoPeriod.spent = 0 /\ NoPeriod \in PeriodRow
  BY IdleType DEF NoPeriod
<1>. HIDE DEF rows, Row
<1>6. \A m \in Months : rows[m] \in PeriodRow /\ rows[m].spent = 0
  BY <1>1, <1>4, <1>5
<1>7. \A m \in Months : m \in MadeIn(rows) <=> r.state # "none" /\ ~ (m > Ahead)
  BY <1>1, <1>4, <1>5 DEF MadeIn
<1>8. ASSUME NEW m \in MadeIn(rows)
      PROVE  /\ rows[m].allocated = r.amount + rows[m].carried
             /\ rows[m].carried = IF r.rollover /\ m - 1 \in MadeIn(rows)
                                  THEN rows[m - 1].allocated - rows[m - 1].spent ELSE 0
  <2>1. m \in Months /\ m \in Nat /\ ~ (m > Ahead) /\ r.state # "none" /\ rows[m] = Row(m)
    BY <1>1, <1>3, <1>7 DEF MadeIn
  <2>2. rows[m].allocated = r.amount + rows[m].carried /\ rows[m].carried = In(m)
    BY <1>4, <2>1
  <2>3. CASE m = 0
    <3>1. m - 1 \notin MadeIn(rows) /\ In(m) = 0
      BY <1>0, <2>3, MonthsAre DEF MadeIn
    <3>. QED
      BY <2>2, <3>1
  <2>4. CASE m # 0
    <3>1. m - 1 \in Months /\ ~ (m - 1 > Ahead) /\ m - 1 \in Nat
      BY <1>0, <2>1, <2>4, MonthsAre
    <3>2. m - 1 \in MadeIn(rows) /\ rows[m - 1] = Row(m - 1)
      BY <1>1, <1>7, <2>1, <3>1
    <3>3. rows[m - 1].allocated = r.amount + In(m - 1) /\ rows[m - 1].spent = 0
      BY <1>4, <3>1, <3>2
    <3>4. r.rollover => In(m) = (r.amount + In(m - 1)) - 0
      <4>. DEFINE a == r.amount
      <4>1. a \in Int /\ m \in Int
        BY <1>0, <2>1
      <4>. HIDE DEF a
      <4>2. m * a = a + (m - 1) * a
        BY ONLY <4>1
      <4>3. (m - 1) * a \in Int
        BY ONLY <4>1
      <4>4. m * a = (a + (m - 1) * a) - 0
        BY <4>1, <4>2, <4>3
      <4>. QED
        BY <4>4 DEF a
    <3>5. ~ r.rollover => In(m) = 0
      OBVIOUS
    <3>. HIDE DEF In
    <3>6. CASE r.rollover
      <4>1. rows[m - 1].allocated - rows[m - 1].spent = In(m)
        <5>. DEFINE p == rows[m - 1]
                    rest == r.amount + In(m - 1)
        <5>1. p.allocated = rest /\ p.spent = 0 /\ In(m) = rest - 0
          BY <3>3, <3>4, <3>6
        <5>. HIDE DEF p, rest
        <5>2. p.allocated - p.spent = In(m)
          BY ONLY <5>1
        <5>. QED
          BY <5>2 DEF p
      <4>. QED
        BY <2>2, <3>2, <3>6, <4>1
    <3>7. CASE ~ r.rollover
      BY <2>2, <3>5, <3>7
    <3>. QED
      BY <3>6, <3>7
  <2>. QED
    BY <2>3, <2>4
<1>. QED
  BY <1>2, <1>6, <1>7, <1>8 DEF Chain, rows, MadeIn

LEMMA InitKeeps == BgInit => BgInv
<1>. SUFFICES ASSUME BgInit PROVE BgInv
  OBVIOUS
<1>1. /\ entry = [e \in Entries |-> NoEntry] /\ removed = {} /\ now = 0
      /\ task = [w \in Workers |-> Idle] /\ period = [b \in Budgets |-> Generated(budget[b])]
      /\ announced = [bm \in Budgets \X Months |-> {}] /\ again = {}
      /\ budget \in [Budgets -> NewBudgets \union {NoBudget}]
  BY DEF BgInit
<1>2. NoBudget \in BudgetRow /\ NoBudget.cat = Top /\ NoBudget.state = "none"
  BY MonthsAre DEF NoBudget, BudgetRow, Cats
<1>3. \A b \in Budgets : /\ budget[b] \in BudgetRow /\ budget[b].cat = Top /\ budget[b].amount \in Nat
  <2>1. \A a \in Amounts \union {0} : a \in Nat
    BY BudgetAssumption
  <2>2. ASSUME NEW b \in Budgets PROVE budget[b] \in BudgetRow /\ budget[b].cat = Top
    <3>1. CASE budget[b] \in NewBudgets
      BY <3>1, NewBudgetsAre
    <3>. QED
      BY <1>1, <1>2, <3>1
  <2>3. \A b \in Budgets : budget[b].amount \in Amounts \union {0}
    BY <2>2 DEF BudgetRow
  <2>. QED
    BY <2>1, <2>2, <2>3
<1>4. ASSUME NEW b \in Budgets
      PROVE  /\ period[b] \in [Months -> PeriodRow] /\ Chain(period[b], budget[b])
             /\ \A m \in Months : period[b][m].spent = 0
             /\ budget[b].state = "none" => Made(b) = {}
  <2>1. period[b] = Generated(budget[b])
    BY <1>1
  <2>2. Made(b) = MadeIn(period[b])
    BY DEF Made, MadeIn
  <2>. QED
    BY <1>3, <2>1, <2>2, GeneratedRows
<1>5. BgTypes
  <2>1. entry \in [Entries -> EntryRow]
    BY <1>1, EntryRowsAre
  <2>2. period \in [Budgets -> [Months -> PeriodRow]]
    BY <1>1, <1>4
  <2>3. budget \in [Budgets -> BudgetRow]
    BY <1>1, <1>3
  <2>4. task \in [Workers -> Task] /\ announced \in [Budgets \X Months -> SUBSET Nat]
    BY <1>1, IdleType
  <2>5. removed \in SUBSET Cats /\ now \in 0..MaxNow
    BY <1>1, BudgetAssumption
  <2>. QED
    BY <2>1, <2>2, <2>3, <2>4, <2>5 DEF BgTypes
<1>6. ASSUME NEW w \in Workers PROVE SoundTask(w) /\ task[w].pc # "save"
  <2>1. task[w].pc = "idle" /\ task[w].left = {} /\ task[w].b = None /\ task[w].job = "none"
    BY <1>1, IdleFields
  <2>. QED
    BY <2>1 DEF SoundTask, Placed, SumKnown, RowsKnown, StoreRight, RepairRight
<1>7. Alone /\ OfTop /\ AlertOnce
  BY <1>1, <1>3, <1>4, <1>6 DEF Alone, OfTop, AlertOnce
<1>8. ASSUME NEW b \in Budgets, NEW m \in Made(b) PROVE SpentKnown(b, m)
  <2>. DEFINE S == {e \in Entries : /\ entry[e].live /\ entry[e].month = m
                                    /\ entry[e].cat \in Scope(budget[b].cat)}
  <2>1. S = {}
    BY <1>1 DEF NoEntry
  <2>2. SpentOf(entry, b, m) = Cardinality(UNION {{e} \X (1..entry[e].amount) : e \in S})
    BY DEF SpentOf
  <2>. HIDE DEF S
  <2>3. SpentOf(entry, b, m) = Cardinality({})
    BY <2>1, <2>2
  <2>4. SpentOf(entry, b, m) = 0
    BY <2>3, FS_EmptySet
  <2>5. period[b][m].spent = 0
    BY <1>4 DEF Made
  <2>. QED
    BY <2>4, <2>5 DEF SpentKnown, Spent
<1>9. \A b \in Budgets : Chained(b) /\ \A m \in Months : Announced(b, m)
  BY <1>1, <1>4 DEF Chained, Announced
<1>. QED
  BY <1>5, <1>6, <1>7, <1>8, <1>9 DEF BgInv

-----------------------------------------------------------------------------
(* Theorems *)

LEMMA BudgetStep == BgInv /\ [BgNext]_bgVars => BgInv'
<1>. SUFFICES ASSUME BgInv, [BgNext]_bgVars PROVE BgInv'
  OBVIOUS
<1>1. CASE UNCHANGED bgVars
  <2>1. now' \in 0..MaxNow
    BY <1>1 DEF bgVars, BgInv, BgTypes
  <2>. QED
    BY <1>1, <2>1, Frame DEF bgVars, table, history
<1>2. ASSUME NEW w \in Workers, Proceed(w) PROVE BgInv'
  BY <1>2, SaveBudgetKeeps, UpdateBudgetKeeps, ExtendKeeps, InsertPeriodKeeps, ReadLastKeeps, ReadBudgetsKeeps,
     NextBudgetKeeps, WriteSpentKeeps, ReadCascadeKeeps, StoreCascadeKeeps, EvaluateAlertKeeps,
     ApplyRepairKeeps DEF Proceed
<1>3. ASSUME NEW w \in Workers, Nightly(w) \/ Lose(w) PROVE BgInv'
  BY <1>3, NightlyKeeps, LoseKeeps
<1>4. ASSUME NEW w \in Workers, NEW e \in Entries, NEW row \in EntryRows, WriteEntry(w, e, row) PROVE BgInv'
  BY <1>4, WriteEntryKeeps
<1>5. ASSUME NEW e \in Entries, NEW row \in EntryRows, WriteFeeLine(e, row) PROVE BgInv'
  BY <1>5, WriteFeeLineKeeps
<1>6. ASSUME NEW c \in {Sub}, NEW d \in Cats, RemoveCategory(c, d) PROVE BgInv'
  BY <1>6, RemoveCategoryKeeps
<1>7. ASSUME NEW w \in Workers, NEW b \in Budgets, NEW row \in NewBudgets, CheckBudget(w, b, row) PROVE BgInv'
  BY <1>7, CheckBudgetKeeps
<1>8. ASSUME NEW w \in Workers, NEW b \in Budgets, NEW dto \in Changes, CheckUpdate(w, b, dto) PROVE BgInv'
  BY <1>8, CheckUpdateKeeps
<1>9. ASSUME NEW b \in Budgets, RemoveBudget(b) PROVE BgInv'
  BY <1>9, RemoveBudgetKeeps
<1>10. ASSUME NEW w \in Workers, NEW b \in Budgets, PlanRepair(w, b) PROVE BgInv'
  BY <1>10, PlanRepairKeeps
<1>11. CASE NextMonth
  BY <1>11, NextMonthKeeps
<1>. QED
  BY <1>1, <1>2, <1>3, <1>4, <1>5, <1>6, <1>7, <1>8, <1>9, <1>10, <1>11 DEF BgNext

(* The bookkeeping of the budgets holds in every state. *)
LEMMA BudgetsKept == BgSpec => []BgInv
<1>1. BgInit => BgInv
  BY InitKeeps
<1>2. BgInv /\ [BgNext]_bgVars => BgInv'
  BY BudgetStep
<1>. QED
  BY <1>1, <1>2, PTL DEF BgSpec

(* RG-B3, whatever order entries, events, restarts and repairs come in:    *)
(* what a period of a working budget says was spent is the sum of its      *)
(* EXPENSE rows, unless an event that names it is on its way or the code   *)
(* left it with a wrong sum at a step that the history names.              *)
THEOREM SpentIsExplained == BgSpec => []SpentExplained
<1>1. BgInv => SpentExplained
  BY DEF BgInv, SpentExplained, SpentKnown
<1>. QED
  BY <1>1, BudgetsKept, PTL

(* RG-B5, whatever order amounts, spending, new periods and repairs come   *)
(* in: every period carries what the one before it left, unless a cascade  *)
(* is on its way or allocations were written from rows that had changed.   *)
THEOREM RolloverIsExplained == BgSpec => []RolloverExplained
<1>1. ASSUME BgInv, NEW b \in Budgets, Chain(period[b], budget[b])
      PROVE  \A m \in Made(b) :
               /\ period[b][m].allocated = budget[b].amount + period[b][m].carried
               /\ period[b][m].carried =
                    IF budget[b].rollover /\ m - 1 \in Made(b)
                    THEN period[b][m - 1].allocated - period[b][m - 1].spent ELSE 0
  <2>1. MadeIn(period[b]) = Made(b)
    BY DEF MadeIn, Made
  <2>. QED
    BY <1>1, <2>1 DEF Chain
<1>2. BgInv => \A b \in Budgets : Chained(b)
  BY DEF BgInv
<1>3. BgInv => RolloverExplained
  BY <1>1, <1>2 DEF RolloverExplained, Chained
<1>. QED
  BY <1>3, BudgetsKept, PTL

(* RG-B6: a threshold of a period is announced once, unless an evaluation  *)
(* worked on a row whose last alert had changed meanwhile, or a repair put *)
(* an older one back.                                                      *)
THEOREM AlertsFireOnce == BgSpec => []AlertOnce
<1>1. BgInv => AlertOnce
  BY DEF BgInv
<1>. QED
  BY <1>1, BudgetsKept, PTL

-----------------------------------------------------------------------------
(* The engine: rounding *)

LEMMA DivMod ==
  ASSUME NEW n \in Nat, NEW d \in Nat \ {0}
  PROVE  n \div d \in Nat /\ n % d \in Nat /\ n % d < d /\ n = (d * (n \div d)) + (n % d)
<1>1. n % d \in Nat /\ n % d < d /\ n \div d \in Int
  OBVIOUS
<1>2. n = (d * (n \div d)) + (n % d)
  OBVIOUS
<1>3. n \div d >= 0
  OBVIOUS
<1>. QED
  BY <1>1, <1>2, <1>3

(* A rounded fraction is half a unit off at most, and even when it is half *)
(* a unit off.                                                             *)
LEMMA RoundIs ==
  ASSUME NEW n \in Nat, NEW d \in Nat \ {0}
  PROVE  LET w == d * Round(n, d) IN
         /\ Round(n, d) \in Nat /\ w \in Nat /\ 2 * n - d <= 2 * w /\ 2 * w <= 2 * n + d
         /\ 2 * w = 2 * n + d \/ 2 * w = 2 * n - d => Round(n, d) % 2 = 0
<1>1. PICK q, t : q = n \div d /\ t = n % d
  OBVIOUS
<1>2. q \in Nat /\ t \in Nat /\ t < d /\ n = (d * q) + t
  BY <1>1, DivMod
<1>3. Round(n, d) = IF 2 * t < d \/ (2 * t = d /\ q % 2 = 0) THEN q ELSE q + 1
  BY <1>1 DEF Round
<1>4. PICK v : v = d * q
  OBVIOUS
<1>5. v \in Nat /\ d * (q + 1) = v + d /\ n = v + t
  BY <1>2, <1>4
<1>6. CASE 2 * t < d \/ (2 * t = d /\ q % 2 = 0)
  <2>1. Round(n, d) = q
    BY <1>3, <1>6
  <2>. QED
    BY <1>2, <1>4, <1>5, <1>6, <2>1
<1>7. CASE ~ (2 * t < d \/ (2 * t = d /\ q % 2 = 0))
  <2>1. Round(n, d) = q + 1
    BY <1>3, <1>7
  <2>2. 2 * t = d => (q + 1) % 2 = 0
    BY <1>2, <1>7
  <2>. QED
    BY <1>2, <1>4, <1>5, <1>7, <2>1, <2>2
<1>. QED
  BY <1>6, <1>7

(* A larger fraction is not rounded to less.                               *)
LEMMA RoundMonotone ==
  ASSUME NEW x \in Nat, NEW d \in Nat \ {0}, NEW y \in Nat, NEW e \in Nat \ {0}, x * e <= y * d
  PROVE  Round(x, d) <= Round(y, e)
<1>1. PICK R, S : R = Round(x, d) /\ S = Round(y, e)
  OBVIOUS
<1>2. PICK a, c : a = d * R /\ c = e * S
  OBVIOUS
<1>3. /\ R \in Nat /\ a \in Nat /\ 2 * a <= 2 * x + d /\ (2 * a = 2 * x + d => R % 2 = 0)
      /\ S \in Nat /\ c \in Nat /\ 2 * y - e <= 2 * c /\ (2 * c = 2 * y - e => S % 2 = 0)
  BY <1>1, <1>2, RoundIs
<1>4. SUFFICES ASSUME S < R PROVE FALSE
  BY <1>1, <1>3
<1>5. PICK m, k, xe, yd : m = d * e /\ k = R - S /\ xe = x * e /\ yd = y * d
  OBVIOUS
<1>6. m \in Nat /\ m > 0 /\ k \in Nat /\ k >= 1 /\ R = S + k /\ xe \in Nat /\ yd \in Nat /\ xe <= yd
  BY <1>3, <1>4, <1>5
<1>7. PICK p, q, t : p = e * a /\ q = d * c /\ t = m * k
  OBVIOUS
<1>8. p \in Nat /\ q \in Nat /\ t \in Nat /\ p = q + t
  <2>1. p = m * R /\ q = m * S
    BY <1>2, <1>3, <1>5, <1>7
  <2>2. m * (S + k) = m * S + m * k
    BY <1>3, <1>6
  <2>. QED
    BY <1>3, <1>6, <1>7, <2>1, <2>2
<1>9. t >= m /\ (t = m => k = 1)
  <2>1. PICK i : i = k - 1
    OBVIOUS
  <2>2. i \in Nat /\ k = i + 1 /\ m * i \in Nat /\ t = m * i + m
    BY <1>6, <1>7, <2>1
  <2>3. m * i = 0 => i = 0
    BY <1>6, <2>2
  <2>. QED
    BY <1>6, <2>2, <2>3
<1>10. 2 * p <= 2 * xe + m /\ (2 * p = 2 * xe + m => 2 * a = 2 * x + d)
  <2>1. PICK g : g = 2 * x + d - 2 * a
    OBVIOUS
  <2>2. g \in Nat /\ 2 * a + g = 2 * x + d
    BY <1>3, <2>1
  <2>3. e * (2 * a + g) = e * (2 * x + d)
    BY <2>2
  <2>4. e * (2 * a + g) = 2 * p + e * g /\ e * (2 * x + d) = 2 * xe + m
    BY <1>3, <1>5, <1>7, <2>2
  <2>5. e * g \in Nat /\ (e * g = 0 => g = 0)
    BY <2>2
  <2>. QED
    BY <1>3, <1>6, <1>8, <2>2, <2>3, <2>4, <2>5
<1>11. 2 * yd - m <= 2 * q /\ (2 * q = 2 * yd - m => 2 * c = 2 * y - e)
  <2>1. PICK g : g = 2 * c - (2 * y - e)
    OBVIOUS
  <2>2. g \in Nat /\ 2 * c + e = 2 * y + g
    BY <1>3, <2>1
  <2>3. d * (2 * c + e) = d * (2 * y + g)
    BY <2>2
  <2>4. d * (2 * c + e) = 2 * q + m /\ d * (2 * y + g) = 2 * yd + d * g
    BY <1>3, <1>5, <1>7, <2>2
  <2>5. d * g \in Nat /\ (d * g = 0 => g = 0)
    BY <2>2
  <2>. QED
    BY <1>3, <1>6, <1>8, <2>2, <2>3, <2>4, <2>5
<1>12. t = m /\ 2 * p = 2 * xe + m /\ 2 * q = 2 * yd - m
  BY <1>6, <1>8, <1>9, <1>10, <1>11
<1>13. R % 2 = 0 /\ S % 2 = 0 /\ R = S + 1
  BY <1>3, <1>6, <1>9, <1>10, <1>11, <1>12
<1>. QED
  BY <1>3, <1>13

-----------------------------------------------------------------------------
(* The engine: powers, interest, the annuity *)

PowersOf(base, n, p) == p = [k \in 0..n |-> IF k = 0 THEN 1 ELSE base * p[k - 1]]

(* The recursive equation of the powers has a solution.                    *)
LEMMA PowersExist == ASSUME NEW base PROVE \A n \in Nat : \E p : PowersOf(base, n, p)
<1>. DEFINE bad == {n \in Nat : ~ \E p : PowersOf(base, n, p)}
<1>1. SUFFICES ASSUME bad # {} PROVE FALSE
  OBVIOUS
<1>2. PICK n \in bad : \A m \in bad : n <= m
  BY <1>1, LeastNumber
<1>3. CASE n = 0
  <2>1. PICK p : p = [k \in 0..0 |-> 1]
    OBVIOUS
  <2>2. \A k \in 0..0 : k = 0
    OBVIOUS
  <2>3. PowersOf(base, 0, p)
    BY <2>1, <2>2 DEF PowersOf
  <2>. QED
    BY <1>2, <1>3, <2>3
<1>4. CASE n # 0
  <2>1. PICK m : m = n - 1
    OBVIOUS
  <2>2. m \in Nat /\ ~ n <= m /\ n \in Nat /\ m \in 0..m
    BY <1>2, <1>4, <2>1
  <2>3. PICK p : PowersOf(base, m, p)
    BY <1>2, <2>2
  <2>4. \A k \in 0..m : p[k] = IF k = 0 THEN 1 ELSE base * p[k - 1]
    BY <2>3 DEF PowersOf
  <2>5. PICK q : q = [k \in 0..n |-> IF k = n THEN base * p[m] ELSE p[k]]
    OBVIOUS
  <2>6. ASSUME NEW k \in 0..n PROVE q[k] = IF k = 0 THEN 1 ELSE base * q[k - 1]
    <3>1. k # 0 => k - 1 \in 0..n /\ k - 1 # n
      BY <2>2
    <3>2. k # 0 => q[k - 1] = p[k - 1]
      BY <2>5, <3>1
    <3>3. CASE k = n
      BY <1>4, <2>1, <2>5, <3>2, <3>3
    <3>4. CASE k # n
      <4>1. k \in 0..m /\ q[k] = p[k]
        BY <2>1, <2>2, <2>5, <3>4
      <4>. QED
        BY <2>4, <3>2, <4>1
    <3>. QED
      BY <3>3, <3>4
  <2>7. q = [k \in 0..n |-> IF k = 0 THEN 1 ELSE base * q[k - 1]]
    <3>1. q = [k \in 0..n |-> q[k]]
      BY <2>5
    <3>. QED
      BY <2>6, <3>1
  <2>8. PowersOf(base, n, q)
    BY <2>7 DEF PowersOf
  <2>. QED
    BY <1>2, <2>8
<1>. QED
  BY <1>3, <1>4

LEMMA PowersAre ==
  ASSUME NEW base \in Nat \ {0}, NEW n \in Nat
  PROVE  \E p : /\ Power(base, n) = p[n] /\ p[0] = 1
                /\ \A k \in 0..n : p[k] \in Nat /\ p[k] >= 1 /\ (k # 0 => p[k] = base * p[k - 1])
<1>1. PICK p : p = CHOOSE q : PowersOf(base, n, q)
  OBVIOUS
<1>2. PowersOf(base, n, p)
  BY <1>1, PowersExist
<1>3. Power(base, n) = p[n]
  BY <1>1 DEF Power, PowersOf
<1>4. \A k \in 0..n : p[k] = IF k = 0 THEN 1 ELSE base * p[k - 1]
  BY <1>2 DEF PowersOf
<1>. DEFINE bad == {k \in 0..n : ~ (p[k] \in Nat /\ p[k] >= 1)}
<1>5. ASSUME bad # {} PROVE FALSE
  <2>1. bad \in SUBSET Nat
    OBVIOUS
  <2>2. PICK k \in bad : \A m \in bad : k <= m
    BY <1>5, <2>1, LeastNumber
  <2>3. k # 0
    BY <1>4, <2>2
  <2>4. k - 1 \in 0..n /\ ~ k <= k - 1
    BY <2>2, <2>3
  <2>5. p[k - 1] \in Nat /\ p[k - 1] >= 1 /\ p[k] = base * p[k - 1]
    BY <1>4, <2>2, <2>3, <2>4
  <2>6. PICK v : v = p[k - 1]
    OBVIOUS
  <2>7. base * v \in Nat /\ base * v >= v
    BY <2>5, <2>6
  <2>. QED
    BY <2>2, <2>5, <2>6, <2>7
<1>6. \A k \in 0..n : p[k] \in Nat /\ p[k] >= 1
  BY <1>5
<1>7. 0 \in 0..n
  OBVIOUS
<1>. QED
  BY <1>3, <1>4, <1>6, <1>7

(* The powers of a larger base are larger.                                 *)
LEMMA PowerGrows ==
  ASSUME NEW base \in Nat \ {0}, NEW more \in Nat \ {0}, NEW n \in Nat \ {0}
  PROVE  /\ Power(base, n) \in Nat /\ Power(base + more, n) \in Nat
         /\ Power(base, n) >= 1 /\ Power(base, n) < Power(base + more, n)
<1>1. PICK large : large = base + more
  OBVIOUS
<1>2. large \in Nat \ {0} /\ large > base
  BY <1>1
<1>3. PICK p : /\ Power(base, n) = p[n] /\ p[0] = 1
               /\ \A k \in 0..n : p[k] \in Nat /\ p[k] >= 1 /\ (k # 0 => p[k] = base * p[k - 1])
  BY PowersAre
<1>4. PICK q : /\ Power(large, n) = q[n] /\ q[0] = 1
               /\ \A k \in 0..n : q[k] \in Nat /\ q[k] >= 1 /\ (k # 0 => q[k] = large * q[k - 1])
  BY <1>2, PowersAre
<1>. DEFINE bad == {k \in 1..n : ~ p[k] < q[k]}
<1>5. ASSUME bad # {} PROVE FALSE
  <2>1. bad \in SUBSET Nat
    OBVIOUS
  <2>2. PICK k \in bad : \A m \in bad : k <= m
    BY <1>5, <2>1, LeastNumber
  <2>3. k \in Nat /\ k # 0 /\ k \in 0..n /\ k - 1 \in 0..n /\ ~ k <= k - 1
    BY <2>2
  <2>4. p[k - 1] <= q[k - 1]
    <3>1. CASE k = 1
      BY <1>3, <1>4, <3>1
    <3>2. CASE k # 1
      <4>1. k - 1 \in 1..n
        BY <2>3, <3>2
      <4>. QED
        BY <1>3, <1>4, <2>2, <2>3, <4>1
    <3>. QED
      BY <3>1, <3>2
  <2>5. PICK u, v : u = p[k - 1] /\ v = q[k - 1]
    OBVIOUS
  <2>6. u \in Nat /\ v \in Nat /\ u >= 1 /\ u <= v /\ p[k] = base * u /\ q[k] = large * v
    BY <1>3, <1>4, <2>3, <2>4, <2>5
  <2>7. base * u < large * v
    <3>1. base * u <= base * v
      BY <2>6
    <3>2. large * v = base * v + more * v /\ more * v >= 1
      BY <1>1, <2>6
    <3>3. base * u \in Nat /\ base * v \in Nat /\ more * v \in Nat
      BY <2>6
    <3>. QED
      BY <3>1, <3>2, <3>3
  <2>. QED
    BY <2>2, <2>6, <2>7
<1>6. n \in 1..n /\ n \in 0..n
  OBVIOUS
<1>. QED
  BY <1>1, <1>3, <1>4, <1>5, <1>6

LEMMA EngineConstants == RateUnit \in Nat \ {0} /\ MaxPeriods \in Nat \ {0}
  BY EngineAssumption

(* The interest of a larger balance is not less.                           *)
LEMMA InterestIs ==
  ASSUME NEW b \in Nat, NEW c \in Nat, b <= c, NEW rate \in Nat
  PROVE  Interest(b, rate) \in Nat /\ Interest(c, rate) \in Nat /\ Interest(b, rate) <= Interest(c, rate)
<1>1. PICK x, y : x = b * rate /\ y = c * rate
  OBVIOUS
<1>2. x \in Nat /\ y \in Nat /\ x <= y
  BY <1>1
<1>3. x * RateUnit <= y * RateUnit
  BY <1>2, EngineConstants
<1>4. Round(x, RateUnit) \in Nat /\ Round(y, RateUnit) \in Nat /\ Round(x, RateUnit) <= Round(y, RateUnit)
  BY <1>2, <1>3, EngineConstants, RoundIs, RoundMonotone
<1>. QED
  BY <1>1, <1>4 DEF Interest

LEMMA RoundZero == ASSUME NEW d \in Nat \ {0} PROVE Round(0, d) = 0
<1>1. PICK R, w : R = Round(0, d) /\ w = d * R
  OBVIOUS
<1>2. R \in Nat /\ w \in Nat /\ 2 * w <= d
  BY <1>1, RoundIs
<1>3. R # 0 => w >= d
  BY <1>1, <1>2
<1>. QED
  BY <1>1, <1>2, <1>3

(* An installment pays at least the interest of the first period.          *)
LEMMA AnnuityCovers ==
  ASSUME NEW p \in Nat, NEW rate \in Nat, NEW n \in Nat \ {0}
  PROVE  Annuity(p, rate, n) \in Nat /\ Interest(p, rate) <= Annuity(p, rate, n)
<1>1. CASE rate = 0
  <2>1. Annuity(p, rate, n) = Round(p, n) /\ Interest(p, rate) = Round(0, RateUnit)
    BY <1>1 DEF Annuity, Interest
  <2>2. Round(p, n) \in Nat /\ Round(0, RateUnit) = 0
    BY EngineConstants, RoundIs, RoundZero
  <2>. QED
    BY <2>1, <2>2
<1>2. CASE rate # 0
  <2>1. PICK g, h : g = Power(RateUnit + rate, n) /\ h = Power(RateUnit, n)
    OBVIOUS
  <2>2. g \in Nat /\ h \in Nat /\ h >= 1 /\ h < g
    BY <1>2, <2>1, EngineConstants, PowerGrows
  <2>3. PICK a, d : a = p * rate /\ d = g - h
    OBVIOUS
  <2>4. a \in Nat /\ d \in Nat \ {0} /\ d <= g
    BY <2>2, <2>3
  <2>5. PICK y, e, U : U = RateUnit /\ y = a * g /\ e = U * d
    OBVIOUS
  <2>6. U \in Nat \ {0} /\ y \in Nat /\ e \in Nat \ {0}
    BY <2>2, <2>4, <2>5, EngineConstants
  <2>7. a * e <= y * U
    <3>1. a * d <= a * g /\ a * d \in Nat /\ a * g \in Nat
      BY <2>2, <2>4
    <3>2. a * e = (a * d) * U /\ y * U = (a * g) * U
      BY <2>2, <2>4, <2>5, <2>6
    <3>. QED
      BY <2>6, <3>1, <3>2
  <2>8. Round(y, e) \in Nat /\ Round(a, U) <= Round(y, e)
    BY <2>4, <2>6, <2>7, RoundIs, RoundMonotone
  <2>9. Annuity(p, rate, n) = Round(y, e) /\ Interest(p, rate) = Round(a, U)
    BY <1>2, <2>1, <2>3, <2>5 DEF Annuity, Interest
  <2>. QED
    BY <2>8, <2>9
<1>. QED
  BY <1>1, <1>2

-----------------------------------------------------------------------------
(* The engine: balances and schedules *)

(* No part is more than the balance it is taken from.                      *)
PartsFit(principal, n, part) == \A k \in 1..n, x \in 0..principal : part[k][x] \in 0..x

BalancesOf(principal, n, part, b) ==
  b = [k \in 0..n |-> IF k = 0 THEN principal ELSE b[k - 1] - part[k][b[k - 1]]]

(* The recursive equation of the balances has a solution.                  *)
LEMMA BalancesExist ==
  ASSUME NEW principal, NEW part PROVE \A n \in Nat : \E b : BalancesOf(principal, n, part, b)
<1>. DEFINE bad == {n \in Nat : ~ \E b : BalancesOf(principal, n, part, b)}
            next(k, b) == b[k - 1] - part[k][b[k - 1]]
<1>1. SUFFICES ASSUME bad # {} PROVE FALSE
  OBVIOUS
<1>2. PICK n \in bad : \A m \in bad : n <= m
  BY <1>1, LeastNumber
<1>3. CASE n = 0
  <2>1. PICK b : b = [k \in 0..0 |-> principal]
    OBVIOUS
  <2>2. \A k \in 0..0 : k = 0
    OBVIOUS
  <2>3. BalancesOf(principal, 0, part, b)
    BY <2>1, <2>2 DEF BalancesOf
  <2>. QED
    BY <1>2, <1>3, <2>3
<1>4. CASE n # 0
  <2>1. PICK m : m = n - 1
    OBVIOUS
  <2>2. m \in Nat /\ ~ n <= m /\ n \in Nat /\ m \in 0..m
    BY <1>2, <1>4, <2>1
  <2>3. PICK b : BalancesOf(principal, m, part, b)
    BY <1>2, <2>2
  <2>4. \A k \in 0..m : b[k] = IF k = 0 THEN principal ELSE next(k, b)
    BY <2>3 DEF BalancesOf
  <2>5. PICK c : c = [k \in 0..n |-> IF k = n THEN next(n, b) ELSE b[k]]
    OBVIOUS
  <2>6. ASSUME NEW k \in 0..n PROVE c[k] = IF k = 0 THEN principal ELSE next(k, c)
    <3>1. k # 0 => k - 1 \in 0..n /\ k - 1 # n
      BY <2>2
    <3>2. k # 0 => c[k - 1] = b[k - 1]
      BY <2>5, <3>1
    <3>3. CASE k = n
      BY <1>4, <2>5, <3>2, <3>3
    <3>4. CASE k # n
      <4>1. k \in 0..m /\ c[k] = b[k]
        BY <2>1, <2>2, <2>5, <3>4
      <4>. QED
        BY <2>4, <3>2, <4>1
    <3>. QED
      BY <3>3, <3>4
  <2>7. c = [k \in 0..n |-> IF k = 0 THEN principal ELSE next(k, c)]
    <3>1. c = [k \in 0..n |-> c[k]]
      BY <2>5
    <3>. QED
      BY <2>6, <3>1
  <2>8. BalancesOf(principal, n, part, c)
    BY <2>7 DEF BalancesOf
  <2>. QED
    BY <1>2, <2>8
<1>. QED
  BY <1>3, <1>4

(* From line to line the balance goes down by the part, never below zero.  *)
RunsDown(principal, n, part, b) ==
  /\ b[0] = principal
  /\ \A k \in 0..n : b[k] \in 0..principal
  /\ \A k \in 1..n : b[k] = b[k - 1] - part[k][b[k - 1]] /\ part[k][b[k - 1]] \in 0..b[k - 1]

LEMMA BalancesRunDown ==
  ASSUME NEW principal \in Nat, NEW n \in Nat, NEW part, PartsFit(principal, n, part)
  PROVE  RunsDown(principal, n, part, Balances(principal, n, part))
<1>1. PICK b : b = CHOOSE c : BalancesOf(principal, n, part, c)
  OBVIOUS
<1>2. BalancesOf(principal, n, part, b)
  BY <1>1, BalancesExist
<1>3. Balances(principal, n, part) = b
  BY <1>1 DEF Balances, BalancesOf
<1>4. \A k \in 0..n : b[k] = IF k = 0 THEN principal ELSE b[k - 1] - part[k][b[k - 1]]
  BY <1>2 DEF BalancesOf
<1>5. b[0] = principal
  BY <1>4
<1>. DEFINE bad == {k \in 0..n : b[k] \notin 0..principal}
<1>6. ASSUME bad # {} PROVE FALSE
  <2>1. bad \in SUBSET Nat
    OBVIOUS
  <2>2. PICK k \in bad : \A m \in bad : k <= m
    BY <1>6, <2>1, LeastNumber
  <2>3. k # 0
    BY <1>5, <2>2
  <2>4. k \in 1..n /\ k - 1 \in 0..n /\ ~ k <= k - 1
    BY <2>2, <2>3
  <2>5. b[k - 1] \in 0..principal
    BY <2>2, <2>4
  <2>6. part[k][b[k - 1]] \in 0..b[k - 1] /\ b[k] = b[k - 1] - part[k][b[k - 1]]
    BY <1>4, <2>3, <2>4, <2>5 DEF PartsFit
  <2>7. PICK x, y : x = b[k - 1] /\ y = part[k][b[k - 1]]
    OBVIOUS
  <2>8. x - y \in 0..principal
    BY <2>5, <2>6, <2>7
  <2>. QED
    BY <2>2, <2>6, <2>7, <2>8
<1>7. \A k \in 0..n : b[k] \in 0..principal
  BY <1>6
<1>8. ASSUME NEW k \in 1..n
      PROVE  b[k] = b[k - 1] - part[k][b[k - 1]] /\ part[k][b[k - 1]] \in 0..b[k - 1]
  <2>1. k \in 0..n /\ k # 0 /\ k - 1 \in 0..n
    OBVIOUS
  <2>2. b[k - 1] \in 0..principal
    BY <1>7, <2>1
  <2>. QED
    BY <1>4, <2>1, <2>2 DEF PartsFit
<1>. QED
  BY <1>3, <1>5, <1>7, <1>8 DEF RunsDown

(* So later balances are not larger.                                       *)
LEMMA BalancesFall ==
  ASSUME NEW principal \in Nat, NEW n \in Nat, NEW part, NEW b, RunsDown(principal, n, part, b),
         NEW j \in 0..n, NEW k \in 0..n, j <= k
  PROVE  b[k] <= b[j]
<1>. DEFINE bad == {i \in j..n : ~ b[i] <= b[j]}
<1>1. ASSUME bad # {} PROVE FALSE
  <2>1. bad \in SUBSET Nat
    OBVIOUS
  <2>2. PICK i \in bad : \A m \in bad : i <= m
    BY <1>1, <2>1, LeastNumber
  <2>3. \A m \in 0..n : b[m] \in Nat
    BY DEF RunsDown
  <2>4. i # j
    BY <2>2, <2>3
  <2>5. i \in 1..n /\ i - 1 \in j..n /\ i - 1 \in 0..n /\ ~ i <= i - 1
    BY <2>2, <2>4
  <2>6. b[i - 1] <= b[j]
    BY <2>2, <2>5
  <2>7. PICK x, y : x = b[i - 1] /\ y = part[i][b[i - 1]]
    OBVIOUS
  <2>8. b[i] = x - y /\ y \in 0..x /\ x \in Nat /\ b[j] \in Nat
    BY <2>3, <2>5, <2>7 DEF RunsDown
  <2>. QED
    BY <2>2, <2>6, <2>7, <2>8
<1>2. k \in j..n
  OBVIOUS
<1>. QED
  BY <1>1, <1>2

(* Sums from the first line on.                                            *)
Prefix(f, m) == SumOver(1..m, [s \in 1..m |-> f[s]])

LEMMA PrefixIs ==
  ASSUME NEW n \in Nat, NEW f, \A s \in 1..n : f[s] \in Nat
  PROVE  /\ Prefix(f, 0) = 0
         /\ \A m \in 0..n : Prefix(f, m) \in Nat
         /\ \A m \in 1..n : Prefix(f, m) = Prefix(f, m - 1) + f[m]
<1>1. Prefix(f, 0) = 0
  <2>1. 1..0 = {}
    OBVIOUS
  <2>. QED
    BY <2>1, SumOfNone DEF Prefix
<1>2. ASSUME NEW m \in 0..n PROVE Prefix(f, m) \in Nat /\ IsFiniteSet(1..m)
  <2>1. IsFiniteSet(1..m)
    BY FS_Interval
  <2>2. PICK g : g = [s \in 1..m |-> f[s]]
    OBVIOUS
  <2>3. \A s \in 1..m : g[s] \in Nat
    BY <2>2
  <2>4. SumOver(1..m, g) \in Nat
    BY <2>1, <2>3, SumType
  <2>. QED
    BY <2>1, <2>2, <2>4 DEF Prefix
<1>3. ASSUME NEW m \in 1..n PROVE Prefix(f, m) = Prefix(f, m - 1) + f[m]
  <2>1. PICK S, T : S = 1..m - 1 /\ T = 1..m
    OBVIOUS
  <2>2. m \notin S /\ T = S \union {m} /\ m - 1 \in 0..n
    BY <2>1
  <2>3. PICK g, h : g = [s \in S |-> f[s]] /\ h = [s \in T |-> f[s]]
    OBVIOUS
  <2>4. h[m] = f[m] /\ h[m] \in Nat /\ \A s \in S : g[s] \in Nat /\ h[s] = g[s]
    BY <2>1, <2>2, <2>3
  <2>5. IsFiniteSet(S)
    BY <1>2, <2>1, <2>2
  <2>6. SumOver(T, h) = SumOver(S, g) + h[m]
    BY ONLY <2>2, <2>4, <2>5, SumGrows
  <2>. QED
    BY <2>1, <2>3, <2>4, <2>6 DEF Prefix
<1>. QED
  BY <1>1, <1>2, <1>3

(* More terms, and larger ones, do not add up to less.                     *)
LEMMA PrefixGrows ==
  ASSUME NEW n \in Nat, NEW m \in 0..n, NEW f, NEW g, \A s \in 1..n : g[s] \in Nat,
         \A s \in 1..m : f[s] \in Nat /\ f[s] <= g[s]
  PROVE  Prefix(f, m) <= Prefix(g, n)
<1>. DEFINE F(k) == IF k <= m THEN Prefix(f, k) ELSE Prefix(f, m)
            bad == {k \in 0..n : ~ F(k) <= Prefix(g, k)}
<1>1. /\ Prefix(f, 0) = 0 /\ Prefix(g, 0) = 0
      /\ \A k \in 0..m : Prefix(f, k) \in Nat
      /\ \A k \in 1..m : Prefix(f, k) = Prefix(f, k - 1) + f[k]
      /\ \A k \in 0..n : Prefix(g, k) \in Nat
      /\ \A k \in 1..n : Prefix(g, k) = Prefix(g, k - 1) + g[k]
  BY PrefixIs
<1>2. ASSUME bad # {} PROVE FALSE
  <2>1. bad \in SUBSET Nat
    OBVIOUS
  <2>2. PICK k \in bad : \A i \in bad : k <= i
    BY <1>2, <2>1, LeastNumber
  <2>3. k # 0
    BY <1>1, <2>2
  <2>4. k \in 1..n /\ k - 1 \in 0..n /\ ~ k <= k - 1 /\ k \in Nat
    BY <2>2, <2>3
  <2>5. F(k - 1) <= Prefix(g, k - 1)
    BY <2>2, <2>4
  <2>6. PICK u, v, w : u = F(k - 1) /\ v = Prefix(g, k - 1) /\ w = g[k]
    OBVIOUS
  <2>7. v \in Nat /\ w \in Nat /\ Prefix(g, k) = v + w /\ u <= v
    BY <1>1, <2>4, <2>5, <2>6
  <2>8. F(k) <= v + w
    <3>1. CASE k <= m
      <4>1. k \in 1..m /\ k - 1 \in 0..m /\ k - 1 <= m
        BY <2>4, <3>1
      <4>2. F(k) = u + f[k] /\ u \in Nat /\ f[k] \in Nat /\ f[k] <= w
        BY <1>1, <2>6, <3>1, <4>1
      <4>. QED
        BY <2>7, <4>2
    <3>2. CASE ~ k <= m
      <4>1. m \in 0..m /\ F(k) = Prefix(f, m) /\ (k - 1 <= m => k - 1 = m)
        BY <2>4, <3>2
      <4>2. F(k) = u /\ u \in Nat
        BY <1>1, <2>6, <4>1
      <4>. QED
        BY <2>7, <4>2
    <3>. QED
      BY <3>1, <3>2
  <2>. QED
    BY <2>2, <2>7, <2>8
<1>3. n \in 0..n /\ (n <= m => n = m) /\ m \in 0..m
  OBVIOUS
<1>4. F(n) = Prefix(f, m)
  BY <1>3
<1>5. F(n) <= Prefix(g, n)
  BY <1>2, <1>3
<1>. QED
  BY <1>4, <1>5

(* The lines of a schedule.                                                *)
LinesAre(rate, n, part, b, lines) ==
  /\ DOMAIN lines = 1..n
  /\ \A s \in 1..n : lines[s] = Line(part[s][b[s - 1]], Interest(b[s - 1], rate))

LEMMA ScheduleIs ==
  ASSUME NEW principal, NEW rate, NEW n \in Nat, NEW part, NEW b, b = Balances(principal, n, part)
  PROVE  LinesAre(rate, n, part, b, Schedule(principal, rate, n, 1, part))
<1>1. 1 + n - 1 = n
  OBVIOUS
<1>2. Schedule(principal, rate, n, 1, part) =
        [s \in 1..n |-> Line(part[s - 1 + 1][b[s - 1]], Interest(b[s - 1], rate))]
  BY <1>1 DEF Schedule
<1>3. \A s \in 1..n : s - 1 + 1 = s
  OBVIOUS
<1>. QED
  BY <1>2, <1>3 DEF LinesAre

LEMMA LineIs ==
  ASSUME NEW p, NEW i PROVE Line(p, i).principal = p /\ Line(p, i).interest = i
  BY DEF Line

Repays(principal, rate, n, b, lines) ==
  /\ RepaidBy(lines) = principal - b[n] /\ Descends(lines)
  /\ \A s \in 1..n : Interest(b[s - 1], rate) \in Nat
  /\ InterestOf(lines) = Prefix([s \in 1..n |-> Interest(b[s - 1], rate)], n)

(* A schedule whose parts fit repays what is not left after its last line. *)
LEMMA ScheduleRepays ==
  ASSUME NEW principal \in Nat, NEW rate \in Nat, NEW n \in Nat, NEW part, PartsFit(principal, n, part),
         NEW b, b = Balances(principal, n, part), NEW lines, lines = Schedule(principal, rate, n, 1, part)
  PROVE  Repays(principal, rate, n, b, lines)
<1>1. RunsDown(principal, n, part, b)
  BY BalancesRunDown
<1>2. /\ DOMAIN lines = 1..n
      /\ \A s \in 1..n : lines[s] = Line(part[s][b[s - 1]], Interest(b[s - 1], rate))
  BY ScheduleIs DEF LinesAre
<1>3. \A s \in 1..n : s - 1 \in 0..n /\ s \in 0..n
  OBVIOUS
<1>4. \A k \in 0..n : b[k] \in Nat
  BY <1>1 DEF RunsDown
<1>5. ASSUME NEW s \in 1..n PROVE Interest(b[s - 1], rate) \in Nat
  <2>1. PICK x : x = b[s - 1]
    OBVIOUS
  <2>2. x \in Nat /\ x <= x
    BY <1>3, <1>4, <2>1
  <2>3. Interest(x, rate) \in Nat
    BY ONLY <2>2, rate \in Nat, InterestIs
  <2>. QED
    BY <2>1, <2>3
<1>6. \A s \in 1..n : /\ lines[s].principal = part[s][b[s - 1]] /\ lines[s].interest = Interest(b[s - 1], rate)
                      /\ lines[s].principal \in Nat /\ b[s] = b[s - 1] - lines[s].principal
  <2>1. ASSUME NEW s \in 1..n
        PROVE  part[s][b[s - 1]] \in Nat /\ b[s] = b[s - 1] - part[s][b[s - 1]]
    <3>1. part[s][b[s - 1]] \in 0..b[s - 1] /\ b[s] = b[s - 1] - part[s][b[s - 1]]
      BY <1>1 DEF RunsDown
    <3>. QED
      BY <3>1
  <2>. QED
    BY <1>2, <2>1, LineIs
<1>7. RepaidBy(lines) = principal - b[n]
  <2>1. PICK f : f = [s \in 1..n |-> lines[s].principal]
    OBVIOUS
  <2>2. RepaidBy(lines) = Prefix(f, n)
    <3>1. [s \in 1..n |-> f[s]] = f
      BY <2>1
    <3>. QED
      BY <1>2, <2>1, <3>1 DEF RepaidBy, Prefix
  <2>3. /\ Prefix(f, 0) = 0 /\ \A m \in 0..n : Prefix(f, m) \in Nat
        /\ \A m \in 1..n : Prefix(f, m) = Prefix(f, m - 1) + f[m]
    <3>1. \A s \in 1..n : f[s] \in Nat
      BY <1>6, <2>1
    <3>. QED
      BY <3>1, PrefixIs
  <2>. DEFINE bad == {m \in 0..n : Prefix(f, m) # principal - b[m]}
  <2>4. ASSUME bad # {} PROVE FALSE
    <3>1. bad \in SUBSET Nat
      OBVIOUS
    <3>2. PICK m \in bad : \A i \in bad : m <= i
      BY <2>4, <3>1, LeastNumber
    <3>3. m # 0
      BY <1>1, <2>3, <3>2 DEF RunsDown
    <3>4. m \in 1..n /\ m - 1 \in 0..n /\ ~ m <= m - 1
      BY <3>2, <3>3
    <3>5. Prefix(f, m - 1) = principal - b[m - 1]
      BY <3>2, <3>4
    <3>6. PICK x, y : x = b[m - 1] /\ y = f[m]
      OBVIOUS
    <3>7. x \in Nat /\ y \in Nat /\ b[m] = x - y /\ Prefix(f, m) = (principal - x) + y
      BY <1>4, <1>6, <2>1, <2>3, <3>4, <3>5, <3>6
    <3>. QED
      BY <3>2, <3>7
  <2>5. n \in 0..n
    OBVIOUS
  <2>. QED
    BY <2>2, <2>4, <2>5
<1>8. Descends(lines)
  <2>1. ASSUME NEW s \in 1..n PROVE lines[s].principal >= 0
    BY <1>6
  <2>2. ASSUME NEW s \in 1..n, NEW u \in 1..n, s < u PROVE lines[s].interest >= lines[u].interest
    <3>1. PICK j, k : j = s - 1 /\ k = u - 1
      OBVIOUS
    <3>2. j \in 0..n /\ k \in 0..n /\ j <= k
      BY <2>2, <3>1
    <3>3. b[k] <= b[j] /\ b[k] \in Nat /\ b[j] \in Nat
      BY <1>1, <1>4, <3>2, BalancesFall
    <3>4. /\ Interest(b[k], rate) \in Nat /\ Interest(b[j], rate) \in Nat
          /\ Interest(b[k], rate) <= Interest(b[j], rate)
      BY <3>3, InterestIs
    <3>. QED
      BY <1>6, <3>1, <3>4
  <2>. QED
    BY <1>2, <2>1, <2>2 DEF Descends
<1>9. InterestOf(lines) = Prefix([s \in 1..n |-> Interest(b[s - 1], rate)], n)
  <2>1. [s \in 1..n |-> lines[s].interest] = [s \in 1..n |-> Interest(b[s - 1], rate)]
    BY <1>6
  <2>2. PICK f : f = [s \in 1..n |-> Interest(b[s - 1], rate)]
    OBVIOUS
  <2>3. [s \in 1..n |-> f[s]] = f
    BY <2>2
  <2>. QED
    BY <1>2, <2>1, <2>2, <2>3 DEF InterestOf, Prefix
<1>. QED
  BY <1>5, <1>7, <1>8, <1>9 DEF Repays

-----------------------------------------------------------------------------
(* The engine: a number of lines, and a fixed installment *)

CountPart(p, rate, n) ==
  [k \in 1..n |-> [x \in 0..p |-> Share(k, n, x, Annuity(p, rate, n) - Interest(x, rate))]]

(* What an installment repays of balance x.                                *)
Repayment(x, rate, installment) ==
  minOf(x, IF installment > Interest(x, rate) THEN installment - Interest(x, rate) ELSE 0)

FixedPart(p, rate, installment) ==
  [k \in 1..MaxPeriods |-> [x \in 0..p |-> Repayment(x, rate, installment)]]

LEMMA RepaymentIs ==
  ASSUME NEW x \in Nat, NEW y \in Nat, x <= y, NEW rate \in Nat, NEW installment \in Nat
  PROVE  /\ Repayment(x, rate, installment) \in 0..x /\ Repayment(y, rate, installment) \in 0..y
         /\ x - Repayment(x, rate, installment) <= y - Repayment(y, rate, installment)
<1>1. PICK i, j : i = Interest(x, rate) /\ j = Interest(y, rate)
  OBVIOUS
<1>2. i \in Nat /\ j \in Nat /\ i <= j
  BY <1>1, InterestIs
<1>3. PICK u, v : /\ u = IF installment > i THEN installment - i ELSE 0
                  /\ v = IF installment > j THEN installment - j ELSE 0
  OBVIOUS
<1>4. u \in Nat /\ v \in Nat /\ v <= u
  BY <1>2, <1>3
<1>5. /\ Repayment(x, rate, installment) = IF x < u THEN x ELSE u
      /\ Repayment(y, rate, installment) = IF y < v THEN y ELSE v
  BY <1>1, <1>3 DEF Repayment, minOf
<1>. QED
  BY <1>4, <1>5

(* As long as the installment covers the interest, a schedule of n lines   *)
(* takes from a balance what the installment takes, but for the last line. *)
LEMMA CountPartIs ==
  ASSUME NEW p \in Nat, NEW rate \in Nat, NEW n \in Nat \ {0}, NEW k \in 1..n, NEW x \in 0..p
  PROVE  /\ CountPart(p, rate, n)[k][x] \in 0..x
         /\ k = n => CountPart(p, rate, n)[k][x] = x
         /\ k # n => CountPart(p, rate, n)[k][x] = Repayment(x, rate, Annuity(p, rate, n))
<1>1. PICK a, i : a = Annuity(p, rate, n) /\ i = Interest(x, rate)
  OBVIOUS
<1>2. a \in Nat /\ i \in Nat /\ i <= a
  <2>1. a \in Nat /\ Interest(p, rate) <= a
    BY <1>1, AnnuityCovers
  <2>2. i \in Nat /\ Interest(p, rate) \in Nat /\ i <= Interest(p, rate)
    BY <1>1, InterestIs
  <2>. QED
    BY <2>1, <2>2
<1>3. CountPart(p, rate, n)[k][x] = IF k = n \/ a - i > x THEN x ELSE a - i
  BY <1>1 DEF CountPart, Share
<1>4. Repayment(x, rate, a) = IF a > i THEN (IF x < a - i THEN x ELSE a - i) ELSE (IF x < 0 THEN x ELSE 0)
  BY <1>1 DEF Repayment, minOf
<1>. QED
  BY <1>1, <1>2, <1>3, <1>4

(* RG-D1, RG-D2: a number of lines repays the principal.                   *)
LEMMA CountRepays ==
  ASSUME NEW p \in Nat, NEW rate \in Nat, NEW n \in Nat \ {0}
  PROVE  /\ PartsFit(p, n, CountPart(p, rate, n))
         /\ ForCount(p, rate, n, 1) = Schedule(p, rate, n, 1, CountPart(p, rate, n))
         /\ RepaidBy(ForCount(p, rate, n, 1)) = p /\ Descends(ForCount(p, rate, n, 1))
<1>1. PICK part : part = CountPart(p, rate, n)
  OBVIOUS
<1>2. PartsFit(p, n, part)
  BY <1>1, CountPartIs DEF PartsFit
<1>3. ForCount(p, rate, n, 1) = Schedule(p, rate, n, 1, part)
  BY <1>1 DEF ForCount, CountPart
<1>4. PICK b : b = Balances(p, n, part)
  OBVIOUS
<1>5. b[n] = 0
  <2>1. RunsDown(p, n, part, b)
    BY <1>2, <1>4, BalancesRunDown
  <2>2. n \in 1..n /\ n - 1 \in 0..n
    OBVIOUS
  <2>3. b[n - 1] \in 0..p /\ b[n] = b[n - 1] - part[n][b[n - 1]]
    BY <2>1, <2>2 DEF RunsDown
  <2>4. part[n][b[n - 1]] = b[n - 1]
    BY <1>1, <2>2, <2>3, CountPartIs
  <2>. QED
    BY <2>3, <2>4
<1>6. RepaidBy(ForCount(p, rate, n, 1)) = p - b[n] /\ Descends(ForCount(p, rate, n, 1))
  <2>1. PICK lines : lines = Schedule(p, rate, n, 1, part)
    OBVIOUS
  <2>2. Repays(p, rate, n, b, lines)
    BY <1>2, <1>4, <2>1, ScheduleRepays
  <2>. QED
    BY <1>3, <2>1, <2>2 DEF Repays
<1>. QED
  BY <1>1, <1>2, <1>3, <1>5, <1>6

(* Balances that are taken the same parts from are the same.               *)
LEMMA SameBalances ==
  ASSUME NEW p \in Nat, NEW n \in Nat, NEW m \in Nat, NEW q, NEW r, NEW b, NEW c,
         RunsDown(p, n, q, b), RunsDown(p, m, r, c), NEW j \in Nat, j <= n, j <= m,
         \A k \in 1..j : \A x \in 0..p : q[k][x] = r[k][x]
  PROVE  \A k \in 0..j : b[k] = c[k]
<1>. DEFINE bad == {k \in 0..j : b[k] # c[k]}
<1>1. ASSUME bad # {} PROVE FALSE
  <2>1. bad \in SUBSET Nat
    OBVIOUS
  <2>2. PICK k \in bad : \A i \in bad : k <= i
    BY <1>1, <2>1, LeastNumber
  <2>3. k # 0
    BY <2>2 DEF RunsDown
  <2>4. k \in 1..j /\ k \in 1..n /\ k \in 1..m /\ k - 1 \in 0..j /\ k - 1 \in 0..n /\ ~ k <= k - 1
    BY <2>2, <2>3
  <2>5. b[k - 1] = c[k - 1] /\ b[k - 1] \in 0..p
    BY <2>2, <2>4 DEF RunsDown
  <2>6. b[k] = b[k - 1] - q[k][b[k - 1]] /\ c[k] = c[k - 1] - r[k][c[k - 1]]
    BY <2>4 DEF RunsDown
  <2>7. q[k][b[k - 1]] = r[k][b[k - 1]]
    BY <2>4, <2>5
  <2>. QED
    BY <2>2, <2>5, <2>6, <2>7
<1>. QED
  BY <1>1

(* The first line that leaves nothing, or the cap.                         *)
Stops(b, n) == /\ b[n] = 0 \/ n = MaxPeriods
               /\ \A k \in 1..n - 1 : b[k] > 0

LEMMA SomeLineStops ==
  ASSUME NEW b, \A k \in 0..MaxPeriods : b[k] \in Nat
  PROVE  \E n \in 1..MaxPeriods : Stops(b, n)
<1>. DEFINE zeros == {k \in 1..MaxPeriods : b[k] = 0}
<1>1. MaxPeriods \in 1..MaxPeriods /\ MaxPeriods \in Nat
  BY EngineConstants
<1>2. CASE zeros = {}
  <2>1. \A k \in 1..MaxPeriods - 1 : k \in 1..MaxPeriods /\ k \in 0..MaxPeriods
    BY <1>1
  <2>2. Stops(b, MaxPeriods)
    BY <1>2, <2>1 DEF Stops
  <2>. QED
    BY <1>1, <2>2
<1>3. CASE zeros # {}
  <2>1. zeros \in SUBSET Nat
    BY <1>1
  <2>2. PICK n \in zeros : \A k \in zeros : n <= k
    BY <1>3, <2>1, LeastNumber
  <2>3. ASSUME NEW k \in 1..n - 1 PROVE b[k] > 0
    <3>1. k \in 1..MaxPeriods /\ k \in 0..MaxPeriods /\ ~ n <= k
      BY <1>1, <2>2
    <3>. QED
      BY <2>2, <3>1
  <2>. QED
    BY <2>2, <2>3 DEF Stops
<1>. QED
  BY <1>2, <1>3

(* The lines of a fixed installment, the balances b they run through and   *)
(* their number n.                                                         *)
FixedRun(p, rate, installment, b, n, lines) ==
  /\ n \in 1..MaxPeriods /\ Stops(b, n)
  /\ RunsDown(p, MaxPeriods, FixedPart(p, rate, installment), b)
  /\ DOMAIN lines = 1..n
  /\ \A s \in 1..n : lines[s] = Line(Repayment(b[s - 1], rate, installment), Interest(b[s - 1], rate))
  /\ Repays(p, rate, n, b, lines)

LEMMA FixedIs ==
  ASSUME NEW p \in Nat, NEW rate \in Nat, NEW installment \in Nat
  PROVE  \E b, n : FixedRun(p, rate, installment, b, n, FixedInstallment(p, rate, installment, 1))
<1>1. PICK part, b : part = FixedPart(p, rate, installment) /\ b = Balances(p, MaxPeriods, part)
  OBVIOUS
<1>2. MaxPeriods \in Nat
  BY EngineConstants
<1>3. ASSUME NEW k \in 1..MaxPeriods, NEW x \in 0..p
      PROVE  part[k][x] = Repayment(x, rate, installment) /\ part[k][x] \in 0..x
  <2>1. part[k][x] = Repayment(x, rate, installment)
    BY <1>1 DEF FixedPart
  <2>2. x \in Nat /\ x <= x
    OBVIOUS
  <2>3. Repayment(x, rate, installment) \in 0..x
    BY <2>2, RepaymentIs
  <2>. QED
    BY <2>1, <2>3
<1>4. RunsDown(p, MaxPeriods, part, b)
  <2>1. PartsFit(p, MaxPeriods, part)
    BY <1>3 DEF PartsFit
  <2>. QED
    BY <1>1, <1>2, <2>1, BalancesRunDown
<1>5. PICK n : n = CHOOSE i \in 1..MaxPeriods : Stops(b, i)
  OBVIOUS
<1>6. n \in 1..MaxPeriods /\ Stops(b, n)
  <2>1. \A k \in 0..MaxPeriods : b[k] \in Nat
    BY <1>4 DEF RunsDown
  <2>2. \E m \in 1..MaxPeriods : Stops(b, m)
    BY <2>1, SomeLineStops
  <2>. QED
    BY <1>5, <2>2
<1>7. PICK lines : lines = Schedule(p, rate, n, 1, part)
  OBVIOUS
<1>8. FixedInstallment(p, rate, installment, 1) = lines
  BY <1>1, <1>5, <1>7 DEF FixedInstallment, FixedPart, Repayment, Stops
<1>9. PICK c : c = Balances(p, n, part)
  OBVIOUS
<1>10. n \in Nat /\ n <= MaxPeriods /\ PartsFit(p, n, part)
  <2>1. n \in Nat /\ n <= MaxPeriods /\ \A k \in 1..n : k \in 1..MaxPeriods
    BY <1>2, <1>6
  <2>. QED
    BY <1>3, <2>1 DEF PartsFit
<1>11. \A k \in 0..n : c[k] = b[k]
  <2>1. RunsDown(p, n, part, c)
    BY <1>9, <1>10, BalancesRunDown
  <2>. QED
    BY <1>2, <1>4, <1>10, <2>1, SameBalances
<1>12. \A s \in 1..n : s - 1 \in 0..n /\ s \in 1..MaxPeriods /\ s - 1 \in 0..MaxPeriods
  BY <1>2, <1>10
<1>13. Repays(p, rate, n, b, lines)
  <2>1. Repays(p, rate, n, c, lines)
    BY <1>7, <1>9, <1>10, ScheduleRepays
  <2>2. [s \in 1..n |-> Interest(c[s - 1], rate)] = [s \in 1..n |-> Interest(b[s - 1], rate)]
    BY <1>11, <1>12
  <2>3. c[n] = b[n] /\ \A s \in 1..n : c[s - 1] = b[s - 1]
    BY <1>10, <1>11, <1>12
  <2>. QED
    BY <2>1, <2>2, <2>3 DEF Repays
<1>14. DOMAIN lines = 1..n
       /\ \A s \in 1..n : lines[s] = Line(Repayment(b[s - 1], rate, installment), Interest(b[s - 1], rate))
  <2>1. /\ DOMAIN lines = 1..n
        /\ \A s \in 1..n : lines[s] = Line(part[s][c[s - 1]], Interest(c[s - 1], rate))
    BY <1>7, <1>9, <1>10, ScheduleIs DEF LinesAre
  <2>2. ASSUME NEW s \in 1..n
        PROVE  c[s - 1] = b[s - 1] /\ part[s][b[s - 1]] = Repayment(b[s - 1], rate, installment)
    <3>1. b[s - 1] \in 0..p
      BY <1>4, <1>12 DEF RunsDown
    <3>. QED
      BY <1>3, <1>11, <1>12, <3>1
  <2>. QED
    BY <2>1, <2>2
<1>15. FixedRun(p, rate, installment, b, n, lines)
  BY <1>1, <1>4, <1>6, <1>13, <1>14 DEF FixedRun
<1>. QED
  BY <1>8, <1>15

(* A fixed installment repays all, or as much as the cap allows.           *)
LEMMA FixedRepays ==
  ASSUME NEW p \in Nat, NEW rate \in Nat, NEW installment \in Nat,
         NEW lines, lines = FixedInstallment(p, rate, installment, 1)
  PROVE  Descends(lines) /\ (RepaidBy(lines) = p \/ (RepaidBy(lines) < p /\ DOMAIN lines = 1..MaxPeriods))
<1>1. PICK b, n : FixedRun(p, rate, installment, b, n, lines)
  BY FixedIs
<1>2. /\ n \in 1..MaxPeriods /\ Stops(b, n) /\ DOMAIN lines = 1..n
      /\ RepaidBy(lines) = p - b[n] /\ Descends(lines)
  BY <1>1 DEF FixedRun, Repays
<1>3. b[n] \in 0..p
  <2>1. n \in 0..MaxPeriods
    BY <1>2, EngineConstants
  <2>. QED
    BY <1>1, <2>1 DEF FixedRun, RunsDown
<1>4. b[n] = 0 \/ n = MaxPeriods
  BY <1>2 DEF Stops
<1>. QED
  BY <1>2, <1>3, <1>4

(* The installment of a schedule gives the same lines but the last.        *)
LEMMA FixedKeeps ==
  ASSUME NEW p \in Nat, NEW rate \in Nat, NEW n \in 1..MaxPeriods, Annuity(p, rate, n) > 0,
         NEW kept, kept = FixedInstallment(p, rate, Annuity(p, rate, n), 1), NEW s \in DOMAIN kept, s < n
  PROVE  kept[s] = ForCount(p, rate, n, 1)[s]
<1>1. PICK a : a = Annuity(p, rate, n)
  OBVIOUS
<1>2. MaxPeriods \in Nat /\ n \in Nat \ {0} /\ n <= MaxPeriods /\ n - 1 \in Nat /\ n - 1 <= n
      /\ n - 1 <= MaxPeriods
  BY EngineConstants
<1>3. a \in Nat
  BY <1>1, <1>2, AnnuityCovers
<1>4. PICK b, m : FixedRun(p, rate, a, b, m, kept)
  BY <1>1, <1>3, FixedIs
<1>5. PICK part, c : part = CountPart(p, rate, n) /\ c = Balances(p, n, part)
  OBVIOUS
<1>6. PartsFit(p, n, part) /\ ForCount(p, rate, n, 1) = Schedule(p, rate, n, 1, part)
  BY <1>2, <1>5, CountRepays
<1>7. RunsDown(p, n, part, c)
  BY <1>2, <1>5, <1>6, BalancesRunDown
<1>8. ASSUME NEW k \in 1..n - 1, NEW x \in 0..p
      PROVE  FixedPart(p, rate, a)[k][x] = Repayment(x, rate, a) /\ part[k][x] = Repayment(x, rate, a)
  <2>1. k \in 1..MaxPeriods /\ k \in 1..n /\ k # n
    BY <1>2
  <2>2. part[k][x] = Repayment(x, rate, a)
    BY <1>1, <1>2, <1>5, <2>1, CountPartIs
  <2>. QED
    BY <2>1, <2>2 DEF FixedPart
<1>9. \A k \in 0..n - 1 : b[k] = c[k]
  <2>1. PICK q, j : q = FixedPart(p, rate, a) /\ j = n - 1
    OBVIOUS
  <2>2. RunsDown(p, MaxPeriods, q, b)
    BY <1>4, <2>1 DEF FixedRun
  <2>3. \A k \in 1..j : \A x \in 0..p : q[k][x] = part[k][x]
    BY <1>8, <2>1
  <2>4. j \in Nat /\ j <= MaxPeriods /\ j <= n /\ MaxPeriods \in Nat /\ n \in Nat
    BY <1>2, <2>1
  <2>5. \A k \in 0..j : b[k] = c[k]
    BY ONLY p \in Nat, <1>7, <2>2, <2>3, <2>4, SameBalances
  <2>. QED
    BY <2>1, <2>5
<1>10. s \in 1..m /\ kept[s] = Line(Repayment(b[s - 1], rate, a), Interest(b[s - 1], rate)) /\ m \in Nat
  BY <1>2, <1>4 DEF FixedRun
<1>11. s \in 1..n - 1 /\ s \in 1..n /\ s - 1 \in 0..n - 1 /\ s - 1 \in 0..n
  BY <1>2, <1>10
<1>12. c[s - 1] \in 0..p /\ b[s - 1] = c[s - 1]
  BY <1>7, <1>9, <1>11 DEF RunsDown
<1>13. ForCount(p, rate, n, 1)[s] = Line(part[s][c[s - 1]], Interest(c[s - 1], rate))
  BY <1>2, <1>5, <1>6, <1>11, ScheduleIs DEF LinesAre
<1>. QED
  BY <1>8, <1>10, <1>11, <1>12, <1>13

(* Less that is left takes no more lines, and no more interest.            *)
LEMMA LessIsLess ==
  ASSUME NEW p \in Nat, NEW q \in Nat, p <= q, NEW rate \in Nat, NEW installment \in Nat,
         NEW small, small = FixedInstallment(p, rate, installment, 1),
         NEW large, large = FixedInstallment(q, rate, installment, 1)
  PROVE  /\ Cardinality(DOMAIN small) \in Nat /\ Cardinality(DOMAIN large) \in Nat
         /\ InterestOf(small) \in Nat /\ InterestOf(large) \in Nat
         /\ Cardinality(DOMAIN small) <= Cardinality(DOMAIN large) /\ InterestOf(small) <= InterestOf(large)
<1>1. PICK b, n : FixedRun(p, rate, installment, b, n, small)
  BY FixedIs
<1>2. PICK c, m : FixedRun(q, rate, installment, c, m, large)
  BY FixedIs
<1>3. MaxPeriods \in Nat /\ n \in 1..MaxPeriods /\ m \in 1..MaxPeriods /\ n \in Nat /\ m \in Nat
  BY <1>1, <1>2, EngineConstants DEF FixedRun
<1>4. /\ b[0] = p /\ c[0] = q /\ \A k \in 0..MaxPeriods : b[k] \in Nat /\ c[k] \in Nat
      /\ \A k \in 1..MaxPeriods : /\ b[k] = b[k - 1] - Repayment(b[k - 1], rate, installment)
                                  /\ c[k] = c[k - 1] - Repayment(c[k - 1], rate, installment)
  <2>1. /\ RunsDown(p, MaxPeriods, FixedPart(p, rate, installment), b)
        /\ RunsDown(q, MaxPeriods, FixedPart(q, rate, installment), c)
    BY <1>1, <1>2 DEF FixedRun
  <2>2. ASSUME NEW k \in 1..MaxPeriods
        PROVE  /\ b[k] = b[k - 1] - Repayment(b[k - 1], rate, installment)
               /\ c[k] = c[k - 1] - Repayment(c[k - 1], rate, installment)
    <3>1. k - 1 \in 0..MaxPeriods
      BY <1>3
    <3>2. b[k - 1] \in 0..p /\ c[k - 1] \in 0..q
      BY <2>1, <3>1 DEF RunsDown
    <3>3. /\ FixedPart(p, rate, installment)[k][b[k - 1]] = Repayment(b[k - 1], rate, installment)
          /\ FixedPart(q, rate, installment)[k][c[k - 1]] = Repayment(c[k - 1], rate, installment)
      BY <3>2 DEF FixedPart
    <3>. QED
      BY <2>1, <3>3 DEF RunsDown
  <2>. QED
    BY <2>1, <2>2 DEF RunsDown
<1>5. \A k \in 0..MaxPeriods : b[k] <= c[k]
  <2>. DEFINE bad == {k \in 0..MaxPeriods : ~ b[k] <= c[k]}
  <2>1. ASSUME bad # {} PROVE FALSE
    <3>1. bad \in SUBSET Nat
      OBVIOUS
    <3>2. PICK k \in bad : \A i \in bad : k <= i
      BY <2>1, <3>1, LeastNumber
    <3>3. k # 0
      BY <1>4, <3>2
    <3>4. k \in 1..MaxPeriods /\ k - 1 \in 0..MaxPeriods /\ ~ k <= k - 1
      BY <1>3, <3>2, <3>3
    <3>5. PICK x, y : x = b[k - 1] /\ y = c[k - 1]
      OBVIOUS
    <3>6. x \in Nat /\ y \in Nat /\ x <= y
      BY <1>4, <3>2, <3>4, <3>5
    <3>7. x - Repayment(x, rate, installment) <= y - Repayment(y, rate, installment)
      BY <3>6, RepaymentIs
    <3>. QED
      BY <1>4, <3>2, <3>4, <3>5, <3>7
  <2>. QED
    BY <2>1
<1>6. n <= m
  <2>1. SUFFICES ASSUME m < n PROVE FALSE
    BY <1>3
  <2>2. m \in 1..n - 1 /\ m # MaxPeriods /\ m \in 0..MaxPeriods
    BY <1>3, <2>1
  <2>3. c[m] = 0 /\ b[m] > 0
    BY <1>1, <1>2, <2>2 DEF FixedRun, Stops
  <2>. QED
    BY <1>4, <1>5, <2>2, <2>3
<1>7. DOMAIN small = 1..n /\ DOMAIN large = 1..m
  BY <1>1, <1>2 DEF FixedRun
<1>8. Cardinality(DOMAIN small) = n /\ Cardinality(DOMAIN large) = m
  <2>1. Cardinality(1..n) = n /\ Cardinality(1..m) = m
    <3>1. \A i \in Nat \ {0} : Cardinality(1..i) = i
      BY FS_Interval
    <3>. QED
      BY <1>3, <3>1
  <2>. QED
    BY <1>7, <2>1
<1>9. PICK f, g : /\ f = [s \in 1..n |-> Interest(b[s - 1], rate)]
                  /\ g = [s \in 1..m |-> Interest(c[s - 1], rate)]
  OBVIOUS
<1>10. InterestOf(small) = Prefix(f, n) /\ InterestOf(large) = Prefix(g, m)
  BY <1>1, <1>2, <1>9 DEF FixedRun, Repays
<1>11. \A s \in 1..m : g[s] \in Nat
  BY <1>2, <1>9 DEF FixedRun, Repays
<1>12. ASSUME NEW s \in 1..n PROVE f[s] \in Nat /\ f[s] <= g[s]
  <2>1. s \in 1..m /\ s - 1 \in 0..MaxPeriods
    BY <1>3, <1>6
  <2>2. PICK x, y : x = b[s - 1] /\ y = c[s - 1]
    OBVIOUS
  <2>3. x \in Nat /\ y \in Nat /\ x <= y
    BY <1>4, <1>5, <2>1, <2>2
  <2>4. Interest(x, rate) \in Nat /\ Interest(x, rate) <= Interest(y, rate)
    BY <2>3, InterestIs
  <2>. QED
    BY <1>9, <2>1, <2>2, <2>4
<1>13. Prefix(f, n) <= Prefix(g, m)
  <2>1. n \in 0..m
    BY <1>3, <1>6
  <2>. QED
    BY <1>3, <1>11, <1>12, <2>1, PrefixGrows
<1>14. Prefix(f, n) \in Nat /\ Prefix(g, m) \in Nat
  <2>1. n \in 0..n /\ m \in 0..m
    BY <1>3
  <2>2. \A k \in 0..n : Prefix(f, k) \in Nat
    BY <1>3, <1>12, PrefixIs
  <2>3. \A k \in 0..m : Prefix(g, k) \in Nat
    BY <1>3, <1>11, PrefixIs
  <2>. QED
    BY <2>1, <2>2, <2>3
<1>. QED
  BY <1>3, <1>6, <1>8, <1>10, <1>13, <1>14


(* The installment is never nothing, and a debt that is left is not paid   *)
(* off.                                                                    *)
LEMMA AtLeastOneIs ==
  ASSUME NEW n \in Nat PROVE AtLeastOne(n) \in Nat \ {0} /\ (n > 0 => AtLeastOne(n) = n)
  BY DEF AtLeastOne

LEMMA CountInterest ==
  ASSUME NEW p \in Nat, NEW rate \in Nat, NEW n \in Nat \ {0}
  PROVE  InterestOf(ForCount(p, rate, n, 1)) \in Nat
<1>1. PICK part, b, lines : /\ part = CountPart(p, rate, n) /\ b = Balances(p, n, part)
                            /\ lines = ForCount(p, rate, n, 1)
  OBVIOUS
<1>2. Repays(p, rate, n, b, lines)
  <2>1. PartsFit(p, n, part) /\ lines = Schedule(p, rate, n, 1, part)
    BY <1>1, CountRepays
  <2>. QED
    BY <1>1, <2>1, ScheduleRepays
<1>3. PICK f : f = [s \in 1..n |-> Interest(b[s - 1], rate)]
  OBVIOUS
<1>4. InterestOf(lines) = Prefix(f, n) /\ \A s \in 1..n : f[s] \in Nat
  BY <1>2, <1>3 DEF Repays
<1>5. \A k \in 0..n : Prefix(f, k) \in Nat
  BY <1>4, PrefixIs
<1>. QED
  BY <1>1, <1>4, <1>5

(* Paying more shortens the payoff.                                        *)
LEMMA PayoffHolds ==
  ASSUME NEW p \in Nat \ {0}, NEW r \in Nat
  PROVE  PayoffShortens(p, r)
<1>. SUFFICES ASSUME NEW n \in 1..MaxPeriods, NEW scheduled, NEW installment, NEW kept,
                     scheduled = ForCount(p, r, n, 1), installment = AtLeastOne(Annuity(p, r, n)),
                     kept = FixedInstallment(p, r, installment, 1)
     PROVE  /\ Annuity(p, r, n) > 0 => \A s \in DOMAIN kept : s < n => kept[s] = scheduled[s]
            /\ simulatePayoff(p, p, r, installment, scheduled) = [count |-> 0, saved |-> InterestOf(scheduled)]
            /\ \A extra \in 1..p :
                 /\ simulatePayoff(p, extra, r, installment, scheduled).count
                      <= simulatePayoff(p, extra - 1, r, installment, scheduled).count
                 /\ simulatePayoff(p, extra, r, installment, scheduled).saved
                      >= simulatePayoff(p, extra - 1, r, installment, scheduled).saved
  BY DEF PayoffShortens
<1>1. n \in Nat \ {0}
  BY EngineConstants
<1>2. Annuity(p, r, n) \in Nat
  BY <1>1, AnnuityCovers
<1>3. /\ installment \in Nat /\ installment # 0
      /\ Annuity(p, r, n) > 0 => installment = Annuity(p, r, n)
  BY <1>2, AtLeastOneIs
<1>4. PICK interest : interest = InterestOf(scheduled) /\ interest \in Nat
  BY <1>1, CountInterest
<1>5. ASSUME Annuity(p, r, n) > 0, NEW s \in DOMAIN kept, s < n PROVE kept[s] = scheduled[s]
  BY <1>3, <1>5, FixedKeeps
<1>6. ASSUME NEW extra \in Nat, NEW left \in Nat, left = p - extra,
             NEW lines, lines = FixedInstallment(left, r, installment, 1)
      PROVE  simulatePayoff(p, extra, r, installment, scheduled) =
               IF left = 0 THEN [count |-> 0, saved |-> interest]
               ELSE [count |-> Cardinality(DOMAIN lines), saved |-> interest - InterestOf(lines)]
  <2>1. left <= 0 <=> left = 0
    BY <1>6
  <2>. QED
    BY <1>3, <1>4, <1>6, <2>1 DEF simulatePayoff
<1>7. simulatePayoff(p, p, r, installment, scheduled) = [count |-> 0, saved |-> InterestOf(scheduled)]
  <2>1. p \in Nat /\ 0 \in Nat /\ 0 = p - p
    OBVIOUS
  <2>. QED
    BY <1>4, <1>6, <2>1
<1>8. ASSUME NEW extra \in 1..p
      PROVE  /\ simulatePayoff(p, extra, r, installment, scheduled).count
                  <= simulatePayoff(p, extra - 1, r, installment, scheduled).count
             /\ simulatePayoff(p, extra, r, installment, scheduled).saved
                  >= simulatePayoff(p, extra - 1, r, installment, scheduled).saved
  <2>1. PICK x, y, e : x = p - extra /\ y = p - (extra - 1) /\ e = extra - 1
    OBVIOUS
  <2>2. x \in Nat /\ y \in Nat /\ x <= y /\ y # 0 /\ e \in Nat /\ y = p - e /\ extra \in Nat
    BY <2>1
  <2>3. PICK small, large : /\ small = FixedInstallment(x, r, installment, 1)
                            /\ large = FixedInstallment(y, r, installment, 1)
    OBVIOUS
  <2>4. PICK cs, cl, is, il : /\ cs = Cardinality(DOMAIN small) /\ cl = Cardinality(DOMAIN large)
                              /\ is = InterestOf(small) /\ il = InterestOf(large)
    OBVIOUS
  <2>5. cs \in Nat /\ cl \in Nat /\ is \in Nat /\ il \in Nat /\ cs <= cl /\ is <= il
    BY <1>3, <2>2, <2>3, <2>4, LessIsLess
  <2>6. simulatePayoff(p, extra, r, installment, scheduled) =
          IF x = 0 THEN [count |-> 0, saved |-> interest] ELSE [count |-> cs, saved |-> interest - is]
    BY <1>6, <2>1, <2>2, <2>3, <2>4
  <2>7. simulatePayoff(p, e, r, installment, scheduled) = [count |-> cl, saved |-> interest - il]
    BY <1>6, <2>2, <2>3, <2>4
  <2>8. /\ simulatePayoff(p, extra, r, installment, scheduled).count <= cl
        /\ simulatePayoff(p, extra, r, installment, scheduled).saved >= interest - il
    <3>1. CASE x = 0
      BY <1>4, <2>5, <2>6, <3>1
    <3>2. CASE x # 0
      BY <1>4, <2>5, <2>6, <3>2
    <3>. QED
      BY <3>1, <3>2
  <2>. QED
    BY <2>1, <2>7, <2>8
<1>. QED
  BY <1>5, <1>7, <1>8

LEMMA EngineFollows == EngineRepays
<1>. SUFFICES ASSUME NEW p \in Principals, NEW r \in Rates
     PROVE  /\ PayoffShortens(p, r)
            /\ \A n \in 1..MaxPeriods :
                 RepaidBy(ForCount(p, r, n, 1)) = p /\ Descends(ForCount(p, r, n, 1))
            /\ \A installment \in 0..p + Interest(p, r) :
                 LET lines == FixedInstallment(p, r, installment, 1) IN
                 /\ Descends(lines)
                 /\ RepaidBy(lines) = p \/ (RepaidBy(lines) < p /\ DOMAIN lines = 1..MaxPeriods)
  BY DEF EngineRepays
<1>1. p \in Nat \ {0} /\ r \in Nat
  BY EngineAssumption
<1>2. PayoffShortens(p, r)
  BY <1>1, PayoffHolds
<1>3. ASSUME NEW n \in 1..MaxPeriods
      PROVE  RepaidBy(ForCount(p, r, n, 1)) = p /\ Descends(ForCount(p, r, n, 1))
  <2>1. n \in Nat \ {0} /\ p \in Nat
    BY <1>1, EngineConstants
  <2>. QED
    BY <1>1, <2>1, CountRepays
<1>4. ASSUME NEW installment \in 0..p + Interest(p, r), NEW lines, lines = FixedInstallment(p, r, installment, 1)
      PROVE  Descends(lines) /\ (RepaidBy(lines) = p \/ (RepaidBy(lines) < p /\ DOMAIN lines = 1..MaxPeriods))
  <2>1. p \in Nat /\ installment \in Nat
    BY <1>1
  <2>. QED
    BY <1>1, <1>4, <2>1, FixedRepays
<1>. QED
  BY <1>2, <1>3, <1>4

(* The engine repays: whatever the rounding of bankersRoundToBigInt(), n   *)
(* lines repay the principal exactly and none asks for more interest than  *)
(* one before (RG-D1, RG-D2); a fixed installment repays less only at the  *)
(* cap; and simulatePayoff() never shows a larger extra payment to leave   *)
(* more lines or to save less (RG-D4) - for every amount, rate and cap.    *)
THEOREM EngineHolds == Spec => []EngineRepays
  BY EngineFollows, PTL

=============================================================================
