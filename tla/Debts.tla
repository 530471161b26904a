------------------------------- MODULE Debts -------------------------------
(***************************************************************************)
(* One debt of the module `debts`: its schedule and its payments, one      *)
(* request after the other.  No handler here runs in a SQL transaction:    *)
(* when the booking of a transaction, or the regeneration of the schedule, *)
(* is refused halfway, what the handler wrote before stays.                *)
(*                                                                         *)
(* The transactions on the linked account are the module Ledger's.  What   *)
(* the debt sees of them is the outcome of a booking: an update may set or *)
(* clear the linked account at any time, so a booking is skipped (no       *)
(* account), done, or refused, whatever came before.                       *)
(*                                                                         *)
(* Amounts are small integers; the amortization engine may produce any     *)
(* list of lines whose principal adds up to the balance (RG-D1), and when  *)
(* a fixed installment is too small, a list cut before the balance is      *)
(* repaid: see Amortization.  Fees of an installment are always 0.         *)
(***************************************************************************)
EXTENDS Integers, FiniteSets
LOCAL INSTANCE FiniteSetsExt

CONSTANTS
  Payments,     \* payment ids
  MaxSequence,  \* bound: installments of a schedule
  MaxPrincipal, \* bound: principal of the debt
  MaxInterest   \* bound: interest of one installment

ASSUME DebtAssumption ==
  MaxSequence \in Nat /\ MaxPrincipal \in Nat /\ MaxInterest \in Nat

VARIABLES
  debt,    \* the Debt row
  inst,    \* sequence -> DebtInstallment row
  pay,     \* id -> DebtPayment row
  aborted  \* history: a request failed after its first write

vars == <<debt, inst, pay, aborted>>

Sequences == 1..MaxSequence
Extra == 0  \* installmentId of an extra payment

NoDebt == [state |-> "none", mode |-> "AUTO", status |-> "ACTIVE", principal |-> 0,
           outstanding |-> 0]
NoInstallment == [status |-> "none", principal |-> 0, interest |-> 0, paid |-> 0]
NoPayment == [state |-> "none", inst |-> Extra, amount |-> 0, principal |-> 0, interest |-> 0]

Init ==
  /\ debt = NoDebt
  /\ inst = [s \in Sequences |-> NoInstallment]
  /\ pay = [p \in Payments |-> NoPayment]
  /\ aborted = FALSE

-----------------------------------------------------------------------------
(* Queries *)

WithStatus(S) == {s \in Sequences : inst[s].status \in S}

Due == WithStatus({"SCHEDULED", "LATE"})

PaymentsOn(s) == {p \in Payments : pay[p].state = "live" /\ pay[p].inst = s}

LivePayments == {p \in Payments : pay[p].state = "live"}

(* A sum over payments: the number of (payment, minor unit) pairs. *)
UnitsOf(S, n) == UNION {{p} \X (1..n[p]) : p \in S}

SumOver(S, n) == Cardinality(UnitsOf(S, n))

PaidPrincipal(S) == SumOver(S, [p \in S |-> pay[p].principal])
PaidInterest(S) == SumOver(S, [p \in S |-> pay[p].interest])
PaidAmount(S) == SumOver(S, [p \in S |-> pay[p].amount])

total(s) == inst[s].principal + inst[s].interest

Highest(S) == IF S = {} THEN 0 ELSE CHOOSE s \in S : \A u \in S : u <= s

-----------------------------------------------------------------------------
(* Schedules *)

Shares(first, last, balance) ==
  {g \in [first..last -> [p : 0..balance, i : 0..MaxInterest]] :
     MapThenSumSet(LAMBDA s : g[s].p, first..last) = balance}

Lines(first, balance) ==
  UNION {{[s \in first..last |-> [status |-> "SCHEDULED", principal |-> f[s].p,
                                  interest |-> f[s].i, paid |-> 0]] :
            f \in Shares(first, last, balance)} : last \in first..MaxSequence}

(* generateFixedInstallmentSchedule, cut at maxPeriods: a small installment *)
(* repays a part, or nothing when it is not above the interest.             *)
Capped(first, balance) ==
  UNION {{lines \in Lines(first, part) : DOMAIN lines = first..MaxSequence} : part \in 0..balance - 1}

Regenerated(first, balance) ==
  IF balance <= 0 THEN {<<>>} ELSE Lines(first, balance) \union Capped(first, balance)

(* RG-D3: no term, no schedule. *)
AutoLines(balance) == {<<>>} \union (IF balance > 0 THEN Lines(1, balance) ELSE {})

ManualLines(balance) ==
  {lines \in Lines(1, balance) : \A s \in DOMAIN lines : lines[s].interest = 0}

WithLines(lines, rows) == [s \in Sequences |-> IF s \in DOMAIN lines THEN lines[s] ELSE rows[s]]

-----------------------------------------------------------------------------
(* Debts *)

(* The principal is booked after the debt is committed, and may be refused *)
(* (date before the account's opening balance, RG-T3).                     *)
Create(mode, principal, lines, refused) ==
  /\ debt.state = "none"
  /\ debt' = [state |-> "live", mode |-> mode, status |-> "ACTIVE", principal |-> principal,
              outstanding |-> principal]
  /\ inst' = WithLines(lines, inst)
  /\ aborted' = refused
  /\ UNCHANGED pay

(* CANCELLED behaves as DEFAULTED does. *)
Update(status) ==
  /\ debt.state = "live"
  /\ debt' = [debt EXCEPT !.status = status]
  /\ UNCHANGED <<inst, pay, aborted>>

(* The schedule and the payments stay. *)
Remove ==
  /\ debt.state = "live"
  /\ debt' = [debt EXCEPT !.state = "deleted"]
  /\ UNCHANGED <<inst, pay, aborted>>

(* The nightly job; a due date is any date. *)
Sweep(s) ==
  /\ inst[s].status = "SCHEDULED"
  /\ inst' = [inst EXCEPT ![s].status = "LATE"]
  /\ UNCHANGED <<debt, pay, aborted>>

-----------------------------------------------------------------------------
(* Regeneration *)

NextSequence == Highest(WithStatus({"PAID", "PARTIAL"})) + 1

Replaceable == Due

Kept == [s \in Sequences |-> IF s \in Replaceable THEN NoInstallment ELSE inst[s]]

(* UNIQUE (debtId, sequence): a skipped installment may hold the number. *)
Clashes(lines) == \E s \in DOMAIN lines : Kept[s] # NoInstallment

Replaced(lines) == IF Clashes(lines) THEN inst ELSE WithLines(lines, Kept)

RegenerateSchedule ==
  /\ debt.state = "live" /\ debt.mode = "AUTO"
  /\ Replaceable # {}
  /\ \E lines \in Regenerated(NextSequence, debt.outstanding) : inst' = Replaced(lines)
  /\ UNCHANGED <<debt, pay, aborted>>

-----------------------------------------------------------------------------
(* Payments *)

minOf(a, b) == IF a < b THEN a ELSE b

(* RG-D6: interest, then principal *)
split(s, amount) ==
  LET interest == minOf(amount, inst[s].interest - PaidInterest(PaymentsOn(s))) IN
  [interest  |-> interest,
   principal |-> minOf(amount - interest, inst[s].principal - PaidPrincipal(PaymentsOn(s)))]

wholeTotal(s) == total(s)

remainingTotal(s) == total(s) - PaidInterest(PaymentsOn(s)) - PaidPrincipal(PaymentsOn(s))

Settled(row, paid) ==
  [row EXCEPT !.paid = paid,
              !.status = IF paid >= row.principal + row.interest THEN "PAID" ELSE "PARTIAL"]

paidOff(outstanding) == outstanding <= 0

(* RG-D8 *)
Repaid(principal) ==
  LET outstanding == debt.outstanding - principal IN
  IF paidOff(outstanding) THEN [debt EXCEPT !.outstanding = 0, !.status = "PAID_OFF"]
                          ELSE [debt EXCEPT !.outstanding = outstanding]

SkippedUnlessLate(rows) ==
  [s \in Sequences |-> IF rows[s].status = "SCHEDULED"
                       THEN [rows[s] EXCEPT !.status = "SKIPPED"] ELSE rows[s]]

Skipped(rows) ==
  [s \in Sequences |-> IF rows[s].status \in {"SCHEDULED", "LATE"}
                       THEN [rows[s] EXCEPT !.status = "SKIPPED"] ELSE rows[s]]

(* What the rest of recordPayment does once the payment and the debt are   *)
(* written: book the transaction, and skip what is left if it was the last.*)
Finish(rows, refused) ==
  /\ inst' = IF ~refused /\ debt'.status = "PAID_OFF" THEN Skipped(rows) ELSE rows
  /\ aborted' = (aborted \/ refused)

Payable(p) == debt.state = "live" /\ debt.status = "ACTIVE" /\ pay[p].state = "none"

RecordPayment(p, s, amount, refused) ==
  /\ Payable(p)
  /\ inst[s].status \notin {"none", "PAID"}
  /\ amount <= remainingTotal(s)
  /\ LET part == split(s, amount) IN
       /\ debt' = Repaid(part.principal)
       /\ pay' = [pay EXCEPT ![p] = [state |-> "live", inst |-> s, amount |-> amount,
                                     principal |-> part.principal, interest |-> part.interest]]
       /\ Finish([inst EXCEPT ![s] = Settled(@, inst[s].paid + amount)], refused)

(* The schedule is regenerated, unless there is nothing left to replace. *)
Regenerates == debt.mode = "AUTO" /\ debt'.status # "PAID_OFF" /\ Replaceable # {}

RecordExtra(p, amount, refused) ==
  /\ Payable(p)
  /\ amount <= debt.outstanding
  /\ debt' = Repaid(amount)
  /\ pay' = [pay EXCEPT ![p] = [state |-> "live", inst |-> Extra, amount |-> amount,
                                principal |-> amount, interest |-> 0]]
  /\ \/ ~Regenerates /\ Finish(inst, refused)
     \/ /\ Regenerates
        /\ \E lines \in Regenerated(NextSequence, debt'.outstanding) :
             IF Clashes(lines) THEN Finish(inst, TRUE) ELSE Finish(Replaced(lines), refused)

RevertedAsPartial(row, paid) == [row EXCEPT !.paid = paid, !.status = "PARTIAL"]

Reverted(row, paid) ==
  [row EXCEPT !.paid = IF paid < 0 THEN 0 ELSE paid,
              !.status = IF paid <= 0 THEN "SCHEDULED" ELSE "PARTIAL"]

Unskipped(rows) ==
  [s \in Sequences |-> IF rows[s].status = "SKIPPED"
                       THEN [rows[s] EXCEPT !.status = "SCHEDULED"] ELSE rows[s]]

RemovePayment(p) ==
  /\ debt.state = "live" /\ pay[p].state = "live"
  /\ LET s    == pay[p].inst
         rows == IF s = Extra THEN inst
                 ELSE [inst EXCEPT ![s] = Reverted(@, inst[s].paid - pay[p].amount)]
         back == debt.outstanding + pay[p].principal
     IN  IF debt.status = "PAID_OFF"
         THEN /\ debt' = [debt EXCEPT !.outstanding = back, !.status = "ACTIVE"]
              /\ inst' = Unskipped(rows)
         ELSE /\ debt' = [debt EXCEPT !.outstanding = back]
              /\ inst' = rows
  /\ pay' = [pay EXCEPT ![p] = [NoPayment EXCEPT !.state = "deleted"]]
  /\ UNCHANGED aborted

-----------------------------------------------------------------------------
Next ==
  \/ \E principal \in 0..MaxPrincipal, refused \in BOOLEAN :
       \/ \E lines \in AutoLines(principal) : Create("AUTO", principal, lines, refused)
       \/ \E lines \in ManualLines(principal) : Create("MANUAL", principal, lines, refused)
  \/ \E status \in {"ACTIVE", "DEFAULTED"} : Update(status)
  \/ Remove
  \/ \E s \in Sequences : Sweep(s)
  \/ RegenerateSchedule
  \/ \E p \in Payments, s \in Sequences, n \in 1..(MaxPrincipal + MaxInterest), refused \in BOOLEAN :
       RecordPayment(p, s, n, refused)
  \/ \E p \in Payments, n \in 1..MaxPrincipal, refused \in BOOLEAN : RecordExtra(p, n, refused)
  \/ \E p \in Payments : RemovePayment(p)

Spec == Init /\ [][Next]_vars

-----------------------------------------------------------------------------
(* Properties *)

(* RG-D6, RG-D9: whatever was paid, partly paid, deleted, skipped and      *)
(* regenerated, an installment's paidMinor is the sum of its live payments *)
(* and its status says how that compares with its total.                   *)
InstallmentTracksPayments ==
  \A s \in Sequences :
    /\ inst[s].paid = PaidAmount(PaymentsOn(s))
    /\ inst[s].status = "PAID" => inst[s].paid >= total(s)
    /\ inst[s].status = "PARTIAL" => inst[s].paid \in 1..(total(s) - 1)
    /\ inst[s].status \notin {"PAID", "PARTIAL"} => inst[s].paid = 0

(* RG-D6: every payment is fully allocated, and the live payments of an    *)
(* installment never cover more interest or principal than it has, even    *)
(* when an earlier payment is deleted and the share is paid again.  What   *)
(* they leave unpaid stays outstanding: nothing forgives part of a debt.   *)
AllocationBounded ==
  /\ \A p \in LivePayments : pay[p].principal + pay[p].interest = pay[p].amount
  /\ \A s \in Sequences : /\ PaidPrincipal(PaymentsOn(s)) <= inst[s].principal
                          /\ PaidInterest(PaymentsOn(s)) <= inst[s].interest
  /\ debt.outstanding >= debt.principal - PaidPrincipal(LivePayments)

(* RG-D8: a paid-off debt has nothing left to come, unless a request was   *)
(* refused halfway.                                                        *)
PaidOffLeavesNothingDue ==
  debt.status = "PAID_OFF" /\ ~aborted => debt.outstanding = 0 /\ Due = {}

=============================================================================
