--------------------------- MODULE LedgerRequests ---------------------------
(***************************************************************************)
(* The handlers of `transactions` and `reconciliation` at the granularity  *)
(* of their database accesses, for requests served at the same time.       *)
(*                                                                         *)
(* remove() and update() read the row (and remove() its fee line) BEFORE   *)
(* they open their SQL transaction, and reverse the balance effect of what *)
(* they read.  A delete() inside the transaction is rewritten by the       *)
(* soft-delete extension into an update on the BASE client, so it commits  *)
(* at once, apart from the transaction around it.  Everything else of the  *)
(* SQL transaction takes effect at its commit; the account rows it adjusts *)
(* are locked until then.                                                  *)
(*                                                                         *)
(* The inserting handlers read only what no request here changes, so they  *)
(* are the atomic actions of Ledger.  Accounts are not removed here.       *)
(***************************************************************************)
EXTENDS Ledger

CONSTANTS
  Workers,        \* requests that can be in flight together
  MaxRequests,    \* bound: remove, update and reconcile requests of a behaviour
  Crashes,        \* whether a request may fail once it has begun
  BookedAmounts   \* bound: amounts of new rows and fees

ASSUME RequestAssumption ==
  MaxRequests \in Nat /\ Crashes \in BOOLEAN /\ BookedAmounts \subseteq Amounts

VARIABLES
  req,      \* worker -> the request it serves
  started,  \* requests begun (bound)
  outdated  \* history: accounts a request acted on from an outdated read, or died on

database == vars
requestsVars == <<database, req, started, outdated>>

-----------------------------------------------------------------------------
(* A request: what it read and how far it is. *)

Omitted == -1  \* feeMinor absent from the DTO

Idle == [kind |-> "idle", pc |-> "idle",
         rows |-> {}, fees |-> {},            \* ids it read: its row or legs, their fee lines
         seen |-> [t \in Txs |-> NoRow],      \* what it read of them
         gone |-> {},                         \* deletes that already committed
         locks |-> {},                        \* account rows its SQL transaction holds
         to |-> NoAccount, n |-> 0, fee |-> Omitted]

Request == [kind  : {"idle", "remove", "update", "reconcile"},
            pc    : {"idle", "group", "row", "read", "ready", "tx", "deleted"},
            rows  : SUBSET Txs, fees : SUBSET Txs,
            seen  : [Txs -> Row],
            gone  : SUBSET Txs,
            locks : SUBSET Accounts,
            to    : Accounts \union {NoAccount}, n : Int, fee : Int]

Reading(S, seen) == [t \in Txs |-> IF t \in S THEN tx[t] ELSE seen[t]]

At(w, kinds, pc) == req[w].kind \in kinds /\ req[w].pc = pc

Begin(w, fields) ==
  /\ req[w] = Idle
  /\ started < MaxRequests
  /\ started' = started + 1
  /\ req' = [req EXCEPT ![w] = fields]
  /\ UNCHANGED <<database, outdated>>

Proceed(w, fields) ==
  /\ req' = [req EXCEPT ![w] = fields]
  /\ UNCHANGED <<database, started, outdated>>

Unlocked(w, S) == \A v \in Workers \ {w} : req[v].locks \cap S = {}

AllUnlocked(S) == \A v \in Workers : req[v].locks \cap S = {}

Seen(w, r) == req[w].seen[r]

Touched(w) == {Seen(w, r).account : r \in req[w].rows \union req[w].fees}
                \union ({req[w].to} \ {NoAccount})

-----------------------------------------------------------------------------
(* The history variable. *)

(* Rows whose deletion committed while the request they belong to has not  *)
(* reached the point where it takes effect: the deletion of the parent     *)
(* (remove) or the commit (update).                                        *)
InFlight(w) ==
  IF req[w].kind = "remove" /\ req[w].rows \subseteq req[w].gone THEN {} ELSE req[w].gone

logicalTx == [t \in Txs |-> IF \E w \in Workers : t \in InFlight(w)
                            THEN [tx[t] EXCEPT !.state = "live"] ELSE tx[t]]

(* Accounts disturbed by acting on S when it is no longer what w read. *)
OutdatedOn(w, S, now) ==
  LET changed == {r \in S : now[r] # Seen(w, r)} IN
  ({Seen(w, r).account : r \in changed} \union {now[r].account : r \in changed}
     \union (IF changed # {} THEN {req[w].to} ELSE {})) \ {NoAccount}

-----------------------------------------------------------------------------
(* Reads *)

BeginRemove(w, t) ==
  /\ Removable(t, "none")
  /\ Begin(w, [Idle EXCEPT !.kind = "remove",
                           !.pc = IF tx[t].group = NoTx THEN "read" ELSE "group",
                           !.rows = {t}, !.seen = Reading({t}, Idle.seen)])

(* removeTransferGroup reads the legs again *)
ReadLegs(w) ==
  /\ At(w, {"remove"}, "group")
  /\ LET legs == UNION {legsOf(tx, Seen(w, t).group) : t \in req[w].rows} IN
     Proceed(w, [req[w] EXCEPT !.pc = "read", !.rows = legs, !.seen = Reading(legs, Idle.seen)])

BeginUpdate(w, t, a, n, fee) ==
  /\ Editable(t)
  /\ accountState[a] = "live"
  /\ Begin(w, [Idle EXCEPT !.kind = "update", !.pc = IF fee = Omitted THEN "ready" ELSE "row",
                           !.rows = {t}, !.seen = Reading({t}, Idle.seen),
                           !.to = a, !.n = n, !.fee = fee])

(* update() adjusts the accounts of the row before it looks for a fee line *)
LockRow(w) ==
  /\ At(w, {"update"}, "row")
  /\ Unlocked(w, Touched(w))
  /\ Proceed(w, [req[w] EXCEPT !.pc = "read", !.locks = Touched(w)])

ReadFees(w) ==
  /\ At(w, {"remove", "update"}, "read")
  /\ LET fees == feeLinesOf(tx, req[w].rows) IN
     Proceed(w, [req[w] EXCEPT !.pc = "ready", !.fees = fees,
                               !.seen = Reading(fees, req[w].seen)])

Enter(w) ==
  /\ At(w, {"remove", "update"}, "ready")
  /\ Unlocked(w, Touched(w))
  /\ Proceed(w, [req[w] EXCEPT !.pc = "tx", !.locks = Touched(w)])

BeginReconcile(w, a, actual) ==
  /\ accountState[a] = "live"
  /\ Begin(w, [Idle EXCEPT !.kind = "reconcile", !.pc = "ready", !.to = a,
                           !.n = actual - balance[a]])

-----------------------------------------------------------------------------
(* Deletes, each committed on its own *)

RemovalDeletesFees(w) == req[w].kind = "remove"

DeletesFees(w) == req[w].kind = "remove" \/ (req[w].kind = "update" /\ req[w].fee = 0)

DeleteFee(w, f) ==
  /\ req[w].pc = "tx" /\ DeletesFees(w)
  /\ f \in req[w].fees \ req[w].gone
  /\ tx' = softDelete(tx, {f})
  /\ req' = [req EXCEPT ![w].gone = @ \union {f}]
  /\ outdated' = outdated \union OutdatedOn(w, {f}, tx)
  /\ UNCHANGED <<accountState, opening, balance, started>>

(* Both legs of a transfer go in one deleteMany. *)
DeletedRows(w) == req[w].rows

(* A fee line that was added meanwhile is left behind: an outdated read. *)
Overlooked(w) ==
  {tx[f].account : f \in feeLinesOf(logicalTx, req[w].rows) \ req[w].fees}

DeleteRows(w) ==
  /\ At(w, {"remove"}, "tx")
  /\ req[w].fees \subseteq req[w].gone
  /\ tx' = softDelete(tx, DeletedRows(w))
  /\ req' = [req EXCEPT ![w].pc = "deleted", ![w].gone = @ \union req[w].rows]
  /\ outdated' = outdated \union OutdatedOn(w, req[w].rows \union req[w].fees, logicalTx)
                          \union Overlooked(w)
  /\ UNCHANGED <<accountState, opening, balance, started>>

-----------------------------------------------------------------------------
(* Commits *)

Reversed(w, a) == balance[a] - Net(req[w].seen, req[w].rows \union req[w].fees, a)

CommitRemove(w) ==
  /\ At(w, {"remove"}, "deleted")
  /\ balance' = [a \in Accounts |-> Reversed(w, a)]
  /\ req' = [req EXCEPT ![w] = Idle]
  /\ UNCHANGED <<accountState, opening, tx, started, outdated>>

RewrittenRowOnly(w) ==
  [t \in Txs |-> IF t \in req[w].rows
                 THEN [tx[t] EXCEPT !.account = req[w].to, !.amount = req[w].n] ELSE tx[t]]

(* The UPDATE statements name the row by id: they also reach a deleted one. *)
Rewritten(w) ==
  [t \in Txs |->
     IF t \in req[w].rows THEN [tx[t] EXCEPT !.account = req[w].to, !.amount = req[w].n]
     ELSE IF t \in req[w].fees /\ req[w].fee > 0
          THEN [tx[t] EXCEPT !.account = req[w].to, !.amount = req[w].fee]
          ELSE tx[t]]

UpdateEffect(w, a) ==
  IF a # req[w].to THEN 0
  ELSE Total([t \in Txs |-> [Seen(w, t) EXCEPT !.amount = req[w].n]],
             {t \in req[w].rows : Seen(w, t).type = "INCOME"})
     - Total([t \in Txs |-> [Seen(w, t) EXCEPT !.amount = req[w].n]],
             {t \in req[w].rows : Seen(w, t).type = "EXPENSE"})
     - (IF req[w].fee > 0 THEN req[w].fee ELSE 0)

Commit(w) ==
  /\ At(w, {"update"}, "tx")
  /\ balance' = [a \in Accounts |-> Reversed(w, a) + UpdateEffect(w, a)]
  /\ req' = [req EXCEPT ![w] = Idle]
  /\ outdated' = outdated \union OutdatedOn(w, req[w].rows \union req[w].fees, logicalTx)
  /\ UNCHANGED <<accountState, opening, started>>

CommitUpdate(w) ==
  /\ DeletesFees(w) => req[w].fees \subseteq req[w].gone
  /\ req[w].fee <= 0 \/ req[w].fees # {}
  /\ tx' = Rewritten(w)
  /\ Commit(w)

(* createFeeLine; the unique index on feeForTransactionId may refuse it *)
CommitUpdateNewFee(w, f) ==
  /\ req[w].fee > 0 /\ req[w].fees = {}
  /\ tx[f] = NoRow
  /\ \A t \in req[w].rows : /\ FeeSlotFree(tx, t)
                            /\ tx' = [Rewritten(w) EXCEPT ![f] = FeeRow(req[w].to, req[w].fee, t)]
  /\ Commit(w)

(* The delta was computed from the balance read by BeginReconcile. *)
CommitReconcile(w, t) ==
  /\ At(w, {"reconcile"}, "ready")
  /\ AllUnlocked({req[w].to})
  /\ LET delta == req[w].n IN
       \/ /\ storable(delta)
          /\ CreateTx(t, req[w].to, "INCOME", delta, "ADJUSTMENT")
       \/ /\ storable(-delta)
          /\ CreateTx(t, req[w].to, "EXPENSE", -delta, "ADJUSTMENT")
  /\ req' = [req EXCEPT ![w] = Idle]
  /\ UNCHANGED <<started, outdated>>

(* An error, a lost connection, a deadlock or the end of the process: the  *)
(* SQL transaction rolls back, its deletes stay.                           *)
Fail(w) ==
  /\ req[w] # Idle
  /\ Crashes \/ req[w].gone = {}
  /\ req' = [req EXCEPT ![w] = Idle]
  /\ outdated' = outdated \union {Seen(w, r).account : r \in req[w].gone}
                          \union {tx[r].account : r \in req[w].gone}
  /\ UNCHANGED <<database, started>>

-----------------------------------------------------------------------------
Stays == UNCHANGED <<req, started, outdated>>

RequestsInit == Init /\ req = [w \in Workers |-> Idle] /\ started = 0 /\ outdated = {}

RequestsNext ==
  \/ \E a \in Accounts, o \in Openings : CreateAccount(a, o) /\ Stays
  \/ \E t \in Txs, a \in Accounts, type \in Types, n \in BookedAmounts, s \in EntrySources :
       AllUnlocked({a}) /\ CreateTx(t, a, type, n, s) /\ Stays
  \/ \E t, f \in Txs, a \in Accounts, type \in Types, n, fee \in BookedAmounts :
       AllUnlocked({a}) /\ CreateTxWithFee(t, f, a, type, n, fee) /\ Stays
  \/ \E out, in \in Txs, from, to \in Accounts, n \in BookedAmounts :
       AllUnlocked({from, to}) /\ Transfer(out, in, from, to, n) /\ Stays
  \/ \E out, in, f \in Txs, from, to \in Accounts, n, fee \in BookedAmounts :
       AllUnlocked({from, to}) /\ TransferWithFee(out, in, f, from, to, n, fee) /\ Stays
  \/ \E w \in Workers, t \in Txs : BeginRemove(w, t)
  \/ \E w \in Workers, t \in Txs, a \in Accounts, n \in Amounts,
        fee \in {Omitted, 0} \union BookedAmounts : BeginUpdate(w, t, a, n, fee)
  \/ \E w \in Workers, a \in Accounts, actual \in Openings : BeginReconcile(w, a, actual)
  \/ \E w \in Workers : \/ ReadLegs(w) \/ LockRow(w) \/ ReadFees(w) \/ Enter(w)
                        \/ DeleteRows(w) \/ CommitRemove(w) \/ CommitUpdate(w) \/ Fail(w)
  \/ \E w \in Workers, t \in Txs :
       DeleteFee(w, t) \/ CommitUpdateNewFee(w, t) \/ CommitReconcile(w, t)

RequestsSpec == RequestsInit /\ [][RequestsNext]_requestsVars

-----------------------------------------------------------------------------
(* Properties *)

(* A removal that has deleted its rows will write the reversed balance; it  *)
(* holds the account row, so there is one at most.                         *)
Reverses(w, a) == At(w, {"remove"}, "deleted") /\ a \in req[w].locks

logicalBalance ==
  [a \in Accounts |-> IF \E w \in Workers : Reverses(w, a)
                      THEN Reversed(CHOOSE w \in Workers : Reverses(w, a), a) ELSE balance[a]]

(* RG-A3, RG-A8 under concurrency and crashes.  A stored balance differs   *)
(* from the recomputed one only because a removal is between its deletes   *)
(* and its commit, or because a request acted on this account from a read  *)
(* that had become outdated, or died after a delete: every other           *)
(* interleaving keeps the balance derived.                                 *)
DriftExplained ==
  \A a \in Accounts \ outdated :
    logicalBalance[a] = opening[a] + Net(logicalTx, Txs, a)

(* As long as no request acted on an outdated read or died after a delete, *)
(* the handlers implement the atomic ones of Ledger: a removal takes       *)
(* effect when its row is deleted, an update when it commits.  An          *)
(* adjustment may be computed from an older balance, but it is an ordinary *)
(* entry.                                                                  *)
Atomic == INSTANCE Ledger WITH tx <- logicalTx, balance <- logicalBalance

AtomicStep ==
  \/ Atomic!Next
  \/ \E t \in Txs, a \in Accounts, type \in Types, n \in Amounts :
       Atomic!CreateTx(t, a, type, n, "ADJUSTMENT")

ImplementsLedger ==
  Atomic!Init /\ [][outdated' = {} /\ Atomic!vars' # Atomic!vars => AtomicStep]_requestsVars

(* RG-A3 says the balance is updated in the same SQL transaction as the    *)
(* deletion: then with no request in flight every balance is derived.      *)
QuietBalance ==
  (\A w \in Workers : req[w] = Idle) => BalanceDerived

=============================================================================
