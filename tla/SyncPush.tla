------------------------------ MODULE SyncPush ------------------------------
(***************************************************************************)
(* POST /sync/push: `sync.service.ts` (push), `dispatch.ts` and            *)
(* `sync-conflict.error.ts`, against a device that keeps its operations in *)
(* an outbox, sends them as one batch, gives up waiting and sends again.   *)
(*                                                                         *)
(* The server runs the operations of a batch in order.  For each of them   *)
(* it looks the idempotency key up, checks the version, runs the handler   *)
(* and stores the key: four statements or more, in no common transaction.  *)
(* Operations of the catalogue that behave alike are one kind:             *)
(*   create  a creation with a client id: an existing id is a replay       *)
(*   update  an update, archive or skip that may carry a base version      *)
(*   delete  a soft delete that may carry a base version                   *)
(*   add     an effect without an id of its own (a transfer)               *)
(*   book    an effect, then a row with a client id that stands for it     *)
(*           (goal.contribute, debt.recordPayment)                         *)
(*   several parts that are committed one by one, and a later one of which *)
(*           can be refused (transaction.bulkCategorize,                   *)
(*           budget.planCreate, debt.recordPayment)                        *)
(* The push route leaves payloads alone (z.unknown()): the handler parses  *)
(* them.                                                                   *)
(***************************************************************************)
EXTENDS Naturals

CONSTANTS
  Entities, Requests, None,
  Malformable, \* bound: the kinds of which an operation can be malformed
  MaxOps,     \* bound: operations in the outbox
  MaxFaults,  \* bound: lost requests and timeouts
  MaxEdits    \* bound: edits by another device

ASSUME SyncPushAssumption == {MaxOps, MaxFaults, MaxEdits} \subseteq Nat /\ None \notin Requests

VARIABLES
  row,        \* the replicated rows
  keys,       \* IdempotencyKey: the operations that have one
  queue,      \* the operations the device has queued; the number of one is its place
  outbox,     \* the numbers of those it has no answer for
  parked,     \* those that were refused
  awaits,     \* the request the device waits for
  req,        \* the requests on the server
  version,    \* "supported", or "too old" once the server asks for a later one
  faults, edits,
  applied,    \* history: how often each operation took effect, 2 for more
  halfway,    \* history: operations that were refused after a part of them took effect
  torn        \* history: operations that took effect without the device or the
              \* key table having noted it

device == <<queue, outbox, parked, awaits>>
bounds == <<faults, edits>>
server == <<row, keys>>
history == <<applied, halfway, torn>>
vars == <<server, device, req, version, bounds, history>>

-----------------------------------------------------------------------------
OpIds == 1..MaxOps

(* base = 0: the operation carries no base version. *)
Operation == [kind : {"create", "update", "delete", "add", "book", "several"}, e : Entities,
              base : 0..1, valid : BOOLEAN]

Row == [state : {"none", "live", "deleted"}, version : Nat]

(* A request is left with the operations it has not come to the end of, in *)
(* the order of their numbers, and has the others answered.                *)
Request == [pc : {"idle", "key", "check", "run", "rest", "store", "answer"},
            todo : SUBSET OpIds, done : SUBSET OpIds, refused : BOOLEAN]

Idle == [pc |-> "idle", todo |-> {}, done |-> {}, refused |-> FALSE]

First(ops) == CHOOSE o \in ops : \A p \in ops : o <= p

At(r, pc) == req[r].pc = pc
Current(r) == First(req[r].todo)
Target(r) == queue[Current(r)].e

Goes(r, pc) == req' = [req EXCEPT ![r].pc = pc]

Touched(e, state) == row' = [row EXCEPT ![e] = [state |-> state, version |-> @.version + 1]]

-----------------------------------------------------------------------------
(* The device *)

(* A batch of a version that is too old is refused before its first        *)
(* operation, and the device keeps its outbox.                             *)
Push(r) ==
  /\ version = "supported" /\ awaits = None /\ outbox # {} /\ req[r] = Idle
  /\ req' = [req EXCEPT ![r] = [Idle EXCEPT !.pc = "key", !.todo = outbox]]
  /\ awaits' = r
  /\ UNCHANGED <<server, queue, outbox, parked, version, bounds, history>>

(* Operations with an effect whose key is not stored yet. *)
Unkeyed(r) ==
  IF At(r, "rest") \/ At(r, "store") \/ (req[r].refused /\ Current(r) \in halfway)
  THEN {Current(r)} ELSE {}

(* The device stops waiting; the server does not notice. *)
GiveUp ==
  /\ awaits # None /\ faults < MaxFaults
  /\ awaits' = None /\ faults' = faults + 1
  /\ torn' = torn \union Unkeyed(awaits)
  /\ UNCHANGED <<server, queue, outbox, parked, req, version, edits, applied, halfway>>

(* The results of the batch: what was applied or known leaves the outbox,  *)
(* what was refused is parked, the rest stays.                             *)
Answer(r) ==
  LET refused == IF req[r].refused THEN {Current(r)} ELSE {} IN
  /\ At(r, "answer")
  /\ IF awaits = r
     THEN /\ outbox' = outbox \ (req[r].done \union refused)
          /\ parked' = parked \union refused
          /\ awaits' = None
     ELSE UNCHANGED <<outbox, parked, awaits>>
  /\ req' = [req EXCEPT ![r] = Idle]
  /\ UNCHANGED <<server, queue, version, bounds, history>>

(* A 500: the outbox stays as it is. *)
Fails(r) ==
  /\ req' = [req EXCEPT ![r] = Idle]
  /\ awaits' = IF awaits = r THEN None ELSE awaits
  /\ UNCHANGED <<queue, outbox, parked>>

-----------------------------------------------------------------------------
(* push(), one operation *)

Forgets(o) == FALSE

Known(o) == o \in keys

NextOf(t) ==
  LET rest == t.todo \ {First(t.todo)} IN
  [t EXCEPT !.pc = IF rest = {} THEN "answer" ELSE "key",
            !.todo = rest, !.done = @ \union {First(t.todo)}]

FindKey(r) ==
  /\ At(r, "key")
  /\ req' = [req EXCEPT ![r] = IF Known(Current(r)) THEN NextOf(@) ELSE [@ EXCEPT !.pc = "check"]]
  /\ UNCHANGED <<server, device, version, bounds, history>>

SkipsRefused(t) == NextOf(t)

StopsAt(t) == [t EXCEPT !.pc = "answer", !.refused = TRUE]

Refuse(r) == req' = [req EXCEPT ![r] = StopsAt(@)]

(* checkVersion(): the target is gone, or is not the version the device saw. *)
CheckVersion(r) ==
  LET op == queue[Current(r)] IN
  /\ At(r, "check")
  /\ IF /\ op.kind \in {"update", "delete"}
        /\ row[op.e].state # "live" \/ (op.base # 0 /\ row[op.e].version # op.base)
     THEN Refuse(r)
     ELSE Goes(r, "run")
  /\ UNCHANGED <<server, device, version, bounds, history>>

(* The handler's schema.parse() throws, before checkVersion() or after it. *)
(* A ZodError is no error of the domain: push() rethrows it, and the whole *)
(* batch gets a 500.                                                       *)
Malformed(r) ==
  /\ At(r, "check") \/ At(r, "run")
  /\ ~queue[Current(r)].valid
  /\ Fails(r)
  /\ UNCHANGED <<server, version, bounds, history>>

Runs(r, kinds) == At(r, "run") /\ queue[Current(r)].valid /\ queue[Current(r)].kind \in kinds

Effect(r, pc) ==
  /\ applied' = [applied EXCEPT ![Current(r)] = IF @ = 2 THEN 2 ELSE @ + 1]
  /\ torn' = IF awaits = r THEN torn ELSE torn \union {Current(r)}
  /\ Goes(r, pc)

(* The handler of the business module, whose own lookup no longer compares *)
(* versions.  An id in use is a replay; an id of a deleted row is not seen *)
(* by the lookup, and the insert fails.                                    *)
RunCreate(r) ==
  /\ Runs(r, {"create"})
  /\ \/ row[Target(r)].state = "none" /\ Touched(Target(r), "live") /\ Effect(r, "store")
        /\ UNCHANGED device
     \/ row[Target(r)].state = "live" /\ Goes(r, "store")
        /\ UNCHANGED <<row, device, applied, torn>>
     \/ row[Target(r)].state = "deleted" /\ Fails(r)
        /\ UNCHANGED <<row, applied, torn>>
  /\ UNCHANGED <<keys, version, bounds, halfway>>

RunOther(r) ==
  LET kind == queue[Current(r)].kind IN
  /\ Runs(r, {"update", "delete", "add", "several"})
  /\ IF row[Target(r)].state = "live"
     THEN /\ Touched(Target(r), IF kind = "delete" THEN "deleted" ELSE "live")
          /\ Effect(r, IF kind = "several" THEN "rest" ELSE "store")
     ELSE Refuse(r) /\ UNCHANGED <<row, applied, torn>>
  /\ UNCHANGED <<keys, device, version, bounds, halfway>>

(* What comes after the first part of several may be refused; nothing      *)
(* takes the first part back.                                              *)
RunRest(r) ==
  /\ At(r, "rest") /\ queue[Current(r)].kind = "several"
  /\ \/ Goes(r, "store") /\ UNCHANGED halfway
     \/ Refuse(r) /\ halfway' = halfway \union {Current(r)}
  /\ UNCHANGED <<server, device, version, bounds, applied, torn>>

(* A contribution: the transfer first, unless its id is in use.            *)
RunBooking(r) ==
  /\ Runs(r, {"book"})
  /\ IF row[Target(r)].state = "live"
     THEN Goes(r, "store") /\ UNCHANGED <<applied, torn>>
     ELSE Effect(r, "rest")
  /\ UNCHANGED <<server, device, version, bounds, halfway>>

(* Then the row with that id, whose insert fails if another request was    *)
(* faster or the row was deleted: the transfer stays, and the device, which *)
(* gets a 500, sends the operation again.                                  *)
BookRow(r) ==
  /\ At(r, "rest") /\ queue[Current(r)].kind = "book"
  /\ IF row[Target(r)].state = "none"
     THEN Touched(Target(r), "live") /\ Goes(r, "store") /\ UNCHANGED <<device, torn>>
     ELSE Fails(r) /\ torn' = torn \union {Current(r)} /\ UNCHANGED row
  /\ UNCHANGED <<keys, version, bounds, applied, halfway>>

(* The key is unique: the slower of two requests fails here. *)
StoreKey(r) ==
  /\ At(r, "store")
  /\ IF Current(r) \in keys
     THEN Fails(r) /\ UNCHANGED keys
     ELSE /\ keys' = keys \union {Current(r)}
          /\ req' = [req EXCEPT ![r] = NextOf(@)]
          /\ UNCHANGED device
  /\ UNCHANGED <<row, version, bounds, history>>

-----------------------------------------------------------------------------
(* The world *)

(* A restart of the server, a lost connection to the database. *)
LoseRequest(r) ==
  /\ req[r] # Idle /\ faults < MaxFaults /\ faults' = faults + 1
  /\ torn' = torn \union Unkeyed(r)
  /\ Fails(r)
  /\ UNCHANGED <<server, version, edits, applied, halfway>>

OtherDevice(e, state) ==
  /\ row[e].state = "live" /\ edits < MaxEdits /\ edits' = edits + 1
  /\ Touched(e, state)
  /\ UNCHANGED <<keys, device, req, version, faults, history>>

(* A deployment raises MIN_CLIENT_VERSION; the user upgrades. *)
RaiseMinimum ==
  /\ version = "supported" /\ edits < MaxEdits /\ edits' = edits + 1
  /\ version' = "too old"
  /\ UNCHANGED <<server, device, req, faults, history>>

Upgrade ==
  /\ version = "too old" /\ version' = "supported"
  /\ UNCHANGED <<server, device, req, bounds, history>>

-----------------------------------------------------------------------------
Init ==
  /\ row \in [Entities -> {[state |-> "none", version |-> 0], [state |-> "live", version |-> 1]}]
  /\ queue \in [OpIds -> Operation]
  /\ \A o \in OpIds : /\ queue[o].kind \notin {"update", "delete"} => queue[o].base = 0
                      /\ ~queue[o].valid => queue[o].kind \in Malformable
  /\ outbox = OpIds
  /\ keys = {} /\ parked = {} /\ awaits = None
  /\ req = [r \in Requests |-> Idle] /\ version = "supported"
  /\ faults = 0 /\ edits = 0
  /\ applied = [o \in OpIds |-> 0] /\ halfway = {} /\ torn = {}

Serve(r) == \/ FindKey(r) \/ CheckVersion(r) \/ Malformed(r) \/ RunCreate(r) \/ RunOther(r)
            \/ RunRest(r) \/ RunBooking(r) \/ BookRow(r) \/ StoreKey(r) \/ Answer(r)

Next ==
  \/ \E r \in Requests : Push(r) \/ Serve(r) \/ LoseRequest(r)
  \/ GiveUp \/ RaiseMinimum \/ Upgrade
  \/ \E e \in Entities, state \in {"live", "deleted"} : OtherDevice(e, state)

(* The server answers what it has accepted, and the device sends again.    *)
Fairness == /\ WF_vars(\E r \in Requests : Push(r))
            /\ \A r \in Requests : WF_vars(Serve(r))

Spec == Init /\ [][Next]_vars /\ Fairness

-----------------------------------------------------------------------------
(* Properties *)

(* RG-SY2: "replaying an already-applied operation returns the original    *)
(* response without re-applying it", unless it took effect and the request *)
(* was lost or abandoned, or failed, before its key was stored.            *)
AppliedOnce == \A o \in OpIds : applied[o] > 1 => o \in torn

(* What the device is told is what happened: an operation it is done with  *)
(* took effect, or found the row it wanted to create; one that was refused *)
(* did not, unless it was torn, or its first parts were committed before a *)
(* later one was refused (against RG-SY6, "atomic per operation").         *)
AnswerIsTrue ==
  \A o \in OpIds :
    /\ o \in parked => applied[o] = 0 \/ o \in torn \/ o \in halfway
    /\ o \notin outbox \union parked =>
         applied[o] > 0 \/ (queue[o].kind \in {"create", "book"} /\ row[queue[o].e].state # "none")

(* The operations that fail for ever: a malformed one, and one that would  *)
(* insert the id of a deleted row.                                         *)
Hopeless(o) == /\ o \notin keys
               /\ \/ ~queue[o].valid
                  \/ queue[o].kind \in {"create", "book"} /\ row[queue[o].e].state = "deleted"

Blocked == \E o \in outbox : Hopeless(o) /\ \A p \in outbox : p < o => p \in keys

(* RG-SY7: a device that keeps sending is answered for every operation,    *)
(* whatever requests are lost, unless the device must be upgraded first or *)
(* an operation fails for ever: that blocks what is behind it, and keeps   *)
(* what is before it, though applied, from leaving the outbox.             *)
Drains == <>[](outbox = {} \/ Blocked \/ version = "too old")

=============================================================================
