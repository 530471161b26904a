----------------------------- MODULE SyncProofs -----------------------------
(***************************************************************************)
(* Proofs about the two halves of sync.                                    *)
(*                                                                         *)
(* AppliedOnce and AnswerIsTrue, for any outbox, any number of requests of *)
(* it on the server and any number of faults.  Two things carry the proof. *)
(* An operation that took effect has its key, is torn, is parked after     *)
(* half of it, or is the one whose key, or refusal, the request the device *)
(* waits for still owes (Noted): so when that request finds no key, the    *)
(* operation has not taken effect, and it stays so until the request runs  *)
(* it, whatever the requests the device gave up do (Fresh).  And whatever  *)
(* a request has got past was found or done (Told), which stays true       *)
(* because no row goes back to not being there.                            *)
(*                                                                         *)
(* FeedExplained, for any rows, tables, writers and size of a page.  What  *)
(* was read of a table is true of the rows that did not slip (ReadIsTrue)  *)
(* and leaves nothing out that comes before its last entry (ReadIsWhole):  *)
(* so a row the page does not hold comes after the whole of the page, and  *)
(* the cursor stays before it (OffThePage).                                *)
(***************************************************************************)
EXTENDS SyncPush, ChangeFeed, FiniteSetTheorems, WellFoundedInduction, TLAPS

-----------------------------------------------------------------------------
(* Push *)

PushTypes ==
  /\ row \in [Entities -> Row] /\ keys \subseteq OpIds
  /\ queue \in [OpIds -> Operation] /\ outbox \subseteq OpIds /\ parked \subseteq OpIds
  /\ awaits \in Requests \union {None} /\ req \in [Requests -> Request]
  /\ applied \in [OpIds -> Nat] /\ halfway \subseteq OpIds /\ torn \subseteq OpIds

AtWork == {"key", "check", "run", "rest", "store"}

(* A request at work has an operation to work on; so has one that stopped. *)
Working == \A r \in Requests :
  /\ req[r].pc \in AtWork => req[r].todo # {} /\ ~req[r].refused
  /\ req[r].refused => req[r].todo # {}

(* The device waits for the answer to its outbox. *)
Waiting == awaits # None =>
  req[awaits].pc # "idle" /\ req[awaits].todo \union req[awaits].done = outbox

StoringFor(o) == awaits # None /\ o \in Unkeyed(awaits)

Noted == \A o \in OpIds : applied[o] > 0 => o \in keys \union torn \union parked \/ StoringFor(o)

Unapplied(o) == applied[o] = 0 \/ o \in torn

Excused(o) == Unapplied(o) \/ o \in halfway

Fresh == awaits # None =>
  /\ req[awaits].pc \in {"check", "run"} => Unapplied(Current(awaits))
  /\ req[awaits].refused => Excused(Current(awaits))

Parked == parked \intersect outbox = {} /\ \A o \in parked : Excused(o)

Found(o) == \/ applied[o] > 0
            \/ queue[o].kind \in {"create", "book"} /\ row[queue[o].e].state # "none"

Past(o) == \E r \in Requests : \/ o \in req[r].done
                               \/ req[r].pc \in {"rest", "store"} /\ o = Current(r)

Told == \A o \in OpIds : o \notin outbox \union parked \/ o \in keys \/ Past(o) => Found(o)

PushInv == PushTypes /\ Working /\ Waiting /\ Noted /\ Fresh /\ Parked /\ Told /\ AppliedOnce

-----------------------------------------------------------------------------
(* The operation a request is at. *)
LEMMA HasFirst ==
  ASSUME NEW T \in SUBSET Nat, T # {}
  PROVE  \E n \in T : \A m \in T : n <= m
<1>. DEFINE R == OpToRel(<, Nat)
<1>1. IsWellFoundedOn(R, Nat)
  BY NatLessThanWellFounded
<1>2. \A x, y \in Nat : <<x, y>> \in R <=> x < y
  BY DEF OpToRel
<1>. HIDE DEF R
<1>3. PICK x \in T : \A y \in T : ~(<<y, x>> \in R)
  BY <1>1, WFMin
<1>4. ASSUME NEW m \in T
      PROVE  x <= m
  <2>1. m \in Nat /\ x \in Nat
    OBVIOUS
  <2>2. ~(m < x)
    BY <1>2, <1>3, <2>1
  <2>. QED
    BY <2>1, <2>2
<1>. QED
  BY <1>4

LEMMA FirstIsOne ==
  ASSUME NEW ops \in SUBSET OpIds, ops # {}
  PROVE  First(ops) \in ops
<1>1. ops \in SUBSET Nat
  BY SyncPushAssumption DEF OpIds
<1>. QED
  BY <1>1, HasFirst DEF First

LEMMA IdleIsRequest ==
  /\ Idle \in Request /\ Idle.pc = "idle" /\ Idle.todo = {} /\ Idle.done = {} /\ ~Idle.refused
  BY DEF Idle, Request

(* The end of an operation. *)
LEMMA NextOfIsRequest ==
  ASSUME NEW t \in Request, t.todo # {}, ~t.refused
  PROVE  /\ NextOf(t) \in Request /\ ~NextOf(t).refused
         /\ NextOf(t).pc \in {"key", "answer"}
         /\ NextOf(t).pc = "key" => NextOf(t).todo # {}
         /\ NextOf(t).todo \union NextOf(t).done = t.todo \union t.done
         /\ NextOf(t).done = t.done \union {First(t.todo)}
<1>1. First(t.todo) \in t.todo
  BY FirstIsOne DEF Request
<1>. QED
  BY <1>1 DEF NextOf, Request

-----------------------------------------------------------------------------
(* A request goes on.  What took effect is noted; what the device has been *)
(* refused, or what it waits for is about to run, does not take effect     *)
(* untorn in another request; and what a request gets past is found.       *)
LEMMA GoesOn ==
  ASSUME PushInv, PushTypes', AppliedOnce',
         NEW r \in Requests, NEW q \in Request, req' = [req EXCEPT ![r] = q],
         UNCHANGED <<queue, outbox, parked, awaits>>, halfway \subseteq halfway',
         \A e \in Entities : row[e].state # "none" => row'[e].state # "none",
         \A o \in OpIds : applied[o] > 0 => applied'[o] > 0,
         q.pc \in AtWork => q.todo # {} /\ ~q.refused,
         q.refused => q.todo # {},
         awaits = r => q.pc # "idle" /\ q.todo \union q.done = req[r].todo \union req[r].done,
         \A o \in OpIds : applied'[o] > 0 =>
           \/ o \in keys' \union torn' \union parked
           \/ awaits = r /\ o \in Unkeyed(r)'
           \/ awaits # r /\ StoringFor(o),
         \A o \in OpIds : Unapplied(o) => Unapplied(o)' \/ (awaits = r /\ o \in outbox),
         awaits = r /\ q.pc \in {"check", "run"} => Unapplied(First(q.todo))',
         awaits = r /\ q.refused => Excused(First(q.todo))',
         \A o \in OpIds : (o \in keys' /\ o \notin keys) \/ o \in q.done
                            \/ (q.pc \in {"rest", "store"} /\ o = First(q.todo)) => Found(o)'
  PROVE  PushInv'
<1>. USE DEF PushInv
<1>1. \A v \in Requests : req'[v] = IF v = r THEN q ELSE req[v]
  BY DEF PushTypes
<1>2. awaits # None => awaits \in Requests
  BY DEF PushTypes
<1>3. Working'
  BY <1>1 DEF Working
<1>4. Waiting'
  BY <1>1, <1>2 DEF Waiting
<1>5. Noted'
  <2>1. \A o \in OpIds : awaits # r /\ StoringFor(o) => StoringFor(o)'
    <3>1. awaits # None /\ awaits # r => req'[awaits] = req[awaits]
      BY <1>1, <1>2
    <3>. QED
      BY <3>1 DEF StoringFor, Unkeyed, At, Current
  <2>2. \A o \in OpIds : awaits = r /\ o \in Unkeyed(r)' => StoringFor(o)'
    BY SyncPushAssumption DEF StoringFor
  <2>. QED
    BY <2>1, <2>2 DEF Noted
<1>6. Fresh'
  <2>1. CASE awaits = r
    BY <2>1, <1>1 DEF Fresh, Current
  <2>2. CASE awaits # r /\ awaits # None
    <3>1. req'[awaits] = req[awaits] /\ Current(awaits)' = Current(awaits)
      BY <2>2, <1>1, <1>2 DEF Current
    <3>2. ASSUME req[awaits].pc \in {"check", "run"} \/ req[awaits].refused
          PROVE  Current(awaits) \in OpIds
      <4>1. req[awaits] \in Request /\ req[awaits].todo # {}
        BY <2>2, <3>2, <1>2 DEF Working, AtWork, PushTypes
      <4>. QED
        BY <4>1, FirstIsOne DEF Current, Request
    <3>3. \A o \in OpIds : (Unapplied(o) => Unapplied(o)') /\ (Excused(o) => Excused(o)')
      BY <2>2 DEF Excused
    <3>. QED
      BY <2>2, <3>1, <3>2, <3>3 DEF Fresh
  <2>. QED
    BY <2>1, <2>2 DEF Fresh
<1>7. Parked'
  BY SyncPushAssumption DEF Parked, PushTypes, Excused
<1>8. Told'
  <2>1. \A o \in OpIds : Found(o) => Found(o)'
    BY DEF Found, PushTypes, Operation
  <2>2. ASSUME NEW o \in OpIds, Past(o)'
        PROVE  Found(o)'
    <3>1. Past(o) \/ o \in q.done \/ (q.pc \in {"rest", "store"} /\ o = First(q.todo))
      BY <2>2, <1>1 DEF Past, Current
    <3>. QED
      BY <3>1, <2>1 DEF Told
  <2>. QED
    BY <2>1, <2>2 DEF Told
<1>. QED
  BY <1>3, <1>4, <1>5, <1>6, <1>7, <1>8

(* A request ends, or the device gives it up.  If it is the one the device *)
(* waits for, what leaves the outbox is parked or found.                   *)
LEMMA Ends ==
  ASSUME PushInv, PushTypes', NEW r \in Requests,
         req' = [req EXCEPT ![r] = Idle] \/ (req' = req /\ awaits = r),
         UNCHANGED <<row, keys, queue, applied, halfway>>, torn \subseteq torn',
         awaits' = (IF awaits = r THEN None ELSE awaits),
         outbox' \subseteq outbox, awaits # r => outbox' = outbox,
         \A o \in outbox \ outbox' : o \in parked' \/ Found(o),
         parked \subseteq parked', parked' \intersect outbox' = {},
         \A o \in parked' : Excused(o)',
         \A o \in OpIds : awaits = r /\ StoringFor(o) => o \in keys \union torn' \union parked'
  PROVE  PushInv'
<1>. USE DEF PushInv
<1>1. \A v \in Requests : req'[v] = req[v] \/ (v = r /\ req'[v] = Idle)
  BY DEF PushTypes
<1>2. awaits # None => awaits \in Requests
  BY DEF PushTypes
<1>3. awaits' # None => awaits' = awaits /\ awaits # r /\ req'[awaits] = req[awaits]
  BY <1>1, <1>2
<1>4. Working'
  BY <1>1, IdleIsRequest DEF Working, AtWork
<1>5. Waiting'
  BY <1>3 DEF Waiting
<1>6. Noted'
  BY <1>3 DEF Noted, StoringFor, Unkeyed, At, Current
<1>7. Fresh'
  BY <1>3 DEF Fresh, Current, Unapplied, Excused
<1>8. Parked' /\ AppliedOnce'
  BY DEF Parked, AppliedOnce
<1>9. Told'
  <2>1. \A o \in OpIds : Past(o)' => Past(o)
    BY <1>1, IdleIsRequest DEF Past, Current
  <2>. QED
    BY <2>1 DEF Told, Found
<1>. QED
  BY <1>4, <1>5, <1>6, <1>7, <1>8, <1>9

-----------------------------------------------------------------------------
(* A request at work is at an operation of the outbox it was sent with. *)
LEMMA AtOperation ==
  ASSUME PushInv, NEW r \in Requests, req[r].pc \in AtWork \/ req[r].refused
  PROVE  /\ req[r] \in Request /\ req[r].todo # {}
         /\ Current(r) \in req[r].todo /\ Current(r) \in OpIds
         /\ queue[Current(r)] \in Operation /\ Target(r) \in Entities
         /\ row[Target(r)] \in Row
         /\ awaits = r => Current(r) \in outbox
<1>. USE DEF PushInv, PushTypes
<1>1. req[r] \in Request /\ req[r].todo # {}
  BY DEF Working
<1>2. Current(r) \in req[r].todo /\ Current(r) \in OpIds
  BY <1>1, FirstIsOne DEF Current, Request
<1>3. awaits = r => Current(r) \in outbox
  BY <1>2, SyncPushAssumption DEF Waiting
<1>. QED
  BY <1>1, <1>2, <1>3 DEF Target, Operation

LEMMA InitPushInv == Init => PushInv
<1>. SUFFICES ASSUME Init PROVE PushInv
  OBVIOUS
<1>1. PushTypes
  BY IdleIsRequest DEF Init, PushTypes, Row
<1>2. Working /\ Parked
  BY IdleIsRequest DEF Init, Working, AtWork, Parked
<1>3. Told
  BY IdleIsRequest DEF Init, Told, Past
<1>. QED
  BY <1>1, <1>2, <1>3 DEF Init, PushInv, Waiting, Noted, Fresh, AppliedOnce

-----------------------------------------------------------------------------
(* The device *)
LEMMA PushKeeps ==
  ASSUME PushInv, NEW r \in Requests, Push(r)
  PROVE  PushInv'
<1>. DEFINE q == [Idle EXCEPT !.pc = "key", !.todo = outbox]
<1>. USE DEF PushInv
<1>1. /\ q \in Request /\ q.pc = "key" /\ q.todo = outbox /\ q.done = {} /\ ~q.refused
      /\ outbox # {} /\ awaits = None /\ awaits' = r
  BY DEF Push, PushTypes, Idle, Request
<1>. HIDE DEF q
<1>2. \A v \in Requests : req'[v] = IF v = r THEN q ELSE req[v]
  BY DEF Push, PushTypes, q
<1>3. UNCHANGED <<row, keys, queue, outbox, parked, applied, halfway, torn>>
  BY DEF Push, server, history
<1>4. PushTypes'
  BY <1>1, <1>3 DEF Push, PushTypes, q
<1>5. Working' /\ Waiting'
  BY <1>1, <1>2, <1>3 DEF Working, Waiting
<1>6. Noted' /\ Fresh'
  BY <1>1, <1>2, <1>3 DEF Noted, Fresh, StoringFor
<1>7. Parked' /\ AppliedOnce'
  BY <1>3 DEF Parked, Excused, Unapplied, AppliedOnce
<1>8. Told'
  <2>1. \A o \in OpIds : Past(o)' => Past(o)
    BY <1>1, <1>2 DEF Past, Current
  <2>. QED
    BY <2>1, <1>3 DEF Told, Found
<1>. QED
  BY <1>4, <1>5, <1>6, <1>7, <1>8

(* What is left unkeyed by a request that goes is torn. *)
LEMMA UnkeyedAreOps ==
  ASSUME PushInv, NEW r \in Requests
  PROVE  Unkeyed(r) \subseteq OpIds /\ \A o \in OpIds : awaits = r /\ StoringFor(o) => o \in Unkeyed(r)
<1>1. At(r, "rest") \/ At(r, "store") \/ req[r].refused => Current(r) \in OpIds
  BY AtOperation DEF At, AtWork
<1>. QED
  BY <1>1 DEF Unkeyed, StoringFor

LEMMA GiveUpKeeps == ASSUME PushInv, GiveUp PROVE PushInv'
<1>1. awaits \in Requests
  BY DEF GiveUp, PushInv, PushTypes
<1>2. PushTypes'
  BY <1>1, UnkeyedAreOps DEF GiveUp, PushInv, PushTypes, server
<1>3. \A o \in parked' : Excused(o)'
  BY DEF GiveUp, PushInv, Parked, Excused, Unapplied
<1>4. \A o \in OpIds : StoringFor(o) => o \in torn'
  BY <1>1, UnkeyedAreOps DEF GiveUp
<1>. QED
  BY <1>1, <1>2, <1>3, <1>4, Ends DEF GiveUp, PushInv, Parked, server

LEMMA AnswerKeeps == ASSUME PushInv, NEW r \in Requests, Answer(r) PROVE PushInv'
<1>. DEFINE refused == IF req[r].refused THEN {Current(r)} ELSE {}
<1>1. refused \subseteq OpIds /\ \A o \in refused : req[r].refused /\ o = Current(r)
  BY AtOperation
<1>2. /\ awaits = r => outbox' = outbox \ (req[r].done \union refused)
      /\ awaits = r => parked' = parked \union refused
      /\ awaits # r => outbox' = outbox /\ parked' = parked
      /\ awaits' = (IF awaits = r THEN None ELSE awaits)
      /\ req' = [req EXCEPT ![r] = Idle] /\ req[r].pc = "answer"
      /\ UNCHANGED <<row, keys, queue, applied, halfway, torn>>
  BY DEF Answer, At, server, history
<1>. HIDE DEF refused
<1>3. PushTypes'
  BY <1>1, <1>2, IdleIsRequest DEF PushInv, PushTypes
<1>4. \A o \in outbox \ outbox' : o \in parked' \/ Found(o)
  <2>1. \A o \in OpIds : o \in req[r].done => Found(o)
    BY DEF PushInv, Told, Past
  <2>. QED
    BY <1>2, <2>1 DEF PushInv, PushTypes
<1>5. parked' \intersect outbox' = {}
  BY <1>2 DEF PushInv, Parked
<1>6. \A o \in parked' : Excused(o)'
  <2>1. awaits = r => \A o \in refused : Excused(o)
    BY <1>1, SyncPushAssumption DEF PushInv, Fresh
  <2>. QED
    BY <1>2, <2>1 DEF PushInv, Parked, Excused, Unapplied
<1>7. \A o \in OpIds : awaits = r /\ StoringFor(o) => o \in parked'
  BY <1>2 DEF StoringFor, Unkeyed, At, refused
<1>. QED
  BY <1>2, <1>3, <1>4, <1>5, <1>6, <1>7, Ends

(* An error, wherever it comes: what the request had not stored is noted   *)
(* otherwise.                                                              *)
LEMMA FailsKeeps ==
  ASSUME PushInv, NEW r \in Requests, Fails(r), UNCHANGED <<row, keys, applied, halfway>>,
         torn' = torn \/ torn' = torn \union Unkeyed(r),
         \A o \in OpIds : awaits = r /\ StoringFor(o) => o \in keys \union torn'
  PROVE  PushInv'
<1>1. PushTypes'
  BY UnkeyedAreOps, IdleIsRequest DEF Fails, PushInv, PushTypes
<1>2. \A o \in parked' : Excused(o)'
  BY DEF Fails, PushInv, Parked, Excused, Unapplied
<1>. QED
  BY <1>1, <1>2, Ends DEF Fails, PushInv, Parked

LEMMA LoseRequestKeeps == ASSUME PushInv, NEW r \in Requests, LoseRequest(r) PROVE PushInv'
  BY FailsKeeps, UnkeyedAreOps DEF LoseRequest, server

-----------------------------------------------------------------------------
(* push(), one operation *)

(* Nothing happens but to the request. *)
LEMMA Quiet ==
  ASSUME PushInv, NEW r \in Requests, NEW q \in Request, req' = [req EXCEPT ![r] = q],
         UNCHANGED <<row, keys, queue, outbox, parked, awaits, applied, halfway, torn>>,
         req[r].pc \notin {"rest", "store"}, ~req[r].refused, q.pc # "idle",
         q.pc \in AtWork => q.todo # {} /\ ~q.refused,
         q.refused => q.todo # {},
         q.todo \union q.done = req[r].todo \union req[r].done,
         awaits = r /\ (q.pc \in {"check", "run"} \/ q.refused) => Unapplied(First(q.todo)),
         \A o \in OpIds : (o \in q.done /\ o \notin req[r].done)
                            \/ (q.pc \in {"rest", "store"} /\ o = First(q.todo)) => Found(o)
  PROVE  PushInv'
<1>1. PushTypes' /\ AppliedOnce'
  BY DEF PushInv, PushTypes, AppliedOnce
<1>2. \A o \in OpIds : applied'[o] > 0 =>
           o \in keys' \union torn' \union parked \/ (awaits # r /\ StoringFor(o))
  BY DEF PushInv, Noted, StoringFor, Unkeyed, At
<1>3. \A o \in OpIds : o \in q.done \/ (q.pc \in {"rest", "store"} /\ o = First(q.todo)) => Found(o)'
  <2>1. \A o \in OpIds : o \in req[r].done => Found(o)
    BY DEF PushInv, Told, Past
  <2>. QED
    BY <2>1 DEF Found
<1>4. \A o : Unapplied(o) => Unapplied(o)' /\ Excused(o)'
  BY DEF Unapplied, Excused
<1>. QED
  BY <1>1, <1>2, <1>3, <1>4, GoesOn

(* The key is not there: so the operation the device waits for has not     *)
(* taken effect.                                                           *)
LEMMA FindKeyKeeps == ASSUME PushInv, NEW r \in Requests, FindKey(r) PROVE PushInv'
<1>. DEFINE o == Current(r)
            q == IF Known(o) THEN NextOf(req[r]) ELSE [req[r] EXCEPT !.pc = "check"]
<1>1. /\ req[r].pc = "key" /\ ~req[r].refused /\ req' = [req EXCEPT ![r] = q]
      /\ UNCHANGED <<row, keys, queue, outbox, parked, awaits, applied, halfway, torn>>
  BY DEF FindKey, At, server, device, history, PushInv, Working, AtWork
<1>2. req[r] \in Request /\ req[r].todo # {} /\ o \in OpIds
  BY <1>1, AtOperation DEF AtWork
<1>3. CASE Known(o)
  <2>1. /\ q \in Request /\ ~q.refused /\ q.pc \in {"key", "answer"}
        /\ q.pc = "key" => q.todo # {}
        /\ q.todo \union q.done = req[r].todo \union req[r].done
        /\ q.done = req[r].done \union {o}
    BY <1>1, <1>2, <1>3, NextOfIsRequest DEF Current
  <2>2. Found(o)
    BY <1>2, <1>3 DEF Known, PushInv, Told
  <2>. HIDE DEF q
  <2>. QED
    BY <1>1, <2>1, <2>2, Quiet DEF AtWork
<1>4. CASE ~Known(o)
  <2>1. /\ q \in Request /\ ~q.refused /\ q.pc = "check" /\ q.todo = req[r].todo
        /\ q.done = req[r].done
    BY <1>1, <1>2, <1>4 DEF Request
  <2>2. awaits = r => Unapplied(First(q.todo))
    <3>1. awaits = r => ~StoringFor(o) /\ o \in outbox
      BY <1>1, AtOperation DEF StoringFor, Unkeyed, At, AtWork
    <3>2. awaits = r => o \notin parked
      BY <3>1 DEF PushInv, Parked
    <3>3. applied[o] \in Nat /\ First(q.todo) = o
      BY <1>2, <2>1 DEF PushInv, PushTypes, Current
    <3>. HIDE DEF q
    <3>. QED
      BY <1>2, <1>4, <3>1, <3>2, <3>3 DEF Known, PushInv, Noted, Unapplied
  <2>. HIDE DEF q
  <2>. QED
    BY <1>1, <1>2, <2>1, <2>2, Quiet DEF AtWork
<1>. QED
  BY <1>3, <1>4

(* The request stops at an operation, or goes on to run it. *)
LEMMA StopsOrRuns ==
  ASSUME PushInv, NEW r \in Requests, req[r].pc \in {"check", "run"},
         Refuse(r) \/ (req[r].pc = "check" /\ Goes(r, "run")),
         UNCHANGED <<row, keys, queue, outbox, parked, awaits, applied, halfway, torn>>
  PROVE  PushInv'
<1>1. PICK q \in {StopsAt(req[r]), [req[r] EXCEPT !.pc = "run"]} : req' = [req EXCEPT ![r] = q]
  BY DEF Refuse, Goes
<1>2. req[r] \in Request /\ req[r].todo # {} /\ ~req[r].refused
  BY AtOperation DEF AtWork, PushInv, Working
<1>3. /\ q \in Request /\ q.todo = req[r].todo /\ q.done = req[r].done
      /\ q.pc \in {"run", "answer"} /\ (q.pc = "run" => ~q.refused)
  BY <1>2 DEF StopsAt, Request
<1>4. awaits = r => Unapplied(First(q.todo))
  BY <1>3, SyncPushAssumption DEF PushInv, Fresh, Current
<1>. QED
  BY <1>1, <1>2, <1>3, <1>4, Quiet DEF AtWork

LEMMA CheckVersionKeeps == ASSUME PushInv, NEW r \in Requests, CheckVersion(r) PROVE PushInv'
  BY StopsOrRuns DEF CheckVersion, At, server, device, history

(* A request that has not run its operation owes nothing. *)
LEMMA OwesNothing ==
  ASSUME PushInv, NEW r \in Requests, req[r].pc \in {"key", "check", "run"}
  PROVE  \A o \in OpIds : awaits = r => ~StoringFor(o)
<1>1. ~req[r].refused
  BY DEF PushInv, Working, AtWork
<1>. QED
  BY <1>1 DEF StoringFor, Unkeyed, At

LEMMA MalformedKeeps == ASSUME PushInv, NEW r \in Requests, Malformed(r) PROVE PushInv'
<1>1. req[r].pc \in {"check", "run"} /\ Fails(r) /\ UNCHANGED <<row, keys, applied, halfway, torn>>
  BY DEF Malformed, At, server, history
<1>. QED
  BY <1>1, OwesNothing, FailsKeeps

-----------------------------------------------------------------------------
(* The handler takes effect: on an operation that did not, if the device   *)
(* waits for this request.                                                 *)
LEMMA EffectKeeps ==
  ASSUME PushInv, NEW r \in Requests, req[r].pc = "run",
         NEW pc \in {"rest", "store"}, Effect(r, pc), row' \in [Entities -> Row],
         \A e \in Entities : row[e].state # "none" => row'[e].state # "none",
         UNCHANGED <<keys, queue, outbox, parked, awaits, halfway>>
  PROVE  PushInv'
<1>. DEFINE q == [req[r] EXCEPT !.pc = pc]
<1>0. PICK o \in OpIds : o = Current(r)
  BY AtOperation DEF AtWork
<1>1. /\ req[r] \in Request /\ req[r].todo # {} /\ ~req[r].refused /\ (awaits = r => o \in outbox)
  BY <1>0, AtOperation DEF AtWork, PushInv, Working
<1>2. /\ q \in Request /\ q.pc = pc /\ ~q.refused /\ q.todo = req[r].todo
      /\ q.done = req[r].done /\ req' = [req EXCEPT ![r] = q]
  BY <1>1 DEF Request, Effect, Goes
<1>. HIDE DEF q
<1>5. /\ applied[o] \in Nat
      /\ applied' \in [OpIds -> Nat]
      /\ \A p \in OpIds : applied'[p] = IF p # o THEN applied[p]
                                        ELSE IF applied[o] = 2 THEN 2 ELSE applied[o] + 1
  BY <1>0 DEF Effect, PushInv, PushTypes
<1>6. torn' = IF awaits = r THEN torn ELSE torn \union {o}
  BY <1>0 DEF Effect
<1>7. PushTypes'
  BY <1>2, <1>5, <1>6 DEF PushInv, PushTypes
<1>8. awaits = r => Unapplied(o)
  BY <1>0, SyncPushAssumption DEF PushInv, Fresh
<1>9. AppliedOnce'
  <2>1. ASSUME NEW p \in OpIds, applied'[p] > 1 PROVE p \in torn'
    <3>1. CASE p # o
      BY <2>1, <3>1, <1>5, <1>6 DEF PushInv, AppliedOnce
    <3>2. CASE p = o
      BY <2>1, <3>2, <1>5, <1>6, <1>8 DEF Unapplied
    <3>. QED
      BY <3>1, <3>2
  <2>. QED
    BY <2>1 DEF AppliedOnce
<1>10. \A p \in OpIds : applied'[p] > 0 =>
           \/ p \in keys' \union torn' \union parked
           \/ awaits = r /\ p \in Unkeyed(r)'
           \/ awaits # r /\ StoringFor(p)
  <2>1. Unkeyed(r)' = {o}
    <3>1. req'[r] = q
      BY <1>2 DEF PushInv, PushTypes
    <3>. QED
      BY <1>0, <1>2, <3>1 DEF Unkeyed, At, Current
  <2>2. \A p \in OpIds : awaits = r => ~StoringFor(p)
    BY OwesNothing
  <2>. QED
    BY <1>5, <1>6, <2>1, <2>2 DEF PushInv, Noted
<1>11. \A p \in OpIds : Unapplied(p) => Unapplied(p)' \/ (awaits = r /\ p \in outbox)
  BY <1>1, <1>5, <1>6 DEF Unapplied
<1>12. \A p \in OpIds : p \in q.done \/ (q.pc \in {"rest", "store"} /\ p = First(q.todo)) => Found(p)'
  <2>1. \A p \in OpIds : p \in req[r].done => Found(p)
    BY DEF PushInv, Told, Past
  <2>2. \A p \in OpIds : Found(p) => Found(p)'
    BY <1>5 DEF Found, PushInv, PushTypes, Operation
  <2>3. First(q.todo) = o /\ Found(o)'
    BY <1>0, <1>2, <1>5 DEF Found, Current
  <2>. QED
    BY <1>2, <2>1, <2>2, <2>3
<1>13. \A p \in OpIds : applied[p] > 0 => applied'[p] > 0
  BY <1>5
<1>. QED
  BY <1>0, <1>1, <1>2, <1>7, <1>9, <1>10, <1>11, <1>12, <1>13, GoesOn DEF AtWork

LEMMA TouchedIs ==
  ASSUME PushInv, NEW e \in Entities, NEW state \in {"live", "deleted"}, Touched(e, state)
  PROVE  /\ row' \in [Entities -> Row] /\ row'[e].state = state
         /\ \A d \in Entities : row[d].state # "none" => row'[d].state # "none"
<1>1. row' = [row EXCEPT ![e] = [state |-> state, version |-> row[e].version + 1]]
  BY DEF Touched
<1>. QED
  BY <1>1 DEF PushInv, PushTypes, Row

(* A replay: the row with the id of the operation is there. *)
LEMMA ReplayKeeps ==
  ASSUME PushInv, NEW r \in Requests, req[r].pc = "run", Goes(r, "store"),
         queue[Current(r)].kind \in {"create", "book"}, row[Target(r)].state = "live",
         UNCHANGED <<row, keys, queue, outbox, parked, awaits, applied, halfway, torn>>
  PROVE  PushInv'
<1>. DEFINE q == [req[r] EXCEPT !.pc = "store"]
<1>1. req[r] \in Request /\ req[r].todo # {} /\ ~req[r].refused
  BY AtOperation DEF AtWork, PushInv, Working
<1>2. /\ q \in Request /\ q.pc = "store" /\ ~q.refused /\ q.todo = req[r].todo
      /\ q.done = req[r].done /\ req' = [req EXCEPT ![r] = q]
  BY <1>1 DEF Request, Goes
<1>. HIDE DEF q
<1>3. Found(First(q.todo))
  BY <1>2 DEF Found, Current, Target
<1>. QED
  BY <1>1, <1>2, <1>3, Quiet DEF AtWork

LEMMA RunCreateKeeps == ASSUME PushInv, NEW r \in Requests, RunCreate(r) PROVE PushInv'
<1>1. /\ req[r].pc = "run" /\ UNCHANGED <<keys, halfway>> /\ queue[Current(r)].kind = "create"
      /\ Target(r) \in Entities
  BY AtOperation DEF RunCreate, Runs, At, AtWork
<1>2. CASE /\ row[Target(r)].state = "none" /\ Touched(Target(r), "live") /\ Effect(r, "store")
           /\ UNCHANGED device
  BY <1>1, <1>2, TouchedIs, EffectKeeps DEF device
<1>3. CASE row[Target(r)].state = "live" /\ Goes(r, "store") /\ UNCHANGED <<row, device, applied, torn>>
  BY <1>1, <1>3, ReplayKeeps DEF device
<1>4. CASE row[Target(r)].state = "deleted" /\ Fails(r) /\ UNCHANGED <<row, applied, torn>>
  BY <1>1, <1>4, OwesNothing, FailsKeeps
<1>. QED
  BY <1>2, <1>3, <1>4 DEF RunCreate

LEMMA RunOtherKeeps == ASSUME PushInv, NEW r \in Requests, RunOther(r) PROVE PushInv'
<1>. DEFINE kind == queue[Current(r)].kind
            state == IF kind = "delete" THEN "deleted" ELSE "live"
            pc == IF kind = "several" THEN "rest" ELSE "store"
<1>1. /\ req[r].pc = "run" /\ UNCHANGED <<keys, queue, outbox, parked, awaits, halfway>>
      /\ Target(r) \in Entities
  BY AtOperation DEF RunOther, Runs, At, AtWork, device
<1>2. CASE row[Target(r)].state = "live"
  <2>1. Touched(Target(r), state) /\ Effect(r, pc)
    BY <1>2 DEF RunOther
  <2>2. state \in {"live", "deleted"} /\ pc \in {"rest", "store"}
    OBVIOUS
  <2>. HIDE DEF state, pc
  <2>. QED
    BY <1>1, <2>1, <2>2, TouchedIs, EffectKeeps
<1>3. CASE row[Target(r)].state # "live"
  BY <1>1, <1>3, StopsOrRuns DEF RunOther
<1>. QED
  BY <1>2, <1>3

LEMMA RunBookingKeeps == ASSUME PushInv, NEW r \in Requests, RunBooking(r) PROVE PushInv'
<1>1. /\ req[r].pc = "run" /\ queue[Current(r)].kind = "book"
      /\ UNCHANGED <<row, keys, queue, outbox, parked, awaits, halfway>>
  BY DEF RunBooking, Runs, At, server, device
<1>2. CASE row[Target(r)].state = "live"
  BY <1>1, <1>2, ReplayKeeps DEF RunBooking
<1>3. CASE row[Target(r)].state # "live"
  <2>1. row' \in [Entities -> Row]
    BY <1>1 DEF PushInv, PushTypes
  <2>. QED
    BY <1>1, <1>3, <2>1, EffectKeeps DEF RunBooking
<1>. QED
  BY <1>2, <1>3

(* What is left after the first part: on to the key, or to a refusal. *)
LEMMA RestKeeps ==
  ASSUME PushInv, NEW r \in Requests, req[r].pc = "rest",
         NEW q \in {[req[r] EXCEPT !.pc = "store"], StopsAt(req[r])}, req' = [req EXCEPT ![r] = q],
         row' \in [Entities -> Row],
         \A e \in Entities : row[e].state # "none" => row'[e].state # "none",
         UNCHANGED <<keys, queue, outbox, parked, awaits, applied, torn>>,
         halfway' = halfway \/ halfway' = halfway \union {Current(r)},
         q.refused => Current(r) \in halfway'
  PROVE  PushInv'
<1>1. /\ req[r] \in Request /\ req[r].todo # {} /\ ~req[r].refused /\ Current(r) \in OpIds
  BY AtOperation DEF AtWork, PushInv, Working
<1>2. /\ q \in Request /\ q.todo = req[r].todo /\ q.done = req[r].done
      /\ (q.pc = "store" /\ ~q.refused) \/ (q.pc = "answer" /\ q.refused)
  BY <1>1 DEF StopsAt, Request
<1>3. req'[r] = q /\ First(q.todo) = Current(r)
  BY <1>2 DEF PushInv, PushTypes, Current
<1>4. PushTypes' /\ AppliedOnce'
  BY <1>1, <1>2 DEF PushInv, PushTypes, AppliedOnce
<1>5. Unkeyed(r) = {Current(r)} /\ Unkeyed(r)' = {Current(r)}
  BY <1>1, <1>2, <1>3 DEF Unkeyed, At, Current
<1>6. \A o \in OpIds : applied'[o] > 0 =>
           \/ o \in keys' \union torn' \union parked
           \/ awaits = r /\ o \in Unkeyed(r)'
           \/ awaits # r /\ StoringFor(o)
  BY <1>5 DEF PushInv, Noted, StoringFor
<1>7. \A o \in OpIds : Unapplied(o) => Unapplied(o)'
  BY DEF Unapplied
<1>8. \A o \in OpIds : o \in q.done \/ o = First(q.todo) => Found(o)'
  <2>1. \A o \in OpIds : o \in req[r].done \/ o = Current(r) => Found(o)
    BY <1>1 DEF PushInv, Told, Past
  <2>2. \A o \in OpIds : Found(o) => Found(o)'
    BY DEF Found, PushInv, PushTypes, Operation
  <2>. QED
    BY <1>2, <1>3, <2>1, <2>2
<1>9. q.refused => Excused(First(q.todo))'
  BY <1>3 DEF Excused
<1>. QED
  BY <1>1, <1>2, <1>4, <1>6, <1>7, <1>8, <1>9, GoesOn DEF AtWork

LEMMA RunRestKeeps == ASSUME PushInv, NEW r \in Requests, RunRest(r) PROVE PushInv'
<1>1. /\ req[r].pc = "rest" /\ UNCHANGED <<row, keys, queue, outbox, parked, awaits, applied, torn>>
  BY DEF RunRest, At, server, device
<1>2. row' \in [Entities -> Row] /\ req[r] \in Request /\ ~req[r].refused
  BY <1>1, AtOperation DEF PushInv, PushTypes, Working, AtWork
<1>3. CASE Goes(r, "store") /\ UNCHANGED halfway
  <2>1. ~[req[r] EXCEPT !.pc = "store"].refused
    BY <1>2 DEF Request
  <2>. QED
    BY <1>1, <1>2, <1>3, <2>1, RestKeeps DEF Goes
<1>4. CASE Refuse(r) /\ halfway' = halfway \union {Current(r)}
  BY <1>1, <1>2, <1>4, RestKeeps DEF Refuse
<1>. QED
  BY <1>3, <1>4 DEF RunRest

LEMMA BookRowKeeps == ASSUME PushInv, NEW r \in Requests, BookRow(r) PROVE PushInv'
<1>1. /\ req[r].pc = "rest" /\ UNCHANGED <<keys, applied, halfway>>
      /\ Target(r) \in Entities /\ req[r] \in Request /\ ~req[r].refused
  BY AtOperation DEF BookRow, At, AtWork, PushInv, Working
<1>2. CASE row[Target(r)].state = "none"
  <2>1. Touched(Target(r), "live") /\ Goes(r, "store") /\ UNCHANGED <<queue, outbox, parked, awaits, torn>>
    BY <1>2 DEF BookRow, device
  <2>2. ~[req[r] EXCEPT !.pc = "store"].refused
    BY <1>1 DEF Request
  <2>. QED
    BY <1>1, <2>1, <2>2, TouchedIs, RestKeeps DEF Goes
<1>3. CASE row[Target(r)].state # "none"
  <2>1. Fails(r) /\ torn' = torn \union {Current(r)} /\ UNCHANGED row
    BY <1>3 DEF BookRow
  <2>2. Unkeyed(r) = {Current(r)}
    BY <1>1 DEF Unkeyed, At
  <2>3. \A o \in OpIds : awaits = r /\ StoringFor(o) => o \in keys \union torn'
    BY <2>1, <2>2 DEF StoringFor
  <2>. QED
    BY <1>1, <2>1, <2>2, <2>3, FailsKeeps
<1>. QED
  BY <1>2, <1>3

LEMMA StoreKeyKeeps == ASSUME PushInv, NEW r \in Requests, StoreKey(r) PROVE PushInv'
<1>. DEFINE o == Current(r)
            q == NextOf(req[r])
<1>1. /\ req[r].pc = "store" /\ ~req[r].refused /\ req[r] \in Request /\ req[r].todo # {}
      /\ o \in OpIds /\ UNCHANGED <<row, applied, halfway, torn>>
  BY AtOperation DEF StoreKey, At, AtWork, PushInv, Working, history
<1>2. CASE o \in keys
  <2>1. Fails(r) /\ UNCHANGED keys
    BY <1>2 DEF StoreKey
  <2>2. \A p \in OpIds : awaits = r /\ StoringFor(p) => p \in keys
    BY <1>1, <1>2 DEF StoringFor, Unkeyed, At
  <2>. QED
    BY <1>1, <2>1, <2>2, FailsKeeps
<1>3. CASE o \notin keys
  <2>1. /\ keys' = keys \union {o} /\ req' = [req EXCEPT ![r] = q]
        /\ UNCHANGED <<queue, outbox, parked, awaits>>
    BY <1>3 DEF StoreKey, device
  <2>2. /\ q \in Request /\ ~q.refused /\ q.pc \in {"key", "answer"}
        /\ q.pc = "key" => q.todo # {}
        /\ q.todo \union q.done = req[r].todo \union req[r].done
        /\ q.done = req[r].done \union {o}
    BY <1>1, NextOfIsRequest DEF Current
  <2>. HIDE DEF q
  <2>3. PushTypes' /\ AppliedOnce' /\ \A p \in OpIds : Unapplied(p) => Unapplied(p)'
    BY <1>1, <2>1, <2>2 DEF PushInv, PushTypes, AppliedOnce, Unapplied
  <2>4. \A p \in OpIds : applied'[p] > 0 =>
             p \in keys' \union torn' \union parked \/ (awaits # r /\ StoringFor(p))
    <3>1. Unkeyed(r) = {o}
      BY <1>1 DEF Unkeyed, At
    <3>. QED
      BY <1>1, <2>1, <3>1 DEF PushInv, Noted, StoringFor
  <2>5. \A p \in OpIds : (p \in keys' /\ p \notin keys) \/ p \in q.done => Found(p)'
    <3>1. Found(o) /\ \A p \in OpIds : p \in req[r].done => Found(p)
      BY <1>1 DEF PushInv, Told, Past
    <3>2. \A p : Found(p) => Found(p)'
      BY <1>1, <2>1 DEF Found
    <3>. QED
      BY <2>1, <2>2, <3>1, <3>2
  <2>. QED
    BY <1>1, <2>1, <2>2, <2>3, <2>4, <2>5, GoesOn DEF AtWork
<1>. QED
  BY <1>2, <1>3

-----------------------------------------------------------------------------
(* Another device, and the version the server asks for *)
LEMMA OtherDeviceKeeps ==
  ASSUME PushInv, NEW e \in Entities, NEW state \in {"live", "deleted"}, OtherDevice(e, state)
  PROVE  PushInv'
<1>1. /\ row' = [row EXCEPT ![e] = [state |-> state, version |-> @.version + 1]]
      /\ UNCHANGED <<keys, queue, outbox, parked, awaits, req, applied, halfway, torn>>
  BY DEF OtherDevice, Touched, device, history
<1>2. row' \in [Entities -> Row] /\ \A d \in Entities : row[d].state # "none" => row'[d].state # "none"
  BY <1>1 DEF PushInv, PushTypes, Row
<1>3. PushTypes' /\ Working' /\ Waiting' /\ AppliedOnce'
  BY <1>1, <1>2 DEF PushInv, PushTypes, Working, Waiting, AppliedOnce
<1>4. Noted' /\ Fresh' /\ Parked'
  BY <1>1 DEF PushInv, Noted, StoringFor, Unkeyed, At, Fresh, Parked, Excused, Unapplied, Current
<1>5. Told'
  <2>1. \A o \in OpIds : Found(o) => Found(o)'
    BY <1>1, <1>2 DEF Found, PushInv, PushTypes, Operation
  <2>2. \A o : Past(o)' => Past(o)
    BY <1>1 DEF Past, Current
  <2>. QED
    BY <1>1, <2>1, <2>2 DEF PushInv, Told
<1>. QED
  BY <1>3, <1>4, <1>5 DEF PushInv

LEMMA SameKeeps ==
  ASSUME PushInv, UNCHANGED <<server, device, req, history>>
  PROVE  PushInv'
<1>1. UNCHANGED <<row, keys, queue, outbox, parked, awaits, req, applied, halfway, torn>>
  BY DEF server, device, history
<1>2. PushTypes' /\ Working' /\ Waiting' /\ AppliedOnce'
  BY <1>1 DEF PushInv, PushTypes, Working, Waiting, AppliedOnce
<1>3. Noted' /\ Fresh' /\ Parked'
  BY <1>1 DEF PushInv, Noted, StoringFor, Unkeyed, At, Fresh, Parked, Excused, Unapplied, Current
<1>4. Told'
  BY <1>1 DEF PushInv, Told, Found, Past, Current
<1>. QED
  BY <1>2, <1>3, <1>4 DEF PushInv

LEMMA StepKeepsPushInv == PushInv /\ [Next]_vars => PushInv'
<1>. SUFFICES ASSUME PushInv, [Next]_vars PROVE PushInv'
  OBVIOUS
<1>1. ASSUME NEW r \in Requests, Push(r) \/ Serve(r) \/ LoseRequest(r)
      PROVE  PushInv'
  BY <1>1, PushKeeps, FindKeyKeeps, CheckVersionKeeps, MalformedKeeps, RunCreateKeeps, RunOtherKeeps,
     RunRestKeeps, RunBookingKeeps, BookRowKeeps, StoreKeyKeeps, AnswerKeeps, LoseRequestKeeps DEF Serve
<1>2. CASE GiveUp
  BY <1>2, GiveUpKeeps
<1>3. CASE RaiseMinimum \/ Upgrade
  BY <1>3, SameKeeps DEF RaiseMinimum, Upgrade
<1>4. CASE \E e \in Entities, state \in {"live", "deleted"} : OtherDevice(e, state)
  BY <1>4, OtherDeviceKeeps
<1>5. CASE UNCHANGED vars
  BY <1>5, SameKeeps DEF vars
<1>. QED
  BY <1>1, <1>2, <1>3, <1>4, <1>5 DEF Next

LEMMA PushInvHolds == Spec => []PushInv
  BY InitPushInv, StepKeepsPushInv, PTL DEF Spec

-----------------------------------------------------------------------------
(* RG-SY2, sync.service.ts (push): whatever requests are lost, given up or *)
(* served together, an operation takes effect once, unless its effect was  *)
(* torn from its key, by a request that was lost or given up or by a       *)
(* handler that failed after it.                                           *)
THEOREM AppliedAtMostOnce == Spec => []AppliedOnce
<1>1. PushInv => AppliedOnce
  BY DEF PushInv
<1>. QED
  BY <1>1, PushInvHolds, PTL

(* sync.service.ts (push), sync-conflict.error.ts: the device is done only *)
(* with operations that took effect or found the row they create, and what *)
(* it was refused did not take effect, unless torn, or unless its first    *)
(* parts were committed before a later one was refused.                    *)
THEOREM AnswersAreTrue == Spec => []AnswerIsTrue
<1>1. PushInv => AnswerIsTrue
  BY DEF PushInv, Parked, Excused, Unapplied, Told, Found, AnswerIsTrue
<1>. QED
  BY <1>1, PushInvHolds, PTL


-----------------------------------------------------------------------------
(* The change feed *)

Entry == [e : Rows, stamp : Nat, version : Nat]

FeedTypes ==
  /\ stored \in [Rows -> FeedRow] /\ now \in Nat \ {0}
  /\ writer \in [Writers -> [e : Rows \union {0}, stamp : Nat, deleted : BOOLEAN]]
  /\ cursor \in Nat \X Nat /\ replica \in [Rows -> Nat] /\ overtaken \subseteq Rows
  /\ pull \in [pc : {"idle", "reading"}, read : [TableIds -> SUBSET Entry],
               left : SUBSET TableIds, start : [Rows -> Nat], slipped : SUBSET Rows]

Stamped == \A w \in Writers : writer[w].e # 0 => writer[w].stamp # 0

Unwritten == \A e \in Rows : stored[e].stamp = 0 => stored[e].version = 0 /\ replica[e] = 0

EntryOf(e) == [e |-> e, stamp |-> stored[e].stamp, version |-> stored[e].version]

(* What was read of a table is true of it, but for the rows that slipped.  *)
ReadIsTrue == \A t \in TableIds : IsFiniteSet(pull.read[t]) /\ \A x \in pull.read[t] :
  /\ pull.pc = "reading" /\ TableOf(x.e) = t /\ t \notin pull.left
  /\ stored[x.e].stamp # 0
  /\ x.e \in pull.slipped \/ x = EntryOf(x.e)

(* What was read of the table fills the page, and comes before the row.    *)
CutOff(e) == LET read == pull.read[TableOf(e)] IN
  Cardinality(read) = Limit /\ \A x \in read : Before(Place(x), Pos(e))

(* And it is all there is to read of it.                                   *)
ReadIsWhole == pull.pc = "reading" =>
  \A e \in Rows : TableOf(e) \notin pull.left /\ e \notin pull.slipped
                  /\ stored[e].stamp # 0 /\ After(e) =>
    EntryOf(e) \in pull.read[TableOf(e)] \/ CutOff(e)

(* A row that slipped has been written again since the page was begun.     *)
Started == pull.pc = "reading" => \A e \in Rows :
  pull.start[e] <= stored[e].version /\ (e \in pull.slipped => pull.start[e] < stored[e].version)

FeedInv == FeedTypes /\ Stamped /\ Unwritten /\ ReadIsTrue /\ ReadIsWhole /\ Started
             /\ BehindIsDelivered

-----------------------------------------------------------------------------
(* Positions of the feed. *)
LEMMA BeforeIsAnOrder ==
  ASSUME NEW p \in Nat \X Nat, NEW q \in Nat \X Nat
  PROVE  /\ ~Before(p, p) /\ (Before(p, q) \/ Before(q, p) \/ p = q)
         /\ \A r \in Nat \X Nat : /\ Before(p, q) /\ Before(q, r) => Before(p, r)
                                  /\ Before(p, q) /\ ~Before(r, q) => Before(p, r)
                                  /\ ~Before(q, p) /\ Before(q, r) => Before(p, r)
                                  /\ ~Before(q, p) /\ ~Before(r, q) => ~Before(r, p)
  BY DEF Before

LEMMA EntriesHavePlaces == \A x \in Entry : Place(x) \in Nat \X Nat /\ x.e \in Rows
  BY ChangeFeedAssumption DEF Entry, Place

-----------------------------------------------------------------------------
(* The first of a finite set of rows. *)
Ahead(S, x) == {y \in S : Before(Place(y), Place(x))}

LEMMA AheadIsFinite ==
  ASSUME NEW S, S \subseteq Entry, IsFiniteSet(S), NEW x \in S
  PROVE  /\ IsFiniteSet(Ahead(S, x)) /\ Cardinality(Ahead(S, x)) \in Nat /\ x \notin Ahead(S, x)
         /\ Cardinality(S) \in Nat /\ Cardinality(Ahead(S, x)) < Cardinality(S)
<1>. DEFINE T == Ahead(S, x)
<1>1. T \in SUBSET S
  BY DEF Ahead
<1>2. x \notin T
  BY EntriesHavePlaces, BeforeIsAnOrder DEF Ahead
<1>. HIDE DEF T
<1>3. IsFiniteSet(T) /\ Cardinality(T) <= Cardinality(S) /\ (Cardinality(S) = Cardinality(T) => S = T)
  BY <1>1, FS_Subset
<1>4. Cardinality(T) \in Nat /\ Cardinality(S) \in Nat
  BY <1>3, FS_CardinalityType
<1>5. Cardinality(T) < Cardinality(S)
  BY <1>2, <1>3, <1>4
<1>. QED
  BY <1>2, <1>3, <1>4, <1>5 DEF T

LEMMA RankGrows ==
  ASSUME NEW S, S \subseteq Entry, IsFiniteSet(S), NEW x \in S, NEW y \in S,
         Before(Place(x), Place(y))
  PROVE  Cardinality(Ahead(S, x)) < Cardinality(Ahead(S, y))
<1>. DEFINE X == Ahead(S, x)
            Y == Ahead(S, y)
<1>1. X \in SUBSET Y
  BY EntriesHavePlaces, BeforeIsAnOrder DEF Ahead
<1>2. x \in Y
  BY DEF Ahead
<1>3. /\ IsFiniteSet(X) /\ Cardinality(X) \in Nat /\ x \notin X
      /\ IsFiniteSet(Y) /\ Cardinality(Y) \in Nat
  BY AheadIsFinite
<1>. HIDE DEF X, Y
<1>4. Cardinality(X) <= Cardinality(Y) /\ (Cardinality(Y) = Cardinality(X) => Y = X)
  BY <1>1, <1>3, FS_Subset
<1>5. Cardinality(X) < Cardinality(Y)
  BY <1>2, <1>3, <1>4
<1>. QED
  BY <1>5 DEF X, Y

LEMMA HasEarliest ==
  ASSUME NEW S, S \subseteq Entry, IsFiniteSet(S), S # {}
  PROVE  \E x \in S : \A y \in S : ~Before(Place(y), Place(x))
<1>. DEFINE Ranks == {Cardinality(Ahead(S, x)) : x \in S}
<1>1. Ranks \in SUBSET Nat /\ Ranks # {}
  BY AheadIsFinite
<1>2. PICK n \in Ranks : \A m \in Ranks : n <= m
  <2>. HIDE DEF Ranks
  <2>. QED
    BY <1>1, HasFirst
<1>3. PICK x \in S : n = Cardinality(Ahead(S, x))
  BY <1>2
<1>4. ASSUME NEW y \in S PROVE ~Before(Place(y), Place(x))
  <2>1. Cardinality(Ahead(S, y)) \in Nat /\ Cardinality(Ahead(S, x)) \in Nat
    BY AheadIsFinite
  <2>2. Cardinality(Ahead(S, x)) <= Cardinality(Ahead(S, y))
    BY <1>2, <1>3
  <2>. QED
    BY <2>1, <2>2, RankGrows
<1>. QED
  BY <1>4

LEMMA HasLast ==
  ASSUME NEW S, S \subseteq Entry, IsFiniteSet(S), S # {}
  PROVE  LastOf(S) \in S /\ \A y \in S : ~Before(Place(LastOf(S)), Place(y))
<1>. DEFINE Ranks == {Cardinality(S) - Cardinality(Ahead(S, x)) : x \in S}
<1>0. \A x \in S : Cardinality(S) - Cardinality(Ahead(S, x)) \in Nat
  BY AheadIsFinite
<1>1. Ranks \in SUBSET Nat /\ Ranks # {}
  BY <1>0
<1>2. PICK n \in Ranks : \A m \in Ranks : n <= m
  <2>. HIDE DEF Ranks
  <2>. QED
    BY <1>1, HasFirst
<1>3. PICK x \in S : n = Cardinality(S) - Cardinality(Ahead(S, x))
  BY <1>2
<1>4. ASSUME NEW y \in S PROVE ~Before(Place(x), Place(y))
  <2>1. /\ Cardinality(Ahead(S, y)) \in Nat /\ Cardinality(Ahead(S, x)) \in Nat
        /\ Cardinality(S) \in Nat
    BY AheadIsFinite
  <2>2. Cardinality(S) - Cardinality(Ahead(S, x)) <= Cardinality(S) - Cardinality(Ahead(S, y))
    BY <1>2, <1>3
  <2>. QED
    BY <2>1, <2>2, RankGrows
<1>. QED
  BY <1>4 DEF LastOf

LEMMA FirstOfIs ==
  ASSUME NEW S, S \subseteq Entry, IsFiniteSet(S), NEW n \in Nat
  PROVE  /\ FirstOf(S, n) \subseteq S /\ IsFiniteSet(FirstOf(S, n))
         /\ \A x \in FirstOf(S, n), y \in S \ FirstOf(S, n) : Before(Place(x), Place(y))
         /\ Cardinality(S) <= n => FirstOf(S, n) = S
<1>1. FirstOf(S, n) = {x \in S : Cardinality(Ahead(S, x)) < n}
  BY DEF FirstOf, Ahead
<1>2. IsFiniteSet(FirstOf(S, n))
  BY <1>1, FS_Subset
<1>3. ASSUME NEW x \in FirstOf(S, n), NEW y \in S \ FirstOf(S, n)
      PROVE  Before(Place(x), Place(y))
  <2>1. /\ Cardinality(Ahead(S, x)) \in Nat /\ Cardinality(Ahead(S, y)) \in Nat
        /\ Cardinality(Ahead(S, x)) < Cardinality(Ahead(S, y))
    BY <1>1, AheadIsFinite
  <2>2. ~Before(Place(y), Place(x))
    BY <1>1, <2>1, RankGrows
  <2>3. Place(x) # Place(y)
    <3>1. Place(x) = Place(y) => Ahead(S, x) = Ahead(S, y)
      BY DEF Ahead
    <3>. QED
      BY <2>1, <3>1
  <2>. QED
    BY <1>1, <2>2, <2>3, EntriesHavePlaces, BeforeIsAnOrder
<1>4. ASSUME Cardinality(S) <= n, NEW x \in S PROVE x \in FirstOf(S, n)
  <2>1. Cardinality(Ahead(S, x)) \in Nat /\ Cardinality(S) \in Nat
        /\ Cardinality(Ahead(S, x)) < Cardinality(S)
    BY AheadIsFinite
  <2>. QED
    BY <1>1, <1>4, <2>1
<1>. QED
  BY <1>1, <1>2, <1>3, <1>4

(* A page that leaves something out is full. *)
LEMMA FirstOfIsFull ==
  ASSUME NEW S, S \subseteq Entry, IsFiniteSet(S), NEW n \in Nat \ {0}, FirstOf(S, n) # S,
         \A x, y \in S : Place(x) = Place(y) => x = y
  PROVE  Cardinality(FirstOf(S, n)) = n
<1>. DEFINE F == FirstOf(S, n)
            R == S \ F
<1>1. F = {x \in S : Cardinality(Ahead(S, x)) < n}
  BY DEF FirstOf, Ahead
<1>2. /\ F \subseteq S /\ IsFiniteSet(F)
      /\ \A x \in F, y \in S \ F : Before(Place(x), Place(y))
  BY FirstOfIs
<1>. HIDE DEF F
<1>3. R # {} /\ R \subseteq Entry /\ IsFiniteSet(R)
  BY <1>2, FS_Subset DEF F
<1>4. PICK m \in R : \A y \in R : ~Before(Place(y), Place(m))
  <2>. HIDE DEF R
  <2>. QED
    BY <1>3, HasEarliest
<1>5. Ahead(S, m) = F
  BY <1>2, <1>4 DEF Ahead
<1>6. Cardinality(F) \in Nat /\ Cardinality(F) >= n
  <2>1. Cardinality(F) \in Nat
    BY <1>2, FS_CardinalityType
  <2>2. m \in S /\ m \notin F
    OBVIOUS
  <2>. QED
    BY <1>1, <1>5, <2>1, <2>2
<1>7. F # {}
  BY <1>6, FS_EmptySet
<1>8. PICK l \in F : \A y \in F : ~Before(Place(l), Place(y))
  BY <1>2, <1>7, HasLast
<1>9. F \ {l} \subseteq Ahead(S, l)
  BY <1>2, <1>8, EntriesHavePlaces, BeforeIsAnOrder DEF Ahead
<1>10. IsFiniteSet(F \ {l}) /\ Cardinality(F \ {l}) = Cardinality(F) - 1
  BY <1>2, FS_RemoveElement
<1>11. IsFiniteSet(Ahead(S, l)) /\ Cardinality(Ahead(S, l)) \in Nat /\ Cardinality(Ahead(S, l)) < n
  BY <1>1, AheadIsFinite
<1>12. Cardinality(F \ {l}) <= Cardinality(Ahead(S, l))
  BY <1>9, <1>11, FS_Subset
<1>13. Cardinality(F) = n
  BY <1>6, <1>10, <1>11, <1>12
<1>. QED
  BY <1>13 DEF F

(* A full part of the candidates keeps what comes after it off the page.   *)
LEMMA FullKeepsOff ==
  ASSUME NEW S, S \subseteq Entry, IsFiniteSet(S), NEW n \in Nat,
         NEW T, T \subseteq S, Cardinality(T) = n, NEW p \in Nat \X Nat,
         \A y \in T : Before(Place(y), p), NEW x \in FirstOf(S, n)
  PROVE  Before(Place(x), p)
<1>1. x \in S /\ Cardinality(Ahead(S, x)) < n
  BY DEF FirstOf, Ahead
<1>2. SUFFICES ASSUME ~Before(Place(x), p) PROVE FALSE
  OBVIOUS
<1>3. ASSUME NEW y \in T PROVE Before(Place(y), Place(x))
  <2>1. Place(y) \in Nat \X Nat /\ Place(x) \in Nat \X Nat /\ Before(Place(y), p) /\ ~Before(Place(x), p)
    BY <1>1, <1>2, EntriesHavePlaces
  <2>. QED
    BY <2>1, BeforeIsAnOrder
<1>4. T \subseteq Ahead(S, x)
  BY <1>3 DEF Ahead
<1>5. IsFiniteSet(Ahead(S, x)) /\ Cardinality(Ahead(S, x)) \in Nat
  BY <1>1, AheadIsFinite
<1>6. Cardinality(T) <= Cardinality(Ahead(S, x))
  BY <1>4, <1>5, FS_Subset
<1>. QED
  BY <1>1, <1>5, <1>6

-----------------------------------------------------------------------------
LEMMA FeedConstants ==
  /\ Rows \subseteq Nat \ {0} /\ IsFiniteSet(Rows) /\ Limit \in Nat \ {0} /\ Tables \in Nat \ {0}
  /\ \A e \in Rows : TableOf(e) \in TableIds
  /\ IsFiniteSet(TableIds)
<1>1. /\ Rows \subseteq Nat \ {0} /\ IsFiniteSet(Rows) /\ Limit \in Nat \ {0}
      /\ Tables \in Nat \ {0}
  BY ChangeFeedAssumption
<1>2. \A e \in Rows : TableOf(e) \in TableIds
  BY <1>1 DEF TableOf, TableIds
<1>3. 0 \in Int /\ Tables - 1 \in Int
  BY <1>1
<1>4. IsFiniteSet(TableIds)
  BY <1>3, FS_Interval DEF TableIds
<1>. QED
  BY <1>1, <1>2, <1>4

LEMMA NotPullingIs ==
  /\ NotPulling \in [pc : {"idle", "reading"}, read : [TableIds -> SUBSET Entry],
                     left : SUBSET TableIds, start : [Rows -> Nat], slipped : SUBSET Rows]
  /\ NotPulling.pc = "idle" /\ \A t \in TableIds : NotPulling.read[t] = {} /\ IsFiniteSet({})
  BY FS_EmptySet DEF NotPulling

LEMMA InitFeedInv == FeedInit => FeedInv
<1>. SUFFICES ASSUME FeedInit PROVE FeedInv
  OBVIOUS
<1>1. NoRow \in FeedRow
  BY DEF NoRow, FeedRow
<1>2. FeedTypes
  BY <1>1, NotPullingIs DEF FeedInit, FeedTypes
<1>3. Stamped /\ Unwritten /\ ReadIsTrue /\ ReadIsWhole /\ Started /\ BehindIsDelivered
  BY <1>2, NotPullingIs
  DEF FeedInit, Stamped, Unwritten, NoRow, ReadIsTrue, ReadIsWhole, Started, BehindIsDelivered
<1>. QED
  BY <1>2, <1>3 DEF FeedInv

-----------------------------------------------------------------------------
(* What the feed says depends on these alone. *)
LEMMA FeedStands ==
  ASSUME FeedInv, FeedTypes', Stamped', UNCHANGED <<stored, cursor, replica, pull, overtaken>>
  PROVE  FeedInv'
  BY DEF FeedInv, Unwritten, ReadIsTrue, EntryOf, CutOff, ReadIsWhole, Started, BehindIsDelivered,
         After, Pos, Delivered

LEMMA TickKeeps == ASSUME FeedInv, Tick PROVE FeedInv'
<1>1. FeedTypes' /\ Stamped'
  BY DEF FeedInv, FeedTypes, Stamped, Tick
<1>. QED
  BY <1>1, FeedStands DEF Tick

LEMMA StampKeeps ==
  ASSUME FeedInv, NEW w \in Writers, NEW e \in Rows, NEW d \in BOOLEAN, Stamp(w, e, d)
  PROVE  FeedInv'
<1>1. FeedTypes' /\ Stamped'
  BY DEF FeedInv, FeedTypes, Stamped, Stamp
<1>. QED
  BY <1>1, FeedStands DEF Stamp

LEMMA AbandonKeeps ==
  ASSUME FeedInv, pull' = NotPulling, UNCHANGED <<stored, now, writer, cursor, replica, overtaken>>
  PROVE  FeedInv'
<1>1. FeedTypes' /\ Stamped' /\ Unwritten' /\ BehindIsDelivered'
  BY NotPullingIs
  DEF FeedInv, FeedTypes, Stamped, Unwritten, BehindIsDelivered, Pos, Delivered
<1>2. ReadIsTrue' /\ ReadIsWhole' /\ Started'
  BY NotPullingIs DEF ReadIsTrue, ReadIsWhole, Started
<1>. QED
  BY <1>1, <1>2 DEF FeedInv

LEMMA StartPageKeeps == ASSUME FeedInv, StartPage PROVE FeedInv'
<1>1. /\ pull' \in [pc : {"idle", "reading"}, read : [TableIds -> SUBSET Entry],
                    left : SUBSET TableIds, start : [Rows -> Nat], slipped : SUBSET Rows]
      /\ pull'.left = TableIds /\ pull'.slipped = {}
      /\ \A t \in TableIds : pull'.read[t] = {}
      /\ \A e \in Rows : pull'.start[e] = stored[e].version /\ stored[e].version \in Nat
  BY DEF StartPage, NotPulling, FeedInv, FeedTypes, FeedRow
<1>2. FeedTypes' /\ Stamped' /\ Unwritten' /\ BehindIsDelivered'
  BY <1>1
  DEF FeedInv, FeedTypes, Stamped, Unwritten, BehindIsDelivered, Pos, Delivered, StartPage
<1>3. ReadIsTrue'
  BY <1>1, FS_EmptySet DEF ReadIsTrue
<1>4. ReadIsWhole'
  BY <1>1, FeedConstants DEF ReadIsWhole
<1>5. Started'
  <2>1. stored' = stored
    BY DEF StartPage
  <2>2. \A e \in Rows : pull'.start[e] <= stored'[e].version /\ e \notin pull'.slipped
    BY <1>1, <2>1
  <2>. QED
    BY <2>2 DEF Started
<1>. QED
  BY <1>2, <1>3, <1>4, <1>5 DEF FeedInv

-----------------------------------------------------------------------------
(* A row committed after its table was read slips; one committed before is *)
(* not among the rows read yet.                                            *)
LEMMA CommitKeeps == ASSUME FeedInv, NEW w \in Writers, Commit(w) PROVE FeedInv'
<1>. PICK b : b = writer[w].e
  OBVIOUS
<1>1. /\ b \in Rows /\ writer[w].stamp \in Nat \ {0} /\ writer[w].deleted \in BOOLEAN
      /\ stored \in [Rows -> FeedRow] /\ stored[b] \in FeedRow /\ stored[b].version \in Nat
  BY DEF FeedInv, FeedTypes, Stamped, Commit, FeedRow
<1>2. /\ stored' \in [Rows -> FeedRow]
      /\ stored'[b].stamp = writer[w].stamp /\ stored'[b].version = stored[b].version + 1
      /\ \A e \in Rows : e # b => stored'[e] = stored[e]
  BY <1>1 DEF Commit, FeedRow
<1>3. /\ pull' \in [pc : {"idle", "reading"}, read : [TableIds -> SUBSET Entry],
                    left : SUBSET TableIds, start : [Rows -> Nat], slipped : SUBSET Rows]
      /\ pull'.pc = pull.pc /\ pull'.read = pull.read /\ pull'.left = pull.left
      /\ pull'.start = pull.start
      /\ \A e \in Rows : e # b => (e \in pull'.slipped <=> e \in pull.slipped)
      /\ pull.pc = "reading" /\ TableOf(b) \notin pull.left => b \in pull'.slipped
      /\ b \in pull'.slipped => b \in pull.slipped \/ (pull.pc = "reading" /\ TableOf(b) \notin pull.left)
  BY <1>1 DEF Commit, FeedInv, FeedTypes
<1>4. FeedTypes' /\ Stamped'
  <2>1. FeedTypes'
    BY <1>1, <1>2, <1>3 DEF FeedInv, FeedTypes, Commit
  <2>2. Stamped'
    BY DEF FeedInv, FeedTypes, Stamped, Commit
  <2>. QED
    BY <2>1, <2>2
<1>5. Unwritten'
  BY <1>1, <1>2 DEF FeedInv, Unwritten, Commit
<1>6. ReadIsTrue'
  <2>. SUFFICES ASSUME NEW t \in TableIds, NEW x \in pull.read[t]
                PROVE  /\ stored'[x.e].stamp # 0
                       /\ x.e \in pull'.slipped \/ x = EntryOf(x.e)'
    BY <1>3 DEF ReadIsTrue, FeedInv
  <2>1. /\ pull.pc = "reading" /\ TableOf(x.e) = t /\ t \notin pull.left
        /\ stored[x.e].stamp # 0 /\ (x.e \in pull.slipped \/ x = EntryOf(x.e))
        /\ x.e \in Rows
    BY DEF ReadIsTrue, FeedInv, FeedTypes, Entry
  <2>2. CASE x.e = b
    BY <1>1, <1>2, <1>3, <2>1, <2>2
  <2>3. CASE x.e # b
    BY <1>2, <1>3, <2>1, <2>3 DEF EntryOf
  <2>. QED
    BY <2>2, <2>3
<1>7. ReadIsWhole'
  <2>. SUFFICES ASSUME pull.pc = "reading", NEW e \in Rows,
                       TableOf(e) \notin pull.left, e \notin pull'.slipped,
                       stored'[e].stamp # 0, After(e)'
                PROVE  EntryOf(e)' \in pull.read[TableOf(e)] \/ CutOff(e)'
    BY <1>3 DEF ReadIsWhole
  <2>1. e # b
    BY <1>3
  <2>2. stored'[e] = stored[e] /\ e \notin pull.slipped
    BY <1>2, <1>3, <2>1
  <2>3. After(e) /\ EntryOf(e)' = EntryOf(e) /\ (CutOff(e) => CutOff(e)')
    BY <1>3, <2>2 DEF After, Pos, EntryOf, CutOff, Commit
  <2>. QED
    BY <2>2, <2>3 DEF FeedInv, ReadIsWhole
<1>8. Started'
  <2>. SUFFICES ASSUME pull.pc = "reading", NEW e \in Rows
                PROVE  /\ pull.start[e] <= stored'[e].version
                       /\ e \in pull'.slipped => pull.start[e] < stored'[e].version
    BY <1>3 DEF Started
  <2>1. /\ pull.start[e] \in Nat /\ stored[e].version \in Nat /\ pull.start[e] <= stored[e].version
        /\ e \in pull.slipped => pull.start[e] < stored[e].version
    BY DEF FeedInv, FeedTypes, FeedRow, Started
  <2>2. CASE e = b
    BY <1>1, <1>2, <2>1, <2>2
  <2>3. CASE e # b
    BY <1>2, <1>3, <2>1, <2>3
  <2>. QED
    BY <2>2, <2>3
<1>9. BehindIsDelivered'
  <2>. SUFFICES ASSUME NEW e \in Rows, stored'[e].stamp # 0, Behind(Pos(e)', cursor)
                PROVE  Delivered(e)' \/ e \in overtaken'
    BY DEF BehindIsDelivered, Commit, Behind
  <2>1. CASE e = b
    BY <1>2, <2>1 DEF Commit, Pos
  <2>2. CASE e # b
    <3>1. stored'[e] = stored[e] /\ Pos(e)' = Pos(e) /\ replica' = replica
      BY <1>2, <2>2 DEF Pos, Commit
    <3>2. Delivered(e) \/ e \in overtaken
      BY <3>1 DEF FeedInv, BehindIsDelivered
    <3>3. e \in overtaken => e \in overtaken'
      BY <2>2 DEF Commit
    <3>. QED
      BY <3>1, <3>2, <3>3 DEF Delivered
  <2>. QED
    BY <2>1, <2>2
<1>. QED
  BY <1>4, <1>5, <1>6, <1>7, <1>8, <1>9 DEF FeedInv

-----------------------------------------------------------------------------
(* A table is read up to the size of a page.                               *)
Unread(t) == {e \in Rows : TableOf(e) = t /\ stored[e].stamp # 0 /\ After(e)}

LEMMA ReadTableKeeps == ASSUME FeedInv, NEW t \in TableIds, ReadTable(t) PROVE FeedInv'
<1>. DEFINE U == {EntryOf(e) : e \in Unread(t)}
<1>1. /\ pull.pc = "reading" /\ t \in pull.left
      /\ pull' = [pull EXCEPT !.read[t] = FirstOf(U, Limit), !.left = @ \ {t}]
      /\ UNCHANGED <<stored, now, writer, writes, lost, cursor, replica, overtaken>>
  BY DEF ReadTable, EntryOf, Unread
<1>2. U \subseteq Entry
  BY DEF FeedInv, FeedTypes, FeedRow, Entry, EntryOf, Unread
<1>3. IsFiniteSet(U)
  <2>1. IsFiniteSet(Unread(t))
    BY FeedConstants, FS_Subset DEF Unread
  <2>. DEFINE D == Unread(t)
  <2>. HIDE DEF D
  <2>. DEFINE f == [e \in D |-> EntryOf(e)]
  <2>2. f \in Surjection(D, {EntryOf(e) : e \in D})
    BY DEF Surjection
  <2>. HIDE DEF f
  <2>3. IsFiniteSet({EntryOf(e) : e \in D})
    BY <2>1, <2>2, FS_Surjection DEF D
  <2>. QED
    BY <2>3 DEF D
<1>4. \A x, y \in U : Place(x) = Place(y) => x = y
  BY DEF Place, EntryOf
<1>5. \A x \in U : /\ TableOf(x.e) = t /\ stored[x.e].stamp # 0 /\ x = EntryOf(x.e)
                   /\ Place(x) = Pos(x.e)
  BY DEF EntryOf, Unread, Place, Pos
<1>6. \A e \in Rows : TableOf(e) = t /\ stored[e].stamp # 0 /\ After(e)
                        => EntryOf(e) \in U /\ Place(EntryOf(e)) = Pos(e)
  BY DEF Unread, EntryOf, Place, Pos
<1>. HIDE DEF U
<1>. PICK F : F = FirstOf(U, Limit)
  OBVIOUS
<1>7. Limit \in Nat \ {0}
  BY FeedConstants
<1>8. /\ F \subseteq U /\ IsFiniteSet(F)
      /\ \A x \in F, y \in U \ F : Before(Place(x), Place(y))
  BY <1>2, <1>3, <1>7, FirstOfIs
<1>9. F # U => Cardinality(F) = Limit
  BY <1>2, <1>3, <1>4, <1>7, FirstOfIsFull
<1>10. F \in SUBSET Entry
  BY <1>2, <1>8
<1>11. /\ pull' \in [pc : {"idle", "reading"}, read : [TableIds -> SUBSET Entry],
                     left : SUBSET TableIds, start : [Rows -> Nat], slipped : SUBSET Rows]
       /\ pull'.pc = "reading" /\ pull'.left = pull.left \ {t}
       /\ pull'.start = pull.start /\ pull'.slipped = pull.slipped
       /\ pull'.read[t] = F /\ \A u \in TableIds : u # t => pull'.read[u] = pull.read[u]
  BY <1>1, <1>10 DEF FeedInv, FeedTypes
<1>12. FeedTypes' /\ Stamped' /\ Unwritten' /\ BehindIsDelivered'
  BY <1>1, <1>11
  DEF FeedInv, FeedTypes, Stamped, Unwritten, BehindIsDelivered, Pos, Delivered
<1>13. \A e \in Rows : EntryOf(e)' = EntryOf(e) /\ After(e)' = After(e) /\ Pos(e)' = Pos(e)
  BY <1>1 DEF EntryOf, After, Pos
<1>14. ReadIsTrue'
  <2>. SUFFICES ASSUME NEW u \in TableIds
                PROVE  /\ IsFiniteSet(pull'.read[u])
                       /\ \A x \in pull'.read[u] :
                            /\ TableOf(x.e) = u /\ u \notin pull'.left
                            /\ stored[x.e].stamp # 0
                            /\ x.e \in pull'.slipped \/ x = EntryOf(x.e)
    BY <1>1, <1>11 DEF ReadIsTrue, EntryOf
  <2>1. CASE u = t
    BY <1>5, <1>8, <1>11, <2>1
  <2>2. CASE u # t
    BY <1>11, <2>2 DEF FeedInv, ReadIsTrue
  <2>. QED
    BY <2>1, <2>2
<1>15. ReadIsWhole'
  <2>. SUFFICES ASSUME NEW e \in Rows, TableOf(e) \notin pull'.left, e \notin pull.slipped,
                       stored[e].stamp # 0, After(e)
                PROVE  EntryOf(e) \in pull'.read[TableOf(e)] \/ CutOff(e)'
    BY <1>1, <1>11, <1>13 DEF ReadIsWhole
  <2>1. CASE TableOf(e) = t
    <3>1. EntryOf(e) \in U /\ Place(EntryOf(e)) = Pos(e)
      BY <1>6, <2>1
    <3>2. ASSUME EntryOf(e) \notin F PROVE CutOff(e)'
      <4>1. Cardinality(F) = Limit /\ \A x \in F : Before(Place(x), Pos(e))
        BY <1>8, <1>9, <3>1, <3>2
      <4>. QED
        BY <1>11, <1>13, <2>1, <4>1 DEF CutOff
    <3>. QED
      BY <1>11, <2>1, <3>2
  <2>2. CASE TableOf(e) # t
    <3>1. TableOf(e) \in TableIds /\ TableOf(e) \notin pull.left
      BY <1>11, <2>2, FeedConstants
    <3>2. EntryOf(e) \in pull.read[TableOf(e)] \/ CutOff(e)
      BY <1>1, <3>1 DEF FeedInv, ReadIsWhole
    <3>3. CutOff(e) => CutOff(e)'
      BY <1>11, <1>13, <2>2, <3>1 DEF CutOff
    <3>. QED
      BY <1>11, <2>2, <3>1, <3>2, <3>3
  <2>. QED
    BY <2>1, <2>2
<1>16. Started'
  BY <1>1, <1>11 DEF FeedInv, Started
<1>. QED
  BY <1>12, <1>14, <1>15, <1>16 DEF FeedInv

-----------------------------------------------------------------------------
(* The page.  An entry of it that did not slip is the row; a row that was  *)
(* to be read and is not on the page comes after the whole of it.          *)
LEMMA CandidatesAre ==
  ASSUME FeedInv
  PROVE  /\ Candidates \subseteq Entry /\ IsFiniteSet(Candidates)
         /\ Page \subseteq Candidates /\ IsFiniteSet(Page)
         /\ \A x \in Page, y \in Candidates \ Page : Before(Place(x), Place(y))
         /\ Cardinality(Candidates) <= Limit => Page = Candidates
<1>1. Candidates \subseteq Entry
  BY DEF FeedInv, FeedTypes, Candidates
<1>2. IsFiniteSet(Candidates)
  <2>. DEFINE S == {pull.read[t] : t \in TableIds}
  <2>1. \A s \in S : IsFiniteSet(s)
    BY DEF FeedInv, ReadIsTrue
  <2>2. pull.read \in Surjection(TableIds, S)
    BY DEF Surjection, FeedInv, FeedTypes
  <2>. HIDE DEF S
  <2>3. IsFiniteSet(S)
    BY <2>2, FeedConstants, FS_Surjection
  <2>4. IsFiniteSet(UNION S)
    BY <2>1, <2>3, FS_UNION
  <2>. QED
    BY <2>4 DEF Candidates, S
<1>3. Limit \in Nat
  BY FeedConstants
<1>. QED
  BY <1>1, <1>2, <1>3, FirstOfIs DEF Page

LEMMA PageIsTrue ==
  ASSUME FeedInv, NEW x \in Page
  PROVE  /\ x.e \in Rows /\ stored[x.e].stamp # 0
         /\ x.e \in pull.slipped \/ x = EntryOf(x.e)
<1>1. x \in Candidates /\ x \in Entry
  BY CandidatesAre
<1>. QED
  BY <1>1 DEF FeedInv, ReadIsTrue, Candidates, Entry

LEMMA OffThePage ==
  ASSUME FeedInv, pull.pc = "reading", pull.left = {}, NEW e \in Rows, e \notin pull.slipped,
         stored[e].stamp # 0, After(e), EntryOf(e) \notin Page
  PROVE  HasMore /\ \A x \in Page : Before(Place(x), Pos(e))
<1>. DEFINE T == pull.read[TableOf(e)]
<1>1. TableOf(e) \in TableIds /\ Limit \in Nat
  BY FeedConstants
<1>2. EntryOf(e) \in T \/ CutOff(e)
  BY DEF FeedInv, ReadIsWhole
<1>3. T \subseteq Candidates
  BY <1>1 DEF Candidates
<1>4. Pos(e) \in Nat \X Nat /\ Place(EntryOf(e)) = Pos(e)
  BY FeedConstants DEF FeedInv, FeedTypes, FeedRow, Pos, Place, EntryOf
<1>5. CASE EntryOf(e) \in T
  <2>1. EntryOf(e) \in Candidates \ Page
    BY <1>3, <1>5
  <2>2. Cardinality(Candidates) \in Nat /\ ~(Cardinality(Candidates) <= Limit)
    BY <2>1, CandidatesAre, FS_CardinalityType
  <2>3. HasMore
    BY <1>1, <2>2 DEF HasMore
  <2>. QED
    BY <1>4, <2>1, <2>3, CandidatesAre
<1>6. CASE CutOff(e)
  <2>1. Cardinality(T) = Limit /\ \A y \in T : Before(Place(y), Pos(e))
    BY <1>6 DEF CutOff
  <2>2. HasMore
    BY <1>1, <2>1 DEF HasMore
  <2>3. ASSUME NEW x \in Page PROVE Before(Place(x), Pos(e))
    <3>. HIDE DEF T
    <3>. QED
      BY <1>1, <1>3, <1>4, <2>1, CandidatesAre, FullKeepsOff DEF Page
  <2>. QED
    BY <2>2, <2>3
<1>. QED
  BY <1>2, <1>5, <1>6

LEMMA NextCursorIs ==
  ASSUME FeedInv
  PROVE  /\ NextCursor \in Nat \X Nat
         /\ Page = {} => NextCursor = cursor
         /\ Page # {} => \E x \in Page : NextCursor = Place(x)
<1>1. CASE Page = {}
  BY <1>1 DEF NextCursor, FeedInv, FeedTypes
<1>2. CASE Page # {}
  <2>1. Page \subseteq Entry /\ IsFiniteSet(Page)
    BY CandidatesAre
  <2>2. LastOf(Page) \in Page
    BY <1>2, <2>1, HasLast
  <2>. QED
    BY <1>2, <2>1, <2>2, EntriesHavePlaces DEF NextCursor
<1>. QED
  BY <1>1, <1>2

(* What the device has of a row once it has applied the page.              *)
LEMMA Applied ==
  ASSUME FeedInv, Receive, NEW e \in Rows, e \notin pull.slipped
  PROVE  /\ EntryOf(e) \in Page => replica'[e] = stored[e].version
         /\ EntryOf(e) \notin Page =>
              /\ replica'[e] = replica[e] /\ (e \in overtaken => e \in overtaken')
<1>1. \A x \in Page : x.e = e => x = EntryOf(e)
  BY PageIsTrue
<1>2. EntryOf(e).e = e /\ EntryOf(e).version = stored[e].version
  BY DEF EntryOf
<1>3. CASE EntryOf(e) \in Page
  <2>1. (CHOOSE x \in Page : x.e = e) = EntryOf(e)
    BY <1>1, <1>2, <1>3
  <2>. QED
    BY <1>2, <1>3, <2>1 DEF Receive
<1>4. CASE EntryOf(e) \notin Page
  <2>1. ~ \E x \in Page : x.e = e
    BY <1>1, <1>4
  <2>. QED
    BY <1>4, <2>1 DEF Receive
<1>. QED
  BY <1>3, <1>4

LEMMA ReceiveKeeps == ASSUME FeedInv, Receive PROVE FeedInv'
<1>1. /\ pull.pc = "reading" /\ pull.left = {} /\ pull' = NotPulling /\ cursor' = NextCursor
      /\ UNCHANGED <<stored, now, writer, writes, lost>>
  BY DEF Receive
<1>2. replica' \in [Rows -> Nat]
  <2>1. ASSUME NEW e \in Rows, \E x \in Page : x.e = e
        PROVE  (CHOOSE x \in Page : x.e = e).version \in Nat
    <3>1. PICK x \in Page : x = CHOOSE y \in Page : y.e = e
      BY <2>1
    <3>2. x \in Entry
      BY CandidatesAre
    <3>. QED
      BY <3>1, <3>2 DEF Entry
  <2>. QED
    BY <2>1 DEF Receive, FeedInv, FeedTypes
<1>3. overtaken' \subseteq Rows
  BY DEF Receive, FeedInv, FeedTypes
<1>4. FeedTypes' /\ Stamped'
  BY <1>1, <1>2, <1>3, NotPullingIs, NextCursorIs DEF FeedInv, FeedTypes, Stamped
<1>5. Unwritten'
  <2>. SUFFICES ASSUME NEW e \in Rows, stored[e].stamp = 0 PROVE stored[e].version = 0 /\ replica'[e] = 0
    BY <1>1 DEF Unwritten
  <2>1. stored[e].version = 0 /\ replica[e] = 0
    BY DEF FeedInv, Unwritten
  <2>2. ~ \E x \in Page : x.e = e
    BY PageIsTrue
  <2>. QED
    BY <2>1, <2>2 DEF Receive
<1>6. ReadIsTrue' /\ ReadIsWhole' /\ Started'
  BY <1>1, NotPullingIs DEF ReadIsTrue, ReadIsWhole, Started
<1>7. BehindIsDelivered'
  <2>. SUFFICES ASSUME NEW e \in Rows, stored[e].stamp # 0, Behind(Pos(e), NextCursor)
                PROVE  replica'[e] = stored[e].version \/ e \in overtaken'
    BY <1>1 DEF BehindIsDelivered, Pos, Delivered, Behind
  <2>1. CASE e \in pull.slipped
    BY <2>1 DEF Receive
  <2>2. CASE e \notin pull.slipped /\ EntryOf(e) \in Page
    BY <2>2, Applied
  <2>3. CASE e \notin pull.slipped /\ EntryOf(e) \notin Page
    <3>1. ASSUME After(e) PROVE FALSE
      <4>1. \A x \in Page : Before(Place(x), Pos(e))
        BY <1>1, <2>3, <3>1, OffThePage
      <4>2. Before(NextCursor, Pos(e))
        BY <3>1, <4>1, NextCursorIs DEF After
      <4>. QED
        BY <4>2 DEF Behind
    <3>2. Delivered(e) \/ e \in overtaken
      BY <3>1 DEF FeedInv, BehindIsDelivered, Behind, After
    <3>. QED
      BY <2>3, <3>2, Applied DEF Delivered
  <2>. QED
    BY <2>1, <2>2, <2>3
<1>. QED
  BY <1>4, <1>5, <1>6, <1>7 DEF FeedInv

LEMMA LastPageTells == ASSUME FeedInv, Receive, ~HasMore PROVE LastPageTellsAll
<1>. SUFFICES ASSUME NEW e \in Rows, stored[e].version = pull.start[e]
              PROVE  Delivered(e)' \/ e \in overtaken'
  BY DEF LastPageTellsAll
<1>1. pull.pc = "reading" /\ pull.left = {} /\ stored' = stored
  BY DEF Receive
<1>2. e \notin pull.slipped
  <2>1. pull.start[e] \in Nat
    BY DEF FeedInv, FeedTypes
  <2>. QED
    BY <1>1, <2>1 DEF FeedInv, Started
<1>3. CASE stored[e].stamp = 0
  <2>1. FeedInv'
    BY ReceiveKeeps
  <2>. QED
    BY <1>1, <1>3, <2>1 DEF FeedInv, Unwritten, Delivered
<1>4. CASE stored[e].stamp # 0 /\ EntryOf(e) \in Page
  BY <1>1, <1>2, <1>4, Applied DEF Delivered
<1>5. CASE stored[e].stamp # 0 /\ EntryOf(e) \notin Page
  <2>1. ~After(e)
    BY <1>1, <1>2, <1>5, OffThePage
  <2>2. Delivered(e) \/ e \in overtaken
    BY <1>5, <2>1 DEF FeedInv, BehindIsDelivered, Behind, After
  <2>. QED
    BY <1>1, <1>2, <1>5, <2>2, Applied DEF Delivered
<1>. QED
  BY <1>3, <1>4, <1>5

-----------------------------------------------------------------------------
LEMMA StepKeepsFeedInv == FeedInv /\ [FeedNext]_feedVars => FeedInv'
<1>. SUFFICES ASSUME FeedInv, [FeedNext]_feedVars PROVE FeedInv'
  OBVIOUS
<1>1. CASE Tick
  BY <1>1, TickKeeps
<1>2. CASE StartPage
  BY <1>2, StartPageKeeps
<1>3. CASE Receive
  BY <1>3, ReceiveKeeps
<1>4. CASE LosePage
  BY <1>4, AbandonKeeps DEF LosePage
<1>5. ASSUME NEW t \in TableIds, ReadTable(t) PROVE FeedInv'
  BY <1>5, ReadTableKeeps
<1>6. ASSUME NEW w \in Writers, Commit(w) PROVE FeedInv'
  BY <1>6, CommitKeeps
<1>7. ASSUME NEW w \in Writers, NEW e \in Rows, NEW d \in BOOLEAN, Stamp(w, e, d) PROVE FeedInv'
  BY <1>7, StampKeeps
<1>8. CASE UNCHANGED feedVars
  <2>1. FeedTypes' /\ Stamped'
    BY <1>8 DEF feedVars, FeedInv, FeedTypes, Stamped
  <2>. QED
    BY <1>8, <2>1, FeedStands DEF feedVars
<1>. QED
  BY <1>1, <1>2, <1>3, <1>4, <1>5, <1>6, <1>7, <1>8 DEF FeedNext

(* changes-feed.ts:95.  Whatever the rows, the tables, the writers and the *)
(* size of a page: a row behind the cursor has been delivered as it is,    *)
(* unless it was committed behind the cursor or while the page that moved  *)
(* the cursor past it was being read; and a device that is told there is   *)
(* no more has every row as it was when its last page began.               *)
THEOREM FeedIsExplained == FeedSpec => FeedExplained
<1>1. FeedInv /\ [FeedNext]_feedVars => [LastPageTellsAll]_feedVars
  <2>. SUFFICES ASSUME FeedInv PROVE LastPageTellsAll
    OBVIOUS
  <2>. QED
    BY LastPageTells DEF LastPageTellsAll
<1>2. FeedInv => BehindIsDelivered
  BY DEF FeedInv
<1>. QED
  BY <1>1, <1>2, InitFeedInv, StepKeepsFeedInv, PTL DEF FeedSpec, FeedExplained, UpToDate

=============================================================================
