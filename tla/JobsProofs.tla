----------------------------- MODULE JobsProofs -----------------------------
(***************************************************************************)
(* Proofs about the notifications, the recurring rules and the savings     *)
(* goals, for any number of workers, days, requests and faults: NoticeOnce *)
(* and RevokedStaysQuiet, OccurrencesKept and NotRevived, GoalsKept.       *)
(*                                                                         *)
(* The three components share the workers only: a worker is in one of them *)
(* by its program counter.  Each has an invariant of its own, that a step  *)
(* of another one leaves alone (the lemmas called Foreign...).             *)
(***************************************************************************)
EXTENDS Jobs, Integers, FiniteSetTheorems, WellFoundedInduction, TLAPS

NoticePcs == {"enabled", "insert", "push", "send", "last", "reminded"}
RulePcs == {"next", "already", "book", "mark"}
GoalPcs == {"replay", "transfer", "insertRow", "removeTransfer", "deleteRow",
            "readGoal", "readSum", "writeGoal"}

Kinds == {"idle", "event", "entry", "remind", "job", "hand", "mark", "transfer", "withdraw"}

GoalRow == [state : {"none", "live", "deleted"}, status : {"ACTIVE", "COMPLETED", "ABANDONED"},
            target : Nat, current : Nat]

Pcs == {"idle"} \union NoticePcs \union RulePcs \union GoalPcs

(* A note has a kind of entity and the entity. *)
Request == [kind : Kinds, pc : Pcs,
            at : Int \union Contributions,
            saw : SUBSET (Int \union Schedules \union GoalRow),
            todo : SUBSET Days,
            note : {"event", "due", "goal", "entry", "none"} \X (Events \union Int),
            then : {"idle"}]

-----------------------------------------------------------------------------
(* Notifications: a key is looked up before it is inserted, and whoever    *)
(* inserts it first marks the others.                                      *)
NoticeTypes ==
  /\ notice \in [Keys -> Nat] /\ streak \in Nat /\ now \in Nat /\ entry \in Nat
  /\ device \in [active : BOOLEAN, revoked : BOOLEAN, failures : Nat]

(* No reminder is ahead of its streak. *)
NoneAhead == \A key \in Keys : key[1] = "entry" /\ key[2] > streak => notice[key] = 0

Unsent == \A w \in Workers :
  /\ req[w].pc = "send" => \E n \in Nat : req[w].saw = {n}
  /\ req[w].pc = "reminded" => req[w].at \in 0..streak
  /\ req[w].pc = "insert" /\ req[w].note[1] # "entry" /\ req[w].note \in Keys =>
       notice[req[w].note] = 0 \/ req[w].note \in doubled
  /\ req[w].pc \in {"enabled", "insert"} /\ req[w].note[1] = "entry" /\ <<"entry", streak>> \in Keys =>
       notice[<<"entry", streak>>] = 0 \/ <<"entry", streak>> \in doubled

Silenced == device.revoked /\ ~slipped =>
  ~device.active /\ \A w \in Workers : req[w].pc # "send"

NoticeInv == NoticeTypes /\ NoneAhead /\ Unsent /\ Silenced /\ NoticeOnce

-----------------------------------------------------------------------------
(* The rule: what a job has taken from its days is booked, skipped or      *)
(* excused, and what was booked is behind lastGeneratedAt or about to be.  *)
RuleRow == [state : {"none", "live", "deleted"}, auto : BOOLEAN, active : BOOLEAN,
            schedule : Schedules, last : Int, skipped : SUBSET Days]

RuleTypes ==
  /\ rule \in RuleRow /\ booked \in [Days -> Nat] /\ once \subseteq Days
  /\ \A d \in Days : booked[d] > 0 => d \in once

OnHand(w) == req[w].pc \in {"already", "book"}
InJob(w) == req[w].pc \in RulePcs /\ req[w].kind = "job"

Taken(w) ==
  /\ req[w].pc \in {"already", "book", "mark"} => req[w].at \in Days
  /\ req[w].pc = "mark" => req[w].at \in once
  /\ req[w].pc = "next" => req[w].todo # {}
  /\ req[w].pc \in RulePcs => req[w].kind \in {"job", "hand"}
  /\ req[w].pc = "book" => booked[req[w].at] = 0 \/ req[w].at \in overlapped

Met == \A v, w \in Workers :
  v # w /\ req[v].pc = "book" /\ req[w].pc = "book" /\ req[v].at = req[w].at => req[w].at \in overlapped

Covered(d) == d \in once \union rule.skipped \union excused

IsOccurrence(s, d) == d \in Occurrences(s, d)

(* A job has left behind none of the days of the schedule it read. *)
NoneLeft(w) == InJob(w) =>
  /\ req[w].at \in Int /\ \A d \in req[w].todo : d > req[w].at
  /\ Live => \A s \in Schedules, d \in Days \ req[w].todo :
       /\ req[w].saw = {s} /\ IsOccurrence(s, d) /\ (\E e \in req[w].todo \union {req[w].at} : d <= e)
       /\ ~(d = req[w].at /\ OnHand(w))
       => Covered(d)

(* What a job is about to book was not booked and deleted.                 *)
NotAgain(w) == InJob(w) =>
  \A d \in Days : d \in req[w].todo \/ (d = req[w].at /\ OnHand(w)) =>
    (d \in once /\ booked[d] = 0 => d \in rewound)

(* What was booked is behind lastGeneratedAt, or about to be.              *)
Behind == \A d \in once :
  \/ d <= rule.last \/ d \in rewound
  \/ booked[d] > 0 /\ \E w \in Workers : req[w].pc = "mark" /\ req[w].at = d

RuleInv ==
  /\ RuleTypes /\ OccurrencesKept /\ Met /\ Behind
  /\ \A w \in Workers : Taken(w) /\ NoneLeft(w) /\ NotAgain(w)

-----------------------------------------------------------------------------
(* The goal: whoever writes it has read the sum of now, and as long as its *)
(* status is wrong somebody comes who has read that status.                *)
ContributionRow == [state : {"none", "live", "deleted"}, transfer : {"none", "live", "gone"}]

GoalTypes ==
  /\ goal \in GoalRow /\ contribution \in [Contributions -> ContributionRow]
  /\ loose \in [Contributions -> Int] /\ crossed \in BOOLEAN /\ retargeted \in BOOLEAN

Read(w) == req[w].pc \in {"readSum", "writeGoal"}
Seen(w) == CHOOSE g \in req[w].saw : TRUE

BusyWith(w) ==
  /\ req[w].pc \in {"replay", "transfer", "insertRow"} =>
       req[w].at \in Contributions /\ req[w].kind \in {"mark", "transfer"}
  /\ req[w].pc = "transfer" => req[w].kind = "transfer"
  /\ req[w].pc \in {"removeTransfer", "deleteRow"} =>
       req[w].at \in Contributions /\ req[w].kind = "withdraw"
  /\ Read(w) => Seen(w) \in GoalRow /\ req[w].saw = {Seen(w)}

Busy == \A w \in Workers : BusyWith(w)

Right(g) == g.status = "ABANDONED" \/ (g.status = "COMPLETED" <=> g.current >= g.target)

SumComes == ~crossed =>
  /\ goal.current = Total \/ \E w \in Workers : req[w].pc \in Recomputing
  /\ \A w \in Workers : req[w].pc = "writeGoal" => Seen(w).current = Total

TargetRead == ~retargeted => \A w \in Workers : Read(w) =>
  /\ Seen(w).target = goal.target
  /\ Seen(w).status = "ABANDONED" <=> goal.status = "ABANDONED"

StatusComes == ~crossed /\ ~retargeted =>
  \/ Right([goal EXCEPT !.current = Total])
  \/ \E w \in Workers : \/ req[w].pc = "readGoal"
                        \/ Read(w) /\ Seen(w).status = goal.status

GoalShown == goal.state = "live" => SumComes /\ TargetRead /\ StatusComes

(* A contribution and its transfer, while one request at a time works on   *)
(* the pair.                                                               *)
Sending(w, c) == req[w].at = c /\ At(w, "transfer", "insertRow")

Paired(c) == c \notin torn =>
  /\ \A v, w \in Workers : v # w => ~(Adding(v, c) /\ Adding(w, c))
  /\ IF \E w \in Workers : Sending(w, c) THEN loose[c] = 1 ELSE loose[c] = 0
  /\ (\E w \in Workers : Adding(w, c)) => ~LiveRow(c)
  /\ LiveRow(c) /\ contribution[c].transfer = "gone" =>
       \E w \in Workers : req[w].at = c /\ At(w, "withdraw", "deleteRow")
  /\ contribution[c].state = "deleted" => contribution[c].transfer # "live"

WithdrawnBy(w) ==
  /\ req[w].pc \in {"removeTransfer", "deleteRow"} => contribution[req[w].at].state # "none"
  /\ req[w].pc = "deleteRow" => contribution[req[w].at].transfer # "live"

Withdrawing == \A w \in Workers : WithdrawnBy(w)

Unused == \A c \in Contributions : contribution[c].state = "none" => contribution[c].transfer = "none"

MoneyInv == Withdrawing /\ Unused /\ \A c \in Contributions : Paired(c)

GoalInv == GoalTypes /\ Busy /\ GoalShown /\ MoneyInv

Typed == req \in [Workers -> Request] /\ rule.schedule \in Schedules

-----------------------------------------------------------------------------
(* Requests *)
LEMMA IdleIsRequest ==
  /\ Idle \in Request /\ Idle.pc = "idle" /\ Idle.kind = "idle"
  /\ Idle.todo = {} /\ Idle.at = 0
  BY DEF Idle, NoKey, Request, Kinds, Pcs

LEMMA PcOnly ==
  ASSUME NEW q \in Request, NEW pc \in Pcs
  PROVE  /\ [q EXCEPT !.pc = pc] \in Request
         /\ [q EXCEPT !.pc = pc].pc = pc /\ [q EXCEPT !.pc = pc].kind = q.kind
         /\ [q EXCEPT !.pc = pc].at = q.at /\ [q EXCEPT !.pc = pc].saw = q.saw
         /\ [q EXCEPT !.pc = pc].todo = q.todo /\ [q EXCEPT !.pc = pc].note = q.note
  BY DEF Request

LEMMA Goer ==
  ASSUME Typed, NEW w \in Workers, NEW pc \in Pcs, Goes(w, pc)
  PROVE  \E q \in Request :
           /\ req' = [req EXCEPT ![w] = q] /\ q.pc = pc /\ q.kind = req[w].kind
           /\ q.at = req[w].at /\ q.saw = req[w].saw /\ q.todo = req[w].todo /\ q.note = req[w].note
<1>1. req[w] \in Request
  BY DEF Typed
<1>2. req' = [req EXCEPT ![w] = [req[w] EXCEPT !.pc = pc]]
  BY DEF Goes
<1>. QED
  BY <1>1, <1>2, PcOnly

(* create() is always the last thing a request does. *)
LEMMA Continuing ==
  ASSUME Typed, NEW w \in Workers, Continue(w)
  PROVE  req' = [req EXCEPT ![w] = Idle]
<1>1. req[w].then = "idle"
  BY DEF Typed, Request
<1>. QED
  BY <1>1 DEF Continue

LEMMA Notifying ==
  ASSUME Typed, NEW w \in Workers, NEW t \in {"goal", "entry"}, NEW n \in Int,
         Notifies(w, <<t, n>>, "idle")
  PROVE  \E q \in Request : /\ req' = [req EXCEPT ![w] = q] /\ q.pc = "enabled"
                            /\ q.note = <<t, n>> /\ q.note[1] = t
<1>. DEFINE q == [req[w] EXCEPT !.pc = "enabled", !.note = <<t, n>>, !.then = "idle"]
<1>1. req' = [req EXCEPT ![w] = q]
  BY DEF Notifies
<1>2. req[w] \in Request /\ "enabled" \in Pcs
  BY DEF Typed, Pcs, NoticePcs
<1>3. <<t, n>> \in {"event", "due", "goal", "entry", "none"} \X (Events \union Int)
  OBVIOUS
<1>4. q \in Request /\ q.pc = "enabled" /\ q.note = <<t, n>>
  BY <1>2, <1>3 DEF Request
<1>5. <<t, n>>[1] = t
  OBVIOUS
<1>. HIDE DEF q
<1>. QED
  BY <1>1, <1>4, <1>5

(* What a step of the notifications does to the requests.                  *)
Informs(w, q) ==
  /\ req' = [req EXCEPT ![w] = q]
  /\ req[w].pc \in NoticePcs \union {"idle"} /\ q.pc \in NoticePcs \union {"idle"}
  /\ q.pc = "reminded" => q.at = streak
  /\ q.pc = "enabled" /\ q.note[1] = "entry" => req[w].pc = "reminded" /\ ~Reminded(req[w].at)
  /\ q.pc = "insert" => req[w].pc = "enabled" /\ q.note = req[w].note /\ ~Known(q.note)
  /\ q.pc = "send" => Listening /\ q.saw = {device.failures}

LEMMA NoticeShape ==
  ASSUME Typed, NoticeInv, NEW w \in Workers,
         \/ Creating(w) \/ EntryJob(w) \/ ReadLastEntry(w) \/ ReadLastReminder(w)
         \/ \E k \in Events : OnEvent(w, k)
  PROVE  \E q \in Request : Informs(w, q)
<1>. USE DEF NoticePcs
<1>0. req[w] \in Request /\ streak \in Nat /\ {"idle", "enabled", "insert", "push", "send"} \subseteq Pcs
  BY DEF Typed, NoticeInv, NoticeTypes, Pcs
<1>1. CASE FindNotice(w)
  <2>1. CASE req' = [req EXCEPT ![w] = Idle]
    BY <1>1, <2>1, IdleIsRequest DEF FindNotice, Informs
  <2>2. CASE Goes(w, "insert") /\ ~Known(req[w].note)
    <3>1. PICK q \in Request : /\ req' = [req EXCEPT ![w] = q] /\ q.pc = "insert"
                               /\ q.note = req[w].note
      BY <1>0, <2>2, Goer
    <3>. QED
      BY <1>1, <2>2, <3>1 DEF FindNotice, Informs
  <2>. QED
    BY <1>1, <2>1, <2>2, Continuing DEF FindNotice
<1>2. CASE InsertNotice(w)
  <2>1. PICK q \in Request : req' = [req EXCEPT ![w] = q] /\ q.pc = "push"
    BY <1>0, <1>2, Goer DEF InsertNotice
  <2>. QED
    BY <1>2, <2>1 DEF InsertNotice, Informs
<1>3. CASE ReadDevice(w)
  <2>1. CASE req' = [req EXCEPT ![w] = Idle]
    BY <1>3, <2>1, IdleIsRequest DEF ReadDevice, Informs
  <2>2. CASE req' = [req EXCEPT ![w].pc = "send", ![w].saw = {device.failures}] /\ Listening
    <3>. DEFINE q == [req[w] EXCEPT !.pc = "send", !.saw = {device.failures}]
    <3>1. req' = [req EXCEPT ![w] = q]
      BY <1>0, <2>2 DEF Typed
    <3>2. device.failures \in Int
      BY DEF NoticeInv, NoticeTypes
    <3>3. q \in Request /\ q.pc = "send" /\ q.saw = {device.failures}
      BY <1>0, <3>2 DEF Request
    <3>. HIDE DEF q
    <3>. QED
      BY <1>3, <2>2, <3>1, <3>3 DEF ReadDevice, Informs
  <2>. QED
    BY <1>3, <2>1, <2>2, Continuing DEF ReadDevice
<1>4. CASE PushDone(w)
  BY <1>4, Continuing, IdleIsRequest DEF PushDone, Informs
<1>5. CASE EntryJob(w)
  <2>. DEFINE q == [Idle EXCEPT !.kind = "entry", !.pc = "last"]
  <2>1. req' = [req EXCEPT ![w] = q] /\ req[w].pc = "idle"
    BY <1>5, IdleIsRequest DEF EntryJob, Begins
  <2>2. q \in Request /\ q.pc = "last"
    BY IdleIsRequest DEF Request, Kinds, Pcs
  <2>. HIDE DEF q
  <2>. QED
    BY <2>1, <2>2 DEF Informs
<1>6. CASE ReadLastEntry(w)
  <2>1. CASE Ends(w)
    BY <1>6, <2>1, IdleIsRequest DEF ReadLastEntry, Ends, At, Informs
  <2>2. CASE req' = [req EXCEPT ![w].pc = "reminded", ![w].at = streak]
    <3>. DEFINE q == [req[w] EXCEPT !.pc = "reminded", !.at = streak]
    <3>1. req' = [req EXCEPT ![w] = q]
      BY <1>0, <2>2 DEF Typed
    <3>2. streak \in Int \union Contributions /\ "reminded" \in Pcs
      BY <1>0 DEF Pcs
    <3>3. q \in Request /\ q.pc = "reminded" /\ q.at = streak
      BY <1>0, <3>2 DEF Request
    <3>. HIDE DEF q
    <3>. QED
      BY <1>6, <3>1, <3>3 DEF ReadLastEntry, At, Informs
  <2>. QED
    BY <1>6, <2>1, <2>2 DEF ReadLastEntry
<1>7. CASE ReadLastReminder(w)
  <2>1. CASE Ends(w)
    BY <1>7, <2>1, IdleIsRequest DEF ReadLastReminder, Ends, At, Informs
  <2>2. CASE Notifies(w, <<"entry", req[w].at>>, "idle") /\ ~Reminded(req[w].at)
    <3>1. req[w].at \in Int
      BY <1>0, <1>7 DEF ReadLastReminder, At, NoticeInv, Unsent
    <3>2. PICK q \in Request : req' = [req EXCEPT ![w] = q] /\ q.pc = "enabled"
      BY <2>2, <3>1, Notifying
    <3>. QED
      BY <1>7, <2>2, <3>2 DEF ReadLastReminder, At, Informs
  <2>. QED
    BY <1>7, <2>1, <2>2 DEF ReadLastReminder
<1>8. ASSUME NEW k \in Events, OnEvent(w, k) PROVE \E q \in Request : Informs(w, q)
  <2>. DEFINE q == [Idle EXCEPT !.kind = "event", !.pc = "enabled", !.note = <<"event", k>>]
  <2>1. req' = [req EXCEPT ![w] = q] /\ req[w].pc = "idle"
    BY <1>8, IdleIsRequest DEF OnEvent, Begins
  <2>2. q \in Request /\ q.pc = "enabled" /\ q.note = <<"event", k>>
    BY IdleIsRequest DEF Request, Kinds, Pcs
  <2>3. q.note[1] # "entry"
    BY <2>2
  <2>. HIDE DEF q
  <2>. QED
    BY <2>1, <2>2, <2>3 DEF Informs
<1>. QED
  BY <1>1, <1>2, <1>3, <1>4, <1>5, <1>6, <1>7, <1>8 DEF Creating

-----------------------------------------------------------------------------
(* What keeps the notifications right *)

(* Requests go on, and the streak ends: nothing is written.                *)
LEMMA NoticeMoves ==
  ASSUME NoticeInv, UNCHANGED <<notice, device, doubled, slipped>>,
         streak' \in {streak, streak + 1}, now' \in Nat, entry' \in Nat,
         \A v \in Workers : req'[v] = req[v] \/
           /\ req'[v].pc = "reminded" => req'[v].at = streak
           /\ req'[v].pc = "enabled" /\ req'[v].note[1] = "entry" =>
                req[v].pc = "reminded" /\ ~Reminded(req[v].at)
           /\ req'[v].pc = "insert" =>
                req[v].pc = "enabled" /\ req'[v].note = req[v].note /\ ~Known(req'[v].note)
           /\ req'[v].pc = "send" => Listening /\ req'[v].saw = {device.failures}
  PROVE  NoticeInv'
<1>. USE DEF NoticeInv
<1>1. streak \in Nat /\ streak' \in Nat /\ streak <= streak'
  BY DEF NoticeTypes
<1>2. NoticeTypes' /\ NoneAhead' /\ NoticeOnce'
  <2>1. \A key \in Keys : key[1] = "entry" => key[2] \in Nat
    BY SMT DEF Keys
  <2>. QED
    BY <1>1, <2>1 DEF NoticeTypes, NoneAhead, NoticeOnce
<1>3. ASSUME <<"entry", streak>> \in Keys, NEW s \in 0..streak, ~Reminded(s)
      PROVE  notice[<<"entry", streak>>] = 0
  BY <1>1, <1>3 DEF Reminded, NoticeTypes
<1>4. ASSUME streak' = streak + 1, <<"entry", streak'>> \in Keys
      PROVE  notice[<<"entry", streak'>>] = 0
  <2>1. <<"entry", streak'>>[1] = "entry" /\ <<"entry", streak'>>[2] = streak'
    OBVIOUS
  <2>. QED
    BY <1>1, <1>4, <2>1 DEF NoneAhead
<1>5. ASSUME NEW v \in Workers
      PROVE  /\ req'[v].pc = "reminded" => req'[v].at \in 0..streak'
             /\ req'[v].pc = "send" => \E n \in Nat : req'[v].saw = {n}
  <2>1. device.failures \in Nat
    BY DEF NoticeTypes
  <2>. QED
    BY <1>1, <2>1 DEF Unsent
<1>6. ASSUME NEW v \in Workers, req'[v].pc = "insert", req'[v].note[1] # "entry", req'[v].note \in Keys
      PROVE  notice[req'[v].note] = 0 \/ req'[v].note \in doubled
  <2>1. CASE req'[v] = req[v]
    BY <1>6, <2>1 DEF Unsent
  <2>2. CASE ~Known(req'[v].note)
    BY <1>6, <2>2 DEF Known, NoticeTypes
  <2>. QED
    BY <1>6, <2>1, <2>2
<1>7. ASSUME NEW v \in Workers, req'[v].pc \in {"enabled", "insert"}, req'[v].note[1] = "entry",
             <<"entry", streak'>> \in Keys
      PROVE  notice[<<"entry", streak'>>] = 0 \/ <<"entry", streak'>> \in doubled
  <2>1. CASE streak' = streak + 1
    BY <1>4, <1>7, <2>1
  <2>2. CASE streak' = streak
    <3>1. CASE req'[v] = req[v] \/ req'[v].pc = "insert"
      BY <1>7, <2>2, <3>1 DEF Unsent
    <3>2. CASE req[v].pc = "reminded" /\ ~Reminded(req[v].at)
      BY <1>3, <1>7, <2>2, <3>2 DEF Unsent
    <3>. QED
      BY <1>7, <3>1, <3>2
  <2>. QED
    BY <2>1, <2>2
<1>8. Unsent'
  BY <1>5, <1>6, <1>7 DEF Unsent
<1>9. Silenced'
  BY DEF Silenced, Listening
<1>. QED
  BY <1>2, <1>8, <1>9

(* The first to insert a key marks it for everybody who looked it up.      *)
LEMMA NoticeInserted ==
  ASSUME Typed, NoticeInv, NEW w \in Workers, InsertNotice(w), now' = now
  PROVE  NoticeInv'
<1>. USE DEF NoticeInv
<1>1. PICK key : key = Inserted(w)
  OBVIOUS
<1>2. PICK q \in Request : req' = [req EXCEPT ![w] = q] /\ q.pc = "push"
  BY Goer DEF InsertNotice, Pcs, NoticePcs
<1>3. /\ req[w].pc = "insert" /\ notice' = [notice EXCEPT ![key] = @ + 1]
      /\ UNCHANGED <<device, slipped, streak, now, entry>> /\ doubled \subseteq doubled'
      /\ \A v \in Workers \ {w} : Rival(v, w) => key \in doubled'
  BY <1>1 DEF InsertNotice
<1>4. \A v \in Workers : req'[v] = IF v = w THEN q ELSE req[v]
  BY <1>2 DEF Typed
<1>5. \A k \in Keys : notice'[k] = IF k = key THEN notice[k] + 1 ELSE notice[k]
  BY <1>3 DEF NoticeTypes
<1>6. key \in Keys => notice[key] = 0 \/ key \in doubled
  BY <1>1, <1>3 DEF Inserted, Unsent
<1>7. notice' \in [Keys -> Nat]
  <2>1. DOMAIN notice' = Keys /\ notice' = [k \in Keys |-> notice'[k]]
    BY <1>3 DEF NoticeTypes
  <2>2. \A k \in Keys : notice'[k] \in Nat
    BY <1>5 DEF NoticeTypes
  <2>. QED
    BY <2>1, <2>2
<1>8. NoticeTypes' /\ NoticeOnce'
  BY <1>3, <1>5, <1>6, <1>7 DEF NoticeTypes, NoticeOnce
<1>9. \/ req[w].note[1] = "entry" /\ key = <<"entry", streak>>
      \/ req[w].note[1] # "entry" /\ key = req[w].note
  BY <1>1 DEF Inserted
<1>10. ASSUME NEW k \in Keys, k[1] = "entry", k[2] > streak
       PROVE  notice'[k] = 0
  <2>1. k # key /\ notice[k] = 0
    BY <1>9, <1>10 DEF NoneAhead, NoticeTypes
  <2>. QED
    BY <1>5, <2>1
<1>11. NoneAhead'
  BY <1>3, <1>10 DEF NoneAhead
<1>12. ASSUME NEW v \in Workers, req'[v].pc = "insert", req'[v].note[1] # "entry", req'[v].note \in Keys
       PROVE  notice'[req'[v].note] = 0 \/ req'[v].note \in doubled'
  <2>1. v # w /\ req'[v] = req[v]
    BY <1>2, <1>4, <1>12
  <2>2. CASE req[v].note = key
    BY <1>3, <1>9, <1>12, <2>1, <2>2 DEF Rival
  <2>3. CASE req[v].note # key
    BY <1>3, <1>5, <1>12, <2>1, <2>3 DEF Unsent
  <2>. QED
    BY <2>2, <2>3
<1>13. ASSUME NEW v \in Workers, req'[v].pc \in {"enabled", "insert"}, req'[v].note[1] = "entry",
              <<"entry", streak>> \in Keys
       PROVE  notice'[<<"entry", streak>>] = 0 \/ <<"entry", streak>> \in doubled'
  <2>1. v \in Workers \ {w} /\ req'[v] = req[v]
    BY <1>2, <1>4, <1>13
  <2>2. CASE req[w].note[1] = "entry"
    BY <1>3, <1>9, <1>13, <2>1, <2>2 DEF Rival
  <2>3. CASE req[w].note[1] # "entry"
    <3>1. key # <<"entry", streak>>
      BY <1>9, <2>3
    <3>. QED
      BY <1>3, <1>5, <1>13, <2>1, <3>1 DEF Unsent
  <2>. QED
    BY <2>2, <2>3
<1>14. Unsent'
  BY <1>2, <1>3, <1>4, <1>12, <1>13 DEF Unsent
<1>15. Silenced'
  BY <1>2, <1>3, <1>4 DEF Silenced
<1>. QED
  BY <1>8, <1>11, <1>14, <1>15

(* The answer of the endpoint, a subscription and its end.                 *)
LEMMA DeviceChanges ==
  ASSUME Typed, NoticeInv, now' = now,
         (\E w \in Workers : PushDone(w)) \/ Subscribe \/ Unsubscribe
  PROVE  NoticeInv'
<1>. USE DEF NoticeInv
<1>1. UNCHANGED <<notice, streak, entry, doubled, now>>
  BY DEF PushDone, Subscribe, Unsubscribe
<1>2. \A v \in Workers : req'[v] = req[v] \/ req'[v] = Idle
  BY Continuing DEF PushDone, Subscribe, Unsubscribe, Counts, Typed
<1>3. NoneAhead' /\ NoticeOnce'
  BY <1>1 DEF NoneAhead, NoticeOnce
<1>4. Unsent'
  BY <1>1, <1>2, IdleIsRequest DEF Unsent
<1>5. ASSUME NEW w \in Workers, PushDone(w)
      PROVE  NoticeTypes' /\ Silenced'
  <2>1. req[w].pc = "send" /\ slipped' = slipped
    BY <1>5 DEF PushDone
  <2>2. PICK n \in Nat : req[w].saw = {n}
    BY <2>1 DEF Unsent
  <2>3. (CHOOSE m \in req[w].saw : TRUE) = n
    BY <2>2
  <2>. DEFINE b == n + 1 < MaxFailures
  <2>4. b \in BOOLEAN
    OBVIOUS
  <2>5. \/ device' = device \/ device' = [device EXCEPT !.failures = 0]
        \/ device' = [device EXCEPT !.failures = n + 1, !.active = b]
    BY <1>5, <2>3 DEF PushDone
  <2>. HIDE DEF b
  <2>6. /\ device' \in [active : BOOLEAN, revoked : BOOLEAN, failures : Nat]
        /\ device'.revoked = device.revoked
    <3>1. device \in [active : BOOLEAN, revoked : BOOLEAN, failures : Nat] /\ n + 1 \in Nat
      BY DEF NoticeTypes
    <3>2. CASE device' = device
      BY <3>1, <3>2
    <3>3. CASE device' = [device EXCEPT !.failures = 0]
      BY <3>1, <3>3
    <3>4. CASE device' = [device EXCEPT !.failures = n + 1, !.active = b]
      BY <2>4, <3>1, <3>4
    <3>. QED
      BY <2>5, <3>2, <3>3, <3>4
  <2>7. NoticeTypes'
    BY <1>1, <2>6 DEF NoticeTypes
  <2>8. Silenced'
    BY <2>1, <2>6 DEF Silenced
  <2>. QED
    BY <2>7, <2>8
<1>6. ASSUME Subscribe
      PROVE  NoticeTypes' /\ Silenced'
  <2>1. device' \in [active : BOOLEAN, revoked : BOOLEAN, failures : Nat] /\ ~device'.revoked
    BY <1>6 DEF Subscribe, NewDevice
  <2>2. NoticeTypes'
    BY <1>1, <2>1 DEF NoticeTypes
  <2>. QED
    BY <2>1, <2>2 DEF Silenced
<1>7. ASSUME Unsubscribe
      PROVE  NoticeTypes' /\ Silenced'
  <2>1. /\ device' = [device EXCEPT !.active = FALSE, !.revoked = TRUE] /\ req' = req
        /\ slipped' = (slipped \/ \E w \in Workers : req[w].pc = "send")
    BY <1>7 DEF Unsubscribe, Counts
  <2>2. device' \in [active : BOOLEAN, revoked : BOOLEAN, failures : Nat] /\ ~device'.active
    BY <2>1 DEF NoticeTypes
  <2>3. NoticeTypes'
    BY <1>1, <2>2 DEF NoticeTypes
  <2>. QED
    BY <2>1, <2>2, <2>3 DEF Silenced
<1>. QED
  BY <1>3, <1>4, <1>5, <1>6, <1>7

LEMMA NoticeRequests ==
  ASSUME Typed, NoticeInv, NoticeNext, now' = now
  PROVE  NoticeInv'
<1>. USE DEF NoticeInv
<1>1. streak \in Nat /\ now \in Nat /\ entry \in Nat
  BY DEF NoticeTypes
<1>2. ASSUME NEW w \in Workers, NEW q \in Request, Informs(w, q),
             UNCHANGED <<notice, device, doubled, slipped, streak, entry>>
      PROVE  NoticeInv'
  <2>1. \A v \in Workers : req'[v] = IF v = w THEN q ELSE req[v]
    BY <1>2 DEF Informs, Typed
  <2>. HIDE DEF NoticeInv
  <2>. QED
    BY <1>1, <1>2, <2>1, NoticeMoves DEF Informs
<1>3. ASSUME NEW w \in Workers,
             \/ FindNotice(w) \/ ReadDevice(w) \/ EntryJob(w) \/ ReadLastEntry(w) \/ ReadLastReminder(w)
             \/ \E k \in Events : OnEvent(w, k)
      PROVE  NoticeInv'
  <2>1. UNCHANGED <<notice, device, doubled, slipped, streak, entry>>
    BY <1>3 DEF FindNotice, ReadDevice, EntryJob, ReadLastEntry, ReadLastReminder, OnEvent,
                noticeVars, quiet
  <2>2. PICK q \in Request : Informs(w, q)
    BY <1>3, NoticeShape DEF Creating
  <2>. QED
    BY <1>2, <2>1, <2>2
<1>4. ASSUME NEW w \in Workers, InsertNotice(w) PROVE NoticeInv'
  BY <1>4, NoticeInserted
<1>5. CASE (\E w \in Workers : PushDone(w)) \/ Subscribe \/ Unsubscribe
  BY <1>5, DeviceChanges
<1>6. CASE EnterTransaction \/ \E channels \in SUBSET {"inApp", "push"} : UpdatePreferences(channels)
  <2>1. /\ UNCHANGED <<notice, device, doubled, slipped, req>>
        /\ streak' \in {streak, streak + 1} /\ entry' \in Nat
    BY <1>1, <1>6 DEF EnterTransaction, UpdatePreferences, Counts, Enters, quiet
  <2>. HIDE DEF NoticeInv
  <2>. QED
    BY <1>1, <2>1, NoticeMoves
<1>. QED
  BY <1>3, <1>4, <1>5, <1>6 DEF NoticeNext, Creating

(* A step of a rule or of a goal, a lost request: at most a new request of *)
(* create() and a new transaction.                                         *)
LEMMA ForeignNotices ==
  ASSUME Typed, NoticeInv, NEW w \in Workers, NEW q \in Request,
         req' = [req EXCEPT ![w] = q], UNCHANGED quiet,
         streak' \in {streak, streak + 1}, now' \in Nat, entry' \in Nat,
         q.pc \notin {"insert", "send", "reminded"},
         q.pc = "enabled" => q.note[1] # "entry"
  PROVE  NoticeInv'
<1>1. \A v \in Workers : req'[v] = IF v = w THEN q ELSE req[v]
  BY DEF Typed
<1>2. UNCHANGED <<notice, device, doubled, slipped>>
  BY DEF quiet
<1>. QED
  BY <1>1, <1>2, NoticeMoves

LEMMA InitNotices == Init => NoticeInv
<1>. SUFFICES ASSUME Init PROVE NoticeInv
  OBVIOUS
<1>1. /\ notice = [k \in Keys |-> 0] /\ now = 1 /\ entry = 1 /\ streak = 0
      /\ device = [NewDevice EXCEPT !.failures = 1] /\ req = [w \in Workers |-> Idle]
  BY DEF Init, NoticeInit
<1>2. device \in [active : BOOLEAN, revoked : BOOLEAN, failures : Nat] /\ ~device.revoked
  BY <1>1 DEF NewDevice
<1>3. NoticeTypes /\ NoneAhead /\ Silenced /\ NoticeOnce
  BY <1>1, <1>2 DEF NoticeTypes, NoneAhead, Silenced, NoticeOnce
<1>4. Unsent
  BY <1>1, IdleIsRequest DEF Unsent
<1>. QED
  BY <1>3, <1>4 DEF NoticeInv

-----------------------------------------------------------------------------
(* Days and occurrences *)
LEMMA DaysAre == Days \subseteq Nat /\ \A d \in Days : d > 0
  BY NoticesAssumption, FS_CardinalityType

LEMMA EarliestIs ==
  ASSUME NEW S \in SUBSET Days, S # {}
  PROVE  Earliest(S) \in S /\ \A e \in S : Earliest(S) <= e
<1>. DEFINE R == OpToRel(<, Nat)
<1>1. S \in SUBSET Nat
  BY DaysAre
<1>2. IsWellFoundedOn(R, Nat)
  BY NatLessThanWellFounded
<1>3. \A x, y \in Nat : <<x, y>> \in R <=> x < y
  BY DEF OpToRel
<1>. HIDE DEF R
<1>4. PICK d \in S : \A e \in S : ~(<<e, d>> \in R)
  BY <1>1, <1>2, WFMin
<1>5. ASSUME NEW e \in S PROVE d <= e
  <2>1. e \in Nat /\ d \in Nat /\ ~(<<e, d>> \in R)
    BY <1>1, <1>4
  <2>. QED
    BY <1>3, <2>1
<1>6. \E x \in S : \A e \in S : x <= e
  BY <1>5
<1>. QED
  BY <1>6, Zenon DEF Earliest

LEMMA OccurrenceIs ==
  ASSUME NEW s, NEW u \in Int, NEW d
  PROVE  d \in Occurrences(s, u) <=> d \in Days /\ d <= u /\ IsOccurrence(s, d)
<1>1. \A t : d \in Occurrences(s, t) <=>
        /\ d \in Days /\ d <= t
        /\ d >= s.starts /\ d <= s.ends /\ (d - s.starts) % s.interval = 0
        /\ s.most = 0 \/ (d - s.starts) \div s.interval < s.most
  BY Zenon DEF Occurrences, NoLimit
<1>2. d \in Days => d <= d
  BY DaysAre
<1>. QED
  BY <1>1, <1>2, Zenon DEF IsOccurrence

-----------------------------------------------------------------------------
(* The other requests of the rule, while one goes on. *)
LEMMA OthersKeep ==
  ASSUME Typed, RuleInv, NEW w \in Workers, NEW q \in Request, req' = [req EXCEPT ![w] = q],
         RuleTypes', OccurrencesKept', Behind', Live' => Live,
         rule.skipped \subseteq rule'.skipped, once \subseteq once', excused \subseteq excused',
         overlapped \subseteq overlapped', rewound \subseteq rewound',
         \A d \in Days : \/ booked'[d] = booked[d]
                         \/ booked'[d] > 0 /\ req[w].pc = "book" /\ req[w].at = d,
         \A d \in once' : d \in once \/ booked'[d] > 0,
         Taken(w)', NoneLeft(w)', NotAgain(w)',
         q.pc = "book" => \A v \in Workers \ {w} :
           req[v].pc = "book" /\ req[v].at = q.at => q.at \in overlapped'
  PROVE  RuleInv'
<1>. USE DEF RuleInv
<1>1. \A v \in Workers : req'[v] = IF v = w THEN q ELSE req[v]
  BY DEF Typed
<1>3. Met'
  BY <1>1 DEF Met
<1>5. ASSUME NEW v \in Workers \ {w}
      PROVE  Taken(v)' /\ NoneLeft(v)' /\ NotAgain(v)'
  <2>1. req'[v] = req[v]
    BY <1>1
  <2>2. Taken(v) /\ NoneLeft(v) /\ NotAgain(v)
    OBVIOUS
  <2>3. req[v].pc = "book" => booked'[req[v].at] = 0 \/ req[v].at \in overlapped'
    BY <2>2 DEF Taken, Met
  <2>4. Taken(v)'
    BY <2>1, <2>2, <2>3 DEF Taken
  <2>5. \A d \in Days : Covered(d) => Covered(d)'
    BY DEF Covered
  <2>6. NoneLeft(v)'
    BY <2>1, <2>2, <2>5 DEF NoneLeft, InJob, OnHand
  <2>7. \A d \in Days : d \in once' /\ booked'[d] = 0 => d \in once /\ booked[d] = 0
    BY DEF RuleTypes
  <2>8. NotAgain(v)'
    BY <2>1, <2>2, <2>7 DEF NotAgain, InJob, OnHand
  <2>. QED
    BY <2>4, <2>6, <2>8
<1>. QED
  BY <1>3, <1>5

(* A request goes on, or is refused; no row is written. *)
LEMMA RuleMoves ==
  ASSUME Typed, RuleInv, NEW w \in Workers, NEW q \in Request, req' = [req EXCEPT ![w] = q],
         UNCHANGED <<rule, booked, once>>, excused \subseteq excused',
         overlapped \subseteq overlapped', rewound \subseteq rewound',
         req[w].pc = "mark" => req[w].at \in rewound',
         Taken(w)', NoneLeft(w)', NotAgain(w)',
         q.pc = "book" => \A v \in Workers \ {w} :
           req[v].pc = "book" /\ req[v].at = q.at => q.at \in overlapped'
  PROVE  RuleInv'
<1>1. \A v \in Workers : req'[v] = IF v = w THEN q ELSE req[v]
  BY DEF Typed
<1>2. RuleTypes'
  BY DEF RuleInv, RuleTypes
<1>3. OccurrencesKept'
  BY DEF RuleInv, OccurrencesKept, BookedOnce, NoneMissed, Live
<1>4. Behind'
  BY <1>1 DEF RuleInv, Behind
<1>5. Live' => Live
  BY DEF Live
<1>. QED
  BY <1>2, <1>3, <1>4, <1>5, OthersKeep

(* Steps of other components. *)
LEMMA ForeignRule ==
  ASSUME Typed, RuleInv, NEW w \in Workers, NEW q \in Request, req' = [req EXCEPT ![w] = q],
         UNCHANGED <<rule, booked, once, excused, overlapped>>, rewound \subseteq rewound',
         req[w].pc = "mark" => req[w].at \in rewound', q.pc \notin RulePcs
  PROVE  RuleInv'
<1>1. req'[w] = q
  BY DEF Typed
<1>2. Taken(w)' /\ NoneLeft(w)' /\ NotAgain(w)'
  BY <1>1 DEF Taken, NoneLeft, NotAgain, InJob, RulePcs
<1>3. q.pc # "book"
  BY DEF RulePcs
<1>. QED
  BY <1>2, <1>3, RuleMoves

(* The rows change and no request does. *)
LEMMA RowsChange ==
  ASSUME RuleInv, req' = req, RuleTypes', NoneMissed', Live' => Live, rule'.last = rule.last,
         rule.skipped \subseteq rule'.skipped, excused \subseteq excused', rewound \subseteq rewound',
         UNCHANGED <<once, overlapped>>,
         \A d \in Days : \/ booked'[d] = booked[d]
                         \/ /\ booked[d] > 0 /\ booked'[d] < booked[d]
                            /\ (\E w \in Workers : OnItsWay(w, d)) => d \in rewound'
  PROVE  RuleInv'
<1>. USE DEF RuleInv
<1>1. /\ booked \in [Days -> Nat] /\ booked' \in [Days -> Nat] /\ once \subseteq Days
      /\ \A d \in Days : d > 0
  BY DaysAre DEF RuleTypes
<1>2. OccurrencesKept'
  BY <1>1 DEF OccurrencesKept, BookedOnce
<1>3. Met'
  BY DEF Met
<1>4. ASSUME NEW w \in Workers
      PROVE  Taken(w)' /\ NoneLeft(w)' /\ NotAgain(w)'
  <2>1. Taken(w) /\ NoneLeft(w) /\ NotAgain(w)
    OBVIOUS
  <2>2. req[w].pc = "book" => booked'[req[w].at] = 0 \/ req[w].at \in overlapped
    BY <1>1, <2>1 DEF Taken
  <2>3. Taken(w)'
    BY <2>1, <2>2 DEF Taken
  <2>4. \A d \in Days : Covered(d) => Covered(d)'
    BY DEF Covered
  <2>5. NoneLeft(w)'
    BY <2>1, <2>4 DEF NoneLeft, InJob, OnHand
  <2>6. ASSUME NEW d \in Days, InJob(w), d \in req[w].todo \/ (d = req[w].at /\ OnHand(w)),
               d \in once, booked'[d] = 0
        PROVE  d \in rewound'
    <3>1. OnItsWay(w, d)
      BY <2>6 DEF InJob, OnItsWay
    <3>2. booked'[d] = booked[d] => d \in rewound
      BY <2>1, <2>6 DEF NotAgain
    <3>. QED
      BY <3>1, <3>2
  <2>7. NotAgain(w)'
    BY <2>6 DEF NotAgain, InJob, OnHand
  <2>. QED
    BY <2>3, <2>5, <2>7
<1>5. ASSUME NEW d \in once
      PROVE  \/ d <= rule'.last \/ d \in rewound'
             \/ booked'[d] > 0 /\ \E w \in Workers : req[w].pc = "mark" /\ req[w].at = d
  <2>1. ASSUME NEW w \in Workers, req[w].pc = "mark", req[w].at = d
        PROVE  OnItsWay(w, d)
    BY <1>4, <2>1 DEF OnItsWay, Taken, RulePcs
  <2>. QED
    BY <1>1, <2>1 DEF Behind
<1>6. Behind'
  BY <1>5 DEF Behind
<1>. QED
  BY <1>2, <1>3, <1>4, <1>6

-----------------------------------------------------------------------------
(* What a step of the rule does to the requests. *)
Books(w, q) ==
  /\ req' = [req EXCEPT ![w] = q]
  /\ req[w].pc \in RulePcs \union {"idle"} /\ q.pc \in RulePcs \union {"idle", "enabled"}
  /\ q.pc = "enabled" => q.note[1] # "entry"

LEMMA Proceeding ==
  ASSUME Typed, NEW w \in Workers, req[w].pc \in RulePcs, Proceeds(w)
  PROVE  \E q \in Request :
           /\ Books(w, q) /\ q.pc \in {"idle", "next"}
           /\ q.pc = "next" => /\ req[w].kind # "hand" /\ q.todo # {} /\ q.kind = req[w].kind
                               /\ q.at = req[w].at /\ q.saw = req[w].saw /\ q.todo = req[w].todo
<1>1. CASE req' = [req EXCEPT ![w] = Idle]
  BY <1>1, IdleIsRequest DEF Books
<1>2. CASE /\ req' = [req EXCEPT ![w] = [req[w] EXCEPT !.pc = "next"]]
           /\ req[w].kind # "hand" /\ req[w].todo # {}
  <2>. DEFINE q == [req[w] EXCEPT !.pc = "next"]
  <2>1. req[w] \in Request /\ "next" \in Pcs
    BY DEF Typed, Pcs, RulePcs
  <2>2. /\ q \in Request /\ q.pc = "next" /\ q.kind = req[w].kind /\ q.at = req[w].at
        /\ q.saw = req[w].saw /\ q.todo = req[w].todo
    BY <2>1, PcOnly
  <2>3. Books(w, q)
    <3>1. req' = [req EXCEPT ![w] = q]
      BY <1>2
    <3>. HIDE DEF q
    <3>. QED
      BY <2>2, <3>1 DEF Books, RulePcs
  <2>. HIDE DEF q
  <2>. QED
    BY <1>2, <2>2, <2>3
<1>. QED
  BY <1>1, <1>2 DEF Proceeds

(* A request that is given up, or leaves a day that is covered.            *)
LEMMA Proceeded ==
  ASSUME Typed, RuleInv, NEW w \in Workers, NEW q \in Request, NEW d, d = req[w].at,
         Books(w, q), q.pc \in {"idle", "next"},
         q.pc = "next" => /\ req[w].kind # "hand" /\ q.todo # {} /\ q.kind = req[w].kind
                          /\ q.at = req[w].at /\ q.saw = req[w].saw /\ q.todo = req[w].todo,
         req[w].pc \in RulePcs, Live' => Live, rule.skipped \subseteq rule'.skipped,
         once \subseteq once', excused \subseteq excused', rewound \subseteq rewound',
         Live => Covered(d)', UNCHANGED <<booked, once>>
  PROVE  Taken(w)' /\ NoneLeft(w)' /\ NotAgain(w)'
<1>. USE DEF RuleInv
<1>1. req'[w] = q
  BY DEF Typed, Books
<1>2. CASE q.pc = "idle"
  BY <1>1, <1>2 DEF Taken, NoneLeft, NotAgain, InJob, RulePcs
<1>3. CASE q.pc = "next"
  <2>1. Taken(w) /\ NoneLeft(w) /\ NotAgain(w)
    OBVIOUS
  <2>2. req[w].kind = "job" /\ InJob(w)
    BY <1>3, <2>1 DEF Taken, InJob
  <2>3. Taken(w)'
    BY <1>1, <1>3, <2>2 DEF Taken, RulePcs
  <2>4. \A e \in Days : Covered(e) => Covered(e)'
    BY DEF Covered
  <2>5. NoneLeft(w)'
    BY <1>1, <1>3, <2>1, <2>2, <2>4 DEF NoneLeft, OnHand
  <2>6. NotAgain(w)'
    BY <1>1, <1>3, <2>1, <2>2 DEF NotAgain, OnHand
  <2>. QED
    BY <2>3, <2>5, <2>6
<1>. QED
  BY <1>2, <1>3

-----------------------------------------------------------------------------
(* What keeps the rule right, action by action *)
LEMMA MaterializeKeeps ==
  ASSUME Typed, RuleInv, NEW w \in Workers, NEW d \in Days, Materialize(w, d)
  PROVE  RuleInv' /\ \E q \in Request : Books(w, q)
<1>. DEFINE q == [Idle EXCEPT !.kind = "hand", !.pc = "already", !.at = d]
<1>1. d \in Int
  BY DaysAre
<1>2. q \in Request /\ q.kind = "hand" /\ q.pc = "already" /\ q.at = d
  BY <1>1, IdleIsRequest DEF Request, Kinds, Pcs, RulePcs
<1>3. req' = [req EXCEPT ![w] = q] /\ req[w].pc = "idle" /\ UNCHANGED ruleVars
  BY IdleIsRequest DEF Materialize, Begins
<1>. HIDE DEF q
<1>4. Books(w, q)
  BY <1>2, <1>3 DEF Books, RulePcs
<1>5. req'[w] = q
  BY <1>3 DEF Typed
<1>6. Taken(w)' /\ NoneLeft(w)' /\ NotAgain(w)'
  BY <1>2, <1>5 DEF Taken, NoneLeft, NotAgain, InJob
<1>7. RuleInv'
  BY <1>2, <1>3, <1>6, RuleMoves DEF ruleVars, ruleHistory
<1>. QED
  BY <1>2, <1>4, <1>7

(* The job takes the occurrences until now that are neither skipped nor    *)
(* behind lastGeneratedAt.                                                 *)
LEMMA JobKeeps ==
  ASSUME Typed, RuleInv, now \in Nat, NEW w \in Workers, Job(w)
  PROVE  RuleInv' /\ \E q \in Request : Books(w, q)
<1>. DEFINE q == [Idle EXCEPT !.kind = "job", !.pc = "next", !.todo = Due, !.saw = {rule.schedule}]
<1>1. Due \in SUBSET Days /\ rule.schedule \in Schedules
  BY DEF Typed, Due, Occurrences, NoLimit
<1>2. /\ q \in Request /\ q.kind = "job" /\ q.pc = "next" /\ q.todo = Due /\ q.saw = {rule.schedule}
      /\ q.at = 0
  BY <1>1, IdleIsRequest DEF Request, Kinds, Pcs, RulePcs
<1>3. /\ req' = [req EXCEPT ![w] = q] /\ req[w].pc = "idle" /\ UNCHANGED ruleVars
      /\ Live /\ Due # {}
  BY IdleIsRequest DEF Job, Begins
<1>. HIDE DEF q
<1>4. Books(w, q)
  BY <1>2, <1>3 DEF Books, RulePcs
<1>5. req'[w] = q
  BY <1>3 DEF Typed
<1>6. Taken(w)'
  BY <1>2, <1>3, <1>5 DEF Taken, RulePcs
<1>7. ASSUME NEW s \in Schedules, NEW d \in Days \ Due, {rule.schedule} = {s}, IsOccurrence(s, d),
             \E e \in Due \union {0} : d <= e
      PROVE  Covered(d)
  <2>1. s = rule.schedule /\ d \in Nat /\ d > 0 /\ now \in Int /\ rule.last \in Int
    BY <1>7, DaysAre DEF RuleInv, RuleTypes, RuleRow
  <2>2. PICK e \in Due : d <= e
    BY <1>7, <2>1
  <2>3. e \in Occurrences(rule.schedule, now)
    BY <2>2 DEF Due
  <2>4. e \in Days /\ e <= now
    BY <2>1, <2>3, OccurrenceIs
  <2>5. d <= now
    BY <2>1, <2>2, <2>4, DaysAre
  <2>6. d \in Occurrences(rule.schedule, now)
    BY <1>7, <2>1, <2>5, OccurrenceIs
  <2>7. d \in rule.skipped \/ d <= rule.last
    BY <2>1, <2>6, DaysAre DEF Due, NotYet
  <2>8. CASE d <= rule.last
    <3>1. d \in Occurrences(rule.schedule, rule.last)
      BY <1>7, <2>1, <2>8, OccurrenceIs
    <3>. QED
      BY <1>3, <3>1 DEF RuleInv, OccurrencesKept, NoneMissed, Covered
  <2>. QED
    BY <2>7, <2>8 DEF Covered
<1>8. NoneLeft(w)'
  <2>1. \A d \in Days : Covered(d)' <=> Covered(d)
    BY <1>3 DEF Covered, ruleVars, ruleHistory
  <2>2. \A d \in Due : d > 0
    BY <1>1, DaysAre
  <2>. QED
    BY <1>2, <1>5, <1>7, <2>1, <2>2 DEF NoneLeft
<1>9. ASSUME NEW d \in Due, d \in once, booked[d] = 0
      PROVE  d \in rewound
  <2>1. d \in Int
    BY <1>1, DaysAre
  <2>2. d > rule.last
    BY DEF Due, NotYet
  <2>3. rule.last \in Int
    BY DEF RuleInv, RuleTypes, RuleRow
  <2>. QED
    BY <1>9, <2>1, <2>2, <2>3 DEF RuleInv, Behind
<1>10. NotAgain(w)'
  BY <1>2, <1>3, <1>5, <1>9 DEF NotAgain, OnHand, ruleVars, ruleHistory
<1>11. RuleInv'
  BY <1>2, <1>3, <1>6, <1>8, <1>10, RuleMoves DEF ruleVars, ruleHistory
<1>. QED
  BY <1>2, <1>4, <1>11

LEMMA NextDueKeeps ==
  ASSUME Typed, RuleInv, NEW w \in Workers, NextDue(w)
  PROVE  RuleInv' /\ \E q \in Request : Books(w, q)
<1>. DEFINE d == Earliest(req[w].todo)
            q == [req[w] EXCEPT !.pc = "already", !.at = d, !.todo = @ \ {d}]
<1>0. Taken(w) /\ NoneLeft(w) /\ NotAgain(w)
  BY DEF RuleInv
<1>1. /\ req[w].kind = "job" /\ req[w].pc = "next" /\ req[w] \in Request /\ req[w].todo \in SUBSET Days
      /\ UNCHANGED ruleVars
  BY DEF NextDue, At, Typed, Request
<1>2. d \in req[w].todo /\ d \in Days /\ d \in Int /\ \A e \in req[w].todo : d <= e
  <2>1. req[w].todo # {} /\ req[w].todo \in SUBSET Days
    BY <1>0, <1>1 DEF Taken
  <2>2. d \in req[w].todo /\ \A e \in req[w].todo : d <= e
    BY <2>1, EarliestIs
  <2>. HIDE DEF d
  <2>3. d \in Days
    BY <2>1, <2>2
  <2>4. d \in Int
    BY <2>3, DaysAre
  <2>. QED
    BY <2>2, <2>3, <2>4
<1>3. req' = [req EXCEPT ![w] = q]
  BY DEF NextDue, Typed
<1>. HIDE DEF d
<1>4. /\ q \in Request /\ q.kind = "job" /\ q.pc = "already" /\ q.at = d
      /\ q.todo = req[w].todo \ {d} /\ q.saw = req[w].saw
  BY <1>1, <1>2 DEF Request, Pcs, RulePcs
<1>. HIDE DEF q
<1>5. Books(w, q)
  BY <1>1, <1>3, <1>4 DEF Books, RulePcs
<1>6. req'[w] = q
  BY <1>3 DEF Typed
<1>7. Taken(w)'
  BY <1>2, <1>4, <1>6 DEF Taken, RulePcs
<1>8. NoneLeft(w)'
  <2>1. \A e \in Days : (Covered(e)' <=> Covered(e)) /\ (Live' <=> Live)
    BY <1>1 DEF Covered, Live, ruleVars, ruleHistory
  <2>2. ASSUME NEW e \in q.todo PROVE e > d
    <3>1. e \in req[w].todo /\ e # d /\ e \in Nat /\ d <= e
      BY <1>1, <1>2, <1>4, DaysAre
    <3>. QED
      BY <1>2, <3>1
  <2>3. InJob(w) /\ ~OnHand(w)
    BY <1>1 DEF InJob, OnHand, RulePcs
  <2>4. ASSUME Live, NEW s \in Schedules, NEW e \in Days \ q.todo, q.saw = {s}, IsOccurrence(s, e),
               \E f \in q.todo \union {d} : e <= f, e # d
        PROVE  Covered(e)
    BY <1>0, <1>2, <1>4, <2>3, <2>4 DEF NoneLeft
  <2>. QED
    BY <1>2, <1>4, <1>6, <2>1, <2>2, <2>4 DEF NoneLeft, OnHand
<1>9. NotAgain(w)'
  BY <1>0, <1>1, <1>2, <1>4, <1>6 DEF NotAgain, InJob, RulePcs, ruleVars, ruleHistory
<1>10. RuleInv'
  BY <1>1, <1>3, <1>4, <1>7, <1>8, <1>9, RuleMoves DEF ruleVars, ruleHistory
<1>. QED
  BY <1>4, <1>5, <1>10

(* The lookup: the day is free, or it has been booked.                     *)
LEMMA AlreadyKeeps ==
  ASSUME Typed, RuleInv, NEW w \in Workers, Already(w)
  PROVE  RuleInv' /\ \E q \in Request : Books(w, q)
<1>0. Taken(w) /\ NoneLeft(w) /\ NotAgain(w)
  BY DEF RuleInv
<1>1. /\ req[w].pc = "already" /\ UNCHANGED <<rule, booked, once, rewound, excused>>
      /\ overlapped \subseteq overlapped'
  BY DEF Already
<1>2. PICK d \in Days : d = req[w].at
  BY <1>0, <1>1 DEF Taken
<1>3. CASE Live /\ Free(req[w].at)
  <2>1. PICK q \in Request :
          /\ req' = [req EXCEPT ![w] = q] /\ q.pc = "book" /\ q.kind = req[w].kind
          /\ q.at = req[w].at /\ q.saw = req[w].saw /\ q.todo = req[w].todo /\ q.note = req[w].note
    BY <1>3, Goer DEF Already, Pcs, RulePcs
  <2>2. \A v \in Workers \ {w} :
          req[v].pc = "book" /\ req[v].at = q.at => q.at \in overlapped'
    BY <1>3, <2>1 DEF Already
  <2>3. req'[w] = q
    BY <2>1 DEF Typed
  <2>4. Taken(w)'
    BY <1>0, <1>1, <1>2, <1>3, <2>1, <2>3 DEF Taken, Free, RulePcs
  <2>5. \A e \in Days : (Covered(e)' <=> Covered(e)) /\ (Live' <=> Live)
    BY <1>1 DEF Covered, Live
  <2>6. NoneLeft(w)'
    BY <1>0, <1>1, <2>1, <2>3, <2>5 DEF NoneLeft, InJob, OnHand, RulePcs
  <2>7. NotAgain(w)'
    BY <1>0, <1>1, <2>1, <2>3 DEF NotAgain, InJob, OnHand, RulePcs
  <2>8. RuleInv'
    BY <1>1, <2>1, <2>2, <2>4, <2>6, <2>7, RuleMoves
  <2>9. Books(w, q)
    BY <1>1, <2>1 DEF Books, RulePcs
  <2>. QED
    BY <2>8, <2>9
<1>4. CASE Proceeds(w) /\ ~(Live /\ Free(req[w].at))
  <2>1. PICK q \in Request :
           /\ Books(w, q) /\ q.pc \in {"idle", "next"}
           /\ q.pc = "next" => /\ req[w].kind # "hand" /\ q.todo # {} /\ q.kind = req[w].kind
                               /\ q.at = req[w].at /\ q.saw = req[w].saw /\ q.todo = req[w].todo
    BY <1>1, <1>4, Proceeding DEF RulePcs
  <2>2. Live => Covered(d)'
    <3>1. Live => booked[d] > 0
      BY <1>2, <1>4 DEF Free, RuleInv, RuleTypes
    <3>. QED
      BY <1>1, <1>2, <3>1 DEF RuleInv, RuleTypes, Covered
  <2>3. Live' => Live
    BY <1>1 DEF Live
  <2>4. Taken(w)' /\ NoneLeft(w)' /\ NotAgain(w)'
    BY <1>1, <1>2, <2>1, <2>2, <2>3, Proceeded DEF RulePcs
  <2>5. RuleInv'
    BY <1>1, <2>1, <2>4, RuleMoves DEF Books
  <2>. QED
    BY <2>1, <2>5
<1>. QED
  BY <1>3, <1>4 DEF Already

LEMMA RemindDueKeeps ==
  ASSUME Typed, RuleInv, now \in Nat, NEW w \in Workers, RemindDue(w)
  PROVE  RuleInv' /\ \E q \in Request : Books(w, q)
<1>. DEFINE d == Earliest(NextOccurrences)
            q == [Idle EXCEPT !.kind = "remind", !.pc = "enabled", !.note = <<"due", d>>]
<1>1. NextOccurrences \in SUBSET Days /\ NextOccurrences # {}
  BY DEF RemindDue, NextOccurrences, Occurrences, NoLimit
<1>2. d \in Int
  <2>1. d \in NextOccurrences
    BY <1>1, EarliestIs
  <2>. HIDE DEF d
  <2>2. d \in Days
    BY <1>1, <2>1
  <2>. QED
    BY <2>2, DaysAre
<1>3. /\ req' = [req EXCEPT ![w] = q] /\ req[w].pc = "idle" /\ UNCHANGED ruleVars
  BY IdleIsRequest DEF RemindDue, Begins, Earliest
<1>. HIDE DEF d
<1>4. q \in Request /\ q.pc = "enabled" /\ q.note = <<"due", d>> /\ <<"due", d>>[1] = "due"
  BY <1>2, IdleIsRequest DEF Request, Kinds, Pcs, NoticePcs
<1>. HIDE DEF q
<1>5. Books(w, q)
  BY <1>3, <1>4 DEF Books, RulePcs
<1>6. RuleInv'
  BY <1>3, <1>4, ForeignRule DEF RulePcs, ruleVars, ruleHistory
<1>. QED
  BY <1>4, <1>5, <1>6

(* The occurrence is booked, or the ledger refuses it.                     *)
LEMMA BookOccurrenceKeeps ==
  ASSUME Typed, RuleInv, NEW w \in Workers, BookOccurrence(w)
  PROVE  RuleInv' /\ \E q \in Request : Books(w, q)
<1>0. Taken(w) /\ NoneLeft(w) /\ NotAgain(w) /\ RuleTypes
  BY DEF RuleInv
<1>1. req[w].pc = "book" /\ UNCHANGED <<rule, overlapped, rewound>>
  BY DEF BookOccurrence
<1>2. PICK d \in Days : d = req[w].at
  BY <1>0, <1>1 DEF Taken
<1>3. Live' <=> Live
  BY <1>1 DEF Live
<1>4. CASE /\ booked' = [booked EXCEPT ![d] = @ + 1] /\ once' = once \union {d}
           /\ Goes(w, "mark") /\ UNCHANGED excused
  <2>1. PICK q \in Request :
          /\ req' = [req EXCEPT ![w] = q] /\ q.pc = "mark" /\ q.kind = req[w].kind
          /\ q.at = d /\ q.saw = req[w].saw /\ q.todo = req[w].todo /\ q.note = req[w].note
    BY <1>2, <1>4, Goer DEF Pcs, RulePcs
  <2>2. \A v \in Workers : req'[v] = IF v = w THEN q ELSE req[v]
    BY <2>1 DEF Typed
  <2>3. \A e \in Days : booked'[e] = IF e = d THEN booked[e] + 1 ELSE booked[e]
    BY <1>0, <1>4 DEF RuleTypes
  <2>4. \A e \in Days : booked[e] \in Nat
    BY <1>0 DEF RuleTypes
  <2>5. RuleTypes'
    <3>1. booked' \in [Days -> Nat]
      BY <1>0, <1>4, <2>4 DEF RuleTypes
    <3>2. once' \subseteq Days /\ \A e \in Days : booked'[e] > 0 => e \in once'
      BY <1>0, <1>4, <2>3, <2>4 DEF RuleTypes
    <3>. QED
      BY <1>0, <1>1, <3>1, <3>2 DEF RuleTypes
  <2>6. OccurrencesKept'
    <3>1. booked[d] = 0 \/ d \in overlapped
      BY <1>0, <1>1, <1>2 DEF Taken
    <3>2. BookedOnce /\ NoneMissed
      BY DEF RuleInv, OccurrencesKept
    <3>3. BookedOnce'
      BY <1>1, <2>3, <2>4, <3>1, <3>2 DEF BookedOnce
    <3>4. NoneMissed'
      BY <1>1, <1>4, <3>2 DEF NoneMissed, Live
    <3>. QED
      BY <3>3, <3>4 DEF OccurrencesKept
  <2>7. ASSUME NEW e \in once'
        PROVE  \/ e <= rule.last \/ e \in rewound
               \/ booked'[e] > 0 /\ \E v \in Workers : req'[v].pc = "mark" /\ req'[v].at = e
    <3>1. CASE e = d
      BY <2>1, <2>2, <2>3, <2>4, <3>1
    <3>2. CASE e # d
      <4>1. e \in once /\ e \in Days /\ booked'[e] = booked[e]
        BY <1>0, <1>4, <2>3, <3>2 DEF RuleTypes
      <4>2. \A v \in Workers : req[v].pc = "mark" => req'[v] = req[v]
        BY <1>1, <2>2
      <4>. QED
        BY <4>1, <4>2 DEF RuleInv, Behind
    <3>. QED
      BY <3>1, <3>2
  <2>8. Behind'
    BY <1>1, <2>7 DEF Behind
  <2>9. Taken(w)'
    BY <1>0, <1>1, <1>4, <2>1, <2>2 DEF Taken, RulePcs
  <2>10. \A e \in Days : Covered(e) => Covered(e)'
    BY <1>1, <1>4 DEF Covered
  <2>11. Covered(d)'
    BY <1>4 DEF Covered
  <2>12. NoneLeft(w)'
    BY <1>0, <1>1, <1>2, <1>3, <2>1, <2>2, <2>10, <2>11 DEF NoneLeft, InJob, OnHand, RulePcs
  <2>13. \A e \in Days : e \in once' /\ booked'[e] = 0 => e \in once /\ booked[e] = 0
    BY <1>4, <2>3, <2>4
  <2>14. NotAgain(w)'
    BY <1>0, <1>1, <2>1, <2>2, <2>13 DEF NotAgain, InJob, OnHand, RulePcs
  <2>15. \A e \in Days : booked'[e] = booked[e] \/ (booked'[e] > 0 /\ req[w].pc = "book" /\ req[w].at = e)
    BY <1>1, <1>2, <2>3, <2>4
  <2>16. \A e \in once' : e \in once \/ booked'[e] > 0
    BY <1>4, <2>3, <2>4
  <2>17. RuleInv'
    BY <1>1, <1>3, <1>4, <2>1, <2>5, <2>6, <2>8, <2>9, <2>12, <2>14, <2>15, <2>16, OthersKeep
  <2>18. Books(w, q)
    BY <1>1, <2>1 DEF Books, RulePcs
  <2>. QED
    BY <2>17, <2>18
<1>5. CASE excused' = excused \union {d} /\ Proceeds(w) /\ UNCHANGED <<booked, once>>
  <2>1. PICK q \in Request :
           /\ Books(w, q) /\ q.pc \in {"idle", "next"}
           /\ q.pc = "next" => /\ req[w].kind # "hand" /\ q.todo # {} /\ q.kind = req[w].kind
                               /\ q.at = req[w].at /\ q.saw = req[w].saw /\ q.todo = req[w].todo
    BY <1>1, <1>5, Proceeding DEF RulePcs
  <2>2. Covered(d)'
    BY <1>5 DEF Covered
  <2>3. Taken(w)' /\ NoneLeft(w)' /\ NotAgain(w)'
    BY <1>1, <1>2, <1>3, <1>5, <2>1, <2>2, Proceeded DEF RulePcs
  <2>4. RuleInv'
    BY <1>1, <1>5, <2>1, <2>3, RuleMoves DEF Books
  <2>. QED
    BY <2>1, <2>4
<1>. QED
  BY <1>2, <1>4, <1>5 DEF BookOccurrence

(* lastGeneratedAt: what it passes has been booked, was covered when the   *)
(* job took its days, or is excused.                                       *)
LEMMA MarkGeneratedKeeps ==
  ASSUME Typed, RuleInv, NEW w \in Workers, MarkGenerated(w)
  PROVE  RuleInv' /\ \E q \in Request : Books(w, q)
<1>0. Taken(w) /\ NoneLeft(w) /\ NotAgain(w) /\ RuleTypes
  BY DEF RuleInv
<1>1. PICK d \in Days : d = req[w].at
  BY <1>0 DEF MarkGenerated, Taken
<1>2. /\ req[w].pc = "mark" /\ rule' = [rule EXCEPT !.last = d]
      /\ rewound' = rewound \union {e \in Days : e > d /\ e <= rule.last}
      /\ excused' = excused \union Passed(w, d) /\ Proceeds(w)
      /\ UNCHANGED <<booked, once, overlapped>>
  BY <1>1 DEF MarkGenerated
<1>3. d \in once /\ d \in Int /\ d > 0 /\ \A e \in Days : e \in Int
  BY <1>0, <1>1, <1>2, DaysAre DEF Taken
<1>4. /\ rule \in RuleRow /\ rule' \in RuleRow /\ rule'.last = d /\ rule'.skipped = rule.skipped
      /\ rule'.schedule = rule.schedule /\ rule'.state = rule.state /\ rule.last \in Int
      /\ rule.schedule \in Schedules
  BY <1>0, <1>2, <1>3 DEF RuleTypes, RuleRow
<1>5. RuleTypes' /\ (Live' <=> Live)
  BY <1>0, <1>2, <1>4 DEF RuleTypes, Live
<1>6. PICK q \in Request :
         /\ Books(w, q) /\ q.pc \in {"idle", "next"}
         /\ q.pc = "next" => /\ req[w].kind # "hand" /\ q.todo # {} /\ q.kind = req[w].kind
                             /\ q.at = req[w].at /\ q.saw = req[w].saw /\ q.todo = req[w].todo
  BY <1>2, Proceeding DEF RulePcs
<1>7. \A v \in Workers : req'[v] = IF v = w THEN q ELSE req[v]
  BY <1>6 DEF Books, Typed
<1>8. ASSUME Live, NEW e \in Days, e < d, IsOccurrence(rule.schedule, e)
      PROVE  e \in once \union rule.skipped \union excused'
  <2>1. CASE booked[e] # 0
    BY <1>0, <2>1 DEF RuleTypes
  <2>2. CASE booked[e] = 0 /\ (req[w].kind = "hand" \/ req[w].saw # {rule.schedule})
    BY <1>2, <1>8, <2>2 DEF Passed
  <2>3. CASE req[w].kind = "job" /\ req[w].saw = {rule.schedule}
    <3>1. InJob(w) /\ ~OnHand(w)
      BY <1>2, <2>3 DEF InJob, OnHand, RulePcs
    <3>2. e \notin req[w].todo
      BY <1>0, <1>1, <1>3, <1>8, <3>1 DEF NoneLeft
    <3>3. e <= d /\ d \in req[w].todo \union {req[w].at}
      BY <1>1, <1>3, <1>8
    <3>4. Covered(e)
      BY <1>0, <1>4, <1>8, <2>3, <3>1, <3>2, <3>3 DEF NoneLeft
    <3>. QED
      BY <1>2, <3>4 DEF Covered
  <2>. QED
    BY <1>0, <1>2, <2>1, <2>2, <2>3 DEF Taken, RulePcs
<1>9. OccurrencesKept'
  <2>1. BookedOnce'
    BY <1>2 DEF RuleInv, OccurrencesKept, BookedOnce
  <2>2. ASSUME Live, NEW e \in Occurrences(rule.schedule, d)
        PROVE  e \in once \union rule.skipped \union excused'
    <3>1. e \in Days /\ e <= d /\ IsOccurrence(rule.schedule, e)
      BY <1>3, OccurrenceIs
    <3>2. e < d \/ e = d
      BY <1>3, <3>1
    <3>. QED
      BY <1>3, <1>8, <2>2, <3>1, <3>2
  <2>3. NoneMissed'
    BY <1>2, <1>4, <1>5, <2>2 DEF NoneMissed
  <2>. QED
    BY <2>1, <2>3 DEF OccurrencesKept
<1>10. ASSUME NEW e \in once
       PROVE  \/ e <= d \/ e \in rewound'
              \/ booked[e] > 0 /\ \E v \in Workers : req'[v].pc = "mark" /\ req'[v].at = e
  <2>1. e \in Days /\ e \in Int
    BY <1>0, <1>3 DEF RuleTypes
  <2>2. CASE e <= rule.last
    BY <1>2, <1>3, <1>4, <2>1, <2>2
  <2>3. ASSUME NEW v \in Workers, req[v].pc = "mark", req[v].at = e, v # w
        PROVE  req'[v].pc = "mark" /\ req'[v].at = e
    BY <1>7, <2>3
  <2>. QED
    BY <1>1, <1>2, <1>3, <2>1, <2>2, <2>3 DEF RuleInv, Behind
<1>11. Behind'
  BY <1>2, <1>4, <1>10 DEF Behind
<1>12. Covered(d)' /\ excused \subseteq excused' /\ rewound \subseteq rewound'
  BY <1>2, <1>3 DEF Covered
<1>13. Taken(w)' /\ NoneLeft(w)' /\ NotAgain(w)'
  BY <1>1, <1>2, <1>4, <1>5, <1>6, <1>12, Proceeded DEF RulePcs
<1>14. RuleInv'
  BY <1>2, <1>4, <1>5, <1>6, <1>9, <1>11, <1>12, <1>13, OthersKeep DEF Books
<1>. QED
  BY <1>6, <1>14

(* The user's requests *)
LEMMA RuleRequests ==
  ASSUME Typed, RuleInv, RuleRequest
  PROVE  RuleInv' /\ req' = req
<1>0. RuleTypes /\ NoneMissed /\ rule \in RuleRow /\ rule.last \in Int
  BY DEF RuleInv, OccurrencesKept, RuleTypes, RuleRow
<1>1. ASSUME NEW auto \in BOOLEAN, NEW active \in BOOLEAN, NEW s \in Schedules,
             UpdateRule(auto, active, s)
      PROVE  RuleInv' /\ req' = req
  <2>1. /\ rule' = [rule EXCEPT !.auto = auto, !.active = active, !.schedule = s] /\ req' = req
        /\ excused' = excused \union {d \in Occurrences(s, rule.last) : booked[d] = 0}
        /\ UNCHANGED <<booked, once, overlapped, rewound>> /\ Live
    BY <1>1 DEF UpdateRule, Counts
  <2>2. /\ rule' \in RuleRow /\ rule'.last = rule.last /\ rule'.skipped = rule.skipped
        /\ rule'.state = rule.state /\ rule'.schedule = s
    BY <1>0, <2>1 DEF RuleRow
  <2>3. RuleTypes'
    BY <1>0, <2>1, <2>2 DEF RuleTypes
  <2>4. ASSUME NEW d \in Occurrences(s, rule.last)
        PROVE  d \in once \union rule.skipped \union excused'
    <3>1. d \in Days
      BY DEF Occurrences, NoLimit
    <3>. QED
      BY <1>0, <2>1, <3>1 DEF RuleTypes
  <2>5. NoneMissed'
    BY <2>1, <2>2, <2>4 DEF NoneMissed
  <2>. QED
    BY <2>1, <2>2, <2>3, <2>5, RowsChange
<1>2. ASSUME NEW d \in Days, Skip(d)
      PROVE  RuleInv' /\ req' = req
  <2>1. /\ rule' = [rule EXCEPT !.skipped = @ \union {d}] /\ req' = req
        /\ UNCHANGED <<booked, once, overlapped, rewound, excused>> /\ Live
    BY <1>2 DEF Skip, Counts, ruleHistory
  <2>2. /\ rule' \in RuleRow /\ rule'.last = rule.last /\ rule.skipped \subseteq rule'.skipped
        /\ rule'.state = rule.state /\ rule'.schedule = rule.schedule
    BY <1>0, <2>1 DEF RuleRow
  <2>3. RuleTypes'
    BY <1>0, <2>1, <2>2 DEF RuleTypes
  <2>4. NoneMissed'
    BY <1>0, <2>1, <2>2 DEF NoneMissed, Live
  <2>. QED
    BY <2>1, <2>2, <2>3, <2>4, RowsChange
<1>3. ASSUME RemoveRule
      PROVE  RuleInv' /\ req' = req
  <2>1. /\ rule' = [rule EXCEPT !.state = "deleted"] /\ req' = req
        /\ UNCHANGED <<booked, once, overlapped, rewound, excused>> /\ Live
    BY <1>3 DEF RemoveRule, Counts, ruleHistory
  <2>2. /\ rule' \in RuleRow /\ rule'.last = rule.last /\ rule.skipped \subseteq rule'.skipped
        /\ rule'.state = "deleted" /\ rule'.schedule = rule.schedule
    BY <1>0, <2>1 DEF RuleRow
  <2>3. RuleTypes'
    BY <1>0, <2>1, <2>2 DEF RuleTypes
  <2>4. NoneMissed' /\ (Live' => Live)
    BY <2>1, <2>2 DEF NoneMissed, Live
  <2>. QED
    BY <2>1, <2>2, <2>3, <2>4, RowsChange
<1>4. ASSUME NEW d \in Days, DeleteBooking(d)
      PROVE  RuleInv' /\ req' = req
  <2>1. /\ booked[d] > 0 /\ booked' = [booked EXCEPT ![d] = @ - 1] /\ req' = req
        /\ UNCHANGED <<rule, once, overlapped, excused>> /\ rewound \subseteq rewound'
        /\ (\E w \in Workers : OnItsWay(w, d)) => d \in rewound'
    BY <1>4 DEF DeleteBooking, Counts
  <2>2. /\ \A e \in Days : booked[e] \in Nat
        /\ \A e \in Days : booked'[e] = IF e = d THEN booked[e] - 1 ELSE booked[e]
    BY <1>0, <2>1 DEF RuleTypes
  <2>3. RuleTypes'
    <3>1. booked' \in [Days -> Nat]
      BY <1>0, <2>1, <2>2 DEF RuleTypes
    <3>2. \A e \in Days : booked'[e] > 0 => e \in once
      BY <1>0, <2>2 DEF RuleTypes
    <3>. QED
      BY <1>0, <2>1, <3>1, <3>2 DEF RuleTypes
  <2>4. NoneMissed'
    BY <1>0, <2>1 DEF NoneMissed, Live
  <2>5. Live' => Live
    BY <2>1 DEF Live
  <2>6. \A e \in Days : \/ booked'[e] = booked[e]
                        \/ /\ booked[e] > 0 /\ booked'[e] < booked[e]
                           /\ (\E w \in Workers : OnItsWay(w, e)) => e \in rewound'
    BY <2>1, <2>2
  <2>. QED
    BY <2>1, <2>3, <2>4, <2>5, <2>6, RowsChange
<1>. QED
  BY <1>1, <1>2, <1>3, <1>4 DEF RuleRequest

LEMMA RuleSteps ==
  ASSUME Typed, RuleInv, now \in Nat, NEW w \in Workers, RuleStep(w)
  PROVE  RuleInv' /\ \E q \in Request : Books(w, q)
  BY AlreadyKeeps, MarkGeneratedKeeps, JobKeeps, NextDueKeeps, RemindDueKeeps, MaterializeKeeps,
     BookOccurrenceKeeps DEF RuleStep

LEMMA InitRule == Init => RuleInv /\ Typed
<1>. SUFFICES ASSUME Init PROVE RuleInv /\ Typed
  OBVIOUS
<1>1. /\ booked = [d \in Days |-> 0] /\ once = {} /\ req = [w \in Workers |-> Idle]
  BY DEF Init, RuleInit, NoticeInit
<1>2. rule \in RuleRow /\ rule.last = 0
  <2>1. (CHOOSE s \in Schedules : TRUE) \in Schedules
    BY RecurrenceAssumption
  <2>2. NoRule \in RuleRow /\ NoRule.last = 0
    BY <2>1 DEF NoRule, RuleRow
  <2>3. ASSUME NEW s \in Schedules, NEW auto \in BOOLEAN,
               rule = [NoRule EXCEPT !.state = "live", !.auto = auto, !.active = TRUE, !.schedule = s]
        PROVE  rule \in RuleRow /\ rule.last = 0
    BY <2>2, <2>3 DEF RuleRow
  <2>. QED
    BY <2>2, <2>3 DEF Init, RuleInit
<1>3. RuleTypes
  BY <1>1, <1>2 DEF RuleTypes
<1>4. OccurrencesKept
  <2>1. ASSUME NEW d \in Occurrences(rule.schedule, 0) PROVE FALSE
    <3>1. d \in Days /\ d <= 0
      BY OccurrenceIs
    <3>2. d \in Nat /\ d > 0
      BY <3>1, DaysAre
    <3>. QED
      BY <3>1, <3>2
  <2>. QED
    BY <1>1, <1>2, <2>1 DEF OccurrencesKept, BookedOnce, NoneMissed
<1>5. Met /\ Behind
  BY <1>1, IdleIsRequest DEF Met, Behind
<1>6. \A w \in Workers : Taken(w) /\ NoneLeft(w) /\ NotAgain(w)
  BY <1>1, IdleIsRequest DEF Taken, NoneLeft, NotAgain, InJob, RulePcs
<1>7. Typed
  BY <1>1, <1>2, IdleIsRequest DEF Typed, RuleRow
<1>. QED
  BY <1>3, <1>4, <1>5, <1>6, <1>7 DEF RuleInv

-----------------------------------------------------------------------------
(* What a step of the goal does to the requests. *)
Saves(w, q) ==
  /\ req' = [req EXCEPT ![w] = q]
  /\ req[w].pc \in GoalPcs \union {"idle"} /\ q.pc \in GoalPcs \union {"idle", "enabled"}
  /\ q.pc = "enabled" => q.note[1] # "entry"

(* Money: a request that does not work on a pair leaves the pairs. *)
LEMMA MoneyMoves ==
  ASSUME Typed, GoalInv, NEW w \in Workers, NEW q \in Request, req' = [req EXCEPT ![w] = q],
         UNCHANGED <<contribution, loose>>, torn \subseteq torn',
         q.pc \notin {"transfer", "insertRow", "removeTransfer", "deleteRow"},
         Half(w) => req[w].at \in torn'
  PROVE  MoneyInv'
<1>. USE DEF GoalInv
<1>1. \A v \in Workers : req'[v] = IF v = w THEN q ELSE req[v]
  BY DEF Typed
<1>2. Withdrawing' /\ Unused'
  BY <1>1 DEF MoneyInv, Withdrawing, WithdrawnBy, Unused
<1>3. ASSUME NEW c \in Contributions, c \notin torn'
      PROVE  Paired(c)'
  <2>1. Paired(c) /\ c \notin torn
    BY <1>3 DEF MoneyInv
  <2>2. \A v \in Workers : /\ Adding(v, c)' => Adding(v, c)
                           /\ Sending(v, c)' <=> Sending(v, c)
    BY <1>1, <1>3 DEF Adding, Sending, At, Half
  <2>3. ASSUME NEW v \in Workers, req[v].at = c, At(v, "withdraw", "deleteRow"),
               contribution[c].transfer = "gone"
        PROVE  req'[v].at = c /\ At(v, "withdraw", "deleteRow")'
    BY <1>1, <1>3, <2>3 DEF At, Half
  <2>. QED
    BY <2>1, <2>2, <2>3 DEF Paired, LiveRow
<1>. QED
  BY <1>2, <1>3 DEF MoneyInv, Paired

(* What is shown: a request that does not recompute, or gives up.          *)
LEMMA ShownMoves ==
  ASSUME Typed, GoalInv, NEW w \in Workers, NEW q \in Request, req' = [req EXCEPT ![w] = q],
         goal' = goal, Total' = Total, crossed => crossed', retargeted => retargeted',
         q.pc \notin Recomputing,
         req[w].pc \in Recomputing => crossed' \/ goal.state # "live"
  PROVE  GoalShown'
<1>. USE DEF GoalInv
<1>1. \A v \in Workers : req'[v] = IF v = w THEN q ELSE req[v]
  BY DEF Typed
<1>2. SUFFICES ASSUME goal.state = "live" PROVE SumComes' /\ TargetRead' /\ StatusComes'
  BY DEF GoalShown
<1>3. SumComes /\ TargetRead /\ StatusComes
  BY <1>2 DEF GoalShown
<1>4. \A v \in Workers \ {w} : (Read(v)' <=> Read(v)) /\ Seen(v)' = Seen(v)
  BY <1>1 DEF Read, Seen
<1>5. ~Read(w)' /\ ~(q.pc \in Recomputing)
  BY <1>1 DEF Read, Recomputing
<1>6. SumComes'
  BY <1>1, <1>2, <1>3, <1>4, <1>5 DEF SumComes, Recomputing
<1>7. TargetRead'
  BY <1>3, <1>4, <1>5 DEF TargetRead
<1>8. StatusComes'
  <2>1. SUFFICES ASSUME ~crossed', ~retargeted'
                 PROVE  \/ Right([goal EXCEPT !.current = Total])
                        \/ \E v \in Workers : \/ req'[v].pc = "readGoal"
                                              \/ Read(v)' /\ Seen(v)'.status = goal.status
    BY DEF StatusComes
  <2>2. ~crossed /\ ~retargeted /\ ~(req[w].pc \in Recomputing)
    BY <1>2, <2>1
  <2>3. \/ Right([goal EXCEPT !.current = Total])
        \/ \E v \in Workers : \/ req[v].pc = "readGoal"
                              \/ Read(v) /\ Seen(v).status = goal.status
    BY <1>3, <2>2 DEF StatusComes
  <2>. QED
    BY <1>1, <1>4, <2>2, <2>3 DEF Read, Recomputing
<1>. QED
  BY <1>6, <1>7, <1>8

LEMMA BusyMoves ==
  ASSUME Typed, Busy, NEW w \in Workers, NEW q \in Request, req' = [req EXCEPT ![w] = q], BusyWith(w)'
  PROVE  Busy'
<1>1. \A v \in Workers : req'[v] = IF v = w THEN q ELSE req[v]
  BY DEF Typed
<1>2. ASSUME NEW v \in Workers \ {w} PROVE BusyWith(v)'
  <2>1. req'[v] = req[v] /\ (Read(v)' <=> Read(v)) /\ Seen(v)' = Seen(v)
    BY <1>1 DEF Read, Seen
  <2>. QED
    BY <2>1 DEF Busy, BusyWith
<1>. QED
  BY <1>2 DEF Busy

(* Steps of other components, requests that are lost. *)
LEMMA ForeignGoal ==
  ASSUME Typed, GoalInv, NEW w \in Workers, NEW q \in Request, req' = [req EXCEPT ![w] = q],
         UNCHANGED <<goal, contribution, loose, retargeted>>, crossed' \in BOOLEAN,
         crossed => crossed', torn \subseteq torn', q.pc \notin GoalPcs,
         Half(w) => req[w].at \in torn', req[w].pc \in Recomputing => crossed'
  PROVE  GoalInv'
<1>1. req'[w] = q
  BY DEF Typed
<1>2. BusyWith(w)'
  BY <1>1 DEF BusyWith, Read, GoalPcs
<1>3. Busy'
  BY <1>2, BusyMoves DEF GoalInv
<1>4. MoneyInv'
  BY MoneyMoves DEF GoalPcs
<1>5. Total' = Total
  BY DEF Total, LiveRow
<1>6. GoalShown'
  BY <1>5, ShownMoves DEF GoalPcs, Recomputing
<1>7. GoalTypes'
  BY DEF GoalInv, GoalTypes
<1>. QED
  BY <1>3, <1>4, <1>6, <1>7 DEF GoalInv

-----------------------------------------------------------------------------
(* What keeps the goal right, action by action *)

(* A request that neither works on the pair nor recomputes.                *)
LEMMA Beginning ==
  ASSUME Typed, GoalInv, NEW w \in Workers, NEW q \in Request, req' = [req EXCEPT ![w] = q],
         req[w].pc \in {"idle", "replay", "removeTransfer"}, UNCHANGED goalVars,
         q.pc \in {"idle", "replay"},
         q.pc = "replay" => q.at \in Contributions /\ q.kind \in {"mark", "transfer"}
  PROVE  GoalInv' /\ Saves(w, q)
<1>. USE DEF goalVars, goalHistory
<1>1. req'[w] = q
  BY DEF Typed
<1>2. BusyWith(w)'
  BY <1>1 DEF BusyWith, Read
<1>3. Busy'
  BY <1>2, BusyMoves DEF GoalInv
<1>4. MoneyInv'
  BY MoneyMoves DEF Half, At
<1>5. Total' = Total
  BY DEF Total, LiveRow
<1>6. GoalShown'
  BY <1>5, ShownMoves DEF Recomputing
<1>7. GoalTypes'
  BY DEF GoalInv, GoalTypes
<1>8. Saves(w, q)
  BY DEF Saves, GoalPcs
<1>. QED
  BY <1>3, <1>4, <1>6, <1>7, <1>8 DEF GoalInv

LEMMA AddContributionKeeps ==
  ASSUME Typed, GoalInv, NEW w \in Workers, NEW c \in Contributions, NEW kind \in {"mark", "transfer"},
         AddContribution(w, c, kind)
  PROVE  GoalInv' /\ \E q \in Request : Saves(w, q)
<1>. DEFINE q == [Idle EXCEPT !.kind = kind, !.pc = "replay", !.at = c]
<1>1. q \in Request /\ q.kind = kind /\ q.pc = "replay" /\ q.at = c
  BY IdleIsRequest DEF Request, Kinds, Pcs, GoalPcs
<1>2. req' = [req EXCEPT ![w] = q] /\ req[w].pc = "idle" /\ UNCHANGED goalVars
  BY IdleIsRequest DEF AddContribution, Begins
<1>. HIDE DEF q
<1>. QED
  BY <1>1, <1>2, Beginning

(* The lookup of a replay: from here on the request works on its pair.     *)
LEMMA FindReplayKeeps ==
  ASSUME Typed, GoalInv, NEW w \in Workers, FindReplay(w)
  PROVE  GoalInv' /\ \E q \in Request : Saves(w, q)
<1>1. /\ req[w].pc = "replay" /\ UNCHANGED <<goal, contribution, loose, crossed, retargeted>>
      /\ BusyWith(w)
  BY DEF FindReplay, GoalInv, Busy
<1>2. CASE Ends(w) /\ UNCHANGED torn
  BY <1>1, <1>2, IdleIsRequest, Beginning DEF Ends, goalVars, goalHistory
<1>3. CASE ~Replay(req[w].at) /\ ~(Replay(req[w].at) \/ goal.state # "live")
  <2>1. PICK c \in Contributions : c = req[w].at
    BY <1>1 DEF BusyWith
  <2>2. PICK pc \in {"transfer", "insertRow"} :
          Goes(w, pc) /\ (pc = "transfer" <=> req[w].kind = "transfer")
    BY <1>3 DEF FindReplay
  <2>3. PICK q \in Request :
          /\ req' = [req EXCEPT ![w] = q] /\ q.pc = pc /\ q.kind = req[w].kind
          /\ q.at = req[w].at /\ q.saw = req[w].saw /\ q.todo = req[w].todo /\ q.note = req[w].note
    BY <2>2, Goer DEF Pcs, GoalPcs
  <2>4. \A v \in Workers : req'[v] = IF v = w THEN q ELSE req[v]
    BY <2>3 DEF Typed
  <2>5. torn \subseteq torn' /\ \A v \in Workers \ {w} : Adding(v, c) => c \in torn'
    BY <1>3, <2>1 DEF FindReplay
  <2>6. Busy'
    <3>1. BusyWith(w)'
      BY <1>1, <2>1, <2>2, <2>3, <2>4 DEF BusyWith, Read
    <3>. QED
      BY <2>3, <3>1, BusyMoves DEF GoalInv
  <2>7. GoalShown'
    <3>1. Total' = Total
      BY <1>1 DEF Total, LiveRow
    <3>. QED
      BY <1>1, <2>2, <2>3, <3>1, ShownMoves DEF Recomputing
  <2>8. Withdrawing' /\ Unused'
    BY <1>1, <2>2, <2>3, <2>4 DEF GoalInv, MoneyInv, Withdrawing, WithdrawnBy, Unused
  <2>9. ASSUME NEW e \in Contributions, e \notin torn'
        PROVE  Paired(e)'
    <3>1. Paired(e) /\ e \notin torn
      BY <2>5, <2>9 DEF GoalInv, MoneyInv
    <3>2. \A v \in Workers : /\ v # w => (Adding(v, e)' <=> Adding(v, e))
                             /\ Sending(v, e)' <=> Sending(v, e)
                             /\ At(v, "withdraw", "deleteRow")' <=> At(v, "withdraw", "deleteRow")
                             /\ At(v, "withdraw", "deleteRow") => req'[v].at = req[v].at
      BY <1>1, <2>2, <2>3, <2>4 DEF Adding, Sending, At, BusyWith
    <3>3. Adding(w, e)' => e = c
      BY <2>1, <2>3, <2>4 DEF Adding
    <3>4. e = c => ~LiveRow(e)
      BY <1>3, <2>1 DEF Replay
    <3>5. e = c => \A v \in Workers \ {w} : ~Adding(v, e)
      BY <2>5, <2>9
    <3>. QED
      BY <1>1, <3>1, <3>2, <3>3, <3>4, <3>5 DEF Paired, LiveRow
  <2>10. GoalTypes'
    BY <1>1 DEF GoalInv, GoalTypes
  <2>11. MoneyInv'
    BY <2>8, <2>9 DEF MoneyInv, Paired
  <2>12. Saves(w, q)
    BY <1>1, <2>2, <2>3 DEF Saves, GoalPcs
  <2>. QED
    BY <2>6, <2>7, <2>10, <2>11, <2>12 DEF GoalInv
<1>. QED
  BY <1>2, <1>3 DEF FindReplay

(* The transfer is booked, and no row points to it yet.                    *)
LEMMA TransferKeeps ==
  ASSUME Typed, GoalInv, NEW w \in Workers, Transfer(w)
  PROVE  GoalInv' /\ \E q \in Request : Saves(w, q)
<1>1. /\ req[w].pc = "transfer" /\ req[w].kind = "transfer"
      /\ UNCHANGED <<goal, contribution, torn, crossed, retargeted>>
      /\ BusyWith(w) /\ GoalTypes
  BY DEF Transfer, At, goalHistory, GoalInv, Busy
<1>2. PICK c \in Contributions : c = req[w].at
  BY <1>1 DEF BusyWith
<1>3. PICK q \in Request :
        /\ req' = [req EXCEPT ![w] = q] /\ q.pc = "insertRow" /\ q.kind = req[w].kind
        /\ q.at = req[w].at /\ q.saw = req[w].saw /\ q.todo = req[w].todo /\ q.note = req[w].note
  BY Goer DEF Transfer, Pcs, GoalPcs
<1>4. \A v \in Workers : req'[v] = IF v = w THEN q ELSE req[v]
  BY <1>3 DEF Typed
<1>5. \A e \in Contributions : loose'[e] = IF e = c THEN loose[e] + 1 ELSE loose[e]
  BY <1>1, <1>2 DEF Transfer, GoalTypes
<1>6. GoalTypes'
  <2>1. loose' \in [Contributions -> Int]
    BY <1>1, <1>2 DEF Transfer, GoalTypes
  <2>. QED
    BY <1>1, <2>1 DEF GoalTypes
<1>7. Busy'
  <2>1. BusyWith(w)'
    BY <1>1, <1>2, <1>3, <1>4 DEF BusyWith, Read
  <2>. QED
    BY <1>3, <2>1, BusyMoves DEF GoalInv
<1>8. GoalShown'
  <2>1. Total' = Total
    BY <1>1 DEF Total, LiveRow
  <2>. QED
    BY <1>1, <1>3, <2>1, ShownMoves DEF Recomputing
<1>9. Withdrawing' /\ Unused'
  BY <1>1, <1>3, <1>4 DEF GoalInv, MoneyInv, Withdrawing, WithdrawnBy, Unused
<1>10. ASSUME NEW e \in Contributions, e \notin torn'
       PROVE  Paired(e)'
  <2>1. Paired(e) /\ e \notin torn
    BY <1>1, <1>10 DEF GoalInv, MoneyInv
  <2>2. \A v \in Workers : /\ Adding(v, e)' <=> Adding(v, e)
                           /\ v # w => (Sending(v, e)' <=> Sending(v, e))
                           /\ At(v, "withdraw", "deleteRow")' <=> At(v, "withdraw", "deleteRow")
                           /\ At(v, "withdraw", "deleteRow") => req'[v].at = req[v].at
    BY <1>1, <1>3, <1>4 DEF Adding, Sending, At
  <2>3. /\ ~Sending(w, e) /\ (Sending(w, e)' <=> e = c) /\ (Adding(w, e) <=> e = c)
        /\ \A v \in Workers : Sending(v, e) => Adding(v, e)
    BY <1>1, <1>2, <1>3, <1>4 DEF Adding, Sending, At
  <2>4. IF \E v \in Workers : Sending(v, e)' THEN loose'[e] = 1 ELSE loose'[e] = 0
    <3>1. CASE e = c
      <4>1. \A v \in Workers : ~Sending(v, e)
        BY <2>1, <2>3, <3>1 DEF Paired
      <4>2. loose[e] = 0
        BY <2>1, <4>1 DEF Paired
      <4>. QED
        BY <1>5, <2>3, <3>1, <4>2
    <3>2. CASE e # c
      BY <1>5, <2>1, <2>2, <2>3, <3>2 DEF Paired
    <3>. QED
      BY <3>1, <3>2
  <2>. QED
    BY <1>1, <2>1, <2>2, <2>4 DEF Paired, LiveRow
<1>11. MoneyInv'
  BY <1>9, <1>10 DEF MoneyInv, Paired
<1>12. Saves(w, q)
  BY <1>1, <1>3 DEF Saves, GoalPcs
<1>. QED
  BY <1>6, <1>7, <1>8, <1>11, <1>12 DEF GoalInv

(* The sum changes: whoever would write an old one is marked, and this     *)
(* request will read it.                                                   *)
LEMMA SumChanges ==
  ASSUME Typed, GoalInv, NEW w \in Workers, NEW q \in Request, req' = [req EXCEPT ![w] = q],
         UNCHANGED <<goal, retargeted>>, q.pc = "readGoal", crossed' = Crosses(w),
         req[w].pc \notin Recomputing
  PROVE  GoalShown'
<1>1. \A v \in Workers : req'[v] = IF v = w THEN q ELSE req[v]
  BY DEF Typed
<1>2. SUFFICES ASSUME goal.state = "live" PROVE SumComes' /\ TargetRead' /\ StatusComes'
  BY DEF GoalShown
<1>3. TargetRead
  BY <1>2 DEF GoalInv, GoalShown
<1>4. \A v \in Workers \ {w} : (Read(v)' <=> Read(v)) /\ Seen(v)' = Seen(v)
  BY <1>1 DEF Read, Seen
<1>5. ~Read(w)'
  BY <1>1 DEF Read
<1>6. SumComes'
  BY <1>1 DEF SumComes, Crosses, Recomputing
<1>7. TargetRead'
  BY <1>3, <1>4, <1>5 DEF TargetRead
<1>8. StatusComes'
  BY <1>1 DEF StatusComes
<1>. QED
  BY <1>6, <1>7, <1>8

LEMMA InsertContributionKeeps ==
  ASSUME Typed, GoalInv, NEW w \in Workers, InsertContribution(w)
  PROVE  GoalInv' /\ \E q \in Request : Saves(w, q)
<1>1. /\ req[w].pc = "insertRow" /\ UNCHANGED <<goal, retargeted>>
      /\ BusyWith(w) /\ GoalTypes /\ MoneyInv
  BY DEF InsertContribution, GoalInv, Busy
<1>2. PICK c \in Contributions : c = req[w].at /\ req[w].kind \in {"mark", "transfer"}
  BY <1>1 DEF BusyWith
<1>. DEFINE paid == req[w].kind = "transfer"
            row == [state |-> "live", transfer |-> IF paid THEN "live" ELSE "none"]
<1>3. CASE /\ contribution[c].state = "none"
           /\ contribution' = [contribution EXCEPT ![c] = row]
           /\ loose' = IF paid THEN [loose EXCEPT ![c] = @ - 1] ELSE loose
           /\ crossed' = Crosses(w) /\ Goes(w, "readGoal") /\ UNCHANGED torn
  <2>1. PICK q \in Request :
          /\ req' = [req EXCEPT ![w] = q] /\ q.pc = "readGoal" /\ q.kind = req[w].kind
          /\ q.at = req[w].at /\ q.saw = req[w].saw /\ q.todo = req[w].todo /\ q.note = req[w].note
    BY <1>3, Goer DEF Pcs, GoalPcs
  <2>2. \A v \in Workers : req'[v] = IF v = w THEN q ELSE req[v]
    BY <2>1 DEF Typed
  <2>3. row \in ContributionRow /\ row.state = "live" /\ row.transfer # "gone"
    BY DEF ContributionRow
  <2>4. \A e \in Contributions : contribution'[e] = IF e = c THEN row ELSE contribution[e]
    BY <1>1, <1>3 DEF GoalTypes
  <2>5. \A e \in Contributions : loose'[e] = IF e = c /\ paid THEN loose[e] - 1 ELSE loose[e]
    BY <1>1, <1>3 DEF GoalTypes
  <2>. HIDE DEF row
  <2>6. GoalTypes'
    <3>1. loose' \in [Contributions -> Int]
      BY <1>1, <1>3 DEF GoalTypes
    <3>2. contribution' \in [Contributions -> ContributionRow]
      BY <1>1, <1>3, <2>3 DEF GoalTypes
    <3>3. crossed' \in BOOLEAN
      BY <1>1, <1>3 DEF GoalTypes, Crosses
    <3>. QED
      BY <1>1, <3>1, <3>2, <3>3 DEF GoalTypes
  <2>7. Busy'
    <3>1. BusyWith(w)'
      BY <2>1, <2>2 DEF BusyWith, Read
    <3>. QED
      BY <2>1, <3>1, BusyMoves DEF GoalInv
  <2>8. GoalShown'
    BY <1>1, <1>3, <2>1, SumChanges DEF Recomputing
  <2>9. ASSUME NEW v \in Workers PROVE WithdrawnBy(v)'
    <3>1. CASE req'[v].pc \in {"removeTransfer", "deleteRow"}
      <4>1. v # w /\ req'[v] = req[v] /\ req[v].at \in Contributions /\ WithdrawnBy(v)
        BY <2>1, <2>2, <3>1 DEF GoalInv, Busy, BusyWith, MoneyInv, Withdrawing
      <4>2. req[v].at # c
        BY <1>3, <3>1, <4>1 DEF WithdrawnBy
      <4>. QED
        BY <2>4, <4>1, <4>2 DEF WithdrawnBy
    <3>2. CASE req'[v].pc \notin {"removeTransfer", "deleteRow"}
      BY <3>2 DEF WithdrawnBy
    <3>. QED
      BY <3>1, <3>2
  <2>10. Unused'
    BY <1>1, <2>3, <2>4 DEF MoneyInv, Unused
  <2>11. ASSUME NEW e \in Contributions, e \notin torn'
         PROVE  Paired(e)'
    <3>1. Paired(e) /\ e \notin torn
      BY <1>1, <1>3, <2>11 DEF MoneyInv
    <3>2. /\ Adding(w, c) /\ (Sending(w, c) <=> paid)
          /\ \A v \in Workers : ~(v = w /\ (Adding(v, e)' \/ Sending(v, e)'))
          /\ \A v \in Workers : e # c => ~Adding(w, e) /\ ~Sending(w, e)
          /\ \A v \in Workers : Sending(v, e) => Adding(v, e)
      BY <1>1, <1>2, <2>1, <2>2 DEF Adding, Sending, At
    <3>3. \A v \in Workers \ {w} : /\ Adding(v, e)' <=> Adding(v, e)
                                   /\ Sending(v, e)' <=> Sending(v, e)
                                   /\ At(v, "withdraw", "deleteRow")' <=> At(v, "withdraw", "deleteRow")
                                   /\ req'[v].at = req[v].at
      BY <2>2 DEF Adding, Sending, At
    <3>4. CASE e = c
      <4>1. \A v \in Workers : ~Adding(v, e)' /\ ~Sending(v, e)'
        BY <3>1, <3>2, <3>3, <3>4 DEF Paired
      <4>2. IF paid THEN loose[e] = 1 ELSE loose[e] = 0
        BY <3>1, <3>2, <3>4 DEF Paired
      <4>3. loose'[e] = 0
        BY <2>5, <3>4, <4>2
      <4>. QED
        BY <2>3, <2>4, <3>4, <4>1, <4>3 DEF Paired, LiveRow
    <3>5. CASE e # c
      <4>1. /\ contribution'[e] = contribution[e] /\ loose'[e] = loose[e]
            /\ ~At(w, "withdraw", "deleteRow")
        BY <1>1, <2>4, <2>5, <3>5 DEF At
      <4>. QED
        BY <3>1, <3>2, <3>3, <3>5, <4>1 DEF Paired, LiveRow
    <3>. QED
      BY <3>4, <3>5
  <2>12. MoneyInv'
    BY <2>9, <2>10, <2>11 DEF MoneyInv, Withdrawing, Paired
  <2>13. Saves(w, q)
    BY <1>1, <2>1 DEF Saves, GoalPcs
  <2>. QED
    BY <2>6, <2>7, <2>8, <2>12, <2>13 DEF GoalInv
<1>4. CASE /\ torn' = (IF LiveRow(c) THEN torn ELSE torn \union {c}) /\ Ends(w)
           /\ UNCHANGED <<contribution, loose, crossed>>
  <2>1. req' = [req EXCEPT ![w] = Idle] /\ Idle \in Request /\ Idle.pc = "idle"
    BY <1>4, IdleIsRequest DEF Ends
  <2>2. c \in torn'
    BY <1>1, <1>2, <1>4 DEF MoneyInv, Paired, Adding
  <2>3. req'[w] = Idle
    BY <2>1 DEF Typed
  <2>4. Busy'
    <3>1. BusyWith(w)'
      BY <2>1, <2>3 DEF BusyWith, Read
    <3>. QED
      BY <2>1, <3>1, BusyMoves DEF GoalInv
  <2>5. MoneyInv'
    BY <1>2, <1>4, <2>1, <2>2, MoneyMoves
  <2>6. Total' = Total
    BY <1>4 DEF Total, LiveRow
  <2>7. GoalShown'
    BY <1>1, <1>4, <2>1, <2>6, ShownMoves DEF Recomputing
  <2>8. GoalTypes'
    BY <1>1, <1>4 DEF GoalTypes
  <2>9. Saves(w, Idle)
    BY <1>1, <2>1 DEF Saves, GoalPcs
  <2>. QED
    BY <2>1, <2>4, <2>5, <2>7, <2>8, <2>9 DEF GoalInv
<1>. QED
  BY <1>2, <1>3, <1>4 DEF InsertContribution

LEMMA RemoveContributionKeeps ==
  ASSUME Typed, GoalInv, NEW w \in Workers, NEW c \in Contributions, RemoveContribution(w, c)
  PROVE  GoalInv' /\ \E q \in Request : Saves(w, q)
<1>1. LiveRow(c) /\ req[w].pc = "idle" /\ UNCHANGED goalVars
  BY IdleIsRequest DEF RemoveContribution, Begins
<1>2. PICK pc \in {"deleteRow", "removeTransfer"} :
        /\ req' = [req EXCEPT ![w] = [Idle EXCEPT !.kind = "withdraw", !.at = c, !.pc = pc]]
        /\ pc = "deleteRow" => contribution[c].transfer = "none"
  BY DEF RemoveContribution, Begins
<1>. DEFINE q == [Idle EXCEPT !.kind = "withdraw", !.at = c, !.pc = pc]
<1>3. q \in Request /\ q.kind = "withdraw" /\ q.pc = pc /\ q.at = c
  BY <1>2, IdleIsRequest DEF Request, Kinds, Pcs, GoalPcs
<1>4. req' = [req EXCEPT ![w] = q]
  BY <1>2
<1>. HIDE DEF q
<1>5. \A v \in Workers : req'[v] = IF v = w THEN q ELSE req[v]
  BY <1>4 DEF Typed
<1>6. Busy'
  <2>1. BusyWith(w)'
    BY <1>2, <1>3, <1>5 DEF BusyWith, Read
  <2>. QED
    BY <1>3, <1>4, <2>1, BusyMoves DEF GoalInv
<1>7. GoalShown'
  <2>1. Total' = Total
    BY <1>1 DEF Total, LiveRow, goalVars
  <2>. QED
    BY <1>1, <1>2, <1>3, <1>4, <2>1, ShownMoves DEF Recomputing, goalVars, goalHistory
<1>8. GoalTypes'
  BY <1>1 DEF GoalInv, GoalTypes, goalVars, goalHistory
<1>9. UNCHANGED <<contribution, loose, torn>>
  BY <1>1 DEF goalVars, goalHistory
<1>10. Withdrawing' /\ Unused'
  BY <1>1, <1>2, <1>3, <1>5, <1>9 DEF GoalInv, MoneyInv, Withdrawing, WithdrawnBy, Unused, LiveRow
<1>11. ASSUME NEW e \in Contributions, e \notin torn
       PROVE  Paired(e)'
  <2>1. Paired(e)
    BY DEF GoalInv, MoneyInv
  <2>2. \A v \in Workers : /\ Adding(v, e)' <=> Adding(v, e)
                           /\ Sending(v, e)' <=> Sending(v, e)
                           /\ At(v, "withdraw", "deleteRow") =>
                                At(v, "withdraw", "deleteRow")' /\ req'[v].at = req[v].at
    BY <1>1, <1>3, <1>5 DEF Adding, Sending, At
  <2>. QED
    BY <1>9, <1>11, <2>1, <2>2 DEF Paired, LiveRow
<1>12. MoneyInv'
  BY <1>9, <1>10, <1>11 DEF MoneyInv, Paired
<1>13. Saves(w, q)
  BY <1>1, <1>2, <1>3, <1>4 DEF Saves, GoalPcs
<1>. QED
  BY <1>3, <1>6, <1>7, <1>8, <1>12, <1>13 DEF GoalInv

LEMMA RemoveTransferKeeps ==
  ASSUME Typed, GoalInv, NEW w \in Workers, RemoveTransfer(w)
  PROVE  GoalInv' /\ \E q \in Request : Saves(w, q)
<1>1. /\ req[w].pc = "removeTransfer" /\ UNCHANGED <<goal, loose, torn, crossed, retargeted>>
      /\ BusyWith(w) /\ GoalTypes /\ MoneyInv
  BY DEF RemoveTransfer, goalHistory, GoalInv, Busy
<1>2. PICK c \in Contributions : c = req[w].at /\ req[w].kind = "withdraw"
  BY <1>1 DEF BusyWith
<1>3. CASE Ends(w) /\ UNCHANGED contribution
  BY <1>1, <1>3, IdleIsRequest, Beginning DEF Ends, goalVars, goalHistory
<1>4. CASE /\ contribution[c].transfer = "live"
           /\ contribution' = [contribution EXCEPT ![c].transfer = "gone"] /\ Goes(w, "deleteRow")
  <2>1. PICK q \in Request :
          /\ req' = [req EXCEPT ![w] = q] /\ q.pc = "deleteRow" /\ q.kind = req[w].kind
          /\ q.at = req[w].at /\ q.saw = req[w].saw /\ q.todo = req[w].todo /\ q.note = req[w].note
    BY <1>4, Goer DEF Pcs, GoalPcs
  <2>2. \A v \in Workers : req'[v] = IF v = w THEN q ELSE req[v]
    BY <2>1 DEF Typed
  <2>3. /\ contribution' \in [Contributions -> ContributionRow]
        /\ \A e \in Contributions : /\ contribution'[e].state = contribution[e].state
                                    /\ e # c => contribution'[e] = contribution[e]
                                    /\ e = c => contribution'[e].transfer = "gone"
    BY <1>1, <1>4 DEF GoalTypes, ContributionRow
  <2>4. GoalTypes'
    BY <1>1, <2>3 DEF GoalTypes
  <2>5. Busy'
    <3>1. BusyWith(w)'
      BY <1>2, <2>1, <2>2 DEF BusyWith, Read
    <3>. QED
      BY <2>1, <3>1, BusyMoves DEF GoalInv
  <2>6. GoalShown'
    <3>1. Total' = Total
      BY <2>3 DEF Total, LiveRow
    <3>. QED
      BY <1>1, <2>1, <3>1, ShownMoves DEF Recomputing
  <2>7. ASSUME NEW v \in Workers PROVE WithdrawnBy(v)'
    <3>1. CASE req'[v].pc \in {"removeTransfer", "deleteRow"}
      <4>1. /\ req[v].pc \in {"removeTransfer", "deleteRow"} /\ req'[v].at = req[v].at
            /\ v # w => req'[v] = req[v]
        BY <1>1, <2>1, <2>2, <3>1
      <4>2. req[v].at \in Contributions /\ WithdrawnBy(v)
        BY <1>1, <4>1 DEF GoalInv, Busy, BusyWith, MoneyInv, Withdrawing
      <4>. QED
        BY <1>2, <2>3, <4>1, <4>2 DEF WithdrawnBy
    <3>2. CASE req'[v].pc \notin {"removeTransfer", "deleteRow"}
      BY <3>2 DEF WithdrawnBy
    <3>. QED
      BY <3>1, <3>2
  <2>8. Unused'
    <3>1. contribution[c].state # "none"
      BY <1>1, <1>2 DEF MoneyInv, Withdrawing, WithdrawnBy
    <3>. QED
      BY <1>1, <2>3, <3>1 DEF MoneyInv, Unused
  <2>9. ASSUME NEW e \in Contributions, e \notin torn
        PROVE  Paired(e)'
    <3>1. Paired(e)
      BY <1>1 DEF MoneyInv
    <3>2. \A v \in Workers : /\ Adding(v, e)' <=> Adding(v, e)
                             /\ Sending(v, e)' <=> Sending(v, e)
                             /\ At(v, "withdraw", "deleteRow") =>
                                  At(v, "withdraw", "deleteRow")' /\ req'[v].at = req[v].at
      BY <1>1, <2>1, <2>2 DEF Adding, Sending, At
    <3>3. req'[w].at = c /\ At(w, "withdraw", "deleteRow")'
      BY <1>2, <2>1, <2>2 DEF At
    <3>4. LiveRow(e)' <=> LiveRow(e)
      BY <2>3 DEF LiveRow
    <3>. QED
      BY <1>1, <2>3, <2>9, <3>1, <3>2, <3>3, <3>4 DEF Paired
  <2>10. MoneyInv'
    BY <1>1, <2>7, <2>8, <2>9 DEF MoneyInv, Withdrawing, Paired
  <2>11. Saves(w, q)
    BY <1>1, <2>1 DEF Saves, GoalPcs
  <2>. QED
    BY <2>4, <2>5, <2>6, <2>10, <2>11 DEF GoalInv
<1>. QED
  BY <1>2, <1>3, <1>4 DEF RemoveTransfer

LEMMA DeleteContributionKeeps ==
  ASSUME Typed, GoalInv, NEW w \in Workers, DeleteContribution(w)
  PROVE  GoalInv' /\ \E q \in Request : Saves(w, q)
<1>1. /\ req[w].pc = "deleteRow" /\ UNCHANGED <<goal, loose, torn, retargeted>>
      /\ BusyWith(w) /\ GoalTypes /\ MoneyInv
  BY DEF DeleteContribution, At, GoalInv, Busy
<1>2. PICK c \in Contributions : c = req[w].at
  BY <1>1 DEF BusyWith
<1>3. contribution' = [contribution EXCEPT ![c].state = "deleted"] /\ crossed' = Crosses(w)
  BY <1>2 DEF DeleteContribution
<1>4. PICK q \in Request :
        /\ req' = [req EXCEPT ![w] = q] /\ q.pc = "readGoal" /\ q.kind = req[w].kind
        /\ q.at = req[w].at /\ q.saw = req[w].saw /\ q.todo = req[w].todo /\ q.note = req[w].note
  BY Goer DEF DeleteContribution, Pcs, GoalPcs
<1>5. \A v \in Workers : req'[v] = IF v = w THEN q ELSE req[v]
  BY <1>4 DEF Typed
<1>6. /\ contribution' \in [Contributions -> ContributionRow]
      /\ \A e \in Contributions : /\ contribution'[e].transfer = contribution[e].transfer
                                  /\ e # c => contribution'[e] = contribution[e]
                                  /\ e = c => contribution'[e].state = "deleted"
  BY <1>1, <1>3 DEF GoalTypes, ContributionRow
<1>7. contribution[c].transfer # "live"
  BY <1>1, <1>2 DEF MoneyInv, Withdrawing, WithdrawnBy
<1>8. GoalTypes'
  <2>1. crossed' \in BOOLEAN
    BY <1>1, <1>3 DEF GoalTypes, Crosses
  <2>. QED
    BY <1>1, <1>6, <2>1 DEF GoalTypes
<1>9. Busy'
  <2>1. BusyWith(w)'
    BY <1>4, <1>5 DEF BusyWith, Read
  <2>. QED
    BY <1>4, <2>1, BusyMoves DEF GoalInv
<1>10. GoalShown'
  BY <1>1, <1>3, <1>4, SumChanges DEF Recomputing
<1>11. ASSUME NEW v \in Workers PROVE WithdrawnBy(v)'
  <2>1. CASE req'[v].pc \in {"removeTransfer", "deleteRow"}
    <3>1. v # w /\ req'[v] = req[v] /\ req[v].at \in Contributions /\ WithdrawnBy(v)
      BY <1>1, <1>4, <1>5, <2>1 DEF GoalInv, Busy, BusyWith, MoneyInv, Withdrawing
    <3>. QED
      BY <1>6, <3>1 DEF WithdrawnBy
  <2>2. CASE req'[v].pc \notin {"removeTransfer", "deleteRow"}
    BY <2>2 DEF WithdrawnBy
  <2>. QED
    BY <2>1, <2>2
<1>12. Unused'
  BY <1>1, <1>6 DEF MoneyInv, Unused
<1>13. ASSUME NEW e \in Contributions, e \notin torn
       PROVE  Paired(e)'
  <2>1. Paired(e)
    BY <1>1 DEF MoneyInv
  <2>2. \A v \in Workers : /\ Adding(v, e)' <=> Adding(v, e)
                           /\ Sending(v, e)' <=> Sending(v, e)
                           /\ At(v, "withdraw", "deleteRow") /\ req[v].at = e /\ e # c =>
                                At(v, "withdraw", "deleteRow")' /\ req'[v].at = e
    BY <1>1, <1>2, <1>4, <1>5 DEF Adding, Sending, At
  <2>3. CASE e = c
    BY <1>1, <1>6, <1>7, <1>13, <2>1, <2>2, <2>3 DEF Paired, LiveRow
  <2>4. CASE e # c
    <3>1. contribution'[e] = contribution[e]
      BY <1>6, <2>4
    <3>. QED
      BY <1>1, <1>13, <2>1, <2>2, <2>4, <3>1 DEF Paired, LiveRow
  <2>. QED
    BY <2>3, <2>4
<1>14. MoneyInv'
  BY <1>1, <1>11, <1>12, <1>13 DEF MoneyInv, Withdrawing, Paired
<1>15. Saves(w, q)
  BY <1>1, <1>4 DEF Saves, GoalPcs
<1>. QED
  BY <1>8, <1>9, <1>10, <1>14, <1>15 DEF GoalInv

-----------------------------------------------------------------------------
(* A recomputation: it reads the goal, then the sum, and writes.           *)
LEMMA TotalIsNat == Total \in Nat
<1>1. {c \in Contributions : LiveRow(c)} \subseteq Contributions
  OBVIOUS
<1>2. IsFiniteSet({c \in Contributions : LiveRow(c)})
  BY <1>1, GoalAssumption, FS_Subset
<1>. QED
  BY <1>2, FS_CardinalityType DEF Total

LEMMA ReadGoalKeeps ==
  ASSUME Typed, GoalInv, NEW w \in Workers, ReadGoal(w)
  PROVE  GoalInv' /\ \E q \in Request : Saves(w, q)
<1>1. req[w].pc = "readGoal" /\ UNCHANGED goalVars /\ GoalTypes
  BY DEF ReadGoal, GoalInv
<1>2. Total' = Total /\ GoalTypes'
  BY <1>1 DEF Total, LiveRow, GoalTypes, goalVars, goalHistory
<1>3. UNCHANGED <<goal, contribution, loose, torn, crossed, retargeted>>
  BY <1>1 DEF goalVars, goalHistory
<1>4. CASE Ends(w) /\ goal.state # "live"
  <2>1. req' = [req EXCEPT ![w] = Idle] /\ Idle \in Request /\ Idle.pc = "idle"
    BY <1>4, IdleIsRequest DEF Ends
  <2>2. req'[w] = Idle
    BY <2>1 DEF Typed
  <2>3. Busy'
    <3>1. BusyWith(w)'
      BY <2>1, <2>2 DEF BusyWith, Read
    <3>. QED
      BY <2>1, <3>1, BusyMoves DEF GoalInv
  <2>4. MoneyInv'
    BY <1>1, <1>3, <2>1, MoneyMoves DEF Half, At
  <2>5. GoalShown'
    BY <1>2, <1>3, <1>4, <2>1, ShownMoves DEF Recomputing
  <2>6. Saves(w, Idle)
    BY <1>1, <2>1 DEF Saves, GoalPcs
  <2>. QED
    BY <1>2, <2>1, <2>3, <2>4, <2>5, <2>6 DEF GoalInv
<1>5. CASE goal.state = "live" /\ req' = [req EXCEPT ![w].pc = "readSum", ![w].saw = {goal}]
  <2>. DEFINE q == [req[w] EXCEPT !.pc = "readSum", !.saw = {goal}]
  <2>1. req' = [req EXCEPT ![w] = q] /\ req[w] \in Request
    BY <1>5 DEF Typed
  <2>2. goal \in GoalRow
    BY <1>1 DEF GoalTypes
  <2>3. q \in Request /\ q.pc = "readSum" /\ q.saw = {goal}
    BY <2>1, <2>2 DEF Request, Pcs, GoalPcs
  <2>. HIDE DEF q
  <2>4. \A v \in Workers : req'[v] = IF v = w THEN q ELSE req[v]
    BY <2>1 DEF Typed
  <2>5. Seen(w)' = goal /\ \A v \in Workers \ {w} : Seen(v)' = Seen(v) /\ (Read(v)' <=> Read(v))
    BY <2>3, <2>4 DEF Seen, Read
  <2>6. Busy'
    <3>1. BusyWith(w)'
      BY <2>2, <2>3, <2>4, <2>5 DEF BusyWith
    <3>. QED
      BY <2>1, <2>3, <3>1, BusyMoves DEF GoalInv
  <2>7. MoneyInv'
    BY <1>1, <1>3, <2>1, <2>3, MoneyMoves DEF Half, At
  <2>8. SumComes /\ TargetRead
    BY <1>5 DEF GoalInv, GoalShown
  <2>9. SumComes'
    BY <1>1, <1>2, <1>3, <2>3, <2>4, <2>5, <2>8 DEF SumComes, Recomputing
  <2>10. TargetRead'
    BY <1>3, <2>5, <2>8 DEF TargetRead
  <2>11. StatusComes'
    BY <1>3, <2>3, <2>4, <2>5 DEF StatusComes, Read
  <2>12. Saves(w, q)
    BY <1>1, <2>1, <2>3 DEF Saves, GoalPcs
  <2>. QED
    BY <1>2, <2>3, <2>6, <2>7, <2>9, <2>10, <2>11, <2>12 DEF GoalInv, GoalShown
<1>. QED
  BY <1>4, <1>5 DEF ReadGoal

LEMMA ReadSumKeeps ==
  ASSUME Typed, GoalInv, NEW w \in Workers, ReadSum(w)
  PROVE  GoalInv' /\ \E q \in Request : Saves(w, q)
<1>1. req[w].pc = "readSum" /\ UNCHANGED goalVars /\ GoalTypes /\ req[w] \in Request
  BY DEF ReadSum, GoalInv, Typed
<1>2. Total' = Total /\ GoalTypes' /\ Total \in Nat
  BY <1>1, TotalIsNat DEF Total, LiveRow, GoalTypes, goalVars, goalHistory
<1>3. UNCHANGED <<goal, contribution, loose, torn, crossed, retargeted>>
  BY <1>1 DEF goalVars, goalHistory
<1>4. PICK g \in GoalRow : req[w].saw = {g} /\ g = Seen(w)
  BY <1>1 DEF GoalInv, Busy, BusyWith, Read
<1>5. PICK h : h = [g EXCEPT !.current = Total]
  OBVIOUS
<1>6. /\ h \in GoalRow /\ h.current = Total /\ h.status = g.status /\ h.target = g.target
  BY <1>2, <1>5 DEF GoalRow
<1>. DEFINE q == [req[w] EXCEPT !.pc = "writeGoal", !.saw = {h}]
<1>7. req' = [req EXCEPT ![w] = q]
  <2>1. {[x EXCEPT !.current = Sum] : x \in req[w].saw} = {h}
    BY <1>4, <1>5 DEF Sum
  <2>. QED
    BY <2>1 DEF ReadSum, Typed
<1>8. q \in Request /\ q.pc = "writeGoal" /\ q.saw = {h}
  BY <1>1, <1>6 DEF Request, Pcs, GoalPcs
<1>. HIDE DEF q
<1>9. \A v \in Workers : req'[v] = IF v = w THEN q ELSE req[v]
  BY <1>7 DEF Typed
<1>10. Seen(w)' = h /\ \A v \in Workers \ {w} : Seen(v)' = Seen(v) /\ (Read(v)' <=> Read(v))
  BY <1>8, <1>9 DEF Seen, Read
<1>11. Busy'
  <2>1. BusyWith(w)'
    BY <1>6, <1>8, <1>9, <1>10 DEF BusyWith
  <2>. QED
    BY <1>7, <1>8, <2>1, BusyMoves DEF GoalInv
<1>12. MoneyInv'
  BY <1>1, <1>3, <1>7, <1>8, MoneyMoves DEF Half, At
<1>13. ASSUME goal.state = "live"
       PROVE  SumComes' /\ TargetRead' /\ StatusComes'
  <2>1. SumComes /\ TargetRead /\ StatusComes /\ Read(w)
    BY <1>1, <1>13 DEF GoalInv, GoalShown, Read
  <2>2. SumComes'
    BY <1>2, <1>3, <1>6, <1>8, <1>9, <1>10, <2>1 DEF SumComes, Recomputing
  <2>3. TargetRead'
    BY <1>3, <1>4, <1>6, <1>10, <2>1 DEF TargetRead
  <2>4. Read(w)' /\ \A v \in Workers : req[v].pc = "readGoal" => req'[v].pc = "readGoal"
    BY <1>1, <1>8, <1>9 DEF Read
  <2>5. StatusComes'
    BY <1>2, <1>3, <1>4, <1>6, <1>10, <2>1, <2>4 DEF StatusComes
  <2>. QED
    BY <2>2, <2>3, <2>5
<1>14. Saves(w, q)
  BY <1>1, <1>7, <1>8 DEF Saves, GoalPcs
<1>. QED
  BY <1>2, <1>3, <1>8, <1>11, <1>12, <1>13, <1>14 DEF GoalInv, GoalShown

(* The status that is written is right for the sum and the target that     *)
(* were read.                                                              *)
LEMMA StatusIsRight ==
  ASSUME NEW g \in GoalRow
  PROVE  /\ Status(g) \in {"ACTIVE", "COMPLETED", "ABANDONED"}
         /\ Status(g) = "ABANDONED" <=> g.status = "ABANDONED"
         /\ Status(g) # "ABANDONED" => (Status(g) = "COMPLETED" <=> g.current >= g.target)
<1>1. g.status \in {"ACTIVE", "COMPLETED", "ABANDONED"} /\ g.current \in Nat /\ g.target \in Nat
  BY DEF GoalRow
<1>. QED
  BY <1>1 DEF Status

LEMMA WriteGoalKeeps ==
  ASSUME Typed, GoalInv, NEW w \in Workers, WriteGoal(w)
  PROVE  GoalInv' /\ \E q \in Request : Saves(w, q)
<1>1. /\ req[w].pc = "writeGoal" /\ UNCHANGED <<contribution, loose, torn>>
      /\ GoalTypes /\ req[w] \in Request /\ goal \in GoalRow
  BY DEF WriteGoal, GoalInv, GoalTypes, Typed
<1>2. PICK g \in GoalRow : req[w].saw = {g} /\ g = Seen(w)
  BY <1>1 DEF GoalInv, Busy, BusyWith, Read
<1>3. Total' = Total /\ Total \in Nat
  BY <1>1, TotalIsNat DEF Total, LiveRow
<1>4. PICK s : s = IF Status(g) # g.status THEN Status(g) ELSE goal.status
  OBVIOUS
<1>5. /\ goal' = [goal EXCEPT !.current = g.current, !.status = s]
      /\ retargeted' = (retargeted /\ (<<g.status, g.target>> # <<goal.status, goal.target>> \/ Others(w)))
      /\ crossed' = (crossed /\ (<<g.status, g.current>> # <<goal.status, Total>> \/ Others(w)))
      /\ Ends(w) \/ Notifies(w, <<"goal", 0>>, "idle")
  <2>1. (CHOOSE x \in req[w].saw : TRUE) = g
    BY <1>2
  <2>. DEFINE Written(x) ==
         /\ goal' = [goal EXCEPT !.current = x.current,
                                 !.status = IF Status(x) # x.status THEN Status(x) ELSE goal.status]
         /\ retargeted' = (retargeted /\ (<<x.status, x.target>> # <<goal.status, goal.target>> \/ Others(w)))
         /\ crossed' = (crossed /\ (<<x.status, x.current>> # <<goal.status, Total>> \/ Others(w)))
  <2>2. Written(CHOOSE x \in req[w].saw : TRUE)
    BY Zenon DEF WriteGoal
  <2>4. Written(g)
    <3>. HIDE DEF Written
    <3>. QED
      BY <2>1, <2>2
  <2>3. Ends(w) \/ Notifies(w, <<"goal", 0>>, "idle")
    BY DEF WriteGoal
  <2>. QED
    BY <1>4, <2>3, <2>4
<1>6. PICK q \in Request : /\ req' = [req EXCEPT ![w] = q] /\ q.pc \in {"idle", "enabled"}
                           /\ q.pc = "enabled" => q.note[1] # "entry"
  <2>1. CASE Ends(w)
    BY <2>1, IdleIsRequest DEF Ends
  <2>2. CASE Notifies(w, <<"goal", 0>>, "idle")
    <3>1. PICK q \in Request : /\ req' = [req EXCEPT ![w] = q] /\ q.pc = "enabled"
                               /\ q.note = <<"goal", 0>> /\ q.note[1] = "goal"
      BY <2>2, Notifying
    <3>. QED
      BY <3>1
  <2>. QED
    BY <1>5, <2>1, <2>2
<1>7. \A v \in Workers : req'[v] = IF v = w THEN q ELSE req[v]
  BY <1>6 DEF Typed
<1>8. /\ s \in {"ACTIVE", "COMPLETED", "ABANDONED"} /\ g.current \in Nat /\ g.target \in Nat
      /\ goal.target \in Nat /\ g.status \in {"ACTIVE", "COMPLETED", "ABANDONED"}
      /\ goal.status \in {"ACTIVE", "COMPLETED", "ABANDONED"}
  BY <1>1, <1>2, <1>4, StatusIsRight DEF GoalRow
<1>9. /\ goal' \in GoalRow /\ goal'.current = g.current /\ goal'.status = s
      /\ goal'.target = goal.target /\ goal'.state = goal.state
  BY <1>1, <1>5, <1>8 DEF GoalRow
<1>10. GoalTypes'
  <2>1. crossed' \in BOOLEAN /\ retargeted' \in BOOLEAN
    BY <1>5
  <2>. QED
    BY <1>1, <1>9, <2>1 DEF GoalTypes
<1>11. ~Read(w)' /\ \A v \in Workers \ {w} : Seen(v)' = Seen(v) /\ (Read(v)' <=> Read(v))
  BY <1>6, <1>7 DEF Seen, Read
<1>12. Busy'
  <2>1. BusyWith(w)'
    BY <1>6, <1>7, <1>11 DEF BusyWith
  <2>. QED
    BY <1>6, <2>1, BusyMoves DEF GoalInv
<1>13. MoneyInv'
  BY <1>1, <1>6, MoneyMoves DEF Half, At
<1>14. ASSUME goal.state = "live"
       PROVE  SumComes' /\ TargetRead' /\ StatusComes'
  <2>1. SumComes /\ TargetRead /\ StatusComes /\ Read(w)
    BY <1>1, <1>14 DEF GoalInv, GoalShown, Read
  <2>2. ~crossed' => g.current = Total /\ (crossed => g.status = goal.status /\ ~Others(w))
    BY <1>1, <1>2, <1>5, <2>1 DEF SumComes
  <2>3. ~retargeted' => /\ g.target = goal.target
                        /\ g.status = "ABANDONED" <=> goal.status = "ABANDONED"
                        /\ retargeted => g.status = goal.status /\ ~Others(w)
    BY <1>2, <1>5, <2>1 DEF TargetRead
  <2>4. ~Others(w) => \A v \in Workers \ {w} : req'[v].pc \notin Recomputing /\ ~Read(v)'
    BY <1>7, <1>11 DEF Others, Recomputing, Read
  <2>5. SumComes'
    <3>1. ASSUME ~crossed', NEW v \in Workers, req'[v].pc = "writeGoal"
          PROVE  Seen(v)'.current = Total
      <4>1. v \in Workers \ {w} /\ req[v].pc = "writeGoal"
        BY <1>6, <1>7, <3>1
      <4>2. ~crossed
        BY <2>2, <2>4, <3>1, <4>1 DEF Recomputing
      <4>. QED
        BY <1>11, <2>1, <4>1, <4>2 DEF SumComes
    <3>. QED
      BY <1>3, <1>9, <2>2, <3>1 DEF SumComes
  <2>6. ~retargeted' => (s = "ABANDONED" <=> goal.status = "ABANDONED")
    BY <1>2, <1>4, <2>3, StatusIsRight
  <2>7. TargetRead'
    <3>1. ASSUME ~retargeted', NEW v \in Workers, Read(v)'
          PROVE  /\ Seen(v)'.target = goal.target
                 /\ Seen(v)'.status = "ABANDONED" <=> goal.status = "ABANDONED"
      <4>1. v \in Workers \ {w} /\ Read(v)
        BY <1>11, <3>1
      <4>2. ~retargeted
        BY <2>3, <2>4, <3>1, <4>1
      <4>. QED
        BY <1>11, <2>1, <4>1, <4>2 DEF TargetRead
    <3>. QED
      BY <1>9, <2>6, <3>1 DEF TargetRead
  <2>8. ASSUME ~crossed', ~retargeted'
        PROVE  \/ s = "ABANDONED" \/ (s = "COMPLETED" <=> Total >= goal.target)
               \/ \E v \in Workers : \/ req'[v].pc = "readGoal"
                                     \/ Read(v)' /\ Seen(v)'.status = s
    <3>1. g.current = Total /\ g.target = goal.target
      BY <2>2, <2>3, <2>8
    <3>2. CASE g.status = goal.status \/ Status(g) # g.status
      <4>1. s = Status(g)
        BY <1>4, <3>2
      <4>. QED
        BY <1>2, <3>1, <4>1, StatusIsRight
    <3>3. CASE g.status # goal.status /\ Status(g) = g.status
      <4>1. s = goal.status /\ ~crossed /\ ~retargeted
        BY <1>4, <1>5, <2>2, <2>3, <2>8, <3>3
      <4>2. g.status # "ABANDONED" /\ goal.status # "ABANDONED" /\ g.status # goal.status
        BY <2>3, <2>8, <3>3
      <4>3. g.status = "COMPLETED" <=> Total >= goal.target
        BY <1>2, <3>1, <3>3, <4>2, StatusIsRight
      <4>4. ~(goal.status = "COMPLETED" <=> Total >= goal.target)
        BY <1>8, <4>2, <4>3
      <4>5. ~Right([goal EXCEPT !.current = Total])
        BY <1>1, <1>3, <4>2, <4>4 DEF Right, GoalRow
      <4>6. PICK v \in Workers : \/ req[v].pc = "readGoal"
                                 \/ Read(v) /\ Seen(v).status = goal.status
        BY <2>1, <4>1, <4>5 DEF StatusComes
      <4>7. v # w
        BY <1>1, <1>2, <3>3, <4>6
      <4>. QED
        BY <1>7, <1>11, <4>1, <4>6, <4>7
    <3>. QED
      BY <3>2, <3>3
  <2>9. Right([goal' EXCEPT !.current = Total]) <=>
          s = "ABANDONED" \/ (s = "COMPLETED" <=> Total >= goal.target)
    BY <1>3, <1>9 DEF Right, GoalRow
  <2>10. StatusComes'
    BY <1>3, <1>9, <2>8, <2>9 DEF StatusComes, Right
  <2>. QED
    BY <2>5, <2>7, <2>10
<1>15. GoalShown'
  BY <1>9, <1>14 DEF GoalShown
<1>16. Saves(w, q)
  BY <1>1, <1>6 DEF Saves, GoalPcs
<1>. QED
  BY <1>10, <1>12, <1>13, <1>15, <1>16 DEF GoalInv

LEMMA GoalSteps ==
  ASSUME Typed, GoalInv, NEW w \in Workers, GoalStep(w)
  PROVE  GoalInv' /\ \E q \in Request : Saves(w, q)
  BY FindReplayKeeps, InsertContributionKeeps, RemoveTransferKeeps, DeleteContributionKeeps,
     ReadGoalKeeps, ReadSumKeeps, WriteGoalKeeps, RemoveContributionKeeps, AddContributionKeeps,
     TransferKeeps DEF GoalStep

(* The user's requests; the goal and the requests that read it stay.       *)
LEMMA SameGoal ==
  ASSUME GoalInv, UNCHANGED <<req, goalVars>>
  PROVE  GoalInv'
<1>. USE DEF GoalInv, goalVars, goalHistory
<1>1. \A v \in Workers : /\ Seen(v)' = Seen(v) /\ (Read(v)' <=> Read(v))
                         /\ \A c \in Contributions : /\ Adding(v, c)' <=> Adding(v, c)
                                                     /\ Sending(v, c)' <=> Sending(v, c)
  BY DEF Seen, Read, Adding, Sending, At
<1>2. Total' = Total
  BY DEF Total, LiveRow
<1>3. GoalTypes' /\ Busy'
  BY <1>1 DEF GoalTypes, Busy, BusyWith
<1>4. GoalShown'
  BY <1>1, <1>2 DEF GoalShown, SumComes, TargetRead, StatusComes
<1>5. MoneyInv'
  BY <1>1 DEF MoneyInv, Withdrawing, WithdrawnBy, Unused, Paired, LiveRow, At
<1>. QED
  BY <1>3, <1>4, <1>5

LEMMA GoalRequests ==
  ASSUME Typed, GoalInv, GoalRequest
  PROVE  GoalInv' /\ req' = req
<1>0. req' = req
  BY DEF GoalRequest, RemoveGoal, DeleteTransfer, UpdateGoal, Counts
<1>1. /\ GoalTypes /\ Busy /\ GoalShown /\ MoneyInv /\ goal \in GoalRow
      /\ goal.target \in Nat /\ goal.status \in {"ACTIVE", "COMPLETED", "ABANDONED"}
  BY DEF GoalInv, GoalTypes, GoalRow
<1>2. \A v \in Workers : /\ Seen(v)' = Seen(v) /\ (Read(v)' <=> Read(v))
                         /\ \A c \in Contributions : /\ Adding(v, c)' <=> Adding(v, c)
                                                     /\ Sending(v, c)' <=> Sending(v, c)
  BY <1>0 DEF Seen, Read, Adding, Sending, At
<1>3. Busy'
  BY <1>0, <1>1, <1>2 DEF Busy, BusyWith
<1>4. ASSUME UNCHANGED <<contribution, loose, torn>>
      PROVE  MoneyInv' /\ Total' = Total
  <2>1. Total' = Total
    BY <1>4 DEF Total, LiveRow
  <2>2. MoneyInv'
    BY <1>0, <1>1, <1>2, <1>4
    DEF MoneyInv, Withdrawing, WithdrawnBy, Unused, Paired, LiveRow, At
  <2>. QED
    BY <2>1, <2>2
<1>5. ASSUME RemoveGoal
      PROVE  GoalInv'
  <2>1. /\ goal' = [goal EXCEPT !.state = "deleted"]
        /\ UNCHANGED <<contribution, loose, torn, crossed, retargeted>>
    BY <1>5 DEF RemoveGoal, goalHistory
  <2>2. goal' \in GoalRow /\ goal'.state # "live"
    BY <1>1, <2>1 DEF GoalRow
  <2>3. GoalTypes' /\ GoalShown'
    BY <1>1, <2>1, <2>2 DEF GoalTypes, GoalShown
  <2>. QED
    BY <1>3, <1>4, <2>1, <2>3 DEF GoalInv
<1>6. ASSUME NEW t \in Targets, NEW s \in {"ACTIVE", "ABANDONED", goal.status}, UpdateGoal(t, s)
      PROVE  GoalInv'
  <2>1. /\ goal' = [goal EXCEPT !.target = t, !.status = s] /\ retargeted' = TRUE
        /\ UNCHANGED <<contribution, loose, torn, crossed>> /\ goal.state = "live"
    BY <1>6 DEF UpdateGoal
  <2>2. goal' \in GoalRow /\ goal'.current = goal.current
    BY <1>1, <2>1, GoalAssumption DEF GoalRow
  <2>3. GoalTypes'
    BY <1>1, <2>1, <2>2 DEF GoalTypes
  <2>4. SumComes'
    BY <1>0, <1>1, <1>2, <1>4, <2>1, <2>2 DEF GoalShown, SumComes
  <2>5. TargetRead' /\ StatusComes'
    BY <2>1 DEF TargetRead, StatusComes
  <2>. QED
    BY <1>3, <1>4, <2>1, <2>3, <2>4, <2>5 DEF GoalInv, GoalShown
<1>7. ASSUME NEW c \in Contributions, DeleteTransfer(c)
      PROVE  GoalInv'
  <2>1. /\ contribution[c].transfer = "live" /\ torn' = torn \union {c}
        /\ contribution' = [contribution EXCEPT ![c].transfer = "gone"]
        /\ UNCHANGED <<goal, loose, crossed, retargeted>>
    BY <1>7 DEF DeleteTransfer
  <2>2. /\ contribution' \in [Contributions -> ContributionRow]
        /\ \A e \in Contributions : /\ contribution'[e].state = contribution[e].state
                                    /\ e # c => contribution'[e] = contribution[e]
                                    /\ e = c => contribution'[e].transfer = "gone"
    BY <1>1, <2>1 DEF GoalTypes, ContributionRow
  <2>3. GoalTypes' /\ Total' = Total
    BY <1>1, <2>1, <2>2 DEF GoalTypes, Total, LiveRow
  <2>4. SumComes /\ TargetRead /\ StatusComes => SumComes' /\ TargetRead' /\ StatusComes'
    BY <1>0, <1>2, <2>1, <2>3 DEF SumComes, TargetRead, StatusComes
  <2>5. GoalShown'
    BY <1>1, <2>1, <2>4 DEF GoalShown
  <2>6. ASSUME NEW v \in Workers PROVE WithdrawnBy(v)'
    <3>1. req[v].pc \in {"removeTransfer", "deleteRow"} => req[v].at \in Contributions
      BY <1>1 DEF Busy, BusyWith
    <3>. QED
      BY <1>0, <1>1, <2>2, <3>1 DEF MoneyInv, Withdrawing, WithdrawnBy
  <2>7. Unused'
    BY <1>1, <2>1, <2>2 DEF MoneyInv, Unused
  <2>8. ASSUME NEW e \in Contributions, e \notin torn'
        PROVE  Paired(e)'
    <3>1. Paired(e) /\ e \notin torn /\ contribution'[e] = contribution[e]
      BY <1>1, <2>1, <2>2, <2>8 DEF MoneyInv
    <3>. QED
      BY <1>0, <1>2, <2>1, <3>1 DEF Paired, LiveRow, At
  <2>9. MoneyInv'
    BY <2>6, <2>7, <2>8 DEF MoneyInv, Withdrawing, Paired
  <2>. QED
    BY <1>3, <2>3, <2>5, <2>9 DEF GoalInv
<1>. QED
  BY <1>0, <1>5, <1>6, <1>7 DEF GoalRequest

LEMMA InitGoal == Init => GoalInv
<1>. SUFFICES ASSUME Init PROVE GoalInv
  OBVIOUS
<1>1. /\ req = [w \in Workers |-> Idle] /\ contribution = [c \in Contributions |-> NoContribution]
      /\ loose = [c \in Contributions |-> 0] /\ torn = {} /\ crossed = FALSE /\ retargeted = FALSE
  BY DEF Init, GoalInit, NoticeInit
<1>2. /\ goal \in GoalRow
      /\ goal.state = "live" => goal.current = 0 /\ goal.status = "ACTIVE" /\ goal.target > 0
  <2>1. NoGoal \in GoalRow /\ NoGoal.state = "none" /\ NoGoal.current = 0 /\ NoGoal.status = "ACTIVE"
    BY DEF NoGoal, GoalRow
  <2>2. ASSUME NEW t \in Targets, goal = [NoGoal EXCEPT !.state = "live", !.target = t]
        PROVE  goal \in GoalRow /\ goal.current = 0 /\ goal.status = "ACTIVE" /\ goal.target > 0
    <3>1. t \in Nat /\ t > 0
      BY GoalAssumption
    <3>. QED
      BY <2>1, <2>2, <3>1 DEF GoalRow
  <2>. QED
    BY <2>1, <2>2 DEF Init, GoalInit
<1>3. NoContribution \in ContributionRow /\ NoContribution.state = "none" /\ NoContribution.transfer = "none"
  BY DEF NoContribution, ContributionRow
<1>4. GoalTypes
  <2>1. contribution \in [Contributions -> ContributionRow] /\ loose \in [Contributions -> Int]
    BY <1>1, <1>3
  <2>. QED
    BY <1>1, <1>2, <2>1 DEF GoalTypes
<1>5. Busy /\ \A w \in Workers : ~Read(w)
  BY <1>1, IdleIsRequest DEF Busy, BusyWith, Read
<1>6. Total = 0
  <2>1. {c \in Contributions : LiveRow(c)} = {}
    BY <1>1, <1>3 DEF LiveRow
  <2>. QED
    BY <2>1, FS_EmptySet DEF Total
<1>7. GoalShown
  <2>1. SUFFICES ASSUME goal.state = "live" PROVE SumComes /\ TargetRead /\ StatusComes
    BY DEF GoalShown
  <2>2. SumComes
    BY <1>1, <1>2, <1>6, <2>1, IdleIsRequest DEF SumComes
  <2>3. TargetRead
    BY <1>5 DEF TargetRead
  <2>4. Right([goal EXCEPT !.current = Total])
    BY <1>2, <1>6, <2>1 DEF Right, GoalRow
  <2>. QED
    BY <2>2, <2>3, <2>4 DEF StatusComes
<1>8. MoneyInv
  BY <1>1, <1>3, IdleIsRequest DEF MoneyInv, Withdrawing, WithdrawnBy, Unused, Paired, Adding, Sending, At, LiveRow
<1>. QED
  BY <1>4, <1>5, <1>7, <1>8 DEF GoalInv

-----------------------------------------------------------------------------
(* The three together *)
JobsInv == Typed /\ NoticeInv /\ RuleInv /\ GoalInv

LEMMA InitInv == Init => JobsInv
  BY InitNotices, InitRule, InitGoal DEF JobsInv

LEMMA SameRule ==
  ASSUME RuleInv, UNCHANGED <<req, ruleVars>>
  PROVE  RuleInv'
<1>1. UNCHANGED <<rule, booked, once, overlapped, rewound, excused>>
  BY DEF ruleVars, ruleHistory
<1>2. RuleTypes' /\ NoneMissed' /\ (Live' => Live)
  BY <1>1 DEF RuleInv, RuleTypes, OccurrencesKept, NoneMissed, Live
<1>. QED
  BY <1>1, <1>2, RowsChange

LEMMA SameTyped ==
  ASSUME Typed, RuleInv', req' = req
  PROVE  Typed'
  BY DEF Typed, RuleInv, RuleTypes, RuleRow

(* A request that is typed by its step. *)
LEMMA TypedStep ==
  ASSUME Typed, RuleInv', NEW w \in Workers, NEW q \in Request, req' = [req EXCEPT ![w] = q]
  PROVE  Typed'
<1>1. rule'.schedule \in Schedules
  BY DEF RuleInv, RuleTypes, RuleRow
<1>. QED
  BY <1>1 DEF Typed

(* No request of another component is in the middle of a pair, of a sum or *)
(* of a booking.                                                           *)
LEMMA OtherPcs ==
  ASSUME NEW w \in Workers
  PROVE  /\ req[w].pc \in NoticePcs \union RulePcs \union {"idle"} =>
              ~Half(w) /\ req[w].pc \notin Recomputing
         /\ req[w].pc \in NoticePcs \union GoalPcs \union {"idle"} => req[w].pc # "mark"
  BY DEF NoticePcs, RulePcs, GoalPcs, Half, At, Recomputing

LEMMA NoticeStepInv ==
  ASSUME JobsInv, NoticeNext, UNCHANGED <<ruleVars, goalVars, now>>
  PROVE  JobsInv'
<1>. USE DEF JobsInv
<1>1. NoticeInv'
  BY NoticeRequests
<1>2. ASSUME NEW w \in Workers, NEW q \in Request, Informs(w, q)
      PROVE  Typed' /\ RuleInv' /\ GoalInv'
  <2>1. req' = [req EXCEPT ![w] = q] /\ q.pc \notin RulePcs \union GoalPcs
    BY <1>2 DEF Informs, NoticePcs, RulePcs, GoalPcs
  <2>2. ~Half(w) /\ req[w].pc \notin Recomputing /\ req[w].pc # "mark"
    BY <1>2, OtherPcs DEF Informs
  <2>3. RuleInv'
    BY <2>1, <2>2, ForeignRule DEF ruleVars, ruleHistory
  <2>4. crossed \in BOOLEAN
    BY DEF GoalInv, GoalTypes
  <2>5. GoalInv'
    BY <2>1, <2>2, <2>4, ForeignGoal DEF goalVars, goalHistory
  <2>6. Typed'
    BY <2>1, <2>3, TypedStep
  <2>. QED
    BY <2>3, <2>5, <2>6
<1>3. CASE req' = req
  <2>1. RuleInv' /\ GoalInv'
    BY <1>3, SameRule, SameGoal
  <2>2. Typed'
    BY <1>3, <2>1, SameTyped
  <2>. QED
    BY <1>1, <2>1, <2>2
<1>4. ASSUME NEW w \in Workers,
             \/ Creating(w) \/ EntryJob(w) \/ ReadLastEntry(w) \/ ReadLastReminder(w)
             \/ \E k \in Events : OnEvent(w, k)
      PROVE  JobsInv'
  <2>1. PICK q \in Request : Informs(w, q)
    BY <1>4, NoticeShape
  <2>. QED
    BY <1>1, <1>2, <2>1
<1>5. CASE \/ Subscribe \/ Unsubscribe \/ EnterTransaction
           \/ \E channels \in SUBSET {"inApp", "push"} : UpdatePreferences(channels)
  BY <1>3, <1>5 DEF Subscribe, Unsubscribe, EnterTransaction, UpdatePreferences, Counts
<1>. QED
  BY <1>4, <1>5 DEF NoticeNext

LEMMA RuleStepInv ==
  ASSUME JobsInv, NEW w \in Workers, RuleStep(w), UNCHANGED <<goalVars, now>>
  PROVE  JobsInv'
<1>. USE DEF JobsInv
<1>1. now \in Nat /\ streak \in Nat /\ entry \in Nat /\ crossed \in BOOLEAN
  BY DEF NoticeInv, NoticeTypes, GoalInv, GoalTypes
<1>2. RuleInv'
  BY <1>1, RuleSteps
<1>3. PICK q \in Request : Books(w, q)
  BY <1>1, RuleSteps
<1>4. req' = [req EXCEPT ![w] = q] /\ q.pc \notin {"insert", "send", "reminded"} \union GoalPcs
  BY <1>3 DEF Books, RulePcs, GoalPcs
<1>5. UNCHANGED quiet /\ streak' \in {streak, streak + 1} /\ entry' \in Nat /\ now' \in Nat
  <2>1. CASE UNCHANGED noticeVars
    BY <1>1, <2>1 DEF noticeVars
  <2>2. CASE BookOccurrence(w) /\ UNCHANGED quiet
    BY <1>1, <2>2 DEF BookOccurrence, Enters
  <2>. QED
    BY <2>1, <2>2 DEF RuleStep
<1>6. NoticeInv'
  BY <1>3, <1>4, <1>5, ForeignNotices DEF Books
<1>7. ~Half(w) /\ req[w].pc \notin Recomputing
  BY <1>3, OtherPcs DEF Books
<1>8. GoalInv'
  BY <1>1, <1>4, <1>7, ForeignGoal DEF goalVars, goalHistory
<1>9. Typed'
  BY <1>2, <1>4, TypedStep
<1>. QED
  BY <1>2, <1>6, <1>8, <1>9

LEMMA GoalStepInv ==
  ASSUME JobsInv, NEW w \in Workers, GoalStep(w), UNCHANGED <<ruleVars, now>>
  PROVE  JobsInv'
<1>. USE DEF JobsInv
<1>1. now \in Nat /\ streak \in Nat /\ entry \in Nat
  BY DEF NoticeInv, NoticeTypes
<1>2. GoalInv'
  BY GoalSteps
<1>3. PICK q \in Request : Saves(w, q)
  BY GoalSteps
<1>4. req' = [req EXCEPT ![w] = q] /\ q.pc \notin {"insert", "send", "reminded"} \union RulePcs
  BY <1>3 DEF Saves, RulePcs, GoalPcs
<1>5. UNCHANGED quiet /\ streak' \in {streak, streak + 1} /\ entry' \in Nat /\ now' \in Nat
  <2>1. CASE UNCHANGED noticeVars
    BY <1>1, <2>1 DEF noticeVars
  <2>2. CASE Transfer(w) /\ UNCHANGED quiet
    BY <1>1, <2>2 DEF Transfer, Enters
  <2>. QED
    BY <2>1, <2>2 DEF GoalStep
<1>6. NoticeInv'
  BY <1>3, <1>4, <1>5, ForeignNotices DEF Saves
<1>7. req[w].pc # "mark"
  BY <1>3, OtherPcs DEF Saves
<1>8. RuleInv'
  BY <1>4, <1>7, ForeignRule DEF ruleVars, ruleHistory
<1>9. Typed'
  BY <1>4, <1>8, TypedStep
<1>. QED
  BY <1>2, <1>6, <1>8, <1>9

LEMMA LoseInv ==
  ASSUME JobsInv, NEW w \in Workers, Lose(w)
  PROVE  JobsInv'
<1>. USE DEF JobsInv
<1>1. /\ req' = [req EXCEPT ![w] = Idle] /\ Idle \in Request /\ Idle.pc = "idle"
      /\ UNCHANGED noticeVars /\ now' = now
  BY IdleIsRequest DEF Lose, Ends
<1>2. now \in Nat /\ streak \in Nat /\ entry \in Nat /\ crossed \in BOOLEAN
  BY DEF NoticeInv, NoticeTypes, GoalInv, GoalTypes
<1>3. NoticeInv'
  BY <1>1, <1>2, ForeignNotices DEF noticeVars
<1>4. RuleInv'
  <2>1. /\ UNCHANGED <<rule, booked, once, excused, overlapped>> /\ rewound \subseteq rewound'
        /\ req[w].pc = "mark" => req[w].at \in rewound'
    BY DEF Lose, LoseRule
  <2>. QED
    BY <1>1, <2>1, ForeignRule DEF RulePcs
<1>5. GoalInv'
  <2>1. /\ UNCHANGED <<goal, contribution, loose, retargeted>> /\ torn \subseteq torn'
        /\ Half(w) => req[w].at \in torn'
        /\ crossed' = (crossed \/ req[w].pc \in Recomputing)
    BY DEF Lose, LoseGoal
  <2>2. crossed' \in BOOLEAN
    BY <1>2, <2>1
  <2>. QED
    BY <1>1, <2>1, <2>2, ForeignGoal DEF GoalPcs
<1>6. Typed'
  BY <1>1, <1>4, TypedStep
<1>. QED
  BY <1>3, <1>4, <1>5, <1>6

LEMMA StepInv == JobsInv /\ [Next]_vars => JobsInv'
<1>. SUFFICES ASSUME JobsInv, [Next]_vars PROVE JobsInv'
  OBVIOUS
<1>0. Typed /\ NoticeInv /\ RuleInv /\ GoalInv /\ now \in Nat /\ streak \in Nat /\ entry \in Nat
  BY DEF JobsInv, NoticeInv, NoticeTypes
<1>1. CASE NoticeNext /\ UNCHANGED <<ruleVars, goalVars, now>>
  BY <1>1, NoticeStepInv
<1>2. ASSUME NEW w \in Workers, Step(w) PROVE JobsInv'
  BY <1>2, RuleStepInv, GoalStepInv, LoseInv DEF Step
<1>3. ASSUME req' = req, NoticeInv', RuleInv', GoalInv' PROVE JobsInv'
  BY <1>0, <1>3, SameTyped DEF JobsInv
<1>4. ASSUME UNCHANGED <<noticeVars, req>>, now' \in Nat PROVE NoticeInv'
  BY <1>0, <1>4, NoticeMoves DEF noticeVars, quiet
<1>5. CASE RuleRequest /\ UNCHANGED <<noticeVars, goalVars, now>>
  <2>1. RuleInv' /\ req' = req
    BY <1>0, <1>5, RuleRequests
  <2>2. NoticeInv' /\ GoalInv'
    BY <1>0, <1>4, <1>5, <2>1, SameGoal
  <2>. QED
    BY <1>3, <2>1, <2>2
<1>6. CASE GoalRequest /\ UNCHANGED <<noticeVars, ruleVars, now>>
  <2>1. GoalInv' /\ req' = req
    BY <1>0, <1>6, GoalRequests
  <2>2. NoticeInv' /\ RuleInv'
    BY <1>0, <1>4, <1>6, <2>1, SameRule
  <2>. QED
    BY <1>3, <2>1, <2>2
<1>7. CASE Tick \/ UNCHANGED vars
  <2>1. UNCHANGED <<noticeVars, ruleVars, goalVars, req>> /\ now' \in Nat
    BY <1>0, <1>7 DEF Tick, vars
  <2>2. NoticeInv' /\ RuleInv' /\ GoalInv'
    BY <1>0, <1>4, <2>1, SameRule, SameGoal
  <2>. QED
    BY <1>3, <2>1, <2>2
<1>. QED
  BY <1>1, <1>2, <1>5, <1>6, <1>7 DEF Next

THEOREM JobsAreKept == Spec => []JobsInv
  BY InitInv, StepInv, PTL DEF Spec

(* One notification per type and entity, one reminder per streak of        *)
(* inactivity, whatever jobs and events run at the same time: two only if  *)
(* two requests had looked the key up before either inserted it.           *)
THEOREM NoticesOnce == Spec => []NoticeOnce
<1>1. JobsInv => NoticeOnce
  BY DEF JobsInv, NoticeInv
<1>. QED
  BY <1>1, JobsAreKept, PTL

(* A revoked device is silent, unless the revocation met a push to it.     *)
THEOREM RevokedDevicesStayQuiet == Spec => []RevokedStaysQuiet
<1>1. JobsInv => RevokedStaysQuiet
  BY DEF JobsInv, NoticeInv, Silenced, RevokedStaysQuiet
<1>. QED
  BY <1>1, JobsAreKept, PTL

(* Every occurrence of a rule that lastGeneratedAt has passed is booked,   *)
(* and booked once, but for the causes the history variables name.         *)
THEOREM OccurrencesAreKept == Spec => []OccurrencesKept
<1>1. JobsInv => OccurrencesKept
  BY DEF JobsInv, RuleInv
<1>. QED
  BY <1>1, JobsAreKept, PTL

(* The job does not book again what the user has deleted.                  *)
THEOREM NoneIsRevived == Spec => NotRevived
<1>1. ASSUME JobsInv, NEW w \in Workers, req[w].kind = "job", req[w].pc = "book"
      PROVE  \/ req[w].at \notin once \/ req[w].at \in rewound \union overlapped
  <2>1. Taken(w) /\ NotAgain(w)
    BY <1>1 DEF JobsInv, RuleInv
  <2>2. InJob(w) /\ OnHand(w) /\ req[w].at \in Days
    BY <1>1, <2>1 DEF InJob, OnHand, Taken, RulePcs
  <2>. QED
    BY <1>1, <2>1, <2>2 DEF Taken, NotAgain
<1>2. JobsInv /\ [Next]_vars =>
        [\A w \in Workers :
           req[w].kind = "job" /\ req[w].pc = "book" /\ booked' # booked =>
             booked'[req[w].at] = booked[req[w].at] \/ req[w].at \notin once
               \/ req[w].at \in rewound \union overlapped]_<<req, booked>>
  BY <1>1
<1>. QED
  BY <1>2, JobsAreKept, PTL DEF Spec, NotRevived

(* A goal shows the sum of its contributions and the status it says, and   *)
(* the ledger holds the transfers of the contributions that are there, but *)
(* for the causes the history variables name.                              *)
THEOREM GoalsAreKept == Spec => []GoalsKept
<1>1. JobsInv => GoalsKept
  <2>1. SUFFICES ASSUME JobsInv PROVE GoalsKept
    OBVIOUS
  <2>2. GoalInv /\ GoalTypes /\ goal \in GoalRow /\ Total \in Nat
    BY <2>1, TotalIsNat DEF JobsInv, GoalInv, GoalTypes
  <2>3. ASSUME goal.state = "live", \A w \in Workers : req[w].pc \notin Recomputing, ~crossed
        PROVE  /\ goal.current = Total
               /\ ~retargeted => (goal.status = "COMPLETED" <=> goal.current >= goal.target)
                                    \/ goal.status = "ABANDONED"
    <3>1. SumComes /\ StatusComes
      BY <2>2, <2>3 DEF GoalInv, GoalShown
    <3>2. goal.current = Total
      BY <2>3, <3>1 DEF SumComes
    <3>3. ~retargeted => Right([goal EXCEPT !.current = Total])
      BY <2>3, <3>1 DEF StatusComes, Read, Recomputing
    <3>. QED
      BY <2>2, <3>2, <3>3 DEF Right, GoalRow
  <2>4. GoalExplained
    BY <2>3 DEF GoalExplained
  <2>5. ASSUME NEW c \in Contributions, c \notin torn,
               ~\E w \in Workers : req[w].at = c /\ Half(w)
        PROVE  /\ loose[c] = 0
               /\ LiveRow(c) => contribution[c].transfer # "gone"
               /\ contribution[c].state = "deleted" => contribution[c].transfer # "live"
    <3>1. Paired(c)
      BY <2>2 DEF GoalInv, MoneyInv
    <3>. QED
      BY <2>5, <3>1 DEF Paired, Half, Sending, At
  <2>6. MoneyFollows
    BY <2>5 DEF MoneyFollows
  <2>. QED
    BY <2>4, <2>6 DEF GoalsKept
<1>. QED
  BY <1>1, JobsAreKept, PTL

=============================================================================
