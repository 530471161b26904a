------------------------------ MODULE Notices ------------------------------
(***************************************************************************)
(* `notifications.service.ts`: the notifications of one user, created by   *)
(* the events of other components and by daily jobs, the preferences, and  *)
(* the push subscription of one device.  Recurrences and Goals extend this *)
(* module; Jobs puts the three together.                                   *)
(*                                                                         *)
(* A worker runs one request, event or job, one statement at a time.       *)
(***************************************************************************)
EXTENDS Naturals, FiniteSets

CONSTANTS
  Workers,
  Days,          \* 1..n, the days of an instance
  Events,        \* entities other components raise events about
  ReminderDays,  \* entryReminderDays
  MaxFailures,   \* MAX_PUSH_FAILURES (5 in the code)
  MaxStarted,    \* bound: requests, events and jobs
  MaxFaults      \* bound: lost requests, refused bookings, failed pushes

ASSUME NoticesAssumption ==
  /\ {ReminderDays, MaxFailures, MaxStarted, MaxFaults} \subseteq Nat
  /\ IsFiniteSet(Days) /\ Days = 1..Cardinality(Days)

VARIABLES
  notice,    \* how many notifications a key has
  prefs,     \* the channels that are enabled
  device,    \* DeviceToken
  now, entry,\* the day; the day of the latest transaction
  streak,    \* history: entries so far, the key of a streak of inactivity
  req, started, faults,
  doubled,   \* history: keys two requests had looked up at the same time
  slipped    \* history: the device was revoked while a push to it was under way

quiet == <<notice, prefs, device, doubled, slipped>>
noticeVars == <<quiet, entry, streak>>
bounds == <<started, faults>>

-----------------------------------------------------------------------------
(* (type, entity): the entity tells the occurrence or the period.          *)
Keys == ({"event"} \X Events) \union ({"due"} \X Days) \union {<<"goal", 0>>}
          \union ({"entry"} \X (0..MaxStarted * (1 + Cardinality(Days))))

NoKey == <<"none", 0>>

(* at: a day, an id; saw: what the request has read; note, then: the       *)
(* notification it creates, and where it goes on from there.               *)
Idle == [kind |-> "idle", pc |-> "idle", at |-> 0, saw |-> {}, todo |-> {},
         note |-> NoKey, then |-> "idle"]

At(w, kind, pc) == req[w].kind = kind /\ req[w].pc = pc
Goes(w, pc) == req' = [req EXCEPT ![w].pc = pc]
Ends(w) == req' = [req EXCEPT ![w] = Idle]

Begins(w, fields) ==
  /\ req[w] = Idle /\ started < MaxStarted /\ started' = started + 1
  /\ req' = [req EXCEPT ![w] = fields]
  /\ UNCHANGED faults

(* A statement that stands for a whole request. *)
Counts == started < MaxStarted /\ started' = started + 1 /\ UNCHANGED <<req, faults>>

(* create(): called by the step that leads to it. *)
Notifies(w, key, then) ==
  req' = [req EXCEPT ![w].pc = "enabled", ![w].note = key, ![w].then = then]

Continue(w) ==
  req' = [req EXCEPT ![w] = IF @.then = "idle" THEN Idle
                            ELSE [@ EXCEPT !.pc = @.then, !.note = NoKey, !.then = "idle"]]

-----------------------------------------------------------------------------
(* create() *)

KnownEvent(key) == key[1] = "event" /\ notice[key] > 0

(* isInAppEnabled(), and the lookup of the pair (type, entity).  A         *)
(* reminder of inactivity has no entity: its own job has looked it up.     *)
Known(key) == key[1] # "entry" /\ notice[key] > 0

FindNotice(w) ==
  LET key == req[w].note IN
  /\ req[w].pc = "enabled"
  /\ IF "inApp" \notin prefs \/ Known(key)
     THEN Continue(w)
     ELSE Goes(w, "insert")
  /\ UNCHANGED <<noticeVars, bounds>>

(* Another request has looked the same key up. *)
Rival(v, w) == \/ req[v].pc = "insert" /\ req[v].note = req[w].note
               \/ req[v].note[1] = "entry" /\ req[w].note[1] = "entry"
                    /\ req[v].pc \in {"enabled", "insert"}

Inserted(w) == IF req[w].note[1] = "entry" THEN <<"entry", streak>> ELSE req[w].note

InsertNotice(w) ==
  /\ req[w].pc = "insert"
  /\ notice' = [notice EXCEPT ![Inserted(w)] = @ + 1]
  /\ doubled' = IF \E v \in Workers \ {w} : Rival(v, w) THEN doubled \union {Inserted(w)} ELSE doubled
  /\ Goes(w, "push")
  /\ UNCHANGED <<prefs, device, entry, streak, slipped, bounds>>

(* sendPushToUser(): the device as it was read. *)
AnyDevice == TRUE

Listening == device.active

ReadDevice(w) ==
  /\ req[w].pc = "push"
  /\ IF "push" \in prefs /\ Listening
     THEN req' = [req EXCEPT ![w].pc = "send", ![w].saw = {device.failures}]
     ELSE Continue(w)
  /\ UNCHANGED <<noticeVars, bounds>>

(* The endpoint answers, or not; then the counter that was read, plus one. *)
PushDone(w) ==
  LET failures == CHOOSE n \in req[w].saw : TRUE IN
  /\ req[w].pc = "send"
  /\ \/ /\ device' = IF failures > 0 THEN [device EXCEPT !.failures = 0] ELSE device
        /\ UNCHANGED faults
     \/ /\ faults < MaxFaults /\ faults' = faults + 1
        /\ device' = [device EXCEPT !.failures = failures + 1, !.active = failures + 1 < MaxFailures]
  /\ Continue(w)
  /\ UNCHANGED <<notice, prefs, entry, streak, doubled, slipped, started>>

Creating(w) == FindNotice(w) \/ InsertNotice(w) \/ ReadDevice(w) \/ PushDone(w)

-----------------------------------------------------------------------------
(* subscribe(), unsubscribe() and removeDevice(), updatePreferences() *)

NewDevice == [active |-> TRUE, revoked |-> FALSE, failures |-> 0]

Subscribe ==
  /\ Counts /\ device' = NewDevice /\ slipped' = FALSE
  /\ UNCHANGED <<notice, prefs, entry, streak, doubled>>

Unsubscribe ==
  /\ Counts
  /\ device' = [device EXCEPT !.active = FALSE, !.revoked = TRUE]
  /\ slipped' = (slipped \/ \E w \in Workers : req[w].pc = "send")
  /\ UNCHANGED <<notice, prefs, entry, streak, doubled>>

UpdatePreferences(channels) ==
  /\ channels # prefs /\ Counts /\ prefs' = channels
  /\ UNCHANGED <<notice, device, entry, streak, doubled, slipped>>

-----------------------------------------------------------------------------
(* The listeners of budget, debt, import and account events, and the       *)
(* monthly reminder to reconcile.                                          *)
OnEvent(w, k) ==
  /\ Begins(w, [Idle EXCEPT !.kind = "event", !.pc = "enabled", !.note = <<"event", k>>])
  /\ UNCHANGED noticeVars

(* notifyEntryReminders() *)
EntryJob(w) ==
  /\ Begins(w, [Idle EXCEPT !.kind = "entry", !.pc = "last"])
  /\ UNCHANGED noticeVars

ReadLastEntry(w) ==
  /\ At(w, "entry", "last")
  /\ IF now - entry < ReminderDays THEN Ends(w)
     ELSE req' = [req EXCEPT ![w].pc = "reminded", ![w].at = streak]
  /\ UNCHANGED <<noticeVars, bounds>>

(* The latest reminder is later than the entry that was read. *)
Reminded(s) == \E t \in s..streak : notice[<<"entry", t>>] > 0

ReadLastReminder(w) ==
  /\ At(w, "entry", "reminded")
  /\ IF Reminded(req[w].at) THEN Ends(w) ELSE Notifies(w, <<"entry", req[w].at>>, "idle")
  /\ UNCHANGED <<noticeVars, bounds>>

(* A transaction is recorded, by the user or by a rule or a goal: it ends  *)
(* the streak of inactivity.                                               *)
Enters == entry' = now /\ streak' = streak + 1

EnterTransaction == Counts /\ Enters /\ UNCHANGED quiet

-----------------------------------------------------------------------------
NoticeInit ==
  /\ notice = [k \in Keys |-> 0] /\ prefs = {"inApp", "push"}
  /\ device = [NewDevice EXCEPT !.failures = 1]
  /\ now = 1 /\ entry = 1 /\ streak = 0
  /\ req = [w \in Workers |-> Idle] /\ started = 0 /\ faults = 0
  /\ doubled = {} /\ slipped = FALSE

NoticeNext ==
  \/ \E w \in Workers :
       \/ Creating(w) \/ EntryJob(w) \/ ReadLastEntry(w) \/ ReadLastReminder(w)
       \/ \E k \in Events : OnEvent(w, k)
  \/ Subscribe \/ Unsubscribe \/ EnterTransaction
  \/ \E channels \in SUBSET {"inApp", "push"} : UpdatePreferences(channels)

-----------------------------------------------------------------------------
(* Properties *)

(* RG-N1, RG-N13: one notification per type and entity, and one reminder   *)
(* per streak of inactivity, however often jobs and events are repeated;   *)
(* two only if two requests had looked it up before either inserted it.    *)
NoticeOnce == \A key \in Keys : notice[key] > 1 => key \in doubled

(* A device that was revoked is not pushed to again, unless the revocation *)
(* met a push whose failure is written afterwards: notifications.service   *)
(* .ts:227 then sets isActive from the counter it read.                    *)
RevokedStaysQuiet == device.active /\ device.revoked => slipped

=============================================================================
