---------------------------- MODULE Recurrences ----------------------------
(***************************************************************************)
(* `recurrence.service.ts`: one rule, the occurrences it has, and the      *)
(* transactions that are booked for them by the nightly job and by hand.   *)
(* Occurrences are days; months and their clamping are left out.          *)
(***************************************************************************)
EXTENDS Notices

CONSTANTS
  RemindBefore, \* reminderDaysBefore of the rule
  Schedules     \* the schedules a rule may have; most = 0: no maxOccurrences

ASSUME RecurrenceAssumption ==
  /\ RemindBefore \in Nat /\ Schedules # {}
  /\ Schedules \subseteq [starts : Days, ends : Days, interval : Nat \ {0}, most : Nat]

VARIABLES
  rule,       \* the row
  booked,     \* live transactions of each occurrence
  once,       \* history: days that were ever booked
  overlapped, \* history: days two requests had found free at the same time
  rewound,    \* history: days lastGeneratedAt went back over, or never reached
  excused     \* history: days lastGeneratedAt passed without a booking, for a cause

ruleHistory == <<once, overlapped, rewound, excused>>
ruleVars == <<rule, booked, ruleHistory>>

-----------------------------------------------------------------------------
NoRule == [state |-> "none", auto |-> FALSE, active |-> FALSE,
           schedule |-> CHOOSE s \in Schedules : TRUE, last |-> 0, skipped |-> {}]

NoLimit(s, until) ==
  {d \in Days : d <= until /\ d >= s.starts /\ d <= s.ends /\ (d - s.starts) % s.interval = 0}

Occurrences(s, until) ==
  {d \in NoLimit(s, until) : s.most = 0 \/ (d - s.starts) \div s.interval < s.most}

Live == rule.state = "live"

-----------------------------------------------------------------------------
(* update(), skip(), remove() *)

UpdateRule(auto, active, schedule) ==
  /\ Live /\ Counts
  /\ rule' = [rule EXCEPT !.auto = auto, !.active = active, !.schedule = schedule]
  /\ rule' # rule
  /\ excused' = excused \union {d \in Occurrences(schedule, rule.last) : booked[d] = 0}
  /\ UNCHANGED <<booked, once, overlapped, rewound>>

Skip(d) ==
  /\ Live /\ Counts
  /\ rule' = [rule EXCEPT !.skipped = @ \union {d}]
  /\ UNCHANGED <<booked, ruleHistory>>

RemoveRule ==
  /\ Live /\ Counts
  /\ rule' = [rule EXCEPT !.state = "deleted"]
  /\ UNCHANGED <<booked, ruleHistory>>

-----------------------------------------------------------------------------
(* materialize(), called for a day by hand or by the job *)

Materialize(w, d) ==
  /\ rule.state # "none"
  /\ Begins(w, [Idle EXCEPT !.kind = "hand", !.pc = "already", !.at = d])
  /\ UNCHANGED ruleVars

(* The end of materialize(), whatever it was. *)
Proceeds(w) ==
  req' = [req EXCEPT ![w] = IF @.kind = "hand" \/ @.todo = {} THEN Idle
            ELSE [@ EXCEPT !.pc = "next"]]

FreeAnyway(d) == TRUE

Free(d) == booked[d] = 0

Already(w) ==
  LET d == req[w].at IN
  /\ req[w].pc = "already"
  /\ IF Live /\ Free(d)
     THEN /\ Goes(w, "book")
          /\ overlapped' = IF \E v \in Workers \ {w} : req[v].pc = "book" /\ req[v].at = d
                           THEN overlapped \union {d} ELSE overlapped
     ELSE Proceeds(w) /\ UNCHANGED overlapped
  /\ UNCHANGED <<rule, booked, once, rewound, excused, bounds>>

(* createFromRecurrence() may be refused, and the job goes on. *)
BookOccurrence(w) ==
  LET d == req[w].at IN
  /\ req[w].pc = "book"
  /\ \/ /\ booked' = [booked EXCEPT ![d] = @ + 1]
        /\ once' = once \union {d}
        /\ Enters
        /\ Goes(w, "mark")
        /\ UNCHANGED <<excused, faults>>
     \/ /\ faults < MaxFaults /\ faults' = faults + 1
        /\ excused' = excused \union {d}
        /\ Proceeds(w)
        /\ UNCHANGED <<booked, once, entry, streak>>
  /\ UNCHANGED <<rule, overlapped, rewound, started>>

(* A booking by hand, or by a job whose rule was changed meanwhile, may    *)
(* pass over days, or go back.                                             *)
Passed(w, d) ==
  IF req[w].kind = "hand" \/ req[w].saw # {rule.schedule}
  THEN {e \in Days : e < d /\ booked[e] = 0} ELSE {}

MarkGenerated(w) ==
  LET d == req[w].at IN
  /\ req[w].pc = "mark"
  /\ rule' = [rule EXCEPT !.last = d]
  /\ rewound' = rewound \union {e \in Days : e > d /\ e <= rule.last}
  /\ excused' = excused \union Passed(w, d)
  /\ Proceeds(w)
  /\ UNCHANGED <<booked, once, overlapped, bounds>>

(* A job or a request that had been started for the day before now.        *)
OnItsWay(w, d) == req[w].kind \in {"job", "hand"} /\ (req[w].at = d \/ d \in req[w].todo)

(* The user deletes a transaction of the rule. *)
DeleteBooking(d) ==
  /\ booked[d] > 0 /\ Counts
  /\ booked' = [booked EXCEPT ![d] = @ - 1]
  /\ rewound' = IF \E w \in Workers : OnItsWay(w, d)
                THEN rewound \union {d} ELSE rewound
  /\ UNCHANGED <<rule, once, overlapped, excused>>

-----------------------------------------------------------------------------
(* runDueMaterializations() *)

EveryDay(d) == d \notin rule.skipped

NotYet(d) == d \notin rule.skipped /\ d > rule.last

Due == {d \in Occurrences(rule.schedule, now) : NotYet(d)}

Job(w) ==
  /\ Live /\ rule.auto /\ rule.active /\ Due # {}
  /\ Begins(w, [Idle EXCEPT !.kind = "job", !.pc = "next", !.todo = Due, !.saw = {rule.schedule}])
  /\ UNCHANGED ruleVars

Earliest(days) == CHOOSE d \in days : \A e \in days : d <= e

NextDue(w) ==
  LET d == Earliest(req[w].todo) IN
  /\ At(w, "job", "next")
  /\ req' = [req EXCEPT ![w].pc = "already", ![w].at = d, ![w].todo = @ \ {d}]
  /\ UNCHANGED <<ruleVars, bounds>>

(* dueForReminders() and notifyDueRecurrences(): at 3 AM, for occurrences  *)
(* that lie at midnight.                                                   *)
NextOccurrences ==
  {d \in Occurrences(rule.schedule, now + RemindBefore) : d > now /\ d \notin rule.skipped}

RemindDue(w) ==
  /\ Live /\ rule.active /\ NextOccurrences # {}
  /\ Begins(w, [Idle EXCEPT !.kind = "remind", !.pc = "enabled",
                !.note = <<"due", CHOOSE d \in NextOccurrences : \A e \in NextOccurrences : d <= e>>])
  /\ UNCHANGED ruleVars

-----------------------------------------------------------------------------
RuleInit ==
  /\ \/ rule = NoRule
     \/ \E s \in Schedules, auto \in BOOLEAN :
          rule = [NoRule EXCEPT !.state = "live", !.auto = auto, !.active = TRUE, !.schedule = s]
  /\ booked = [d \in Days |-> 0] /\ once = {}
  /\ overlapped = {} /\ rewound = {} /\ excused = {}

RuleStep(w) ==
  \/ (Already(w) \/ MarkGenerated(w) \/ Job(w) \/ NextDue(w) \/ RemindDue(w)
       \/ \E d \in Days : Materialize(w, d)) /\ UNCHANGED noticeVars
  \/ BookOccurrence(w) /\ UNCHANGED quiet

RuleRequest ==
  \/ RemoveRule
  \/ \E d \in Days : Skip(d) \/ DeleteBooking(d)
  \/ \E auto, active \in BOOLEAN, s \in Schedules : UpdateRule(auto, active, s)

(* A request that is lost before lastGeneratedAt is written leaves it. *)
LoseRule(w) ==
  /\ rewound' = IF req[w].pc = "mark" THEN rewound \union {req[w].at} ELSE rewound
  /\ UNCHANGED <<rule, booked, once, overlapped, excused>>

-----------------------------------------------------------------------------
(* Properties *)

(* RG-R4: an occurrence is booked once, whoever books it; twice only if    *)
(* two requests had found it free before either booked it.                 *)
BookedOnce == \A d \in Days : booked[d] > 1 => d \in overlapped

(* RG-R4: an occurrence that was booked and deleted by the user stays      *)
(* deleted: the job does not book it again, unless lastGeneratedAt never   *)
(* got to it or was set back over it by a booking of an earlier day.       *)
NotRevived ==
  [][\A w \in Workers :
       req[w].kind = "job" /\ req[w].pc = "book" /\ booked' # booked =>
         booked'[req[w].at] = booked[req[w].at] \/ req[w].at \notin once
           \/ req[w].at \in rewound \union overlapped]_<<req, booked>>

(* lastGeneratedAt never passes a due occurrence that has neither been     *)
(* booked nor skipped, unless it was booked past by hand, refused by the   *)
(* ledger (the job never comes back to it), or the schedule was changed.   *)
NoneMissed ==
  Live => \A d \in Occurrences(rule.schedule, rule.last) :
            d \in once \union rule.skipped \union excused

(* RG-R4: every occurrence is booked, and once, but for those causes. *)
OccurrencesKept == BookedOnce /\ NoneMissed

=============================================================================
