------------------------------ MODULE Calendar ------------------------------
(***************************************************************************)
(* The dates the other modules take for granted: the periods of a budget,  *)
(* the occurrences of a recurrence, the due dates of a debt, the streak of *)
(* days with entries.  All are UTC calendar days, as in the code; a day is *)
(* its number from the first of FirstYear, a month its number from that    *)
(* January.  Hours are left out.                                           *)
(***************************************************************************)
EXTENDS Integers, Sequences, FiniteSets
LOCAL INSTANCE FiniteSetsExt
LOCAL INSTANCE SequencesExt

CONSTANTS
  FirstYear, YearCount,   \* bound: the years that are looked at
  MonthDays,              \* bound: monthStartDay, dayOfMonth
  MaxSteps                \* bound: occurrences, periods and installments

ASSUME CalendarAssumption ==
  /\ {FirstYear, YearCount, MaxSteps} \subseteq Nat \ {0} /\ MonthDays \subseteq 1..31

-----------------------------------------------------------------------------
(* Days *)

Months == 0..12 * YearCount

Leap(y) == y % 4 = 0 /\ (y % 100 # 0 \/ y % 400 = 0)

daysInMonth(k) ==
  CASE k % 12 = 1              -> IF Leap(FirstYear + k \div 12) THEN 29 ELSE 28
    [] k % 12 \in {3, 5, 8, 10} -> 30
    [] OTHER                   -> 31

FirstOf[k \in Months] == IF k = 0 THEN 0 ELSE FirstOf[k - 1] + daysInMonth(k - 1)

Days == 0..FirstOf[12 * YearCount] - 1

MonthOf == [d \in Days |-> CHOOSE k \in Months : FirstOf[k] <= d /\ d < FirstOf[k + 1]]

DayOf(d) == d - FirstOf[MonthOf[d]] + 1

UTC(k, day) == FirstOf[k] + day - 1

(* Day 31 of a shorter month is its last one. *)
Clamped(k, day) == UTC(k, Min({day, daysInMonth(k)}))

-----------------------------------------------------------------------------
(* period-bounds.ts.  The first day of FirstYear must be a Sunday.         *)

PeriodTypes == {"WEEKLY", "MONTHLY", "QUARTERLY", "YEARLY"}   \* CUSTOM is MONTHLY

monthlyPeriodStart(d, startDay) ==
  LET k == MonthOf[d] IN
  IF d >= Clamped(k, startDay) THEN Clamped(k, startDay) ELSE Clamped(k - 1, startDay)

periodStart(type, d, startDay) ==
  CASE type = "WEEKLY"    -> d - ((d + 6) % 7)
    [] type = "MONTHLY"   -> monthlyPeriodStart(d, startDay)
    [] type = "QUARTERLY" -> FirstOf[MonthOf[d] - (MonthOf[d] % 3)]
    [] type = "YEARLY"    -> FirstOf[MonthOf[d] - (MonthOf[d] % 12)]

nextPeriodStart(type, start, startDay) ==
  CASE type = "WEEKLY"    -> start + 7
    [] type = "MONTHLY"   -> Clamped(MonthOf[start] + 1, startDay)
    [] type = "QUARTERLY" -> FirstOf[MonthOf[start] + 3]
    [] type = "YEARLY"    -> FirstOf[MonthOf[start] + 12]

(* generatePeriods(): the periods from one start up to the horizon. *)
PeriodsFrom(type, start, horizon, startDay) ==
  LET starts[n \in 1..MaxSteps] ==
        IF n = 1 THEN start ELSE nextPeriodStart(type, starts[n - 1], startDay)
      count == Cardinality({n \in 1..MaxSteps : \A j \in 1..n : starts[j] <= horizon})
  IN  [n \in 1..count |-> [start |-> starts[n], end |-> nextPeriodStart(type, starts[n], startDay)]]

(* The nightly run goes on from the start of the last stored period, with  *)
(* the monthStartDay the user has by then.                                 *)
GoesOn(type, periods, horizon, startDay) ==
  periods \o PeriodsFrom(type, nextPeriodStart(type, Last(periods).start, startDay), horizon, startDay)

-----------------------------------------------------------------------------
(* occurrences.ts.  The day of the month is 0 when none was asked, as is   *)
(* the largest number of occurrences.                                      *)

Frequencies == {"DAILY", "WEEKLY", "BIWEEKLY", "MONTHLY", "QUARTERLY", "SEMIANNUAL", "YEARLY"}

DaysPer == [DAILY |-> 1, WEEKLY |-> 7, BIWEEKLY |-> 14]

MonthsPer == [MONTHLY |-> 1, QUARTERLY |-> 3, SEMIANNUAL |-> 6, YEARLY |-> 12]

addMonthsUnclamped(d, months, dayOfMonth) ==
  UTC(MonthOf[d] + months, IF dayOfMonth # 0 THEN dayOfMonth ELSE DayOf(d))

addMonths(d, months, dayOfMonth) ==
  Clamped(MonthOf[d] + months, IF dayOfMonth # 0 THEN dayOfMonth ELSE DayOf(d))

addFrequency(d, rule) ==
  IF rule.frequency \in DOMAIN DaysPer
  THEN d + DaysPer[rule.frequency] * rule.interval
  ELSE addMonths(d, MonthsPer[rule.frequency] * rule.interval, rule.dayOfMonth)

computeOccurrences(rule, until) ==
  LET date[n \in 0..MaxSteps] == IF n = 0 THEN rule.startsOn ELSE addFrequency(date[n - 1], rule)
      goesOn(n) == /\ date[n] <= until /\ date[n] <= rule.endsOn
                   /\ rule.maxOccurrences = 0 \/ n < rule.maxOccurrences
  IN  {date[n] : n \in {n \in 0..MaxSteps : \A j \in 0..n : goesOn(j)}}

(* upcoming(), forecastOccurrences() *)
Ahead(rule, skipped, now, until) ==
  {d \in computeOccurrences(rule, until) : d >= now /\ d \notin skipped}

(* The months of a forecast, from the next one on, and what each projects. *)
horizonEnd(now, months) == UTC(MonthOf[now] + months + 1, 0)

Projected(now, months, dates) ==
  [k \in 1..months |-> {d \in dates : /\ d >= FirstOf[MonthOf[now] + k]
                                     /\ d < FirstOf[MonthOf[now] + k + 1]}]

-----------------------------------------------------------------------------
(* schedule-dates.ts *)

addPeriodUTC(from, frequency, count) ==
  IF frequency \in DOMAIN MonthsPer
  THEN Clamped(MonthOf[from] + MonthsPer[frequency] * count, DayOf(from))
  ELSE from + DaysPer[frequency] * count

periodsPerYear ==
  [DAILY |-> 365, WEEKLY |-> 52, BIWEEKLY |-> 26, MONTHLY |-> 12, QUARTERLY |-> 4,
   SEMIANNUAL |-> 2, YEARLY |-> 1]

(* Math.round: a half goes up. *)
installmentCount(termDays, frequency) ==
  Max({1, (2 * termDays * periodsPerYear[frequency] + 365) \div 730})

-----------------------------------------------------------------------------
(* streak.ts *)

computeStreak(dates, today) ==
  LET distinct == SetToSortSeq(dates, LAMBDA a, b : a < b)
      run[i \in 1..Len(distinct)] ==
        IF i > 1 /\ distinct[i] - distinct[i - 1] = 1 THEN run[i - 1] + 1 ELSE 1
  IN  IF dates = {} THEN [current |-> 0, longest |-> 0]
      ELSE [longest |-> Max({run[i] : i \in 1..Len(distinct)}),
            current |-> IF today - Last(distinct) > 1 THEN 0 ELSE run[Len(distinct)]]

-----------------------------------------------------------------------------
(* Properties.  A year is kept free on both sides of what is looked at.    *)

Looked == {d \in Days : MonthOf[d] \in 12..12 * (YearCount - 1) - 1}

FarMonths == 12 * (YearCount - 1) - 1

(* RG-B1: every day is in one period, which starts where the one before it *)
(* ends.                                                                   *)
PeriodsTile ==
  \A type \in PeriodTypes, startDay \in MonthDays, d \in Looked :
    LET start == periodStart(type, d, startDay)
        next  == nextPeriodStart(type, start, startDay)
    IN  /\ start <= d /\ d < next
        /\ periodStart(type, next, startDay) = next /\ periodStart(type, next - 1, startDay) = start

(* The periods of a budget follow each other, whenever they are generated, *)
(* unless the monthStartDay changed between two runs: then they overlap or *)
(* leave days out.                                                         *)
PeriodsFollow ==
  \A type \in PeriodTypes, first, second \in MonthDays :
    LET start == periodStart(type, FirstOf[12] + 30, first)
        stored == GoesOn(type, PeriodsFrom(type, start, start + 40, first), start + 100, second)
    IN  \/ type = "MONTHLY" /\ first # second
        \/ \A n \in 1..Len(stored) - 1 : stored[n].end = stored[n + 1].start

(* RG-R2: an occurrence is on the day that was asked, or on the last of a  *)
(* shorter month; when no day was asked it may stay on the day a shorter   *)
(* month left it on, and never comes back.                                 *)
Lands(d, day) == DayOf(d) = Min({day, daysInMonth(MonthOf[d])})

Rule(f, day, startsOn, endsOn, limit) ==
  [frequency |-> f, interval |-> 1, dayOfMonth |-> day, startsOn |-> startsOn,
   endsOn |-> endsOn, maxOccurrences |-> limit]

EdgesOf(S) == {FirstOf[k] : k \in S} \union {FirstOf[k] - 1 : k \in S}

OccurrencesLand ==
  \A f \in DOMAIN MonthsPer, day \in MonthDays \union {0}, startsOn \in EdgesOf(12..15) :
    LET far   == FirstOf[FarMonths]
        all   == computeOccurrences(Rule(f, day, startsOn, far, 0), far)
        asked == IF day = 0 THEN DayOf(startsOn) ELSE day
    IN  /\ \A d \in all \ {startsOn} :
             \/ Lands(d, asked)
             \/ day = 0 /\ \E e \in all : e < d /\ daysInMonth(MonthOf[e]) = DayOf(d)
        /\ \A n \in 1..3, until \in EdgesOf(15..20) :
             /\ computeOccurrences(Rule(f, day, startsOn, far, n), until)
                  = {d \in all : d <= until /\ Cardinality({e \in all : e < d}) < n}
             /\ computeOccurrences(Rule(f, day, startsOn, until, 0), far) = {d \in all : d <= until}

(* A forecast projects every occurrence of the months it shows, in one of  *)
(* them, and none of the rest of the present month.                        *)
ForecastCovers ==
  \A f \in {"WEEKLY", "MONTHLY", "QUARTERLY"}, day \in MonthDays \union {0},
     now \in EdgesOf(15..17), months \in 1..3 :
    LET rule == Rule(f, IF f = "WEEKLY" THEN 0 ELSE day, FirstOf[14] + 30, FirstOf[FarMonths], 0)
        projected == Projected(now, months, Ahead(rule, {}, now, horizonEnd(now, months)))
        shown     == MonthOf[now] + 1..MonthOf[now] + months
    IN  \A d \in computeOccurrences(rule, FirstOf[24]) :
          Cardinality({k \in 1..months : d \in projected[k]}) = IF MonthOf[d] \in shown THEN 1 ELSE 0

(* Due dates are counted from the first one, and do not drift. *)
InstallmentsLand ==
  \A f \in Frequencies, from \in {FirstOf[k] - 1 : k \in 12..15} :
    /\ \A n \in 1..3 : addPeriodUTC(from, f, n - 1) < addPeriodUTC(from, f, n)
    /\ f \in DOMAIN MonthsPer => \A n \in 1..3 : Lands(addPeriodUTC(from, f, n), DayOf(from))
    /\ \A n \in 1..MaxSteps : installmentCount(365 * n, f) = n * periodsPerYear[f]

StreakCounted ==
  \A dates \in SUBSET (1..6), today \in 1..8 :
    LET runs == {a \in (1..6) \X (1..6) : a[1] <= a[2] /\ a[1]..a[2] \subseteq dates}
        to(S) == Max({a[2] - a[1] + 1 : a \in S} \union {0})
    IN  computeStreak(dates, today) =
          [longest |-> to(runs),
           current |-> IF dates \intersect (today - 1..8) = {} THEN 0
                       ELSE to({a \in runs : a[2] = Max(dates)})]

(* The dates of the application: periods tile, occurrences and due dates   *)
(* land on their day and keep their order, and a forecast counts each once *)
(* whatever the length of the months and whichever way they are asked for. *)
DatesHold ==
  /\ PeriodsTile /\ PeriodsFollow
  /\ OccurrencesLand /\ ForecastCovers
  /\ InstallmentsLand /\ StreakCounted

=============================================================================
