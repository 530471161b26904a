------------------------------- MODULE Budgets -------------------------------
(***************************************************************************)
(* The budgets of one user: `budgets.service.ts`, `rollover.ts`, the       *)
(* script `repair-budget-periods.ts`, and the writes of transactions and   *)
(* categories that budgets depend on.                                      *)
(*                                                                         *)
(* A budget has one materialized row per period.  The service keeps        *)
(* spentMinor, rolloverInMinor, allocatedMinor and lastAlertPct of these   *)
(* rows up to date from events, in statements that are not in a common     *)
(* SQL transaction.  Every request, event handler and job is a worker; a   *)
(* step of a worker ends where it waits for the database.  A period is     *)
(* named by its month.  Only EXPENSE rows outside transfers are entries.   *)
(***************************************************************************)
EXTENDS Integers, Sequences, FiniteSets, FiniteSetsExt

CONSTANTS
  Budgets, Entries, Workers,
  Top, Sub, Other,   \* categories: Sub is a child of Top
  Amounts,           \* amounts of entries and budgets
  MaxNow,            \* bound: the last current month
  Ahead,             \* PERIODS_AHEAD
  MaxStarted,        \* bound: requests, events and jobs of a behaviour
  Thresholds,        \* alertThresholds
  None

ASSUME BudgetAssumption ==
  /\ Amounts \subseteq Nat \ {0} /\ Amounts # {} /\ {MaxNow, Ahead, MaxStarted} \subseteq Nat
  /\ Thresholds \subseteq 1..500 /\ None \notin Budgets \union Workers /\ IsFiniteSet(Entries)

VARIABLES
  entry,     \* the EXPENSE rows
  removed,   \* deleted categories
  budget, period,
  now,       \* the current month
  task,      \* worker -> what it is doing
  started,
  announced, \* history: thresholds announced by budget and month
  stale,     \* history: <<budget, month>> left with a wrong sum, for a known reason
  skewed,    \* history: budgets whose allocations were written from values that changed
  misled,    \* history: <<budget, month>> whose alert was decided on an old row
  again      \* history: <<budget, month>> that announced a threshold twice

table == <<entry, removed, budget, period>>
history == <<announced, stale, skewed, misled, again>>
bgVars == <<table, now, task, started, history>>

-----------------------------------------------------------------------------
(* Rows *)

Cats == {Top, Sub, Other}
Months == 0..(MaxNow + Ahead)
Forever == MaxNow + Ahead  \* endsOn = null

EntryRow == [live : BOOLEAN, cat : Cats, month : Months, amount : Amounts \union {0}]
NoEntry == [live |-> FALSE, cat |-> Other, month |-> 0, amount |-> 0]

BudgetRow == [state : {"none", "live", "deleted"}, active : BOOLEAN, cat : Cats,
              amount : Amounts \union {0}, rollover : BOOLEAN, starts : Months, ends : Months]
NoBudget == [state |-> "none", active |-> FALSE, cat |-> Top, amount |-> 0,
             rollover |-> FALSE, starts |-> 0, ends |-> 0]

PeriodRow == [made : BOOLEAN, spent : Nat, carried : Int, allocated : Int,
              alert : Thresholds \union {0}]
NoPeriod == [made |-> FALSE, spent |-> 0, carried |-> 0, allocated |-> 0, alert |-> 0]

Working(b) == budget[b].state = "live" /\ budget[b].active

(* descendantIds() *)
Scope(c) == {c} \union {k \in {Sub} \ removed : c = Top}

(* spentIn(): a sum is the number of (row, minor unit) pairs. *)
SpentOf(rows, b, m) ==
  LET counted == {e \in Entries : /\ rows[e].live /\ rows[e].month = m
                                  /\ rows[e].cat \in Scope(budget[b].cat)}
  IN Cardinality(UNION {{e} \X (1..rows[e].amount) : e \in counted})
Spent(b, m) == SpentOf(entry, b, m)

Made(b) == {m \in Months : period[b][m].made}

(* cascadeRollover() over all the periods of a budget, with what was spent *)
Carries(b, spent) ==
  LET carry[n \in Months] == IF ~budget[b].rollover \/ n - 1 \notin Made(b) THEN 0
                             ELSE budget[b].amount + carry[n - 1] - spent[n - 1]
  IN carry

CarryInto(b, m) == Carries(b, [n \in Made(b) |-> period[b][n].spent])[m]

Allocation(b, m) == [carried |-> CarryInto(b, m),
                     allocated |-> budget[b].amount + CarryInto(b, m)]

OffTrack(b) == {m \in Made(b) : \/ period[b][m].carried # Allocation(b, m).carried
                                \/ period[b][m].allocated # Allocation(b, m).allocated}

-----------------------------------------------------------------------------
(* Workers *)

NoPlan == [m \in {} |-> NoPeriod]

Idle == [job |-> "none", pc |-> "idle", todo |-> <<>>, left |-> {}, b |-> None, m |-> 0,
         rollover |-> FALSE, amount |-> 0, spent |-> 0, carry |-> 0, row |-> NoPeriod,
         plan |-> NoPlan, late |-> {}]

At(w, pc) == task[w].pc = pc

Becomes(w, fields) == task' = [task EXCEPT ![w] = fields] /\ UNCHANGED started

Begins(w, fields) ==
  /\ task[w] = Idle /\ started < MaxStarted
  /\ task' = [task EXCEPT ![w] = fields] /\ started' = started + 1

Marks(marked, what, wrong) == IF wrong THEN marked \union what ELSE marked \ what

(* A task that has read what is changing now will write an old value:      *)
(* history of what it holds is late.                                       *)
Holds == [sum |-> {"write", "insert", "repair"}, rows |-> {"store", "extend", "insert", "repair"}]

Late(tasks, w, what, bs) ==
  [v \in Workers |-> IF v # w /\ tasks[v].pc \in Holds[what] /\ tasks[v].b \in bs
                     THEN [tasks[v] EXCEPT !.late = @ \union {what}] ELSE tasks[v]]

-----------------------------------------------------------------------------
(* Transactions and categories *)

(* Both places of a row that an event asks to recompute. *)
PlacesOfNew(before, after) == IF after.live THEN <<after>> ELSE <<before>>

PlaceOf(row) == IF row.live THEN <<row>> ELSE <<>>

Places(before, after) == PlaceOf(before) \o PlaceOf(after)

(* create(), update() and remove() of a transaction commit, then emit.     *)
WriteEntry(w, e, row) ==
  /\ row # entry[e] /\ (row.live => row.cat \notin removed)
  /\ ~row.live => row = NoEntry
  /\ task[w] = Idle /\ started < MaxStarted /\ started' = started + 1
  /\ entry' = [entry EXCEPT ![e] = row]
  /\ task' = Late([task EXCEPT ![w] = [Idle EXCEPT !.job = "event", !.pc = "budgets",
                                                    !.todo = Places(entry[e], row)]],
                  w, "sum", Budgets)
  /\ UNCHANGED <<removed, budget, period, now, history>>

Wrong(rows) == {bm \in Budgets \X Months :
                  /\ period[bm[1]][bm[2]].made
                  /\ period[bm[1]][bm[2]].spent # SpentOf(rows, bm[1], bm[2])}

(* createFeeLine() writes an EXPENSE row and emits nothing. *)
WriteFeeLine(e, row) ==
  /\ ~entry[e].live /\ row.live /\ row.cat \notin removed /\ started < MaxStarted
  /\ started' = started + 1
  /\ entry' = [entry EXCEPT ![e] = row]
  /\ stale' = stale \union {bm \in Wrong(entry') : bm \notin Wrong(entry)}
  /\ task' = Late(task, None, "sum", Budgets)
  /\ UNCHANGED <<removed, budget, period, now, announced, skewed, misled, again>>

(* categories.remove() moves the rows and emits nothing. *)
RemoveCategory(c, d) ==
  /\ {c, d} \intersect removed = {} /\ c # d /\ started < MaxStarted
  /\ started' = started + 1
  /\ entry' = [e \in Entries |-> IF entry[e].live /\ entry[e].cat = c
                                 THEN [entry[e] EXCEPT !.cat = d] ELSE entry[e]]
  /\ removed' = removed \union {c}
  /\ stale' = stale \union {bm \in Budgets \X Months : budget[bm[1]].cat \in {Top, c, d}}
  /\ task' = Late(task, None, "sum", Budgets)
  /\ UNCHANGED <<budget, period, now, announced, skewed, misled, again>>

-----------------------------------------------------------------------------
(* Budgets: create(), update(), remove() *)

(* assertNoOverlap() *)
Overlaps(row, other) == /\ other.state = "live" /\ other.active /\ other.cat = row.cat
                        /\ row.starts <= other.ends /\ other.starts <= row.ends

Free(row) == \A o \in Budgets : ~Overlaps(row, budget[o])

CheckBudget(w, b, row) ==
  /\ budget[b].state = "none" /\ \A v \in Workers : task[v].b # b
  /\ Free(row)
  /\ Begins(w, [Idle EXCEPT !.job = "create", !.pc = "save", !.b = b, !.row = row])
  /\ UNCHANGED <<table, now, history>>

SaveBudget(w) ==
  /\ At(w, "save")
  /\ budget' = [budget EXCEPT ![task[w].b] = task[w].row]
  /\ Becomes(w, [Idle EXCEPT !.job = "create", !.pc = "generate", !.left = {<<task[w].b, FALSE>>}])
  /\ UNCHANGED <<entry, removed, period, now, history>>

(* What an update gives, and None for what its body leaves out.            *)
Change == [amount : Amounts \union {None}, rollover : BOOLEAN \union {None},
           ends : Months \union {None}, active : BOOLEAN \union {None}]
NoChange == [amount |-> None, rollover |-> None, ends |-> None, active |-> None]

OrKept(given, kept) == IF given = None THEN kept ELSE given

Changed(row, dto) == [row EXCEPT !.amount = OrKept(dto.amount, @), !.rollover = OrKept(dto.rollover, @),
                                 !.ends = OrKept(dto.ends, @), !.active = OrKept(dto.active, @)]

(* update() reads the row and keeps what it read, ... *)
CheckUpdate(w, b, dto) ==
  /\ budget[b].state = "live"
  /\ Begins(w, [Idle EXCEPT !.job = "update", !.pc = "change", !.b = b, !.row = dto,
                            !.amount = budget[b].amount, !.rollover = budget[b].rollover])
  /\ UNCHANGED <<table, now, history>>

Reallocates(row, old) == row.amount # old.amount \/ row.rollover # old.rollover

(* ... writes what it was given to the row as it is by then, and cascades   *)
(* if the result differs from what it had read.  A result that differs only *)
(* from what another update wrote meanwhile leaves the allocations behind.  *)
UpdateBudget(w) ==
  LET t == task[w]
      row == Changed(budget[t.b], t.row)
      moves == Reallocates(row, budget[t.b])
      cascades == Reallocates(row, t) IN
  /\ At(w, "change")
  /\ budget' = [budget EXCEPT ![t.b] = row]
  /\ task' = Late([task EXCEPT ![w] = IF cascades
                                      THEN [Idle EXCEPT !.job = "update", !.pc = "cascade", !.b = t.b]
                                      ELSE Idle],
                  w, "rows", IF moves THEN {t.b} ELSE {})
  /\ stale' = IF row.active /\ ~budget[t.b].active
              THEN stale \union {bm \in Wrong(entry) : bm[1] = t.b} ELSE stale
  /\ skewed' = IF moves /\ ~cascades THEN skewed \union {t.b} ELSE skewed
  /\ UNCHANGED <<entry, removed, period, now, started, announced, misled, again>>

RemoveBudget(b) ==
  /\ budget[b].state = "live" /\ started < MaxStarted /\ started' = started + 1
  /\ budget' = [budget EXCEPT ![b].state = "deleted"]
  /\ UNCHANGED <<entry, removed, period, now, task, history>>

-----------------------------------------------------------------------------
(* generatePeriods() *)

Following(b) == IF Made(b) = {} THEN budget[b].starts ELSE Max(Made(b)) + 1

Nightly(w) ==
  /\ task[w] = Idle
  /\ \E b \in Budgets : Working(b) /\ Following(b) <= Min({now + Ahead, budget[b].ends})
  /\ task' = [task EXCEPT ![w] = [Idle EXCEPT !.job = "nightly", !.pc = "generate",
                                   !.left = {<<b, FALSE>> : b \in {x \in Budgets : Working(x)}}]]
  /\ UNCHANGED <<table, now, started, history>>

ReadLast(w, b) ==
  LET last == IF Made(b) = {} THEN NoPeriod ELSE period[b][Max(Made(b))] IN
  /\ At(w, "generate") /\ <<b, FALSE>> \in task[w].left
  /\ Becomes(w, [task[w] EXCEPT !.pc = "extend", !.b = b, !.left = @ \ {<<b, FALSE>>}, !.late = {},
                   !.m = Following(b),
                   !.rollover = budget[b].rollover, !.amount = budget[b].amount, !.row = budget[b],
                   !.carry = last.allocated - last.spent])
  /\ UNCHANGED <<table, now, history>>

(* The condition of the loop, and the sum of the period it adds. *)
Extend(w) ==
  LET t == task[w] IN
  /\ At(w, "extend")
  /\ IF t.m <= now + Ahead /\ t.m <= t.row.ends
     THEN Becomes(w, [t EXCEPT !.pc = "insert", !.spent = Spent(t.b, t.m), !.late = @ \ {"sum"}])
     ELSE Becomes(w, IF t.left = {} THEN Idle
                     ELSE [Idle EXCEPT !.job = t.job, !.pc = "generate", !.left = t.left])
  /\ UNCHANGED <<table, now, history>>

(* The row is unique by budget and start: the second insert fails, and the *)
(* nightly job ends there.                                                 *)
InsertPeriod(w) ==
  LET t == task[w]
      in == IF t.rollover THEN t.carry ELSE 0
      fresh == [made |-> TRUE, spent |-> t.spent, carried |-> in,
                allocated |-> t.amount + in, alert |-> 0] IN
  /\ At(w, "insert")
  /\ \/ /\ t.m \in Made(t.b) /\ Becomes(w, Idle)
        /\ UNCHANGED <<period, stale, skewed>>
     \/ /\ t.m \notin Made(t.b)
        /\ period' = [period EXCEPT ![t.b][t.m] = fresh]
        /\ task' = Late([task EXCEPT ![w].pc = "extend", ![w].m = t.m + 1,
                                     ![w].carry = fresh.allocated - t.spent],
                        w, "rows", {t.b})
        /\ stale' = Marks(stale, {<<t.b, t.m>>}, "sum" \in t.late)
        /\ skewed' = IF "rows" \in t.late THEN skewed \union {t.b} ELSE skewed
        /\ UNCHANGED started
  /\ UNCHANGED <<entry, removed, budget, now, announced, misled, again>>

-----------------------------------------------------------------------------
(* recomputePeriodFor() *)

ReadBudgets(w) ==
  /\ At(w, "budgets")
  /\ Becomes(w, IF task[w].todo = <<>> THEN Idle
                ELSE [task[w] EXCEPT !.pc = "next",
                        !.left = {<<b, budget[b].rollover>> : b \in {x \in Budgets : Working(x)}}])
  /\ UNCHANGED <<table, now, history>>

Concerned(w, b) ==
  LET place == Head(task[w].todo) IN
  place.cat \in Scope(budget[b].cat) /\ place.month \in Made(b)

NextBudget(w) ==
  LET t == task[w] IN
  /\ At(w, "next")
  /\ \/ t.left = {} /\ Becomes(w, [Idle EXCEPT !.job = "event", !.pc = "budgets", !.todo = Tail(t.todo)])
     \/ \E x \in t.left :
          Becomes(w, IF Concerned(w, x[1])
                     THEN [t EXCEPT !.pc = "write", !.b = x[1], !.rollover = x[2], !.left = @ \ {x},
                                    !.late = {}, !.m = Head(t.todo).month,
                                    !.spent = Spent(x[1], Head(t.todo).month)]
                     ELSE [t EXCEPT !.left = @ \ {x}])
  /\ UNCHANGED <<table, now, history>>

AlertOnly(t) == "alert"

AfterSpent(t) == IF t.rollover THEN "cascade" ELSE "alert"

WriteSpent(w) ==
  LET t == task[w] IN
  /\ At(w, "write")
  /\ period' = [period EXCEPT ![t.b][t.m].spent = t.spent]
  /\ stale' = Marks(stale, {<<t.b, t.m>>}, "sum" \in t.late)
  /\ skewed' = IF budget[t.b].rollover /\ ~t.rollover THEN skewed \union {t.b} ELSE skewed
  /\ task' = Late([task EXCEPT ![w].pc = AfterSpent(t),
                               ![w].row = period'[t.b][t.m]],
                  w, "rows", {t.b})
  /\ UNCHANGED <<entry, removed, budget, now, started, announced, misled, again>>

(* recascade(): the rows that differ from the rule are rewritten in one    *)
(* SQL transaction.                                                        *)
ReadCascade(w) ==
  LET b == task[w].b IN
  /\ At(w, "cascade")
  /\ Becomes(w, [task[w] EXCEPT !.pc = "store", !.late = {},
                                !.plan = [m \in OffTrack(b) |-> Allocation(b, m)]])
  /\ UNCHANGED <<table, now, history>>

StoreCascade(w) ==
  LET t == task[w] IN
  /\ At(w, "store")
  /\ period' = [period EXCEPT ![t.b] = [m \in Months |->
       IF m \in DOMAIN t.plan
       THEN [@[m] EXCEPT !.carried = t.plan[m].carried, !.allocated = t.plan[m].allocated]
       ELSE @[m]]]
  /\ skewed' = Marks(skewed, {t.b}, t.late # {})
  /\ task' = Late([task EXCEPT ![w] = IF t.job = "event" THEN [t EXCEPT !.pc = "alert", !.plan = NoPlan]
                                      ELSE Idle],
                  w, "rows", {t.b})
  /\ UNCHANGED <<entry, removed, budget, now, started, announced, stale, misled, again>>

(* evaluateAlert() on the row as it was when the sum was written *)
Crossed(row) == {t \in Thresholds : row.spent * 100 >= t * row.allocated}

AnnounceAnyHighest(row) == row.allocated > 0 /\ Crossed(row) # {}

Announces(row) ==
  /\ row.allocated > 0 /\ Crossed(row) # {}
  /\ row.alert < Max(Crossed(row))

EvaluateAlert(w) ==
  LET t == task[w] 
      top == Max(Crossed(t.row))
      bm == <<t.b, t.m>> IN
  /\ At(w, "alert")
  /\ \/ /\ Announces(t.row)
        /\ period' = [period EXCEPT ![t.b][t.m].alert = top]
        /\ announced' = [announced EXCEPT ![bm] = @ \union {top}]
        /\ misled' = IF t.row.alert # period[t.b][t.m].alert THEN misled \union {bm} ELSE misled
        /\ again' = IF top \in announced[bm] THEN again \union {bm} ELSE again
     \/ ~Announces(t.row) /\ UNCHANGED <<period, announced, misled, again>>
  /\ Becomes(w, [Idle EXCEPT !.job = t.job, !.pc = "next", !.todo = t.todo, !.left = t.left])
  /\ UNCHANGED <<entry, removed, budget, now, stale, skewed>>

-----------------------------------------------------------------------------
(* repair-budget-periods.ts: one SQL transaction per budget, whose reads   *)
(* are not repeatable.                                                     *)

RepairedRow(b, m, allocation, spent) ==
  LET row == [period[b][m] EXCEPT !.spent = spent, !.carried = allocation.carried,
                                  !.allocated = allocation.allocated] IN
  [row EXCEPT !.alert = IF row.allocated > 0 THEN Max(Crossed(row) \union {row.alert}) ELSE @]

PlanRepair(w, b) ==
  LET right == [m \in Made(b) |-> Spent(b, m)]
      carry == Carries(b, right)
      wanted == [m \in Made(b) |->
                  RepairedRow(b, m, [carried |-> carry[m], allocated |-> budget[b].amount + carry[m]],
                              right[m])]
      differs == {m \in Made(b) : \/ wanted[m].spent # period[b][m].spent
                                  \/ wanted[m].carried # period[b][m].carried
                                  \/ wanted[m].allocated # period[b][m].allocated} IN
  /\ budget[b].state = "live" /\ differs # {}
  /\ Begins(w, [Idle EXCEPT !.job = "repair", !.pc = "repair", !.b = b,
                            !.plan = [m \in differs |-> wanted[m]]])
  /\ UNCHANGED <<table, now, history>>

ApplyRepair(w) ==
  LET t == task[w] IN
  /\ At(w, "repair")
  /\ period' = [period EXCEPT ![t.b] = [m \in Months |-> IF m \in DOMAIN t.plan THEN t.plan[m] ELSE @[m]]]
  /\ stale' = Marks(stale, {t.b} \X Months, t.late # {})
  /\ skewed' = Marks(skewed, {t.b}, t.late # {})
  /\ misled' = misled \union {<<t.b, m>> : m \in {n \in DOMAIN t.plan :
                                            t.plan[n].alert < period[t.b][n].alert}}
  /\ task' = Late([task EXCEPT ![w] = Idle], w, "rows", {t.b})
  /\ UNCHANGED <<entry, removed, budget, now, started, announced, again>>

-----------------------------------------------------------------------------
(* Time and restarts *)

NextMonth == now < MaxNow /\ now' = now + 1 /\ UNCHANGED <<table, task, started, history>>

(* What an event still has to recompute. *)
Owes(w, b, m) ==
  LET t == task[w] IN
  /\ t.job = "event"
  /\ \/ t.pc = "write" /\ t.b = b /\ t.m = m
     \/ \E i \in DOMAIN t.todo :
          /\ t.todo[i].month = m /\ t.todo[i].cat \in Scope(budget[b].cat)
          /\ t.pc = "budgets" \/ i > 1 \/ \E x \in t.left : x[1] = b

OwesCascade(w, b) ==
  /\ task[w].b = b
  /\ task[w].pc \in {"cascade", "store"}

(* A restart, or a statement that fails: the handlers only log the error.  *)
Lose(w) ==
  /\ task[w] # Idle /\ started < MaxStarted /\ started' = started + 1
  /\ task' = [task EXCEPT ![w] = Idle]
  /\ stale' = stale \union {bm \in Budgets \X Months : Owes(w, bm[1], bm[2])}
  /\ skewed' = IF At(w, "cascade") \/ At(w, "store") THEN skewed \union {task[w].b} ELSE skewed
  /\ UNCHANGED <<table, now, announced, misled, again>>

-----------------------------------------------------------------------------
(* Inputs: a budget on the parent category, rows on its child or outside.  *)
NewBudgets ==
  [state : {"live"}, active : {TRUE}, cat : {Top}, amount : {Min(Amounts)}, rollover : BOOLEAN,
   starts : {0}, ends : {Forever}]

(* One field at a time; the end it gives is the first month. *)
Changes ==
  {[NoChange EXCEPT !.amount = a] : a \in Amounts}
    \union {[NoChange EXCEPT !.rollover = x] : x \in BOOLEAN}
    \union {[NoChange EXCEPT !.active = x] : x \in BOOLEAN}
    \union {[NoChange EXCEPT !.ends = 0]}

EntryRows ==
  {NoEntry, [NoEntry EXCEPT !.live = TRUE, !.amount = Min(Amounts)]}
    \union [live : {TRUE}, cat : {Sub}, month : {0}, amount : Amounts]
    \union [live : {TRUE}, cat : {Sub}, month : Months \ {0}, amount : {Min(Amounts)}]

(* Some budgets exist from the start, with the periods create() gave them. *)
Generated(row) ==
  [m \in Months |->
    IF row.state = "none" \/ m > Ahead THEN NoPeriod
    ELSE LET in == IF row.rollover THEN m * row.amount ELSE 0 IN
         [NoPeriod EXCEPT !.made = TRUE, !.carried = in, !.allocated = row.amount + in]]

BgInit ==
  /\ entry = [e \in Entries |-> NoEntry] /\ removed = {}
  /\ budget \in [Budgets -> NewBudgets \union {NoBudget}]
  /\ \A b, o \in Budgets : b # o => budget[b].state = "none" \/ ~Overlaps(budget[b], budget[o])
  /\ period = [b \in Budgets |-> Generated(budget[b])]
  /\ now = 0 /\ task = [w \in Workers |-> Idle] /\ started = 0
  /\ announced = [bm \in Budgets \X Months |-> {}]
  /\ stale = {} /\ skewed = {} /\ misled = {} /\ again = {}

Proceed(w) ==
  \/ SaveBudget(w) \/ UpdateBudget(w) \/ Extend(w) \/ InsertPeriod(w)
  \/ \E b \in Budgets : ReadLast(w, b)
  \/ ReadBudgets(w) \/ NextBudget(w) \/ WriteSpent(w)
  \/ ReadCascade(w) \/ StoreCascade(w) \/ EvaluateAlert(w) \/ ApplyRepair(w)

BgNext ==
  \/ \E w \in Workers : Proceed(w) \/ Nightly(w) \/ Lose(w)
  \/ \E w \in Workers, e \in Entries, row \in EntryRows : WriteEntry(w, e, row)
  \/ \E e \in Entries, row \in EntryRows : WriteFeeLine(e, row)
  \/ \E c \in {Sub}, d \in Cats : RemoveCategory(c, d)
  \/ \E w \in Workers, b \in Budgets, row \in NewBudgets : CheckBudget(w, b, row)
  \/ \E w \in Workers, b \in Budgets, dto \in Changes : CheckUpdate(w, b, dto)
  \/ \E b \in Budgets : RemoveBudget(b)
  \/ \E w \in Workers, b \in Budgets : PlanRepair(w, b)
  \/ NextMonth

BgSpec == BgInit /\ [][BgNext]_bgVars

-----------------------------------------------------------------------------
(* Properties *)

(* RG-B3: what a period says was spent is the sum of its EXPENSE rows,     *)
(* unless an event is on its way, a write used a sum that had changed, an  *)
(* event was lost, or rows changed without one (a fee line, a category     *)
(* that was removed, a budget that was inactive).                          *)
SpentExplained ==
  \A b \in Budgets : Working(b) => \A m \in Made(b) :
    \/ period[b][m].spent = Spent(b, m)
    \/ <<b, m>> \in stale
    \/ \E w \in Workers : Owes(w, b, m)

(* RG-B5: allocated(n) = amount + allocated(n-1) - spent(n-1), whatever    *)
(* order amounts, spending and new periods come in, unless a cascade is on *)
(* its way, was written from rows that had changed, was lost, or was never *)
(* started: by an update whose result is what it had read before another   *)
(* update changed it, or by an entry whose event had read the budget       *)
(* before it carried anything over.                                        *)
RolloverExplained ==
  \A b \in Budgets :
    \/ b \in skewed
    \/ \E w \in Workers : OwesCascade(w, b)
    \/ \A m \in Made(b) :
         /\ period[b][m].allocated = budget[b].amount + period[b][m].carried
         /\ period[b][m].carried =
              IF budget[b].rollover /\ m - 1 \in Made(b)
              THEN period[b][m - 1].allocated - period[b][m - 1].spent ELSE 0

(* RG-B6: "alerts fire once per (period, threshold)", unless an evaluation *)
(* worked on a row whose last alert had changed.                           *)
AlertOnce == again \subseteq misled

=============================================================================
