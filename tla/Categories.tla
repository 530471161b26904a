----------------------------- MODULE Categories -----------------------------
(***************************************************************************)
(* The categories of one user, a rule that gives one (`rules`), and the    *)
(* entries that are filed under them.  A request checks what it is given   *)
(* in statements of its own before the SQL transaction that writes; the    *)
(* reads of one request that follow each other are one step.  Names and    *)
(* parents are left out, and so are the system categories (which are never *)
(* removed) but the one of the adjustments.                                *)
(***************************************************************************)
EXTENDS Naturals, FiniteSets

CONSTANTS
  Categories, Kinds, Records,  \* Records: the entries
  Clerks,        \* requests served at the same time
  NoCategory,
  Adjusting, Expense,  \* category.expense.adjustment, and its kind
  MaxServed,     \* bound: requests of a behaviour
  MaxBroken      \* bound: SQL transactions that fail, or are cut by a restart

ASSUME CategoriesAssumption ==
  /\ NoCategory \notin Categories /\ {MaxServed, MaxBroken} \subseteq Nat
  /\ Adjusting \in Categories /\ Expense \in Kinds

VARIABLES
  category,   \* Category: kind, deletedAt
  record,     \* Transaction: type, categoryId, source = ADJUSTMENT, deletedAt
  rule,       \* categoryId of the rule that matches, NoCategory when none does
  desk,       \* clerk -> the request in hand
  served, broken,
  astray      \* history: records whose category went wrong for a known reason

filing == <<category, record, rule>>
catVars == <<filing, desk, served, broken, astray>>

-----------------------------------------------------------------------------
Live(c) == c # NoCategory /\ category[c].state = "live"

Fits(c, kind) == c = NoCategory \/ (Live(c) /\ category[c].kind = kind)

(* RG-A9: an adjustment is filed under one category whatever its sign. *)
Exempt(c, adjusts) == adjusts /\ c = Adjusting

(* at: what comes next; c: the category in hand; into: reassignTo; moved:  *)
(* rows of an open transaction; bad (history): c or into is known not to   *)
(* fit, or no longer to be live.                                           *)
Free == [at |-> "free", r |-> NoCategory, kind |-> NoCategory, adjusts |-> FALSE,
         c |-> NoCategory, into |-> NoCategory, moves |-> FALSE, moved |-> {}, bad |-> FALSE]

Counts == served < MaxServed /\ served' = served + 1

Takes(w, request) ==
  /\ desk[w] = Free /\ desk' = [desk EXCEPT ![w] = request] /\ Counts
  /\ UNCHANGED <<filing, broken, astray>>

Goes(w, request) == desk' = [desk EXCEPT ![w] = request] /\ UNCHANGED <<served, broken>>

FiledUnder(c) == {r \in Records : record[r].state = "live" /\ record[r].category = c}

Locked(r) == \E v \in Clerks : r \in desk[v].moved

(* A removal of c is under way that will not see a row filed under c now. *)
Doomed(c) == \E v \in Clerks : /\ c # NoCategory /\ desk[v].c = c
                               /\ \/ desk[v].at = "move" /\ ~desk[v].moves
                                  \/ desk[v].at \in {"delete", "commit"}

Strays(rows, wrong) == astray' = IF wrong THEN astray \union rows ELSE astray \ rows

-----------------------------------------------------------------------------
(* create() of a category; create() and update() of a rule *)

CreateCategory(c, kind) ==
  /\ category[c].state = "none" /\ Counts
  /\ category' = [category EXCEPT ![c] = [state |-> "live", kind |-> kind]]
  /\ UNCHANGED <<record, rule, desk, broken, astray>>

(* Any category that ever was: the foreign key is the only check. *)
SetRule(c) ==
  /\ c # rule /\ Counts
  /\ c # NoCategory => category[c].state # "none"
  /\ rule' = c
  /\ UNCHANGED <<category, record, desk, broken, astray>>

-----------------------------------------------------------------------------
(* create(), update(), remove() of an entry.  The category a user chose is *)
(* checked; the one of a rule, and the one an update leaves, are not.      *)

Chosen(c, kind) == c # NoCategory /\ Fits(c, kind)

CheckNew(w, r, kind, c) ==
  /\ record[r].state = "none" /\ \A v \in Clerks : desk[v].r # r
  /\ \/ Chosen(c, kind)
     \/ c = rule
  /\ Takes(w, [Free EXCEPT !.at = "insert", !.r = r, !.kind = kind, !.c = c,
                           !.bad = c = rule /\ ~Fits(c, kind)])

(* reconcile(): the category of the adjustments, which nothing checks. *)
CheckAdjustment(w, r, kind) ==
  /\ record[r].state = "none" /\ \A v \in Clerks : desk[v].r # r
  /\ Takes(w, [Free EXCEPT !.at = "insert", !.r = r, !.kind = kind, !.adjusts = TRUE,
                           !.c = Adjusting])

Insert(w) ==
  LET q == desk[w] IN
  /\ q.at = "insert"
  /\ record' = [record EXCEPT ![q.r] = [state |-> "live", kind |-> q.kind, adjusts |-> q.adjusts,
                                       category |-> q.c]]
  /\ Strays({q.r}, q.bad \/ Doomed(q.c))
  /\ Goes(w, Free)
  /\ UNCHANGED <<category, rule>>

CheckChange(w, r, c) ==
  /\ record[r].state = "live"
  /\ c \in {NoCategory, record[r].category} \/ Chosen(c, record[r].kind)
  /\ Takes(w, [Free EXCEPT !.at = "store", !.r = r, !.c = c,
                 !.bad = /\ c = record[r].category /\ ~Fits(c, record[r].kind)
                         /\ ~Exempt(c, record[r].adjusts)])

Store(w) ==
  LET q == desk[w] IN
  /\ q.at = "store" /\ ~Locked(q.r)
  /\ record' = [record EXCEPT ![q.r].category = q.c]
  /\ Strays({q.r}, q.bad \/ Doomed(q.c))
  /\ Goes(w, Free)
  /\ UNCHANGED <<category, rule>>

DeleteRecord(r) ==
  /\ record[r].state = "live" /\ ~Locked(r) /\ Counts
  /\ record' = [record EXCEPT ![r].state = "deleted"]
  /\ UNCHANGED <<category, rule, desk, broken, astray>>

-----------------------------------------------------------------------------
(* remove() of a category: RG-C4 *)

AnyTarget(c, into) == into = NoCategory \/ Chosen(into, category[c].kind)

(* A category in use needs one. *)
Target(c, into) ==
  IF into = NoCategory THEN FiledUnder(c) = {} ELSE Chosen(into, category[c].kind)

(* into may be c itself: nothing compares them. *)
CheckRemoval(w, c, into) ==
  /\ category[c].state = "live" /\ c # Adjusting /\ Target(c, into)
  /\ Takes(w, [Free EXCEPT !.at = "move", !.c = c, !.into = into,
                           !.moves = into # NoCategory /\ FiledUnder(c) # {},
                           !.bad = c = into])

(* updateMany(): deleted rows too; it waits for the rows others hold. *)
Move(w) ==
  LET q == desk[w]
      rows == {r \in Records : q.moves /\ record[r].state # "none" /\ record[r].category = q.c} IN
  /\ q.at = "move" /\ \A r \in rows : ~Locked(r)
  /\ Goes(w, [q EXCEPT !.at = "delete", !.moved = rows])
  /\ UNCHANGED <<filing, astray>>

(* The delete is an update on the base client: it commits at once. *)
Drop(w) ==
  LET c == desk[w].c IN
  /\ desk[w].at = "delete"
  /\ category' = [category EXCEPT ![c].state = "deleted"]
  /\ desk' = [v \in Clerks |->
       IF v = w THEN [desk[w] EXCEPT !.at = "commit"]
       ELSE IF c \in {desk[v].c, desk[v].into} THEN [desk[v] EXCEPT !.bad = TRUE] ELSE desk[v]]
  /\ UNCHANGED <<record, rule, served, broken, astray>>

Commit(w) ==
  LET q == desk[w] IN
  /\ q.at = "commit"
  /\ record' = [r \in Records |-> IF r \in q.moved THEN [record[r] EXCEPT !.category = q.into]
                                  ELSE record[r]]
  /\ IF q.bad \/ Doomed(q.into) THEN Strays(q.moved, TRUE)
     ELSE Strays({r \in q.moved : record[r].kind = category[q.c].kind}, FALSE)
  /\ Goes(w, Free)
  /\ UNCHANGED <<category, rule>>

(* A transaction fails, or the process stops: nothing of it stays but a    *)
(* delete that was made.                                                   *)
Break(w) ==
  LET q == desk[w] IN
  /\ q # Free /\ broken < MaxBroken /\ broken' = broken + 1
  /\ desk' = [desk EXCEPT ![w] = Free]
  /\ astray' = IF q.at = "commit" THEN astray \union q.moved ELSE astray
  /\ UNCHANGED <<filing, served>>

-----------------------------------------------------------------------------
CatInit ==
  /\ category = [c \in Categories |-> IF c = Adjusting THEN [state |-> "live", kind |-> Expense]
                                      ELSE [state |-> "none", kind |-> NoCategory]]
  /\ record = [r \in Records |-> [state |-> "none", kind |-> NoCategory, adjusts |-> FALSE,
                                  category |-> NoCategory]]
  /\ rule = NoCategory /\ desk = [w \in Clerks |-> Free]
  /\ served = 0 /\ broken = 0 /\ astray = {}

CatNext ==
  \/ \E c \in Categories, kind \in Kinds : CreateCategory(c, kind)
  \/ \E c \in Categories \union {NoCategory} : SetRule(c)
  \/ \E r \in Records : DeleteRecord(r)
  \/ \E w \in Clerks, r \in Records, kind \in Kinds : CheckAdjustment(w, r, kind)
  \/ \E w \in Clerks, c \in Categories \union {NoCategory} :
       \/ \E r \in Records, kind \in Kinds : CheckNew(w, r, kind, c)
       \/ \E r \in Records : CheckChange(w, r, c)
       \/ \E gone \in Categories : CheckRemoval(w, gone, c)
  \/ \E w \in Clerks : Insert(w) \/ Store(w) \/ Move(w) \/ Drop(w) \/ Commit(w) \/ Break(w)

CatSpec == CatInit /\ [][CatNext]_catVars

-----------------------------------------------------------------------------
(* Properties *)

(* RG-C4: no entry is left in a deleted category, and every entry but an   *)
(* adjustment is in one of its kind, while requests overlap: unless it was *)
(* filed there while the removal was under way, or moved there from the    *)
(* target's own removal, or into the category that is removed; a rule or   *)
(* an earlier update gave it unchecked; or the move failed after the       *)
(* delete.                                                                 *)
EntriesFiled ==
  \A r \in Records : record[r].state = "live" =>
    \/ Fits(record[r].category, record[r].kind)
    \/ Exempt(record[r].category, record[r].adjusts)
    \/ r \in astray
    \/ \E w \in Clerks : desk[w].at = "commit" /\ r \in desk[w].moved

=============================================================================
