----------------------------- MODULE ChangeFeed -----------------------------
(***************************************************************************)
(* GET /sync/changes and /sync/snapshot: `changes-feed.ts` and             *)
(* `sync.service.ts` (changes), with the writers of the replicated tables  *)
(* and one device that pulls page after page.                              *)
(*                                                                         *)
(* A row gets its updatedAt from the clock of the API process before the   *)
(* statement is sent and becomes visible at the commit.  A page reads each *)
(* table in a statement of its own, merges the rows by (updatedAt, id) and *)
(* ends with the cursor of its last row.                                   *)
(***************************************************************************)
EXTENDS Naturals, FiniteSets

CONSTANTS
  Rows,       \* ids, ordered as numbers
  Tables,     \* number of replicated tables
  Writers,    \* writers between their stamp and their commit
  Limit,      \* rows of a page
  MaxNow,     \* bound: ticks of the clock
  MaxWrites,  \* bound: writes
  MaxLost     \* bound: pages that are lost on the way

ASSUME ChangeFeedAssumption ==
  /\ Rows \subseteq Nat \ {0} /\ IsFiniteSet(Rows) /\ {Tables, Limit} \subseteq Nat \ {0}
  /\ {MaxNow, MaxWrites, MaxLost} \subseteq Nat

VARIABLES
  stored,    \* the committed rows
  now,
  writer,    \* writes stamped and not committed
  writes, lost,
  cursor,    \* the device's cursor, read as (updatedAt, id)
  replica,   \* the version of each row the device has
  pull,      \* the page in progress
  overtaken  \* history: rows committed behind the cursor

feedVars == <<stored, now, writer, writes, lost, cursor, replica, pull, overtaken>>

-----------------------------------------------------------------------------
(* version is history: it tells the states of a row apart. *)
FeedRow == [stamp : Nat, version : Nat, deleted : BOOLEAN]
NoRow == [stamp |-> 0, version |-> 0, deleted |-> FALSE]

TableOf(e) == e % Tables
TableIds == 0..(Tables - 1)

(* Positions of the feed: (updatedAt, id). *)
Before(p, q) == p[1] < q[1] \/ (p[1] = q[1] /\ p[2] < q[2])

Pos(e) == <<stored[e].stamp, e>>
Place(x) == <<x.stamp, x.e>>

FirstOf(candidates, n) ==
  {x \in candidates : Cardinality({y \in candidates : Before(Place(y), Place(x))}) < n}

LastOf(page) == CHOOSE x \in page : \A y \in page : ~Before(Place(x), Place(y))

NotPulling == [pc |-> "idle", read |-> [t \in TableIds |-> {}], left |-> {},
               start |-> [e \in Rows |-> 0], slipped |-> {}]

-----------------------------------------------------------------------------
(* Writers *)

Tick == now < MaxNow /\ now' = now + 1
        /\ UNCHANGED <<stored, writer, writes, lost, cursor, replica, pull, overtaken>>

Stamp(w, e, deleted) ==
  /\ writer[w].e = 0 /\ writes < MaxWrites /\ ~stored[e].deleted
  /\ deleted => stored[e].stamp # 0
  /\ writer' = [writer EXCEPT ![w] = [e |-> e, stamp |-> now, deleted |-> deleted]]
  /\ writes' = writes + 1
  /\ UNCHANGED <<stored, now, lost, cursor, replica, pull, overtaken>>

Behind(p, c) == ~Before(c, p)

Commit(w) ==
  LET e == writer[w].e IN
  /\ e # 0
  /\ stored' = [stored EXCEPT ![e] = [stamp |-> writer[w].stamp, version |-> @.version + 1,
                                deleted |-> @.deleted \/ writer[w].deleted]]
  /\ writer' = [writer EXCEPT ![w] = [e |-> 0, stamp |-> 0, deleted |-> FALSE]]
  /\ overtaken' = IF Behind(<<writer[w].stamp, e>>, cursor)
                  THEN overtaken \union {e} ELSE overtaken \ {e}
  /\ pull' = IF pull.pc = "reading" /\ TableOf(e) \notin pull.left
             THEN [pull EXCEPT !.slipped = @ \union {e}] ELSE pull
  /\ UNCHANGED <<now, writes, lost, cursor, replica>>

-----------------------------------------------------------------------------
(* loadChangesPage() *)

StartPage ==
  /\ pull.pc = "idle"
  /\ pull' = [NotPulling EXCEPT !.pc = "reading", !.left = TableIds,
                                !.start = [e \in Rows |-> stored[e].version]]
  /\ UNCHANGED <<stored, now, writer, writes, lost, cursor, replica, overtaken>>

LaterStamps(e) == stored[e].stamp > cursor[1]
After(e) == Before(cursor, Pos(e))

ReadTable(t) ==
  LET rows == {[e |-> e, stamp |-> stored[e].stamp, version |-> stored[e].version] :
                 e \in {x \in Rows : TableOf(x) = t /\ stored[x].stamp # 0 /\ After(x)}} IN
  /\ pull.pc = "reading" /\ t \in pull.left
  /\ pull' = [pull EXCEPT !.read[t] = FirstOf(rows, Limit), !.left = @ \ {t}]
  /\ UNCHANGED <<stored, now, writer, writes, lost, cursor, replica, overtaken>>

Candidates == UNION {pull.read[t] : t \in TableIds}
Page == FirstOf(Candidates, Limit)

HasMore == \/ \E t \in TableIds : Cardinality(pull.read[t]) = Limit
           \/ Cardinality(Candidates) > Limit

LastCandidate == IF Candidates = {} THEN cursor ELSE Place(LastOf(Candidates))
NextCursor == IF Page = {} THEN cursor ELSE Place(LastOf(Page))

(* The device applies the page and stores the cursor. *)
Receive ==
  /\ pull.pc = "reading" /\ pull.left = {}
  /\ replica' = [e \in Rows |-> IF \E x \in Page : x.e = e
                                THEN (CHOOSE x \in Page : x.e = e).version ELSE replica[e]]
  /\ cursor' = NextCursor
  /\ overtaken' = (overtaken \ {x.e : x \in Page})
                    \union {e \in pull.slipped : Behind(Pos(e), NextCursor)}
  /\ pull' = NotPulling
  /\ UNCHANGED <<stored, now, writer, writes, lost>>

LosePage ==
  /\ pull.pc = "reading" /\ lost < MaxLost /\ lost' = lost + 1
  /\ pull' = NotPulling
  /\ UNCHANGED <<stored, now, writer, writes, cursor, replica, overtaken>>

-----------------------------------------------------------------------------
FeedInit ==
  /\ stored = [e \in Rows |-> NoRow] /\ now = 1
  /\ writer = [w \in Writers |-> [e |-> 0, stamp |-> 0, deleted |-> FALSE]]
  /\ writes = 0 /\ lost = 0
  /\ cursor = <<0, 0>> /\ replica = [e \in Rows |-> 0]
  /\ pull = NotPulling /\ overtaken = {}

FeedNext ==
  \/ Tick \/ StartPage \/ Receive \/ LosePage
  \/ \E t \in TableIds : ReadTable(t)
  \/ \E w \in Writers : Commit(w)
  \/ \E w \in Writers, e \in Rows, deleted \in BOOLEAN : Stamp(w, e, deleted)

(* A device pulls again and again; what the server has begun, it ends.     *)
FeedFairness == /\ WF_feedVars(StartPage) /\ WF_feedVars(Receive)
                /\ WF_feedVars(\E t \in TableIds : ReadTable(t))
                /\ \A w \in Writers : WF_feedVars(Commit(w))

FeedSpec == FeedInit /\ [][FeedNext]_feedVars /\ FeedFairness

-----------------------------------------------------------------------------
(* Properties *)

Delivered(e) == replica[e] = stored[e].version

BehindIsDelivered ==
  \A e \in Rows : stored[e].stamp # 0 /\ Behind(Pos(e), cursor) => Delivered(e) \/ e \in overtaken

LastPageTellsAll ==
  Receive /\ ~HasMore =>
    \A e \in Rows : stored[e].version = pull.start[e] => Delivered(e)' \/ e \in overtaken'

UpToDate == [][LastPageTellsAll]_feedVars

(* changes-feed.ts:95: a row behind the cursor has been delivered as it    *)
(* is, whatever the size of the pages, the ties of updatedAt and the pages *)
(* lost, unless it was committed behind the cursor, or while the page that *)
(* moved the cursor past it was being read.  And hasMore is conservative:  *)
(* a device that is told there is no more has every row that was committed *)
(* when its last page began and was not written again since.               *)
FeedExplained == []BehindIsDelivered /\ UpToDate

(* A device that keeps pulling ends up with every row, unless a row was    *)
(* overtaken.                                                              *)
Converges == <>[](\A e \in Rows : Delivered(e) \/ e \in overtaken)

=============================================================================
