------------------------------ MODULE Screens ------------------------------
(***************************************************************************)
(* The page of transactions of the web application: a filtered list with   *)
(* cursors, a dialog that creates, and deletion.  The other pages follow   *)
(* its pattern.  Answers of the server arrive in any order, or never.      *)
(* What the rows are is left out.                                          *)
(***************************************************************************)
EXTENDS Naturals, Sequences, FiniteSets

CONSTANTS
  Filters,
  LastPage,   \* every list has the pages 0..LastPage
  MaxActs,    \* bound: clicks of the user
  MaxLost     \* bound: answers that are lost

ASSUME ScreensAssumption == {LastPage, MaxActs, MaxLost} \subseteq Nat

VARIABLES
  filter,     \* the filters of the page
  list,       \* transactions, currentCursor, nextCursor: the answer on screen
  stack,      \* cursorStack
  form,       \* the dialog that creates: open; the number of times it was opened
  net,        \* requests on their way
  created,    \* the server: rows created from each opening of the form
  acts, lost,
  overtaken,  \* history: an answer came after that of a later request
  doubled     \* history: openings submitted again before an answer, or after a lost one

screen == <<filter, list, stack, form>>
vars == <<screen, net, created, acts, lost, overtaken, doubled>>

-----------------------------------------------------------------------------
(* A cursor belongs to the list it came with; page 0 needs none. *)
Start(f) == [of |-> f, page |-> 0]

(* no: the number of the click that sent it; kind: list, write (until the  *)
(* server has it), written, delete; ask: what the list that is loaded in   *)
(* the end is asked with, and for a write the opening of the form.         *)
Request(kind, ask) == [no |-> acts + 1, kind |-> kind, ask |-> ask]

List(f, cursor) == Request("list", [filter |-> f, cursor |-> cursor])

Clicks == acts < MaxActs /\ acts' = acts + 1

Sends(r) == Clicks /\ net' = net \union {r}

OfKind(kinds) == {r \in net : r.kind \in kinds}

Pending == OfKind({"write", "written"})

-----------------------------------------------------------------------------
(* The list.  The effect on the filters; goNext(), goPrevious(). *)

KeepsStack(f) == stack

Emptied(f) == <<>>

ChangeFilter(f) ==
  /\ f # filter
  /\ filter' = f /\ stack' = Emptied(f)
  /\ Sends(List(f, Start(f)))
  /\ overtaken' = (overtaken /\ net # {})
  /\ UNCHANGED <<list, form, created, lost, doubled>>

(* The cursors are those of the list on screen: a click before the answer  *)
(* of the last one walks from there again.                                 *)
Walks(cursor) ==
  /\ Sends(List(filter, cursor))
  /\ overtaken' = (overtaken \/ net # {})
  /\ UNCHANGED <<filter, list, form, created, lost, doubled>>

GoNext ==
  /\ list.cursor.page < LastPage
  /\ stack' = Append(stack, list.cursor)
  /\ Walks([list.cursor EXCEPT !.page = @ + 1])

GoPrevious ==
  /\ stack # <<>>
  /\ stack' = SubSeq(stack, 1, Len(stack) - 1)
  /\ Walks(stack[Len(stack)])

(* loadPage(): whatever was asked later, the answer is put on the screen.  *)
ShowList(r) ==
  /\ r \in OfKind({"list"})
  /\ list' = r.ask
  /\ net' = net \ {r}
  /\ overtaken' = (overtaken \/ \E s \in OfKind({"list"}) : s.no < r.no)
  /\ UNCHANGED <<filter, stack, form, created, acts, lost, doubled>>

-----------------------------------------------------------------------------
(* The dialog that creates *)

OpenForm ==
  /\ ~form.open /\ Clicks
  /\ form' = [open |-> TRUE, no |-> form.no + 1]
  /\ UNCHANGED <<filter, list, stack, net, created, lost, overtaken, doubled>>

CloseForm ==
  /\ form.open /\ Clicks
  /\ form' = [form EXCEPT !.open = FALSE]
  /\ UNCHANGED <<filter, list, stack, net, created, lost, overtaken, doubled>>

(* The button is disabled while a submission is under way; Ctrl+Enter on   *)
(* the form is not, and onSubmit() does not look.  The filters are those   *)
(* of this rendering.                                                      *)
Submit ==
  LET again == Pending # {} IN
  /\ form.open
  /\ Sends(Request("write", [filter |-> filter, form |-> form.no]))
  /\ doubled' = IF again THEN doubled \union {form.no} ELSE doubled
  /\ UNCHANGED <<screen, created, lost, overtaken>>

Write(r) ==
  /\ r \in OfKind({"write"})
  /\ created' = [created EXCEPT ![r.ask.form] = @ + 1]
  /\ net' = (net \ {r}) \union {[r EXCEPT !.kind = "written"]}
  /\ UNCHANGED <<screen, acts, lost, overtaken, doubled>>

StaysOpen == form

Closed == [form EXCEPT !.open = FALSE]

(* Success: the dialog closes, whichever opening it is, and the list is    *)
(* loaded with the filters of the submission.                              *)
Written(r) ==
  /\ r \in OfKind({"written"})
  /\ form' = Closed
  /\ stack' = <<>>
  /\ net' = (net \ {r}) \union {[r EXCEPT !.kind = "list",
                                 !.ask = [filter |-> @.filter, cursor |-> Start(@.filter)]]}
  /\ overtaken' = (overtaken \/ r.ask.filter # filter
                     \/ OfKind({"list"}) # {})
  /\ UNCHANGED <<filter, list, created, acts, lost, doubled>>

-----------------------------------------------------------------------------
(* onDelete(): afterwards the page that was on the screen is loaded again. *)

Delete ==
  /\ Sends(Request("delete", [filter |-> filter, cursor |-> list.cursor]))
  /\ overtaken' = (overtaken \/ net # {})
  /\ UNCHANGED <<screen, created, lost, doubled>>

Deleted(r) ==
  /\ r \in OfKind({"delete"})
  /\ net' = (net \ {r}) \union {[r EXCEPT !.kind = "list"]}
  /\ overtaken' = (overtaken \/ r.ask # [filter |-> filter, cursor |-> list.cursor]
                     \/ OfKind({"list"}) # {})
  /\ UNCHANGED <<screen, created, acts, lost, doubled>>

-----------------------------------------------------------------------------
(* The request or its answer is lost: the page shows an error, and keeps   *)
(* what it had.  Of a creation, the user cannot tell whether it was done.  *)
Lose(r) ==
  /\ lost < MaxLost /\ lost' = lost + 1
  /\ net' = net \ {r}
  /\ overtaken' = (overtaken \/ r.kind = "list")
  /\ doubled' = IF r.kind = "written" THEN doubled \union {r.ask.form} ELSE doubled
  /\ UNCHANGED <<filter, list, stack, form, created, acts>>

-----------------------------------------------------------------------------
Init ==
  /\ \E f \in Filters : filter = f /\ list = [filter |-> f, cursor |-> Start(f)]
  /\ stack = <<>> /\ form = [open |-> FALSE, no |-> 0]
  /\ net = {} /\ created = [n \in 1..MaxActs |-> 0]
  /\ acts = 0 /\ lost = 0 /\ overtaken = FALSE /\ doubled = {}

Next ==
  \/ \E f \in Filters : ChangeFilter(f)
  \/ GoNext \/ GoPrevious \/ OpenForm \/ CloseForm \/ Submit \/ Delete
  \/ \E r \in net : ShowList(r) \/ Write(r) \/ Written(r) \/ Deleted(r) \/ Lose(r)

Spec == Init /\ [][Next]_vars

-----------------------------------------------------------------------------
(* Properties *)

(* When nothing is on its way, the list is that of the filters the page    *)
(* shows, and the stack leads back from its page to the first: unless an   *)
(* answer was lost or came after a later one, a cursor was clicked before  *)
(* its list was there, or the filters or the page changed during a         *)
(* creation or a deletion.                                                 *)
ListIsAsked ==
  net = {} /\ ~overtaken =>
    /\ list.filter = filter /\ list.cursor.of = filter
    /\ stack = [i \in 1..list.cursor.page |-> [of |-> filter, page |-> i - 1]]

(* Nothing in the request tells a retry from a new transaction (RG-SY3:    *)
(* the id is omitted by the web front): one opening of the form creates    *)
(* two only if it was submitted again before the answer, or after a lost   *)
(* answer.                                                                 *)
WrittenOnce == \A n \in DOMAIN created : created[n] > 1 => n \in doubled

=============================================================================
