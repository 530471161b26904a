----------------------------- MODULE ViewsProofs -----------------------------
(***************************************************************************)
(* Proofs about the page of transactions, the categories, the forecast and *)
(* what the browser keeps, for every instance.  Each part has an invariant *)
(* of its own; a step of Views is a step of one part and leaves the others *)
(* (PartsOfViews).                                                         *)
(***************************************************************************)
EXTENDS Views, SequenceTheorems, TLAPS

(* The page of transactions: any filters, any number of pages, clicks and  *)
(* lost answers.                                                           *)
(*                                                                         *)
(* WrittenOnce is not inductive: it does not say why the first submission  *)
(* of an opening finds nothing created.  AnswerOnTheWay does: an opening   *)
(* that is still on the screen and has created its row waits for the       *)
(* answer that will close it, or that answer was lost.                     *)
NetKinds == {"list", "write", "written", "delete"}

ScreenTypes ==
  /\ acts \in 0..MaxActs
  /\ form = [open |-> form.open, no |-> form.no]
  /\ form.open \in BOOLEAN /\ form.no \in 0..acts
  /\ created \in [1..MaxActs -> Nat]
  /\ \A r \in net : /\ r = [no |-> r.no, kind |-> r.kind, ask |-> r.ask]
                    /\ r.kind \in NetKinds

(* The pending creations of one opening of the form. *)
PendingOf(n) == {r \in Pending : r.ask.form = n}

Numbered == /\ \A r \in Pending : r.ask.form \in 1..form.no
            /\ form.open => form.no \in 1..acts
            /\ \A n \in 1..MaxActs : n > form.no => created[n] = 0

(* Of an opening that was submitted once, and whose answer is not lost. *)
Single(n) ==
  /\ created[n] \in 0..1
  /\ \A r, s \in PendingOf(n) : r = s
  /\ \A r \in PendingOf(n) : r.kind = "write" => created[n] = 0

AnswerOnTheWay(n) ==
  form.open /\ form.no = n /\ created[n] # 0 => \E r \in PendingOf(n) : r.kind = "written"

OnceInv == /\ ScreenTypes /\ Numbered
           /\ \A n \in 1..MaxActs : n \notin doubled => Single(n) /\ AnswerOnTheWay(n)

-----------------------------------------------------------------------------
LEMMA OnceSuffices == OnceInv => WrittenOnce
<1>. SUFFICES ASSUME OnceInv, NEW n \in DOMAIN created, created[n] > 1 PROVE n \in doubled
  BY DEF WrittenOnce
<1>. QED
  BY DEF OnceInv, ScreenTypes, Single

LEMMA InitOnce == Init => OnceInv
  BY ScreensAssumption
     DEF Init, OnceInv, ScreenTypes, Numbered, Single, AnswerOnTheWay, PendingOf, Pending, OfKind

(* What is shown or asked does not matter: the pending creations do.  A    *)
(* step that creates no row and sends no creation keeps them, but for      *)
(* those of openings that are doubled afterwards or of a closed form.      *)
LEMMA OtherStep ==
  ASSUME OnceInv, created' = created, doubled \subseteq doubled',
         acts' \in 0..MaxActs, acts' >= acts,
         form' = [open |-> form'.open, no |-> form'.no], form'.open \in BOOLEAN,
         form'.no = form.no, form'.open => form.open,
         \A r \in net' : r = [no |-> r.no, kind |-> r.kind, ask |-> r.ask] /\ r.kind \in NetKinds,
         Pending' \subseteq Pending,
         \A r \in Pending \ Pending' : r.kind = "written" => r.ask.form \in doubled' \/ ~form'.open
  PROVE  OnceInv'
<1>. USE DEF OnceInv
<1>1. ScreenTypes'
  BY DEF ScreenTypes
<1>2. Numbered'
  BY DEF Numbered, ScreenTypes
<1>3. ASSUME NEW n \in 1..MaxActs, n \notin doubled'
      PROVE  Single(n)' /\ AnswerOnTheWay(n)'
  <2>1. Single(n) /\ AnswerOnTheWay(n)
    BY <1>3
  <2>2. PendingOf(n)' \subseteq PendingOf(n)
    BY DEF PendingOf
  <2>3. Single(n)'
    BY <2>1, <2>2 DEF Single
  <2>4. ASSUME form'.open, form'.no = n, created[n] # 0
        PROVE  \E r \in PendingOf(n)' : r.kind = "written"
    <3>1. PICK r \in PendingOf(n) : r.kind = "written"
      BY <2>1, <2>4 DEF AnswerOnTheWay
    <3>2. r \in Pending'
      BY <1>3, <2>4, <3>1 DEF PendingOf
    <3>. QED
      BY <3>1, <3>2 DEF PendingOf
  <2>5. AnswerOnTheWay(n)'
    BY <2>4 DEF AnswerOnTheWay
  <2>. QED
    BY <2>3, <2>5
<1>. QED
  BY <1>1, <1>2, <1>3

(* The list, deletions, closing the form, lost answers. *)
LEMMA SendsOther ==
  ASSUME OnceInv, NEW kind \in {"list", "delete"}, NEW ask, Sends(Request(kind, ask)),
         UNCHANGED <<form, created, doubled>>
  PROVE  OnceInv'
<1>. DEFINE q == Request(kind, ask)
<1>1. q = [no |-> q.no, kind |-> q.kind, ask |-> q.ask] /\ q.kind \in {"list", "delete"}
  BY DEF Request
<1>2. net' = net \union {q} /\ acts < MaxActs /\ acts' = acts + 1
  BY DEF Sends, Clicks
<1>. HIDE DEF q
<1>3. Pending' = Pending
  BY <1>1, <1>2 DEF Pending, OfKind
<1>4. \A r \in net' : r = [no |-> r.no, kind |-> r.kind, ask |-> r.ask] /\ r.kind \in NetKinds
  BY <1>1, <1>2 DEF OnceInv, ScreenTypes, NetKinds
<1>5. acts' \in 0..MaxActs /\ acts' >= acts
  BY <1>2, ScreensAssumption DEF OnceInv, ScreenTypes
<1>. QED
  BY <1>3, <1>4, <1>5, OtherStep DEF OnceInv, ScreenTypes

LEMMA SendPreserves ==
  ASSUME OnceInv, GoNext \/ GoPrevious \/ Delete \/ \E f \in Filters : ChangeFilter(f)
  PROVE  OnceInv'
  BY SendsOther DEF GoNext, GoPrevious, Delete, ChangeFilter, Walks, List, screen

LEMMA CloseFormPreserves ==
  ASSUME OnceInv, CloseForm
  PROVE  OnceInv'
<1>1. /\ acts' \in 0..MaxActs /\ acts' >= acts /\ form' = [form EXCEPT !.open = FALSE]
      /\ UNCHANGED <<net, created, doubled>>
  BY ScreensAssumption DEF CloseForm, Clicks, OnceInv, ScreenTypes
<1>2. form' = [open |-> form'.open, no |-> form'.no] /\ form'.open = FALSE /\ form'.no = form.no
  BY <1>1 DEF OnceInv, ScreenTypes
<1>3. Pending' = Pending
  BY <1>1 DEF Pending, OfKind
<1>. QED
  BY <1>1, <1>2, <1>3, OtherStep DEF OnceInv, ScreenTypes

LEMMA ArrivePreserves ==
  ASSUME OnceInv, NEW r \in net, ShowList(r) \/ Deleted(r) \/ Lose(r)
  PROVE  OnceInv'
<1>. DEFINE q == [r EXCEPT !.kind = "list"]
<1>1. /\ UNCHANGED <<form, created, acts>> /\ doubled \subseteq doubled'
      /\ net' \subseteq (net \ {r}) \union {q}
      /\ r.kind = "written" => r.ask.form \in doubled'
  BY DEF ShowList, Deleted, Lose, OfKind, screen
<1>2. q = [no |-> q.no, kind |-> q.kind, ask |-> q.ask] /\ q.kind = "list"
  BY DEF OnceInv, ScreenTypes
<1>. HIDE DEF q
<1>3. Pending' \subseteq Pending /\ Pending \ Pending' \subseteq {r}
  <2>1. Pending' \subseteq Pending
    BY <1>1, <1>2 DEF Pending, OfKind
  <2>2. net \ {r} \subseteq net'
    BY DEF ShowList, Deleted, Lose
  <2>. QED
    BY <2>1, <2>2 DEF Pending, OfKind
<1>4. \A s \in net' : s = [no |-> s.no, kind |-> s.kind, ask |-> s.ask] /\ s.kind \in NetKinds
  BY <1>1, <1>2 DEF OnceInv, ScreenTypes, NetKinds
<1>. QED
  BY <1>1, <1>3, <1>4, OtherStep, ScreensAssumption DEF OnceInv, ScreenTypes

(* Whichever opening the answer is for, it closes the form. *)
LEMMA WrittenPreserves ==
  ASSUME OnceInv, NEW r \in net, Written(r)
  PROVE  OnceInv'
<1>. DEFINE page == [filter |-> r.ask.filter, cursor |-> Start(r.ask.filter)]
            q == [r EXCEPT !.kind = "list", !.ask = page]
<1>1. /\ UNCHANGED <<created, acts, doubled>> /\ net' = (net \ {r}) \union {q}
      /\ form' = [form EXCEPT !.open = FALSE]
  BY DEF Written, Closed
<1>. HIDE DEF page
<1>2. form' = [open |-> form'.open, no |-> form'.no] /\ form'.open = FALSE /\ form'.no = form.no
  BY <1>1 DEF OnceInv, ScreenTypes
<1>3. q = [no |-> q.no, kind |-> q.kind, ask |-> q.ask] /\ q.kind = "list"
  <2>1. r \in [no : {r.no}, kind : {r.kind}, ask : {r.ask}]
    BY DEF OnceInv, ScreenTypes
  <2>2. q \in [no : {r.no}, kind : {"list"}, ask : {page}]
    BY <2>1
  <2>. HIDE DEF q
  <2>. QED
    BY <2>2
<1>. HIDE DEF q
<1>4. Pending' \subseteq Pending
  BY <1>1, <1>3 DEF Pending, OfKind
<1>5. \A s \in net' : s = [no |-> s.no, kind |-> s.kind, ask |-> s.ask] /\ s.kind \in NetKinds
  BY <1>1, <1>3 DEF OnceInv, ScreenTypes, NetKinds
<1>. QED
  BY <1>1, <1>2, <1>4, <1>5, OtherStep, ScreensAssumption DEF OnceInv, ScreenTypes

-----------------------------------------------------------------------------
(* Opening the form, and submitting it. *)
LEMMA OpenFormPreserves ==
  ASSUME OnceInv, OpenForm
  PROVE  OnceInv'
<1>. USE DEF OnceInv
<1>1. /\ acts \in 0..MaxActs /\ acts < MaxActs /\ acts' = acts + 1 /\ MaxActs \in Nat
      /\ form.no \in 0..acts /\ form' = [open |-> TRUE, no |-> form.no + 1]
      /\ UNCHANGED <<net, created, doubled>>
  BY ScreensAssumption DEF OpenForm, Clicks, ScreenTypes
<1>2. form'.open = TRUE /\ form'.no = form.no + 1 /\ form' = [open |-> form'.open, no |-> form'.no]
  BY <1>1
<1>3. Pending' = Pending /\ \A n \in 1..MaxActs : PendingOf(n)' = PendingOf(n)
  BY <1>1 DEF Pending, OfKind, PendingOf
<1>4. ScreenTypes'
  BY <1>1, <1>2 DEF ScreenTypes
<1>5. Numbered'
  BY <1>1, <1>2, <1>3 DEF Numbered
<1>6. ASSUME NEW n \in 1..MaxActs, n \notin doubled'
      PROVE  Single(n)' /\ AnswerOnTheWay(n)'
  <2>1. Single(n)
    BY <1>1, <1>6
  <2>2. n = form'.no => created[n] = 0
    BY <1>1, <1>2 DEF Numbered
  <2>3. Single(n)'
    BY <1>1, <1>3, <2>1 DEF Single
  <2>. QED
    BY <1>1, <2>2, <2>3 DEF AnswerOnTheWay
<1>. QED
  BY <1>4, <1>5, <1>6

LEMMA SubmitPreserves ==
  ASSUME OnceInv, Submit
  PROVE  OnceInv'
<1>. USE DEF OnceInv
<1>. DEFINE q == Request("write", [filter |-> filter, form |-> form.no])
<1>1. /\ form.open /\ net' = net \union {q} /\ UNCHANGED <<form, created>>
      /\ doubled' = IF Pending # {} THEN doubled \union {form.no} ELSE doubled
  BY DEF Submit, Sends, screen
<1>2. acts' = acts + 1 /\ acts' \in 0..MaxActs /\ acts \in Nat
  BY ScreensAssumption DEF Submit, Sends, Clicks, ScreenTypes
<1>3. /\ q = [no |-> q.no, kind |-> q.kind, ask |-> q.ask]
      /\ q.kind = "write" /\ q.ask.form = form.no
  BY DEF Request
<1>. HIDE DEF q
<1>4. ScreenTypes'
  <2>1. form' = form /\ form.no \in 0..acts'
    BY <1>1, <1>2 DEF ScreenTypes
  <2>2. \A r \in net' : r = [no |-> r.no, kind |-> r.kind, ask |-> r.ask] /\ r.kind \in NetKinds
    BY <1>1, <1>3 DEF ScreenTypes, NetKinds
  <2>. QED
    BY <1>1, <1>2, <2>1, <2>2 DEF ScreenTypes
<1>5. Pending' = Pending \union {q}
  BY <1>1, <1>3 DEF Pending, OfKind
<1>6. Numbered'
  BY <1>1, <1>2, <1>3, <1>5 DEF Numbered
<1>7. ASSUME NEW n \in 1..MaxActs, n \notin doubled'
      PROVE  Single(n)' /\ AnswerOnTheWay(n)'
  <2>1. Single(n) /\ AnswerOnTheWay(n)
    BY <1>1, <1>7
  <2>2. CASE n # form.no
    <3>1. PendingOf(n)' = PendingOf(n)
      BY <1>3, <1>5, <2>2 DEF PendingOf
    <3>. QED
      BY <1>1, <2>1, <2>2, <3>1 DEF Single, AnswerOnTheWay
  <2>3. CASE n = form.no
    <3>1. Pending = {}
      BY <1>1, <1>7, <2>3
    <3>2. created[n] = 0
      BY <1>1, <2>1, <2>3, <3>1 DEF AnswerOnTheWay, PendingOf
    <3>3. PendingOf(n)' \subseteq {q}
      BY <1>5, <3>1 DEF PendingOf
    <3>. QED
      BY <1>1, <2>1, <3>2, <3>3 DEF Single, AnswerOnTheWay
  <2>. QED
    BY <2>2, <2>3
<1>. QED
  BY <1>4, <1>6, <1>7

(* The server creates the row of a pending submission. *)
LEMMA WritePreserves ==
  ASSUME OnceInv, NEW r \in net, Write(r)
  PROVE  OnceInv'
<1>. USE DEF OnceInv
<1>. DEFINE q == [r EXCEPT !.kind = "written"]
            m == r.ask.form
<1>1. /\ r \in Pending /\ r.kind = "write"
      /\ created' = [created EXCEPT ![m] = @ + 1] /\ net' = (net \ {r}) \union {q}
      /\ UNCHANGED <<form, acts, doubled>>
  BY DEF Write, Pending, OfKind, screen
<1>2. /\ q = [no |-> q.no, kind |-> q.kind, ask |-> q.ask]
      /\ q.kind = "written" /\ q.ask = r.ask
  BY DEF ScreenTypes
<1>3. m \in 1..form.no /\ m \in 1..MaxActs
  BY <1>1, ScreensAssumption DEF Numbered, ScreenTypes
<1>4. \A n \in 1..MaxActs : created'[n] = IF n = m THEN created[n] + 1 ELSE created[n]
  BY <1>1 DEF ScreenTypes
<1>5. q \in Pending' /\ Pending' = (Pending \ {r}) \union {q}
  BY <1>1, <1>2 DEF Pending, OfKind
<1>. HIDE DEF q, m
<1>6. q.ask.form = m /\ r.ask.form = m
  BY <1>2 DEF m
<1>7. ScreenTypes'
  BY <1>1, <1>2, <1>3 DEF ScreenTypes, NetKinds
<1>8. Numbered'
  <2>1. \A s \in Pending' : s.ask.form \in 1..form.no
    BY <1>3, <1>5, <1>6 DEF Numbered
  <2>2. \A n \in 1..MaxActs : n > form.no => created'[n] = 0
    BY <1>3, <1>4, ScreensAssumption DEF Numbered, ScreenTypes
  <2>. QED
    BY <1>1, <2>1, <2>2 DEF Numbered
<1>9. ASSUME NEW n \in 1..MaxActs, n \notin doubled'
      PROVE  Single(n)' /\ AnswerOnTheWay(n)'
  <2>1. Single(n) /\ AnswerOnTheWay(n)
    BY <1>1, <1>9
  <2>2. CASE n # m
    <3>1. PendingOf(n)' = PendingOf(n)
      BY <1>5, <1>6, <2>2 DEF PendingOf
    <3>. QED
      BY <1>1, <1>4, <2>1, <2>2, <3>1 DEF Single, AnswerOnTheWay
  <2>3. CASE n = m
    <3>1. r \in PendingOf(n)
      BY <1>1, <1>6, <2>3 DEF PendingOf
    <3>2. created[n] = 0 /\ PendingOf(n) = {r}
      BY <1>1, <2>1, <3>1 DEF Single
    <3>3. PendingOf(n)' = {q}
      BY <1>5, <1>6, <2>3, <3>2 DEF PendingOf
    <3>. QED
      BY <1>2, <1>4, <2>3, <3>2, <3>3 DEF Single, AnswerOnTheWay
  <2>. QED
    BY <2>2, <2>3
<1>. QED
  BY <1>7, <1>8, <1>9

-----------------------------------------------------------------------------
LEMMA StepOnce == OnceInv /\ [Next]_vars => OnceInv'
<1>. SUFFICES ASSUME OnceInv, [Next]_vars PROVE OnceInv'
  OBVIOUS
<1>1. CASE UNCHANGED vars
  BY <1>1 DEF vars, screen, OnceInv, ScreenTypes, Numbered, Single, AnswerOnTheWay, PendingOf,
              Pending, OfKind
<1>. QED
  BY <1>1, SendPreserves, CloseFormPreserves, ArrivePreserves, WrittenPreserves,
     OpenFormPreserves, SubmitPreserves, WritePreserves DEF Next

(* One opening of the form creates two rows only if it was submitted again *)
(* before the answer, or after an answer that was lost.                    *)
THEOREM OneRowPerOpening == Spec => []WrittenOnce
  BY InitOnce, StepOnce, OnceSuffices, PTL DEF Spec

-----------------------------------------------------------------------------
(* The list on the screen.  ListIsAsked is about the end, when nothing is  *)
(* on its way; as long as answers are, it is the one that was clicked last *)
(* that will be shown, and that fits the filters and the stack (Awaited).  *)
Cursor == [of : Filters, page : Nat]
Asked == [filter : Filters, cursor : Cursor]

(* The cursors of the pages before the one of this cursor. *)
Back(c) == [i \in 1..c.page |-> [of |-> c.of, page |-> i - 1]]

Leads(ask) == ask.filter = filter /\ ask.cursor.of = filter /\ stack = Back(ask.cursor)

Lists == OfKind({"list"})

ListTypes ==
  /\ acts \in Nat /\ filter \in Filters /\ list \in Asked
  /\ stack \in Seq(Cursor)
  /\ \A r \in net : r.no \in 1..acts /\ r = [no |-> r.no, kind |-> r.kind, ask |-> r.ask]
  /\ \A r \in OfKind({"list", "delete"}) : r.ask \in Asked
  /\ \A r \in Pending : r.ask.filter \in Filters

Awaited ==
  /\ Lists = {} => Leads(list)
  /\ \A r \in Lists : (\A s \in Lists : s.no <= r.no) => Leads(r.ask)

ListInv == ListTypes /\ (overtaken \/ Awaited)

LEMMA ListSuffices == ListInv => ListIsAsked
  BY DEF ListInv, ListTypes, Awaited, Leads, Back, ListIsAsked, Lists, OfKind, Asked, Cursor

LEMMA NoPageBefore == ASSUME NEW c, c.page = 0 PROVE Back(c) = <<>>
  BY DEF Back

LEMMA BackIsSeq ==
  ASSUME NEW c \in Cursor
  PROVE  /\ Back(c) \in Seq(Cursor) /\ Len(Back(c)) = c.page
         /\ \A i \in 1..c.page : Back(c)[i] = [of |-> c.of, page |-> i - 1]
<1>1. c.page \in Nat /\ \A i \in 1..c.page : [of |-> c.of, page |-> i - 1] \in Cursor
  BY DEF Cursor
<1>2. Back(c) \in [1..c.page -> Cursor]
  BY <1>1 DEF Back
<1>3. Back(c) \in Seq(Cursor)
  BY <1>1, <1>2
<1>. QED
  BY <1>1, <1>2, <1>3 DEF Back

(* One page on, and back. *)
LEMMA BackAndForth ==
  ASSUME NEW c \in Cursor, NEW d \in Cursor, c.of = d.of, d.page = c.page + 1
  PROVE  Append(Back(c), c) = Back(d) /\ SubSeq(Back(d), 1, Len(Back(d)) - 1) = Back(c)
<1>1. c = [of |-> d.of, page |-> d.page - 1] /\ c.page \in Nat /\ c.of = d.of
  BY DEF Cursor
<1>2. /\ Back(c) \in Seq(Cursor) /\ Len(Back(c)) = c.page
      /\ Back(d) \in Seq(Cursor) /\ Len(Back(d)) = d.page
      /\ \A i \in 1..c.page : Back(c)[i] = [of |-> c.of, page |-> i - 1]
      /\ \A i \in 1..d.page : Back(d)[i] = [of |-> d.of, page |-> i - 1]
  BY BackIsSeq
<1>. HIDE DEF Back
<1>3. Append(Back(c), c) = Back(d)
  <2>1. /\ Append(Back(c), c) \in Seq(Cursor) /\ Len(Append(Back(c), c)) = c.page + 1
        /\ \A i \in 1..c.page : Append(Back(c), c)[i] = Back(c)[i]
        /\ Append(Back(c), c)[c.page + 1] = c
    BY <1>2, AppendProperties
  <2>2. ASSUME NEW i \in 1..d.page PROVE Append(Back(c), c)[i] = Back(d)[i]
    <3>1. CASE i = d.page
      BY <1>1, <1>2, <2>1, <3>1
    <3>2. CASE i # d.page
      <4>1. i \in 1..c.page
        BY <1>1, <3>2
      <4>. QED
        BY <1>1, <1>2, <2>1, <4>1
    <3>. QED
      BY <3>1, <3>2
  <2>. QED
    BY <1>1, <1>2, <2>1, <2>2, SeqEqual
<1>4. SubSeq(Back(d), 1, Len(Back(d)) - 1) = Back(c)
  <2>1. ASSUME NEW i \in 1..c.page PROVE Back(d)[i] \in Cursor /\ Back(d)[i] = Back(c)[i]
    <3>1. i \in 1..d.page
      BY <1>1
    <3>2. i \in 1..Len(Back(d))
      BY <1>2, <3>1
    <3>. QED
      BY <1>1, <1>2, <3>1, <3>2, ElementOfSeq
  <2>2. /\ SubSeq(Back(d), 1, c.page) \in Seq(Cursor) /\ Len(SubSeq(Back(d), 1, c.page)) = c.page
        /\ \A i \in 1..c.page : SubSeq(Back(d), 1, c.page)[i] = Back(c)[i]
    BY <1>1, <2>1, SubSeqProperties
  <2>3. SubSeq(Back(d), 1, c.page) = Back(c)
    BY <1>2, <2>2, SeqEqual
  <2>. QED
    BY <1>1, <1>2, <2>3
<1>. QED
  BY <1>3, <1>4

LEMMA OfStart == ASSUME NEW f \in Filters
                 PROVE  /\ Start(f) \in Cursor /\ Start(f).of = f /\ Start(f).page = 0
                        /\ [filter |-> f, cursor |-> Start(f)] \in Asked
  BY DEF Start, Cursor, Asked

LEMMA AnotherRequest ==
  ASSUME NEW r, r = [no |-> r.no, kind |-> r.kind, ask |-> r.ask], NEW b
  PROVE  [r EXCEPT !.kind = "list", !.ask = b] = [no |-> r.no, kind |-> "list", ask |-> b]
<1>. DEFINE s == [r EXCEPT !.kind = "list", !.ask = b]
<1>1. DOMAIN r = {"no", "kind", "ask"}
  OBVIOUS
<1>2. s = [x \in {"no", "kind", "ask"} |-> IF x = "kind" THEN "list" ELSE IF x = "ask" THEN b ELSE r[x]]
  BY <1>1, Zenon
<1>3. s.no = r.no /\ s.kind = "list" /\ s.ask = b /\ s = [x \in {"no", "kind", "ask"} |-> s[x]]
  BY <1>2
<1>. HIDE DEF s
<1>4. s = [no |-> s.no, kind |-> s.kind, ask |-> s.ask]
  BY <1>3
<1>. QED
  BY <1>3, <1>4 DEF s

LEMMA InitList == Init => ListInv
<1>. SUFFICES ASSUME Init PROVE ListInv
  OBVIOUS
<1>1. PICK f \in Filters : filter = f /\ list = [filter |-> f, cursor |-> Start(f)]
  BY DEF Init
<1>2. Leads(list)
  BY <1>1, OfStart, NoPageBefore DEF Leads, Init
<1>. QED
  BY <1>1, <1>2, OfStart DEF Init, ListInv, ListTypes, Awaited, Lists, OfKind, Pending

(* A new request is the last that was clicked. *)
LEMMA SendsList ==
  ASSUME ListTypes, NEW f \in Filters, NEW c \in Cursor, filter' = f, list' = list, stack' \in Seq(Cursor),
         Sends(List(f, c)),
         overtaken' \/ (c.of = f /\ stack' = Back(c))
  PROVE  ListInv'
<1>. DEFINE q == List(f, c)
<1>1. /\ q.no = acts + 1 /\ q.kind = "list" /\ q.ask = [filter |-> f, cursor |-> c]
      /\ q = [no |-> q.no, kind |-> q.kind, ask |-> q.ask]
  BY DEF List, Request
<1>2. net' = net \union {q} /\ acts' = acts + 1
  BY DEF Sends, Clicks
<1>. HIDE DEF q
<1>3. q.ask \in Asked /\ Pending' = Pending
  BY <1>1, <1>2 DEF Asked, Pending, OfKind
<1>4. ListTypes'
  BY <1>1, <1>2, <1>3 DEF ListTypes, OfKind
<1>5. q \in Lists' /\ \A r \in Lists' : r # q => r.no < q.no
  BY <1>1, <1>2 DEF Lists, OfKind, ListTypes
<1>6. ASSUME ~overtaken', NEW r \in Lists', \A s \in Lists' : s.no <= r.no
      PROVE  Leads(r.ask)'
  <2>1. r = q
    BY <1>5, <1>6, <1>4 DEF ListTypes, Lists, OfKind
  <2>. QED
    BY <1>1, <1>6, <2>1 DEF Leads
<1>. QED
  BY <1>4, <1>5, <1>6 DEF ListInv, Awaited

(* Steps that put no list on the wire and take none off it. *)
LEMMA ListsStay ==
  ASSUME ListInv, UNCHANGED <<filter, list, stack>>, Lists' = Lists, acts' \in Nat, acts' >= acts,
         \A r \in net' : r.no \in 1..acts' /\ r = [no |-> r.no, kind |-> r.kind, ask |-> r.ask],
         \A r \in OfKind({"list", "delete"})' : r.ask \in Asked,
         \A r \in Pending' : r.ask.filter \in Filters,
         overtaken => overtaken'
  PROVE  ListInv'
<1>1. ListTypes'
  BY DEF ListInv, ListTypes
<1>2. overtaken' \/ Awaited'
  BY DEF ListInv, Awaited, Leads, Back
<1>. QED
  BY <1>1, <1>2 DEF ListInv

LEMMA ListKept == ListInv /\ [Next]_vars => ListInv'
<1>. SUFFICES ASSUME ListInv, [Next]_vars PROVE ListInv'
  OBVIOUS
<1>. USE DEF ListInv
<1>0. net = {} => Lists = {}
  BY DEF Lists, OfKind
<1>1. ASSUME NEW f \in Filters, ChangeFilter(f) PROVE ListInv'
  <2>1. stack' = Back(Start(f))
    BY <1>1 DEF ChangeFilter, Emptied, Back, Start
  <2>2. Start(f) \in Cursor /\ Start(f).of = f /\ <<>> \in Seq(Cursor)
    BY OfStart, EmptySeq
  <2>3. UNCHANGED list /\ filter' = f /\ stack' = <<>> /\ Sends(List(f, Start(f)))
    BY <1>1 DEF ChangeFilter, Emptied
  <2>. QED
    BY <2>1, <2>2, <2>3, SendsList
<1>2. CASE GoNext
  <2>. DEFINE c == list.cursor
              d == [c EXCEPT !.page = @ + 1]
  <2>1. c \in Cursor /\ d \in Cursor /\ d.of = c.of /\ d.page = c.page + 1
    BY DEF ListTypes, Asked, Cursor
  <2>2. Sends(List(filter, d)) /\ overtaken' = (overtaken \/ net # {})
    BY <1>2 DEF GoNext, Walks
  <2>3. UNCHANGED <<filter, list>> /\ stack' = Append(stack, c)
    BY <1>2 DEF GoNext, Walks
  <2>5. filter \in Filters
    BY DEF ListTypes
  <2>. HIDE DEF c, d
  <2>6. ASSUME ~overtaken' PROVE d.of = filter /\ stack' = Back(d)
    <3>1. c.of = filter /\ stack = Back(c)
      BY <2>2, <2>6, <1>0 DEF Awaited, Leads, c
    <3>2. stack' = Back(d)
      BY <2>1, <2>3, <2>5, <3>1, BackAndForth
    <3>. QED
      BY <2>1, <2>3, <3>1, <3>2 DEF Back
  <2>7. stack' \in Seq(Cursor)
    BY <2>1, <2>3, AppendProperties DEF ListTypes
  <2>. QED
    BY <2>1, <2>2, <2>3, <2>5, <2>6, <2>7, SendsList
<1>3. CASE GoPrevious
  <2>. DEFINE d == stack[Len(stack)]
  <2>1. /\ stack # <<>> /\ UNCHANGED <<filter, list>>
        /\ Sends(List(filter, d)) /\ stack' = SubSeq(stack, 1, Len(stack) - 1)
        /\ overtaken' = (overtaken \/ net # {})
    BY <1>3 DEF GoPrevious, Walks
  <2>2. stack \in Seq(Cursor) /\ filter \in Filters /\ Len(stack) \in Nat \ {0}
    BY <2>1, EmptySeq DEF ListTypes
  <2>3. d \in Cursor /\ \A i \in 1..Len(stack) - 1 : stack[i] \in Cursor
    BY <2>2, ElementOfSeq
  <2>4. stack' \in Seq(Cursor)
    BY <2>1, <2>2, <2>3, SubSeqProperties
  <2>5. ASSUME ~overtaken' PROVE d.of = filter /\ stack' = Back(d)
    <3>. DEFINE c == list.cursor
    <3>1. Leads(list) /\ c \in Cursor
      BY <2>1, <2>5, <1>0 DEF Awaited, ListTypes, Asked
    <3>2. c.of = filter /\ stack = Back(c) /\ Len(stack) = c.page
      BY <2>2, <3>1, BackIsSeq DEF Leads
    <3>3. d = [of |-> filter, page |-> c.page - 1]
      BY <2>2, <3>1, <3>2, BackIsSeq
    <3>4. d.of = filter /\ c.page = d.page + 1
      BY <2>2, <3>2, <3>3
    <3>. HIDE DEF c, d
    <3>5. SubSeq(Back(c), 1, Len(Back(c)) - 1) = Back(d)
      BY <2>2, <2>3, <3>1, <3>2, <3>4, BackAndForth
    <3>. QED
      BY <2>1, <3>2, <3>4, <3>5 DEF Back
  <2>. HIDE DEF d
  <2>. QED
    BY <2>1, <2>2, <2>3, <2>4, <2>5, SendsList
<1>4. CASE OpenForm \/ CloseForm
  <2>1. /\ UNCHANGED <<filter, list, stack, net, overtaken>> /\ acts' = acts + 1
    BY <1>4 DEF OpenForm, CloseForm, Clicks
  <2>2. Lists' = Lists /\ OfKind({"list", "delete"})' = OfKind({"list", "delete"}) /\ Pending' = Pending
    BY <2>1 DEF Lists, OfKind, Pending
  <2>3. acts' \in Nat /\ acts' >= acts
        /\ \A r \in net' : r.no \in 1..acts' /\ r = [no |-> r.no, kind |-> r.kind, ask |-> r.ask]
    BY <2>1 DEF ListTypes
  <2>. QED
    BY <2>1, <2>2, <2>3, ListsStay DEF ListTypes
<1>5. CASE Submit
  <2>. DEFINE q == Request("write", [filter |-> filter, form |-> form.no])
  <2>1. /\ q.no = acts + 1 /\ q.kind = "write" /\ q.ask.filter = filter
        /\ q = [no |-> q.no, kind |-> q.kind, ask |-> q.ask]
    BY DEF Request
  <2>. HIDE DEF q
  <2>2. UNCHANGED <<filter, list, stack, overtaken>> /\ acts' = acts + 1 /\ net' = net \union {q}
    BY <1>5 DEF Submit, Sends, Clicks, screen, q
  <2>3. Lists' = Lists /\ OfKind({"list", "delete"})' = OfKind({"list", "delete"})
    BY <2>1, <2>2 DEF Lists, OfKind
  <2>4. \A r \in Pending' : r.ask.filter \in Filters
    BY <2>1, <2>2 DEF Pending, OfKind, ListTypes
  <2>5. acts' \in Nat /\ acts' >= acts
        /\ \A r \in net' : r.no \in 1..acts' /\ r = [no |-> r.no, kind |-> r.kind, ask |-> r.ask]
    BY <2>1, <2>2 DEF ListTypes
  <2>. QED
    BY <2>2, <2>3, <2>4, <2>5, ListsStay DEF ListTypes
<1>6. CASE Delete
  <2>. DEFINE q == Request("delete", [filter |-> filter, cursor |-> list.cursor])
  <2>1. /\ q.no = acts + 1 /\ q.kind = "delete" /\ q.ask \in Asked
        /\ q = [no |-> q.no, kind |-> q.kind, ask |-> q.ask]
    BY DEF Request, ListTypes, Asked
  <2>. HIDE DEF q
  <2>2. UNCHANGED <<filter, list, stack>> /\ acts' = acts + 1 /\ net' = net \union {q}
        /\ (overtaken => overtaken')
    BY <1>6 DEF Delete, Sends, Clicks, screen, q
  <2>3. Lists' = Lists /\ Pending' = Pending
    BY <2>1, <2>2 DEF Lists, OfKind, Pending
  <2>4. \A r \in OfKind({"list", "delete"})' : r.ask \in Asked
    BY <2>1, <2>2 DEF OfKind, ListTypes
  <2>5. acts' \in Nat /\ acts' >= acts
        /\ \A r \in net' : r.no \in 1..acts' /\ r = [no |-> r.no, kind |-> r.kind, ask |-> r.ask]
    BY <2>1, <2>2 DEF ListTypes
  <2>. QED
    BY <2>2, <2>3, <2>4, <2>5, ListsStay DEF ListTypes
<1>7. ASSUME NEW r \in net, Write(r) PROVE ListInv'
  <2>. DEFINE q == [r EXCEPT !.kind = "written"]
  <2>1. r.kind = "write" /\ r \in Pending
    BY <1>7 DEF Write, OfKind, Pending
  <2>2. UNCHANGED <<filter, list, stack, acts, overtaken>> /\ net' = (net \ {r}) \union {q}
    BY <1>7 DEF Write, screen
  <2>3. /\ q.no = r.no /\ q.ask = r.ask /\ q.kind = "written" /\ r.no \in 1..acts
        /\ q = [no |-> q.no, kind |-> q.kind, ask |-> q.ask] /\ r.ask.filter \in Filters
    BY <2>1 DEF ListTypes
  <2>. HIDE DEF q
  <2>4. Lists' = Lists /\ OfKind({"list", "delete"})' = OfKind({"list", "delete"})
    BY <2>1, <2>2, <2>3 DEF Lists, OfKind
  <2>5. \A s \in Pending' : s.ask.filter \in Filters
    BY <2>2, <2>3 DEF Pending, OfKind, ListTypes
  <2>. QED
    BY <2>2, <2>3, <2>4, <2>5, ListsStay DEF ListTypes
<1>8. ASSUME NEW r \in net, ShowList(r) PROVE ListInv'
  <2>1. r \in Lists /\ r.ask \in Asked
    BY <1>8 DEF ShowList, Lists, OfKind, ListTypes
  <2>2. /\ UNCHANGED <<filter, stack, acts>> /\ net' = net \ {r} /\ list' = r.ask
        /\ overtaken' = (overtaken \/ \E s \in Lists : s.no < r.no)
    BY <1>8 DEF ShowList, Lists
  <2>3. ListTypes'
    BY <2>1, <2>2 DEF ListTypes, OfKind, Pending
  <2>4. Lists' = Lists \ {r}
    BY <2>2 DEF Lists, OfKind
  <2>5. ASSUME ~overtaken', Lists' = {} PROVE Leads(list)'
    <3>1. Lists = {r}
      BY <2>1, <2>4, <2>5
    <3>2. \A s \in Lists : s.no <= r.no
      BY <3>1 DEF ListTypes
    <3>3. Leads(r.ask)
      BY <2>1, <2>2, <2>5, <3>2 DEF Awaited
    <3>. QED
      BY <2>2, <3>3 DEF Leads
  <2>6. ASSUME ~overtaken', NEW m \in Lists', \A s \in Lists' : s.no <= m.no
        PROVE  Leads(m.ask)'
    <3>1. \A s \in Lists : s.no \in Nat
      BY DEF Lists, OfKind, ListTypes
    <3>2. m \in Lists /\ ~ (m.no < r.no)
      BY <2>2, <2>4, <2>6
    <3>3. \A s \in Lists : s.no <= m.no
      BY <2>1, <2>4, <2>6, <3>1, <3>2
    <3>. QED
      BY <2>2, <2>6, <3>2, <3>3 DEF Awaited, Leads, Back
  <2>. QED
    BY <2>3, <2>5, <2>6 DEF Awaited
<1>9. ASSUME NEW r \in net, Lose(r) PROVE ListInv'
  <2>1. /\ UNCHANGED <<filter, list, stack, acts>> /\ net' = net \ {r}
        /\ overtaken' = (overtaken \/ r.kind = "list")
    BY <1>9 DEF Lose
  <2>2. ListTypes'
    BY <2>1 DEF ListTypes, OfKind, Pending
  <2>3. ASSUME ~overtaken' PROVE Awaited'
    <3>1. Lists' = Lists
      BY <2>1, <2>3 DEF Lists, OfKind
    <3>. QED
      BY <2>1, <2>3, <3>1 DEF Awaited, Leads, Back
  <2>. QED
    BY <2>2, <2>3
<1>10. ASSUME NEW r \in net, Deleted(r) PROVE ListInv'
  <2>. DEFINE q == [r EXCEPT !.kind = "list"]
  <2>1. r.kind = "delete" /\ r.ask \in Asked /\ r.no \in 1..acts
    BY <1>10 DEF Deleted, OfKind, ListTypes
  <2>2. q.no = r.no /\ q.kind = "list" /\ q.ask = r.ask /\ q = [no |-> q.no, kind |-> q.kind, ask |-> q.ask]
    BY DEF ListTypes
  <2>3. /\ UNCHANGED <<filter, list, stack, acts>> /\ net' = (net \ {r}) \union {q}
        /\ overtaken' = (overtaken \/ r.ask # [filter |-> filter, cursor |-> list.cursor] \/ Lists # {})
    BY <1>10 DEF Deleted, screen, Lists
  <2>. HIDE DEF q
  <2>4. ListTypes'
    BY <2>1, <2>2, <2>3 DEF ListTypes, OfKind, Pending
  <2>5. ASSUME ~overtaken' PROVE Awaited'
    <3>1. Lists' = {q}
      BY <2>1, <2>2, <2>3, <2>5 DEF Lists, OfKind
    <3>4. ~ overtaken /\ Lists = {} /\ r.ask = [filter |-> filter, cursor |-> list.cursor]
      BY <2>3, <2>5
    <3>2. Leads(list) /\ r.ask.filter = filter /\ r.ask.cursor = list.cursor
      BY <3>4 DEF Awaited
    <3>3. Leads(r.ask)'
      BY <2>3, <3>2 DEF Leads
    <3>. QED
      BY <2>2, <3>1, <3>3 DEF Awaited
  <2>. QED
    BY <2>4, <2>5
<1>11. ASSUME NEW r \in net, Written(r) PROVE ListInv'
  <2>. DEFINE q == [r EXCEPT !.kind = "list",
                             !.ask = [filter |-> @.filter, cursor |-> Start(@.filter)]]
              f == r.ask.filter
  <2>1. r.kind = "written" /\ r.no \in 1..acts /\ f \in Filters
    BY <1>11 DEF Written, OfKind, ListTypes, Pending
  <2>2. /\ q.no = r.no /\ q.kind = "list" /\ q.ask = [filter |-> f, cursor |-> Start(f)]
        /\ q = [no |-> q.no, kind |-> q.kind, ask |-> q.ask]
    <3>1. r = [no |-> r.no, kind |-> r.kind, ask |-> r.ask]
      BY DEF ListTypes
    <3>2. q = [no |-> r.no, kind |-> "list", ask |-> [filter |-> f, cursor |-> Start(f)]]
      BY <3>1, AnotherRequest
    <3>. QED
      BY <3>2
  <2>3. /\ UNCHANGED <<filter, list, acts>> /\ stack' = <<>> /\ net' = (net \ {r}) \union {q}
        /\ overtaken' = (overtaken \/ f # filter \/ Lists # {})
    BY <1>11 DEF Written, Lists
  <2>. HIDE DEF q, f
  <2>4. ListTypes'
    BY <2>1, <2>2, <2>3, OfStart DEF ListTypes, OfKind, Pending
  <2>5. ASSUME ~overtaken' PROVE Awaited'
    <3>1. Lists' = {q}
      BY <2>1, <2>2, <2>3, <2>5 DEF Lists, OfKind
    <3>2. Back(Start(f)) = <<>>
      BY <2>1, OfStart DEF Back, Start
    <3>3. Leads([filter |-> f, cursor |-> Start(f)])'
      BY <2>1, <2>3, <2>5, <3>2 DEF Leads, Start, f
    <3>. QED
      BY <2>2, <3>1, <3>3 DEF Awaited, f
  <2>. QED
    BY <2>4, <2>5
<1>12. CASE UNCHANGED vars
  BY <1>12 DEF vars, screen, ListTypes, Awaited, Leads, Back, Lists, OfKind, Pending
<1>. QED
  BY <1>1, <1>2, <1>3, <1>4, <1>5, <1>6, <1>7, <1>8, <1>9, <1>10, <1>11, <1>12 DEF Next

-----------------------------------------------------------------------------
(* The list on the screen, for every instance: at rest it is the one the   *)
(* filters ask for, and the stack leads back from it, but for the causes   *)
(* the property names.                                                     *)
THEOREM TheListIsAsked == Spec => []ListIsAsked
  BY InitList, ListKept, ListSuffices, PTL DEF Spec

-----------------------------------------------------------------------------
(* Categories, for any kinds and entries, and any number of requests at    *)
(* once.                                                                   *)
(*                                                                         *)
(* An entry loses its category only when a removal drops it, so the        *)
(* invariant says what each request holds between its steps (Sound): a     *)
(* category that was checked still fits, or the request is marked bad; and *)
(* a removal that will not move any more rows has every entry of its       *)
(* category in moved, or astray.  Rows locked by two removals are apart.   *)
Optional == Categories \union {NoCategory}

Service == [at : {"free", "insert", "store", "move", "delete", "commit"},
            r : Records \union {NoCategory}, kind : Kinds \union {NoCategory}, adjusts : BOOLEAN,
            c : Optional, into : Optional, moves : BOOLEAN,
            moved : SUBSET Records, bad : BOOLEAN]

CategoryRow == [state : {"none", "live", "deleted"}, kind : Kinds \union {NoCategory}]

RecordRow == [state : {"none", "live", "deleted"}, kind : Kinds \union {NoCategory},
              adjusts : BOOLEAN, category : Optional]

CatTypes ==
  /\ category \in [Categories -> CategoryRow]
  /\ record \in [Records -> RecordRow]
  /\ rule \in Optional
  /\ desk \in [Clerks -> Service]
  /\ astray \in SUBSET Records

-----------------------------------------------------------------------------
(* What a request q relies on, in the tables cats, rows and the set strays.  *)

FitsIn(cats, c, kind) ==
  c = NoCategory \/ (c \in Categories /\ cats[c].state = "live" /\ cats[c].kind = kind)

SoundEntry(q, cats, rows) ==
  /\ q.at = "insert" => /\ q.r \in Records /\ rows[q.r].state = "none"
                        /\ q.bad \/ Exempt(q.c, q.adjusts) \/ FitsIn(cats, q.c, q.kind)
  /\ q.at = "store" => /\ q.r \in Records /\ rows[q.r].state # "none"
                       /\ \/ q.bad \/ Exempt(q.c, rows[q.r].adjusts)
                          \/ FitsIn(cats, q.c, rows[q.r].kind)

SoundRemoval(q, cats) ==
  q.at \in {"move", "delete", "commit"} =>
    /\ q.c \in Categories \ {Adjusting} /\ cats[q.c].state # "none"
    /\ q.bad \/ FitsIn(cats, q.into, cats[q.c].kind)
    /\ q.c = q.into => q.bad
    /\ q.moves => q.into # NoCategory

SoundMoved(q, cats, rows, strays) ==
  /\ q.moved # {} => q.at \in {"delete", "commit"} /\ q.moves
  /\ \A r \in q.moved : /\ rows[r].state # "none"
                        /\ rows[r].state = "live" => rows[r].kind = cats[q.c].kind \/ r \in strays

Sealed(q) == (q.at = "move" /\ ~q.moves) \/ q.at = "delete"

SoundSealed(q, rows, strays) ==
  Sealed(q) => \A r \in Records : rows[r].state = "live" /\ rows[r].category = q.c
                                    => r \in strays \union q.moved

Sound(q, cats, rows, strays) ==
  /\ SoundEntry(q, cats, rows) /\ SoundRemoval(q, cats)
  /\ SoundMoved(q, cats, rows, strays) /\ SoundSealed(q, rows, strays)

Apart(q, p) == /\ q.moved \cap p.moved = {}
               /\ q.at = "insert" /\ p.at = "insert" => q.r # p.r

HandsSound == \A w \in Clerks : Sound(desk[w], category, record, astray)

HandsApart == \A v, w \in Clerks : v # w => Apart(desk[v], desk[w])

FiledInv == CatTypes /\ HandsSound /\ HandsApart /\ EntriesFiled

-----------------------------------------------------------------------------
(* A clerk that is free relies on nothing. *)
LEMMA FreeIsSound ==
  /\ Free \in Service
  /\ \A cats, rows, strays : Sound(Free, cats, rows, strays)
  /\ \A q : Apart(Free, q) /\ Apart(q, Free)
  BY DEF Free, Service, Optional, Sound, SoundEntry, SoundRemoval, SoundMoved, SoundSealed,
         Sealed, Apart

(* Fits, on the table of the moment. *)
LEMMA FitsHere == \A c \in Optional : \A kind : Fits(c, kind) <=> FitsIn(category, c, kind)
  BY CategoriesAssumption DEF Fits, Live, FitsIn, Optional

(* When one request changes and the tables do not, only it matters. *)
LEMMA OneHand ==
  ASSUME NEW w \in Clerks, NEW q \in Service, FiledInv,
         desk' = [desk EXCEPT ![w] = q], UNCHANGED <<category, record, rule>>,
         Sound(q, category, record, astray),
         \A v \in Clerks \ {w} : Apart(q, desk[v]) /\ Apart(desk[v], q),
         astray' = astray,
         desk[w].at = "commit" => desk[w].moved = q.moved /\ q.at = "commit"
  PROVE  FiledInv'
<1>. USE DEF FiledInv
<1>1. CatTypes'
  BY DEF CatTypes
<1>2. HandsSound'
  BY DEF HandsSound, CatTypes
<1>3. HandsApart'
  BY DEF HandsApart, CatTypes
<1>4. EntriesFiled'
  BY DEF EntriesFiled, Exempt, Fits, Live, CatTypes
<1>. QED
  BY <1>1, <1>2, <1>3, <1>4

-----------------------------------------------------------------------------
(* A request that takes an entry: what it holds was checked, or is bad.    *)
LEMMA CheckNewKeeps ==
  ASSUME FiledInv, NEW w \in Clerks, NEW r \in Records, NEW kind \in Kinds, NEW c \in Optional,
         CheckNew(w, r, kind, c)
  PROVE  FiledInv'
<1>. DEFINE q == [Free EXCEPT !.at = "insert", !.r = r, !.kind = kind, !.c = c,
                              !.bad = c = rule /\ ~Fits(c, kind)]
<1>1. /\ q \in Service /\ q.at = "insert" /\ q.r = r /\ q.kind = kind /\ q.c = c
      /\ q.moved = {} /\ q.bad = (c = rule /\ ~Fits(c, kind))
  BY DEF Free, Service, Optional
<1>2. /\ desk' = [desk EXCEPT ![w] = q] /\ UNCHANGED <<category, record, rule>>
      /\ desk[w] = Free /\ astray' = astray /\ record[r].state = "none"
  BY DEF CheckNew, Takes, filing
<1>3. c = rule \/ Fits(c, kind)
  BY DEF CheckNew, Chosen
<1>4. Sound(q, category, record, astray)
  BY <1>1, <1>2, <1>3, FitsHere
     DEF Sound, SoundEntry, SoundRemoval, SoundMoved, SoundSealed, Sealed
<1>5. \A v \in Clerks \ {w} : Apart(q, desk[v]) /\ Apart(desk[v], q)
  BY <1>1 DEF CheckNew, Apart
<1>6. desk[w].at # "commit"
  BY <1>2 DEF Free
<1>. HIDE DEF q
<1>. QED
  BY <1>1, <1>2, <1>4, <1>5, <1>6, OneHand

(* An adjustment comes under the one category that is its own. *)
LEMMA CheckAdjustmentKeeps ==
  ASSUME FiledInv, NEW w \in Clerks, NEW r \in Records, NEW kind \in Kinds,
         CheckAdjustment(w, r, kind)
  PROVE  FiledInv'
<1>. DEFINE q == [Free EXCEPT !.at = "insert", !.r = r, !.kind = kind, !.adjusts = TRUE,
                              !.c = Adjusting]
<1>1. /\ q \in Service /\ q.at = "insert" /\ q.r = r /\ q.kind = kind /\ q.c = Adjusting
      /\ q.moved = {} /\ q.adjusts
  BY CategoriesAssumption DEF Free, Service, Optional
<1>2. /\ desk' = [desk EXCEPT ![w] = q] /\ UNCHANGED <<category, record, rule>>
      /\ desk[w] = Free /\ astray' = astray /\ record[r].state = "none"
  BY DEF CheckAdjustment, Takes, filing
<1>3. Sound(q, category, record, astray)
  BY <1>1, <1>2
     DEF Sound, SoundEntry, SoundRemoval, SoundMoved, SoundSealed, Sealed, Exempt
<1>4. \A v \in Clerks \ {w} : Apart(q, desk[v]) /\ Apart(desk[v], q)
  BY <1>1 DEF CheckAdjustment, Apart
<1>5. desk[w].at # "commit"
  BY <1>2 DEF Free
<1>. HIDE DEF q
<1>. QED
  BY <1>1, <1>2, <1>3, <1>4, <1>5, OneHand

(* The same for an update. *)
LEMMA CheckChangeKeeps ==
  ASSUME FiledInv, NEW w \in Clerks, NEW r \in Records, NEW c \in Optional, CheckChange(w, r, c)
  PROVE  FiledInv'
<1>. DEFINE q == [Free EXCEPT !.at = "store", !.r = r, !.c = c,
                    !.bad = /\ c = record[r].category /\ ~Fits(c, record[r].kind)
                            /\ ~Exempt(c, record[r].adjusts)]
<1>1. /\ q \in Service /\ q.at = "store" /\ q.r = r /\ q.c = c /\ q.moved = {}
      /\ q.bad = (/\ c = record[r].category /\ ~Fits(c, record[r].kind)
                  /\ ~Exempt(c, record[r].adjusts))
  BY DEF Free, Service, Optional
<1>2. /\ desk' = [desk EXCEPT ![w] = q] /\ UNCHANGED <<category, record, rule>>
      /\ desk[w] = Free /\ astray' = astray /\ record[r].state = "live"
  BY DEF CheckChange, Takes, filing
<1>3. c = record[r].category \/ Fits(c, record[r].kind)
  BY DEF CheckChange, Chosen, Fits
<1>4. Sound(q, category, record, astray)
  BY <1>1, <1>2, <1>3, FitsHere
     DEF Sound, SoundEntry, SoundRemoval, SoundMoved, SoundSealed, Sealed
<1>5. \A v \in Clerks \ {w} : Apart(q, desk[v]) /\ Apart(desk[v], q)
  BY <1>1 DEF Apart
<1>6. desk[w].at # "commit"
  BY <1>2 DEF Free
<1>. HIDE DEF q
<1>. QED
  BY <1>1, <1>2, <1>4, <1>5, <1>6, OneHand

(* A removal that moves nothing has no entry to move: RG-C4. *)
LEMMA CheckRemovalKeeps ==
  ASSUME FiledInv, NEW w \in Clerks, NEW c \in Categories, NEW into \in Optional,
         CheckRemoval(w, c, into)
  PROVE  FiledInv'
<1>. DEFINE q == [Free EXCEPT !.at = "move", !.c = c, !.into = into,
                              !.moves = into # NoCategory /\ FiledUnder(c) # {},
                              !.bad = c = into]
<1>1. /\ q \in Service /\ q.at = "move" /\ q.c = c /\ q.into = into /\ q.moved = {}
      /\ q.moves = (into # NoCategory /\ FiledUnder(c) # {}) /\ q.bad = (c = into)
  BY DEF Free, Service, Optional
<1>2. /\ desk' = [desk EXCEPT ![w] = q] /\ UNCHANGED <<category, record, rule>>
      /\ desk[w] = Free /\ astray' = astray /\ category[c].state = "live" /\ c # Adjusting
  BY DEF CheckRemoval, Takes, filing
<1>3. FitsIn(category, into, category[c].kind)
  BY FitsHere DEF CheckRemoval, Target, Chosen, FitsIn
<1>4. ~q.moves => FiledUnder(c) = {}
  BY <1>1 DEF CheckRemoval, Target
<1>5. ~q.moves => \A r \in Records : ~(record[r].state = "live" /\ record[r].category = c)
  BY <1>4 DEF FiledUnder
<1>6. Sound(q, category, record, astray)
  BY <1>1, <1>2, <1>3, <1>5
     DEF Sound, SoundEntry, SoundRemoval, SoundMoved, SoundSealed, Sealed
<1>7. \A v \in Clerks \ {w} : Apart(q, desk[v]) /\ Apart(desk[v], q)
  BY <1>1 DEF Apart
<1>8. desk[w].at # "commit"
  BY <1>2 DEF Free
<1>. HIDE DEF q
<1>. QED
  BY <1>1, <1>2, <1>6, <1>7, <1>8, OneHand

(* The rows of a move are those of its category; no one else holds them,   *)
(* so each fits it or is astray.                                           *)
LEMMA MoveKeeps ==
  ASSUME FiledInv, NEW w \in Clerks, Move(w)
  PROVE  FiledInv'
<1>. DEFINE old == desk[w]
            rows == {r \in Records : old.moves /\ record[r].state # "none" /\ record[r].category = old.c}
            q == [old EXCEPT !.at = "delete", !.moved = rows]
<1>1. old \in Service /\ old.at = "move" /\ Sound(old, category, record, astray)
  BY DEF Move, FiledInv, CatTypes, HandsSound
<1>2. /\ q \in Service /\ q.at = "delete" /\ q.c = old.c /\ q.into = old.into /\ q.moved = rows
      /\ q.moves = old.moves /\ q.bad = old.bad
  BY <1>1 DEF Service
<1>3. /\ desk' = [desk EXCEPT ![w] = q] /\ UNCHANGED <<category, record, rule>>
      /\ astray' = astray /\ \A r \in rows : ~Locked(r)
  BY DEF Move, Goes, filing
<1>4. old.c \in Categories \ {Adjusting}
  BY <1>1 DEF Sound, SoundRemoval
<1>5. ASSUME NEW r \in rows, record[r].state = "live"
      PROVE  record[r].kind = category[old.c].kind \/ r \in astray
  <2>1. \A v \in Clerks : r \notin desk[v].moved
    BY <1>3 DEF Locked
  <2>2. Fits(old.c, record[r].kind) \/ r \in astray
    BY <1>4, <1>5, <2>1 DEF FiledInv, EntriesFiled, Exempt
  <2>. QED
    BY <2>2, <1>4, CategoriesAssumption DEF Fits
<1>6. SoundMoved(q, category, record, astray)
  BY <1>2, <1>5 DEF SoundMoved
<1>7. SoundSealed(q, record, astray)
  <2>1. old.moved = {}
    BY <1>1 DEF Sound, SoundMoved
  <2>2. ASSUME NEW r \in Records, record[r].state = "live", record[r].category = old.c
        PROVE  r \in astray \union rows
    BY <1>1, <2>1, <2>2 DEF Sound, SoundSealed, Sealed
  <2>. QED
    BY <1>2, <2>2 DEF SoundSealed
<1>8. SoundEntry(q, category, record) /\ SoundRemoval(q, category)
  BY <1>1, <1>2 DEF Sound, SoundEntry, SoundRemoval
<1>9. \A v \in Clerks \ {w} : Apart(q, desk[v]) /\ Apart(desk[v], q)
  BY <1>2, <1>3 DEF Locked, Apart
<1>10. Sound(q, category, record, astray)
  BY <1>6, <1>7, <1>8 DEF Sound
<1>. HIDE DEF q
<1>. QED
  BY <1>1, <1>2, <1>3, <1>9, <1>10, OneHand

-----------------------------------------------------------------------------
(* A new category, or another rule, changes nothing that is relied on: who *)
(* holds a category holds one that is no longer "none".                    *)
LEMMA CreateCategoryKeeps ==
  ASSUME FiledInv, NEW c \in Categories, NEW kind \in Kinds, CreateCategory(c, kind)
  PROVE  FiledInv'
<1>. USE DEF FiledInv
<1>1. /\ category[c].state = "none" /\ UNCHANGED <<record, rule, desk, astray>>
      /\ category' = [category EXCEPT ![c] = [state |-> "live", kind |-> kind]]
  BY DEF CreateCategory
<1>2. \A x \in Categories : category[x].state # "none" => category'[x] = category[x]
  BY <1>1 DEF CatTypes
<1>3. CatTypes'
  BY <1>1 DEF CatTypes, CategoryRow
<1>4. ASSUME NEW w \in Clerks
      PROVE  Sound(desk[w], category', record, astray)
  <2>1. desk[w] \in Service /\ Sound(desk[w], category, record, astray)
    BY DEF CatTypes, HandsSound
  <2>2. \A x, k : FitsIn(category, x, k) => FitsIn(category', x, k)
    BY <1>2 DEF FitsIn
  <2>3. SoundEntry(desk[w], category', record)
    BY <2>1, <2>2 DEF Sound, SoundEntry
  <2>4. SoundRemoval(desk[w], category')
    BY <1>2, <2>1, <2>2 DEF Sound, SoundRemoval
  <2>5. SoundMoved(desk[w], category', record, astray)
    BY <1>2, <2>1 DEF Sound, SoundMoved, SoundRemoval
  <2>. QED
    BY <2>1, <2>3, <2>4, <2>5 DEF Sound
<1>5. HandsSound' /\ HandsApart'
  BY <1>1, <1>4 DEF HandsSound, HandsApart
<1>6. EntriesFiled'
  BY <1>1, <1>2, CategoriesAssumption
     DEF EntriesFiled, Exempt, Fits, Live, CatTypes, RecordRow, Optional
<1>. QED
  BY <1>3, <1>5, <1>6

(* The rule is read when an entry is taken, and by no one later.           *)
LEMMA SetRuleKeeps ==
  ASSUME FiledInv, NEW c \in Optional, SetRule(c)
  PROVE  FiledInv'
<1>. USE DEF FiledInv
<1>1. CatTypes'
  BY DEF SetRule, CatTypes
<1>2. HandsSound' /\ HandsApart' /\ EntriesFiled'
  BY DEF SetRule, HandsSound, HandsApart, EntriesFiled, Exempt, Fits, Live
<1>. QED
  BY <1>1, <1>2

(* An entry that is deleted asks for less.                                 *)
LEMMA DeleteRecordKeeps ==
  ASSUME FiledInv, NEW r \in Records, DeleteRecord(r)
  PROVE  FiledInv'
<1>. USE DEF FiledInv
<1>1. /\ record[r].state = "live" /\ UNCHANGED <<category, rule, desk, astray>>
      /\ record' = [record EXCEPT ![r].state = "deleted"]
  BY DEF DeleteRecord
<1>2. /\ record' \in [Records -> RecordRow]
      /\ \A x \in Records \ {r} : record'[x] = record[x]
      /\ record'[r].state = "deleted" /\ record'[r].kind = record[r].kind
      /\ record'[r].adjusts = record[r].adjusts
  BY <1>1 DEF CatTypes, RecordRow
<1>3. CatTypes'
  BY <1>1, <1>2 DEF CatTypes
<1>4. ASSUME NEW w \in Clerks
      PROVE  Sound(desk[w], category, record', astray)
  <2>1. desk[w] \in Service /\ Sound(desk[w], category, record, astray)
    BY DEF CatTypes, HandsSound
  <2>2. SoundEntry(desk[w], category, record')
    BY <1>1, <1>2, <2>1 DEF Sound, SoundEntry
  <2>3. SoundMoved(desk[w], category, record', astray)
    BY <1>2, <2>1 DEF Sound, SoundMoved, Service
  <2>4. SoundSealed(desk[w], record', astray)
    BY <1>2, <2>1 DEF Sound, SoundSealed
  <2>. QED
    BY <2>1, <2>2, <2>3, <2>4 DEF Sound
<1>5. HandsSound' /\ HandsApart'
  BY <1>1, <1>4 DEF HandsSound, HandsApart
<1>6. EntriesFiled'
  BY <1>1, <1>2 DEF EntriesFiled, Exempt, Fits, Live
<1>. QED
  BY <1>3, <1>5, <1>6

-----------------------------------------------------------------------------
(* An entry is filed by the request that took it: under a category that    *)
(* fits, or it is astray; and astray too when its category is about to go. *)
LEMMA FilingKeeps ==
  ASSUME FiledInv, NEW w \in Clerks, desk[w].at \in {"insert", "store"},
         UNCHANGED <<category, rule>>, desk' = [desk EXCEPT ![w] = Free],
         record' \in [Records -> RecordRow], desk[w].r \in Records,
         \A x \in Records \ {desk[w].r} : record'[x] = record[x],
         record'[desk[w].r].state # "none", record'[desk[w].r].category = desk[w].c,
         \/ desk[w].bad \/ Exempt(desk[w].c, record'[desk[w].r].adjusts)
         \/ FitsIn(category, desk[w].c, record'[desk[w].r].kind),
         record[desk[w].r].state # "none" =>
           /\ record'[desk[w].r].kind = record[desk[w].r].kind
           /\ record'[desk[w].r].adjusts = record[desk[w].r].adjusts,
         \A v \in Clerks : desk[v].at = "insert" /\ v # w => desk[v].r # desk[w].r,
         \A v \in Clerks : desk[w].r \notin desk[v].moved,
         astray' = IF desk[w].bad \/ Doomed(desk[w].c)
                   THEN astray \union {desk[w].r} ELSE astray \ {desk[w].r}
  PROVE  FiledInv'
<1>. USE DEF FiledInv
<1>. DEFINE r == desk[w].r
            q == desk[w]
<1>1. q \in Service /\ Sound(q, category, record, astray)
  BY DEF CatTypes, HandsSound
<1>2. CatTypes'
  BY FreeIsSound DEF CatTypes
<1>3. \A x \in Records \ {r} : x \in astray' <=> x \in astray
  OBVIOUS
<1>4. \A v \in Clerks : desk'[v] = IF v = w THEN Free ELSE desk[v]
  BY DEF CatTypes
<1>5. ASSUME NEW v \in Clerks, v # w
      PROVE  Sound(desk[v], category, record', astray')
  <2>1. desk[v] \in Service /\ Sound(desk[v], category, record, astray)
    BY DEF CatTypes, HandsSound
  <2>2. SoundEntry(desk[v], category, record')
    BY <1>5, <2>1 DEF Sound, SoundEntry
  <2>3. SoundMoved(desk[v], category, record', astray')
    <3>1. desk[v].moved \subseteq Records \ {r}
      BY <2>1 DEF Service
    <3>. QED
      BY <1>3, <2>1, <3>1 DEF Sound, SoundMoved
  <2>4. Sealed(desk[v]) /\ desk[v].c = q.c => Doomed(q.c)
    BY <2>1, CategoriesAssumption DEF Sealed, Doomed, Sound, SoundRemoval
  <2>5. SoundSealed(desk[v], record', astray')
    BY <1>3, <2>1, <2>4 DEF Sound, SoundSealed
  <2>. QED
    BY <2>1, <2>2, <2>3, <2>5 DEF Sound
<1>6. HandsSound'
  <2>1. ASSUME NEW v \in Clerks
        PROVE  Sound(desk'[v], category, record', astray')
    <3>1. CASE v = w
      <4>1. Sound(Free, category, record', astray')
        BY FreeIsSound
      <4>2. desk'[v] = Free
        BY <1>4, <3>1
      <4>. QED
        BY <4>1, <4>2
    <3>2. CASE v # w
      <4>1. desk'[v] = desk[v]
        BY <1>4, <3>2
      <4>. QED
        BY <1>5, <3>2, <4>1
    <3>. QED
      BY <3>1, <3>2
  <2>2. category' = category
    OBVIOUS
  <2>. QED
    BY <2>1, <2>2 DEF HandsSound
<1>7. HandsApart'
  <2>1. ASSUME NEW v \in Clerks, NEW u \in Clerks, v # u
        PROVE  Apart(desk'[v], desk'[u])
    BY <1>4, <2>1, FreeIsSound DEF HandsApart
  <2>. QED
    BY <2>1 DEF HandsApart
<1>8. ASSUME NEW x \in Records, record'[x].state = "live"
      PROVE  \/ FitsIn(category, record'[x].category, record'[x].kind)
             \/ Exempt(record'[x].category, record'[x].adjusts)
             \/ x \in astray'
             \/ \E v \in Clerks : desk'[v].at = "commit" /\ x \in desk'[v].moved
  <2>1. CASE x = r
    BY <2>1
  <2>2. CASE x # r
    <3>1. record'[x] = record[x] /\ (x \in astray' <=> x \in astray)
      BY <2>2, <1>3
    <3>2. ASSUME NEW v \in Clerks, desk[v].at = "commit", x \in desk[v].moved
          PROVE  desk'[v].at = "commit" /\ x \in desk'[v].moved
      BY <3>2, <1>4
    <3>3. record[x].category \in Optional
      BY DEF CatTypes, RecordRow
    <3>4. Fits(record[x].category, record[x].kind)
            => FitsIn(category, record[x].category, record[x].kind)
      BY <3>3, FitsHere
    <3>. QED
      BY <1>8, <3>1, <3>2, <3>4 DEF EntriesFiled
  <2>. QED
    BY <2>1, <2>2
<1>9. EntriesFiled'
  BY <1>8, CategoriesAssumption DEF EntriesFiled, Exempt, Fits, Live, FitsIn
<1>. QED
  BY <1>2, <1>6, <1>7, <1>9

(* The entry is new: no one else has it in hand.                           *)
LEMMA InsertKeeps ==
  ASSUME FiledInv, NEW w \in Clerks, Insert(w)
  PROVE  FiledInv'
<1>. DEFINE q == desk[w]
            row == [state |-> "live", kind |-> q.kind, adjusts |-> q.adjusts, category |-> q.c]
<1>1. q \in Service /\ q.at = "insert" /\ Sound(q, category, record, astray)
  BY DEF Insert, FiledInv, CatTypes, HandsSound
<1>2. /\ q.r \in Records /\ record[q.r].state = "none"
      /\ q.bad \/ Exempt(q.c, q.adjusts) \/ FitsIn(category, q.c, q.kind)
  BY <1>1 DEF Sound, SoundEntry
<1>3. /\ record' = [record EXCEPT ![q.r] = row] /\ UNCHANGED <<category, rule>>
      /\ desk' = [desk EXCEPT ![w] = Free]
      /\ astray' = IF q.bad \/ Doomed(q.c) THEN astray \union {q.r} ELSE astray \ {q.r}
  BY DEF Insert, Goes, Strays
<1>4. row \in RecordRow
  BY <1>1 DEF RecordRow, Service
<1>5. /\ record' \in [Records -> RecordRow] /\ record'[q.r] = row
      /\ \A x \in Records \ {q.r} : record'[x] = record[x]
  BY <1>2, <1>3, <1>4 DEF FiledInv, CatTypes
<1>6. \A v \in Clerks : desk[v].at = "insert" /\ v # w => desk[v].r # q.r
  BY <1>1 DEF FiledInv, HandsApart, Apart
<1>7. \A v \in Clerks : q.r \notin desk[v].moved
  BY <1>2 DEF FiledInv, HandsSound, Sound, SoundMoved
<1>. HIDE DEF q
<1>. QED
  BY <1>1, <1>2, <1>3, <1>5, <1>6, <1>7, FilingKeeps DEF q

(* The update waits for a removal that moves the entry, and leaves its     *)
(* kind.                                                                   *)
LEMMA StoreKeeps ==
  ASSUME FiledInv, NEW w \in Clerks, Store(w)
  PROVE  FiledInv'
<1>. DEFINE q == desk[w]
            row == [record[q.r] EXCEPT !.category = q.c]
<1>1. q \in Service /\ q.at = "store" /\ Sound(q, category, record, astray)
  BY DEF Store, FiledInv, CatTypes, HandsSound
<1>2. /\ q.r \in Records /\ record[q.r].state # "none"
      /\ \/ q.bad \/ Exempt(q.c, record[q.r].adjusts)
         \/ FitsIn(category, q.c, record[q.r].kind)
  BY <1>1 DEF Sound, SoundEntry
<1>3. /\ record' = [record EXCEPT ![q.r] = row] /\ UNCHANGED <<category, rule>>
      /\ desk' = [desk EXCEPT ![w] = Free]
      /\ astray' = IF q.bad \/ Doomed(q.c) THEN astray \union {q.r} ELSE astray \ {q.r}
  BY DEF Store, Goes, Strays
<1>4. record[q.r] \in RecordRow
  BY <1>2 DEF FiledInv, CatTypes
<1>5. /\ row \in RecordRow /\ row.state = record[q.r].state /\ row.kind = record[q.r].kind
      /\ row.category = q.c /\ row.adjusts = record[q.r].adjusts
  BY <1>1, <1>4 DEF RecordRow, Service
<1>6. /\ record' \in [Records -> RecordRow] /\ record'[q.r] = row
      /\ \A x \in Records \ {q.r} : record'[x] = record[x]
  BY <1>2, <1>3, <1>5 DEF FiledInv, CatTypes
<1>7. \A v \in Clerks : desk[v].at = "insert" /\ v # w => desk[v].r # q.r
  BY <1>2 DEF FiledInv, HandsSound, Sound, SoundEntry
<1>8. \A v \in Clerks : q.r \notin desk[v].moved
  BY DEF Store, Locked
<1>. HIDE DEF q, row
<1>. QED
  BY <1>1, <1>2, <1>3, <1>5, <1>6, <1>7, <1>8, FilingKeeps DEF q

-----------------------------------------------------------------------------
(* The category goes: what holds it is bad from now on, and its entries    *)
(* are moved by this request, or astray.                                   *)
LEMMA DropKeeps ==
  ASSUME FiledInv, NEW w \in Clerks, Drop(w)
  PROVE  FiledInv'
<1>. USE DEF FiledInv
<1>. DEFINE q == desk[w]
            c == desk[w].c
            hand(v) == IF v = w THEN [desk[v] EXCEPT !.at = "commit"]
                       ELSE IF c \in {desk[v].c, desk[v].into} THEN [desk[v] EXCEPT !.bad = TRUE]
                       ELSE desk[v]
<1>1. q \in Service /\ q.at = "delete" /\ Sound(q, category, record, astray)
  BY DEF Drop, CatTypes, HandsSound
<1>2. c \in Categories /\ category[c].state # "none"
  BY <1>1 DEF Sound, SoundRemoval
<1>3. /\ category' = [category EXCEPT ![c].state = "deleted"]
      /\ desk' = [v \in Clerks |-> hand(v)]
      /\ record' = record /\ rule' = rule /\ astray' = astray
  BY DEF Drop
<1>4. /\ category' \in [Categories -> CategoryRow]
      /\ \A x \in Categories \ {c} : category'[x] = category[x]
      /\ category'[c].state = "deleted" /\ category'[c].kind = category[c].kind
  BY <1>2, <1>3 DEF CatTypes, CategoryRow
<1>5. ASSUME NEW v \in Clerks
      PROVE  /\ hand(v) \in Service
             /\ hand(v).r = desk[v].r /\ hand(v).kind = desk[v].kind /\ hand(v).c = desk[v].c
             /\ hand(v).into = desk[v].into /\ hand(v).moves = desk[v].moves
             /\ hand(v).moved = desk[v].moved /\ hand(v).adjusts = desk[v].adjusts
             /\ hand(v).at = IF v = w THEN "commit" ELSE desk[v].at
             /\ desk[v].bad => hand(v).bad
             /\ v # w /\ c \in {desk[v].c, desk[v].into} => hand(v).bad
  <2>1. desk[v] \in Service
    BY DEF CatTypes
  <2>. QED
    BY <2>1 DEF Service
<1>6. CatTypes'
  BY <1>3, <1>4, <1>5 DEF CatTypes
<1>7. \A x \in Optional \ {c} : \A k : FitsIn(category, x, k) => FitsIn(category', x, k)
  BY <1>4 DEF FitsIn
<1>8. \A x \in Categories : /\ category[x].state # "none" => category'[x].state # "none"
                            /\ category'[x].kind = category[x].kind
  BY <1>4
<1>9. ASSUME NEW v \in Clerks
      PROVE  Sound(hand(v), category', record, astray)
  <2>1. desk[v] \in Service /\ Sound(desk[v], category, record, astray)
    BY DEF CatTypes, HandsSound
  <2>2. desk[v].c \in Optional /\ desk[v].into \in Optional
    BY <2>1 DEF Service
  <2>. HIDE DEF hand
  <2>3. SoundEntry(hand(v), category', record)
    BY <1>1, <1>5, <1>7, <2>1, <2>2 DEF Sound, SoundEntry
  <2>4. SoundRemoval(hand(v), category')
    <3>1. ASSUME desk[v].at \in {"move", "delete", "commit"}
          PROVE  /\ desk[v].c \in Categories \ {Adjusting} /\ category[desk[v].c].state # "none"
                 /\ desk[v].bad \/ FitsIn(category, desk[v].into, category[desk[v].c].kind)
                 /\ desk[v].c = desk[v].into => desk[v].bad
                 /\ desk[v].moves => desk[v].into # NoCategory
      BY <3>1, <2>1 DEF Sound, SoundRemoval
    <3>2. hand(v).at \in {"move", "delete", "commit"} => desk[v].at \in {"move", "delete", "commit"}
      BY <1>1, <1>5
    <3>3. ASSUME hand(v).at \in {"move", "delete", "commit"}
          PROVE  hand(v).bad \/ FitsIn(category', desk[v].into, category'[desk[v].c].kind)
      <4>1. CASE desk[v].into = c
        BY <1>5, <3>1, <3>2, <3>3, <4>1
      <4>2. CASE desk[v].into # c
        BY <1>5, <1>7, <1>8, <2>2, <3>1, <3>2, <3>3, <4>2
      <4>. QED
        BY <4>1, <4>2
    <3>. QED
      BY <1>5, <1>8, <3>1, <3>2, <3>3 DEF SoundRemoval
  <2>5. SoundMoved(hand(v), category', record, astray)
    <3>1. desk[v].moved # {} => desk[v].c \in Categories
      BY <2>1 DEF Sound, SoundMoved, SoundRemoval
    <3>. QED
      BY <1>1, <1>5, <1>8, <2>1, <3>1 DEF Sound, SoundMoved
  <2>6. SoundSealed(hand(v), record, astray)
    BY <1>5, <2>1 DEF Sound, SoundSealed, Sealed
  <2>. QED
    BY <2>3, <2>4, <2>5, <2>6 DEF Sound
<1>10. HandsSound'
  BY <1>3, <1>9 DEF HandsSound
<1>11. HandsApart'
  <2>1. ASSUME NEW v \in Clerks, NEW u \in Clerks, v # u
        PROVE  Apart(hand(v), hand(u))
    <3>1. Apart(desk[v], desk[u])
      BY <2>1 DEF HandsApart
    <3>. HIDE DEF hand
    <3>. QED
      BY <1>5, <3>1 DEF Apart
  <2>. QED
    BY <1>3, <2>1 DEF HandsApart
<1>12. ASSUME NEW x \in Records, record[x].state = "live"
       PROVE  \/ FitsIn(category', record[x].category, record[x].kind)
              \/ Exempt(record[x].category, record[x].adjusts)
              \/ x \in astray
              \/ \E v \in Clerks : hand(v).at = "commit" /\ x \in hand(v).moved
  <2>1. record[x].category \in Optional
    BY DEF CatTypes, RecordRow
  <2>. HIDE DEF hand
  <2>2. CASE record[x].category = c
    <3>1. x \in astray \union q.moved
      BY <1>1, <1>12, <2>2 DEF Sound, SoundSealed, Sealed
    <3>. QED
      BY <1>5, <3>1
  <2>3. CASE record[x].category # c
    <3>1. Fits(record[x].category, record[x].kind)
            => FitsIn(category', record[x].category, record[x].kind)
      BY <1>7, <2>1, <2>3, FitsHere
    <3>2. ASSUME NEW v \in Clerks, desk[v].at = "commit", x \in desk[v].moved
          PROVE  hand(v).at = "commit" /\ x \in hand(v).moved
      BY <1>5, <3>2
    <3>. QED
      BY <1>12, <3>1, <3>2 DEF EntriesFiled
  <2>. QED
    BY <2>2, <2>3
<1>13. EntriesFiled'
  <2>. HIDE DEF hand
  <2>. QED
    BY <1>3, <1>12, CategoriesAssumption DEF EntriesFiled, Exempt, Fits, Live, FitsIn
<1>. QED
  BY <1>6, <1>10, <1>11, <1>13

(* A request leaves, and what the others rely on stays.                    *)
LEMMA LeavingKeepsHands ==
  ASSUME FiledInv, NEW w \in Clerks, desk' = [desk EXCEPT ![w] = Free], category' = category,
         \A v \in Clerks \ {w} : Sound(desk[v], category, record', astray')
  PROVE  HandsSound' /\ HandsApart'
<1>. USE DEF FiledInv
<1>1. \A v \in Clerks : desk'[v] = IF v = w THEN Free ELSE desk[v]
  BY DEF CatTypes
<1>2. ASSUME NEW v \in Clerks
      PROVE  Sound(desk'[v], category', record', astray')
  <2>1. CASE v = w
    <3>1. Sound(Free, category', record', astray')
      BY FreeIsSound
    <3>2. desk'[v] = Free
      BY <1>1, <2>1
    <3>. QED
      BY <3>1, <3>2
  <2>2. CASE v # w
    BY <1>1, <2>2
  <2>. QED
    BY <2>1, <2>2
<1>3. HandsSound'
  BY <1>2 DEF HandsSound
<1>4. ASSUME NEW v \in Clerks, NEW u \in Clerks, v # u
      PROVE  Apart(desk'[v], desk'[u])
  BY <1>1, <1>4, FreeIsSound DEF HandsApart
<1>. QED
  BY <1>3, <1>4 DEF HandsApart

(* The moved entries arrive: the target fits them as the category did, or  *)
(* the request is bad.                                                     *)
LEMMA CommitKeeps ==
  ASSUME FiledInv, NEW w \in Clerks, Commit(w)
  PROVE  FiledInv'
<1>. USE DEF FiledInv
<1>. DEFINE q == desk[w]
<1>1. q \in Service /\ q.at = "commit" /\ Sound(q, category, record, astray)
  BY DEF Commit, CatTypes, HandsSound
<1>2. /\ record' = [r \in Records |-> IF r \in q.moved THEN [record[r] EXCEPT !.category = q.into]
                                      ELSE record[r]]
      /\ desk' = [desk EXCEPT ![w] = Free] /\ category' = category /\ rule' = rule
      /\ astray' = IF q.bad \/ Doomed(q.into) THEN astray \union q.moved
                   ELSE astray \ {r \in q.moved : record[r].kind = category[q.c].kind}
  BY DEF Commit, Goes, Strays
<1>3. ASSUME NEW r \in Records
      PROVE  /\ record'[r] \in RecordRow
             /\ record'[r].state = record[r].state /\ record'[r].kind = record[r].kind
             /\ record'[r].adjusts = record[r].adjusts
             /\ record'[r].category = IF r \in q.moved THEN q.into ELSE record[r].category
             /\ r \notin q.moved => record'[r] = record[r] /\ (r \in astray' <=> r \in astray)
  <2>1. record[r] \in RecordRow
    BY DEF CatTypes
  <2>2. q.into \in Optional
    BY <1>1 DEF Service
  <2>. QED
    BY <1>2, <2>1, <2>2 DEF RecordRow
<1>4. CatTypes'
  <2>1. record' \in [Records -> RecordRow]
    BY <1>2, <1>3
  <2>2. astray' \in SUBSET Records
    BY <1>1, <1>2 DEF CatTypes, Service
  <2>. QED
    BY <1>2, <2>1, <2>2, FreeIsSound DEF CatTypes
<1>5. ASSUME NEW v \in Clerks \ {w}
      PROVE  Sound(desk[v], category, record', astray')
  <2>1. desk[v] \in Service /\ Sound(desk[v], category, record, astray)
    BY DEF CatTypes, HandsSound
  <2>2. SoundEntry(desk[v], category, record')
    BY <1>3, <2>1 DEF Sound, SoundEntry
  <2>3. SoundMoved(desk[v], category, record', astray')
    <3>1. desk[v].moved \subseteq Records \ q.moved
      BY <2>1 DEF Service, HandsApart, Apart
    <3>. QED
      BY <1>3, <2>1, <3>1 DEF Sound, SoundMoved
  <2>4. Sealed(desk[v]) /\ desk[v].c = q.into => Doomed(q.into)
    BY <2>1, CategoriesAssumption DEF Sealed, Doomed, Sound, SoundRemoval
  <2>5. Doomed(q.into) => q.moved \subseteq astray'
    BY <1>2
  <2>6. SoundSealed(desk[v], record', astray')
    BY <1>3, <2>1, <2>4, <2>5 DEF Sound, SoundSealed
  <2>. QED
    BY <2>1, <2>2, <2>3, <2>6 DEF Sound
<1>6. HandsSound' /\ HandsApart'
  BY <1>2, <1>5, LeavingKeepsHands
<1>7. ASSUME NEW x \in Records, record'[x].state = "live"
      PROVE  \/ FitsIn(category, record'[x].category, record'[x].kind)
             \/ Exempt(record'[x].category, record'[x].adjusts)
             \/ x \in astray'
             \/ \E v \in Clerks : desk'[v].at = "commit" /\ x \in desk'[v].moved
  <2>1. CASE x \in q.moved
    <3>1. record[x].kind = category[q.c].kind \/ x \in astray
      BY <1>1, <1>3, <1>7, <2>1 DEF Sound, SoundMoved
    <3>2. q.bad \/ FitsIn(category, q.into, category[q.c].kind)
      BY <1>1 DEF Sound, SoundRemoval
    <3>. QED
      BY <1>2, <1>3, <2>1, <3>1, <3>2
  <2>2. CASE x \notin q.moved
    <3>1. Fits(record[x].category, record[x].kind)
            => FitsIn(category, record[x].category, record[x].kind)
      BY FitsHere DEF CatTypes, RecordRow
    <3>2. ASSUME NEW v \in Clerks, desk[v].at = "commit", x \in desk[v].moved
          PROVE  desk'[v].at = "commit" /\ x \in desk'[v].moved
      BY <1>2, <2>2, <3>2 DEF CatTypes
    <3>. QED
      BY <1>3, <1>7, <2>2, <3>1, <3>2 DEF EntriesFiled
  <2>. QED
    BY <2>1, <2>2
<1>8. EntriesFiled'
  BY <1>2, <1>7, CategoriesAssumption DEF EntriesFiled, Exempt, Fits, Live, FitsIn
<1>. QED
  BY <1>4, <1>6, <1>8

(* What a broken request had dropped and not moved is astray.              *)
LEMMA BreakKeeps ==
  ASSUME FiledInv, NEW w \in Clerks, Break(w)
  PROVE  FiledInv'
<1>. USE DEF FiledInv
<1>. DEFINE q == desk[w]
<1>1. /\ desk' = [desk EXCEPT ![w] = Free]
      /\ category' = category /\ record' = record /\ rule' = rule
      /\ astray' = IF q.at = "commit" THEN astray \union q.moved ELSE astray
  BY DEF Break, filing
<1>2. astray \subseteq astray' /\ astray' \in SUBSET Records
  BY <1>1 DEF CatTypes, Service
<1>3. CatTypes'
  BY <1>1, <1>2, FreeIsSound DEF CatTypes
<1>4. ASSUME NEW v \in Clerks \ {w}
      PROVE  Sound(desk[v], category, record', astray')
  <2>1. Sound(desk[v], category, record, astray)
    BY DEF HandsSound
  <2>. QED
    BY <1>1, <1>2, <2>1 DEF Sound, SoundMoved, SoundSealed
<1>5. HandsSound' /\ HandsApart'
  BY <1>1, <1>4, LeavingKeepsHands
<1>6. ASSUME NEW x \in Records, NEW v \in Clerks, desk[v].at = "commit", x \in desk[v].moved
      PROVE  x \in astray' \/ (desk'[v].at = "commit" /\ x \in desk'[v].moved)
  BY <1>1, <1>6 DEF CatTypes
<1>7. EntriesFiled'
  BY <1>1, <1>2, <1>6 DEF EntriesFiled, Exempt, Fits, Live
<1>. QED
  BY <1>3, <1>5, <1>7

-----------------------------------------------------------------------------
(* Nothing is filed at first. *)
LEMMA FiledAtFirst == CatInit => FiledInv
<1>. SUFFICES ASSUME CatInit PROVE FiledInv
  OBVIOUS
<1>1. CatTypes
  BY FreeIsSound, CategoriesAssumption DEF CatInit, CatTypes, CategoryRow, RecordRow, Optional
<1>2. HandsSound /\ HandsApart
  BY FreeIsSound DEF CatInit, HandsSound, HandsApart
<1>3. EntriesFiled
  BY DEF CatInit, EntriesFiled
<1>. QED
  BY <1>1, <1>2, <1>3 DEF FiledInv

(* One step per action. *)
LEMMA FiledKept == FiledInv /\ [CatNext]_catVars => FiledInv'
<1>. SUFFICES ASSUME FiledInv, [CatNext]_catVars PROVE FiledInv'
  OBVIOUS
<1>1. CASE UNCHANGED catVars
  BY <1>1 DEF catVars, filing, FiledInv, CatTypes, HandsSound, HandsApart, EntriesFiled, Exempt,
     Fits, Live
<1>2. CASE \E c \in Categories, kind \in Kinds : CreateCategory(c, kind)
  BY <1>2, CreateCategoryKeeps
<1>3. CASE \E c \in Optional : SetRule(c)
  BY <1>3, SetRuleKeeps
<1>4. CASE \E r \in Records : DeleteRecord(r)
  BY <1>4, DeleteRecordKeeps
<1>5. CASE \E w \in Clerks, c \in Optional, r \in Records, kind \in Kinds : CheckNew(w, r, kind, c)
  BY <1>5, CheckNewKeeps
<1>6. CASE \E w \in Clerks, c \in Optional, r \in Records : CheckChange(w, r, c)
  BY <1>6, CheckChangeKeeps
<1>7. CASE \E w \in Clerks, c \in Optional, old \in Categories : CheckRemoval(w, old, c)
  BY <1>7, CheckRemovalKeeps
<1>8. CASE \E w \in Clerks : Insert(w) \/ Store(w) \/ Move(w) \/ Drop(w) \/ Commit(w) \/ Break(w)
  BY <1>8, InsertKeeps, StoreKeeps, MoveKeeps, DropKeeps, CommitKeeps, BreakKeeps
<1>9. CASE \E w \in Clerks, r \in Records, kind \in Kinds : CheckAdjustment(w, r, kind)
  BY <1>9, CheckAdjustmentKeeps
<1>. QED
  BY <1>1, <1>2, <1>3, <1>4, <1>5, <1>6, <1>7, <1>8, <1>9 DEF CatNext, Optional

(* RG-C4 with overlapping requests, for every instance: no entry is left   *)
(* in a deleted category, and none but an adjustment in one of another     *)
(* kind, but for the causes that are named.                                *)
THEOREM NoEntryLost == CatSpec => []EntriesFiled
<1>1. FiledInv => EntriesFiled
  BY DEF FiledInv
<1>. QED
  BY FiledAtFirst, FiledKept, <1>1, PTL DEF CatSpec

-----------------------------------------------------------------------------
(* The forecast, for any horizons, any number of requests at once, and any *)
(* number of changes.                                                      *)
(*                                                                         *)
(* ForecastFresh is not inductive: a forecast becomes kept at the end of   *)
(* its computation.  Heard says of a computation under way what the        *)
(* property says of its result, for the reads that were made: what was     *)
(* announced was committed before (AnnouncedIsCommitted), so a read knows  *)
(* it, and what is announced later is remembered in unheard.               *)
Forecast == [at : {"none", "rest", "keep", "kept"}, horizon : Horizons \union {0},
             worth : SUBSET Nat, rest : SUBSET Nat, unheard : SUBSET Nat]

ForecastTypes ==
  /\ committed \in Nat
  /\ kept \in [Horizons -> Forecast]
  /\ view \in [Readers -> Forecast]

AnnouncedIsCommitted == announced \subseteq Changes

Heard ==
  \A v \in Readers : view[v] # Nothing =>
    /\ view[v].at \in {"rest", "keep"} /\ view[v].horizon \in Horizons
    /\ announced \subseteq view[v].worth \union view[v].unheard
    /\ view[v].at = "keep" => announced \subseteq view[v].rest \union view[v].unheard

FreshInv == ForecastTypes /\ AnnouncedIsCommitted /\ Heard /\ ForecastFresh

-----------------------------------------------------------------------------
(* Nothing is a forecast, of no horizon. *)
LEMMA NothingIsForecast == Nothing \in Forecast /\ Nothing.at = "none"
  BY DEF Nothing, Forecast

(* What was committed is a set of numbers. *)
LEMMA ChangesAreNumbers == ForecastTypes => Changes \in SUBSET Nat
  BY DEF ForecastTypes, Changes

(* Nothing is announced and nothing is kept at first. *)
LEMMA FreshAtFirst == FcInit => FreshInv
<1>. SUFFICES ASSUME FcInit PROVE FreshInv
  OBVIOUS
<1>1. ForecastTypes
  BY NothingIsForecast DEF FcInit, ForecastTypes
<1>2. AnnouncedIsCommitted /\ Heard /\ ForecastFresh
  BY DEF FcInit, AnnouncedIsCommitted, Heard, ForecastFresh
<1>. QED
  BY <1>1, <1>2 DEF FreshInv

(* No step breaks it. *)
LEMMA FreshKept == FreshInv /\ [FcNext]_fcVars => FreshInv'
<1>. SUFFICES ASSUME FreshInv, [FcNext]_fcVars PROVE FreshInv'
  OBVIOUS
<1>. USE DEF FreshInv
<1>1. CASE Change
  <2>1. ForecastTypes'
    BY <1>1 DEF Change, ForecastTypes
  <2>2. Changes \subseteq Changes'
    BY <1>1 DEF Change, Changes, ForecastTypes
  <2>3. AnnouncedIsCommitted'
    BY <1>1, <2>2 DEF Change, AnnouncedIsCommitted
  <2>4. Heard' /\ ForecastFresh'
    BY <1>1 DEF Change, Heard, ForecastFresh
  <2>. QED
    BY <2>1, <2>3, <2>4
<1>2. ASSUME NEW n \in Changes, Announce(n)
      PROVE  FreshInv'
  <2>. DEFINE told(v) == [view[v] EXCEPT !.unheard = @ \union {n}]
  <2>1. \A v \in Readers : view[v] # Nothing => told(v) \in Forecast
    BY DEF ForecastTypes, Forecast, Changes
  <2>2. ForecastTypes'
    BY <1>2, <2>1, NothingIsForecast DEF Announce, Dropped, ForecastTypes
  <2>3. AnnouncedIsCommitted'
    BY <1>2 DEF Announce, AnnouncedIsCommitted, Changes
  <2>4. ASSUME NEW v \in Readers, view'[v] # Nothing
        PROVE  /\ view'[v].at \in {"rest", "keep"} /\ view'[v].horizon \in Horizons
               /\ announced' \subseteq view'[v].worth \union view'[v].unheard
               /\ view'[v].at = "keep" => announced' \subseteq view'[v].rest \union view'[v].unheard
    <3>1. view[v] # Nothing /\ view'[v] = told(v) /\ announced' = announced \union {n}
      BY <1>2, <2>4 DEF Announce
    <3>2. /\ told(v).at = view[v].at /\ told(v).horizon = view[v].horizon
          /\ told(v).worth = view[v].worth /\ told(v).rest = view[v].rest
          /\ told(v).unheard = view[v].unheard \union {n}
      BY DEF ForecastTypes, Forecast
    <3>. QED
      BY <3>1, <3>2 DEF Heard
  <2>5. Heard'
    BY <2>4 DEF Heard
  <2>6. ForecastFresh'
    BY <1>2 DEF Announce, Dropped, ForecastFresh
  <2>. QED
    BY <2>2, <2>3, <2>5, <2>6
<1>3. ASSUME NEW h \in Horizons, Expire(h)
      PROVE  FreshInv'
  <2>1. ForecastTypes'
    BY <1>3, NothingIsForecast DEF Expire, ForecastTypes
  <2>2. AnnouncedIsCommitted' /\ Heard'
    BY <1>3 DEF Expire, AnnouncedIsCommitted, Changes, Heard
  <2>3. ForecastFresh'
    BY <1>3 DEF Expire, ForecastTypes, ForecastFresh
  <2>. QED
    BY <2>1, <2>2, <2>3
<1>4. ASSUME NEW h \in Horizons, NEW v \in Readers, ReadWorth(v, h)
      PROVE  FreshInv'
  <2>. DEFINE begun == [Nothing EXCEPT !.at = "rest", !.horizon = h, !.worth = Changes]
  <2>1. begun \in Forecast /\ begun.at = "rest" /\ begun.horizon = h /\ begun.worth = Changes
    BY ChangesAreNumbers DEF Nothing, Forecast
  <2>2. ForecastTypes'
    BY <1>4, <2>1 DEF ReadWorth, ForecastTypes
  <2>3. AnnouncedIsCommitted' /\ ForecastFresh'
    BY <1>4 DEF ReadWorth, AnnouncedIsCommitted, Changes, ForecastFresh
  <2>4. Heard'
    BY <1>4, <2>1 DEF ReadWorth, ForecastTypes, Heard, AnnouncedIsCommitted
  <2>. QED
    BY <2>2, <2>3, <2>4
<1>5. ASSUME NEW v \in Readers, ReadRest(v)
      PROVE  FreshInv'
  <2>. DEFINE read == [view[v] EXCEPT !.at = "keep", !.rest = Changes]
  <2>1. view' = [view EXCEPT ![v] = read]
    BY <1>5 DEF ReadRest, ForecastTypes
  <2>0. view[v] \in Forecast
    BY DEF ForecastTypes
  <2>2. /\ read \in Forecast /\ read.at = "keep" /\ read.horizon = view[v].horizon
        /\ read.worth = view[v].worth /\ read.rest = Changes /\ read.unheard = view[v].unheard
    BY <2>0, ChangesAreNumbers DEF Forecast
  <2>3. ForecastTypes'
    BY <1>5, <2>1, <2>2 DEF ReadRest, ForecastTypes
  <2>4. AnnouncedIsCommitted' /\ ForecastFresh'
    BY <1>5 DEF ReadRest, AnnouncedIsCommitted, Changes, ForecastFresh
  <2>5. view[v] # Nothing
    BY <1>5, NothingIsForecast DEF ReadRest
  <2>6. Heard'
    BY <1>5, <2>1, <2>2, <2>5 DEF ReadRest, ForecastTypes, Heard, AnnouncedIsCommitted
  <2>. QED
    BY <2>3, <2>4, <2>6
<1>6. ASSUME NEW v \in Readers, Keep(v)
      PROVE  FreshInv'
  <2>. DEFINE result == [view[v] EXCEPT !.at = "kept"]
              h == view[v].horizon
  <2>1. view[v] # Nothing
    BY <1>6, NothingIsForecast DEF Keep
  <2>2. /\ h \in Horizons
        /\ announced \subseteq (view[v].worth \intersect view[v].rest) \union view[v].unheard
    BY <1>6, <2>1 DEF Keep, Heard
  <2>3. /\ result \in Forecast /\ result.worth = view[v].worth
        /\ result.rest = view[v].rest /\ result.unheard = view[v].unheard
    BY DEF ForecastTypes, Forecast
  <2>4. kept' = [kept EXCEPT ![h] = result] /\ view' = [view EXCEPT ![v] = Nothing]
    BY <1>6 DEF Keep
  <2>5. ForecastTypes'
    BY <1>6, <2>2, <2>3, <2>4, NothingIsForecast DEF Keep, ForecastTypes
  <2>6. AnnouncedIsCommitted' /\ Heard'
    BY <1>6, <2>4 DEF Keep, AnnouncedIsCommitted, Changes, Heard, ForecastTypes
  <2>7. ForecastFresh'
    BY <1>6, <2>2, <2>3, <2>4 DEF Keep, ForecastTypes, ForecastFresh
  <2>. QED
    BY <2>5, <2>6, <2>7
<1>7. ASSUME NEW v \in Readers, GiveUp(v)
      PROVE  FreshInv'
  <2>1. ForecastTypes'
    BY <1>7, NothingIsForecast DEF GiveUp, ForecastTypes
  <2>2. AnnouncedIsCommitted' /\ ForecastFresh' /\ Heard'
    BY <1>7 DEF GiveUp, AnnouncedIsCommitted, Changes, ForecastFresh, ForecastTypes, Heard
  <2>. QED
    BY <2>1, <2>2
<1>8. CASE UNCHANGED fcVars
  BY <1>8 DEF fcVars, ForecastTypes, AnnouncedIsCommitted, Changes, Heard, ForecastFresh
<1>. QED
  BY <1>1, <1>2, <1>3, <1>4, <1>5, <1>6, <1>7, <1>8 DEF FcNext

-----------------------------------------------------------------------------
(* RG-F1, for every instance: a kept forecast knows what was announced,    *)
(* but what was announced while it was computed.                           *)
THEOREM KeptIsFresh == FcSpec => []ForecastFresh
<1>1. FreshInv => ForecastFresh
  BY DEF FreshInv
<1>. QED
  BY FreshAtFirst, FreshKept, <1>1, PTL DEF FcSpec

-----------------------------------------------------------------------------
(* What the browser kept.  An answer on the shelf is for somebody who is   *)
(* there or left without a purge, and its key is the present one or        *)
(* ruined; so is what a visit is about to put there (InHand).              *)
Anyone == People \union {Nobody, CHOOSE u \in People : TRUE}
Answer == [of : Anyone, key : Nat]
Visit == [at : {"none", "fetch", "key", "make", "keep", "read", "done"},
          path : Paths \union {CHOOSE p \in Paths : TRUE}, by : Anyone,
          doomed : BOOLEAN, kept : BOOLEAN, answer : Answer, key : Nat]

OffTypes == /\ person \in Anyone /\ key \in Nat
            /\ shelf \in [Paths -> Answer] /\ visit \in [Visits -> Visit]

Around(u) == u # Nobody /\ u \in {person} \union gone

Known(k) == k # NoKey /\ k \in {key} \union ruined

OnShelf(p) == shelf[p] # NoAnswer => Around(shelf[p].of) /\ Known(shelf[p].key)

InHand(q) ==
  /\ q.at \in {"fetch", "key", "make", "keep"} =>
       q.path \in Paths /\ q.by # Nobody /\ (~ q.doomed => Around(q.by))
  /\ q.at \in {"fetch", "keep"} => ~ q.kept
  /\ q.at = "keep" => Known(q.key)
  /\ q.at \in {"key", "make", "keep"} =>
       IF q.kept THEN Known(q.answer.key) ELSE q.answer.of = q.by
  /\ q.at = "read" => q.key = q.answer.key \/ q.answer.key \in ruined

OffInv == OffTypes /\ (\A p \in Paths : OnShelf(p)) /\ \A v \in Visits : InHand(visit[v])

LEMMA NothingInHand == NoVisit \in Visit /\ NoAnswer \in Answer /\ NoVisit.at = "none"
  BY DEF NoVisit, NoAnswer, Visit, Answer, Anyone, NoKey

LEMMA VisitsAreNumbers == \A v \in Visits : v \in Nat /\ v # NoKey
  BY OfflineAssumption DEF Visits, NoKey

LEMMA InitOffline == OffInit => OffInv
  BY NothingInHand DEF OffInit, OffInv, OffTypes, OnShelf, InHand, Anyone, NoKey

(* Whoever was around and whatever key was known is so still. *)
LEMMA StillKnown ==
  ASSUME OffInv, UNCHANGED shelf, OffTypes',
         \A u \in Anyone : Around(u) => Around(u)', \A k \in Nat : Known(k) => Known(k)',
         ruined \subseteq ruined',
         NEW v \in Visits, NEW q \in Visit, visit' = [visit EXCEPT ![v] = q], InHand(q)'
  PROVE  OffInv'
<1>1. ASSUME NEW p \in Paths PROVE OnShelf(p)'
  BY DEF OffInv, OffTypes, OnShelf, Answer
<1>2. ASSUME NEW u \in Visits PROVE InHand(visit[u])'
  <2>1. CASE u = v
    BY <2>1 DEF OffInv, OffTypes
  <2>2. CASE u # v
    BY <2>2 DEF OffInv, OffTypes, InHand, Visit, Answer
  <2>. QED
    BY <2>1, <2>2
<1>. QED
  BY <1>1, <1>2 DEF OffInv

LEMMA KnownMeanwhile ==
  ASSUME OffInv, UNCHANGED <<shelf, visit>>, OffTypes',
         \A u \in Anyone : Around(u) => Around(u)', \A k \in Nat : Known(k) => Known(k)',
         ruined \subseteq ruined'
  PROVE  OffInv'
<1>1. ASSUME NEW p \in Paths PROVE OnShelf(p)'
  BY DEF OffInv, OffTypes, OnShelf, Answer
<1>2. ASSUME NEW u \in Visits PROVE InHand(visit[u])'
  BY DEF OffInv, OffTypes, InHand, Visit, Answer
<1>. QED
  BY <1>1, <1>2 DEF OffInv

(* A visit comes to its next step; nobody comes or leaves. *)
LEMMA VisitSteps ==
  ASSUME OffInv, UNCHANGED <<person, shelf, key, gone, ruined>>,
         NEW v \in Visits, NEW q \in Visit, Steps(v, q), InHand(q)
  PROVE  OffInv'
<1>1. visit' = [visit EXCEPT ![v] = q]
  BY DEF Steps
<1>2. OffTypes' /\ InHand(q)'
  BY <1>1 DEF OffInv, OffTypes, InHand, Around, Known
<1>. QED
  BY <1>1, <1>2, StillKnown DEF Around, Known

LEMMA VisitEnds ==
  ASSUME OffInv, UNCHANGED <<person, shelf, key, gone, ruined>>, NEW v \in Visits, Ends(v)
  PROVE  OffInv'
<1>. DEFINE q == [NoVisit EXCEPT !.at = "done"]
<1>1. q \in Visit /\ q.at = "done"
  BY NothingInHand DEF Visit
<1>2. InHand(q)
  BY <1>1 DEF InHand
<1>. QED
  BY <1>1, <1>2, VisitSteps DEF Ends

LEMMA OfflineKept == OffInv /\ [OffNext]_offVars => OffInv'
<1>. SUFFICES ASSUME OffInv, [OffNext]_offVars PROVE OffInv'
  OBVIOUS
<1>0. OffTypes /\ \A v \in Visits : visit[v] \in Visit /\ InHand(visit[v])
  BY DEF OffInv, OffTypes
<1>1. ASSUME NEW v \in Visits, NEW p \in Paths, Fetch(v, p) PROVE OffInv'
  <2>. DEFINE q == [NoVisit EXCEPT !.at = "fetch", !.path = p, !.by = person]
  <2>1. q \in Visit /\ q.at = "fetch" /\ q.path = p /\ q.by = person /\ q.kept = FALSE
    BY <1>0, NothingInHand DEF Visit, OffTypes, NoVisit
  <2>2. InHand(q)
    BY <1>1, <2>1 DEF InHand, Fetch, Around, NoVisit
  <2>. QED
    BY <1>1, <2>1, <2>2, VisitSteps DEF Fetch
<1>2. ASSUME NEW v \in Visits, Answered(v) PROVE OffInv'
  <2>. DEFINE q == [visit[v] EXCEPT !.at = "key", !.answer.of = visit[v].by]
  <2>1. visit[v].at = "fetch"
    BY <1>2 DEF Answered
  <2>2. q \in Visit /\ q.at = "key" /\ q.answer.of = q.by
        /\ q.path = visit[v].path /\ q.by = visit[v].by /\ q.doomed = visit[v].doomed
        /\ q.kept = visit[v].kept /\ q.answer.key = visit[v].answer.key
    BY <1>0 DEF Visit, Answer
  <2>3. InHand(q)
    BY <1>0, <2>1, <2>2 DEF InHand
  <2>. QED
    BY <1>2, <2>2, <2>3, VisitSteps, VisitEnds DEF Answered
<1>3. ASSUME NEW v \in Visits, FallsBack(v) PROVE OffInv'
  <2>. DEFINE q == [visit[v] EXCEPT !.at = "key", !.kept = TRUE, !.answer = Seen(v)]
              seen == shelf[visit[v].path]
  <2>1. CASE Ends(v)
    BY <1>3, <2>1, VisitEnds DEF FallsBack
  <2>2. CASE Seen(v) # NoAnswer /\ Steps(v, q)
    <3>1. visit[v].at \in {"fetch", "keep"} /\ visit[v].path \in Paths /\ Seen(v) = seen
      BY <1>0, <1>3, <2>2 DEF FallsBack, InHand, Seen
    <3>2. seen \in Answer /\ Known(seen.key)
      BY <1>0, <2>2, <3>1 DEF OffInv, OffTypes, OnShelf
    <3>3. q \in Visit /\ q.at = "key" /\ q.kept /\ q.answer = seen
          /\ q.path = visit[v].path /\ q.by = visit[v].by /\ q.doomed = visit[v].doomed
      BY <1>0, <3>1, <3>2 DEF Visit
    <3>4. InHand(q)
      BY <1>0, <3>1, <3>2, <3>3 DEF InHand
    <3>. QED
      BY <1>3, <2>2, <3>3, <3>4, VisitSteps DEF FallsBack
  <2>. QED
    BY <1>3, <2>1, <2>2 DEF FallsBack
<1>4. ASSUME NEW v \in Visits, FindKey(v) PROVE OffInv'
  <2>. DEFINE at == IF key = NoKey THEN "make" ELSE After(v)
              q == [visit[v] EXCEPT !.at = at, !.key = key]
  <2>1. visit[v].at = "key" /\ at = IF key = NoKey THEN "make"
                                    ELSE IF visit[v].kept THEN "read" ELSE "keep"
    BY <1>4 DEF FindKey, After
  <2>2. at \in {"make", "read", "keep"}
    BY <2>1
  <2>. HIDE DEF at
  <2>3. q \in Visit /\ q.at = at /\ q.key = key
        /\ q.path = visit[v].path /\ q.by = visit[v].by /\ q.doomed = visit[v].doomed
        /\ q.kept = visit[v].kept /\ q.answer = visit[v].answer
    BY <1>0, <2>2 DEF Visit, OffTypes
  <2>4. InHand(q)
    BY <1>0, <2>1, <2>3 DEF InHand, Known, Visit
  <2>. QED
    BY <1>4, <2>3, <2>4, VisitSteps DEF FindKey, at
<1>5. ASSUME NEW v \in Visits, MakeKey(v) PROVE OffInv'
  <2>. DEFINE made == [visit[v] EXCEPT !.at = After(v), !.key = v]
  <2>1. visit[v].at = "make" /\ After(v) = IF visit[v].kept THEN "read" ELSE "keep"
    BY <1>5 DEF MakeKey, After
  <2>2. /\ key' = v /\ ruined' = ruined \union ({key} \ {NoKey}) /\ visit' = [visit EXCEPT ![v] = made]
        /\ UNCHANGED <<person, shelf, gone>> /\ v \in Nat /\ v # NoKey
    BY <1>5, VisitsAreNumbers DEF MakeKey, Steps
  <2>0. made \in Visit /\ made.at = After(v) /\ made.key = v
        /\ made.path = visit[v].path /\ made.by = visit[v].by /\ made.doomed = visit[v].doomed
        /\ made.kept = visit[v].kept /\ made.answer = visit[v].answer
    BY <1>0, <2>1, <2>2 DEF Visit
  <2>3. PICK q \in Visit :
          /\ visit' = [visit EXCEPT ![v] = q] /\ q.at = After(v) /\ q.key = v
          /\ q.path = visit[v].path /\ q.by = visit[v].by /\ q.doomed = visit[v].doomed
          /\ q.kept = visit[v].kept /\ q.answer = visit[v].answer
    BY <2>0, <2>2
  <2>4. \A k : Known(k) => k \in ruined'
    BY <2>2 DEF Known
  <2>5. InHand(q)'
    <3>1. After(v) = "read" => q.answer.key \in ruined'
      BY <1>0, <2>1, <2>3, <2>4 DEF InHand
    <3>2. Known(v)'
      BY <2>2 DEF Known
    <3>3. (q.at = "read" \/ (q.at = "keep" /\ ~ q.kept))
      BY <2>1, <2>3
    <3>4. q.path \in Paths /\ q.by # Nobody /\ (~ q.doomed => Around(q.by))
      BY <1>0, <2>1, <2>3 DEF InHand
    <3>5. ~ q.kept => q.answer.of = q.by
      BY <1>0, <2>1, <2>3 DEF InHand
    <3>. QED
      BY <2>2, <2>3, <3>1, <3>2, <3>3, <3>4, <3>5 DEF InHand, Around
  <2>6. OffTypes'
    BY <1>0, <2>2, <2>3 DEF OffTypes
  <2>7. (\A u \in Anyone : Around(u) => Around(u)') /\ \A k \in Nat : Known(k) => Known(k)'
    BY <2>2, <2>4 DEF Around, Known
  <2>. QED
    BY <2>2, <2>3, <2>5, <2>6, <2>7, StillKnown
<1>6. ASSUME NEW v \in Visits, KeepAnswer(v) PROVE OffInv'
  <2>. DEFINE p == visit[v].path
              kept2 == [visit[v].answer EXCEPT !.key = visit[v].key]
              q == [NoVisit EXCEPT !.at = "done"]
  <2>1. visit[v].at = "keep" /\ UNCHANGED <<person, key, gone, ruined>>
        /\ visit' = [visit EXCEPT ![v] = q]
    BY <1>6 DEF KeepAnswer, Ends, Steps
  <2>2. q \in Visit /\ q.at = "done"
    BY NothingInHand DEF Visit
  <2>3. p \in Paths /\ kept2 \in Answer /\ kept2.of = visit[v].by /\ kept2.key = visit[v].key
    BY <1>0, <2>1 DEF InHand, Visit, Answer
  <2>4. OffTypes'
    BY <1>0, <1>6, <2>1, <2>2, <2>3 DEF OffTypes, KeepAnswer
  <2>5. ASSUME NEW r \in Paths PROVE OnShelf(r)'
    <3>1. CASE shelf'[r] = shelf[r]
      BY <2>1, <3>1 DEF OffInv, OnShelf, Around, Known
    <3>2. CASE shelf'[r] # shelf[r]
      <4>1. ~ visit[v].doomed /\ shelf'[r] = kept2
        BY <1>0, <1>6, <3>2 DEF KeepAnswer, OffTypes
      <4>2. Around(visit[v].by) /\ Known(visit[v].key)
        BY <1>0, <2>1, <4>1 DEF InHand
      <4>. QED
        BY <2>1, <2>3, <4>1, <4>2 DEF OnShelf, Around, Known
    <3>. QED
      BY <3>1, <3>2
  <2>6. ASSUME NEW u \in Visits PROVE InHand(visit[u])'
    BY <1>0, <2>1, <2>2 DEF OffTypes, InHand, Around, Known
  <2>. QED
    BY <2>4, <2>5, <2>6 DEF OffInv
<1>7. ASSUME NEW v \in Visits, Read(v) PROVE OffInv'
  BY <1>7, VisitEnds DEF Read
<1>8. ASSUME Leaves, person' \in Anyone, UNCHANGED <<shelf, key, visit, ruined>> PROVE OffInv'
  <2>1. \A u \in Anyone : Around(u) => Around(u)'
    BY <1>8 DEF Leaves, Around
  <2>. QED
    BY <1>0, <1>8, <2>1, KnownMeanwhile DEF OffTypes, Known
<1>9. ASSUME NEW u \in People, LogIn(u) PROVE OffInv'
  BY <1>8, <1>9 DEF LogIn, Anyone
<1>10. CASE LogOut \/ LockOut
  BY <1>8, <1>10 DEF LogOut, LockOut, Anyone
<1>11. CASE DeleteAccount \/ Switch \/ UNCHANGED offVars
  <2>1. UNCHANGED <<person, shelf, key, visit, gone, ruined>>
    BY <1>11 DEF DeleteAccount, Switch, offVars
  <2>. QED
    BY <1>0, <2>1, KnownMeanwhile DEF OffTypes, Known, Around
<1>12. CASE PurgeCache
  <2>1. shelf' = [p \in Paths |-> NoAnswer] /\ UNCHANGED <<person, key, ruined>>
    BY <1>12 DEF PurgeCache, Cleared
  <2>2. ASSUME NEW v \in Visits
        PROVE  visit'[v] \in Visit /\ InHand(visit[v])'
    <3>. DEFINE doomed == visit[v].at \notin {"none", "done"}
                q == [visit[v] EXCEPT !.doomed = doomed]
    <3>1. visit'[v] = q /\ visit[v] \in Visit /\ InHand(visit[v])
      BY <1>0, <1>12, <2>2 DEF PurgeCache
    <3>2. q \in Visit /\ q.doomed = doomed /\ q.at = visit[v].at
          /\ q.path = visit[v].path /\ q.by = visit[v].by /\ q.key = visit[v].key
          /\ q.kept = visit[v].kept /\ q.answer = visit[v].answer
      BY <3>1 DEF Visit
    <3>. HIDE DEF q
    <3>3. visit'[v].doomed = doomed /\ visit'[v].at = visit[v].at
          /\ visit'[v].path = visit[v].path /\ visit'[v].by = visit[v].by
          /\ visit'[v].key = visit[v].key
          /\ visit'[v].kept = visit[v].kept /\ visit'[v].answer = visit[v].answer
      BY <3>1, <3>2
    <3>. QED
      BY <2>1, <3>1, <3>2, <3>3 DEF InHand, Known
  <2>3. visit' = [v \in Visits |-> visit'[v]]
    BY <1>12 DEF PurgeCache
  <2>4. OffTypes'
    BY <1>0, <2>1, <2>2, <2>3, NothingInHand DEF OffTypes
  <2>5. \A p \in Paths : OnShelf(p)'
    BY <2>1 DEF OnShelf
  <2>. QED
    BY <2>2, <2>4, <2>5 DEF OffInv
<1>13. CASE PurgeKey
  <2>1. key' = NoKey /\ ruined' = ruined \union ({key} \ {NoKey})
        /\ UNCHANGED <<person, shelf, visit, gone>>
    BY <1>13 DEF PurgeKey
  <2>. QED
    BY <1>0, <2>1, KnownMeanwhile DEF OffTypes, Known, Around, NoKey
<1>. QED
  BY <1>1, <1>2, <1>3, <1>4, <1>5, <1>6, <1>7, <1>9, <1>10, <1>11, <1>12, <1>13 DEF OffNext

LEMMA ReadsHold ==
  ASSUME OffInv, NEW v \in Visits
  PROVE  /\ FallsBack(v) /\ visit'[v].at = "key" /\ visit[v].by = person =>
              Seen(v).of \in {person} \union gone
         /\ Read(v) => Opens(v) \/ visit[v].answer.key \in ruined
<1>1. visit[v] \in Visit /\ InHand(visit[v]) /\ visit \in [Visits -> Visit]
  BY DEF OffInv, OffTypes
<1>2. ASSUME FallsBack(v), visit'[v].at = "key"
      PROVE  Seen(v).of \in {person} \union gone
  <2>1. ~ Ends(v)
    BY <1>1, <1>2 DEF Ends, Steps, NoVisit
  <2>2. Seen(v) # NoAnswer /\ visit[v].at \in {"fetch", "keep"}
    BY <1>2, <2>1 DEF FallsBack
  <2>3. Seen(v) = shelf[visit[v].path] /\ visit[v].path \in Paths
    BY <1>1, <2>2 DEF Seen, InHand
  <2>. QED
    BY <2>2, <2>3 DEF OffInv, OnShelf, Around
<1>3. Read(v) => Opens(v) \/ visit[v].answer.key \in ruined
  BY <1>1 DEF Read, Opens, InHand
<1>. QED
  BY <1>2, <1>3

-----------------------------------------------------------------------------
(* RG-OF3, for every instance: what is taken from the cache is for who is  *)
(* there, or left without a purge, and opens with its key, unless the key  *)
(* was deleted or overwritten.                                             *)
THEOREM KeptAnswersAreRead == OffInit /\ [][OffNext]_offVars => OfflineReads
<1>1. OffInv /\ [OffNext]_offVars =>
        [\A v \in Visits :
           /\ FallsBack(v) /\ visit'[v].at = "key" /\ visit[v].by = person =>
                Seen(v).of \in {person} \union gone
           /\ Read(v) => Opens(v) \/ visit[v].answer.key \in ruined]_offVars
  BY ReadsHold
<1>. QED
  BY InitOffline, OfflineKept, <1>1, PTL DEF OfflineReads

-----------------------------------------------------------------------------
(* The parts together *)
LEMMA PartsOfViews == ViewsSpec => Spec /\ CatSpec /\ FcSpec /\ OffInit /\ [][OffNext]_offVars
<1>1. ViewsInit => Init /\ CatInit /\ FcInit /\ OffInit
  BY DEF ViewsInit
<1>2. [ViewsNext]_viewVars =>
        [Next]_vars /\ [CatNext]_catVars /\ [FcNext]_fcVars /\ [OffNext]_offVars
  BY DEF ViewsNext, viewVars
<1>. QED
  BY <1>1, <1>2, PTL DEF ViewsSpec, Spec, CatSpec, FcSpec

(* Whatever the user looks at, the five hold.                              *)
THEOREM ViewsHold ==
  ViewsSpec => [](ListIsAsked /\ WrittenOnce /\ EntriesFiled /\ ForecastFresh) /\ OfflineReads
  BY PartsOfViews, TheListIsAsked, OneRowPerOpening, NoEntryLost, KeptIsFresh,
     KeptAnswersAreRead, PTL

=============================================================================
