------------------------------- MODULE Pages -------------------------------
(***************************************************************************)
(* The other pages of the web application.  Each has a few forms, that all *)
(* work alike: the button is busy, a request is sent, its answer closes    *)
(* the dialog, the lists of the page are loaded again, and the user is     *)
(* told the end.  The forms differ in what keeps them from being sent      *)
(* twice: that is the table below.  What they send is left out.            *)
(***************************************************************************)
EXTENDS Naturals, Sequences, FiniteSets

CONSTANTS
  MaxWishes,   \* bound: what the user sets out to do
  MaxPresses,  \* bound: submissions
  MaxDropped,  \* bound: requests or answers that are lost
  Targets,     \* rows whose details a dialog shows: debts, transactions
  NoTarget

ASSUME PagesAssumption ==
  {MaxWishes, MaxPresses, MaxDropped} \subseteq Nat /\ NoTarget \notin Targets

VARIABLES
  page,      \* the page that is open
  wishes,    \* what the user set out to do, each through one form
  current,   \* number of the wish whose dialog is open, or whose row is used; 0: none
  busy,      \* the flags behind "loading": number of the wish they were set for, or 0
  wire,      \* requests on their way
  version,   \* the server: changes that the lists of the page show
  shown,     \* the version of the lists on screen
  presses, dropped,
  behind     \* history: a list was lost, or came after a newer one

VARIABLES
  dialog,    \* the row whose details are open
  details,   \* the row whose details are in the state of the page
  fetches,   \* requests for details, requests about one of them
  mixed,     \* history: details were lost, or came under another dialog
  obeyed     \* [under, of]: what the server did

formVars == <<page, wishes, current, busy, wire, version, shown, presses, dropped, behind>>
detailVars == <<dialog, details, fetches, mixed, obeyed>>
pgVars == <<formVars, detailVars>>

-----------------------------------------------------------------------------
(* The forms.                                                              *)
(*   flag: the state variable that makes the button busy; key: what it     *)
(*     holds ("on", the name of the form, the row)                         *)
(*   box: the dialog; a late answer closes it for whatever it was opened   *)
(*   quick: can be sent while the button is busy, by Ctrl+Enter or as the  *)
(*     button has no flag                                                  *)
(*   closes: when the dialog closes (by itself): with the answer; in the   *)
(*     end, whatever it is; never                                          *)
(*   again: what the server does a second time                             *)
(*     "more": once more; "same": nothing new; "gone": refused, nothing    *)
(*     new when both overlap; "checked": refused by a check that comes     *)
(*     before the write; "unique": refused by a constraint of the table    *)
(*   reloads: the page loads its lists afterwards; silent: a lost answer   *)
(*     is told to nobody; skips: may end without a request                 *)
Form(again) ==
  [again |-> again, flag |-> "submit", key |-> "on", box |-> "main", quick |-> TRUE,
   closes |-> "answer", reloads |-> TRUE, silent |-> FALSE, skips |-> FALSE]

Second(again) == [Form(again) EXCEPT !.flag = "second", !.box = "second"]

(* A confirmation: its button alone sends. *)
Confirm(again) ==
  [Form(again) EXCEPT !.flag = "delete", !.box = "confirm", !.quick = FALSE, !.closes = "end"]

Unguarded(again) == [Confirm(again) EXCEPT !.quick = TRUE]

(* A button that is always there. *)
Button(again) == [Form(again) EXCEPT !.box = "none", !.quick = FALSE, !.closes = "never"]

(* One on a row of the list: the flag holds the id of the row. *)
RowButton(again) == [Button(again) EXCEPT !.key = "row"]

(* Nothing is loaded again. *)
Alone(form) == [form EXCEPT !.reloads = FALSE]

Accounts == [create |-> Form("more"), edit |-> Form("same"), remove |-> Confirm("gone"),
             reconcile |-> Second("same")]

Goals == [create |-> Form("more"), edit |-> Form("same"), remove |-> Confirm("gone"),
          contribute |-> Second("more")]

Debts == [create |-> Form("more"), edit |-> Form("same"), remove |-> Confirm("gone"),
          pay |-> Second("more"),
          revert |-> [Confirm("checked") EXCEPT !.flag = "revert", !.box = "revert"]]

Budgets == [create |-> Form("checked"), edit |-> Form("same"), remove |-> Confirm("gone")]

CategoryForms == Budgets

Tags == [create |-> Form("unique"), remove |-> Confirm("gone")]

Recurrences == [create |-> Form("more"), remove |-> Confirm("gone"),
                materialize |-> [RowButton("checked") EXCEPT !.flag = "second"]]

Notifications == [mark |-> RowButton("same"),
                  markAll |-> [Button("same") EXCEPT !.flag = "second"]]

Attachments == [upload |-> [Button("more") EXCEPT !.silent = TRUE],
                remove |-> Unguarded("gone")]

Searches == [save |-> Button("more"), remove |-> Unguarded("gone")]

Import == [upload |-> Alone([Form("more") EXCEPT !.closes = "never", !.silent = TRUE]),
           commit |-> Alone([Button("checked") EXCEPT !.flag = "second", !.box = "result",
                                                      !.closes = "answer"])]

Export == [csv |-> Alone([Button("same") EXCEPT !.key = "form"]),
           backup |-> Alone([Button("same") EXCEPT !.key = "form"])]

Scenario == [scenario |-> Alone(Button("same"))]

(* One flag for the page, with the name of the action that runs. *)
Preference(again) == [Button(again) EXCEPT !.key = "form"]

Preferences ==
  [profile |-> [Preference("same") EXCEPT !.quick = TRUE],
   setPin |-> [Preference("same") EXCEPT !.box = "pin", !.quick = TRUE, !.closes = "answer"],
   removePin |-> [Preference("same") EXCEPT !.box = "confirm", !.closes = "end"],
   unlink |-> [Preference("gone") EXCEPT !.box = "unlink", !.closes = "end"],
   enablePush |-> [Preference("same") EXCEPT !.skips = TRUE],
   removeDevice |-> [Preference("gone") EXCEPT !.key = "row", !.box = "device", !.closes = "end"],
   deleteAccount |-> Alone([Preference("gone") EXCEPT !.box = "confirm", !.closes = "end"]),
   testPush |-> Alone(Preference("more"))]

(* The pages without a session: the first success replaces the form. *)
Register == [register |-> Alone(Form("unique")),
             resend |-> [Alone(Button("more")) EXCEPT !.flag = "second"]]

Login == [login |-> Alone(Form("more"))]

Forgot == [forgot |-> Alone(Form("more"))]

Reset == [reset |-> Alone(Form("checked"))]

OAuthComplete == [complete |-> Alone(Form("checked"))]

(* Links with a token, that is sent when the page opens. *)
Verify == [verify |-> Alone(Button("checked"))]

OAuthLogin == [exchange |-> Alone(Button("checked"))]

AllPages ==
  [accounts |-> Accounts, goals |-> Goals, debts |-> Debts, budgets |-> Budgets,
   categories |-> CategoryForms, tags |-> Tags, recurrences |-> Recurrences,
   notifications |-> Notifications, attachments |-> Attachments, searches |-> Searches,
   import |-> Import, export |-> Export, forecast |-> Scenario,
   preferences |-> Preferences, register |-> Register, login |-> Login,
   forgot |-> Forgot, reset |-> Reset, oauth |-> OAuthComplete, verify |-> Verify,
   oauthLogin |-> OAuthLogin]

-----------------------------------------------------------------------------
(* told: what the page said last; done: how often the server did it;       *)
(* tried: submissions; why: history, "hasty" (sent again before it ended), *)
(* "lost" (a request, an answer or the lists did not come), "skipped".     *)
Wish(f) == [form |-> f, told |-> "nothing", done |-> 0, tried |-> 0, why |-> {}]

(* kind: asked, checked (the check of the server has passed), done or      *)
(* refused (answers), reload, lists (an answer, read at version seen).     *)
Message(n) == [wish |-> n, try |-> wishes[n].tried + 1, kind |-> "asked", seen |-> 0]

FormOf(n) == AllPages[page][wishes[n].form]

Underway(n) == \E r \in wire : r.wish = n

Becomes(r, kind) == wire' = (wire \ {r}) \union {[r EXCEPT !.kind = kind]}

Tells(n, what) == wishes' = [wishes EXCEPT ![n].told = what]

(* finally: the flag is cleared, whichever request it was set for. *)
Clears(n) == busy' = [busy EXCEPT ![FormOf(n).flag] = 0]

Closes(n, when) ==
  current' = IF /\ current # 0 /\ FormOf(n).closes = when
                /\ FormOf(current).box = FormOf(n).box
             THEN 0 ELSE current

-----------------------------------------------------------------------------
(* The user opens a dialog, or takes a row of the list: for something new, *)
(* or for what the page said has failed.                                   *)
Open(f) ==
  /\ current = 0 /\ Len(wishes) < MaxWishes
  /\ wishes' = Append(wishes, Wish(f)) /\ current' = Len(wishes) + 1
  /\ UNCHANGED <<page, busy, wire, version, shown, presses, dropped, behind>>

Retry(n) ==
  /\ current = 0 /\ wishes[n].told = "failed"
  /\ current' = n
  /\ UNCHANGED <<page, wishes, busy, wire, version, shown, presses, dropped, behind>>

Cancel ==
  /\ current # 0 /\ current' = 0
  /\ UNCHANGED <<page, wishes, busy, wire, version, shown, presses, dropped, behind>>

AlwaysEnabled(n) == TRUE

Enabled(n) ==
  LET b == busy[FormOf(n).flag] IN
    b # 0 => \/ FormOf(n).key = "form" /\ wishes[b].form # wishes[n].form
             \/ FormOf(n).key = "row" /\ b # n

Press ==
  LET n == current IN
  /\ n # 0 /\ presses < MaxPresses /\ presses' = presses + 1
  /\ FormOf(n).quick \/ Enabled(n)
  /\ wishes[n].told # "done"     \* the user
  /\ wishes' = [wishes EXCEPT ![n].tried = @ + 1,
                              ![n].why = @ \union IF Underway(n) THEN {"hasty"} ELSE {}]
  /\ busy' = [busy EXCEPT ![FormOf(n).flag] = n]
  /\ wire' = wire \union {Message(n)}
  /\ UNCHANGED <<page, current, version, shown, dropped, behind>>

(* onEnablePush(): the browser has no push, or its user says no. *)
Skip ==
  LET n == current IN
  /\ n # 0 /\ presses < MaxPresses /\ presses' = presses + 1
  /\ FormOf(n).skips /\ Enabled(n) /\ wishes[n].told # "done"
  /\ wishes' = [wishes EXCEPT ![n].tried = @ + 1, ![n].told = "done",
                              ![n].why = @ \union {"skipped"}]
  /\ Clears(n)
  /\ UNCHANGED <<page, current, wire, version, shown, dropped, behind>>

-----------------------------------------------------------------------------
(* The server *)

Again(r) == FormOf(r.wish).again

Before(r) == wishes[r.wish].done > 0

Serves(r, kind) ==
  /\ Becomes(r, kind)
  /\ UNCHANGED <<page, current, busy, shown, presses, dropped, behind>>

Check(r) ==
  /\ r.kind = "asked" /\ Again(r) = "checked" /\ ~Before(r)
  /\ Serves(r, "checked") /\ UNCHANGED <<wishes, version>>

Do(r) ==
  /\ r.kind = IF Again(r) = "checked" THEN "checked" ELSE "asked"
  /\ Before(r) => Again(r) \in {"more", "checked"}
  /\ wishes' = [wishes EXCEPT ![r.wish].done = @ + 1]
  /\ version' = IF FormOf(r.wish).reloads THEN version + 1 ELSE version
  /\ Serves(r, "done")

DoNothing(r) ==
  /\ r.kind = "asked" /\ Before(r)
  /\ Again(r) \in {"same"} \union IF "hasty" \in wishes[r.wish].why THEN {"gone"} ELSE {}
  /\ Serves(r, "done") /\ UNCHANGED <<wishes, version>>

(* What was done already, or for another reason. *)
Refuse(r) ==
  /\ r.kind = "asked"
  /\ Before(r) => Again(r) # "same"
  /\ Serves(r, "refused") /\ UNCHANGED <<wishes, version>>

ReadLists(r) ==
  /\ r.kind = "reload"
  /\ wire' = (wire \ {r}) \union {[r EXCEPT !.kind = "lists", !.seen = version]}
  /\ UNCHANGED <<page, wishes, current, busy, version, shown, presses, dropped, behind>>

-----------------------------------------------------------------------------
(* The page *)

Succeed(r) ==
  /\ r.kind = "done"
  /\ Closes(r.wish, "answer")
  /\ IF FormOf(r.wish).reloads
     THEN Becomes(r, "reload") /\ UNCHANGED <<wishes, busy>>
     ELSE wire' = wire \ {r} /\ Tells(r.wish, "done") /\ Clears(r.wish)
  /\ UNCHANGED <<page, version, shown, presses, dropped, behind>>

ShowLists(r) ==
  /\ r.kind = "lists"
  /\ wire' = wire \ {r} /\ shown' = r.seen
  /\ Tells(r.wish, "done") /\ Clears(r.wish) /\ Closes(r.wish, "end")
  /\ behind' = (r.seen < shown \/ (behind /\ r.seen < version))
  /\ UNCHANGED <<page, version, presses, dropped>>

Fail(r) ==
  /\ r.kind = "refused"
  /\ wire' = wire \ {r}
  /\ Tells(r.wish, "failed") /\ Clears(r.wish) /\ Closes(r.wish, "end")
  /\ UNCHANGED <<page, version, shown, presses, dropped, behind>>

(* catch: whatever did not come, the action is said to have failed: the    *)
(* lists are loaded in the same try block.                                 *)
Vanish(r) ==
  LET n == r.wish IN
  /\ dropped < MaxDropped /\ dropped' = dropped + 1
  /\ wire' = wire \ {r}
  /\ wishes' = [wishes EXCEPT ![n].told = IF FormOf(n).silent THEN @ ELSE "failed",
                              ![n].why = @ \union {"lost"}]
  /\ Clears(n) /\ Closes(n, "end")
  /\ behind' = (behind \/ (FormOf(n).reloads /\ shown < version))
  /\ UNCHANGED <<page, version, shown, presses>>

-----------------------------------------------------------------------------
(* Dialogs with details: the installments and the payments of a debt, the  *)
(* attachments of a transaction.  The details of the row before stay until *)
(* those asked for are there.                                              *)
Look(t) ==
  /\ dialog = NoTarget /\ presses < MaxPresses /\ presses' = presses + 1
  /\ dialog' = t
  /\ fetches' = fetches \union {[no |-> presses', kind |-> "load", under |-> t, of |-> t]}
  /\ UNCHANGED <<details, mixed, obeyed>>

LookAway ==
  /\ dialog # NoTarget /\ dialog' = NoTarget
  /\ UNCHANGED <<details, fetches, mixed, obeyed, presses>>

(* A payment of an installment, the reversal of a payment, the removal of  *)
(* an attachment: the request names the row of the dialog and the detail.  *)
Act ==
  /\ dialog # NoTarget /\ details # NoTarget
  /\ presses < MaxPresses /\ presses' = presses + 1
  /\ fetches' = fetches \union
       {[no |-> presses', kind |-> "act", under |-> dialog, of |-> details]}
  /\ UNCHANGED <<dialog, details, mixed, obeyed>>

(* The server looks for the detail with both ids. *)
Matches(r) == r.under = r.of

Accept(r) ==
  /\ r.kind = "act"
  /\ obeyed' = IF Matches(r) THEN obeyed \union {[under |-> r.under, of |-> r.of]} ELSE obeyed
  /\ fetches' = fetches \ {r}
  /\ UNCHANGED <<dialog, details, mixed, presses>>

Arrive(r) ==
  /\ r.kind = "load"
  /\ details' = r.of
  /\ fetches' = fetches \ {r}
  /\ mixed' = (r.of # dialog)
  /\ UNCHANGED <<dialog, obeyed, presses>>

Miss(r) ==
  /\ r.kind = "load" /\ dropped < MaxDropped /\ dropped' = dropped + 1
  /\ fetches' = fetches \ {r}
  /\ mixed' = TRUE
  /\ UNCHANGED <<dialog, details, obeyed, presses>>

-----------------------------------------------------------------------------
Flags == {"submit", "second", "delete", "revert"}

(* One page at a time, or the dialogs with details. *)
PgInit ==
  /\ page \in DOMAIN AllPages \union {"details"}
  /\ wishes = <<>> /\ current = 0 /\ busy = [f \in Flags |-> 0] /\ wire = {}
  /\ version = 0 /\ shown = 0 /\ presses = 0 /\ dropped = 0 /\ behind = FALSE
  /\ dialog = NoTarget /\ details = NoTarget /\ fetches = {}
  /\ mixed = FALSE /\ obeyed = {}

FormStep ==
  /\ page # "details"
  /\ \/ \E f \in DOMAIN AllPages[page] : Open(f)
     \/ \E n \in DOMAIN wishes : Retry(n)
     \/ Cancel \/ Press \/ Skip
     \/ \E r \in wire : \/ Check(r) \/ Do(r) \/ DoNothing(r) \/ Refuse(r) \/ ReadLists(r)
                       \/ Succeed(r) \/ ShowLists(r) \/ Fail(r) \/ Vanish(r)
  /\ UNCHANGED detailVars

DetailStep ==
  /\ page = "details"
  /\ \/ (\E t \in Targets : Look(t)) /\ UNCHANGED dropped
     \/ LookAway /\ UNCHANGED dropped
     \/ Act /\ UNCHANGED dropped
     \/ \E r \in fetches : (Accept(r) \/ Arrive(r)) /\ UNCHANGED dropped
     \/ \E r \in fetches : Miss(r)
  /\ UNCHANGED <<page, wishes, current, busy, wire, version, shown, behind>>

PgNext == FormStep \/ DetailStep

PgSpec == PgInit /\ [][PgNext]_pgVars

-----------------------------------------------------------------------------
(* Properties *)

(* A form sent again before it ended has Ctrl+Enter or no flag, or shares  *)
(* its flag with another row or another action, that took it over.         *)
SentAgainByHaste ==
  \A n \in DOMAIN wishes : "hasty" \in wishes[n].why =>
    FormOf(n).quick \/ FormOf(n).key # "on"

(* What was done twice was sent again before it ended, or after a loss; if *)
(* the server checks, only the first can be the cause.                     *)
DoneOnce ==
  \A n \in DOMAIN wishes : wishes[n].done > 1 =>
    \/ FormOf(n).again = "more" /\ wishes[n].why # {}
    \/ FormOf(n).again = "checked" /\ "hasty" \in wishes[n].why

(* When nothing is on its way, the page has told the end of everything the *)
(* user sent, but of an upload whose answer was lost; it said "done" only  *)
(* of what was done, but for push notifications the browser did not allow; *)
(* it said "failed" of what was done only after a loss or a haste.         *)
ToldTheEnd ==
  wire = {} => \A n \in DOMAIN wishes :
    LET w == wishes[n] IN
      /\ w.tried > 0 /\ w.told = "nothing" => FormOf(n).silent /\ "lost" \in w.why
      /\ w.told = "done" /\ w.done = 0 => "skipped" \in w.why
      /\ w.told = "failed" /\ w.done > 0 => w.why # {}

(* The lists are those of the server, unless the last to come was older    *)
(* than one before it, or was lost.                                        *)
ListsFollow == wire = {} /\ ~behind => shown = version

(* Details of one row under another: only when they came late or were      *)
(* lost; and the server does nothing with them.                            *)
DetailsApart ==
  /\ dialog # NoTarget /\ ~mixed /\ (\A r \in fetches : r.kind # "load")
       => details = dialog
  /\ \A s \in obeyed : s.under = s.of

(* What the user is told, shown, and made to do twice by the pages. *)
PageTells ==
  SentAgainByHaste /\ DoneOnce /\ ToldTheEnd /\ ListsFollow /\ DetailsApart

=============================================================================
