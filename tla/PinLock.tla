------------------------------ MODULE PinLock ------------------------------
(***************************************************************************)
(* The PIN of one browser: the gate that the layout mounts beside every    *)
(* page (PinLockGate), the digest it compares with (local-pin.ts) and the  *)
(* preferences that set and remove both the digest and the hash of the     *)
(* server (users).  Going from page to page leaves the gate as it is; a    *)
(* load starts it again.  What a locked browser keeps of the application   *)
(* is in Offline.                                                          *)
(***************************************************************************)
EXTENDS Naturals, FiniteSets

CONSTANTS
  Pins, NoPin,
  MaxEntries,    \* bound: PINs entered
  MaxTogether,   \* bound: of which are compared at the same time
  MaxTurns,      \* bound: loads, logins, logouts, changes of the preferences
  MaxUnread      \* bound: failures of the store in the browser, logouts that are lost

MaxAttempts == 5

ASSUME PinAssumption ==
  /\ NoPin \notin Pins /\ {MaxEntries, MaxTogether, MaxTurns, MaxUnread} \subseteq Nat

VARIABLES
  stored,      \* the PIN whose digest is in the browser
  pinEnabled,  \* the server has a hash
  signedIn,    \* the session of the browser is good
  checked,     \* the page has asked the store
  enabled, locked, attempts, armed,   \* the state of the gate, and its timer
  entries,     \* PINs that are being compared
  saving,      \* what the preferences do in the browser next
  leaving,     \* what is left to do after the last attempt, "failed" if it was not done
  entered, turns, unread,
  had,         \* history: there was a PIN when the page asked
  opened,      \* history: the right one was entered in this page
  wrong,       \* history: wrong ones since then, in this page
  crossed,     \* history: one was entered while another was compared
  withdrawn,   \* history: the PIN went since the page asked, or it could not ask
  forced,      \* history: the page comes from five wrong ones
  kept         \* history: their logout was lost, or a login came after it

gateVars == <<checked, enabled, locked, attempts, armed>>
countVars == <<entered, turns, unread>>
pageHistory == <<had, opened, wrong, crossed, withdrawn>>
pinVars == <<stored, pinEnabled, signedIn, gateVars, entries, saving, leaving, countVars,
             pageHistory, forced, kept>>

-----------------------------------------------------------------------------
Turn == turns < MaxTurns /\ turns' = turns + 1 /\ UNCHANGED <<entered, unread>>

Unread == unread < MaxUnread /\ unread' = unread + 1 /\ UNCHANGED <<entered, turns>>

(* A page starts without the state of the one before. *)
Fresh ==
  /\ checked' = FALSE /\ enabled' = FALSE /\ locked' = FALSE /\ attempts' = 0 /\ armed' = FALSE
  /\ entries' = {} /\ saving' = "nothing" /\ leaving' = "no"
  /\ had' = FALSE /\ opened' = FALSE /\ wrong' = 0 /\ crossed' = FALSE /\ withdrawn' = FALSE

Load ==
  /\ Turn /\ Fresh
  /\ UNCHANGED <<stored, pinEnabled, signedIn, forced, kept>>

(* The gate renders nothing, and covers nothing, but when it is locked:    *)
(* so the page shows until the store has answered.                         *)
Shows == ~ (enabled /\ locked)

(* The form of the login, or a page that signs in as it loads and may be   *)
(* covered when the answer comes; then router.push().                      *)
LogIn ==
  /\ ~ signedIn /\ Turn
  /\ signedIn' = TRUE /\ forced' = FALSE /\ kept' = (leaving = "clear")
  /\ UNCHANGED <<stored, pinEnabled, gateVars, entries, saving, leaving, pageHistory>>

LogOut ==
  /\ Shows /\ signedIn /\ Turn
  /\ signedIn' = FALSE
  /\ UNCHANGED <<stored, pinEnabled, gateVars, entries, saving, leaving, pageHistory, forced, kept>>

hasLocalPin == stored # NoPin

CheckStoreOpen ==
  /\ ~ checked /\ checked' = TRUE
  /\ enabled' = hasLocalPin /\ locked' = FALSE /\ had' = hasLocalPin
  /\ UNCHANGED <<stored, pinEnabled, signedIn, attempts, armed, entries, saving, leaving,
                 countVars, opened, wrong, crossed, withdrawn, forced, kept>>

(* The effect of the mount: hasLocalPin(). *)
CheckStore ==
  /\ ~ checked /\ checked' = TRUE
  /\ enabled' = hasLocalPin /\ locked' = hasLocalPin /\ had' = hasLocalPin
  /\ UNCHANGED <<stored, pinEnabled, signedIn, attempts, armed, entries, saving, leaving,
                 countVars, opened, wrong, crossed, withdrawn, forced, kept>>

(* The store cannot be read: fail closed. *)
CannotCheck ==
  /\ ~ checked /\ checked' = TRUE /\ Unread
  /\ enabled' = TRUE /\ locked' = TRUE /\ withdrawn' = TRUE
  /\ UNCHANGED <<stored, pinEnabled, signedIn, attempts, armed, entries, saving, leaving,
                 had, opened, wrong, crossed, forced, kept>>

(* Activity sets the timer again; nothing came before it fires. *)
TimeOut ==
  /\ armed /\ armed' = FALSE /\ locked' = TRUE
  /\ UNCHANGED <<stored, pinEnabled, signedIn, checked, enabled, attempts, entries, saving,
                 leaving, countVars, pageHistory, forced, kept>>

-----------------------------------------------------------------------------
(* onSubmit(), up to the answer of the store; it counts from the attempts  *)
(* of the screen it was entered on.  Ctrl+EnterPin does not wait for another. *)
EnterPin(p) ==
  /\ enabled /\ locked /\ entered < MaxEntries /\ Cardinality(entries) < MaxTogether
  /\ entered' = entered + 1
  /\ entries' = entries \union {[no |-> entered', pin |-> p, attempts |-> attempts]}
  /\ crossed' = (crossed \/ entries # {})
  /\ UNCHANGED <<stored, pinEnabled, signedIn, gateVars, saving, leaving, turns, unread,
                 had, opened, wrong, withdrawn, forced, kept>>

verifyLocalPin(p) == stored # NoPin /\ p = stored

Right(e) ==
  /\ verifyLocalPin(e.pin)
  /\ entries' = entries \ {e}
  /\ locked' = FALSE /\ attempts' = 0 /\ armed' = TRUE
  /\ opened' = TRUE /\ wrong' = 0
  /\ leaving' = IF leaving = "failed" THEN "no" ELSE leaving
  /\ UNCHANGED <<stored, pinEnabled, signedIn, checked, enabled, saving, countVars,
                 had, crossed, withdrawn, forced, kept>>

Wrong(e) ==
  /\ ~ verifyLocalPin(e.pin)
  /\ entries' = entries \ {e}
  /\ attempts' = e.attempts + 1 /\ wrong' = wrong + 1
  /\ leaving' = IF attempts' >= MaxAttempts THEN "logout" ELSE leaving
  /\ UNCHANGED <<stored, pinEnabled, signedIn, checked, enabled, locked, armed, saving,
                 countVars, had, opened, crossed, withdrawn, forced, kept>>

(* The store cannot be read: the entry is neither right nor wrong. *)
CannotCompare(e) ==
  /\ Unread /\ entries' = entries \ {e}
  /\ UNCHANGED <<stored, pinEnabled, signedIn, gateVars, saving, leaving, pageHistory, forced, kept>>

(* /auth/logout, best effort. *)
LeaveSession ==
  /\ leaving = "logout" /\ leaving' = "clear"
  /\ \/ signedIn' = FALSE /\ UNCHANGED <<countVars, kept>>
     \/ signedIn /\ Unread /\ kept' = TRUE /\ UNCHANGED signedIn
  /\ UNCHANGED <<stored, pinEnabled, gateVars, entries, saving, pageHistory, forced>>

(* clearLocalPin() and the load of the first page. *)
LeavePage ==
  /\ leaving = "clear" /\ Fresh
  /\ stored' = NoPin /\ forced' = TRUE
  /\ UNCHANGED <<pinEnabled, signedIn, countVars, kept>>

(* clearLocalPin() is rejected, or what follows it: the locked page stays. *)
CannotLeave ==
  /\ leaving = "clear" /\ leaving' = "failed" /\ Unread
  /\ stored' \in {stored, NoPin} /\ withdrawn' = (withdrawn \/ stored' = NoPin)
  /\ UNCHANGED <<pinEnabled, signedIn, gateVars, entries, saving, had, opened, wrong, crossed,
                 forced, kept>>

-----------------------------------------------------------------------------
(* Preferences: the server first, then the browser. *)
SetPin(p) ==
  /\ Shows /\ signedIn /\ saving = "nothing" /\ Turn
  /\ pinEnabled' = TRUE /\ saving' = p
  /\ UNCHANGED <<stored, signedIn, gateVars, entries, leaving, pageHistory, forced, kept>>

RemovePin ==
  /\ Shows /\ signedIn /\ saving = "nothing" /\ pinEnabled /\ Turn
  /\ pinEnabled' = FALSE /\ saving' = NoPin
  /\ UNCHANGED <<stored, signedIn, gateVars, entries, leaving, pageHistory, forced, kept>>

DeleteMe ==
  /\ Shows /\ signedIn /\ saving = "nothing" /\ Turn
  /\ signedIn' = FALSE /\ saving' = NoPin
  /\ UNCHANGED <<stored, pinEnabled, gateVars, entries, leaving, pageHistory, forced, kept>>

(* setLocalPin(), clearLocalPin(): the gate is not told. *)
SaveLocal ==
  /\ saving # "nothing" /\ saving' = "nothing"
  /\ stored' = saving
  /\ withdrawn' = (withdrawn \/ saving = NoPin)
  /\ UNCHANGED <<pinEnabled, signedIn, gateVars, entries, leaving, countVars, had, opened,
                 wrong, crossed, forced, kept>>

(* The change is made on the server alone. *)
CannotSave ==
  /\ saving # "nothing" /\ saving' = "nothing" /\ Unread
  /\ UNCHANGED <<stored, pinEnabled, signedIn, gateVars, entries, leaving, pageHistory, forced, kept>>

-----------------------------------------------------------------------------
PinInit ==
  /\ stored \in Pins \union {NoPin} /\ pinEnabled = hasLocalPin /\ signedIn = TRUE
  /\ checked = FALSE /\ enabled = FALSE /\ locked = FALSE /\ attempts = 0 /\ armed = FALSE
  /\ entries = {} /\ saving = "nothing" /\ leaving = "no"
  /\ entered = 0 /\ turns = 0 /\ unread = 0
  /\ had = FALSE /\ opened = FALSE /\ wrong = 0 /\ crossed = FALSE /\ withdrawn = FALSE
  /\ forced = FALSE /\ kept = FALSE

PinNext ==
  \/ Load \/ LogIn \/ LogOut \/ CheckStore \/ CannotCheck \/ TimeOut
  \/ \E p \in Pins : EnterPin(p) \/ SetPin(p)
  \/ \E e \in entries : Right(e) \/ Wrong(e) \/ CannotCompare(e)
  \/ LeaveSession \/ LeavePage \/ CannotLeave
  \/ RemovePin \/ DeleteMe \/ SaveLocal \/ CannotSave

PinSpec == PinInit /\ [][PinNext]_pinVars

-----------------------------------------------------------------------------
(* Properties *)

(* Once the store has answered, a page that found a PIN, or could not look *)
(* for one, shows nothing until the PIN is entered in it, and is going to  *)
(* lock again whenever it shows.  Before that it shows, whatever the PIN   *)
(* (against RG-S7, "the lock hides the interface").                        *)
LocksWhenItShould ==
  /\ checked /\ (had \/ enabled) /\ Shows => opened
  /\ enabled /\ ~ locked => armed

(* A locked page can be opened, unless the PIN went since it was loaded or *)
(* the page could not look for one.                                        *)
CanBeOpened == enabled /\ locked => stored # NoPin \/ withdrawn

(* RG-S8: the entries that were compared and wrong are all counted, and    *)
(* the fifth ends the page or fails to, but those of a page that was       *)
(* loaded again or that were entered together.                             *)
WrongAreCounted ==
  \/ crossed
  \/ /\ locked => attempts = wrong
     /\ wrong >= MaxAttempts => leaving # "no"

(* A page that comes from five wrong ones has no session, unless their     *)
(* logout was lost or somebody signed in after it.                         *)
EndsTheSession == forced => ~ signedIn \/ kept

PinHolds == LocksWhenItShould /\ CanBeOpened /\ WrongAreCounted /\ EndsTheSession

=============================================================================
