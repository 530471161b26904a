---------------------------- MODULE Attachments ----------------------------
(***************************************************************************)
(* Photos of receipts: a row of the database and a file on the disk of the *)
(* server for each (attachments.service.ts, attachments.controller.ts,     *)
(* local-disk-storage.service.ts).  Neither is written with the other.     *)
(***************************************************************************)
EXTENDS Naturals

CONSTANTS
  Handlers,    \* requests served at the same time
  Photos,      \* photos that are attached, each under a key of its own
  MaxFaults    \* bound: statements that fail, restarts

ASSUME AttachmentsAssumption == MaxFaults \in Nat

VARIABLES
  entryRemoved, \* the transaction they are attached to is
  attachment,  \* the row of a photo: "none", "live" or "removed"
  disk,        \* the photos that have a file
  handling,    \* what each handler does next, with which photo
  faults,
  tornUpload,  \* history: photos whose upload was cut off
  tornRemoval, \* history: photos one of whose removals was cut off
  asked,       \* history: photos a removal was asked of
  missed       \* history: photos that were not found when they were viewed

attVars == <<entryRemoved, attachment, disk, handling, faults, tornUpload, tornRemoval, asked, missed>>

tornVars == <<tornUpload, tornRemoval>>

Free == [step |-> "idle"]

Does(step, p) == [step |-> step, photo |-> p]

Doing(step, p) == {h \in Handlers : handling[h] = Does(step, p)}

Continues(h, step) == handling' = [handling EXCEPT ![h].step = step]

Answers(h) == handling' = [handling EXCEPT ![h] = Free]

(* The requests of the handlers are cut off where they are; what was being *)
(* saved may be there in part.                                             *)
CutOff(handlers) ==
  LET at(step) == {p \in Photos : Doing(step, p) \intersect handlers # {}} IN
  \E partial \in SUBSET at("save") :
    /\ handling' = [h \in Handlers |-> IF h \in handlers THEN Free ELSE handling[h]]
    /\ disk' = disk \union partial
    /\ tornUpload' = tornUpload \union at("create") \union partial
    /\ tornRemoval' = tornRemoval \union at("mark")

-----------------------------------------------------------------------------
(* upload(): the file, then the row *)
Attach(h, p) ==
  /\ handling[h] = Free /\ ~ entryRemoved /\ attachment[p] = "none"
  /\ \A g \in Handlers : handling[g] # Free => handling[g].photo # p
  /\ p \notin disk      \* every upload draws a key of its own
  /\ handling' = [handling EXCEPT ![h] = Does("save", p)]
  /\ UNCHANGED <<entryRemoved, attachment, disk, faults, tornVars, asked, missed>>

SavePhoto(h) ==
  /\ handling[h].step = "save"
  /\ disk' = disk \union {handling[h].photo}
  /\ Continues(h, "create")
  /\ UNCHANGED <<entryRemoved, attachment, faults, tornVars, asked, missed>>

CreateRow(h) ==
  /\ handling[h].step = "create"
  /\ attachment' = [attachment EXCEPT ![handling[h].photo] = "live"]
  /\ Answers(h)
  /\ UNCHANGED <<entryRemoved, disk, faults, tornVars, asked, missed>>

(* remove(): the file, then the row.  The row is looked for first. *)
Detach(h, p) ==
  /\ handling[h] = Free /\ attachment[p] = "live"
  /\ handling' = [handling EXCEPT ![h] = Does("delete", p)]
  /\ asked' = asked \union {p}
  /\ UNCHANGED <<entryRemoved, attachment, disk, faults, tornVars, missed>>

DeleteNothing(h) ==
  /\ handling[h].step = "delete" /\ Continues(h, "mark")
  /\ UNCHANGED <<entryRemoved, attachment, disk, faults, tornVars, asked, missed>>

(* A file that is not there is no error. *)
DeletePhoto(h) ==
  /\ handling[h].step = "delete"
  /\ disk' = disk \ {handling[h].photo}
  /\ Continues(h, "mark")
  /\ UNCHANGED <<entryRemoved, attachment, faults, tornVars, asked, missed>>

MarkRemoved(h) ==
  /\ handling[h].step = "mark"
  /\ attachment' = [attachment EXCEPT ![handling[h].photo] = "removed"]
  /\ Answers(h)
  /\ UNCHANGED <<entryRemoved, disk, faults, tornVars, asked, missed>>

(* streamFile() *)
View(h, p) ==
  /\ handling[h] = Free /\ attachment[p] = "live"
  /\ handling' = [handling EXCEPT ![h] = Does("stream", p)]
  /\ UNCHANGED <<entryRemoved, attachment, disk, faults, tornVars, asked, missed>>

Stream(h) ==
  /\ handling[h].step = "stream" /\ handling[h].photo \in disk
  /\ Answers(h)
  /\ UNCHANGED <<entryRemoved, attachment, disk, faults, tornVars, asked, missed>>

(* Its photos stay, and can be viewed and removed. *)
RemoveEntry ==
  /\ ~ entryRemoved /\ entryRemoved' = TRUE
  /\ UNCHANGED <<attachment, disk, handling, faults, tornVars, asked, missed>>

(* Nobody listens to the error of a stream that cannot be opened: it ends  *)
(* the process, and every request with it.                                 *)
StreamMissing(h) ==
  /\ handling[h].step = "stream" /\ handling[h].photo \notin disk
  /\ missed' = missed \union {handling[h].photo}
  /\ CutOff(Handlers)
  /\ UNCHANGED <<entryRemoved, attachment, faults, asked>>

(* A statement fails, or the server is restarted. *)
Fault(handlers) ==
  /\ faults < MaxFaults /\ faults' = faults + 1
  /\ CutOff(handlers)
  /\ UNCHANGED <<entryRemoved, attachment, asked, missed>>

-----------------------------------------------------------------------------
AttInit ==
  /\ entryRemoved = FALSE /\ attachment = [p \in Photos |-> "none"] /\ disk = {}
  /\ handling = [h \in Handlers |-> Free] /\ faults = 0
  /\ tornUpload = {} /\ tornRemoval = {} /\ asked = {} /\ missed = {}

AttNext ==
  \/ \E h \in Handlers :
       \/ \E p \in Photos : Attach(h, p) \/ Detach(h, p) \/ View(h, p)
       \/ SavePhoto(h) \/ CreateRow(h) \/ DeletePhoto(h) \/ MarkRemoved(h)
       \/ Stream(h) \/ StreamMissing(h)
       \/ Fault({h})
  \/ RemoveEntry \/ Fault(Handlers)

AttSpec == AttInit /\ [][AttNext]_attVars

-----------------------------------------------------------------------------
(* Properties *)

(* A photo that is listed has its file, unless it is just being removed or *)
(* a removal of it was cut off.                                            *)
ListedIsThere ==
  \A p \in Photos : attachment[p] = "live" /\ p \notin disk =>
    p \in tornRemoval \/ Doing("mark", p) # {}

(* A file nobody can see was left by an upload that was cut off; one whose *)
(* removal was answered is gone.                                           *)
NoFileForgotten ==
  \A p \in disk : attachment[p] # "live" => p \in tornUpload \/ Doing("create", p) # {}

(* The server is stopped by a photo only if its removal was asked for. *)
OnlyRemovedAreMissed == missed \subseteq asked

AttachmentsKept == ListedIsThere /\ NoFileForgotten /\ OnlyRemovedAreMissed

=============================================================================
