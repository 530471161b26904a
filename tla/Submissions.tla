----------------------------- MODULE Submissions -----------------------------
(***************************************************************************)
(* What a user hands in: files, line by line, the forms of the pages,      *)
(* photos, and the PIN.  Each can be sent again before, or without, an     *)
(* answer.  They share no state: an instance has one of them.              *)
(***************************************************************************)
EXTENDS Imports, Pages, PinLock, Attachments

VARIABLE way

submissionVars == <<vars, pgVars, pinVars, attVars, way>>

-----------------------------------------------------------------------------
SubmissionsInit ==
  /\ Init /\ PgInit /\ PinInit /\ AttInit
  /\ way \in {"files", "forms", "pin", "photos"}
  /\ way # "forms" => page = "details"
  /\ way # "pin" => stored = NoPin

SubmissionsNext ==
  /\ UNCHANGED way
  /\ \/ way = "files" /\ Next /\ UNCHANGED <<pgVars, pinVars, attVars>>
     \/ way = "forms" /\ PgNext /\ UNCHANGED <<vars, pinVars, attVars>>
     \/ way = "pin" /\ PinNext /\ UNCHANGED <<vars, pgVars, attVars>>
     \/ way = "photos" /\ AttNext /\ UNCHANGED <<vars, pgVars, pinVars>>

SubmissionsSpec == SubmissionsInit /\ [][SubmissionsNext]_submissionVars

-----------------------------------------------------------------------------
(* What was handed in is told of as it is: on every page, and of every     *)
(* photo.                                                                  *)
HandedInIsKept == PageTells /\ AttachmentsKept

=============================================================================
