------------------------------- MODULE Goals -------------------------------
(***************************************************************************)
(* `goals.service.ts`: one savings goal, its contributions (each counts 1) *)
(* and the transfers made for them.                                        *)
(***************************************************************************)
EXTENDS Notices

CONSTANTS
  Contributions, \* ids the client chooses
  Targets        \* target amounts

ASSUME GoalAssumption == Targets \subseteq Nat \ {0} /\ IsFiniteSet(Contributions)

VARIABLES
  goal,         \* the row
  contribution, \* the rows, and the transfer each one points to
  loose,        \* live transfers of an id that no row points to
  torn,         \* history: ids with a request that was cut, overlapped or refused half-way
  crossed,      \* history: a contribution changed between a sum and its write
  retargeted    \* history: the user changed the goal, and no recomputation since read it alone

goalHistory == <<torn, crossed, retargeted>>
goalVars == <<goal, contribution, loose, goalHistory>>

-----------------------------------------------------------------------------
NoGoal == [state |-> "none", status |-> "ACTIVE", target |-> 0, current |-> 0]

NoContribution == [state |-> "none", transfer |-> "none"]

LiveRow(c) == contribution[c].state = "live"

Total == Cardinality({c \in Contributions : LiveRow(c)})

Sum == Total

Adding(v, c) == req[v].kind \in {"mark", "transfer"} /\ req[v].at = c
                  /\ req[v].pc \in {"transfer", "insertRow"}

-----------------------------------------------------------------------------
(* addContribution(): a simple marking, or with fromAccountId a transfer.  *)
AddContribution(w, c, kind) ==
  /\ goal.state # "none"
  /\ Begins(w, [Idle EXCEPT !.kind = kind, !.pc = "replay", !.at = c])
  /\ UNCHANGED goalVars

NoReplay(c) == FALSE

Replay(c) == LiveRow(c)

FindReplay(w) ==
  LET c == req[w].at IN
  /\ req[w].pc = "replay"
  /\ IF Replay(c) \/ goal.state # "live"
     THEN Ends(w) /\ UNCHANGED torn
     ELSE /\ Goes(w, IF req[w].kind = "transfer" THEN "transfer" ELSE "insertRow")
          /\ torn' = IF \E v \in Workers \ {w} : Adding(v, c) THEN torn \union {c} ELSE torn
  /\ UNCHANGED <<goal, contribution, loose, crossed, retargeted, bounds>>

Transfer(w) ==
  /\ At(w, "transfer", "transfer")
  /\ loose' = [loose EXCEPT ![req[w].at] = @ + 1]
  /\ Enters
  /\ Goes(w, "insertRow")
  /\ UNCHANGED <<goal, contribution, goalHistory, bounds>>

Recomputing == {"readGoal", "readSum", "writeGoal"}

(* A sum that was read before this change will be written after it. *)
Crosses(w) == crossed \/ \E v \in Workers \ {w} : req[v].pc = "writeGoal"

(* The id of a row that was deleted is taken too: the insert is refused,   *)
(* and the transfer stays.                                                 *)
InsertContribution(w) ==
  LET c == req[w].at  paid == req[w].kind = "transfer" IN
  /\ req[w].pc = "insertRow"
  /\ IF contribution[c].state = "none"
     THEN /\ contribution' = [contribution EXCEPT ![c] =
                [state |-> "live", transfer |-> IF paid THEN "live" ELSE "none"]]
          /\ loose' = IF paid THEN [loose EXCEPT ![c] = @ - 1] ELSE loose
          /\ crossed' = Crosses(w)
          /\ Goes(w, "readGoal")
          /\ UNCHANGED torn
     ELSE /\ torn' = IF LiveRow(c) THEN torn ELSE torn \union {c}
          /\ Ends(w)
          /\ UNCHANGED <<contribution, loose, crossed>>
  /\ UNCHANGED <<goal, retargeted, bounds>>

-----------------------------------------------------------------------------
(* removeContribution() *)

RemoveContribution(w, c) ==
  /\ LiveRow(c)
  /\ Begins(w, [Idle EXCEPT !.kind = "withdraw", !.at = c,
                !.pc = IF contribution[c].transfer = "none" THEN "deleteRow" ELSE "removeTransfer"])
  /\ UNCHANGED goalVars

(* The ledger refuses a transfer it no longer has: the contribution stays. *)
RemoveTransfer(w) ==
  LET c == req[w].at IN
  /\ req[w].pc = "removeTransfer"
  /\ IF contribution[c].transfer = "live"
     THEN contribution' = [contribution EXCEPT ![c].transfer = "gone"] /\ Goes(w, "deleteRow")
     ELSE Ends(w) /\ UNCHANGED contribution
  /\ UNCHANGED <<goal, loose, goalHistory, bounds>>

DeleteContribution(w) ==
  /\ At(w, "withdraw", "deleteRow")
  /\ contribution' = [contribution EXCEPT ![req[w].at].state = "deleted"]
  /\ crossed' = Crosses(w)
  /\ Goes(w, "readGoal")
  /\ UNCHANGED <<goal, loose, torn, retargeted, bounds>>

-----------------------------------------------------------------------------
(* recomputeCurrent() *)

ReadGoal(w) ==
  /\ req[w].pc = "readGoal"
  /\ IF goal.state = "live"
     THEN req' = [req EXCEPT ![w].pc = "readSum", ![w].saw = {goal}]
     ELSE Ends(w)
  /\ UNCHANGED <<goalVars, bounds>>

ReadSum(w) ==
  /\ req[w].pc = "readSum"
  /\ req' = [req EXCEPT ![w].pc = "writeGoal", ![w].saw = {[g EXCEPT !.current = Sum] : g \in @}]
  /\ UNCHANGED <<goalVars, bounds>>

(* Another recomputation is on its way, and may have read a goal that was  *)
(* changed since, and its target.                                          *)
Others(w) == \E v \in Workers \ {w} : req[v].pc \in Recomputing

Status(g) ==
  CASE g.current >= g.target /\ g.status = "ACTIVE" -> "COMPLETED"
    [] g.current < g.target /\ g.status = "COMPLETED" -> "ACTIVE"
    [] OTHER -> g.status

(* The status is part of the update only when it changes. *)
WriteGoal(w) ==
  LET g == CHOOSE x \in req[w].saw : TRUE
      changes == Status(g) # g.status IN
  /\ req[w].pc = "writeGoal"
  /\ goal' = [goal EXCEPT !.current = g.current, !.status = IF changes THEN Status(g) ELSE @]
  /\ IF Status(g) = "COMPLETED" /\ changes THEN Notifies(w, <<"goal", 0>>, "idle") ELSE Ends(w)
  /\ retargeted' = (retargeted /\ \/ <<g.status, g.target>> # <<goal.status, goal.target>>
                                  \/ Others(w))
  /\ crossed' = (crossed /\ \/ <<g.status, g.current>> # <<goal.status, Total>>
                            \/ Others(w))
  /\ UNCHANGED <<contribution, loose, torn, bounds>>

-----------------------------------------------------------------------------
(* update(), remove(); the user deletes a transfer in the ledger. *)

UpdateGoal(target, status) ==
  /\ goal.state = "live" /\ Counts
  /\ goal' = [goal EXCEPT !.target = target, !.status = status]
  /\ goal' # goal
  /\ retargeted' = TRUE
  /\ UNCHANGED <<contribution, loose, torn, crossed>>

RemoveGoal ==
  /\ goal.state = "live" /\ Counts
  /\ goal' = [goal EXCEPT !.state = "deleted"]
  /\ UNCHANGED <<contribution, loose, goalHistory>>

DeleteTransfer(c) ==
  /\ contribution[c].transfer = "live" /\ Counts
  /\ contribution' = [contribution EXCEPT ![c].transfer = "gone"]
  /\ torn' = torn \union {c}
  /\ UNCHANGED <<goal, loose, crossed, retargeted>>

-----------------------------------------------------------------------------
GoalInit ==
  /\ \/ goal = NoGoal
     \/ \E t \in Targets : goal = [NoGoal EXCEPT !.state = "live", !.target = t]
  /\ contribution = [c \in Contributions |-> NoContribution]
  /\ loose = [c \in Contributions |-> 0]
  /\ torn = {} /\ crossed = FALSE /\ retargeted = FALSE

GoalStep(w) ==
  \/ (\/ FindReplay(w) \/ InsertContribution(w) \/ RemoveTransfer(w) \/ DeleteContribution(w)
      \/ ReadGoal(w) \/ ReadSum(w) \/ WriteGoal(w)
      \/ \E c \in Contributions :
           RemoveContribution(w, c) \/ \E k \in {"mark", "transfer"} : AddContribution(w, c, k))
     /\ UNCHANGED noticeVars
  \/ Transfer(w) /\ UNCHANGED quiet

GoalRequest ==
  \/ RemoveGoal \/ \E c \in Contributions : DeleteTransfer(c)
  \/ \E t \in Targets, s \in {"ACTIVE", "ABANDONED", goal.status} : UpdateGoal(t, s)

(* A request that is lost here has changed the ledger and not the row.     *)
Half(w) == \/ At(w, "transfer", "insertRow")
           \/ At(w, "withdraw", "deleteRow") /\ contribution[req[w].at].transfer = "gone"

LoseGoal(w) ==
  /\ torn' = IF Half(w) THEN torn \union {req[w].at} ELSE torn
  /\ crossed' = (crossed \/ req[w].pc \in Recomputing)
  /\ UNCHANGED <<goal, contribution, loose, retargeted>>

-----------------------------------------------------------------------------
(* Properties *)

(* RG-G1, RG-G4: when nothing is being recomputed, currentMinor is the sum *)
(* of the live contributions and the status is what it says: unless a      *)
(* contribution changed while the sum was on its way (or the recomputation *)
(* was lost), or the goal was changed, which recomputes nothing.           *)
GoalExplained ==
  goal.state = "live" /\ (\A w \in Workers : req[w].pc \notin Recomputing) =>
    /\ ~crossed => goal.current = Total
    /\ ~crossed /\ ~retargeted => (goal.status = "COMPLETED" <=> goal.current >= goal.target)
                                     \/ goal.status = "ABANDONED"

(* RG-G5: a transfer is in the ledger if and only if its contribution is   *)
(* there, however often requests are repeated: unless one was lost between *)
(* the two or met another for the same id, the id was that of a deleted    *)
(* contribution, or the user deleted the transfer in the ledger.           *)
MoneyFollows ==
  \A c \in Contributions :
    c \in torn \/ (\E w \in Workers : req[w].at = c /\ Half(w)) \/
    (loose[c] = 0 /\ (LiveRow(c) => contribution[c].transfer # "gone")
                  /\ (contribution[c].state = "deleted" => contribution[c].transfer # "live"))

(* What a goal shows and what the ledger holds for it.                     *)
GoalsKept == GoalExplained /\ MoneyFollows

=============================================================================
