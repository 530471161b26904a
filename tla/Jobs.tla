-------------------------------- MODULE Jobs --------------------------------
(***************************************************************************)
(* The notifications, a recurring rule and a savings goal of one user, and *)
(* the scheduler: the nightly jobs and the requests of the user run at the *)
(* same time, one statement at a time, and may be lost half-way.           *)
(***************************************************************************)
EXTENDS Recurrences, Goals

vars == <<noticeVars, ruleVars, goalVars, now, req, bounds>>

-----------------------------------------------------------------------------
(* The two meet in the notifications only: an instance has one of them. *)
Init == NoticeInit /\ RuleInit /\ GoalInit /\ (rule = NoRule \/ goal = NoGoal)

Tick ==
  /\ now + 1 \in Days /\ now' = now + 1
  /\ UNCHANGED <<noticeVars, ruleVars, goalVars, req, bounds>>

(* The process stops, or a statement fails: the rest is not executed. *)
Lose(w) ==
  /\ req[w] # Idle /\ faults < MaxFaults /\ faults' = faults + 1
  /\ LoseRule(w) /\ LoseGoal(w) /\ Ends(w)
  /\ UNCHANGED <<noticeVars, now, started>>

Step(w) ==
  \/ RuleStep(w) /\ UNCHANGED <<goalVars, now>>
  \/ GoalStep(w) /\ UNCHANGED <<ruleVars, now>>
  \/ Lose(w)

Next ==
  \/ NoticeNext /\ UNCHANGED <<ruleVars, goalVars, now>>
  \/ \E w \in Workers : Step(w)
  \/ RuleRequest /\ UNCHANGED <<noticeVars, goalVars, now>>
  \/ GoalRequest /\ UNCHANGED <<noticeVars, ruleVars, now>>
  \/ Tick

Spec == Init /\ [][Next]_vars

=============================================================================
