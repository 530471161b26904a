------------------------------ MODULE Forecasts ------------------------------
(***************************************************************************)
(* The cash-flow forecast of one user (`forecasting`): computed from the   *)
(* net worth and then from the history, the recurrences and the debts,     *)
(* kept in memory by horizon, dropped by events.  A forecast is what it    *)
(* knows of the changes that were committed; amounts are left out.  A      *)
(* scenario is computed in the same way and never kept.                    *)
(***************************************************************************)
EXTENDS Naturals, FiniteSets

CONSTANTS
  Horizons,     \* numbers of months that are asked for
  Readers,      \* requests served at the same time
  MaxChanges, MaxViews  \* bounds

ASSUME ForecastsAssumption == {MaxChanges, MaxViews} \subseteq Nat

VARIABLES
  committed,    \* changes 1..n of what the forecast is made of
  announced,    \* those whose event came
  kept,         \* cache: horizon -> the forecast
  view,         \* reader -> what it is computing
  views

fcVars == <<committed, announced, kept, view, views>>

-----------------------------------------------------------------------------
Changes == 1..committed

(* worth, rest: the changes that were committed when the net worth, and    *)
(* the rest, were read; unheard (history): the events that came meanwhile. *)
Nothing == [at |-> "none", horizon |-> 0, worth |-> {}, rest |-> {}, unheard |-> {}]

(* A transaction, a budget alert or a debt paid off is announced after its *)
(* commit; recurrences, accounts and unbooked payments never are.          *)
Change ==
  /\ committed < MaxChanges /\ committed' = committed + 1
  /\ UNCHANGED <<announced, kept, view, views>>

OneDropped(cache) == [cache EXCEPT ![CHOOSE h \in Horizons : TRUE] = Nothing]

(* invalidateForUser(): every horizon. *)
Dropped(cache) == [h \in Horizons |-> Nothing]

Announce(n) ==
  /\ n \in Changes \ announced /\ announced' = announced \union {n}
  /\ kept' = Dropped(kept)
  /\ view' = [v \in Readers |-> IF view[v] = Nothing THEN Nothing
                                ELSE [view[v] EXCEPT !.unheard = @ \union {n}]]
  /\ UNCHANGED <<committed, views>>

-----------------------------------------------------------------------------
(* cashflowForecast(), loadForecastInputs() *)

(* Nothing is kept for the horizon, or it has expired. *)
ReadWorth(v, h) ==
  /\ view[v] = Nothing /\ kept[h] = Nothing
  /\ views < MaxViews /\ views' = views + 1
  /\ view' = [view EXCEPT ![v] = [Nothing EXCEPT !.at = "rest", !.horizon = h, !.worth = Changes]]
  /\ UNCHANGED <<committed, announced, kept>>

ReadRest(v) ==
  /\ view[v].at = "rest"
  /\ view' = [view EXCEPT ![v].at = "keep", ![v].rest = Changes]
  /\ UNCHANGED <<committed, announced, kept, views>>

(* Whatever was dropped since the first read. *)
Keep(v) ==
  /\ view[v].at = "keep"
  /\ kept' = [kept EXCEPT ![view[v].horizon] = [view[v] EXCEPT !.at = "kept"]]
  /\ view' = [view EXCEPT ![v] = Nothing]
  /\ UNCHANGED <<committed, announced, views>>

(* A read fails. *)
GiveUp(v) ==
  /\ view[v] # Nothing /\ view' = [view EXCEPT ![v] = Nothing]
  /\ UNCHANGED <<committed, announced, kept, views>>

(* CACHE_TTL_MS *)
Expire(h) ==
  /\ kept[h] # Nothing /\ kept' = [kept EXCEPT ![h] = Nothing]
  /\ UNCHANGED <<committed, announced, view, views>>

-----------------------------------------------------------------------------
FcInit ==
  /\ committed = 0 /\ announced = {} /\ views = 0
  /\ kept = [h \in Horizons |-> Nothing] /\ view = [v \in Readers |-> Nothing]

FcNext ==
  \/ Change \/ \E n \in Changes : Announce(n)
  \/ \E h \in Horizons : Expire(h) \/ \E v \in Readers : ReadWorth(v, h)
  \/ \E v \in Readers : ReadRest(v) \/ Keep(v) \/ GiveUp(v)

FcSpec == FcInit /\ [][FcNext]_fcVars

-----------------------------------------------------------------------------
(* Properties *)

(* RG-F1: a forecast that is kept knows every change that was announced,   *)
(* on both sides of its sum, but those announced while it was computed.    *)
ForecastFresh ==
  \A h \in Horizons : kept[h] # Nothing =>
    announced \subseteq (kept[h].worth \intersect kept[h].rest) \union kept[h].unheard

=============================================================================
