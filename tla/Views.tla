-------------------------------- MODULE Views --------------------------------
(***************************************************************************)
(* What one user looks at and files: the page of transactions, the         *)
(* categories, the forecast, the answers kept by the browser.  They share  *)
(* nothing but the ledger, which is left out here: an instance has one of  *)
(* them.                                                                   *)
(***************************************************************************)
EXTENDS Screens, Categories, Forecasts, Offline

VARIABLE part

viewVars == <<vars, catVars, fcVars, offVars, part>>

-----------------------------------------------------------------------------
ViewsInit ==
  /\ Init /\ CatInit /\ FcInit /\ OffInit
  /\ part \in {"page", "categories", "forecast", "offline"}

ViewsNext ==
  /\ UNCHANGED part
  /\ \/ part = "page" /\ Next /\ UNCHANGED <<catVars, fcVars, offVars>>
     \/ part = "categories" /\ CatNext /\ UNCHANGED <<vars, fcVars, offVars>>
     \/ part = "forecast" /\ FcNext /\ UNCHANGED <<vars, catVars, offVars>>
     \/ part = "offline" /\ OffNext /\ UNCHANGED <<vars, catVars, fcVars>>

ViewsSpec == ViewsInit /\ [][ViewsNext]_viewVars

=============================================================================
