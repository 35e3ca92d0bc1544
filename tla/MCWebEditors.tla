----------------------------- MODULE MCWebEditors -----------------------------
(***************************************************************************)
(* The playground and the price editor of the web console for TLC.  They   *)
(* share no state: `app` says which page is open, the other one rests.     *)
(***************************************************************************)
EXTENDS Playground, PricingEditor

VARIABLE app

vars == <<app, chatVars, pricingVars>>

PricingRests ==
  /\ opt = Unset /\ locked = FALSE /\ first = Unset /\ m = BuildModelState(Unset) /\ ed = Closed
  /\ behind = {} /\ out = NoOut /\ priceEdits = 0 /\ submits = 0 /\ losses = 0
  /\ repriced = FALSE /\ synced = TRUE

Init ==
  \/ app = "playground" /\ ChatInit /\ PricingRests
  \/ app = "prices"     /\ ChatInit /\ PricingInit

Next ==
  /\ app' = app
  /\ \/ app = "playground" /\ ChatNext    /\ UNCHANGED pricingVars
     \/ app = "prices"     /\ PricingNext /\ UNCHANGED chatVars

Spec == Init /\ [][Next]_vars
===============================================================================
