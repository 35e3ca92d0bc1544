---------------------------- MODULE MCWebConsole ----------------------------
(***************************************************************************)
(* The pages of the web console for TLC.  Pages share no state: `app` says *)
(* which one is open, the variables of the others rest.                    *)
(***************************************************************************)
EXTENDS SettingsForm, ConsoleTable, ModelTest, EditDialog

VARIABLE app

vars == <<app, formVars, tableVars, testVars, dialogVars>>

FormRests ==
  /\ card = DiffCard /\ stored = [k \in card.keys |-> 1]
  /\ options = <<>> /\ inputs = <<>> /\ inputsRow = <<>> /\ saves = <<>>
  /\ get = [st |-> "idle", listing |-> <<>>]
  /\ loading = FALSE /\ busy = FALSE /\ listed = FALSE /\ stale = FALSE
  /\ edits = 0 /\ refreshes = 0 /\ faults = 0

TableRests ==
  /\ table = MjLogs /\ kw = 0 /\ query = 0 /\ page = 1
  /\ rows = Listing(1, 0) /\ last = rows
  /\ spin = {} /\ calls = {} /\ upset = {}
  /\ issued = 0 /\ newest = 0 /\ misses = 0

DialogRests ==
  /\ modal = EditVendorModal /\ editing = New /\ fields = Blank /\ meant = New
  /\ shown = FALSE /\ touched = FALSE /\ waits = FALSE
  /\ loads = {} /\ puts = {} /\ upsets = {} /\ kept = [r \in Records |-> r]
  /\ timers = 0 /\ opens = 0 /\ errs = 0

Init ==
  \/ app = "form"   /\ FormInit  /\ TableRests /\ TestInit /\ DialogRests
  \/ app = "table"  /\ FormRests /\ TableInit  /\ TestInit /\ DialogRests
  \/ app = "tests"  /\ FormRests /\ TableRests /\ TestInit /\ DialogRests
  \/ app = "dialog" /\ FormRests /\ TableRests /\ TestInit /\ DialogInit

Next ==
  /\ app' = app
  /\ \/ app = "form"   /\ FormNext   /\ UNCHANGED <<tableVars, testVars, dialogVars>>
     \/ app = "table"  /\ TableNext  /\ UNCHANGED <<formVars, testVars, dialogVars>>
     \/ app = "tests"  /\ TestNext   /\ UNCHANGED <<formVars, tableVars, dialogVars>>
     \/ app = "dialog" /\ DialogNext /\ UNCHANGED <<formVars, tableVars, testVars>>

\* Calls are answered and handled, timers fire: what the user cannot hold up.
Goes ==
  /\ app' = app
  /\ \/ app = "form"   /\ Handles    /\ UNCHANGED <<tableVars, testVars, dialogVars>>
     \/ app = "table"  /\ Answers    /\ UNCHANGED <<formVars, testVars, dialogVars>>
     \/ app = "tests"  /\ TestsGo    /\ UNCHANGED <<formVars, tableVars, dialogVars>>
     \/ app = "dialog" /\ DialogGoes /\ UNCHANGED <<formVars, tableVars, testVars>>

Spec == Init /\ [][Next]_vars /\ WF_vars(Goes)

-----------------------------------------------------------------------------
\* Every page comes to rest, whatever calls fail: the spinners of settings,
\* tables and dialogs stop (where the page catches the error), every batch of
\* model tests ends, stopped or not, and gives the dialog back.
PagesSettle == <>[](NoSpinner /\ Stopped /\ AllOver /\ DialogSettled)
=============================================================================
