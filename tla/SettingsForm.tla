----------------------------- MODULE SettingsForm -----------------------------
(***************************************************************************)
(* One card of a settings screen of the web console: a form over some      *)
(* options of the server (web/src/pages/Setting), under the screen that    *)
(* lists the options for all its cards (web/src/components/settings).      *)
(*                                                                         *)
(* The screen keeps the options of its last listing in `options` and hands *)
(* them to its cards; a card copies its own into `inputs` (the form) and   *)
(* `inputsRow` (what was loaded), sends the options that differ, one PUT   *)
(* per option and all at once, and asks the screen to list again when they *)
(* succeed.  Other cards of the screen ask for the same listing, and the   *)
(* console's HTTP client merges equal GETs that are in flight              *)
(* (web/src/helpers/api.js).                                               *)
(*                                                                         *)
(* The cards follow one template and differ in a few points; `card` is     *)
(* chosen among the descriptions below, one per file.  Options are reduced *)
(* to five: two plain ones, one the server never lists (a secret), one that *)
(* is not sent when it is empty and one the screen does not know before its *)
(* first listing.  Value 0 is the empty text, the number zero or a card's   *)
(* own default, 2 and 3 are two spellings of one value (the layout of a     *)
(* JSON text, the order of a list of status codes), 4 is a text that does   *)
(* not parse.  Switches are sent as 'true' and 'false' and read back by     *)
(* toBoolean: one value stands for both forms.  Wording, layout and the     *)
(* local checks of a form that refuse a text before anything is sent are    *)
(* left out.                                                                *)
(***************************************************************************)
EXTENDS Naturals, Sequences

CONSTANTS
  MaxRounds,     \* bound: saves, and listings asked for by the other cards
  MaxEdits,      \* bound: changes made in the form
  MaxFaults      \* bound: calls that fail or that the server refuses

VARIABLES
  card,       \* the description of the card, fixed
  stored,     \* the options as the server has them
  options,    \* state `inputs` of the screen, the props of its cards
  inputs,     \* the form
  inputsRow,  \* the options as the card loaded them (originInputs in payment cards)
  loading,    \* the card shows its spinner
  busy,       \* state `loading` of the screen
  saves,      \* the saves made: what each sends, the state of its PUTs, its outcome
  get,        \* the listing in flight: idle, sent, or read by the server
  listed,     \* a listing has been shown
  stale,      \* ghost: a save asked for a listing the server had already read
  edits, refreshes, faults  \* counters of the bounds

formVars == <<card, stored, options, inputs, inputsRow, loading, busy, saves, get,
          listed, stale, edits, refreshes, faults>>

Plain  == "plain"
Other  == "other"
Secret == "secret"
Late   == "late"
Optional  == "optional"
Elsewhere == "elsewhere"  \* an option of some other card

\* One spelling of a value: JSON.stringify(JSON.parse(v)), a sorted list.
Canon(v) == IF v = 3 THEN 2 ELSE v

-----------------------------------------------------------------------------
(* The cards.  keys: its options.  always: those sent on every save, a     *)
(* secret only when the form has one.  checks: looks at `success` in every *)
(* answer.  rebases: takes the form it sent as loaded.  waits: keeps its   *)
(* spinner until the listing ends.  loads: how the form is filled.  fills: *)
(* options copied even if the form lost them.  screen: how the screen uses *)
(* a listing.  spell: where one spelling is chosen.  reads: which listed   *)
(* values the form shows, all of them or not.                              *)

DiffCard == [keys |-> {Plain, Other}, always |-> {}, checks |-> FALSE,
             rebases |-> FALSE, waits |-> FALSE, loads |-> "known",
             fills |-> {}, screen |-> "replace", spell |-> {},
             reads |-> "all"]

SettingsSensitiveWords == DiffCard
SettingsCheckin == DiffCard
SettingsCreditLimit == DiffCard
SettingsDrawing == DiffCard
DataDashboard == DiffCard
SettingsLog == [DiffCard EXCEPT !.loads = "keep"]
SettingsMonitoring == [DiffCard EXCEPT !.spell = {"save"}]
\* Mutant: only the options the form already had are copied.
GeneralSettingsKnown == [DiffCard EXCEPT !.keys = {Plain, Late}]

GeneralSettings == [DiffCard EXCEPT !.keys = {Plain, Late}, !.fills = {Late}]
SettingsPerformance ==
  [DiffCard EXCEPT !.keys = {Plain, Late}, !.loads = "keep", !.reads = "nonzero"]
SettingsChannelAffinity ==
  [DiffCard EXCEPT !.keys = {Late}, !.loads = "keep", !.spell = {"save", "load"}]
RequestRateLimit == [DiffCard EXCEPT !.checks = TRUE, !.spell = {"load"}]
ModelRatioSettings == [DiffCard EXCEPT !.checks = TRUE, !.spell = {"load"}]
GroupRatioSettings ==
  [DiffCard EXCEPT !.checks = TRUE, !.loads = "listed", !.spell = {"load"}]
SettingClaudeModel == [DiffCard EXCEPT !.spell = {"load"}]
SettingsChats == [DiffCard EXCEPT !.spell = {"load"}]
SettingGrokModel == [DiffCard EXCEPT !.loads = "every"]
SettingGeminiModel == [DiffCard EXCEPT !.loads = "every", !.spell = {"load"}]
SettingGlobalModel ==
  [DiffCard EXCEPT !.loads = "every", !.spell = {"load"}, !.reads = "parsed"]
SettingModelDeployment ==
  [DiffCard EXCEPT !.keys = {Plain, Secret}, !.rebases = TRUE, !.loads = "every",
                   !.screen = "fill"]

SettingsHeaderNavModules ==
  [DiffCard EXCEPT !.keys = {Plain}, !.always = {Plain}, !.checks = TRUE,
                   !.waits = TRUE, !.loads = "keep", !.reads = "nonzero"]
SettingsSidebarModulesAdmin == SettingsHeaderNavModules

SettingsGeneralPayment ==
  [DiffCard EXCEPT !.keys = {Other, Optional}, !.always = {Optional}, !.checks = TRUE,
                   !.rebases = TRUE, !.loads = "every", !.screen = "merge", !.spell = {"load"}]
SettingsPaymentGateway ==
  [DiffCard EXCEPT !.keys = {Optional, Secret}, !.always = {Optional, Secret},
                   !.checks = TRUE, !.loads = "every", !.screen = "merge"]
SettingsPaymentGatewayStripe == [SettingsPaymentGateway EXCEPT !.rebases = TRUE]
SettingsPaymentGatewayCreem ==
  [SettingsPaymentGateway EXCEPT !.keys = {Plain, Secret}, !.always = {Plain, Secret}, !.rebases = TRUE]
SettingsPaymentGatewayWaffo ==
  [SettingsPaymentGateway EXCEPT !.keys = {Plain, Secret}, !.always = {Plain, Secret}, !.reads = "one"]

Cards ==
  {SettingsSensitiveWords, SettingsCheckin, SettingsCreditLimit, SettingsDrawing,
   DataDashboard, SettingsLog, SettingsMonitoring, GeneralSettings,
   SettingsPerformance, SettingsChannelAffinity, RequestRateLimit,
   ModelRatioSettings, GroupRatioSettings, SettingClaudeModel, SettingsChats,
   SettingGrokModel, SettingGeminiModel, SettingGlobalModel,
   SettingModelDeployment, SettingsHeaderNavModules, SettingsSidebarModulesAdmin,
   SettingsGeneralPayment, SettingsPaymentGateway, SettingsPaymentGatewayStripe,
   SettingsPaymentGatewayCreem, SettingsPaymentGatewayWaffo}

-----------------------------------------------------------------------------
(* Listing.                                                                *)

\* { ...g, ...f }
Spread(f, g) == [k \in DOMAIN f \cup DOMAIN g |-> IF k \in DOMAIN f THEN f[k] ELSE g[k]]

\* What the screen holds before its first listing.
Defaults(c) == [k \in c.keys \ {Late} |-> 0]

\* getOptions of a screen: what becomes of a listing.
ScreenOptions(c, known, listing) ==
  CASE c.screen = "replace" -> listing
    [] c.screen = "merge"   -> Spread(listing, known)
    [] c.screen = "fill"    -> Spread(listing, Defaults(c))

\* The values a card cannot show: a number of 0 where the code writes parseInt(v) || x,
\* an empty text of a menu, a text that JSON.parse throws for.
Unread(c) ==
  CASE c.reads \in {"nonzero", "one"} -> {0} [] c.reads = "parsed" -> {4} [] OTHER -> {}

\* What it shows for them: what the form had, 1, or its default.
Instead(c, had) ==
  CASE c.reads = "nonzero" -> had [] c.reads = "one" -> 1 [] OTHER -> 0

\* bound: what the user types, enough to empty or change a field, to give it another
\* spelling (where the card chooses one) or to put back what was there, or a text that
\* does not parse (where the card does not look).  The menus are never empty.
Typed(c, k) ==
  CASE k = Secret -> {0, 2}
    [] k = Other -> {3}
    [] OTHER -> {IF c.spell = {} THEN 1 ELSE 3, IF c.waits THEN 3 ELSE 0} \cup (Unread(c) \ {0})

\* The effect of a card on [props.options]: the form from the screen's options.
FormOf(c, form, opts) ==
  LET Shown(k) == IF opts[k] \in Unread(c) THEN Instead(c, form[k])
                  ELSE IF "load" \in c.spell THEN Canon(opts[k]) ELSE opts[k]
      had  == DOMAIN form
      here == c.keys \cap DOMAIN opts
  IN CASE c.loads = "known"  -> [k \in (had \cap here) \cup (c.fills \cap here) |-> Shown(k)]
       [] c.loads = "listed" -> [k \in here |-> Shown(k)]
       [] c.loads = "every"  -> [k \in c.keys |-> IF k \in here THEN Shown(k) ELSE 0]
       [] c.loads = "keep"   -> [k \in c.keys |-> IF k \in here THEN Shown(k) ELSE form[k]]

\* API.get('/api/option/') of onRefresh: joins the same GET if one is in flight.
OnRefresh ==
  /\ get' = IF get.st = "idle" THEN [st |-> "sent", listing |-> <<>>] ELSE get
  /\ busy' = TRUE

\* Another card of the screen was saved.
RefreshOther ==
  /\ Len(saves) + refreshes < MaxRounds
  /\ refreshes' = refreshes + 1
  /\ OnRefresh
  /\ UNCHANGED <<card, stored, options, inputs, inputsRow, loading, saves,
                 listed, stale, edits, faults>>

\* GetOptions of the server: every option but the secrets.
ServerLists ==
  /\ get.st = "sent"
  /\ get' = [st |-> "read", listing |-> Spread([k \in card.keys \ {Secret} |-> stored[k]],
                                               [k \in {Elsewhere} |-> 1])]
  /\ UNCHANGED <<card, stored, options, inputs, inputsRow, loading, busy, saves,
                 listed, stale, edits, refreshes, faults>>

\* The end of onRefresh, and of the saves that waited for it.
RefreshEnds ==
  /\ get' = [st |-> "idle", listing |-> <<>>]
  /\ busy' = FALSE
  /\ loading' = (loading /\ \A i \in DOMAIN saves : saves[i].st # "waits")
  /\ saves' = [i \in DOMAIN saves |->
                 IF saves[i].st = "waits" THEN [saves[i] EXCEPT !.st = "saved"] ELSE saves[i]]

\* getOptions: the listing arrives, every card fills its form anew.
GetOptions ==
  /\ get.st = "read"
  /\ LET opts == ScreenOptions(card, options, get.listing)
     IN /\ options' = opts
        /\ inputs' = FormOf(card, inputs, opts)
        /\ inputsRow' = FormOf(card, inputs, opts)
  /\ listed' = TRUE
  /\ RefreshEnds
  /\ UNCHANGED <<card, stored, stale, edits, refreshes, faults>>

\* onRefresh: the listing fails, the options stay.
GetOptionsFails ==
  /\ get.st # "idle"
  /\ faults < MaxFaults
  /\ faults' = faults + 1
  /\ RefreshEnds
  /\ UNCHANGED <<card, stored, options, inputs, inputsRow, listed, stale, edits, refreshes>>

-----------------------------------------------------------------------------
(* Editing and saving.                                                     *)

\* handleFieldChange and the onChange handlers; the spinners cover the form
\* but disable nothing.
Edit(k, v) ==
  /\ edits < MaxEdits
  /\ ~ (k \in DOMAIN inputs /\ inputs[k] = v)
  /\ edits' = edits + 1
  /\ inputs' = Spread([x \in {k} |-> v], inputs)
  /\ UNCHANGED <<card, stored, options, inputsRow, loading, busy, saves, get,
                 listed, stale, refreshes, faults>>

\* compareObjects: an option counts only if both objects have it.
Changed(form, row) == {k \in DOMAIN form \cap DOMAIN row : form[k] # row[k]}

\* The options of a save.
ToSend(c, form, row) ==
  {k \in c.always \cap DOMAIN form : k \in {Secret, Optional} => form[k] # 0}
    \cup (Changed(form, row) \ c.always)

\* The value a card sends for one in its form.
ValueOf(c, v) ==
  IF c.reads = "one" /\ v = 0 THEN 1 ELSE IF "save" \in c.spell THEN Canon(v) ELSE v

\* onSubmit up to Promise.all: nothing to send only warns.
OnSubmit ==
  /\ Len(saves) + refreshes < MaxRounds
  /\ LET keys == ToSend(card, inputs, inputsRow)
     IN /\ keys # {}
        /\ saves' = Append(saves, [sent |-> [k \in keys |-> ValueOf(card, inputs[k])],
                                   put  |-> [k \in keys |-> "sent"],
                                   form |-> IF card.rebases THEN inputs ELSE <<>>,
                                   st   |-> "run"])
  /\ loading' = TRUE
  /\ UNCHANGED <<card, stored, options, inputs, inputsRow, busy, get,
                 listed, stale, edits, refreshes, faults>>

\* The server takes an option.
PutTaken(i, k) ==
  /\ saves[i].put[k] = "sent"
  /\ stored' = [stored EXCEPT ![k] = saves[i].sent[k]]
  /\ saves' = [saves EXCEPT ![i].put[k] = "ok"]
  /\ UNCHANGED <<card, options, inputs, inputsRow, loading, busy, get,
                 listed, stale, edits, refreshes, faults>>

\* The server answers success: false, or the call fails, before or after the server
\* has saved the option (it saves a value before it applies it).
PutFails(i, k) ==
  /\ saves[i].put[k] = "sent"
  /\ faults < MaxFaults
  /\ faults' = faults + 1
  /\ \E a \in {"refused", "failed"} : saves' = [saves EXCEPT ![i].put[k] = a]
  /\ stored' \in {stored, [stored EXCEPT ![k] = saves[i].sent[k]]}
  /\ UNCHANGED <<card, options, inputs, inputsRow, loading, busy, get,
                 listed, stale, edits, refreshes>>

PutAnswers(s) == {s.put[k] : k \in DOMAIN s.put}

\* Promise.all rejects with the first call that failed, or some answer has
\* success: false and the card looks.
SaveFails(i) ==
  /\ saves[i].st = "run"
  /\ \/ "failed" \in PutAnswers(saves[i])
     \/ card.checks /\ "refused" \in PutAnswers(saves[i]) /\ "sent" \notin PutAnswers(saves[i])
  /\ saves' = [saves EXCEPT ![i].st = "failed"]
  /\ loading' = FALSE
  /\ UNCHANGED <<card, stored, options, inputs, inputsRow, busy, get,
                 listed, stale, edits, refreshes, faults>>

\* Mutant: a save is not followed by a listing.
SaveSucceedsAlone(i) ==
  /\ saves[i].st = "run"
  /\ PutAnswers(saves[i]) \subseteq (IF card.checks THEN {"ok"} ELSE {"ok", "refused"})
  /\ saves' = [saves EXCEPT ![i].st = "saved"]
  /\ inputsRow' = IF card.rebases THEN saves[i].form ELSE inputsRow
  /\ loading' = FALSE
  /\ UNCHANGED <<card, stored, options, inputs, busy, get, listed, stale, edits,
                 refreshes, faults>>

\* The then branch: the success message and props.refresh().
SaveSucceeds(i) ==
  /\ saves[i].st = "run"
  /\ PutAnswers(saves[i]) \subseteq (IF card.checks THEN {"ok"} ELSE {"ok", "refused"})
  /\ saves' = [saves EXCEPT ![i].st = IF card.waits THEN "waits" ELSE "saved"]
  /\ inputsRow' = IF card.rebases THEN saves[i].form ELSE inputsRow
  /\ loading' = (card.waits /\ loading)
  /\ OnRefresh
  /\ stale' = (stale \/ get.st = "read")
  /\ UNCHANGED <<card, stored, options, inputs, listed, edits, refreshes, faults>>

-----------------------------------------------------------------------------
\* The form before any option is known; defaults of a card are not empty where it reads 0
\* as nothing.
FirstForm(c) == [k \in c.keys |-> IF c.reads = "nonzero" THEN 2 ELSE 0]

\* The screen and its cards are mounted and the first listing is asked for.
FormInit ==
  /\ card \in Cards
  /\ \E v \in {1} \cup Unread(card) : stored = [k \in card.keys |-> IF k = Secret THEN 1 ELSE v]
  /\ options = Defaults(card)
  /\ inputs = FormOf(card, FirstForm(card), Defaults(card))
  /\ inputsRow = inputs
  /\ loading = FALSE
  /\ busy = TRUE
  /\ saves = <<>>
  /\ get = [st |-> "sent", listing |-> <<>>]
  /\ listed = FALSE
  /\ stale = FALSE
  /\ edits = 0 /\ refreshes = 0 /\ faults = 0

\* What happens without the user: calls are answered and handled.
Handles ==
  \/ ServerLists
  \/ GetOptions
  \/ \E i \in DOMAIN saves :
       \/ \E k \in DOMAIN saves[i].put : PutTaken(i, k)
       \/ SaveFails(i)
       \/ SaveSucceeds(i)

FormNext ==
  \/ RefreshOther
  \/ \E k \in card.keys : \E v \in Typed(card, k) : Edit(k, v)
  \/ OnSubmit
  \/ GetOptionsFails
  \/ \E i \in DOMAIN saves : \E k \in DOMAIN saves[i].put : PutFails(i, k)
  \/ Handles

FormSpec == FormInit /\ [][FormNext]_formVars /\ WF_formVars(Handles)

-----------------------------------------------------------------------------
(* Properties.                                                             *)

Quiet == get.st = "idle" /\ \A i \in DOMAIN saves : saves[i].st \in {"saved", "failed"}

\* A card that sends what changed never takes for unchanged an option whose
\* value the server does not have: otherwise the save button says that nothing
\* was modified and the value shown can never be saved.  It needs every call
\* to succeed, and no save to be answered by a listing read before it.  And it
\* leaves out the two cards that do this with values they cannot show: the
\* thresholds of SettingsPerformance when 0 is stored, the texts of
\* SettingGlobalModel when one is stored that does not parse.
CleanIsStored ==
  (Quiet /\ faults = 0 /\ ~stale) =>
    \A k \in (DOMAIN inputs \cap DOMAIN inputsRow) \ (card.always \cup {Secret}) :
      inputs[k] = inputsRow[k] /\ stored[k] \notin Unread(card)
        => Canon(inputs[k]) = Canon(stored[k])

\* Nothing of a card is lost.  Once a listing was shown, every option of the
\* card the server lists is in the form and in the copy it is compared with,
\* also the ones the screen did not know at first: a lost one could be edited
\* but would never be sent.  And the secret of a payment card, which the server
\* never lists and the form shows empty, survives every save of the others.
FieldsKept ==
  /\ listed => card.keys \ {Secret} \subseteq DOMAIN inputs \cap DOMAIN inputsRow
  /\ Secret \in card.always => stored[Secret] # 0

\* The spinners of the card and of the screen end, whatever calls fail.
NoSpinner == ~loading /\ ~busy
=============================================================================
