---------------------------- MODULE PricingEditor ----------------------------
(***************************************************************************)
(* The price of a model in the web console (web/src/pages/Setting/Ratio):  *)
(* the hook useModelPricingEditorState turns the ratios the server stores  *)
(* into prices, and back when all models are saved by one call per option; *)
(* for a model that is billed by an expression TieredPricingEditor shows a *)
(* form, or the text, and hands base and rules to the hook.                *)
(*                                                                         *)
(* One model is followed: options are maps by name and models do not meet. *)
(* audioIn stands for the prices of cache, cache creation and images too.  *)
(* Numbers are exact: the rounding of prices is left out.  A handler runs  *)
(* with the effects it causes as one step.                                 *)
(***************************************************************************)
EXTENDS BillingExpr, Integers

CONSTANTS
  MaxPriceEdits,   \* bound: changes the user makes
  MaxSubmits,      \* bound: saves
  MaxLosses        \* bound: saves of which some call fails, and refreshes by other cards

VARIABLES
  opt,        \* the options of the model on the server
  locked,     \* CompletionRatioMeta: the server fixes the completion ratio
  m,          \* the model in the editor
  ed,         \* TieredPricingEditor, while it is mounted
  out,        \* a save in flight: what it sent, and the model as it was shown
  priceEdits, submits, losses,   \* counters of the bounds
  first,      \* ghost: the options when the page was opened
  repriced,   \* ghost: the user changed the model
  synced,     \* ghost: nothing was changed, and no save failed, since the options were listed
  behind      \* ghost: why the expression editor may show something else than the model

pricingVars == <<opt, locked, m, ed, out, priceEdits, submits, losses, first, repriced, synced, behind>>

-----------------------------------------------------------------------------
(* Options and ratios.  A ratio is a reduced fraction; No for a missing     *)
(* number.                                                                 *)

No == -1
NoRatio == <<0, 0>>
Ratio(a, b) == IF b = 0 THEN NoRatio        \* not a finite number: left out
               ELSE CHOOSE q \in (0 .. 8) \X (1 .. 8) : q[1] * b = a * q[2] /\ \A d \in 2 .. 8 : ~(q[1] % d = 0 /\ q[2] % d = 0)
Times(x, q) == IF x = No \/ q = NoRatio THEN No ELSE CHOOSE y \in 0 .. 64 : y * q[2] = x * q[1]
LockedRatio == <<2, 1>>

Options(price, ratio, comp, audio, audioComp, tiered, expr) ==
  [price |-> price, ratio |-> ratio, comp |-> comp, audio |-> audio, audioComp |-> audioComp,
   tiered |-> tiered, expr |-> expr]
Keys == {"price", "ratio", "comp", "audio", "audioComp", "tiered", "expr"}
Unset == Options(No, NoRatio, NoRatio, NoRatio, NoRatio, FALSE, NoExpr)

Rule(conds) == [conds |-> conds, mult |-> 2]
Text(conds) == BuildRequestRuleExpr(<<Rule(conds)>>)

\* What may be stored: by this editor, the JSON editor or a synchronisation.
StoredExprs ==
  {NoExpr, Expr("T1", <<>>, <<>>), Expr("hand", <<>>, <<>>), Expr("sum", <<>>, Text(<<"is">>))}
    \cup {Expr(b, <<>>, r) : b \in {"T1", "hand"}, r \in {Text(<<"range">>), Text(<<"gt">>), Text(<<"is", "range">>)}}
StoredRatios ==
  {Unset, [Unset EXCEPT !.price = 2], [Unset EXCEPT !.ratio = <<0, 1>>, !.comp = <<2, 1>>],
   [Unset EXCEPT !.ratio = <<1, 1>>, !.comp = <<3, 1>>], [Unset EXCEPT !.comp = <<3, 1>>],
   Options(No, <<1, 1>>, <<2, 1>>, <<1, 1>>, <<2, 1>>, FALSE, NoExpr),
   Options(2, <<1, 1>>, <<2, 1>>, NoRatio, NoRatio, FALSE, NoExpr)}
StoredTiered == {Options(No, r, NoRatio, NoRatio, NoRatio, TRUE, x) : r \in {NoRatio, <<1, 1>>}, x \in StoredExprs}

-----------------------------------------------------------------------------
(* The hook.                                                               *)

NoRaw == [ratio |-> NoRatio, comp |-> NoRatio, audio |-> NoRatio, audioComp |-> NoRatio]

\* buildModelState: a model billed by an expression is given no ratios, neither
\* its own nor the one the server fixes.
BuildModelState(o) ==
  IF o.tiered
    THEN LET x == SplitBillingExpr(o.expr)
         IN [mode |-> "tiered", fixed |-> No, input |-> No, compl |-> No, audioIn |-> No, audioOut |-> No,
             lock |-> FALSE, raw |-> NoRaw, base |-> x.b, rules |-> x.rules]
    ELSE LET input == Times(2, o.ratio)
             audioIn == Times(input, o.audio)
         IN [mode |-> IF o.price # No THEN "request" ELSE "token", fixed |-> o.price, input |-> input,
             compl |-> Times(input, IF locked THEN LockedRatio ELSE o.comp),
             audioIn |-> audioIn, audioOut |-> Times(audioIn, o.audioComp), lock |-> locked,
             raw |-> [ratio |-> o.ratio, comp |-> o.comp, audio |-> o.audio, audioComp |-> o.audioComp],
             base |-> NoExpr, rules |-> <<>>]

\* serializeModel: whether it throws, and what it writes.
Throws(x) ==
  /\ x.mode # "request"
  /\ \/ x.input = No /\ {x.compl, x.audioIn, x.audioOut} # {No}
     \/ x.input # No /\ x.audioOut # No /\ x.audioIn \in {No, 0}

Over(p, q) == IF p = No THEN NoRatio ELSE Ratio(p, q)

\* Mutant: the output is priced by the ratio that was loaded.
SerializeModelStale(x) ==
  CASE x.mode = "request" -> [Unset EXCEPT !.price = x.fixed]
    [] x.mode # "request" /\ x.input = No ->
         [Unset EXCEPT !.ratio = x.raw.ratio, !.comp = x.raw.comp, !.audio = x.raw.audio, !.audioComp = x.raw.audioComp]
    [] OTHER ->
         [Unset EXCEPT !.ratio = Ratio(x.input, 2), !.comp = x.raw.comp,
                       !.audio = Over(x.audioIn, x.input), !.audioComp = Over(x.audioOut, x.audioIn)]

\* Mutant: a model without an input price loses its ratios.
SerializeModelBare(x) ==
  CASE x.mode = "request" -> [Unset EXCEPT !.price = x.fixed]
    [] x.mode # "request" /\ x.input = No -> Unset
    [] OTHER ->
         [Unset EXCEPT !.ratio = Ratio(x.input, 2),
                       !.comp = IF x.lock THEN x.raw.comp ELSE Over(x.compl, x.input),
                       !.audio = Over(x.audioIn, x.input), !.audioComp = Over(x.audioOut, x.audioIn)]

SerializeModel(x) ==
  CASE x.mode = "request" -> [Unset EXCEPT !.price = x.fixed]
    [] x.mode # "request" /\ x.input = No ->
         [Unset EXCEPT !.ratio = x.raw.ratio, !.comp = x.raw.comp, !.audio = x.raw.audio, !.audioComp = x.raw.audioComp]
    [] OTHER ->
         [Unset EXCEPT !.ratio = Ratio(x.input, 2),
                       !.comp = IF x.lock THEN x.raw.comp ELSE Over(x.compl, x.input),
                       !.audio = Over(x.audioIn, x.input), !.audioComp = Over(x.audioOut, x.audioIn)]

\* The options handleSubmit sends for the model: the prices of a model billed
\* by an expression go with it, unless they cannot be written.
Output(x) ==
  LET ratios == IF Throws(x) THEN Unset ELSE SerializeModel(x)
      full == CombineBillingExpr(x.base, x.rules)
  IN IF x.mode = "tiered" /\ full # NoExpr THEN [ratios EXCEPT !.tiered = TRUE, !.expr = full] ELSE ratios

-----------------------------------------------------------------------------
(* The expression editor.                                                  *)

Closed == [on |-> FALSE, mode |-> "visual", cfg |-> None, raw |-> NoExpr, groups |-> <<>>]

\* tryParseVisualConfig: the form shows a base that is made of tiers alone.
ParsesVisually(b) == b.base \in Tiers /\ b.inner = <<>> /\ b.rules = <<>>

TierText(cfg) == Expr(cfg, <<>>, <<>>)

\* effectiveExpr
Effective(e) == IF e.mode = "visual" THEN TierText(e.cfg) ELSE SplitBillingExpr(e.raw).b

\* The groups shown for a text of rules: none if it cannot be read.
GroupsOf(rules) == LET g == TryParseRequestRuleExpr(rules) IN IF g = <<Null>> THEN <<>> ELSE g

\* The editor is mounted for the model: it shows the base as a form or as text.
Opened(x) ==
  LET b == x.base
      e == [on |-> TRUE, mode |-> IF ParsesVisually(b) \/ b = NoExpr THEN "visual" ELSE "raw",
            cfg |-> IF ParsesVisually(b) THEN b.base ELSE IF b = NoExpr THEN "T0" ELSE None,
            raw |-> b, groups |-> GroupsOf(x.rules)]
  IN e

\* The editor after the model has become x: it opens and closes with the mode;
\* one that stays mounted keeps its state and only reads rules that changed.
Mounted(x, e) ==
  CASE x.mode # "tiered" -> Closed
    [] x.mode = "tiered" /\ ~e.on -> Opened(x)
    [] OTHER -> IF x.rules # m.rules THEN [e EXCEPT !.groups = GroupsOf(x.rules)] ELSE e

\* The effect on effectiveExpr: the model takes the base of an editor that was
\* mounted or shows another base than before.
Taken(x, e) == IF e.on /\ (~ed.on \/ Effective(e) # Effective(ed)) THEN [x EXCEPT !.base = Effective(e)] ELSE x

\* The text is shown without the rules of the model.
Bare(x, e) == e.on /\ e.mode = "raw" /\ x.rules # <<>>

-----------------------------------------------------------------------------
(* The user changes prices.                                                *)

Edits ==
  /\ priceEdits < MaxPriceEdits /\ priceEdits' = priceEdits + 1
  /\ repriced' = TRUE /\ synced' = FALSE
  /\ UNCHANGED <<opt, locked, out, submits, losses, first>>

\* fillDerivedPricesFromBase
FillDerived(x, input) ==
  LET From(p, q) == IF p # No THEN p ELSE Times(input, q)
  IN IF input = No THEN x
     ELSE [x EXCEPT !.compl = IF x.lock THEN Times(input, LockedRatio) ELSE From(@, x.raw.comp),
                    !.audioIn = From(@, x.raw.audio),
                    !.audioOut = IF @ # No \/ x.raw.audioComp = NoRatio THEN @
                                 ELSE Times(Times(input, x.raw.audio), x.raw.audioComp)]

\* handleNumericFieldChange; a field is enabled by the price it depends on, a
\* completion price that is locked never.
HandleNumericFieldChange(f, v) ==
  /\ Edits
  /\ CASE f = "fixed"    -> m.mode = "request"
       [] f = "input"    -> m.mode = "token"
       [] f = "compl"    -> m.mode = "token" /\ m.input # No /\ ~m.lock
       [] f = "audioIn"  -> m.mode = "token" /\ m.input # No
       [] f = "audioOut" -> m.mode = "token" /\ m.audioIn # No
  /\ LET x == [m EXCEPT ![f] = v] IN m' = IF f = "input" THEN FillDerived(x, v) ELSE x
  /\ UNCHANGED <<ed, behind>>

\* handleOptionalFieldToggle: a field that is switched off is emptied, the
\* price of audio output with that of audio input.
HandleOptionalFieldToggle(f) ==
  /\ Edits
  /\ m.mode = "token" /\ (f = "compl" => ~m.lock)
  /\ m' = [m EXCEPT ![f] = No, !.audioOut = IF f \in {"audioIn", "audioOut"} THEN No ELSE @]
  /\ UNCHANGED <<ed, behind>>

\* handleBillingModeChange
HandleBillingModeChange(mode) ==
  /\ Edits
  /\ mode # m.mode
  /\ LET x == [m EXCEPT !.mode = mode, !.base = IF mode = "tiered" /\ @ = NoExpr THEN TierText("T0") ELSE @]
     IN /\ ed' = Mounted(x, ed)
        /\ m' = Taken(x, ed')
        /\ behind' = IF Bare(m', ed') THEN {"rules"} ELSE {}

\* handleVisualChange
HandleVisualChange(cfg) ==
  /\ Edits
  /\ ed.on /\ ed.mode = "visual" /\ cfg # ed.cfg
  /\ ed' = [ed EXCEPT !.cfg = cfg]
  /\ m' = Taken(m, ed')
  /\ behind' = behind \ {"reload"}

\* handleRawChange: the rules are read from the text, which the user may have
\* been shown without them.
HandleRawChange(x) ==
  /\ Edits
  /\ ed.on /\ ed.mode = "raw" /\ x # ed.raw
  /\ LET rules == SplitBillingExpr(x).rules
     IN /\ ed' = [ed EXCEPT !.raw = x, !.groups = IF rules # m.rules THEN GroupsOf(rules) ELSE @]
        /\ m' = Taken([m EXCEPT !.rules = rules], ed')
  /\ behind' = IF Effective(ed') # Effective(ed) THEN {} ELSE behind \ {"rules"}

\* Whether the form shows the rules, or a warning that it cannot.
RulesShown == TryParseRequestRuleExpr(m.rules) # <<Null>>

\* handleRequestRuleGroupsChange: the groups are written and, if the text has
\* changed, read again.
HandleRequestRuleGroupsChange(groups) ==
  /\ Edits
  /\ ed.on /\ ed.mode = "visual" /\ RulesShown
  /\ LET rules == BuildRequestRuleExpr(groups)
     IN /\ m' = [m EXCEPT !.rules = rules]
        /\ ed' = [ed EXCEPT !.groups = IF rules # m.rules THEN GroupsOf(rules) ELSE groups]
  /\ UNCHANGED behind

\* handleModeSwitch: a text the form cannot show becomes the empty form; rules
\* the form could not show are not in the text.
HandleModeSwitch ==
  /\ Edits
  /\ ed.on
  /\ IF ed.mode = "raw"
       THEN LET x == SplitBillingExpr(ed.raw)
            IN /\ ed' = [ed EXCEPT !.mode = "visual", !.cfg = IF ParsesVisually(x.b) THEN x.b.base ELSE "T0",
                                   !.groups = GroupsOf(x.rules)]
               /\ m' = Taken([m EXCEPT !.rules = x.rules], ed')
       ELSE /\ ed' = [ed EXCEPT !.mode = "raw",
                                !.raw = CombineBillingExpr(TierText(ed.cfg), BuildRequestRuleExpr(ed.groups))]
            /\ m' = Taken(m, ed')
  /\ behind' = (IF Effective(ed') # Effective(ed) THEN {} ELSE behind \ {"rules"})
                 \cup (IF ed'.mode = "raw" /\ ~RulesShown THEN {"rules"} ELSE {})

\* applyPreset
ApplyPreset(cfg, groups) ==
  /\ Edits
  /\ ed.on
  /\ LET rules == BuildRequestRuleExpr(groups)
     IN /\ ed' = [ed EXCEPT !.raw = CombineBillingExpr(TierText(cfg), rules), !.cfg = cfg,
                            !.groups = IF rules # m.rules THEN GroupsOf(rules) ELSE groups]
        /\ m' = Taken([m EXCEPT !.rules = rules], ed')
  /\ behind' = IF Effective(ed') # Effective(ed) THEN {} ELSE behind \ {"rules"}

-----------------------------------------------------------------------------
(* Saving and loading.                                                     *)

NoOut == [on |-> FALSE, opts |-> Unset, seen |-> BuildModelState(Unset)]

\* handleSubmit: a model that cannot be written stops it, unless it is billed
\* by an expression.
HandleSubmit ==
  /\ submits < MaxSubmits /\ submits' = submits + 1
  /\ ~out.on
  /\ Throws(m) => m.mode = "tiered"
  /\ out' = [on |-> TRUE, opts |-> Output(m), seen |-> m]
  /\ UNCHANGED <<opt, locked, m, ed, priceEdits, losses, first, repriced, synced, behind>>

\* The effect on options: the models are built anew, over what was changed
\* meanwhile.  An editor that is mounted stays as it is.
Reload(o) ==
  LET x == BuildModelState(o)
  IN /\ ed' = Mounted(x, ed)
     /\ m' = Taken(x, ed')
     /\ behind' = IF ed.on /\ ed'.on THEN behind \cup {"reload"} ELSE IF Bare(m', ed') THEN {"rules"} ELSE {}

\* Every call succeeds and the options are listed.
SaveSucceeds ==
  /\ out.on /\ out' = NoOut
  /\ opt' = out.opts
  /\ Reload(out.opts)
  /\ synced' = TRUE
  /\ UNCHANGED <<locked, priceEdits, submits, losses, first, repriced>>

\* Some call fails, or only the listing: what the others wrote stays.
SaveFails(done) ==
  /\ losses < MaxLosses /\ losses' = losses + 1
  /\ out.on /\ out' = NoOut
  /\ opt' = [k \in Keys |-> IF k \in done THEN out.opts[k] ELSE opt[k]]
  /\ synced' = FALSE
  /\ UNCHANGED <<locked, m, ed, priceEdits, submits, first, repriced, behind>>

\* Another card of the page has saved: the options are listed and all models
\* built anew.
RefreshOther ==
  /\ ~out.on /\ losses < MaxLosses /\ losses' = losses + 1
  /\ Reload(opt)
  /\ synced' = TRUE
  /\ UNCHANGED <<opt, locked, out, priceEdits, submits, first, repriced>>

-----------------------------------------------------------------------------
(* What the user does, from small sets; one call fails or one succeeds.    *)

Fields == {"fixed", "input", "compl", "audioIn", "audioOut"}
PriceChoices == {No, 0, 2, 4}
GroupChoices == {<<Rule(c)>> : c \in {<<"is", "range">>, <<"range">>, <<"gt">>, <<"contains", "time">>,
                                      <<"exists", "headerContains">>, <<"blank">>}}
                  \cup {<<Rule(<<"is">>), Rule(<<"time", "range">>)>>}
TextChoices == {NoExpr, Expr("T2", <<>>, <<>>), Expr("hand", <<>>, Text(<<"is", "range">>)), Expr("T1", <<>>, Text(<<"gt">>)),
                Expr("sum", <<>>, Text(<<"is">>)), Expr("hand", Text(<<"gt">>), Text(<<"time">>))}

PricingInit ==
  /\ opt \in StoredRatios \cup StoredTiered
  /\ locked \in BOOLEAN
  /\ first = opt
  /\ LET x == BuildModelState(opt)
     IN /\ ed = IF x.mode = "tiered" THEN Opened(x) ELSE Closed
        /\ m = IF ed.on THEN [x EXCEPT !.base = Effective(ed)] ELSE x
        /\ behind = IF Bare(m, ed) THEN {"rules"} ELSE {}
  /\ out = NoOut
  /\ priceEdits = 0 /\ submits = 0 /\ losses = 0
  /\ repriced = FALSE /\ synced = TRUE

PricingNext ==
  \/ \E f \in Fields, v \in PriceChoices : HandleNumericFieldChange(f, v)
  \/ \E f \in Fields \ {"fixed", "input"} : HandleOptionalFieldToggle(f)
  \/ \E mode \in {"token", "request", "tiered"} : HandleBillingModeChange(mode)
  \/ \E cfg \in {"T1", "T2", "Broken"} : HandleVisualChange(cfg)
  \/ \E x \in TextChoices : HandleRawChange(x)
  \/ \E groups \in GroupChoices : HandleRequestRuleGroupsChange(groups)
  \/ HandleModeSwitch
  \/ \E groups \in {<<>>, <<Rule(<<"is">>)>>} : ApplyPreset("T2", groups)
  \/ HandleSubmit
  \/ SaveSucceeds
  \/ \E k \in Keys : \E done \in {{}, {k}, Keys \ {k}, Keys} : SaveFails(done)
  \/ RefreshOther

PricingSpec == PricingInit /\ [][PricingNext]_pricingVars

-----------------------------------------------------------------------------
(* Properties.                                                             *)

\* Tiers that make no expression have no price.
Compiles(x) == x.base \notin {None, "Broken"}
SameExpr(x, y) ==
  x = y \/ /\ Compiles(x) = Compiles(y)
           /\ Compiles(x) => \A e \in Situations : Evaluate(x, e) = Evaluate(y, e)

\* A sum with a factor on one term, whose factor is taken for one of the whole,
\* and a missing expression, which is shown as prices of 0.
Misread(o) == o.expr.base = "sum" \/ (o.tiered /\ o.expr = NoExpr)

\* The server charges by the expression first, then by the fixed price, then
\* by ratios, where a completion ratio it fixes wins (relay/helper/price.go).
Charges(o, x) ==
  CASE x.mode = "tiered" -> o.tiered /\ SameExpr(o.expr, CombineBillingExpr(x.base, x.rules))
    [] x.mode = "request" -> ~o.tiered /\ o.price = x.fixed
    [] OTHER ->
         /\ ~o.tiered /\ o.price = No /\ Times(2, o.ratio) = x.input
         /\ x.compl # No => x.compl = Times(x.input, IF locked THEN LockedRatio ELSE o.comp)
         /\ x.audioIn # No => x.audioIn = Times(x.input, o.audio)
         /\ x.audioOut # No => x.audioOut = Times(x.audioIn, o.audioComp)

\* An input price that is empty or 0 leaves the ratios that were loaded or
\* none, a model that was billed by an expression does not know that its
\* completion ratio is fixed, and an empty expression is not saved.
Exempt(x) ==
  \/ x.mode = "token" /\ (x.input \in {No, 0} \/ x.lock # locked)
  \/ x.mode = "tiered" /\ x.base = NoExpr

\* What a save writes is charged as the prices the user saw when it was
\* started (handleSubmit, serializeModel: every ratio is taken over the price
\* it depends on).  And as long as nothing was changed since the options were
\* listed, and no save failed, the editor shows what the server charges
\* (buildModelState), unless the editor misreads it.
ShownIsCharged ==
  /\ out.on => Exempt(out.seen) \/ Charges(out.opts, out.seen)
  /\ (synced /\ ~Misread(opt)) => Exempt(m) \/ Charges(opt, m)

\* All models are saved at once: one the user never changed costs after any
\* number of saves, some of them failed in part, what it cost before.
UntouchedKeepsPrice ==
  (~repriced /\ ~Misread(first)) =>
    /\ opt.tiered = first.tiered
    /\ IF first.tiered THEN SameExpr(opt.expr, first.expr)
       ELSE /\ opt.price = first.price
            /\ first.price = No => opt.ratio = first.ratio
            /\ (first.price = No /\ first.ratio # <<0, 1>>) => \A k \in {"comp", "audio", "audioComp"} : opt[k] = first[k]

\* The form or the text of the expression editor means what the model is saved
\* with, in every situation of a request: writing, reading, switching between
\* both and presets do not change a rule, unless the form warns that it cannot
\* show the rules or the editor was left behind.
EditorShowsPrice ==
  (ed.on /\ behind = {}) =>
    IF ed.mode = "visual"
      THEN /\ m.base = TierText(ed.cfg)
           /\ RulesShown => \A e \in Situations : GroupsFactor(ed.groups, e) = Factor(m.rules, e)
      ELSE ed.raw.base = "sum" \/ SameExpr(ed.raw, CombineBillingExpr(m.base, m.rules))
=============================================================================
