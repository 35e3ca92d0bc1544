--------------------------- MODULE ConsoleProofs ---------------------------
(***************************************************************************)
(* Proofs about the settings screens and the tables of the web console.    *)
(* SettingsForm: for every card, any number of edits, saves, listings and  *)
(* failed calls.  ConsoleTable: for every page, any number of calls and    *)
(* whatever order they are answered in, a quiet table shows the listing    *)
(* asked for last, and the pager shows its page.                           *)
(***************************************************************************)
EXTENDS SettingsForm, ConsoleTable, SequenceTheorems, TLAPS

-----------------------------------------------------------------------------
(* Settings.                                                               *)

\* The shapes of the state: a card among the ones there are, the options it has on the
\* server, and the saves with one PUT per option they send.
IsSave(s) ==
  /\ s = [sent |-> s.sent, put |-> s.put, form |-> s.form, st |-> s.st]
  /\ DOMAIN s.put = DOMAIN s.sent /\ DOMAIN s.put \subseteq card.keys

Shapes ==
  /\ card \in Cards /\ DOMAIN stored = card.keys
  /\ \E n \in Nat : saves = [i \in 1..n |-> saves[i]]
  /\ \A i \in DOMAIN saves : IsSave(saves[i])
  /\ faults \in Nat /\ get.st \in {"idle", "sent", "read"}
  /\ get.st = "read" => DOMAIN get.listing = (card.keys \ {Secret}) \cup {Elsewhere}

\* The form has every option the screen knew at first and, once a listing was shown, all
\* that the server lists; cards that go through all their options never lose one.
FieldsInv ==
  /\ DOMAIN inputs \subseteq card.keys /\ card.keys \ {Late} \subseteq DOMAIN inputs
  /\ card.loads \in {"every", "keep"} => DOMAIN inputs = card.keys /\ DOMAIN inputsRow = card.keys
  /\ listed => card.keys \ {Secret} \subseteq DOMAIN inputs \cap DOMAIN inputsRow
  /\ card.rebases => \A i \in DOMAIN saves : DOMAIN saves[i].form = card.keys

\* No save in flight empties a secret the card always sends.
SecretInv ==
  Secret \in card.always =>
    /\ stored[Secret] # 0
    /\ \A i \in DOMAIN saves : Secret \in DOMAIN saves[i].sent => saves[i].sent[Secret] # 0

\* As long as no call has failed, no save has, and a save ends when all its PUTs are taken.
AnsweredInv ==
  faults = 0 =>
    \A i \in DOMAIN saves : \A k \in DOMAIN saves[i].put :
      saves[i].put[k] \in (IF saves[i].st = "run" THEN {"sent", "ok"} ELSE {"ok"})

\* A save that sends option k has not ended.
InHand(k) == \E i \in DOMAIN saves : saves[i].st = "run" /\ k \in DOMAIN saves[i].put

\* As long as no call has failed and no save joined a listing already read, an option the
\* card can show and takes for loaded is stored, or a save or a listing that will correct it is on its way.
CleanInv ==
  faults = 0 /\ ~stale =>
    \A k \in card.keys \ {Secret} :
      \/ InHand(k)
      \/ get.st = "sent"
      \/ get.st = "read" /\ get.listing[k] = stored[k]
      \/ get.st = "idle" /\ (k \in DOMAIN inputsRow /\ stored[k] \notin Unread(card)
                                => Canon(inputsRow[k]) = Canon(stored[k]))

FormInv == Shapes /\ FieldsInv /\ SecretInv /\ AnsweredInv /\ CleanInv

-----------------------------------------------------------------------------
(* The cards.                                                              *)

\* What the descriptions have in common: a card that takes its form as loaded, or has a
\* secret, fills every option, and one that copies known options adds the late one.
Regular(c) ==
  /\ c.keys \subseteq {Plain, Other, Secret, Late, Optional}
  /\ c.loads \in {"known", "listed", "every", "keep"} /\ c.screen \in {"replace", "merge", "fill"}
  /\ c.reads \in {"all", "nonzero", "parsed", "one"}
  /\ c.rebases \in BOOLEAN /\ c.checks \in BOOLEAN /\ c.waits \in BOOLEAN
  /\ c.rebases => c.loads = "every"
  /\ Secret \in c.keys => c.loads = "every"
  /\ c.loads = "known" /\ Late \in c.keys => Late \in c.fills
  /\ c.always \subseteq c.keys

\* Each of them has it.
LEMMA CardsAreRegular == \A c \in Cards : Regular(c)
<1>1. Regular(SettingsSensitiveWords) /\ Regular(SettingsCheckin) /\ Regular(SettingsCreditLimit) /\
        Regular(SettingsDrawing) /\ Regular(DataDashboard)
BY DEF Regular, DiffCard, Plain, Other, Secret, Late, Optional, SettingsSensitiveWords, SettingsCheckin,
     SettingsCreditLimit, SettingsDrawing, DataDashboard
<1>2. Regular(SettingsLog) /\ Regular(SettingsMonitoring)
  BY DEF Regular, DiffCard, Plain, Other, Secret, Late, Optional, SettingsLog, SettingsMonitoring
<1>3. Regular(GeneralSettings) /\ Regular(SettingsPerformance) /\ Regular(SettingsChannelAffinity)
BY DEF Regular, DiffCard, Plain, Other, Secret, Late, Optional, GeneralSettings, SettingsPerformance,
     SettingsChannelAffinity
<1>4. Regular(RequestRateLimit) /\ Regular(ModelRatioSettings) /\ Regular(GroupRatioSettings)
BY DEF Regular, DiffCard, Plain, Other, Secret, Late, Optional, RequestRateLimit, ModelRatioSettings,
     GroupRatioSettings
<1>5. Regular(SettingClaudeModel) /\ Regular(SettingsChats)
  BY DEF Regular, DiffCard, Plain, Other, Secret, Late, Optional, SettingClaudeModel, SettingsChats
<1>6. Regular(SettingGrokModel) /\ Regular(SettingGeminiModel) /\ Regular(SettingGlobalModel)
BY DEF Regular, DiffCard, Plain, Other, Secret, Late, Optional, SettingGrokModel, SettingGeminiModel,
     SettingGlobalModel
<1>7. Regular(SettingModelDeployment)
  BY DEF Regular, DiffCard, Plain, Other, Secret, Late, Optional, SettingModelDeployment
<1>8. Regular(SettingsHeaderNavModules) /\ Regular(SettingsSidebarModulesAdmin)
BY DEF Regular, DiffCard, Plain, Other, Secret, Late, Optional, SettingsHeaderNavModules,
     SettingsSidebarModulesAdmin
<1>9. Regular(SettingsGeneralPayment)
  BY DEF Regular, DiffCard, Plain, Other, Secret, Late, Optional, SettingsGeneralPayment
<1>10. Regular(SettingsPaymentGateway) /\ Regular(SettingsPaymentGatewayStripe)
BY DEF Regular, DiffCard, Plain, Other, Secret, Late, Optional, SettingsPaymentGateway,
     SettingsPaymentGatewayStripe
<1>11. Regular(SettingsPaymentGatewayCreem) /\ Regular(SettingsPaymentGatewayWaffo)
BY DEF Regular, DiffCard, Plain, Other, Secret, Late, Optional, SettingsPaymentGatewayCreem,
     SettingsPaymentGatewayWaffo, SettingsPaymentGateway
<1> QED BY <1>1, <1>2, <1>3, <1>4, <1>5, <1>6, <1>7, <1>8, <1>9, <1>10, <1>11 DEF Cards

\* The option names differ.
LEMMA Names ==
  /\ Plain # Other /\ Optional \notin {Plain, Other} /\ Secret \notin {Plain, Other, Optional, Late, Elsewhere}
  /\ Late \notin {Plain, Other, Optional, Elsewhere}
BY DEF Plain, Other, Optional, Secret, Late, Elsewhere

\* What a listing makes of the screen's options: the listed values, whatever the screen knew.
LEMMA ScreenShows ==
  ASSUME Shapes, get.st = "read"
  PROVE  LET opts == ScreenOptions(card, options, get.listing)
         IN  \A k \in card.keys \ {Secret} : k \in DOMAIN opts /\ opts[k] = get.listing[k]
<1> DEFINE opts == ScreenOptions(card, options, get.listing)
<1>1. Regular(card) /\ card.keys \ {Secret} \subseteq DOMAIN get.listing
  BY CardsAreRegular DEF Shapes
<1>2. CASE card.screen = "replace"
  BY <1>1, <1>2 DEF ScreenOptions
<1>3. CASE card.screen = "merge"
  <2>1. opts = Spread(get.listing, options)
    BY <1>3 DEF ScreenOptions
  <2> QED BY <1>1, <2>1 DEF Spread
<1>4. CASE card.screen = "fill"
  <2>1. opts = Spread(get.listing, Defaults(card))
    BY <1>4 DEF ScreenOptions
  <2> QED BY <1>1, <2>1 DEF Spread
<1> QED BY <1>1, <1>2, <1>3, <1>4 DEF Regular

\* What the effect of a card makes of options that include all that is listed: every
\* option listed is in the form and, unless the card cannot show it, in the spelling of the card.
LEMMA FormShows ==
  ASSUME NEW c, Regular(c), NEW form, NEW opts, c.keys \ {Late} \subseteq DOMAIN form,
         \A k \in c.keys \ {Secret} : k \in DOMAIN opts
  PROVE  LET f == FormOf(c, form, opts)
         IN  /\ DOMAIN f \subseteq c.keys /\ c.keys \ {Secret} \subseteq DOMAIN f
             /\ c.keys \ {Late} \subseteq DOMAIN f
             /\ c.loads \in {"every", "keep"} => DOMAIN f = c.keys
             /\ \A k \in c.keys \ {Secret} : opts[k] \notin Unread(c) => f[k] \in {opts[k], Canon(opts[k])}
<1> DEFINE f == FormOf(c, form, opts)
           Shown(k) == IF opts[k] \in Unread(c) THEN Instead(c, form[k])
                       ELSE IF "load" \in c.spell THEN Canon(opts[k]) ELSE opts[k]
           here == c.keys \cap DOMAIN opts
<1>1. c.keys \ {Secret} \subseteq here /\ here \subseteq c.keys
  OBVIOUS
<1>2. CASE c.loads = "known"
  <2>1. f = [k \in (DOMAIN form \cap here) \cup (c.fills \cap here) |-> Shown(k)]
    BY <1>2 DEF FormOf
  <2>2. Secret \notin c.keys /\ (Late \in c.keys => Late \in c.fills)
    BY <1>2 DEF Regular
  <2>3. DOMAIN f = c.keys
    <3> HIDE DEF here, Shown
    <3> QED BY <1>1, <2>1, <2>2
  <2>4. \A k \in c.keys : f[k] = Shown(k)
    BY <2>1, <2>3
  <2> QED BY <1>2, <2>3, <2>4
<1>3. CASE c.loads = "listed"
  <2>1. f = [k \in here |-> Shown(k)] /\ Secret \notin c.keys
    BY <1>3 DEF FormOf, Regular
  <2> QED BY <1>1, <1>3, <2>1
<1>4. CASE c.loads = "every"
  <2>1. f = [k \in c.keys |-> IF k \in here THEN Shown(k) ELSE 0]
    BY <1>4 DEF FormOf
  <2> QED BY <1>1, <1>4, <2>1
<1>5. CASE c.loads = "keep"
  <2>1. f = [k \in c.keys |-> IF k \in here THEN Shown(k) ELSE form[k]]
    BY <1>5 DEF FormOf
  <2> QED BY <1>1, <1>5, <2>1
<1> QED BY <1>2, <1>3, <1>4, <1>5 DEF Regular

\* Spelling a value twice is spelling it once.
LEMMA CanonTwice == ASSUME NEW v, NEW w \in {v, Canon(v)} PROVE Canon(w) = Canon(v) /\ (v # 0 => w # 0)
BY DEF Canon

-----------------------------------------------------------------------------
(* The list of saves.                                                      *)

\* Appending to a finite sequence.
LEMMA Appended ==
  ASSUME NEW n \in Nat, NEW f, f = [i \in 1..n |-> f[i]], NEW e
  PROVE  LET g == Append(f, e)
         IN  g = [i \in 1..(n + 1) |-> g[i]] /\ g[n + 1] = e /\ \A i \in 1..n : g[i] = f[i]
<1> DEFINE S == {f[i] : i \in 1..n} \cup {e}
<1>1. f \in [1..n -> S] /\ e \in S
  <2>1. \A i \in 1..n : f[i] \in S
    OBVIOUS
  <2> HIDE DEF S
  <2>2. f \in [1..n -> S]
    BY <2>1
  <2> QED BY <2>2 DEF S
<1> HIDE DEF S
<1>2. f \in Seq(S)
  BY <1>1
<1>3. Len(f) = n
  BY <1>1, <1>2, LenProperties
<1>4. /\ Append(f, e) \in Seq(S) /\ Len(Append(f, e)) = n + 1
      /\ (\A i \in 1..n : Append(f, e)[i] = f[i]) /\ Append(f, e)[n + 1] = e
  BY <1>1, <1>2, <1>3, AppendProperties
<1>5. Append(f, e) \in [1..(n + 1) -> S]
  BY <1>4, LenProperties
<1> QED BY <1>4, <1>5

\* One save is replaced by another of the same options.
Replaces(i, s) ==
  /\ DOMAIN saves' = DOMAIN saves /\ saves'[i] = s
  /\ \A j \in DOMAIN saves : j # i => saves'[j] = saves[j]
  /\ \E n \in Nat : saves' = [j \in 1..n |-> saves'[j]]

\* A save that ends.
LEMMA StateChanges ==
  ASSUME Shapes, NEW i \in DOMAIN saves, NEW x, saves' = [saves EXCEPT ![i].st = x]
  PROVE  Replaces(i, [sent |-> saves[i].sent, put |-> saves[i].put, form |-> saves[i].form, st |-> x])
<1>1. PICK n \in Nat : saves = [j \in 1..n |-> saves[j]]
  BY DEF Shapes
<1>2. saves[i] = [sent |-> saves[i].sent, put |-> saves[i].put, form |-> saves[i].form, st |-> saves[i].st]
  BY DEF Shapes, IsSave
<1>3. [saves[i] EXCEPT !.st = x] = [sent |-> saves[i].sent, put |-> saves[i].put, form |-> saves[i].form, st |-> x]
  BY <1>2
<1>4. saves' = [j \in 1..n |-> IF j = i THEN [saves[i] EXCEPT !.st = x] ELSE saves[j]]
  BY <1>1
<1> QED BY <1>1, <1>3, <1>4 DEF Replaces

\* A PUT that is answered.
LEMMA PutChanges ==
  ASSUME Shapes, NEW i \in DOMAIN saves, NEW k \in DOMAIN saves[i].put, NEW a, saves' = [saves EXCEPT ![i].put[k] = a]
  PROVE  Replaces(i, [sent |-> saves[i].sent, put |-> [saves[i].put EXCEPT ![k] = a],
                      form |-> saves[i].form, st |-> saves[i].st])
<1>1. PICK n \in Nat : saves = [j \in 1..n |-> saves[j]]
  BY DEF Shapes
<1>2. saves[i] = [sent |-> saves[i].sent, put |-> saves[i].put, form |-> saves[i].form, st |-> saves[i].st]
  BY DEF Shapes, IsSave
<1>3. PICK s : s = [saves[i] EXCEPT !.put[k] = a]
  OBVIOUS
<1>4. s = [sent |-> saves[i].sent, put |-> [saves[i].put EXCEPT ![k] = a], form |-> saves[i].form, st |-> saves[i].st]
  BY <1>2, <1>3
<1>5. saves' = [j \in 1..n |-> IF j = i THEN s ELSE saves[j]]
  BY <1>1, <1>3
<1> QED BY <1>1, <1>4, <1>5 DEF Replaces

-----------------------------------------------------------------------------
(* The steps.                                                              *)

\* The end of a listing: the saves that waited for it have ended.
LEMMA RefreshEndsSaves ==
  ASSUME Shapes, RefreshEnds, UNCHANGED <<card, stored>>
  PROVE  /\ DOMAIN saves' = DOMAIN saves /\ (\E n \in Nat : saves' = [i \in 1..n |-> saves'[i]])
         /\ \A i \in DOMAIN saves : /\ IsSave(saves[i])' /\ saves'[i].sent = saves[i].sent
                                    /\ saves'[i].put = saves[i].put /\ saves'[i].form = saves[i].form
                                    /\ saves'[i].st = "run" <=> saves[i].st = "run"
         /\ get'.st = "idle"
<1>1. PICK n \in Nat : saves = [i \in 1..n |-> saves[i]]
  BY DEF Shapes
<1>2. /\ saves' = [i \in DOMAIN saves |-> IF saves[i].st = "waits" THEN [saves[i] EXCEPT !.st = "saved"] ELSE saves[i]]
      /\ get' = [st |-> "idle", listing |-> <<>>]
  BY DEF RefreshEnds
<1>3. ASSUME NEW i \in DOMAIN saves
      PROVE  /\ IsSave(saves[i])' /\ saves'[i].sent = saves[i].sent
             /\ saves'[i].put = saves[i].put /\ saves'[i].form = saves[i].form
             /\ saves'[i].st = "run" <=> saves[i].st = "run"
  <2>1. IsSave(saves[i])
    BY DEF Shapes
  <2>2. CASE saves[i].st = "waits"
    <3>1. saves'[i] = [sent |-> saves[i].sent, put |-> saves[i].put, form |-> saves[i].form, st |-> "saved"]
      <4>1. saves'[i] = [saves[i] EXCEPT !.st = "saved"]
        BY <1>2, <2>2
      <4> QED BY <2>1, <4>1 DEF IsSave
    <3> QED BY <2>1, <2>2, <3>1 DEF IsSave
  <2>3. CASE saves[i].st # "waits"
    <3>1. saves'[i] = saves[i]
      BY <1>2, <2>3
    <3> QED BY <2>1, <3>1 DEF IsSave
  <2> QED BY <2>2, <2>3
<1>4. DOMAIN saves' = 1..n /\ DOMAIN saves = 1..n /\ saves' = [i \in 1..n |-> saves'[i]]
  BY <1>1, <1>2
<1> QED BY <1>2, <1>3, <1>4

\* The listing arrives, every card fills its form anew.
LEMMA GetOptionsKeeps ==
  ASSUME FormInv, GetOptions
  PROVE  FormInv'
<1> DEFINE opts == ScreenOptions(card, options, get.listing)
           f == FormOf(card, inputs, opts)
<1>1. Regular(card) /\ Shapes
  BY CardsAreRegular DEF FormInv, Shapes
<1>2. /\ get.st = "read" /\ inputs' = f /\ inputsRow' = f /\ listed' = TRUE /\ RefreshEnds
      /\ UNCHANGED <<card, stored, stale, edits, refreshes, faults>>
  BY DEF GetOptions
<1>3. \A k \in card.keys \ {Secret} : k \in DOMAIN opts /\ opts[k] = get.listing[k]
  BY <1>1, <1>2, ScreenShows
<1>4. card.keys \ {Late} \subseteq DOMAIN inputs
  BY DEF FormInv, FieldsInv
<1> HIDE DEF opts
<1>5. /\ DOMAIN f \subseteq card.keys /\ card.keys \ {Secret} \subseteq DOMAIN f /\ card.keys \ {Late} \subseteq DOMAIN f
      /\ card.loads \in {"every", "keep"} => DOMAIN f = card.keys
      /\ \A k \in card.keys \ {Secret} : opts[k] \notin Unread(card) => f[k] \in {opts[k], Canon(opts[k])}
  BY <1>1, <1>3, <1>4, FormShows
<1> HIDE DEF f
<1>6. /\ DOMAIN saves' = DOMAIN saves /\ (\E n \in Nat : saves' = [i \in 1..n |-> saves'[i]])
      /\ \A i \in DOMAIN saves : /\ IsSave(saves[i])' /\ saves'[i].sent = saves[i].sent
                                 /\ saves'[i].put = saves[i].put /\ saves'[i].form = saves[i].form
                                 /\ saves'[i].st = "run" <=> saves[i].st = "run"
      /\ get'.st = "idle"
  BY <1>1, <1>2, RefreshEndsSaves
<1>7. Shapes'
  BY <1>1, <1>2, <1>6 DEF Shapes
<1>8. FieldsInv'
  BY <1>2, <1>5, <1>6 DEF FormInv, FieldsInv
<1>9. SecretInv'
  BY <1>2, <1>6 DEF FormInv, SecretInv
<1>10. AnsweredInv'
  BY <1>2, <1>6 DEF FormInv, AnsweredInv
<1>11. CleanInv'
  <2> SUFFICES ASSUME faults = 0, ~stale, NEW k \in card.keys \ {Secret}
               PROVE  InHand(k)' \/ (stored[k] \notin Unread(card) => Canon(inputsRow'[k]) = Canon(stored[k]))
    BY <1>2, <1>6 DEF CleanInv
  <2>1. CASE InHand(k)
    BY <1>6, <2>1 DEF InHand
  <2>2. CASE get.listing[k] = stored[k]
    BY <1>2, <1>3, <1>5, <2>2, CanonTwice
  <2> QED BY <1>2, <2>1, <2>2 DEF FormInv, CleanInv
<1> QED BY <1>7, <1>8, <1>9, <1>10, <1>11 DEF FormInv

\* onSubmit: what a save sends is of the card, and a secret it always sends is not empty.
LEMMA OnSubmitKeeps ==
  ASSUME FormInv, OnSubmit
  PROVE  FormInv'
<1> DEFINE keys == ToSend(card, inputs, inputsRow)
           s == [sent |-> [k \in keys |-> ValueOf(card, inputs[k])], put |-> [k \in keys |-> "sent"],
                 form |-> IF card.rebases THEN inputs ELSE <<>>, st |-> "run"]
<1>1. /\ saves' = Append(saves, s)
      /\ UNCHANGED <<card, stored, options, inputs, inputsRow, get, listed, stale, edits, faults>>
  BY DEF OnSubmit
<1>2. Regular(card)
  BY CardsAreRegular DEF FormInv, Shapes
<1>3. keys \subseteq card.keys /\ (Secret \in keys /\ Secret \in card.always => inputs[Secret] # 0)
  BY <1>2 DEF ToSend, Changed, FormInv, FieldsInv
<1>4. card.rebases => DOMAIN inputs = card.keys
  BY <1>2 DEF FormInv, FieldsInv, Regular
<1>5. /\ s.st = "run" /\ DOMAIN s.put = keys /\ DOMAIN s.sent = keys /\ (card.rebases => DOMAIN s.form = card.keys)
      /\ \A k \in keys : s.put[k] = "sent" /\ s.sent[k] = ValueOf(card, inputs[k])
      /\ s = [sent |-> s.sent, put |-> s.put, form |-> s.form, st |-> s.st]
  BY <1>4
<1> HIDE DEF s, keys
<1>6. PICK n \in Nat : saves = [i \in 1..n |-> saves[i]]
  BY DEF FormInv, Shapes
<1>7. saves' = [i \in 1..(n + 1) |-> saves'[i]] /\ saves'[n + 1] = s /\ \A i \in 1..n : saves'[i] = saves[i]
  BY <1>1, <1>6, Appended
<1>8. n + 1 \in Nat /\ DOMAIN saves = 1..n /\ DOMAIN saves' = DOMAIN saves \cup {n + 1}
  BY <1>6, <1>7
<1>9. Shapes'
  <2>1. ASSUME NEW i \in DOMAIN saves' PROVE IsSave(saves[i])'
    <3>1. CASE i = n + 1
      BY <1>1, <1>3, <1>5, <1>7, <3>1 DEF IsSave
    <3>2. CASE i \in 1..n
      BY <1>1, <1>7, <1>8, <3>2 DEF FormInv, Shapes, IsSave
    <3> QED BY <1>8, <2>1, <3>1, <3>2
  <2> QED BY <1>1, <1>7, <1>8, <2>1 DEF FormInv, Shapes
<1>10. FieldsInv'
  BY <1>1, <1>5, <1>7, <1>8 DEF FormInv, FieldsInv
<1>11. SecretInv'
  <2>1. Secret \in keys /\ Secret \in card.always => s.sent[Secret] # 0
    BY <1>3, <1>5 DEF ValueOf, Canon
  <2> QED BY <1>1, <1>5, <1>7, <1>8, <2>1 DEF FormInv, SecretInv
<1>12. AnsweredInv'
  BY <1>1, <1>5, <1>7, <1>8 DEF FormInv, AnsweredInv
<1>13. CleanInv'
  <2>1. ASSUME NEW k, InHand(k) PROVE InHand(k)'
    BY <1>7, <1>8, <2>1 DEF InHand
  <2> QED BY <1>1, <2>1 DEF FormInv, CleanInv
<1> QED BY <1>9, <1>10, <1>11, <1>12, <1>13 DEF FormInv

\* A PUT is answered: its save is still in hand.
LEMMA PutKeeps ==
  ASSUME FormInv, NEW i \in DOMAIN saves, NEW k \in DOMAIN saves[i].put, PutTaken(i, k) \/ PutFails(i, k)
  PROVE  FormInv'
<1>1. /\ saves[i].put[k] = "sent" /\ (\E a : saves' = [saves EXCEPT ![i].put[k] = a])
      /\ stored' \in {stored, [stored EXCEPT ![k] = saves[i].sent[k]]}
      /\ UNCHANGED <<card, options, inputs, inputsRow, get, listed, stale>>
  BY DEF PutTaken, PutFails
<1>2. PICK a : saves' = [saves EXCEPT ![i].put[k] = a]
  BY <1>1
<1> DEFINE s == [sent |-> saves[i].sent, put |-> [saves[i].put EXCEPT ![k] = a], form |-> saves[i].form, st |-> saves[i].st]
<1>3. Shapes /\ IsSave(saves[i]) /\ k \in card.keys /\ DOMAIN stored = card.keys
  BY DEF FormInv, Shapes, IsSave
<1>4. Replaces(i, s)
  BY <1>2, <1>3, PutChanges
<1>5. /\ s.sent = saves[i].sent /\ s.form = saves[i].form /\ s.st = saves[i].st /\ DOMAIN s.put = DOMAIN saves[i].put
      /\ s.put[k] = a /\ \A x \in DOMAIN s.put : x # k => s.put[x] = saves[i].put[x]
      /\ s = [sent |-> s.sent, put |-> s.put, form |-> s.form, st |-> s.st]
  OBVIOUS
<1> HIDE DEF s
<1>6. DOMAIN stored' = card.keys /\ \A x \in card.keys : x # k => stored'[x] = stored[x]
  BY <1>1, <1>3
<1>7. stored'[k] \in {stored[k], saves[i].sent[k]}
  BY <1>1, <1>3
<1>8. Shapes'
  <2>1. ASSUME NEW j \in DOMAIN saves PROVE IsSave(saves[j])'
    <3>1. CASE j = i
      BY <1>1, <1>3, <1>4, <1>5, <3>1 DEF IsSave, Replaces
    <3>2. CASE j # i
      BY <1>1, <1>3, <1>4, <3>2 DEF Shapes, IsSave, Replaces
    <3> QED BY <3>1, <3>2
  <2>2. faults' \in Nat
    BY <1>3 DEF PutTaken, PutFails, Shapes
  <2> QED BY <1>1, <1>3, <1>4, <1>6, <2>1, <2>2 DEF Shapes, Replaces
<1>9. FieldsInv'
  <2>1. card.rebases => \A j \in DOMAIN saves : DOMAIN saves'[j].form = card.keys
    BY <1>4, <1>5 DEF FormInv, FieldsInv, Replaces
  <2> QED BY <1>1, <1>4, <2>1 DEF FormInv, FieldsInv, Replaces
<1>10. SecretInv'
  <2>1. Secret \in card.always => Secret \in card.keys
    BY <1>3, CardsAreRegular DEF Shapes, Regular
  <2> QED BY <1>1, <1>3, <1>4, <1>5, <1>6, <1>7, <2>1 DEF FormInv, SecretInv, Replaces, IsSave
<1>11. AnsweredInv'
  <2> SUFFICES ASSUME faults' = 0, NEW j \in DOMAIN saves, NEW x \in DOMAIN saves'[j].put
               PROVE  saves'[j].put[x] \in (IF saves'[j].st = "run" THEN {"sent", "ok"} ELSE {"ok"})
    BY <1>4 DEF AnsweredInv, Replaces
  <2>1. faults = 0 /\ (x = k /\ j = i => saves'[j].put[x] = "ok")
    <3>1. CASE PutTaken(i, k)
      <4>1. faults' = faults /\ saves' = [saves EXCEPT ![i].put[k] = "ok"]
        BY <3>1 DEF PutTaken
      <4>2. Replaces(i, [sent |-> saves[i].sent, put |-> [saves[i].put EXCEPT ![k] = "ok"], form |-> saves[i].form, st |-> saves[i].st])
        BY <1>3, <4>1, PutChanges
      <4> QED BY <4>1, <4>2 DEF Replaces
    <3>2. CASE PutFails(i, k)
      BY <3>2 DEF PutFails, FormInv, Shapes
    <3> QED BY <3>1, <3>2
  <2> QED BY <1>4, <1>5, <2>1 DEF FormInv, AnsweredInv, Replaces
<1>12. CleanInv'
  <2> SUFFICES ASSUME faults' = 0, ~stale, NEW x \in card.keys \ {Secret}
               PROVE  \/ InHand(x)'
                      \/ get.st = "sent"
                      \/ get.st = "read" /\ get.listing[x] = stored'[x]
                      \/ get.st = "idle" /\ (x \in DOMAIN inputsRow /\ stored'[x] \notin Unread(card)
                                                => Canon(inputsRow[x]) = Canon(stored'[x]))
    BY <1>1 DEF CleanInv
  <2>1. faults = 0
    BY DEF PutTaken, PutFails, FormInv, Shapes
  <2>2. saves[i].st = "run"
    BY <1>1, <2>1 DEF FormInv, AnsweredInv
  <2>3. InHand(k)'
    BY <1>4, <1>5, <2>2 DEF InHand, Replaces
  <2>4. InHand(x) => InHand(x)'
    BY <1>4, <1>5 DEF InHand, Replaces
  <2> QED BY <1>6, <2>1, <2>3, <2>4 DEF FormInv, CleanInv
<1> QED BY <1>8, <1>9, <1>10, <1>11, <1>12 DEF FormInv

\* A save ends and, when it succeeded, a listing is asked for: the options it changed are
\* on their way back, or the listing in flight was read too early and the card is stale.
LEMMA SaveEnds ==
  ASSUME FormInv, NEW i \in DOMAIN saves, SaveSucceeds(i) \/ SaveFails(i)
  PROVE  FormInv'
<1>1. /\ saves[i].st = "run" /\ (\E x \in {"waits", "saved", "failed"} : saves' = [saves EXCEPT ![i].st = x])
      /\ UNCHANGED <<card, stored, options, inputs, listed, faults>>
  BY DEF SaveSucceeds, SaveFails
<1>2. PICK x \in {"waits", "saved", "failed"} : saves' = [saves EXCEPT ![i].st = x]
  BY <1>1
<1> DEFINE s == [sent |-> saves[i].sent, put |-> saves[i].put, form |-> saves[i].form, st |-> x]
<1>3. Shapes /\ IsSave(saves[i]) /\ Regular(card)
  BY CardsAreRegular DEF FormInv, Shapes
<1>4. Replaces(i, s)
  BY <1>2, <1>3, StateChanges
<1>5. /\ s.sent = saves[i].sent /\ s.form = saves[i].form /\ s.st = x /\ s.put = saves[i].put
      /\ s = [sent |-> s.sent, put |-> s.put, form |-> s.form, st |-> s.st]
  OBVIOUS
<1> HIDE DEF s
<1>6. /\ inputsRow' = inputsRow \/ (card.rebases /\ inputsRow' = saves[i].form)
      /\ get' = get \/ (get.st = "idle" /\ get'.st = "sent")
  BY DEF SaveSucceeds, SaveFails, OnRefresh
<1>7. Shapes'
  <2>1. ASSUME NEW j \in DOMAIN saves PROVE IsSave(saves[j])'
    <3>1. CASE j = i
      BY <1>1, <1>3, <1>4, <1>5, <3>1 DEF IsSave, Replaces
    <3>2. CASE j # i
      BY <1>1, <1>3, <1>4, <3>2 DEF Shapes, IsSave, Replaces
    <3> QED BY <3>1, <3>2
  <2> QED BY <1>1, <1>3, <1>4, <1>6, <2>1 DEF Shapes, Replaces
<1>8. FieldsInv'
  <2>1. card.rebases => \A j \in DOMAIN saves : DOMAIN saves'[j].form = card.keys
    BY <1>4, <1>5 DEF FormInv, FieldsInv, Replaces
  <2>2. card.rebases => DOMAIN inputsRow' = card.keys
    BY <1>3, <1>6 DEF FormInv, FieldsInv, Regular
  <2>3. ~card.rebases => inputsRow' = inputsRow
    BY <1>6
  <2>4. card.rebases => DOMAIN inputs = card.keys
    BY <1>3 DEF FormInv, FieldsInv, Regular
  <2> QED BY <1>1, <1>3, <1>4, <2>1, <2>2, <2>3, <2>4 DEF FormInv, FieldsInv, Replaces, Regular
<1>9. SecretInv'
  BY <1>1, <1>4, <1>5, ZenonT(30) DEF FormInv, SecretInv, Replaces
<1>10. ASSUME faults = 0 PROVE SaveSucceeds(i) /\ \A k \in DOMAIN saves[i].put : saves[i].put[k] = "ok"
  <2>1. \A k \in DOMAIN saves[i].put : saves[i].put[k] \in {"sent", "ok"}
    BY <1>1, <1>10 DEF FormInv, AnsweredInv
  <2>2. ~SaveFails(i)
    BY <2>1 DEF SaveFails, PutAnswers
  <2>3. SaveSucceeds(i) /\ PutAnswers(saves[i]) \subseteq {"ok", "refused"}
    BY <2>2 DEF SaveSucceeds
  <2> QED BY <2>1, <2>3 DEF PutAnswers
<1>11. AnsweredInv'
  BY <1>1, <1>4, <1>5, <1>10 DEF FormInv, AnsweredInv, Replaces
<1>12. CleanInv'
  <2> SUFFICES ASSUME faults = 0, ~stale' PROVE get'.st = "sent"
    BY <1>1 DEF CleanInv
  <2>1. SaveSucceeds(i)
    BY <1>10
  <2>2. get.st # "read" /\ OnRefresh
    BY <2>1 DEF SaveSucceeds
  <2> QED BY <1>3, <2>2 DEF OnRefresh, Shapes
<1> QED BY <1>7, <1>8, <1>9, <1>11, <1>12 DEF FormInv

\* The other steps leave the saves alone.
LEMMA FormStep ==
  ASSUME FormInv, [FormNext]_formVars
  PROVE  FormInv'
<1>0. Shapes /\ Regular(card)
  BY CardsAreRegular DEF FormInv, Shapes
<1>1. CASE RefreshOther
  <2>1. /\ UNCHANGED <<card, stored, options, inputs, inputsRow, saves, listed, stale, faults>>
        /\ get' = get \/ (get.st = "idle" /\ get'.st = "sent")
    BY <1>1 DEF RefreshOther, OnRefresh
  <2>2. Shapes' /\ FieldsInv' /\ SecretInv' /\ AnsweredInv'
    BY <2>1 DEF FormInv, Shapes, IsSave, FieldsInv, SecretInv, AnsweredInv
  <2>3. CleanInv'
    BY <2>1 DEF FormInv, CleanInv, InHand
  <2> QED BY <2>2, <2>3 DEF FormInv
<1>2. CASE ServerLists
  <2> DEFINE listing == Spread([k \in card.keys \ {Secret} |-> stored[k]], [k \in {Elsewhere} |-> 1])
  <2>1. /\ UNCHANGED <<card, stored, options, inputs, inputsRow, saves, listed, stale, faults>>
        /\ get'.st = "read" /\ get'.listing = listing
    BY <1>2 DEF ServerLists
  <2>2. DOMAIN listing = (card.keys \ {Secret}) \cup {Elsewhere} /\ \A k \in card.keys \ {Secret} : listing[k] = stored[k]
    BY DEF Spread
  <2> HIDE DEF listing
  <2>3. Shapes' /\ FieldsInv' /\ SecretInv' /\ AnsweredInv'
    BY <2>1, <2>2 DEF FormInv, Shapes, IsSave, FieldsInv, SecretInv, AnsweredInv
  <2>4. CleanInv'
    BY <2>1, <2>2 DEF CleanInv
  <2> QED BY <2>3, <2>4 DEF FormInv
<1>3. CASE GetOptionsFails
  <2>1. RefreshEnds /\ faults' = faults + 1 /\ UNCHANGED <<card, stored, options, inputs, inputsRow, listed, stale>>
    BY <1>3 DEF GetOptionsFails
  <2>2. /\ DOMAIN saves' = DOMAIN saves /\ (\E n \in Nat : saves' = [i \in 1..n |-> saves'[i]])
        /\ \A i \in DOMAIN saves : /\ IsSave(saves[i])' /\ saves'[i].sent = saves[i].sent
                                   /\ saves'[i].put = saves[i].put /\ saves'[i].form = saves[i].form
        /\ get'.st = "idle"
    BY <1>0, <2>1, RefreshEndsSaves
  <2>3. faults' \in Nat /\ faults' # 0
    BY <1>0, <2>1 DEF Shapes
  <2>4. Shapes'
    BY <1>0, <2>1, <2>2, <2>3 DEF Shapes
  <2>5. FieldsInv' /\ SecretInv'
    BY <2>1, <2>2 DEF FormInv, FieldsInv, SecretInv
  <2> QED BY <2>3, <2>4, <2>5 DEF FormInv, AnsweredInv, CleanInv
<1>4. ASSUME NEW k \in card.keys, NEW v \in Typed(card, k), Edit(k, v) PROVE FormInv'
  <2>1. /\ UNCHANGED <<card, stored, options, inputsRow, saves, get, listed, stale, faults>>
        /\ DOMAIN inputs' = {k} \cup DOMAIN inputs
    BY <1>4 DEF Edit, Spread
  <2>2. Shapes' /\ SecretInv' /\ AnsweredInv'
    BY <2>1 DEF FormInv, Shapes, IsSave, SecretInv, AnsweredInv
  <2>3. FieldsInv'
    BY <2>1 DEF FormInv, FieldsInv
  <2>4. CleanInv'
    BY <2>1 DEF FormInv, CleanInv, InHand
  <2> QED BY <2>2, <2>3, <2>4 DEF FormInv
<1>5. CASE UNCHANGED formVars
  BY <1>5 DEF formVars, FormInv, Shapes, IsSave, FieldsInv, SecretInv, AnsweredInv, CleanInv, InHand
<1> QED
  BY <1>1, <1>2, <1>3, <1>4, <1>5, GetOptionsKeeps, OnSubmitKeeps, PutKeeps, SaveEnds DEF FormNext, Handles

\* The card is mounted with the defaults of its screen and a listing on its way.
LEMMA FormStart == FormInit => FormInv
<1> SUFFICES ASSUME FormInit PROVE FormInv
  OBVIOUS
<1>1. /\ card \in Cards /\ DOMAIN stored = card.keys /\ (Secret \in card.keys => stored[Secret] = 1)
      /\ saves = <<>> /\ get.st = "sent" /\ listed = FALSE
      /\ inputs = FormOf(card, FirstForm(card), Defaults(card)) /\ inputsRow = inputs /\ faults = 0
  BY DEF FormInit
<1>2. Regular(card)
  BY <1>1, CardsAreRegular
<1>3. DOMAIN saves = {} /\ saves = [i \in 1..0 |-> saves[i]]
  BY <1>1
<1>4. /\ DOMAIN inputs \subseteq card.keys /\ card.keys \ {Late} \subseteq DOMAIN inputs
      /\ card.loads \in {"every", "keep"} => DOMAIN inputs = card.keys
  <2> DEFINE first == FirstForm(card)
             opts == Defaults(card)
  <2>1. DOMAIN first = card.keys /\ DOMAIN opts = card.keys \ {Late}
    BY DEF FirstForm, Defaults
  <2>2. CASE card.loads = "known"
    BY <1>1, <2>1, <2>2 DEF FormOf
  <2>3. CASE card.loads = "listed"
    BY <1>1, <2>1, <2>3 DEF FormOf
  <2>4. CASE card.loads = "every"
    BY <1>1, <2>1, <2>4 DEF FormOf
  <2>5. CASE card.loads = "keep"
    BY <1>1, <2>1, <2>5 DEF FormOf
  <2> QED BY <1>2, <2>2, <2>3, <2>4, <2>5 DEF Regular
<1>5. Shapes
  BY <1>1, <1>3 DEF Shapes
<1>6. FieldsInv
  BY <1>1, <1>3, <1>4 DEF FieldsInv
<1>7. SecretInv
  BY <1>1, <1>2, <1>3 DEF SecretInv, Regular
<1>8. AnsweredInv /\ CleanInv
  BY <1>1, <1>3 DEF AnsweredInv, CleanInv
<1> QED BY <1>5, <1>6, <1>7, <1>8 DEF FormInv

\* And so the invariant holds in every behaviour.
LEMMA FormAlways == FormSpec => []FormInv
BY FormStart, FormStep, PTL DEF FormSpec

\* On every card, whatever was saved, listed or failed in between, no option of the card is
\* lost from its form, and the secret of a payment card is never emptied.
THEOREM NoFieldIsLost == FormSpec => []FieldsKept
<1>1. FormInv => FieldsKept
  BY DEF FormInv, FieldsInv, SecretInv, FieldsKept
<1> QED BY <1>1, FormAlways, PTL

\* On every card, as long as no call failed and no save was answered by a listing read before
\* it, what a quiet card takes for unchanged is what the server has stored, in some spelling,
\* unless that is a value the card cannot show (Unread: two cards that compare have one).
THEOREM CleanMeansStored == FormSpec => []CleanIsStored
<1>1. FormInv => CleanIsStored
  <2> SUFFICES ASSUME FormInv, Quiet, faults = 0, ~stale,
                      NEW k \in (DOMAIN inputs \cap DOMAIN inputsRow) \ (card.always \cup {Secret}),
                      inputs[k] = inputsRow[k], stored[k] \notin Unread(card)
               PROVE  Canon(inputs[k]) = Canon(stored[k])
    BY DEF CleanIsStored
  <2>1. ~InHand(k) /\ get.st = "idle"
    BY DEF Quiet, InHand
  <2>2. k \in card.keys \ {Secret}
    BY DEF FormInv, FieldsInv
  <2> QED BY <2>1, <2>2 DEF FormInv, CleanInv
<1> QED BY <1>1, FormAlways, PTL

-----------------------------------------------------------------------------
(* Tables.                                                                 *)

\* What an answer shows, the calls that will put captured rows back, and the listings
\* whose answers will be used.
ListingOf(c) == Listing(Served(c.page), c.kw)
Capturing == {c \in calls : c.kind \in Captures}
Live == {c \in Lists(calls) : Applies(c)}

\* Types, the numbers of the calls, and that only the channels page lists no page.
Numbered ==
  /\ table \in Tables /\ kw \in {0, 1} /\ query \in {0, 1} /\ page \in Nat
  /\ issued \in Nat /\ newest \in Nat /\ newest <= issued
  /\ \A c \in calls : c.no \in Nat /\ c.no <= issued /\ c.page \in Nat
  /\ \A c \in Lists(calls) : c.kw \in {0, 1}
  /\ \A c \in calls \ Lists(calls) : c.query \in {0, 1}
  /\ table.lands => page # 0 /\ \A c \in calls : c.page # 0

\* Unless a row operation overlapped a listing, it puts back the rows that are shown.
CaptureInv ==
  "op" \notin upset => \A c \in Capturing : Lists(calls) = {} /\ c.rows = rows

\* Unless something upset the page, one answer at most will be used, the one of the
\* listing asked for last; without it the page shows that listing already.
FreshInv ==
  upset \subseteq {"unpaged"} =>
    /\ Live = {} => rows = last /\ (table.by = "mode" => query = last.kw)
    /\ \A c \in Live : /\ \A d \in Live : d = c
                       /\ ListingOf(c) = last
                       /\ table.by = "mode" => IF c.kw = 0 THEN c.kind = "list" /\ query = 0
                                                           ELSE c.kind = "search"

\* The pager agrees with the rows or an answer will set it; on the channels page, where
\* the answer of a plain listing does not, it agrees with the listing in flight.
PagerInv ==
  /\ table.lands /\ upset \subseteq {"race"} => page = rows.page \/ Live # {}
  /\ ~table.lands /\ upset = {} =>
       /\ Live = {} => page = rows.page
       /\ \A c \in Live : c.page # NoPage /\ (c.kind = "list" => c.page = page)

TableInv == Numbered /\ CaptureInv /\ FreshInv /\ PagerInv

-----------------------------------------------------------------------------
\* What the descriptions of the pages have in common.
RegularTable(t) ==
  /\ t.guard \in {"none", "loads", "all"} /\ t.by \in {"form", "mode", "query", "never"}
  /\ t.refresh \in {"first", "plain", "shown"} /\ t.ops \subseteq {"captured", "again", "refresh"}
  /\ t.by = "mode" => t.clears = "own" /\ t.refresh = "plain"
  /\ t.lands \in BOOLEAN

\* Each of them has it.
LEMMA TablesAreRegular == \A t \in Tables : RegularTable(t)
<1>1. RegularTable(Tokens)
  BY DEF RegularTable, Tokens, Table
<1>2. RegularTable(Users)
  BY DEF RegularTable, Users, Table
<1>3. RegularTable(Redemptions)
  BY DEF RegularTable, Redemptions, Table
<1>4. RegularTable(Channels)
  BY DEF RegularTable, Channels, Table
<1>5. RegularTable(Models)
  BY DEF RegularTable, Models, Table
<1>6. RegularTable(Deployments)
  BY DEF RegularTable, Deployments, Table
<1>7. RegularTable(OAuthLogins)
  BY DEF RegularTable, OAuthLogins, Table
<1>8. RegularTable(MjLogs) /\ RegularTable(TaskLogs)
  BY DEF RegularTable, TaskLogs, MjLogs, Table
<1>9. RegularTable(UsageLogs)
  BY DEF RegularTable, UsageLogs, Table
<1> QED BY <1>1, <1>2, <1>3, <1>4, <1>5, <1>6, <1>7, <1>8, <1>9 DEF Tables

\* Channels is the page whose listings leave the pager alone.
LEMMA ChannelsStay == ~Channels.lands
BY DEF Channels, Table

-----------------------------------------------------------------------------
\* A listing that is asked for keeps the invariant, whatever is in flight: its own
\* answer will be used, and older ones will not or upset the page.
LEMMA AskKeeps ==
  ASSUME TableInv, NEW others \in SUBSET calls, NEW turning, NEW p \in Nat, NEW k \in {0, 1}, NEW also, NEW after,
         Ask(others, turning, p, k, also, after), UNCHANGED <<table, kw>>,
         page' \in Nat, table.lands => p # 0 /\ page' # 0,
         query' \in {0, 1}, table.by = "mode" /\ k = 0 => query' = 0
  PROVE  TableInv'
<1> DEFINE kind == Kind(k)
           pg == IF kind = "search" /\ table.first THEN 1 ELSE p
           new == [no |-> issued + 1, kind |-> kind, page |-> pg, kw |-> k,
                   stops |-> Stops(kind) \cup also, also |-> also, after |-> after]
           late == Lists(others) \ Outdated(others, kind)
<1>1. /\ issued' = issued + 1 /\ calls' = others \cup {new} /\ last' = Listing(Served(pg), k)
      /\ newest' = IF table.guard = "all" \/ kind = "list" THEN issued + 1 ELSE newest
      /\ upset' = (IF others = {} THEN {} ELSE upset)
                    \cup (IF late # {} THEN {"race"} ELSE {})
                    \cup (IF \E c \in others : c.kind \in Captures THEN {"op"} ELSE {})
                    \cup (IF pg = NoPage \/ (kind = "list" /\ ~table.lands /\ pg # page') THEN {"unpaged"} ELSE {})
  BY DEF Ask
<1>2. /\ new.no = issued + 1 /\ new.kind = kind /\ new.page = pg /\ new.kw = k
      /\ kind \in {"list", "search"} /\ pg \in Nat /\ (table.lands => pg # 0)
      /\ (k = 0 => kind = "list") /\ (k = 1 /\ table.clears = "own" => kind = "search")
  BY DEF Kind
<1> HIDE DEF new, pg, kind
<1>3. RegularTable(table) /\ table' = table
  BY TablesAreRegular DEF TableInv, Numbered
<1>4. /\ issued \in Nat /\ newest \in Nat /\ newest <= issued
      /\ \A c \in others : c.no \in Nat /\ c.no <= issued /\ c # new
  BY <1>2 DEF TableInv, Numbered
<1>5. Numbered'
  BY <1>1, <1>2, <1>4 DEF TableInv, Numbered, Lists
<1>6. /\ Lists(calls)' = Lists(others) \cup {new}
      /\ "op" \notin upset' => Capturing' = {}
  BY <1>1, <1>2 DEF Lists, Capturing, Captures
<1>7. new \in Live'
  BY <1>1, <1>2, <1>3, <1>6 DEF Live, Applies, RegularTable
<1>8. ASSUME "race" \notin upset' PROVE Live' = {new}
  <2>1. late = {}
    BY <1>1, <1>8
  <2>2. ASSUME NEW c \in Lists(others) PROVE c \notin Live'
    <3>1. c \in Outdated(others, kind) /\ c \in others
      BY <2>1, <2>2 DEF Lists
    <3>2. CASE table.guard = "all"
      BY <1>1, <1>3, <1>4, <3>1, <3>2 DEF Live, Applies
    <3>3. CASE table.guard = "loads" /\ kind = "list" /\ c.kind = "list"
      BY <1>1, <1>3, <1>4, <3>1, <3>3 DEF Live, Applies
    <3> QED BY <3>1, <3>2, <3>3 DEF Outdated
  <2> QED BY <1>6, <1>7, <2>2 DEF Live
<1>9. CaptureInv'
  BY <1>6 DEF CaptureInv
<1>10. FreshInv'
  <2> SUFFICES ASSUME upset' \subseteq {"unpaged"}
               PROVE  /\ Live' # {}
                      /\ \A c \in Live' : /\ \A d \in Live' : d = c
                                          /\ ListingOf(c) = last'
                                          /\ table.by = "mode" => IF c.kw = 0 THEN c.kind = "list" /\ query' = 0
                                                                              ELSE c.kind = "search"
    BY <1>3 DEF FreshInv, ListingOf, Listing, Served, NoPage
  <2>1. Live' = {new}
    BY <1>8
  <2> QED BY <1>1, <1>2, <1>3, <2>1 DEF ListingOf, RegularTable
<1>11. PagerInv'
  <2>1. Live' # {}
    BY <1>7
  <2>2. ASSUME ~table.lands, upset' = {} PROVE \A c \in Live' : c.page # NoPage /\ (c.kind = "list" => c.page = page')
    <3>1. Live' = {new} /\ pg # NoPage /\ (kind = "list" => pg = page')
      BY <1>1, <1>8, <2>2
    <3> QED BY <1>2, <3>1
  <2> QED BY <1>3, <2>1, <2>2 DEF PagerInv
<1> QED BY <1>5, <1>9, <1>10, <1>11 DEF TableInv

\* The keywords of listings.
LEMMA KeywordType ==
  ASSUME Numbered
  PROVE  /\ Keyword \in {0, 1}
         /\ \A k \in {0, 1} : Remembered(k) \in {0, 1} /\ (table.by = "mode" /\ k = 0 => Remembered(k) = 0)
<1>1. RegularTable(table)
  BY TablesAreRegular DEF Numbered
<1> QED BY <1>1 DEF Numbered, RegularTable, Keyword, Remembered

\* What a refresh lists.
LEMMA RefreshedType ==
  ASSUME Numbered, NEW p \in Nat, NEW q \in {0, 1}
  PROVE  /\ Refreshed(p, q).page \in Nat /\ Refreshed(p, q).kw \in {0, 1}
         /\ p # 0 => Refreshed(p, q).page # 0
<1>1. RegularTable(table) /\ kw \in {0, 1}
  BY TablesAreRegular DEF Numbered
<1>2. CASE table.refresh = "first"
  BY <1>1, <1>2 DEF Refreshed, Listing
<1>3. CASE table.refresh = "plain"
  BY <1>1, <1>3 DEF Refreshed, Listing
<1>4. CASE table.refresh = "shown"
  <2>1. table.by \in {"form", "query", "never"}
    BY <1>1, <1>4 DEF RegularTable
  <2> QED BY <1>1, <1>4, <2>1 DEF Refreshed, Listing
<1> QED BY <1>1, <1>2, <1>3, <1>4 DEF RegularTable

\* An answer that is not used, or one that only ends an operation, removes a call.
LEMMA RemoveKeeps ==
  ASSUME TableInv, NEW c \in calls, c \notin Live, calls' = calls \ {c},
         UNCHANGED <<table, kw, query, page, rows, issued, newest, last, upset>>
  PROVE  TableInv'
<1>1. Live' = Live /\ Capturing' \subseteq Capturing /\ Lists(calls)' \subseteq Lists(calls)
  BY DEF Live, Lists, Applies, Capturing
<1>2. Numbered'
  BY DEF TableInv, Numbered, Lists
<1>3. CaptureInv'
  BY <1>1 DEF TableInv, CaptureInv
<1>4. FreshInv'
  BY <1>1 DEF TableInv, FreshInv, ListingOf, Listing, Served, NoPage
<1>5. PagerInv'
  BY <1>1 DEF TableInv, PagerInv
<1> QED BY <1>2, <1>3, <1>4, <1>5 DEF TableInv

\* A listing that failed, after which nothing is claimed of the rows.
LEMMA FaultKeeps ==
  ASSUME TableInv, NEW c \in Lists(calls), calls' = calls \ {c}, "fault" \in upset', upset' = upset \cup {"fault"},
         UNCHANGED <<table, kw, query, page, issued, newest, last>>
  PROVE  TableInv'
<1>1. Numbered'
  BY DEF TableInv, Numbered, Lists
<1>2. CaptureInv'
  <2>1. "op" \notin upset' => Capturing = {}
    BY DEF TableInv, CaptureInv
  <2>2. Capturing' \subseteq Capturing
    BY DEF Capturing
  <2> QED BY <2>1, <2>2 DEF CaptureInv
<1>3. FreshInv' /\ PagerInv'
  BY DEF FreshInv, PagerInv
<1> QED BY <1>1, <1>2, <1>3 DEF TableInv

-----------------------------------------------------------------------------
\* Every step keeps the invariant.
LEMMA TableStep ==
  ASSUME TableInv, [TableNext]_tableVars
  PROVE  TableInv'
<1>0. /\ RegularTable(table) /\ kw \in {0, 1} /\ query \in {0, 1} /\ page \in Nat /\ (table.lands => page # 0)
      /\ Numbered /\ calls \in SUBSET calls
  BY TablesAreRegular DEF TableInv, Numbered
<1>1. CASE Type
  <2>1. UNCHANGED <<table, query, page, rows, spin, calls, issued, newest, misses, last, upset>> /\ kw' \in {0, 1}
    BY <1>0, <1>1 DEF Type
  <2>2. Live' = Live /\ Capturing' = Capturing /\ Lists(calls)' = Lists(calls)
    BY <2>1 DEF Live, Lists, Applies, Capturing
  <2> QED BY <2>1, <2>2 DEF TableInv, Numbered, CaptureInv, FreshInv, PagerInv, ListingOf, Listing, Served, NoPage
<1>2. CASE Search
  <2>1. PICK also : Ask(calls, spin, 1, kw, also, FALSE)
    BY <1>2 DEF Search
  <2>2. (page' \in Nat /\ page' # 0) \/ page' = page
    BY <1>2 DEF Search
  <2>3. query' = (IF table.by = "query" THEN kw ELSE Remembered(kw)) /\ UNCHANGED <<table, kw>>
    BY <1>2 DEF Search
  <2>4. page' \in Nat /\ (table.lands => page' # 0)
    BY <1>0, <2>2
  <2>5. query' \in {0, 1} /\ (table.by = "mode" /\ kw = 0 => query' = 0)
    BY <1>0, <2>3, KeywordType
  <2>6. 1 \in Nat /\ 1 # 0
    OBVIOUS
  <2> QED BY <1>0, <2>1, <2>3, <2>4, <2>5, <2>6, AskKeeps, Zenon
<1>3. CASE Refresh
  <2> DEFINE l == Refreshed(page, query)
  <2>1. /\ Ask(calls, spin, l.page, l.kw, {}, FALSE) /\ page' \in {1, page} /\ query' = Remembered(l.kw)
        /\ UNCHANGED <<table, kw>>
    BY <1>3 DEF Refresh
  <2>2. l.page \in Nat /\ l.kw \in {0, 1} /\ (page # 0 => l.page # 0)
    BY <1>0, RefreshedType
  <2> HIDE DEF l
  <2>3. page' \in Nat /\ (table.lands => l.page # 0 /\ page' # 0)
    BY <1>0, <2>1, <2>2
  <2>4. query' \in {0, 1} /\ (table.by = "mode" /\ l.kw = 0 => query' = 0)
    BY <1>0, <2>1, <2>2, KeywordType
  <2> QED BY <1>0, <2>1, <2>2, <2>3, <2>4, AskKeeps
<1>4. ASSUME NEW p \in Pages, HandlePageChange(p) PROVE TableInv'
  <2>1. /\ Ask(calls, spin, Turned(p), Keyword, {}, FALSE) /\ page' \in {p, page} /\ query' = Remembered(Keyword)
        /\ UNCHANGED <<table, kw>>
    BY <1>4 DEF HandlePageChange
  <2>2. p \in Nat /\ p # 0 /\ Turned(p) \in Nat /\ Turned(p) # 0
    BY TableAssumption DEF Pages, Turned
  <2> QED BY <1>0, <2>1, <2>2, KeywordType, AskKeeps
<1>5. CASE HandlePageSizeChange
  <2> DEFINE k == IF table.resize = "plain" THEN 0 ELSE Keyword
             p == IF table.resize \in {"current", "plain"} THEN page ELSE 1
  <2>1. /\ Ask(calls, spin, p, k, {}, FALSE) /\ page' \in {1, page} /\ query' = Remembered(k)
        /\ UNCHANGED <<table, kw>>
    BY <1>5 DEF HandlePageSizeChange
  <2>2. k \in {0, 1} /\ p \in {1, page}
    BY <1>0, KeywordType
  <2> HIDE DEF k, p
  <2>3. page' \in Nat /\ p \in Nat /\ (table.lands => p # 0 /\ page' # 0)
    BY <1>0, <2>1, <2>2
  <2>4. query' \in {0, 1} /\ (table.by = "mode" /\ k = 0 => query' = 0)
    BY <1>0, <2>1, <2>2, KeywordType
  <2> QED BY <1>0, <2>1, <2>2, <2>3, <2>4, AskKeeps
<1>6. CASE ResizeEffect
  <2>1. Ask(calls, spin, 1, 0, {}, FALSE) /\ page' = page /\ query' = Remembered(0) /\ UNCHANGED <<table, kw>>
    BY <1>6 DEF ResizeEffect
  <2>2. query' \in {0, 1} /\ (table.by = "mode" => query' = 0)
    BY <1>0, <2>1, KeywordType
  <2>3. 1 \in Nat /\ 1 # 0 /\ 0 \in {0, 1} /\ page' \in Nat /\ (table.lands => page' # 0)
    BY <1>0, <2>1
  <2> QED BY <1>0, <2>1, <2>2, <2>3, AskKeeps, Zenon
<1>7. CASE LoadChannels
  <2>1. PICK also : Ask(calls, spin, 1, kw, also, FALSE)
    BY <1>7 DEF LoadChannels
  <2>2. page' = 1 /\ UNCHANGED <<table, kw, query>> /\ table = Channels
    BY <1>7 DEF LoadChannels
  <2>3. table.by # "mode"
    BY <2>2 DEF Channels, Table
  <2>4. page' \in Nat /\ page' # 0 /\ query' \in {0, 1}
    BY <1>0, <2>2
  <2> QED BY <1>0, <2>1, <2>2, <2>3, <2>4, AskKeeps
<1>8. CASE RefreshButton
  <2>1. PICK also : Ask(calls, spin, NoPage, kw, also, FALSE)
    BY <1>8 DEF RefreshButton
  <2>2. page' = page /\ UNCHANGED <<table, kw, query>> /\ table = Channels
    BY <1>8 DEF RefreshButton
  <2>3. table.by # "mode" /\ ~table.lands
    BY <2>2, ChannelsStay DEF Channels, Table
  <2>4. NoPage \in Nat
    BY DEF NoPage
  <2> QED BY <1>0, <2>1, <2>2, <2>3, <2>4, AskKeeps
<1>9. ASSUME NEW how \in table.ops, Manage(how) PROVE TableInv'
  <2> DEFINE c == [no |-> issued + 1, kind |-> how, rows |-> rows, page |-> page, query |-> query]
  <2>1. /\ issued' = issued + 1 /\ calls' = calls \cup {c}
        /\ upset' = upset \cup (IF how \in Captures /\ Lists(calls) # {} THEN {"op"} ELSE {})
        /\ UNCHANGED <<table, kw, query, page, rows, newest, misses, last>>
    BY <1>9 DEF Manage
  <2>2. /\ c.no = issued + 1 /\ c.kind = how /\ c.rows = rows /\ c.page = page /\ c.query = query
        /\ how \notin {"list", "search"}
    BY <1>0, <1>9 DEF RegularTable
  <2> HIDE DEF c
  <2>3. Lists(calls)' = Lists(calls) /\ Live' = Live /\ Capturing' \subseteq Capturing \cup {c}
    BY <2>1, <2>2 DEF Live, Lists, Applies, Capturing
  <2>4. Numbered'
    BY <2>1, <2>2, <2>3 DEF TableInv, Numbered, Lists
  <2>5. CaptureInv'
    <3> SUFFICES ASSUME "op" \notin upset', NEW d \in Capturing' PROVE Lists(calls) = {} /\ d.rows = rows
      BY <2>1, <2>3 DEF CaptureInv
    <3>1. CASE d = c
      BY <2>1, <2>2, <3>1 DEF Capturing
    <3>2. CASE d \in Capturing
      BY <2>1, <3>2 DEF TableInv, CaptureInv
    <3> QED BY <2>3, <3>1, <3>2
  <2>6. FreshInv' /\ PagerInv'
    BY <2>1, <2>3 DEF TableInv, FreshInv, PagerInv, ListingOf, Listing, Served, NoPage
  <2> QED BY <2>4, <2>5, <2>6 DEF TableInv
<1>10. ASSUME NEW c \in Lists(calls), ListRefused(c) \/ ListFails(c) PROVE TableInv'
  BY <1>10, FaultKeeps DEF ListRefused, ListFails
<1>11. ASSUME NEW c \in Lists(calls), Listed(c) PROVE TableInv'
  <2>1. /\ Applies(c) /\ calls' = calls \ {c} /\ rows' = ListingOf(c)
        /\ page' = IF c.kind = "search" \/ table.lands THEN c.page ELSE page
        /\ query' = IF table.by = "mode" /\ c.kind = "search" THEN 1 ELSE query
        /\ UNCHANGED <<table, kw, issued, newest, misses, last, upset>>
    BY <1>11 DEF Listed, ListingOf
  <2>2. c \in Live /\ c \in calls /\ c.page \in Nat /\ c.kw \in {0, 1}
    BY <1>11, <2>1 DEF Live, Lists, TableInv, Numbered
  <2>3. Live' = Live \ {c} /\ Capturing' \subseteq Capturing
    BY <2>1 DEF Live, Lists, Applies, Capturing
  <2>4. rows'.page = Served(c.page) /\ rows'.kw = c.kw
    BY <2>1 DEF ListingOf, Listing
  <2>5. Numbered'
    BY <2>1, <2>2 DEF TableInv, Numbered, Lists
  <2>6. CaptureInv'
    BY <1>11, <2>1, <2>3 DEF TableInv, CaptureInv
  <2>7. FreshInv'
    <3>1. ASSUME upset \subseteq {"unpaged"} PROVE Live' = {} /\ rows' = last /\ (table.by = "mode" => query' = last.kw)
      <4>1. /\ \A d \in Live : d = c
            /\ ListingOf(c) = last
            /\ table.by = "mode" => IF c.kw = 0 THEN c.kind = "list" /\ query = 0 ELSE c.kind = "search"
        BY <2>2, <3>1 DEF TableInv, FreshInv
      <4> QED BY <2>1, <2>2, <2>3, <2>4, <4>1
    <3> QED BY <2>1, <3>1 DEF FreshInv
  <2>8. PagerInv'
    <3>1. CASE table.lands
      <4>1. c.page # 0
        BY <2>2, <3>1 DEF TableInv, Numbered
      <4> QED BY <2>1, <2>4, <3>1, <4>1 DEF PagerInv, Served, NoPage
    <3>2. CASE ~table.lands
      <4> SUFFICES ASSUME upset = {} PROVE Live' = {} /\ page' = rows'.page
        BY <2>1, <3>2 DEF PagerInv
      <4>1. \A d \in Live : d = c
        BY <2>2 DEF TableInv, FreshInv
      <4>2. c.page # NoPage /\ (c.kind = "list" => c.page = page)
        BY <2>2, <3>2 DEF TableInv, PagerInv
      <4>3. c.kind \in {"list", "search"}
        BY <1>11 DEF Lists
      <4> QED BY <2>1, <2>3, <2>4, <3>2, <4>1, <4>2, <4>3 DEF Served
    <3> QED BY <3>1, <3>2
  <2> QED BY <2>5, <2>6, <2>7, <2>8 DEF TableInv
<1>12. ASSUME NEW c \in Lists(calls), Dropped(c) PROVE TableInv'
  <2>1. c \in calls /\ c \notin Live
    BY <1>12 DEF Dropped, Live, Lists
  <2> QED BY <1>12, <2>1, RemoveKeeps DEF Dropped
<1>13. ASSUME NEW c \in calls \ Lists(calls) PROVE c \in calls /\ c \notin Live /\ c.page \in Nat /\ c.query \in {0, 1}
                                                   /\ (table.lands => c.page # 0)
  BY <1>0, <1>13 DEF Live, Numbered
<1>14. ASSUME NEW c \in calls \ Lists(calls), Managed(c) PROVE TableInv'
  <2>1. /\ c.kind = "captured" /\ calls' = calls \ {c} /\ rows' = c.rows
        /\ UNCHANGED <<table, kw, query, page, issued, newest, misses, last, upset>>
    BY <1>14 DEF Managed
  <2>2. CASE "op" \in upset
    <3>1. Numbered'
      BY <2>1 DEF TableInv, Numbered, Lists
    <3> QED BY <2>1, <2>2, <3>1 DEF TableInv, CaptureInv, FreshInv, PagerInv
  <2>3. CASE "op" \notin upset
    <3>1. c \in Capturing
      BY <2>1 DEF Capturing, Captures
    <3>2. rows' = rows
      BY <2>1, <2>3, <3>1 DEF TableInv, CaptureInv
    <3> QED BY <1>13, <1>14, <2>1, <3>2, RemoveKeeps
  <2> QED BY <2>2, <2>3
<1>15. ASSUME NEW c \in calls \ Lists(calls), RefreshAfter(c), UNCHANGED <<table, kw>> PROVE TableInv'
  <2> DEFINE l == Refreshed(c.page, c.query)
  <2>1. PICK turning, after : Ask(calls \ {c}, turning, l.page, l.kw, {}, after)
    BY <1>15 DEF RefreshAfter
  <2>2. page' = page /\ query' = Remembered(l.kw)
    BY <1>15 DEF RefreshAfter
  <2>3. l.page \in Nat /\ l.kw \in {0, 1} /\ (c.page # 0 => l.page # 0)
    BY <1>0, <1>13, <1>15, RefreshedType
  <2>4. calls \ {c} \in SUBSET calls
    OBVIOUS
  <2> HIDE DEF l
  <2> QED BY <1>0, <1>13, <1>15, <2>1, <2>2, <2>3, <2>4, KeywordType, AskKeeps
<1>16. ASSUME NEW c \in calls \ Lists(calls), ManagedRefresh(c) PROVE TableInv'
  BY <1>15, <1>16 DEF ManagedRefresh
<1>17. ASSUME NEW c \in calls \ Lists(calls), ManageRefused(c) PROVE TableInv'
  <2>1. CASE RefreshAfter(c)
    BY <1>15, <1>17, <2>1 DEF ManageRefused
  <2>2. CASE calls' = calls \ {c} /\ UNCHANGED <<query, page, issued, newest, last, upset>>
    BY <1>13, <1>17, <2>2, RemoveKeeps DEF ManageRefused
  <2> QED BY <1>17, <2>1, <2>2 DEF ManageRefused
<1>18. ASSUME NEW c \in calls \ Lists(calls), ManageFails(c) PROVE TableInv'
  BY <1>13, <1>18, RemoveKeeps DEF ManageFails
<1>19. CASE UNCHANGED tableVars
  <2>1. UNCHANGED <<table, kw, query, page, rows, calls, issued, newest, last, upset>>
    BY <1>19 DEF tableVars
  <2>2. Live' = Live /\ Capturing' = Capturing /\ Lists(calls)' = Lists(calls)
    BY <2>1 DEF Live, Lists, Applies, Capturing
  <2> QED BY <2>1, <2>2 DEF TableInv, Numbered, CaptureInv, FreshInv, PagerInv, ListingOf, Listing, Served, NoPage
<1> QED
  BY <1>1, <1>2, <1>3, <1>4, <1>5, <1>6, <1>7, <1>8, <1>9, <1>10, <1>11, <1>12, <1>14, <1>16, <1>17, <1>18, <1>19
  DEF TableNext, Answers

\* The page is mounted with one listing in flight.
LEMMA TableStart == TableInit => TableInv
<1> SUFFICES ASSUME TableInit PROVE TableInv
  OBVIOUS
<1> DEFINE c == [no |-> 1, kind |-> "list", page |-> 1, kw |-> 0, after |-> FALSE, also |-> {}, stops |-> Stops("list")]
<1>1. /\ table \in Tables /\ kw = 0 /\ query = 0 /\ page = 1 /\ rows = Nothing /\ calls = {c}
      /\ issued = 1 /\ newest = 1 /\ last = Listing(1, 0) /\ upset = {}
  BY DEF TableInit
<1>2. c.no = 1 /\ c.kind = "list" /\ c.page = 1 /\ c.kw = 0
  OBVIOUS
<1> HIDE DEF c
<1>3. RegularTable(table)
  BY <1>1, TablesAreRegular
<1>4. Lists(calls) = {c} /\ Capturing = {} /\ Live = {c}
  BY <1>1, <1>2, <1>3 DEF Lists, Capturing, Captures, Live, Applies, RegularTable
<1> QED BY <1>1, <1>2, <1>4 DEF TableInv, Numbered, CaptureInv, FreshInv, PagerInv, ListingOf, Listing, Served, NoPage

\* And so the invariant holds in every behaviour.
LEMMA TableAlways == TableSpec => []TableInv
BY TableStart, TableStep, PTL DEF TableSpec

\* Whatever order answers come in, a quiet page that numbers its listings, or whose
\* listings did not overlap, shows the listing that was asked for last.
THEOREM RowsAreFresh == TableSpec => []FreshRows
<1>1. TableInv => FreshRows
  BY DEF TableInv, FreshInv, FreshRows, Live, Lists
<1> QED BY <1>1, TableAlways, PTL

\* And the pager of a quiet page shows the page of its rows, on most pages whatever
\* overlapped.
THEOREM PagersAgree == TableSpec => []PagerAgrees
<1>1. TableInv => PagerAgrees
  <2> SUFFICES ASSUME TableInv, calls = {}, upset \subseteq (IF table.lands THEN {"race"} ELSE {}) PROVE page = rows.page
    BY DEF PagerAgrees
  <2>1. Live = {}
    BY DEF Live, Lists
  <2> QED BY <2>1 DEF TableInv, PagerInv
<1> QED BY <1>1, TableAlways, PTL
=============================================================================
