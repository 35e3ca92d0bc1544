---------------------------- MODULE DialogProofs ----------------------------
(***************************************************************************)
(* Proofs about the dialogs of the web console.  EditDialog: which record  *)
(* a save overwrites, and with what, for any number of records, openings   *)
(* and failed calls.  ModelTest: the spinners of the rows and the summary  *)
(* of a batch, for any number of channels, models, batches and tests at a  *)
(* time.                                                                   *)
(***************************************************************************)
EXTENDS EditDialog, ModelTest, TLAPS

-----------------------------------------------------------------------------
(* EditDialog.                                                             *)

Sources == Records \cup {Blank, Self}
Puts == [to : Records \cup {New}, from : Sources, for : Records \cup {New}]

DialogOK ==
  /\ modal \in Modals /\ shown \in BOOLEAN /\ touched \in BOOLEAN /\ waits \in BOOLEAN
  /\ editing \in Records \cup {New} /\ meant \in Records \cup {New}
  /\ fields \in Sources /\ loads \subseteq Records \cup {Self} /\ puts \subseteq Puts
  /\ timers \in Nat /\ kept \in [Records -> Sources]

Calm == upsets \cap Risks = {}

\* Of a record that is shown only its own load is in flight, under the spinner, and no save that
\* the spinner stops; once it was answered the form holds the record.
FormInv ==
  shown /\ editing # New =>
    /\ loads \subseteq {editing}
    /\ editing \in loads => waits /\ (modal.locks => puts = {})
    /\ editing \notin loads => fields = editing

\* A save that is under way takes a record's own values to it.
PutsInv == \A p \in puts : p.to # New => p.from = p.to

\* A page whose dialogs load by id has forgotten the record when its timers have fired.
Forgotten == modal.on = "id" /\ ~shown /\ timers = 0 => editing = New

\* Unless it was opened too early, a dialog edits what it was opened for, and no timer runs.
Meant == "timer" \notin upsets /\ shown => editing = meant /\ timers = 0

ContentsInv == Calm => FormInv /\ PutsInv /\ \A r \in Records : kept[r] = r

DialogInv == DialogOK /\ Forgotten /\ Meant /\ IntentKept /\ ContentsInv

\* A description that does not wait for a timer forgets its record at once.
LEMMA ModalFacts ==
  ASSUME NEW d \in Modals
  PROVE  /\ d.on \in {"shown", "id"} /\ d.forgets \in {"later", "now", "never"}
         /\ d.self \in BOOLEAN /\ d.blanks \in BOOLEAN /\ d.catches \in BOOLEAN /\ d.locks \in BOOLEAN
         /\ d.on = "id" => d.forgets \in {"later", "now"}
         /\ d.self => d.on = "id"
BY DEF Modals, EditModal, EditTokenModal, EditModelModal, EditVendorModal, EditRedemptionModal, EditUserModal, EditChannelModal

\* The numbers that stand for no record and for the own account are no records.
LEMMA Names == New = 0 /\ Blank = 0 /\ New \notin Records /\ Self \notin Records /\ Self # New
BY DialogAssumption DEF New, Blank, Self, Records

\* Closing a dialog.
LEMMA CloseFacts ==
  ASSUME DialogOK, CloseEdit
  PROVE  /\ ~shown' /\ shown' \in BOOLEAN /\ editing' \in Records \cup {New} /\ timers' \in Nat
         /\ loads' \subseteq Records \cup {Self}
         /\ UNCHANGED modal => Forgotten'
<1>1. modal \in Modals /\ timers \in Nat
  BY DEF DialogOK
<1>2. modal.on = "id" => modal.forgets \in {"later", "now"}
  BY <1>1, ModalFacts
<1>3. modal.forgets = "later" => timers' = timers + 1 /\ timers' # 0
  BY <1>1 DEF CloseEdit
<1>4. timers' \in Nat
  BY <1>1 DEF CloseEdit
<1> QED BY <1>2, <1>3, <1>4 DEF CloseEdit, DialogOK, Forgotten

\* What a save writes.
LEMMA StoresFacts ==
  ASSUME DialogOK, NEW p \in puts
  PROVE  /\ Stores(p) \in [Records -> Sources]
         /\ (p.to # New => p.from = p.to) /\ (\A r \in Records : kept[r] = r) => \A r \in Records : Stores(p)[r] = r
BY DEF DialogOK, Puts, Stores

\* Every step keeps the types.
LEMMA TypeStep ==
  ASSUME DialogOK, [DialogNext]_dialogVars
  PROVE  DialogOK'
<1>0. modal.self \in BOOLEAN /\ modal.blanks \in BOOLEAN /\ modal.catches \in BOOLEAN /\ modal.locks \in BOOLEAN
  BY ModalFacts DEF DialogOK
<1> USE Names DEF Sources
<1>1. ASSUME NEW r \in Records \cup {New}, Open(r) PROVE DialogOK'
  <2>1. waits' \in BOOLEAN /\ shown' \in BOOLEAN /\ touched' \in BOOLEAN
    BY <1>1 DEF Open, LoadsWhenOpened, DialogOK
  <2>2. loads' \subseteq Records \cup {Self}
    BY <1>1 DEF Open, LoadsWhenOpened, DialogOK
  <2> QED BY <1>1, <2>1, <2>2 DEF Open, DialogOK
<1>2. CASE HandleCancel
  BY <1>0, <1>2, CloseFacts DEF HandleCancel, DialogOK
<1>3. CASE TimerFires
  BY <1>3 DEF TimerFires, DialogOK
<1>4. ASSUME NEW r \in loads, LoadAnswered(r) PROVE DialogOK'
  <2>1. fields' \in Sources
    BY <1>4 DEF LoadAnswered, DialogOK
  <2> QED BY <1>4, <2>1 DEF LoadAnswered, DialogOK
<1>5. ASSUME NEW r \in loads, LoadRefused(r) \/ LoadFails(r) PROVE DialogOK'
  BY <1>0, <1>5 DEF LoadRefused, LoadFails, DialogOK
<1>6. CASE Touch
  BY <1>6 DEF Touch, DialogOK
<1>7. CASE Submit
  <2>1. puts' \subseteq Puts
    BY <1>7 DEF Submit, DialogOK, Puts
  <2> QED BY <1>0, <1>7, <2>1 DEF Submit, DialogOK
<1>8. ASSUME NEW p \in puts, SubmitDone(p) PROVE DialogOK'
  <2>1. waits' \in BOOLEAN
    BY <1>0, <1>8 DEF SubmitDone, DialogOK
  <2> QED BY <1>8, <2>1, CloseFacts, StoresFacts DEF SubmitDone, DialogOK
<1>9. ASSUME NEW p \in puts, SubmitRefused(p) \/ SubmitFails(p) PROVE DialogOK'
  <2>1. waits' \in BOOLEAN /\ touched' \in BOOLEAN /\ fields' \in Sources
    BY <1>0, <1>9 DEF SubmitRefused, SubmitFails, StaysOpen, DialogOK
  <2>2. kept' \in [Records -> Sources]
    BY <1>9, StoresFacts DEF SubmitRefused, SubmitFails, DialogOK
  <2> QED BY <1>9, <2>1, <2>2 DEF SubmitRefused, SubmitFails, DialogOK
<1>10. CASE UNCHANGED dialogVars
  BY <1>10 DEF dialogVars, DialogOK
<1> QED BY <1>1, <1>2, <1>3, <1>4, <1>5, <1>6, <1>7, <1>8, <1>9, <1>10 DEF DialogNext, DialogGoes

\* The timers that forget a record and the dialogs that are opened before they fire.
LEMMA TimersStep ==
  ASSUME DialogOK, Forgotten, Meant, IntentKept, [DialogNext]_dialogVars
  PROVE  Forgotten' /\ Meant' /\ IntentKept'
<1> USE Names
<1>1. ASSUME NEW r \in Records \cup {New}, Open(r) PROVE Forgotten' /\ Meant' /\ IntentKept'
  <2>1. "timer" \notin upsets' => timers = 0 /\ "timer" \notin upsets
    BY <1>1 DEF Open, DialogOK
  <2> QED BY <1>1, <2>1 DEF Open, Forgotten, Meant, IntentKept
<1>2. ASSUME CloseEdit, UNCHANGED <<modal, upsets>>, puts' \subseteq puts PROVE Forgotten' /\ Meant' /\ IntentKept'
  BY <1>2, CloseFacts DEF Meant, IntentKept
<1>3. CASE HandleCancel \/ \E p \in puts : SubmitDone(p)
  BY <1>2, <1>3 DEF HandleCancel, SubmitDone
<1>4. CASE TimerFires
  BY <1>4 DEF TimerFires, DialogOK, Forgotten, Meant, IntentKept
<1>5. CASE Submit
  BY <1>5 DEF Submit, Forgotten, Meant, IntentKept
<1>6. ASSUME UNCHANGED <<modal, shown, editing, timers, meant>>, upsets \subseteq upsets', puts' \subseteq puts PROVE Forgotten' /\ Meant' /\ IntentKept'
  BY <1>6 DEF Forgotten, Meant, IntentKept
<1>7. CASE \/ Touch \/ UNCHANGED dialogVars
           \/ \E r \in loads : LoadAnswered(r) \/ LoadRefused(r) \/ LoadFails(r)
           \/ \E p \in puts : SubmitRefused(p) \/ SubmitFails(p)
  BY <1>6, <1>7 DEF Touch, dialogVars, LoadAnswered, LoadRefused, LoadFails, SubmitRefused, SubmitFails
<1> QED BY <1>1, <1>3, <1>4, <1>5, <1>7 DEF DialogNext, DialogGoes

\* What the form, the saves and the records hold as long as nothing upsets the page.
LEMMA ContentsStep ==
  ASSUME DialogOK, Forgotten, ContentsInv, [DialogNext]_dialogVars
  PROVE  ContentsInv'
<1>0. modal \in Modals /\ modal.self \in BOOLEAN /\ modal.blanks \in BOOLEAN /\ modal.catches \in BOOLEAN /\ modal.locks \in BOOLEAN /\ waits \in BOOLEAN
  BY ModalFacts DEF DialogOK
<1>1. modal' = modal /\ upsets \subseteq upsets'
  BY DEF DialogNext, DialogGoes, dialogVars, Open, HandleCancel, TimerFires, LoadAnswered, LoadRefused, LoadFails, Touch, Submit, SubmitDone,
         SubmitRefused, SubmitFails
<1>2. Risks' = Risks
  BY <1>1 DEF Risks
<1> SUFFICES ASSUME Calm' PROVE FormInv' /\ PutsInv' /\ \A r \in Records : kept'[r] = r
  BY DEF ContentsInv
<1>3. Calm /\ upsets' \cap Risks = {}
  BY <1>1, <1>2 DEF Calm
<1>4. FormInv /\ PutsInv /\ \A r \in Records : kept[r] = r
  BY <1>3 DEF ContentsInv
<1>r. {"load", "save", "early", "fault"} \subseteq Risks /\ (modal.blanks => "refused" \in Risks) /\ (modal.on = "id" => "timer" \in Risks)
  BY DEF Risks
<1>c. ASSUME ~shown', puts' \subseteq puts, kept' = kept \/ \E p \in puts : kept' = Stores(p)
      PROVE  FormInv' /\ PutsInv' /\ \A r \in Records : kept'[r] = r
  <2>1. \A r \in Records : kept'[r] = r
    BY <1>4, <1>c, StoresFacts DEF PutsInv
  <2> QED BY <1>4, <1>c, <2>1 DEF FormInv, PutsInv
<1> USE Names
<1>5. ASSUME NEW r \in Records \cup {New}, Open(r) PROVE FormInv' /\ PutsInv' /\ \A q \in Records : kept'[q] = q
  <2>1. loads = {} /\ puts = {} /\ (modal.on = "id" => timers = 0)
    BY <1>3, <1>5, <1>r DEF Open, DialogOK
  <2>2. r # New => LoadsWhenOpened(r)
    BY <1>5, <2>1 DEF Open, LoadsWhenOpened, Forgotten
  <2>3. FormInv'
    BY <1>5, <2>1, <2>2 DEF Open, FormInv
  <2> QED BY <1>4, <1>5, <2>1, <2>3 DEF Open, PutsInv
<1>6. CASE HandleCancel
  BY <1>6, <1>c DEF HandleCancel, CloseEdit
<1>7. ASSUME NEW p \in puts, SubmitDone(p) PROVE FormInv' /\ PutsInv' /\ \A r \in Records : kept'[r] = r
  BY <1>7, <1>c DEF SubmitDone, CloseEdit
<1>8. CASE TimerFires
  BY <1>4, <1>8 DEF TimerFires, FormInv, PutsInv
<1>9. ASSUME NEW r \in loads, LoadAnswered(r) PROVE FormInv' /\ PutsInv' /\ \A q \in Records : kept'[q] = q
  <2>1. shown /\ editing # New => r = editing /\ r \in Records /\ kept[r] = r
    BY <1>4 DEF FormInv, DialogOK
  <2> QED BY <1>4, <1>9, <2>1 DEF LoadAnswered, FormInv, PutsInv
<1>10. ASSUME NEW r \in loads, LoadRefused(r) \/ LoadFails(r) PROVE FALSE
  BY <1>3, <1>10, <1>r DEF LoadRefused, LoadFails
<1>11. CASE Touch \/ UNCHANGED dialogVars
  BY <1>4, <1>11 DEF Touch, dialogVars, FormInv, PutsInv
<1>12. CASE Submit
  <2>1. ~waits
    BY <1>3, <1>12, <1>r DEF Submit
  <2>2. editing # New => editing \notin loads /\ fields = editing
    BY <1>4, <1>12, <2>1 DEF Submit, FormInv
  <2>3. PutsInv'
    BY <1>4, <1>12, <2>2 DEF Submit, PutsInv
  <2> QED BY <1>4, <1>12, <2>2, <2>3 DEF Submit, FormInv
<1>13. ASSUME NEW p \in puts, SubmitRefused(p) \/ SubmitFails(p) PROVE FormInv' /\ PutsInv' /\ \A r \in Records : kept'[r] = r
  <2>1. puts' \subseteq puts /\ (kept' = kept \/ kept' = Stores(p)) /\ UNCHANGED <<modal, shown, editing, loads>>
    BY <1>13 DEF SubmitRefused, SubmitFails
  <2>2. fields' = fields /\ (~modal.locks => waits' = waits)
    BY <1>0, <1>3, <1>13, <1>r DEF SubmitRefused, SubmitFails, StaysOpen
  <2>3. \A r \in Records : kept'[r] = r
    BY <1>4, <2>1, StoresFacts DEF PutsInv
  <2>4. FormInv'
    BY <1>0, <1>4, <2>1, <2>2 DEF FormInv
  <2> QED BY <1>4, <2>1, <2>3, <2>4 DEF PutsInv
<1> QED BY <1>5, <1>6, <1>7, <1>8, <1>9, <1>10, <1>11, <1>12, <1>13 DEF DialogNext, DialogGoes

\* The invariant that the theorems below read off.
LEMMA DialogInvariant == DialogSpec => []DialogInv
<1>1. DialogInit => DialogInv
  <2> SUFFICES ASSUME DialogInit PROVE DialogInv
    OBVIOUS
  <2>1. DialogOK
    BY Names, ModalFacts DEF DialogInit, DialogOK, Sources
  <2> QED BY <2>1, Names DEF DialogInit, DialogInv, Forgotten, Meant, IntentKept, ContentsInv, FormInv, PutsInv
<1>2. DialogInv /\ [DialogNext]_dialogVars => DialogInv'
  BY TypeStep, TimersStep, ContentsStep DEF DialogInv
<1> QED BY <1>1, <1>2, PTL DEF DialogSpec

\* All dialogs, any number of records, openings and failures: while nothing upsets the page, a
\* record is only overwritten with its own values, whatever loads, saves and timers are under way.
THEOREM RecordsKeepTheirContents == DialogSpec => []OwnContents
<1>1. DialogInv => OwnContents
  BY DEF DialogInv, ContentsInv, Calm, OwnContents
<1> QED BY <1>1, DialogInvariant, PTL

\* All dialogs: a save goes to the record the dialog was opened for, and creates one only if that
\* was asked for, unless a dialog was opened before the page had forgotten the last one.
THEOREM SavesGoWhereMeant == DialogSpec => []IntentKept
BY DialogInvariant, PTL DEF DialogInv

-----------------------------------------------------------------------------
(* ModelTest.                                                              *)

States == {"tests", "pause", "summing", "done"}
Batch == [ch : TestChannels, next : Nat, st : States]
Test == [by : Nat, ch : TestChannels, model : TestModels, seen : BOOLEAN]

TestOK ==
  /\ dialog \in TestChannels \cup {0} /\ batching \in BOOLEAN /\ stop \in BOOLEAN /\ singles \in Nat
  /\ tests \subseteq Test /\ batches \in Seq(Batch) /\ results \in [TestChannels -> SUBSET TestModels]

\* A test of a batch is of its channel, was started while no batch was seen, and the batch waits for it.
Owned ==
  \A t \in tests : t.by # 0 =>
    /\ t.by \in DOMAIN batches /\ ~t.seen
    /\ batches[t.by].ch = t.ch /\ batches[t.by].st = "tests"

Latest(b) == \A c \in DOMAIN batches : c > b => batches[c].ch # batches[b].ch

\* The models the chunks of a batch have reached have a result or are being tested for it.
Reached(b) ==
  /\ batches[b].st = "summing" => batches[b].next >= NModels
  /\ Latest(b) /\ batches[b].st # "done" =>
       \A m \in TestModels : m <= batches[b].next =>
         m \in results[batches[b].ch] \/ \E t \in tests : t.by = b /\ t.model = m

TestInv == TestOK /\ Owned /\ ShownIsTested /\ \A b \in DOMAIN batches : Reached(b)

\* The tests StartChunk adds.
ChunkTests(b, ch, i) == {[by |-> b, ch |-> ch, model |-> m, seen |-> FALSE] : m \in Chunk(i)}

\* There is one for each model of the chunk.
LEMMA ChunkFacts ==
  ASSUME NEW b \in Nat, NEW ch \in TestChannels, NEW i \in Nat
  PROVE  /\ ChunkTests(b, ch, i) \subseteq Test
         /\ \A t \in ChunkTests(b, ch, i) : t.by = b /\ t.ch = ch /\ ~t.seen
         /\ \A m \in Chunk(i) : \E t \in ChunkTests(b, ch, i) : t.by = b /\ t.model = m
         /\ \A m \in TestModels : i < m /\ m <= i + ConcurrencyLimit => m \in Chunk(i)
<1>1. ASSUME NEW m \in Chunk(i) PROVE [by |-> b, ch |-> ch, model |-> m, seen |-> FALSE] \in Test
  BY DEF Test, Chunk
<1>2. ChunkTests(b, ch, i) \subseteq Test
  BY <1>1 DEF ChunkTests
<1>3. \A t \in ChunkTests(b, ch, i) : t.by = b /\ t.ch = ch /\ ~t.seen
  BY DEF ChunkTests
<1>4. ASSUME NEW m \in Chunk(i) PROVE \E t \in ChunkTests(b, ch, i) : t.by = b /\ t.model = m
  <2>1. [by |-> b, ch |-> ch, model |-> m, seen |-> FALSE] \in ChunkTests(b, ch, i)
    BY DEF ChunkTests
  <2> QED BY <2>1
<1> QED BY <1>2, <1>3, <1>4 DEF Chunk

\* ShownIsTested, model by model.
LEMMA ShownFacts ==
  ASSUME NEW X, NEW T
  PROVE  X \subseteq {t.model : t \in T} <=> \A m \in X : \E t \in T : t.model = m
OBVIOUS

\* A batch that goes on keeps its place and its channel.
LEMMA BatchMoves ==
  ASSUME batches \in Seq(Batch), NEW b \in DOMAIN batches, NEW s \in States, NEW n \in Nat,
         \/ batches' = [batches EXCEPT ![b].st = s] /\ n = batches[b].next
         \/ batches' = [batches EXCEPT ![b].st = s, ![b].next = @ + ConcurrencyLimit] /\ n = batches[b].next + ConcurrencyLimit
  PROVE  /\ batches' \in Seq(Batch) /\ DOMAIN batches' = DOMAIN batches
         /\ batches'[b] = [ch |-> batches[b].ch, next |-> n, st |-> s]
         /\ \A c \in DOMAIN batches : c # b => batches'[c] = batches[c]
         /\ \A c \in DOMAIN batches : batches'[c].ch = batches[c].ch /\ (Latest(c)' <=> Latest(c))
<1>1. batches[b] \in Batch
  OBVIOUS
<1>2. DOMAIN batches' = DOMAIN batches /\ batches'[b] = [ch |-> batches[b].ch, next |-> n, st |-> s] /\ \A c \in DOMAIN batches : c # b => batches'[c] = batches[c]
  BY <1>1 DEF Batch
<1>3. batches'[b] \in Batch
  BY <1>1, <1>2 DEF Batch
<1>4. DOMAIN batches = 1 .. Len(batches) /\ Len(batches) \in Nat
  OBVIOUS
<1>5. batches' = [c \in 1 .. Len(batches) |-> batches'[c]]
  BY <1>2, <1>4
<1>6. \A c \in 1 .. Len(batches) : batches'[c] \in Batch
  BY <1>2, <1>3, <1>4
<1>7. batches' \in Seq(Batch)
  BY <1>4, <1>5, <1>6
<1>8. \A c \in DOMAIN batches : batches'[c].ch = batches[c].ch
  BY <1>2
<1>9. \A c \in DOMAIN batches : Latest(c)' <=> Latest(c)
  BY <1>2, <1>8 DEF Latest
<1> QED BY <1>2, <1>7, <1>8, <1>9

\* A step that leaves the batches alone and loses no result.
LEMMA TestEnds ==
  ASSUME TestInv, NEW t \in tests, TestAnswered(t) \/ TestFails(t)
  PROVE  TestInv'
<1>0. TestOK /\ Owned /\ t \in Test
  BY DEF TestInv, TestOK
<1>1. tests' = tests \ {t} /\ testing' = testing \ {t.model} /\ UNCHANGED <<dialog, batching, stop, batches, singles>>
  BY DEF TestAnswered, TestFails
<1>2. results' = results \/ results' = [results EXCEPT ![t.ch] = @ \cup {t.model}]
  BY DEF TestAnswered, TestFails
<1>3. /\ results' \in [TestChannels -> SUBSET TestModels]
      /\ \A ch \in TestChannels : results[ch] \subseteq results'[ch]
  BY <1>0, <1>2 DEF TestOK, Test
<1>4. t.by # 0 => t.model \in results'[t.ch]
  BY <1>0 DEF TestAnswered, TestFails, Owned, TestOK, Test
<1>5. TestOK' /\ Owned' /\ ShownIsTested'
  BY <1>0, <1>1, <1>3 DEF TestInv, TestOK, Owned, ShownIsTested
<1>6. ASSUME NEW b \in DOMAIN batches PROVE Reached(b)'
  <2>0. Reached(b) /\ (Latest(b)' <=> Latest(b))
    BY <1>1 DEF TestInv, Latest
  <2>a. batches \in Seq(Batch)
    BY <1>0 DEF TestOK
  <2>b. b # 0 /\ batches[b] \in Batch
    BY <2>a
  <2>1. Reached(b) /\ b # 0 /\ batches[b].ch \in TestChannels /\ (Latest(b)' <=> Latest(b))
    BY <2>0, <2>b DEF Batch
  <2>2. ASSUME NEW m \in TestModels, m \in results[batches[b].ch] \/ \E u \in tests : u.by = b /\ u.model = m
        PROVE  m \in results'[batches[b].ch] \/ \E u \in tests' : u.by = b /\ u.model = m
    BY <1>0, <1>1, <1>3, <1>4, <2>1, <2>2 DEF Owned
  <2> QED BY <1>1, <2>1, <2>2 DEF Reached
<1> QED BY <1>1, <1>5, <1>6 DEF TestInv

\* A batch that starts: the results it clears are those of batches before it.
LEMMA BatchStarts ==
  ASSUME TestInv, BatchTestModels
  PROVE  TestInv'
<1>p. PICK n \in Nat : n = Len(batches) + 1
  BY DEF TestInv, TestOK
<1> DEFINE new == [ch |-> dialog, next |-> ConcurrencyLimit, st |-> "tests"]
           started == ChunkTests(n, dialog, 0)
<1>0. TestOK /\ Owned /\ ShownIsTested /\ ConcurrencyLimit \in Nat /\ Len(batches) \in Nat /\ DOMAIN batches = 1 .. Len(batches) /\ dialog \in TestChannels
  BY TestAssumption DEF TestInv, TestOK, BatchTestModels
<1>1. /\ batching' = TRUE /\ stop' = FALSE /\ results' = [results EXCEPT ![dialog] = {}]
      /\ batches' = Append(batches, new) /\ tests' = tests \cup started /\ testing' = testing \cup Chunk(0) /\ UNCHANGED <<dialog, singles>>
  BY <1>p DEF BatchTestModels, StartChunk, ChunkTests
<1>2. new \in Batch /\ started \subseteq Test
  <2>1. new \in Batch
    BY <1>0 DEF Batch, States
  <2>2. n \in Nat /\ 0 \in Nat
    BY <1>0
  <2> QED BY <1>0, <2>1, <2>2, ChunkFacts
<1>s. /\ \A t \in started : t.by = n /\ t.ch = dialog /\ ~t.seen
      /\ \A m \in Chunk(0) : \E t \in started : t.by = n /\ t.model = m
      /\ \A m \in TestModels : 0 < m /\ m <= 0 + ConcurrencyLimit => m \in Chunk(0)
  <2>1. n \in Nat /\ 0 \in Nat
    BY <1>0
  <2> QED BY <1>0, <2>1, ChunkFacts
<1> HIDE DEF started
<1>3. /\ batches' \in Seq(Batch) /\ Len(batches') = n /\ DOMAIN batches' = 1 .. n
      /\ batches'[n] = new /\ \A c \in DOMAIN batches : batches'[c] = batches[c]
  <2>1. batches \in Seq(Batch) /\ batches' = Append(batches, new)
    BY <1>0, <1>1 DEF TestOK
  <2> HIDE DEF new
  <2> QED BY <1>0, <1>2, <1>p, <2>1
<1>4. TestOK'
  BY <1>0, <1>1, <1>2, <1>3 DEF TestOK
<1>5. Owned'
  <2>1. ASSUME NEW t \in tests, t.by # 0 PROVE t.by \in DOMAIN batches' /\ batches'[t.by] = batches[t.by]
    BY <1>0, <1>3, <1>p, <2>1 DEF Owned
  <2>2. ASSUME NEW t \in started PROVE t.by \in DOMAIN batches' /\ ~t.seen /\ batches'[t.by].ch = t.ch /\ batches'[t.by].st = "tests"
    BY <1>0, <1>3, <1>p, <1>s
  <2> QED BY <1>0, <1>1, <2>1, <2>2 DEF Owned
<1>6. ShownIsTested'
  BY <1>0, <1>1, <1>s, ShownFacts DEF ShownIsTested
<1>7. Reached(n)'
  <2>1. ASSUME NEW m \in TestModels, m <= ConcurrencyLimit PROVE \E t \in tests' : t.by = n /\ t.model = m
    <3>1. m \in Chunk(0)
      BY <1>0, <1>s, <2>1, TestAssumption DEF TestModels
    <3> QED BY <1>1, <1>s, <3>1
  <2>2. batches'[n].st = "tests" /\ batches'[n].next = ConcurrencyLimit
    BY <1>3
  <2> QED BY <2>1, <2>2 DEF Reached
<1>8. ASSUME NEW b \in DOMAIN batches PROVE Reached(b)'
  <2>1. Reached(b) /\ batches'[b] = batches[b] /\ batches[b].ch \in TestChannels /\ b < n /\ n \in DOMAIN batches'
    <3>1. Reached(b)
      BY DEF TestInv
    <3>2. batches[b] \in Batch
      BY <1>0 DEF TestOK
    <3>3. b < n /\ n \in DOMAIN batches'
      BY <1>0, <1>3, <1>p
    <3> QED BY <1>3, <3>1, <3>2, <3>3 DEF Batch
  <2>2. Latest(b)' => batches[b].ch # dialog /\ Latest(b)
    BY <1>0, <1>3, <1>p, <2>1 DEF Latest
  <2>3. batches[b].ch # dialog => results'[batches[b].ch] = results[batches[b].ch]
    BY <1>0, <1>1, <2>1 DEF TestOK
  <2> QED BY <1>1, <2>1, <2>2, <2>3 DEF Reached
<1>9. \A b \in DOMAIN batches' : b = n \/ b \in DOMAIN batches
  BY <1>0, <1>3, <1>p
<1> QED BY <1>4, <1>5, <1>6, <1>7, <1>8, <1>9 DEF TestInv

\* A chunk that is settled, the end of a batch.
LEMMA BatchPauses ==
  ASSUME TestInv, NEW b \in DOMAIN batches, ChunkSettled(b) \/ Summarise(b) \/ (NextChunk(b) /\ stop)
  PROVE  TestInv'
<1>0. TestOK /\ Owned /\ ShownIsTested /\ batches \in Seq(Batch) /\ batches[b] \in Batch /\ NModels \in Nat
  BY TestAssumption DEF TestInv, TestOK
<1>1. PICK s \in {"pause", "summing", "done"} : batches' = [batches EXCEPT ![b].st = s] /\ (s = "summing" => batches[b].next >= NModels)
  BY <1>0 DEF ChunkSettled, Summarise, NextChunk, BatchOver, Batch
<1>2. UNCHANGED <<dialog, stop, testing, results, tests, singles>> /\ batching' \in BOOLEAN
  BY <1>0 DEF ChunkSettled, Summarise, NextChunk, BatchOver, TestOK
<1>3. \A t \in tests : t.by # b
  BY <1>0 DEF ChunkSettled, Summarise, NextChunk, Owned, TestOK
<1>4. batches[b].st # "done"
  BY DEF ChunkSettled, Summarise, NextChunk
<1>5. /\ batches' \in Seq(Batch) /\ DOMAIN batches' = DOMAIN batches
      /\ batches'[b] = [ch |-> batches[b].ch, next |-> batches[b].next, st |-> s]
      /\ \A c \in DOMAIN batches : c # b => batches'[c] = batches[c]
      /\ \A c \in DOMAIN batches : batches'[c].ch = batches[c].ch /\ (Latest(c)' <=> Latest(c))
  <2>1. batches[b].next \in Nat /\ s \in States
    BY <1>0 DEF Batch, States
  <2> QED BY <1>0, <1>1, <2>1, BatchMoves
<1>6. TestOK' /\ ShownIsTested'
  BY <1>0, <1>2, <1>5 DEF TestOK, ShownIsTested
<1>7. Owned'
  BY <1>0, <1>2, <1>3, <1>5 DEF Owned
<1>8. ASSUME NEW c \in DOMAIN batches PROVE Reached(c)'
  <2>1. Reached(c)
    BY DEF TestInv
  <2>2. CASE c = b
    BY <1>1, <1>2, <1>4, <1>5, <2>1, <2>2 DEF Reached
  <2>3. CASE c # b
    BY <1>2, <1>5, <2>1, <2>3 DEF Reached
  <2> QED BY <2>2, <2>3
<1> QED BY <1>5, <1>6, <1>7, <1>8 DEF TestInv

\* The next chunk begins where the last one ended.
LEMMA BatchGoesOn ==
  ASSUME TestInv, NEW b \in DOMAIN batches, NextChunk(b), ~stop
  PROVE  TestInv'
<1> DEFINE n == batches[b].next
           started == ChunkTests(b, batches[b].ch, n)
<1>0. /\ TestOK /\ Owned /\ ShownIsTested /\ batches \in Seq(Batch) /\ batches[b] \in Batch /\ NModels \in Nat /\ ConcurrencyLimit \in Nat
      /\ b \in Nat \ {0}
  BY TestAssumption DEF TestInv, TestOK
<1>1. /\ batches[b].st = "pause" /\ tests' = tests \cup started /\ testing' = testing \cup Chunk(n)
      /\ batches' = [batches EXCEPT ![b].st = "tests", ![b].next = @ + ConcurrencyLimit]
      /\ UNCHANGED <<dialog, batching, stop, results, singles>>
  BY DEF NextChunk, StartChunk, ChunkTests
<1>a. n \in Nat /\ batches[b].ch \in TestChannels
  BY <1>0 DEF Batch
<1>2. /\ n \in Nat /\ started \subseteq Test
      /\ \A t \in started : t.by = b /\ t.ch = batches[b].ch /\ ~t.seen
      /\ \A m \in Chunk(n) : \E t \in started : t.by = b /\ t.model = m
      /\ \A m \in TestModels : n < m /\ m <= n + ConcurrencyLimit => m \in Chunk(n)
  BY <1>0, <1>a, ChunkFacts
<1> HIDE DEF n, started
<1>3. /\ batches' \in Seq(Batch) /\ DOMAIN batches' = DOMAIN batches
      /\ batches'[b] = [ch |-> batches[b].ch, next |-> n + ConcurrencyLimit, st |-> "tests"]
      /\ \A c \in DOMAIN batches : c # b => batches'[c] = batches[c]
      /\ \A c \in DOMAIN batches : batches'[c].ch = batches[c].ch /\ (Latest(c)' <=> Latest(c))
  <2>1. n + ConcurrencyLimit \in Nat /\ n + ConcurrencyLimit = batches[b].next + ConcurrencyLimit /\ "tests" \in States
    BY <1>0, <1>2 DEF n, States
  <2> HIDE DEF States
  <2> QED BY <1>0, <1>1, <2>1, BatchMoves
<1>4. TestOK' /\ ShownIsTested'
  <2>1. ShownIsTested'
    <3>1. \A m \in testing : \E t \in tests : t.model = m
      BY <1>0, ShownFacts DEF ShownIsTested
    <3>2. \A m \in testing' : \E t \in tests' : t.model = m
      BY <1>1, <1>2, <3>1
    <3> QED BY <3>2, ShownFacts DEF ShownIsTested
  <2> QED BY <1>0, <1>1, <1>2, <1>3, <2>1 DEF TestOK
<1>5. Owned'
  <2>1. batches'[b].ch = batches[b].ch /\ batches'[b].st = "tests" /\ b # 0
    BY <1>0, <1>3
  <2>2. \A t \in tests : t.by # b
    BY <1>0, <1>1, <2>1 DEF Owned
  <2> QED BY <1>0, <1>1, <1>2, <1>3, <2>1, <2>2 DEF Owned
<1>6. ASSUME NEW c \in DOMAIN batches PROVE Reached(c)'
  <2>1. Reached(c)
    BY DEF TestInv
  <2>2. CASE c = b
    <3>1. ASSUME NEW m \in TestModels, m <= n + ConcurrencyLimit, Latest(b)
          PROVE  m \in results[batches[b].ch] \/ \E t \in tests' : t.by = b /\ t.model = m
      <4>1. CASE m <= n
        BY <1>1, <2>1, <2>2, <3>1, <4>1 DEF Reached, n
      <4>2. CASE ~(m <= n)
        <5>1. m \in Chunk(n)
          BY <1>0, <1>2, <3>1, <4>2 DEF TestModels
        <5> QED BY <1>1, <1>2, <5>1
      <4> QED BY <4>1, <4>2
    <3>2. batches'[b].ch = batches[b].ch /\ batches'[b].next = n + ConcurrencyLimit /\ batches'[b].st = "tests" /\ (Latest(b)' <=> Latest(b))
      BY <1>3
    <3> QED BY <1>1, <2>2, <3>1, <3>2 DEF Reached
  <2>3. CASE c # b
    BY <1>1, <1>3, <2>1, <2>3 DEF Reached
  <2> QED BY <2>2, <2>3
<1> QED BY <1>3, <1>4, <1>5, <1>6 DEF TestInv

\* Single tests and the dialog leave the batches' results and tests alone.
LEMMA DialogMoves ==
  ASSUME TestInv, HandleCloseModal \/ UNCHANGED testVars \/ (\E ch \in TestChannels : OpenDialog(ch)) \/ \E m \in TestModels : TestOne(m)
  PROVE  TestInv'
<1>0. TestOK /\ Owned /\ ShownIsTested
  BY DEF TestInv
<1>1. UNCHANGED <<results, batches>>
  BY DEF HandleCloseModal, testVars, OpenDialog, TestOne
<1>2. tests \subseteq tests' /\ \A t \in tests' : t \in tests \/ (t \in Test /\ t.by = 0)
  BY <1>0 DEF HandleCloseModal, testVars, OpenDialog, TestOne, TestOK, Test
<1>3. TestOK'
  <2>1. dialog' \in TestChannels \cup {0} /\ batching' \in BOOLEAN /\ stop' \in BOOLEAN /\ singles' \in Nat
    <3>1. CASE HandleCloseModal
      BY <1>0, <3>1 DEF HandleCloseModal, TestOK
    <3>2. CASE UNCHANGED testVars
      BY <1>0, <3>2 DEF testVars, TestOK
    <3>3. CASE \E ch \in TestChannels : OpenDialog(ch)
      BY <1>0, <3>3 DEF OpenDialog, TestOK
    <3>4. CASE \E m \in TestModels : TestOne(m)
      BY <1>0, <3>4 DEF TestOne, TestOK
    <3> QED BY <3>1, <3>2, <3>3, <3>4
  <2> QED BY <1>0, <1>1, <1>2, <2>1 DEF TestOK
<1>4. ShownIsTested'
  <2>1. ASSUME NEW m \in TestModels, TestOne(m) PROVE ShownIsTested'
    <3>1. testing' = testing \cup {m} /\ \E t \in tests' : t.model = m
      <4>1. [by |-> 0, ch |-> dialog, model |-> m, seen |-> batching] \in tests' /\ testing' = testing \cup {m}
        BY <2>1 DEF TestOne
      <4> QED BY <4>1
    <3> QED BY <1>0, <1>2, <3>1, ShownFacts DEF ShownIsTested
  <2> QED BY <1>0, <2>1 DEF HandleCloseModal, testVars, OpenDialog, ShownIsTested
<1>5. Owned'
  BY <1>0, <1>1, <1>2 DEF Owned
<1>6. \A b \in DOMAIN batches : Reached(b)'
  BY <1>1, <1>2 DEF TestInv, Reached, Latest
<1> QED BY <1>1, <1>3, <1>4, <1>5, <1>6 DEF TestInv

\* The invariant that the theorems below read off.
LEMMA TestInvariant == TestSpec => []TestInv
<1>1. TestInit => TestInv
  <2> SUFFICES ASSUME TestInit PROVE TestInv
    OBVIOUS
  <2>1. batches = <<>> /\ batches \in Seq(Batch) /\ DOMAIN batches = {}
    BY DEF TestInit
  <2>2. TestOK
    BY <2>1 DEF TestInit, TestOK
  <2> QED BY <2>1, <2>2 DEF TestInit, TestInv, Owned, ShownIsTested
<1>2. TestInv /\ [TestNext]_testVars => TestInv'
  BY TestEnds, BatchStarts, BatchPauses, BatchGoesOn, DialogMoves DEF TestNext, TestsGo
<1> QED BY <1>1, <1>2, PTL DEF TestSpec

\* Whatever tests fail, are stopped or belong to another channel: a model is shown as being tested
\* only while a test of a model of that name is in flight.
THEOREM SpinnersAreTests == TestSpec => []ShownIsTested
BY TestInvariant, PTL DEF TestInv

\* Any number of models and of tests at a time, batches that overlap in other dialogs, closings
\* and single tests: a batch that comes to its summary has a result for every model, unless a
\* later batch of its channel has cleared them.
THEOREM SummariesAreComplete == TestSpec => []SummaryComplete
<1>1. TestInv => SummaryComplete
  <2> SUFFICES ASSUME TestInv, NEW b \in DOMAIN batches, batches[b].st = "summing", Latest(b)
               PROVE  results[batches[b].ch] = TestModels
    BY DEF SummaryComplete, Latest
  <2>0. Reached(b) /\ Owned /\ batches[b] \in Batch /\ results \in [TestChannels -> SUBSET TestModels] /\ b # 0
    BY DEF TestInv, TestOK
  <2>1. \A t \in tests : t.by # b
    BY <2>0 DEF Owned
  <2>2. \A m \in TestModels : m <= batches[b].next
    BY <2>0, TestAssumption DEF Reached, Batch, TestModels
  <2> QED BY <2>0, <2>1, <2>2 DEF Reached, Batch
<1> QED BY <1>1, TestInvariant, PTL
=============================================================================
