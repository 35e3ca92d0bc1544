----------------------------- MODULE EditDialog -----------------------------
(***************************************************************************)
(* The dialogs of the web console that edit one record of a table: a side  *)
(* sheet that loads the record when it is opened, lets the user change its *)
(* fields and puts the whole form back under the id of the record that is  *)
(* being edited (web/src/components/table/*/modals).                       *)
(*                                                                         *)
(* The page keeps which record is edited and whether the dialog is shown;  *)
(* most pages forget the record only 500 ms after the dialog was closed.   *)
(* Loads and saves that are in flight go on when the dialog is closed and  *)
(* finish in whatever dialog is open then.                                 *)
(*                                                                         *)
(* The fields of a form are reduced to the record they came from.  The     *)
(* spinner covers the form, so nothing is typed while it turns, and where  *)
(* the submit button shows it too the button cannot be pressed.  A form    *)
(* that is empty and untouched fails its own checks.  Lists of choices,    *)
(* the formats of fields and the messages are left out.                    *)
(***************************************************************************)
EXTENDS Naturals

CONSTANTS
  NRecords,   \* records of the table
  MaxOpens,   \* bound: how often the dialog is opened
  MaxErrs     \* bound: calls that fail or that the server refuses

ASSUME DialogAssumption == NRecords \in Nat /\ MaxOpens \in Nat /\ MaxErrs \in Nat

VARIABLES
  modal,    \* the description of the dialog, fixed
  shown,    \* props.visiable
  editing,  \* the id of the record the page says is edited, New for undefined
  fields,   \* where the form's values came from
  touched,  \* the user changed the form
  waits,    \* the dialog shows its spinner
  loads,    \* the GETs in flight
  puts,     \* the PUTs and POSTs in flight
  timers,   \* closing timers that have not fired
  kept,     \* what each record holds on the server, by where it came from
  meant,    \* ghost: the record the user opened the dialog for
  upsets,   \* ghost: what disturbed the dialog so far
  opens, errs  \* counters of the bounds

dialogVars == <<modal, shown, editing, fields, touched, waits, loads, puts, timers,
                kept, meant, upsets, opens, errs>>

Records == 1..NRecords
New   == 0              \* no record: the dialog creates one
Blank == 0              \* the initial values of a form
Self  == NRecords + 1   \* the administrator's own account

-----------------------------------------------------------------------------
(* The dialogs.  on: what the loading effect depends on besides the id.    *)
(* forgets: when the page forgets the record after closing.  self: without *)
(* a record the own account is loaded.  blanks: the form is emptied after  *)
(* every save, refused ones too.  catches: failed loads, failed saves stop *)
(* the spinner.  locks: the submit button shows the spinner.               *)

EditModal == [on |-> "shown", forgets |-> "later", self |-> FALSE, blanks |-> FALSE,
              catches |-> FALSE, locks |-> TRUE]

EditTokenModal == [EditModal EXCEPT !.blanks = TRUE]
EditModelModal == [EditModal EXCEPT !.blanks = TRUE, !.catches = TRUE]
EditVendorModal == [EditModal EXCEPT !.forgets = "now", !.catches = TRUE]
EditRedemptionModal == [EditModal EXCEPT !.on = "id"]
EditUserModal == [EditModal EXCEPT !.on = "id", !.forgets = "now", !.self = TRUE]
EditChannelModal == [EditModal EXCEPT !.forgets = "never", !.locks = FALSE]

Modals == {EditTokenModal, EditModelModal, EditVendorModal, EditRedemptionModal,
           EditUserModal, EditChannelModal}

-----------------------------------------------------------------------------
(* Opening, closing and loading.                                           *)

\* Mutant: the page shows the dialog and keeps the record it had.
OpenKept(r) ==
  /\ ~shown /\ opens < MaxOpens
  /\ modal.self => r # New
  /\ opens' = opens + 1
  /\ shown' = TRUE /\ meant' = r /\ touched' = FALSE
  /\ editing' = editing
  /\ upsets' = upsets
  /\ fields' = Blank
  /\ loads' = IF editing # New THEN loads \cup {editing} ELSE loads
  /\ waits' = (waits \/ editing # New)
  /\ UNCHANGED <<modal, puts, timers, kept, errs>>

\* Mutant: the loading effect depends on the id alone, as in redemptions.
LoadsWhenOpenedById(r) == r # New /\ editing # r

\* The effect on [visiable, id], or on [id] alone.
LoadsWhenOpened(r) == r # New /\ (modal.on = "id" => editing # r)

\* setEditingX(record); setShowEdit(true).  The sheet drops its form when its
\* closing animation has ended: until then a form that is not set anew stays.
Open(r) ==
  /\ ~shown /\ opens < MaxOpens
  /\ modal.self => r # New
  /\ opens' = opens + 1
  /\ shown' = TRUE /\ editing' = r /\ meant' = r /\ touched' = FALSE
  /\ upsets' = upsets \cup (IF loads # {} THEN {"load"} ELSE {})
                      \cup (IF puts # {} THEN {"save"} ELSE {})
                      \cup (IF timers > 0 THEN {"timer"} ELSE {})
  /\ fields' \in {fields, Blank}
  /\ (r = New /\ modal.on = "shown") => fields' = Blank
  /\ loads' = IF LoadsWhenOpened(r) THEN loads \cup {r} ELSE loads
  /\ waits' = (waits \/ LoadsWhenOpened(r))
  /\ UNCHANGED <<modal, puts, timers, kept, errs>>

\* closeEdit of the page and the effects of the dialog it causes.
CloseEdit ==
  /\ shown' = FALSE
  /\ editing' = IF modal.forgets = "now" THEN New ELSE editing
  /\ timers' = IF modal.forgets = "later" THEN timers + 1 ELSE timers
  /\ loads' = IF modal.self /\ editing # New THEN loads \cup {Self} ELSE loads

HandleCancel ==
  /\ shown
  /\ CloseEdit
  /\ fields' = IF modal.on = "shown" THEN Blank ELSE fields
  /\ waits' = (waits \/ (modal.self /\ editing # New))
  /\ touched' = FALSE
  /\ UNCHANGED <<modal, puts, kept, meant, upsets, opens, errs>>

\* The timer of closeEdit: whatever is edited is forgotten.
TimerFires ==
  /\ timers > 0
  /\ timers' = timers - 1
  /\ editing' = New
  /\ fields' = IF editing # New THEN Blank ELSE fields
  /\ touched' = (touched /\ editing = New)
  /\ UNCHANGED <<modal, shown, waits, loads, puts, kept, meant, upsets, opens, errs>>

\* loadX: the answer fills the form.
LoadAnswered(r) ==
  /\ loads' = loads \ {r}
  /\ fields' = IF r = Self THEN Self ELSE kept[r]
  /\ touched' = FALSE
  /\ waits' = FALSE
  /\ UNCHANGED <<modal, shown, editing, puts, timers, kept, meant, upsets, opens, errs>>

\* The server answers success: false.
LoadRefused(r) ==
  /\ errs < MaxErrs
  /\ errs' = errs + 1
  /\ loads' = loads \ {r}
  /\ waits' = FALSE
  /\ upsets' = upsets \cup {"fault"}
  /\ UNCHANGED <<modal, shown, editing, fields, touched, puts, timers, kept, meant, opens>>

\* The call fails; where nobody catches the error the spinner keeps turning.
LoadFails(r) ==
  /\ errs < MaxErrs
  /\ errs' = errs + 1
  /\ loads' = loads \ {r}
  /\ waits' = (waits /\ ~modal.catches)
  /\ upsets' = upsets \cup {"fault"} \cup (IF modal.catches THEN {} ELSE {"uncaught"})
  /\ UNCHANGED <<modal, shown, editing, fields, touched, puts, timers, kept, meant, opens>>

-----------------------------------------------------------------------------
(* Editing and saving.                                                     *)

Touch ==
  /\ shown /\ ~waits /\ ~touched
  /\ touched' = TRUE
  /\ UNCHANGED <<modal, shown, editing, fields, waits, loads, puts, timers, kept,
                 meant, upsets, opens, errs>>

\* submit up to its call: an update of the edited record, or a new one.
Submit ==
  /\ shown
  /\ modal.locks => ~waits
  /\ fields # Blank \/ touched
  /\ puts' = puts \cup {[to |-> editing, from |-> fields, for |-> meant]}
  /\ waits' = (waits \/ modal.locks)
  /\ upsets' = upsets \cup (IF waits THEN {"early"} ELSE {})
  /\ UNCHANGED <<modal, shown, editing, fields, touched, loads, timers, kept, meant,
                 opens, errs>>

Stores(p) == IF p.to = New THEN kept ELSE [kept EXCEPT ![p.to] = p.from]

\* The rest of submit: refresh and close the dialog, whichever is open now.
SubmitDone(p) ==
  /\ puts' = puts \ {p}
  /\ kept' = Stores(p)
  /\ CloseEdit
  /\ fields' = IF modal.blanks \/ (shown /\ modal.on = "shown") THEN Blank ELSE fields
  /\ waits' = ((waits /\ ~modal.locks) \/ (modal.self /\ editing # New))
  /\ touched' = FALSE
  /\ UNCHANGED <<modal, meant, upsets, opens, errs>>

\* After a save that was refused, or failed and was caught.
StaysOpen ==
  /\ fields' = IF modal.blanks THEN Blank ELSE fields
  /\ touched' = (touched /\ ~modal.blanks)
  /\ waits' = (waits /\ ~modal.locks)

SubmitRefused(p) ==
  /\ errs < MaxErrs
  /\ errs' = errs + 1
  /\ puts' = puts \ {p}
  /\ StaysOpen
  /\ upsets' = upsets \cup {"refused"}
  /\ UNCHANGED <<modal, shown, editing, loads, timers, kept, meant, opens>>

\* The call fails, before or after the server has taken the record.
SubmitFails(p) ==
  /\ errs < MaxErrs
  /\ errs' = errs + 1
  /\ puts' = puts \ {p}
  /\ kept' \in {kept, Stores(p)}
  /\ IF modal.catches THEN StaysOpen ELSE UNCHANGED <<fields, touched, waits>>
  /\ upsets' = upsets \cup {IF modal.catches THEN "refused" ELSE "uncaught"}
  /\ UNCHANGED <<modal, shown, editing, loads, timers, meant, opens>>

-----------------------------------------------------------------------------
\* The page is mounted: the dialog of users loads the own account.
DialogInit ==
  /\ modal \in Modals
  /\ shown = FALSE /\ editing = New /\ fields = Blank /\ touched = FALSE
  /\ loads = IF modal.self THEN {Self} ELSE {}
  /\ waits = modal.self
  /\ puts = {} /\ timers = 0
  /\ kept = [r \in Records |-> r]
  /\ meant = New /\ upsets = {} /\ opens = 0 /\ errs = 0

\* Calls are answered, timers fire.
DialogGoes ==
  \/ \E r \in loads : LoadAnswered(r)
  \/ \E p \in puts : SubmitDone(p)
  \/ TimerFires

DialogNext ==
  \/ \E r \in Records \cup {New} : Open(r)
  \/ HandleCancel
  \/ Touch
  \/ Submit
  \/ \E r \in loads : LoadRefused(r) \/ LoadFails(r)
  \/ \E p \in puts : SubmitRefused(p) \/ SubmitFails(p)
  \/ DialogGoes

DialogSpec == DialogInit /\ [][DialogNext]_dialogVars /\ WF_dialogVars(DialogGoes)

-----------------------------------------------------------------------------
(* Properties.                                                             *)

\* A record is only ever overwritten with its own values as the user changed
\* them, never with those of another record, of the own account or of an empty
\* form: as long as no dialog is opened while a load or a save is under way, no
\* form is sent that is still being loaded and no load fails; where the form is
\* emptied after every save, while none is refused; and where only the id makes
\* the dialog load, while none is opened before the last one was forgotten.
Risks == {"load", "save", "early", "fault"}
           \cup (IF modal.blanks THEN {"refused"} ELSE {})
           \cup (IF modal.on = "id" THEN {"timer"} ELSE {})
OwnContents == upsets \cap Risks = {} => \A r \in Records : kept[r] = r

\* A save goes to the record the user opened the dialog for, and creates one
\* only if that was asked for, unless a dialog was opened within the half
\* second in which the page still forgets the last one.
IntentKept == "timer" \notin upsets => \A p \in puts : p.to = p.for

\* The spinner stops, unless an error was not caught.
DialogSettled == ~waits \/ "uncaught" \in upsets
=============================================================================
