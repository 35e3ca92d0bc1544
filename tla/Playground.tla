----------------------------- MODULE Playground -----------------------------
(***************************************************************************)
(* The playground of the web console (web/src/pages/Playground and its     *)
(* hooks): a conversation whose answers come from requests, streamed over  *)
(* SSE or fetched whole, that change the last message when they report,    *)
(* and its copy in localStorage.  A handler runs to its end and is one     *)
(* action; requests, timers, dialogs and the user interleave between the   *)
(* handlers.  The text of a message is the set of requests it came from, 0 *)
(* standing for the user.                                                  *)
(***************************************************************************)
EXTENDS Integers, Sequences, FiniteSets, SequencesExt

CONSTANTS
  MaxRequests,   \* bound: requests made
  MaxLength,     \* bound: messages shown
  MaxActs,       \* bound: what the user does, a reload included, and saves that fail
  QuickUser      \* the user may act within the 100 ms before a regeneration is sent

ASSUME PlaygroundAssumption ==
  MaxRequests \in Nat /\ MaxLength \in Nat /\ MaxActs \in Nat /\ QuickUser \in BOOLEAN

VARIABLES
  page,          \* "shown", or "crashed" when an updater threw
  message,       \* what is shown
  initialMessages,   \* messages were found in localStorage when the page was mounted
  messageId,     \* the next id; the counter starts again when the page is loaded
  request,       \* the state of each request
  streamed,      \* the requests that were streams
  sseSource,     \* sseSourceRef.current, 0 for null
  soon,          \* timers of 0 ms, in order
  later,         \* timers of 100 ms, in order
  modal,         \* the open dialog and what its closure captured
  editing,       \* the message that is edited, NoEdit for null
  stored,        \* the conversation in localStorage: a set of at most one
  wiped,         \* history: localStorage lost or refused the conversation that is shown
  acts           \* what the user has done so far, for the bound

net == <<request, streamed, sseSource>>
chatVars == <<page, message, initialMessages, messageId, net, soon, later, modal, editing, stored, wiped, acts>>

Requests == 1 .. MaxRequests

\* of: the request a message asks or answers, 0 for none; it is a history field.
Message(i, r, s, k, t) == [id |-> i, role |-> r, status |-> s, of |-> k, text |-> t]

Default == <<Message(2, "user", "none", 0, {0}), Message(3, "assistant", "none", 0, {0})>>

\* An imported file: a conversation that was exported while it was being answered.
Imported == <<Message(2, "user", "none", 0, {0}), Message(3, "assistant", "incomplete", 0, {0})>>

FirstId == 4

Generating(m) == m.status \in {"loading", "incomplete"}
AnyGenerating == \E i \in DOMAIN message : Generating(message[i])
LastGenerating(ms) == ms # <<>> /\ Generating(Last(ms))
SetLast(ms, m) == [ms EXCEPT ![Len(ms)] = m]

\* The conversation without the messages at some places.
Without(ms, gone) ==
  LET kept == DOMAIN ms \ gone
  IN [n \in 1 .. Cardinality(kept) |-> ms[CHOOSE j \in kept : Cardinality({i \in kept : i <= j}) = n]]

\* Where a handler finds its message: by reference, else the first with its id, 0 if there is none.
IndexOf(ms, m) ==
  LET same == {j \in DOMAIN ms : ms[j] = m}
      found == IF same # {} THEN same ELSE {j \in DOMAIN ms : ms[j].id = m.id}
  IN IF found = {} THEN 0 ELSE CHOOSE j \in found : \A j2 \in found : j <= j2

NoEdit == Message(0, "user", "none", 0, {})
NoModal == [kind |-> "none", index |-> 0, captured |-> <<>>]
Save(ms) == [kind |-> "save", messages |-> ms]
Defaults == [kind |-> "defaults", messages |-> <<>>]

ChatInit ==
  /\ page = "shown" /\ message = Default /\ initialMessages = FALSE /\ messageId = FirstId
  /\ request = [k \in Requests |-> "unused"] /\ streamed = {} /\ sseSource = 0
  /\ soon = <<>> /\ later = <<>> /\ modal = NoModal /\ editing = NoEdit
  /\ stored = {} /\ wiped = FALSE /\ acts = 0

-----------------------------------------------------------------------------
(* What the reports of a request do to the messages (useApiRequest). *)

\* Mutant: the text goes to the first message of the assistant.
StreamMessageUpdateFirst(ms, k) ==
  LET own == {j \in DOMAIN ms : ms[j].role = "assistant"}
      first == CHOOSE j \in own : \A j2 \in own : j <= j2
  IN IF own = {} THEN ms ELSE [ms EXCEPT ![first].text = @ \cup {k}]

\* streamMessageUpdate: only a last message of the assistant that is being generated takes text.
StreamMessageUpdate(ms, k) ==
  IF LastGenerating(ms) /\ Last(ms).role = "assistant"
    THEN SetLast(ms, [Last(ms) EXCEPT !.text = @ \cup {k}, !.status = "incomplete"])
    ELSE ms

\* Mutant: the completed conversation is not saved.
CompleteMessageUnsaved(ms, status) ==
  IF ms = <<>> THEN page' = "crashed" /\ message' = ms /\ UNCHANGED soon
  ELSE IF Last(ms).status \in {"complete", "error"} THEN message' = ms /\ UNCHANGED <<page, soon>>
  ELSE /\ message' = SetLast(ms, [Last(ms) EXCEPT !.status = status])
       /\ UNCHANGED <<page, soon>>

\* completeMessage, applied to ms: it does not expect an empty conversation, and saves what it completes.
CompleteMessage(ms, status) ==
  IF ms = <<>> THEN page' = "crashed" /\ message' = ms /\ UNCHANGED soon
  ELSE IF Last(ms).status \in {"complete", "error"} THEN message' = ms /\ UNCHANGED <<page, soon>>
  ELSE /\ message' = SetLast(ms, [Last(ms) EXCEPT !.status = status])
       /\ soon' = Append(soon, Save(message'))
       /\ UNCHANGED page

Ends(k) == request' = [request EXCEPT ![k] = "ended"]

\* A chunk of stream k.
Chunk(k) ==
  /\ request[k] = "stream"
  /\ message' = StreamMessageUpdate(message, k)
  /\ UNCHANGED <<page, initialMessages, messageId, net, soon, later, modal, editing, stored, wiped>>

\* "[DONE]": the source is closed and the reference dropped, whichever source it holds.
Done(k) ==
  /\ request[k] = "stream" /\ Ends(k) /\ sseSource' = 0
  /\ CompleteMessage(message, "complete")
  /\ UNCHANGED <<initialMessages, messageId, streamed, later, modal, editing, stored, wiped>>

\* A chunk that is not JSON: the answer ends in an error, the source stays open.
BadChunk(k) ==
  /\ request[k] = "stream"
  /\ CompleteMessage(StreamMessageUpdate(message, k), "error")
  /\ UNCHANGED <<initialMessages, messageId, net, later, modal, editing, stored, wiped>>

\* The event error: the last message fails, and this is not saved.
StreamError(k) ==
  /\ request[k] = "stream" /\ Ends(k) /\ sseSource' = 0
  /\ message' = IF message # <<>> /\ Last(message).status \notin {"complete", "error"}
                  THEN SetLast(message, [Last(message) EXCEPT !.text = @ \cup {k}, !.status = "error"])
                  ELSE message
  /\ UNCHANGED <<page, initialMessages, messageId, streamed, soon, later, modal, editing, stored, wiped>>

\* A status other than 200, or stream() throws: the reference keeps the dead source.
StreamBreaks(k) ==
  /\ request[k] = "stream" /\ Ends(k)
  /\ CompleteMessage(StreamMessageUpdate(message, k), "error")
  /\ UNCHANGED <<initialMessages, messageId, streamed, sseSource, later, modal, editing, stored, wiped>>

\* The connection ends without "[DONE]", or a fetched answer has no choices: nobody notices.
EndsUnnoticed(k) ==
  /\ request[k] \in {"stream", "fetch"} /\ Ends(k)
  /\ UNCHANGED <<page, message, initialMessages, messageId, streamed, sseSource, soon, later, modal, editing,
                 stored, wiped>>

\* A fetch ends, well or not: a last message that is still loading takes the result, which is not saved.
FetchEnds(k, status) ==
  /\ request[k] = "fetch" /\ Ends(k)
  /\ message' = IF message # <<>> /\ Last(message).status = "loading"
                  THEN SetLast(message, [Last(message) EXCEPT !.text = {k}, !.status = status])
                  ELSE message
  /\ UNCHANGED <<page, initialMessages, messageId, streamed, sseSource, soon, later, modal, editing, stored, wiped>>

-----------------------------------------------------------------------------
(* Sending. *)

\* sendRequest: handleSSE overwrites the reference, a fetch leaves it alone.
StartRequest(k, kind) ==
  /\ request[k] = "unused" /\ \A j \in Requests : j < k => request[j] # "unused"
  /\ request' = [request EXCEPT ![k] = kind]
  /\ IF kind = "stream" THEN streamed' = streamed \cup {k} /\ sseSource' = k ELSE UNCHANGED <<streamed, sseSource>>

\* Mutant: the loading answer is added before the question.
OnMessageSendSwapped(k, kind) ==
  /\ Len(message) + 2 <= MaxLength
  /\ StartRequest(k, kind)
  /\ message' = message \o <<Message(messageId + 1, "assistant", "loading", k, {}),
                             Message(messageId + 2, "user", "none", k, {0})>>
  /\ messageId' = messageId + 3
  /\ soon' = Append(soon, Save(message'))

\* onMessageSend: the question and a loading answer are added and saved, the request is sent.  The first
\* of the three ids it takes is dropped with the question that has no images.
OnMessageSend(k, kind) ==
  /\ Len(message) + 2 <= MaxLength
  /\ StartRequest(k, kind)
  /\ message' = message \o <<Message(messageId + 2, "user", "none", k, {0}),
                             Message(messageId + 1, "assistant", "loading", k, {})>>
  /\ messageId' = messageId + 3
  /\ soon' = Append(soon, Save(message'))

Acts == acts < MaxActs /\ acts' = acts + 1

\* The user can act: no dialog is open and the timers that are due have run.
UserActs == page = "shown" /\ soon = <<>> /\ modal = NoModal /\ (QuickUser \/ later = <<>>) /\ Acts

\* The chat component does not send while the last message is being generated.
Send(k, kind) ==
  /\ UserActs /\ ~LastGenerating(message)
  /\ OnMessageSend(k, kind)
  /\ UNCHANGED <<page, initialMessages, later, modal, editing, stored, wiped>>

\* onStopGenerator: the source in the reference is closed, the last message is completed and saved.
Stop ==
  /\ UserActs /\ LastGenerating(message)
  /\ IF sseSource # 0 THEN Ends(sseSource) ELSE UNCHANGED request
  /\ sseSource' = 0
  /\ message' = SetLast(message, [Last(message) EXCEPT !.status = "complete"])
  /\ soon' = Append(soon, Save(message'))
  /\ UNCHANGED <<page, initialMessages, messageId, streamed, later, modal, editing, stored, wiped>>

-----------------------------------------------------------------------------
(* The actions under a message (MessageActions, useMessageActions, useMessageEdit). *)

\* Every action is disabled while any message is generated, and on the message that is edited.
ActionEnabled(i) == UserActs /\ i \in DOMAIN message /\ ~AnyGenerating /\ message[i].id # editing.id

\* handleMessageReset: the conversation is cut before the question, which is sent again 100 ms later.
QuestionOf(i) ==
  LET asked == {j \in 1 .. i : message[j].role = "user"}
  IN IF asked = {} THEN 0 ELSE CHOOSE j \in asked : \A j2 \in asked : j2 <= j

Regenerate(i) ==
  /\ ActionEnabled(i) /\ QuestionOf(i) # 0
  /\ message' = SubSeq(message, 1, QuestionOf(i) - 1)
  /\ later' = Append(later, "send")
  /\ UNCHANGED <<page, initialMessages, messageId, net, soon, modal, editing, stored, wiped>>

\* The timers of 100 ms send whatever the conversation has become.
LaterSend(k, kind) ==
  /\ page = "shown" /\ later # <<>> /\ Head(later) = "send" /\ later' = Tail(later)
  /\ OnMessageSend(k, kind)
  /\ UNCHANGED <<page, initialMessages, modal, editing, stored, wiped>>

LaterAnswer(k, kind) ==
  /\ page = "shown" /\ later # <<>> /\ Head(later) = "edit" /\ later' = Tail(later)
  /\ Len(message) < MaxLength
  /\ StartRequest(k, kind)
  /\ message' = Append(message, Message(messageId, "assistant", "loading", k, {}))
  /\ messageId' = messageId + 1
  /\ UNCHANGED <<page, initialMessages, soon, modal, editing, stored, wiped>>

AskDelete(i) ==
  /\ ActionEnabled(i)
  /\ modal' = [kind |-> "delete", index |-> i, captured |-> message]
  /\ UNCHANGED <<page, message, initialMessages, messageId, net, soon, later, editing, stored, wiped>>

\* handleMessageDelete: the message is found by reference, then by id; a question goes with its answer by
\* index, anything else goes with all messages that have its id.
DeleteOk ==
  LET target == modal.captured[modal.index]
      at == IndexOf(message, target)
      pair == target.role = "user" /\ at < Len(message) /\ message[at + 1].role = "assistant"
      kept == Without(message, IF pair THEN {at, at + 1} ELSE {j \in DOMAIN message : message[j].id = target.id})
  IN /\ page = "shown" /\ modal.kind = "delete" /\ modal' = NoModal
     /\ IF at = 0 THEN UNCHANGED <<message, soon>>
        ELSE message' = kept /\ soon' = Append(soon, Save(kept))
     /\ UNCHANGED <<page, initialMessages, messageId, net, later, editing, stored, wiped>>

\* handleRoleToggle changes every message with the id.
RoleToggle(i) ==
  /\ ActionEnabled(i) /\ message[i].role # "user"
  /\ LET new == IF message[i].role = "assistant" THEN "system" ELSE "assistant"
     IN message' = [j \in DOMAIN message |->
                      IF message[j].id = message[i].id /\ message[j].role # "user"
                        THEN [message[j] EXCEPT !.role = new] ELSE message[j]]
  /\ soon' = Append(soon, Save(message'))
  /\ UNCHANGED <<page, initialMessages, messageId, net, later, modal, editing, stored, wiped>>

\* handleMessageEdit: a message with content can be edited.
StartEdit(i) ==
  /\ ActionEnabled(i) /\ message[i].text # {}
  /\ editing' = message[i]
  /\ UNCHANGED <<page, message, initialMessages, messageId, net, soon, later, modal, stored, wiped>>

\* The editor is shown in the place of every message that has the id.
EditorShown == editing # NoEdit /\ \E i \in DOMAIN message : message[i].id = editing.id

CancelEdit ==
  /\ UserActs /\ EditorShown /\ editing' = NoEdit
  /\ UNCHANGED <<page, message, initialMessages, messageId, net, soon, later, modal, stored, wiped>>

\* handleEditSave, which an answer in progress does not disable, changes all messages with the id.  For a
\* question that has a reply it asks first, and the dialog holds the conversation of this moment.
EditSave ==
  LET at == IndexOf(message, editing)
      updated == [j \in DOMAIN message |->
                    IF message[j].id = editing.id THEN [message[j] EXCEPT !.text = {0}] ELSE message[j]]
  IN /\ UserActs /\ EditorShown /\ editing' = NoEdit
     /\ IF message[at].role = "user" /\ at < Len(message) /\ message[at + 1].role = "assistant"
          THEN /\ modal' = [kind |-> "edit", index |-> at, captured |-> updated]
               /\ UNCHANGED <<message, soon>>
          ELSE message' = updated /\ soon' = Append(soon, Save(updated)) /\ UNCHANGED modal
     /\ UNCHANGED <<page, initialMessages, messageId, net, later, stored, wiped>>

\* The dialog of handleEditSave: regenerate from the question, or keep the captured conversation.
EditRegenerate ==
  /\ page = "shown" /\ modal.kind = "edit" /\ modal' = NoModal
  /\ message' = SubSeq(modal.captured, 1, modal.index)
  /\ soon' = Append(soon, Save(message'))
  /\ later' = Append(later, "edit")
  /\ UNCHANGED <<page, initialMessages, messageId, net, editing, stored, wiped>>

EditKeep ==
  /\ page = "shown" /\ modal.kind = "edit" /\ modal' = NoModal
  /\ message' = modal.captured
  /\ soon' = Append(soon, Save(message'))
  /\ UNCHANGED <<page, initialMessages, messageId, net, later, editing, stored, wiped>>

-----------------------------------------------------------------------------
(* The conversation as a whole. *)

\* handleClearMessages: no request is ended.
Clear ==
  /\ UserActs /\ message # <<>>
  /\ message' = <<>> /\ soon' = Append(soon, Save(<<>>))
  /\ UNCHANGED <<page, initialMessages, messageId, net, later, modal, editing, stored, wiped>>

\* importConfig stores the messages of the file, if it can, before the user is asked.
ImportFile ==
  /\ UserActs
  /\ stored' \in {{Imported}, stored} /\ wiped' = TRUE
  /\ modal' = [kind |-> "import", index |-> 0, captured |-> Imported]
  /\ UNCHANGED <<page, message, initialMessages, messageId, net, soon, later, editing>>

ImportOk ==
  /\ page = "shown" /\ modal.kind = "import" /\ modal' = NoModal
  /\ message' = modal.captured
  /\ UNCHANGED <<page, initialMessages, messageId, net, soon, later, editing, stored, wiped>>

CancelModal ==
  /\ page = "shown" /\ modal.kind \in {"delete", "import"} /\ modal' = NoModal
  /\ UNCHANGED <<page, message, initialMessages, messageId, net, soon, later, editing, stored, wiped>>

\* handleReset of ConfigManager: clearConfig removes the stored messages, whether or not they are kept.
ResetConfig(resetMessages) ==
  /\ UserActs
  /\ stored' = {} /\ wiped' = TRUE
  /\ IF resetMessages THEN message' = <<>> /\ soon' = Append(soon, Defaults) ELSE UNCHANGED <<message, soon>>
  /\ UNCHANGED <<page, initialMessages, messageId, net, later, modal, editing>>

\* A user of the custom request body removes messages from it: the conversation is rebuilt without status.
EditCustomBody(n) ==
  /\ UserActs /\ n \in 0 .. Len(message)
  /\ message' = [j \in 1 .. n |-> [message[j] EXCEPT !.id = j, !.status = "none"]]
  /\ UNCHANGED <<page, initialMessages, messageId, net, soon, later, modal, editing, stored, wiped>>

\* A change of language shows the default messages again unless some had been loaded.
ChangeLanguage ==
  /\ UserActs /\ ~initialMessages
  /\ message' = Default
  /\ UNCHANGED <<page, initialMessages, messageId, net, soon, later, modal, editing, stored, wiped>>

\* A timer of 0 ms: saveMessagesImmediately, or the default messages after a reset.
SoonTimer ==
  /\ soon # <<>> /\ soon' = Tail(soon)
  /\ IF Head(soon).kind = "save"
       THEN stored' = {Head(soon).messages} /\ wiped' = FALSE /\ UNCHANGED message
       ELSE message' = Default /\ UNCHANGED <<stored, wiped>>
  /\ UNCHANGED <<page, initialMessages, messageId, net, later, modal, editing>>

\* saveMessages: that localStorage is full is only logged.  Bound: it counts as an act.
StoreRefuses ==
  /\ Acts
  /\ soon # <<>> /\ Head(soon).kind = "save" /\ soon' = Tail(soon)
  /\ wiped' = TRUE
  /\ UNCHANGED <<page, message, initialMessages, messageId, net, later, modal, editing, stored>>

\* On mounting, a last message that was being generated is completed.
Repaired(ms) == IF LastGenerating(ms) THEN SetLast(ms, [Last(ms) EXCEPT !.status = "complete"]) ELSE ms

\* The page is loaded again, or left and mounted again (then the timers that are due have run and the ids
\* go on): what runs reports to nobody.  The old default messages, in Chinese, are dropped.
Mount(reload, oldDefault) ==
  LET isOld == oldDefault /\ \E ms \in stored : Len(ms) = 2 /\ ms[1].id = 2 /\ ms[2].id = 3
      loaded == IF stored = {} \/ isOld THEN Default ELSE CHOOSE ms \in stored : TRUE
  IN /\ Acts /\ (reload \/ soon = <<>>)
     /\ page' = "shown" /\ message' = Repaired(loaded)
     /\ stored' = IF isOld THEN {} ELSE stored
     /\ initialMessages' = (stored' # {})
     /\ messageId' = IF reload THEN FirstId ELSE messageId
     /\ request' = [k \in Requests |-> IF request[k] = "unused" THEN "unused" ELSE "ended"]
     /\ sseSource' = 0 /\ later' = <<>> /\ modal' = NoModal /\ editing' = NoEdit
     /\ soon' = IF message' # loaded THEN <<Save(message')>> ELSE <<>>
     /\ wiped' = FALSE
     /\ UNCHANGED streamed

-----------------------------------------------------------------------------
Reports ==
  \E k \in Requests :
    /\ page = "shown" /\ UNCHANGED acts
    /\ \/ Chunk(k) \/ Done(k) \/ BadChunk(k) \/ StreamError(k) \/ StreamBreaks(k) \/ EndsUnnoticed(k)
       \/ \E s \in {"complete", "error"} : FetchEnds(k, s)

Timers ==
  /\ UNCHANGED acts
  /\ \/ SoonTimer
     \/ \E k \in Requests, kind \in {"stream", "fetch"} : LaterSend(k, kind) \/ LaterAnswer(k, kind)

Dialog ==
  /\ UNCHANGED acts
  /\ DeleteOk \/ EditRegenerate \/ EditKeep \/ ImportOk \/ CancelModal

User ==
  \/ \E k \in Requests, kind \in {"stream", "fetch"} : Send(k, kind)
  \/ Stop \/ Clear \/ ImportFile \/ ChangeLanguage \/ CancelEdit \/ EditSave
  \/ \E i \in DOMAIN message : Regenerate(i) \/ AskDelete(i) \/ RoleToggle(i) \/ StartEdit(i)
  \/ \E b \in BOOLEAN : ResetConfig(b) \/ Mount(TRUE, b) \/ Mount(FALSE, b)
  \/ \E n \in 0 .. MaxLength : EditCustomBody(n)

ChatNext == Reports \/ Timers \/ StoreRefuses \/ Dialog \/ User

ChatSpec == ChatInit /\ [][ChatNext]_chatVars

-----------------------------------------------------------------------------
(* Properties. *)

OnlyLast(ms) == \A i \in DOMAIN ms : Generating(ms[i]) => i = Len(ms)

(* Only the last message is ever being generated, in the conversation shown, in every copy on its way to  *)
(* localStorage and in the stored one.  Stop, which completes the last message, and the repair on loading *)
(* rely on it: a generated message elsewhere would disable the actions of all messages for good.          *)
OnlyLastGenerates ==
  /\ OnlyLast(message)
  /\ \A i \in DOMAIN soon : OnlyLast(soon[i].messages)
  /\ \A ms \in stored : OnlyLast(ms)

(* As long as the answer to a request is shown as being generated, what the request reports goes to it    *)
(* and to no other message, whatever other requests are still open.                                      *)
AnswersNotMixed ==
  [][\A k \in Requests : (\E i \in DOMAIN message : message[i].of = k /\ message[i].role = "assistant" /\ Generating(message[i]))
       => \A i \in DOMAIN message :
            i \in DOMAIN message' /\ k \in message'[i].text \ message[i].text /\ message'[i].id = message[i].id
              => message[i].of = k]_chatVars

(* A streamed answer that ended well or was stopped is stored once the timers have run: it survives a     *)
(* reload, unless localStorage refused it or the stored one was wiped by an import or a reset.            *)
StreamedAnswerStored ==
  soon = <<>> /\ ~wiped =>
    \A i \in DOMAIN message :
      LET k == message[i].of
      IN k \in streamed /\ message[i].status = "complete" /\ message[i].text = {k} =>
           \E ms \in stored : \E j \in DOMAIN ms : ms[j].of = k /\ ms[j].text = {k} /\ ms[j].status = "complete"
=============================================================================
