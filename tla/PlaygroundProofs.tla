-------------------------- MODULE PlaygroundProofs --------------------------
(***************************************************************************)
(* Proofs about Playground, for any number of requests, messages and acts  *)
(* of the user: streamed answers are stored; and, if the user does nothing *)
(* in the 100 ms before a regeneration is sent, only the last message is   *)
(* ever being generated and answers are not mixed.                         *)
(***************************************************************************)
EXTENDS Playground, SequenceTheorems, FiniteSetTheorems, WellFoundedInduction, TLAPS

-----------------------------------------------------------------------------
(* Where handlers find a message.                                          *)

\* A nonempty set of numbers has a least element.
LEMMA LeastExists ==
  ASSUME NEW S \in SUBSET Nat, S # {}
  PROVE  \E x \in S : \A y \in S : x <= y
<1> DEFINE R == {ss \in Nat \X Nat : ss[1] < ss[2]}
<1>1. IsWellFoundedOn(R, Nat)
  BY NatLessThanWellFounded, Zenon DEF OpToRel
<1> HIDE DEF R
<1>2. PICK x \in S : \A y \in S : ~ (<<y, x>> \in R)
  BY <1>1, WFMin
<1>3. \A y \in S : x <= y
  <2> TAKE y \in S
  <2>1. <<y, x>> \in Nat \X Nat /\ <<y, x>>[1] = y /\ <<y, x>>[2] = x
    OBVIOUS
  <2>2. ~(y < x)
    BY <1>2, <2>1, Zenon DEF R
  <2> QED BY <2>2
<1> QED BY <1>3

\* A nonempty set of numbers up to n has a greatest element.
LEMMA GreatestExists ==
  ASSUME NEW n \in Nat, NEW S \in SUBSET (1 .. n), S # {}
  PROVE  \E x \in S : \A y \in S : y <= x
<1> DEFINE B == {b \in Nat : \A y \in S : y <= b}
<1>1. n \in B
  OBVIOUS
<1>2. PICK b \in B : \A c \in B : b <= c
  BY <1>1, LeastExists
<1>3. b \in S
  <2> SUFFICES ASSUME b \notin S PROVE FALSE
    OBVIOUS
  <2>1. b \in Nat /\ \A y \in S : y \in Nat /\ y >= 1 /\ y < b
    BY <1>2
  <2>0. PICK z \in S : TRUE
    OBVIOUS
  <2>2. b - 1 \in Nat /\ \A y \in S : y <= b - 1
    BY <2>0, <2>1
  <2>3. b - 1 \in B /\ ~(b <= b - 1)
    BY <2>1, <2>2
  <2> QED BY <1>2, <2>3
<1> QED BY <1>2, <1>3

\* IndexOf is a place in the conversation, and 0 only if no message has the id.
LEMMA IndexOfPlace ==
  ASSUME NEW S, NEW ms \in Seq(S), NEW x
  PROVE  /\ IndexOf(ms, x) \in 0 .. Len(ms)
         /\ (\E i \in DOMAIN ms : ms[i].id = x.id) => IndexOf(ms, x) # 0
<1> DEFINE same == {j \in DOMAIN ms : ms[j] = x}
           found == IF same # {} THEN same ELSE {j \in DOMAIN ms : ms[j].id = x.id}
<1>1. found \in SUBSET (1 .. Len(ms)) /\ Len(ms) \in Nat
  OBVIOUS
<1>2. found \in SUBSET Nat
  BY <1>1
<1>3. found # {} => (CHOOSE j \in found : \A j2 \in found : j <= j2) \in found
  BY <1>2, LeastExists
<1>4. (\E i \in DOMAIN ms : ms[i].id = x.id) => found # {}
  OBVIOUS
<1>5. IndexOf(ms, x) = IF found = {} THEN 0 ELSE CHOOSE j \in found : \A j2 \in found : j <= j2
  BY DEF IndexOf
<1> HIDE DEF found
<1>6. CASE found = {}
  BY <1>1, <1>4, <1>5, <1>6
<1>7. CASE found # {}
  <2>1. IndexOf(ms, x) \in 1 .. Len(ms)
    BY <1>1, <1>3, <1>5, <1>7
  <2> QED BY <1>1, <2>1
<1> QED BY <1>6, <1>7

\* QuestionOf is a place up to i, or 0.
LEMMA QuestionPlace ==
  ASSUME NEW S, message \in Seq(S), NEW i \in DOMAIN message
  PROVE  QuestionOf(i) \in 0 .. i
<1> DEFINE asked == {j \in 1 .. i : message[j].role = "user"}
<1>1. i \in Nat /\ asked \in SUBSET (1 .. i)
  OBVIOUS
<1>2. asked # {} => (CHOOSE j \in asked : \A j2 \in asked : j2 <= j) \in asked
  BY <1>1, GreatestExists
<1> QED BY <1>1, <1>2 DEF QuestionOf

-----------------------------------------------------------------------------
(* Conversations.                                                          *)

\* SetLast keeps the length and all messages but the last.
LEMMA SetLastFacts ==
  ASSUME NEW S, NEW ms \in Seq(S), ms # <<>>, NEW x \in S
  PROVE  /\ SetLast(ms, x) \in Seq(S) /\ Len(SetLast(ms, x)) = Len(ms)
         /\ DOMAIN SetLast(ms, x) = DOMAIN ms
         /\ \A i \in DOMAIN ms : SetLast(ms, x)[i] = IF i = Len(ms) THEN x ELSE ms[i]
<1>1. Len(ms) \in 1 .. Len(ms)
  BY EmptySeq
<1>2. /\ [ms EXCEPT ![Len(ms)] = x] \in Seq(S)
      /\ Len([ms EXCEPT ![Len(ms)] = x]) = Len(ms)
      /\ \A j \in 1 .. Len(ms) : [ms EXCEPT ![Len(ms)] = x][j] = IF j = Len(ms) THEN x ELSE ms[j]
  BY <1>1, ExceptSeq
<1> QED BY <1>2 DEF SetLast

\* What is left of a conversation are messages it had.
LEMMA WithoutFacts ==
  ASSUME NEW S, NEW ms \in Seq(S), NEW gone
  PROVE  /\ Without(ms, gone) \in Seq(S)
         /\ \A n \in DOMAIN Without(ms, gone) : \E j \in DOMAIN ms : Without(ms, gone)[n] = ms[j]
<1> DEFINE kept == DOMAIN ms \ gone
           Upto(j) == {i \in kept : i <= j}
           C == Cardinality(kept)
<1>1. Len(ms) \in Nat /\ kept \subseteq 1 .. Len(ms) /\ IsFiniteSet(1 .. Len(ms))
  BY FS_Interval
<1>2. IsFiniteSet(kept) /\ C \in Nat
  BY <1>1, FS_Subset, FS_CardinalityType
<1>3. \A j \in Nat : IsFiniteSet(Upto(j)) /\ Cardinality(Upto(j)) \in Nat
  <2> TAKE j \in Nat
  <2>1. Upto(j) \subseteq kept
    OBVIOUS
  <2> QED BY <1>2, <2>1, FS_Subset, FS_CardinalityType
<1>4. ASSUME NEW n \in 1 .. C PROVE \E j \in kept : Cardinality(Upto(j)) = n
  <2> DEFINE B == {j \in Nat : Cardinality(Upto(j)) >= n}
  <2>0. n \in Nat /\ n >= 1 /\ C >= n
    BY <1>2
  <2>1. Upto(Len(ms)) = kept
    BY <1>1
  <2>2. Len(ms) \in B
    BY <1>1, <2>0, <2>1
  <2>3. PICK b \in B : \A c \in B : b <= c
    BY <2>2, LeastExists
  <2>4. b \in Nat /\ Cardinality(Upto(b)) >= n
    BY <2>3
  <2>5. b # 0
    <3>1. Upto(0) = {}
      BY <1>1
    <3>2. Cardinality(Upto(0)) = 0
      BY <3>1, FS_EmptySet
    <3> HIDE DEF Upto
    <3> QED BY <2>0, <2>4, <3>2
  <2>6. b - 1 \in Nat /\ ~(b <= b - 1)
    BY <2>4, <2>5
  <2>7. ~(Cardinality(Upto(b - 1)) >= n)
    BY <2>3, <2>6
  <2>8. Cardinality(Upto(b - 1)) \in Nat /\ Cardinality(Upto(b - 1)) < n
    <3>1. Cardinality(Upto(b - 1)) \in Nat
      BY <1>3, <2>6
    <3> HIDE DEF Upto
    <3> QED BY <2>0, <2>7, <3>1
  <2>9. b \in kept
    <3> SUFFICES ASSUME b \notin kept PROVE FALSE
      OBVIOUS
    <3>1. Upto(b) = Upto(b - 1)
      BY <1>1, <2>4, <2>6
    <3> HIDE DEF Upto
    <3> QED BY <2>0, <2>4, <2>8, <3>1
  <2>10. Upto(b) = Upto(b - 1) \cup {b} /\ b \notin Upto(b - 1)
    BY <1>1, <2>4, <2>6, <2>9
  <2>11. Cardinality(Upto(b)) = Cardinality(Upto(b - 1)) + 1
    BY <1>3, <2>6, <2>10, FS_AddElement
  <2>12. Cardinality(Upto(b)) = n
    BY <2>0, <2>4, <2>8, <2>11
  <2> QED BY <2>9, <2>12
<1>5. ASSUME NEW n \in 1 .. C
      PROVE  (CHOOSE j \in kept : Cardinality(Upto(j)) = n) \in kept
  BY <1>4, <1>5
<1>6. Without(ms, gone) = [n \in 1 .. C |-> ms[CHOOSE j \in kept : Cardinality(Upto(j)) = n]]
  BY DEF Without
<1> HIDE DEF kept, Upto, C
<1>7. \A n \in 1 .. C : \E j \in DOMAIN ms : Without(ms, gone)[n] = ms[j]
  BY <1>5, <1>6 DEF kept
<1>8. \A n \in 1 .. C : Without(ms, gone)[n] \in S
  BY <1>7
<1>9. Without(ms, gone) \in [1 .. C -> S]
  BY <1>6, <1>8
<1>10. Without(ms, gone) \in Seq(S) /\ DOMAIN Without(ms, gone) = 1 .. C
  BY <1>2, <1>9, SeqDef
<1> QED BY <1>7, <1>10

-----------------------------------------------------------------------------
(* Types.                                                                  *)

Msgs == [id : Int, role : {"user", "assistant", "system"},
         status : {"none", "loading", "incomplete", "complete", "error"},
         of : Requests \cup {0}, text : SUBSET (Requests \cup {0})]

\* Messages there may be: their text comes from the user and from requests that were made,
\* and one that is loading has nothing from a request.
Fits == {x \in Msgs : /\ x.status = "loading" => x.text \subseteq {0}
                      /\ \A k \in x.text : k # 0 => request[k] # "unused"}

DueTimers == [kind : {"save", "defaults"}, messages : Seq(Fits)]
Modals == [kind : {"none", "delete", "edit", "import"}, index : Nat, captured : Seq(Fits)]

NetOK ==
  /\ request \in [Requests -> {"unused", "stream", "fetch", "ended"}]
  /\ streamed \subseteq {k \in Requests : request[k] \in {"stream", "ended"}}
  /\ sseSource \in Requests \cup {0}

PageOK ==
  /\ messageId \in Int /\ later \in Seq({"send", "edit"}) /\ editing \in Msgs
  /\ modal.kind = "edit" => 1 <= modal.index /\ modal.index < Len(modal.captured)
  /\ modal.kind = "import" => modal.captured = Imported

CopiesOK == message \in Seq(Fits) /\ soon \in Seq(DueTimers) /\ stored \subseteq Seq(Fits) /\ modal \in Modals

ChatOK == NetOK /\ PageOK /\ CopiesOK

\* Requests keep their types, and one that was made stays made.
LEMMA NetStep ==
  ASSUME NetOK, [ChatNext]_chatVars
  PROVE  NetOK' /\ \A k \in Requests : request[k] # "unused" => request'[k] # "unused"
<1> DEFINE Grown == \A k \in Requests : request[k] # "unused" => request'[k] # "unused"
<1> USE DEF NetOK
<1>1. ASSUME UNCHANGED net PROVE NetOK' /\ Grown
  BY <1>1 DEF net
<1>2. ASSUME NEW k \in Requests, Ends(k), request[k] # "unused", streamed' = streamed, sseSource' \in {sseSource, 0}
      PROVE  NetOK' /\ Grown
  BY <1>2 DEF Ends
<1>3. ASSUME NEW k \in Requests, NEW kind \in {"stream", "fetch"}, StartRequest(k, kind)
      PROVE  NetOK' /\ Grown
  BY <1>3 DEF StartRequest
<1>4. CASE Reports
  <2> PICK k \in Requests : \/ Chunk(k) \/ Done(k) \/ BadChunk(k) \/ StreamError(k) \/ StreamBreaks(k) \/ EndsUnnoticed(k)
                            \/ \E s \in {"complete", "error"} : FetchEnds(k, s)
    BY <1>4 DEF Reports
  <2>1. UNCHANGED net \/ (Ends(k) /\ request[k] # "unused" /\ streamed' = streamed /\ sseSource' \in {sseSource, 0})
    BY DEF Chunk, Done, BadChunk, StreamError, StreamBreaks, EndsUnnoticed, FetchEnds
  <2> QED BY <1>1, <1>2, <2>1
<1>5. CASE Timers
  <2>1. UNCHANGED net \/ \E k \in Requests, kind \in {"stream", "fetch"} : StartRequest(k, kind)
    BY <1>5 DEF Timers, SoonTimer, LaterSend, LaterAnswer, OnMessageSend
  <2> QED BY <1>1, <1>3, <2>1
<1>6. CASE Dialog
  BY <1>1, <1>6 DEF Dialog, DeleteOk, EditRegenerate, EditKeep, ImportOk, CancelModal
<1>7. CASE User
  <2>1. ASSUME NEW k \in Requests, NEW kind \in {"stream", "fetch"}, Send(k, kind) PROVE NetOK' /\ Grown
    BY <1>3, <2>1 DEF Send, OnMessageSend
  <2>2. CASE Stop
    BY <2>2 DEF Stop, Ends
  <2>3. CASE Clear \/ ImportFile \/ ChangeLanguage \/ CancelEdit \/ EditSave
    BY <1>1, <2>3 DEF Clear, ImportFile, ChangeLanguage, CancelEdit, EditSave
  <2>4. ASSUME NEW i \in DOMAIN message, Regenerate(i) \/ AskDelete(i) \/ RoleToggle(i) \/ StartEdit(i) PROVE NetOK' /\ Grown
    BY <1>1, <2>4 DEF Regenerate, AskDelete, RoleToggle, StartEdit
  <2>5. ASSUME NEW b \in BOOLEAN, ResetConfig(b) PROVE NetOK' /\ Grown
    BY <1>1, <2>5 DEF ResetConfig
  <2>6. ASSUME NEW reload \in BOOLEAN, NEW b \in BOOLEAN, Mount(reload, b) PROVE NetOK' /\ Grown
    BY <2>6 DEF Mount
  <2>7. ASSUME NEW n \in 0 .. MaxLength, EditCustomBody(n) PROVE NetOK' /\ Grown
    BY <1>1, <2>7, Zenon DEF EditCustomBody
  <2> QED BY <1>7, <2>1, <2>2, <2>3, <2>4, <2>5, <2>6, <2>7 DEF User
<1>8. CASE StoreRefuses \/ UNCHANGED chatVars
  BY <1>1, <1>8 DEF chatVars, StoreRefuses
<1> QED BY <1>4, <1>5, <1>6, <1>7, <1>8 DEF ChatNext

\* So a message that may be there may be there ever after.
LEMMA CarriedOver ==
  ASSUME CopiesOK, \A k \in Requests : request[k] # "unused" => request'[k] # "unused"
  PROVE  /\ Fits \subseteq Fits'
         /\ message \in Seq(Fits') /\ soon \in Seq(DueTimers') /\ stored \subseteq Seq(Fits') /\ modal \in Modals'
<1>1. Fits \subseteq Fits'
  BY DEF Fits, Msgs
<1>2. Seq(Fits) \subseteq Seq(Fits')
  BY <1>1, SeqMonotonic
<1>3. DueTimers \subseteq DueTimers' /\ Modals \subseteq Modals'
  BY <1>2 DEF DueTimers, Modals
<1>4. soon \in Seq(DueTimers')
  BY <1>3, SeqMonotonic DEF CopiesOK
<1> QED BY <1>1, <1>2, <1>3, <1>4 DEF CopiesOK

-----------------------------------------------------------------------------
(* What a report does to the conversation.                                 *)

\* y is what the last message x may become when requests in K report.
Becomes(x, y, K) ==
  /\ y \in Msgs /\ y.id = x.id /\ y.role = x.role /\ y.of = x.of
  /\ y.status # "loading" /\ (Generating(y) => Generating(x))
  /\ y.text \subseteq x.text \cup K /\ x.text \subseteq y.text \cup {0}

\* Only the last message changes.
Touched(ms, new, K) == new = ms \/ (ms # <<>> /\ \E y \in Msgs : new = SetLast(ms, y) /\ Becomes(Last(ms), y, K))

\* The last of a typed conversation is a message that fits.
LEMMA LastFits ==
  ASSUME NEW ms \in Seq(Fits), ms # <<>>
  PROVE  Last(ms) \in Fits /\ Last(ms) \in Msgs /\ Len(ms) \in 1 .. Len(ms) /\ Last(ms) = ms[Len(ms)]
BY EmptySeq DEF Last, Fits

\* SetLast overwrites what SetLast wrote.
LEMMA SetLastTwice ==
  ASSUME NEW ms \in Seq(Fits), ms # <<>>, NEW x \in Msgs, NEW y
  PROVE  /\ SetLast(ms, x) # <<>> /\ Last(SetLast(ms, x)) = x
         /\ SetLast(SetLast(ms, x), y) = SetLast(ms, y)
<1>1. ms \in Seq(Msgs)
  BY SeqMonotonic DEF Fits
<1>2. /\ SetLast(ms, x) \in Seq(Msgs) /\ Len(SetLast(ms, x)) = Len(ms)
      /\ \A i \in DOMAIN ms : SetLast(ms, x)[i] = IF i = Len(ms) THEN x ELSE ms[i]
  BY <1>1, SetLastFacts
<1>3. Len(ms) \in DOMAIN ms /\ Len(ms) # 0
  BY LastFits, EmptySeq
<1>4. SetLast(SetLast(ms, x), y) = SetLast(ms, y)
  BY <1>2, <1>3 DEF SetLast
<1> QED BY <1>2, <1>3, <1>4, EmptySeq DEF Last

\* A chunk touches the last message, and only one that is being generated.
LEMMA UpdateTouches ==
  ASSUME NEW ms \in Seq(Fits), NEW k \in Requests
  PROVE  \/ StreamMessageUpdate(ms, k) = ms
         \/ /\ ms # <<>> /\ Generating(Last(ms))
            /\ \E y \in Msgs : /\ StreamMessageUpdate(ms, k) = SetLast(ms, y)
                               /\ Becomes(Last(ms), y, {k}) /\ y.status = "incomplete"
<1>1. CASE LastGenerating(ms) /\ Last(ms).role = "assistant"
  <2> DEFINE y == [Last(ms) EXCEPT !.text = @ \cup {k}, !.status = "incomplete"]
  <2>1. ms # <<>> /\ Generating(Last(ms)) /\ StreamMessageUpdate(ms, k) = SetLast(ms, y)
    BY <1>1 DEF StreamMessageUpdate, LastGenerating
  <2>2. Last(ms) \in Msgs
    BY <2>1, LastFits
  <2>3. y \in Msgs /\ Becomes(Last(ms), y, {k}) /\ y.status = "incomplete"
    BY <2>1, <2>2 DEF Msgs, Becomes, Generating
  <2> QED BY <2>1, <2>3
<1>2. CASE ~(LastGenerating(ms) /\ Last(ms).role = "assistant")
  BY <1>2 DEF StreamMessageUpdate
<1> QED BY <1>1, <1>2

\* Completing a conversation that a report has touched.
LEMMA CompleteTouches ==
  ASSUME NEW ms \in Seq(Fits), NEW k \in Requests, NEW status \in {"complete", "error"},
         CompleteMessage(ms, status) \/ CompleteMessage(StreamMessageUpdate(ms, k), status)
  PROVE  /\ Touched(ms, message', {k})
         /\ \/ soon' = Append(soon, Save(message'))
            \/ soon' = soon /\ (message' = ms \/ Generating(Last(message')))
<1>1. PICK u \in {ms, StreamMessageUpdate(ms, k)} : CompleteMessage(u, status)
  OBVIOUS
<1>2. u = ms \/ (ms # <<>> /\ \E y \in Msgs : u = SetLast(ms, y) /\ Becomes(Last(ms), y, {k}) /\ y.status = "incomplete"
                                              /\ Generating(Last(ms)))
  BY <1>1, UpdateTouches
<1>3. CASE message' = u /\ soon' = soon
  <2>1. CASE u = ms
    BY <1>3, <2>1 DEF Touched
  <2>2. CASE u # ms
    <3>1. PICK y \in Msgs : ms # <<>> /\ u = SetLast(ms, y) /\ Becomes(Last(ms), y, {k}) /\ y.status = "incomplete"
      BY <1>2, <2>2
    <3>2. Last(u) = y
      BY <3>1, SetLastTwice
    <3> QED BY <1>3, <3>1, <3>2 DEF Touched, Generating
  <2> QED BY <2>1, <2>2
<1>4. CASE /\ u # <<>> /\ Last(u).status \notin {"complete", "error"}
           /\ message' = SetLast(u, [Last(u) EXCEPT !.status = status])
           /\ soon' = Append(soon, Save(message'))
  <2>1. ms # <<>> /\ Last(ms) \in Msgs
    BY <1>2, <1>4, LastFits
  <2>2. CASE u = ms
    <3> DEFINE z == [Last(ms) EXCEPT !.status = status]
    <3>1. z \in Msgs /\ Becomes(Last(ms), z, {k})
      BY <2>1 DEF Becomes, Msgs, Generating
    <3> QED BY <1>4, <2>1, <2>2, <3>1 DEF Touched
  <2>3. CASE u # ms
    <3>1. PICK y \in Msgs : u = SetLast(ms, y) /\ Becomes(Last(ms), y, {k})
      BY <1>2, <2>3
    <3> DEFINE z == [y EXCEPT !.status = status]
    <3>2. Last(u) = y /\ SetLast(u, z) = SetLast(ms, z)
      BY <2>1, <3>1, SetLastTwice
    <3>3. z \in Msgs /\ Becomes(Last(ms), z, {k})
      BY <3>1 DEF Becomes, Msgs, Generating
    <3>4. message' = SetLast(ms, z)
      BY <1>4, <3>2
    <3> QED BY <1>4, <2>1, <3>3, <3>4 DEF Touched
  <2> QED BY <2>2, <2>3
<1> QED BY <1>1, <1>3, <1>4, Zenon DEF CompleteMessage

\* What the reports of requests in K and the button that stops them do: what is not saved is unchanged,
\* still being generated, an error, or the answer of a request that is not a stream.
Reported(K) ==
  /\ Touched(message, message', K)
  /\ UNCHANGED <<messageId, later, modal, editing, stored, wiped, streamed>>
  /\ \/ soon' = Append(soon, Save(message'))
     \/ /\ soon' = soon
        /\ \/ message' = message \/ Last(message').status \in {"incomplete", "error"}
           \/ \E k \in K : k \notin streamed /\ Last(message').text = {k}

Open == {k \in Requests : request[k] \in {"stream", "fetch"}}

\* Each handler of a request's events does no more than that.
LEMMA ReportsTouch ==
  ASSUME ChatOK, Reports
  PROVE  \E K \in SUBSET Open : Reported(K)
<1>1. PICK k \in Requests :
        \/ Chunk(k) \/ Done(k) \/ BadChunk(k) \/ StreamError(k) \/ StreamBreaks(k) \/ EndsUnnoticed(k)
        \/ \E s \in {"complete", "error"} : FetchEnds(k, s)
  BY DEF Reports
<1>2. message \in Seq(Fits) /\ NetOK
  BY DEF ChatOK, CopiesOK
<1>3. k \in Open
  BY <1>1 DEF Open, Chunk, Done, BadChunk, StreamError, StreamBreaks, EndsUnnoticed, FetchEnds
<1>4. UNCHANGED <<messageId, later, modal, editing, stored, wiped, streamed>>
  BY <1>1 DEF Chunk, Done, BadChunk, StreamError, StreamBreaks, EndsUnnoticed, FetchEnds, net
<1>5. ASSUME message # <<>>, NEW y \in Msgs, Becomes(Last(message), y, {k}), message' = SetLast(message, y)
      PROVE  Touched(message, message', {k}) /\ Last(message') = y
  BY <1>2, <1>5, SetLastTwice DEF Touched
<1>6. CASE Chunk(k)
  <2>1. message' = StreamMessageUpdate(message, k) /\ soon' = soon
    BY <1>6 DEF Chunk
  <2>2. Touched(message, message', {k}) /\ (message' = message \/ Last(message').status = "incomplete")
    BY <1>2, <1>5, <2>1, UpdateTouches DEF Touched
  <2> QED BY <1>3, <1>4, <2>1, <2>2 DEF Reported
<1>7. CASE Done(k) \/ BadChunk(k) \/ StreamBreaks(k)
  <2>1. PICK s \in {"complete", "error"} : CompleteMessage(message, s) \/ CompleteMessage(StreamMessageUpdate(message, k), s)
    BY <1>7 DEF Done, BadChunk, StreamBreaks
  <2>2. /\ Touched(message, message', {k})
        /\ \/ soon' = Append(soon, Save(message'))
           \/ soon' = soon /\ (message' = message \/ Generating(Last(message')))
    BY <1>2, <2>1, CompleteTouches
  <2>3. message' # message => Last(message').status # "loading"
    BY <1>5, <2>2 DEF Touched, Becomes
  <2>4. message' # message /\ Generating(Last(message')) => Last(message').status = "incomplete"
    BY <2>3 DEF Generating
  <2> QED BY <1>3, <1>4, <2>2, <2>4 DEF Reported
<1>8. CASE StreamError(k)
  <2>1. soon' = soon
    BY <1>8 DEF StreamError
  <2>2. CASE message # <<>> /\ Last(message).status \notin {"complete", "error"}
    <3> DEFINE y == [Last(message) EXCEPT !.text = @ \cup {k}, !.status = "error"]
    <3>1. message' = SetLast(message, y)
      BY <1>8, <2>2 DEF StreamError
    <3>2. y \in Msgs /\ Becomes(Last(message), y, {k}) /\ y.status = "error"
      BY <1>2, <2>2, LastFits DEF Msgs, Becomes, Generating
    <3>3. Touched(message, message', {k}) /\ Last(message').status = "error"
      BY <1>5, <2>2, <3>1, <3>2
    <3> QED BY <1>3, <1>4, <2>1, <3>3 DEF Reported
  <2>3. CASE ~(message # <<>> /\ Last(message).status \notin {"complete", "error"})
    <3>1. message' = message
      BY <1>8, <2>3 DEF StreamError
    <3> QED BY <1>3, <1>4, <2>1, <3>1 DEF Reported, Touched
  <2> QED BY <2>2, <2>3
<1>9. CASE EndsUnnoticed(k)
  <2>1. message' = message /\ soon' = soon
    BY <1>9 DEF EndsUnnoticed
  <2> QED BY <1>3, <1>4, <2>1 DEF Reported, Touched
<1>10. ASSUME NEW s \in {"complete", "error"}, FetchEnds(k, s) PROVE \E K \in SUBSET Open : Reported(K)
  <2>1. soon' = soon /\ k \notin streamed
    BY <1>2, <1>10 DEF FetchEnds, NetOK
  <2>2. CASE message # <<>> /\ Last(message).status = "loading"
    <3> DEFINE y == [Last(message) EXCEPT !.text = {k}, !.status = s]
    <3>1. message' = SetLast(message, y)
      BY <1>10, <2>2 DEF FetchEnds
    <3>2. Last(message) \in Msgs /\ Last(message).text \subseteq {0}
      BY <1>2, <2>2, LastFits DEF Fits
    <3>3. y \in Msgs /\ Becomes(Last(message), y, {k}) /\ y.text = {k}
      BY <2>2, <3>2 DEF Msgs, Becomes, Generating
    <3>4. Touched(message, message', {k}) /\ Last(message').text = {k}
      BY <1>5, <2>2, <3>1, <3>3
    <3> QED BY <1>3, <1>4, <2>1, <3>4 DEF Reported
  <2>3. CASE ~(message # <<>> /\ Last(message).status = "loading")
    <3>1. message' = message
      BY <1>10, <2>3 DEF FetchEnds
    <3> QED BY <1>3, <1>4, <2>1, <3>1 DEF Reported, Touched
  <2> QED BY <2>2, <2>3
<1> QED BY <1>1, <1>6, <1>7, <1>8, <1>9, <1>10

\* Neither does the button that stops the answer, which saves.
LEMMA StopTouches ==
  ASSUME ChatOK, Stop
  PROVE  Reported({}) /\ soon' = Append(soon, Save(message'))
<1> DEFINE y == [Last(message) EXCEPT !.status = "complete"]
<1>1. message \in Seq(Fits) /\ message # <<>> /\ message' = SetLast(message, y)
  BY DEF ChatOK, CopiesOK, Stop, LastGenerating
<1>2. y \in Msgs /\ Becomes(Last(message), y, {})
  BY <1>1, LastFits DEF Msgs, Becomes, Generating
<1>3. Touched(message, message', {})
  BY <1>1, <1>2 DEF Touched
<1> QED BY <1>3 DEF Reported, Stop

\* A touched conversation is still one of messages that fit, once the requests are made.
LEMMA TouchedFits ==
  ASSUME ChatOK, Fits \subseteq Fits', NEW K \in SUBSET Requests, \A k \in K : request'[k] # "unused",
         Touched(message, message', K)
  PROVE  message' \in Seq(Fits')
<1>1. message \in Seq(Fits) /\ message \in Seq(Fits')
  BY SeqMonotonic DEF ChatOK, CopiesOK
<1>2. CASE message' = message
  BY <1>1, <1>2
<1>3. CASE message' # message
  <2>1. PICK y \in Msgs : message # <<>> /\ message' = SetLast(message, y) /\ Becomes(Last(message), y, K)
    BY <1>3 DEF Touched
  <2>2. Last(message) \in Fits /\ Last(message) \in Fits'
    BY <1>1, <2>1, LastFits
  <2>3. \A k \in y.text : k # 0 => request'[k] # "unused"
    BY <2>1, <2>2 DEF Becomes, Fits
  <2>4. y \in Fits'
    BY <2>1, <2>3 DEF Becomes, Fits, Msgs
  <2> QED BY <1>1, <2>1, <2>4, SetLastFacts
<1> QED BY <1>2, <1>3

-----------------------------------------------------------------------------
(* Types are kept.                                                         *)

\* The beginning of a conversation.
LEMMA CutFacts ==
  ASSUME NEW S, NEW ms \in Seq(S), NEW n \in 0 .. Len(ms)
  PROVE  /\ SubSeq(ms, 1, n) \in Seq(S) /\ Len(SubSeq(ms, 1, n)) = n /\ DOMAIN SubSeq(ms, 1, n) = 1 .. n
         /\ \A i \in 1 .. n : SubSeq(ms, 1, n)[i] = ms[i] /\ i \in DOMAIN ms
<1>1. \A i \in 1 .. n : ms[i] \in S /\ i \in DOMAIN ms
  OBVIOUS
<1>2. /\ SubSeq(ms, 1, n) \in Seq(S)
      /\ Len(SubSeq(ms, 1, n)) = IF 1 <= n THEN n - 1 + 1 ELSE 0
      /\ \A i \in 1 .. n - 1 + 1 : SubSeq(ms, 1, n)[i] = ms[1 + i - 1]
  BY <1>1, SubSeqProperties
<1> QED BY <1>1, <1>2

\* A conversation of which every message is given.
LEMMA ListFacts ==
  ASSUME NEW S, NEW n \in Nat, NEW ms \in [1 .. n -> S]
  PROVE  ms \in Seq(S) /\ Len(ms) = n /\ DOMAIN ms = 1 .. n
<1>1. ms \in Seq(S) /\ DOMAIN ms = 1 .. n
  BY SeqDef
<1> QED BY <1>1, LenProperties

\* A conversation with two messages more.
LEMMA SentFacts ==
  ASSUME NEW S, NEW ms \in Seq(S), NEW x \in S, NEW y \in S
  PROVE  /\ ms \o <<x, y>> \in Seq(S) /\ Len(ms \o <<x, y>>) = Len(ms) + 2
         /\ \A i \in DOMAIN ms : (ms \o <<x, y>>)[i] = ms[i]
         /\ (ms \o <<x, y>>)[Len(ms) + 1] = x /\ (ms \o <<x, y>>)[Len(ms) + 2] = y
OBVIOUS

\* What is saved waits for its timer.
LEMMA SaveFacts ==
  ASSUME NEW S, NEW ms \in Seq(S), NEW q \in Seq([kind : {"save", "defaults"}, messages : Seq(S)])
  PROVE  /\ Append(q, Save(ms)) \in Seq([kind : {"save", "defaults"}, messages : Seq(S)])
         /\ Len(Append(q, Save(ms))) = Len(q) + 1
         /\ \A i \in DOMAIN q : Append(q, Save(ms))[i] = q[i]
         /\ Append(q, Save(ms))[Len(q) + 1] = Save(ms)
<1> DEFINE D == [kind : {"save", "defaults"}, messages : Seq(S)]
<1>1. Save(ms) \in D
  BY DEF Save
<1> HIDE DEF D
<1>2. q \in Seq(D)
  BY DEF D
<1>3. Append(q, Save(ms)) \in Seq(D) /\ Len(Append(q, Save(ms))) = Len(q) + 1
      /\ (\A i \in 1 .. Len(q) : Append(q, Save(ms))[i] = q[i])
      /\ Append(q, Save(ms))[Len(q) + 1] = Save(ms)
  BY <1>1, <1>2, AppendProperties
<1>4. DOMAIN q = 1 .. Len(q)
  BY <1>2
<1> QED BY <1>3, <1>4 DEF D

\* The messages that are built in.
LEMMA BuiltIn ==
  /\ Default \in Seq(Fits) /\ Len(Default) = 2 /\ Imported \in Seq(Fits) /\ Len(Imported) = 2 /\ NoEdit \in Msgs
  /\ \A i \in {1, 2} : /\ Default[i].of = 0 /\ Default[i].text = {0} /\ Default[i].status = "none"
                       /\ Imported[i].of = 0 /\ Imported[i].text = {0}
                       /\ (Imported[i].status # "none" => i = 2)
<1>1. /\ Message(2, "user", "none", 0, {0}) \in Fits /\ Message(3, "assistant", "none", 0, {0}) \in Fits
      /\ Message(3, "assistant", "incomplete", 0, {0}) \in Fits
  BY DEF Message, Fits, Msgs
<1>2. Default \in Seq(Fits) /\ Imported \in Seq(Fits)
  BY <1>1 DEF Default, Imported
<1>3. NoEdit \in Msgs
  BY DEF NoEdit, Message, Msgs
<1> QED BY <1>2, <1>3 DEF Default, Imported, Message

\* The two messages that are sent fit once the request is made, and so does a lone answer.
LEMMA NewFit ==
  ASSUME NEW k \in Requests, messageId \in Int
  PROVE  /\ Message(messageId + 2, "user", "none", k, {0}) \in Fits
         /\ Message(messageId + 1, "assistant", "loading", k, {}) \in Fits
         /\ Message(messageId, "assistant", "loading", k, {}) \in Fits
BY DEF Message, Fits, Msgs

\* The first state has the types.
LEMMA TypesInit ==
  ASSUME ChatInit
  PROVE  ChatOK
<1>1. NetOK
  BY DEF ChatInit, NetOK
<1>2. PageOK
  BY BuiltIn DEF ChatInit, PageOK, FirstId, NoModal
<1>3. CopiesOK
  BY BuiltIn DEF ChatInit, CopiesOK, NoModal, Modals, DueTimers
<1> QED BY <1>1, <1>2, <1>3 DEF ChatOK

\* The state of the page: counter, timers, editor and dialog, when an action leaves them alone.
pageVars == <<messageId, later, modal, editing>>

\* Requests and timers keep the types.
LEMMA TypesEvents ==
  ASSUME ChatOK, NetOK', Reports \/ Timers \/ StoreRefuses,
         \A k \in Requests : request[k] # "unused" => request'[k] # "unused"
  PROVE  PageOK' /\ CopiesOK'
<1>0. ChatOK /\ NetOK /\ PageOK /\ CopiesOK /\ message \in Seq(Fits)
  BY DEF ChatOK, CopiesOK
<1>1. /\ Fits \subseteq Fits' /\ message \in Seq(Fits') /\ soon \in Seq(DueTimers')
      /\ stored \subseteq Seq(Fits') /\ modal \in Modals'
  BY <1>0, CarriedOver
<1>2. ASSUME message' \in Seq(Fits') PROVE Append(soon, Save(message')) \in Seq(DueTimers')
  BY <1>1, <1>2, SaveFacts DEF DueTimers
<1>3. ASSUME UNCHANGED pageVars PROVE PageOK'
  BY <1>0, <1>3 DEF PageOK, pageVars
<1>4. ASSUME NEW K \in SUBSET Open, Reported(K) PROVE PageOK' /\ CopiesOK'
  <2>1. message' \in Seq(Fits')
    BY <1>0, <1>1, <1>4, TouchedFits DEF Open, Reported
  <2>2. soon' \in Seq(DueTimers')
    BY <1>1, <1>2, <1>4, <2>1 DEF Reported
  <2>3. stored' = stored /\ modal' = modal /\ UNCHANGED pageVars
    BY <1>4 DEF Reported, pageVars
  <2> QED BY <1>1, <1>3, <2>1, <2>2, <2>3 DEF CopiesOK
<1>5. CASE Reports
  BY <1>0, <1>4, <1>5, ReportsTouch
<1>6. CASE SoonTimer
  <2>1. soon # <<>> /\ soon' = Tail(soon) /\ UNCHANGED pageVars /\ modal' = modal
    BY <1>6 DEF SoonTimer, pageVars
  <2>2. soon' \in Seq(DueTimers') /\ Head(soon) \in DueTimers'
    BY <1>1, <2>1, HeadTailProperties
  <2>3. Default \in Seq(Fits')
    BY <1>1, BuiltIn, SeqMonotonic
  <2>4. message' \in Seq(Fits') /\ stored' \subseteq Seq(Fits')
    BY <1>1, <1>6, <2>2, <2>3 DEF SoonTimer, DueTimers
  <2> QED BY <1>1, <1>3, <2>1, <2>2, <2>4 DEF CopiesOK
<1>7. ASSUME NEW k \in Requests, NEW kind \in {"stream", "fetch"}, LaterSend(k, kind) PROVE PageOK' /\ CopiesOK'
  <2> DEFINE x == Message(messageId + 2, "user", "none", k, {0})
             y == Message(messageId + 1, "assistant", "loading", k, {})
  <2>1. x \in Fits' /\ y \in Fits'
    BY <1>0, <1>1, NewFit DEF PageOK
  <2>2. message' = message \o <<x, y>> /\ soon' = Append(soon, Save(message')) /\ messageId' = messageId + 3
    BY <1>7 DEF LaterSend, OnMessageSend
  <2>3. message' \in Seq(Fits')
    <3> HIDE DEF x, y
    <3> QED BY <1>1, <2>1, <2>2, SentFacts
  <2>4. later' \in Seq({"send", "edit"}) /\ modal' = modal /\ editing' = editing /\ stored' = stored
    BY <1>0, <1>7, HeadTailProperties DEF LaterSend, PageOK
  <2>5. soon' \in Seq(DueTimers')
    BY <1>2, <2>2, <2>3
  <2>6. messageId' \in Int
    BY <1>0, <2>2 DEF PageOK
  <2> QED BY <1>0, <1>1, <2>3, <2>4, <2>5, <2>6 DEF PageOK, CopiesOK
<1>8. ASSUME NEW k \in Requests, NEW kind \in {"stream", "fetch"}, LaterAnswer(k, kind) PROVE PageOK' /\ CopiesOK'
  <2> DEFINE y == Message(messageId, "assistant", "loading", k, {})
  <2>1. y \in Fits'
    BY <1>0, <1>1, NewFit DEF PageOK
  <2>2. message' = Append(message, y) /\ soon' = soon /\ messageId' = messageId + 1
    BY <1>8 DEF LaterAnswer
  <2>3. message' \in Seq(Fits')
    <3> HIDE DEF y
    <3> QED BY <1>1, <2>1, <2>2, AppendProperties
  <2>4. later' \in Seq({"send", "edit"}) /\ modal' = modal /\ editing' = editing /\ stored' = stored
    BY <1>0, <1>8, HeadTailProperties DEF LaterAnswer, PageOK
  <2>5. messageId' \in Int
    BY <1>0, <2>2 DEF PageOK
  <2> QED BY <1>0, <1>1, <2>2, <2>3, <2>4, <2>5 DEF PageOK, CopiesOK
<1>9. CASE StoreRefuses
  <2>1. soon # <<>> /\ soon' = Tail(soon) /\ UNCHANGED <<message, stored, modal>> /\ UNCHANGED pageVars
    BY <1>9 DEF StoreRefuses, pageVars
  <2> QED BY <1>1, <1>3, <2>1, HeadTailProperties DEF CopiesOK
<1> QED BY <1>5, <1>6, <1>7, <1>8, <1>9 DEF Timers

\* handleEditSave changes the text of messages and finds the edited one.
LEMMA EditSaveFacts ==
  ASSUME ChatOK, EditSave
  PROVE  \E updated \in Seq(Fits), at \in 1 .. Len(message) :
           /\ Len(updated) = Len(message)
           /\ \A i \in DOMAIN message : /\ updated[i].id = message[i].id /\ updated[i].of = message[i].of
                                        /\ updated[i].status = message[i].status
                                        /\ updated[i].text \in {message[i].text, {0}}
           /\ \/ /\ at < Len(message) /\ modal' = [kind |-> "edit", index |-> at, captured |-> updated]
                 /\ UNCHANGED <<message, soon>>
              \/ message' = updated /\ soon' = Append(soon, Save(updated)) /\ UNCHANGED modal
<1> DEFINE updated == [j \in DOMAIN message |->
                         IF message[j].id = editing.id THEN [message[j] EXCEPT !.text = {0}] ELSE message[j]]
           at == IndexOf(message, editing)
<1>0. message \in Seq(Fits) /\ DOMAIN message = 1 .. Len(message) /\ Len(message) \in Nat
  BY DEF ChatOK, CopiesOK
<1>1. ASSUME NEW x \in Fits PROVE [x EXCEPT !.text = {0}] \in Fits
  BY DEF Fits, Msgs
<1>2. ASSUME NEW j \in DOMAIN message
      PROVE  /\ updated[j] \in Fits /\ updated[j].id = message[j].id /\ updated[j].of = message[j].of
             /\ updated[j].status = message[j].status
             /\ updated[j].text \in {message[j].text, {0}}
  <2>1. message[j] \in Fits
    BY <1>0
  <2>2. CASE message[j].id = editing.id
    BY <1>1, <2>1, <2>2 DEF Fits, Msgs
  <2>3. CASE message[j].id # editing.id
    BY <2>1, <2>3
  <2> QED BY <2>2, <2>3
<1>3. updated \in [1 .. Len(message) -> Fits]
  BY <1>0, <1>2
<1>4. updated \in Seq(Fits) /\ Len(updated) = Len(message)
  <2> HIDE DEF updated
  <2> QED BY <1>0, <1>3, ListFacts
<1>5. \E i \in DOMAIN message : message[i].id = editing.id
  BY DEF EditSave, EditorShown
<1>6. at \in 1 .. Len(message)
  BY <1>0, <1>5, IndexOfPlace
<1>7. \/ /\ at < Len(message) /\ modal' = [kind |-> "edit", index |-> at, captured |-> updated]
         /\ UNCHANGED <<message, soon>>
      \/ message' = updated /\ soon' = Append(soon, Save(updated)) /\ UNCHANGED modal
  BY DEF EditSave
<1> HIDE DEF updated, at
<1> QED BY <1>2, <1>4, <1>6, <1>7

\* handleRoleToggle changes roles only.
LEMMA RoleToggleFacts ==
  ASSUME ChatOK, NEW i \in DOMAIN message, RoleToggle(i)
  PROVE  /\ message' \in Seq(Fits) /\ Len(message') = Len(message)
         /\ \A j \in DOMAIN message : message'[j].of = message[j].of /\ message'[j].status = message[j].status
                                       /\ message'[j].text = message[j].text
<1> DEFINE new == IF message[i].role = "assistant" THEN "system" ELSE "assistant"
<1>0. message \in Seq(Fits) /\ DOMAIN message = 1 .. Len(message) /\ Len(message) \in Nat
  BY DEF ChatOK, CopiesOK
<1>1. message' = [j \in DOMAIN message |->
                    IF message[j].id = message[i].id /\ message[j].role # "user"
                      THEN [message[j] EXCEPT !.role = new] ELSE message[j]]
  BY DEF RoleToggle
<1>2. ASSUME NEW x \in Fits
      PROVE  /\ [x EXCEPT !.role = new] \in Fits /\ [x EXCEPT !.role = new].of = x.of
             /\ [x EXCEPT !.role = new].status = x.status /\ [x EXCEPT !.role = new].text = x.text
  BY DEF Fits, Msgs
<1> HIDE DEF new
<1>3. ASSUME NEW j \in DOMAIN message
      PROVE  /\ message'[j] \in Fits /\ message'[j].of = message[j].of /\ message'[j].status = message[j].status
             /\ message'[j].text = message[j].text
  BY <1>0, <1>1, <1>2
<1>4. message' \in [1 .. Len(message) -> Fits]
  BY <1>0, <1>1, <1>3
<1> QED BY <1>0, <1>3, <1>4, ListFacts

\* An edit of the request body keeps the first messages, without status.
LEMMA CustomBodyFacts ==
  ASSUME ChatOK, NEW n, EditCustomBody(n)
  PROVE  /\ message' \in Seq(Fits) /\ n \in 0 .. Len(message) /\ Len(message') = n
         /\ \A j \in DOMAIN message' : /\ j \in DOMAIN message /\ message'[j].text = message[j].text
                                        /\ message'[j].status = "none"
<1>0. message \in Seq(Fits) /\ DOMAIN message = 1 .. Len(message) /\ Len(message) \in Nat
  BY DEF ChatOK, CopiesOK
<1>1. n \in 0 .. Len(message)
  BY Zenon DEF EditCustomBody
<1>2. n \in Nat /\ n <= Len(message)
  BY <1>0, <1>1
<1>3. message' = [j \in 1 .. n |-> [message[j] EXCEPT !.id = j, !.status = "none"]]
  BY Zenon DEF EditCustomBody
<1>4. ASSUME NEW x \in Fits, NEW j \in Int
      PROVE  /\ [x EXCEPT !.id = j, !.status = "none"] \in Fits
             /\ [x EXCEPT !.id = j, !.status = "none"].status = "none"
             /\ [x EXCEPT !.id = j, !.status = "none"].text = x.text
  BY DEF Fits, Msgs
<1>5. ASSUME NEW j \in 1 .. n
      PROVE  /\ j \in DOMAIN message /\ message'[j] \in Fits /\ message'[j].text = message[j].text
             /\ message'[j].status = "none"
  <2>1. j \in DOMAIN message /\ message[j] \in Fits /\ j \in Int
    BY <1>0, <1>2
  <2>2. message'[j] = [message[j] EXCEPT !.id = j, !.status = "none"]
    BY <1>3, Zenon
  <2>3. /\ [message[j] EXCEPT !.id = j, !.status = "none"] \in Fits
        /\ [message[j] EXCEPT !.id = j, !.status = "none"].status = "none"
        /\ [message[j] EXCEPT !.id = j, !.status = "none"].text = message[j].text
    BY <1>4, <2>1, Zenon
  <2> QED BY <2>1, <2>2, <2>3, Zenon
<1>6. message' \in [1 .. n -> Fits] /\ n \in Nat
  BY <1>2, <1>3, <1>5, Zenon
<1> QED BY <1>1, <1>5, <1>6, ListFacts

\* Regenerating keeps the messages before the question.
LEMMA RegenerateFacts ==
  ASSUME ChatOK, NEW i \in DOMAIN message, Regenerate(i)
  PROVE  \E n \in 0 .. Len(message) : /\ message' \in Seq(Fits) /\ DOMAIN message' = 1 .. n
                                      /\ \A j \in 1 .. n : message'[j] = message[j] /\ j \in DOMAIN message
<1>0. message \in Seq(Fits) /\ DOMAIN message = 1 .. Len(message) /\ Len(message) \in Nat
  BY DEF ChatOK, CopiesOK
<1>1. QuestionOf(i) - 1 \in 0 .. Len(message) /\ message' = SubSeq(message, 1, QuestionOf(i) - 1)
  BY <1>0, QuestionPlace DEF Regenerate
<1> QED BY <1>0, <1>1, CutFacts

\* What is loaded was stored or is built in; a last message that was being generated is completed, and saved.
LEMMA MountFacts ==
  ASSUME ChatOK, NEW reload \in BOOLEAN, NEW old \in BOOLEAN, Mount(reload, old)
  PROVE  \E loaded \in Seq(Fits) :
           /\ (loaded \in stored /\ stored' = stored) \/ (loaded = Default /\ stored' = {})
           /\ \/ message' = loaded /\ soon' = <<>> /\ ~LastGenerating(loaded)
              \/ /\ loaded # <<>> /\ \E y \in Fits : /\ message' = SetLast(loaded, y) /\ y.status = "complete"
                                                     /\ y.text = Last(loaded).text
                 /\ soon' = <<Save(message')>>
<1> DEFINE isOld == old /\ \E ms \in stored : Len(ms) = 2 /\ ms[1].id = 2 /\ ms[2].id = 3
           loaded == IF stored = {} \/ isOld THEN Default ELSE CHOOSE ms \in stored : TRUE
           y == [Last(loaded) EXCEPT !.status = "complete"]
<1>1. /\ message' = Repaired(loaded) /\ stored' = (IF isOld THEN {} ELSE stored)
      /\ soon' = IF message' # loaded THEN <<Save(message')>> ELSE <<>>
  BY DEF Mount
<1>2. (loaded \in stored /\ stored' = stored) \/ (loaded = Default /\ stored' = {})
  BY <1>1
<1>3. loaded \in Seq(Fits)
  BY <1>2, BuiltIn DEF ChatOK, CopiesOK
<1> HIDE DEF loaded
<1>4. CASE ~LastGenerating(loaded)
  BY <1>1, <1>2, <1>3, <1>4 DEF Repaired
<1>5. CASE LastGenerating(loaded)
  <2>1. loaded # <<>> /\ message' = SetLast(loaded, y) /\ Generating(Last(loaded))
    BY <1>1, <1>5 DEF Repaired, LastGenerating
  <2>2. y \in Fits /\ y \in Msgs /\ y.status = "complete" /\ y.text = Last(loaded).text
    BY <1>3, <2>1, LastFits DEF Fits, Msgs
  <2>3. Last(message') = y
    BY <1>3, <2>1, <2>2, SetLastTwice
  <2>4. message' # loaded
    BY <2>1, <2>2, <2>3 DEF Generating
  <2> QED BY <1>1, <1>2, <1>3, <2>1, <2>2, <2>4
<1> QED BY <1>4, <1>5

\* Dialogs and the user keep the types.
LEMMA TypesActs ==
  ASSUME ChatOK, NetOK', Dialog \/ User, \A k \in Requests : request[k] # "unused" => request'[k] # "unused"
  PROVE  PageOK' /\ CopiesOK'
<1>0. ChatOK /\ NetOK /\ PageOK /\ CopiesOK /\ message \in Seq(Fits)
  BY DEF ChatOK, CopiesOK
<1>1. /\ Fits \subseteq Fits' /\ message \in Seq(Fits') /\ soon \in Seq(DueTimers')
      /\ stored \subseteq Seq(Fits') /\ modal \in Modals' /\ Seq(Fits) \subseteq Seq(Fits')
  BY <1>0, CarriedOver, SeqMonotonic
<1>2. Default \in Seq(Fits') /\ Imported \in Seq(Fits') /\ <<>> \in Seq(Fits') /\ NoModal \in Modals'
  BY <1>1, BuiltIn, EmptySeq DEF NoModal, Modals
<1>25. ASSUME message' \in Seq(Fits') PROVE Append(soon, Save(message')) \in Seq(DueTimers')
  BY <1>1, <1>25, SaveFacts DEF DueTimers
<1>3. ASSUME message' \in Seq(Fits'), soon' \in {soon, Append(soon, Save(message'))}, UNCHANGED stored, UNCHANGED pageVars
      PROVE  PageOK' /\ CopiesOK'
  <2>1. soon' \in Seq(DueTimers')
    BY <1>1, <1>3, <1>25
  <2> QED BY <1>0, <1>1, <1>3, <2>1 DEF PageOK, CopiesOK, pageVars
<1>4. ASSUME message' \in Seq(Fits'), soon' \in {soon, Append(soon, Save(message'))}, UNCHANGED <<stored, messageId, editing>>,
             modal' = NoModal, later' \in Seq({"send", "edit"})
      PROVE  PageOK' /\ CopiesOK'
  <2>1. soon' \in Seq(DueTimers')
    BY <1>1, <1>4, <1>25
  <2>2. modal'.kind = "none"
    BY <1>4 DEF NoModal
  <2> QED BY <1>0, <1>1, <1>2, <1>4, <2>1, <2>2 DEF PageOK, CopiesOK
<1>5. later \in Seq({"send", "edit"}) /\ Append(later, "send") \in Seq({"send", "edit"})
      /\ Append(later, "edit") \in Seq({"send", "edit"})
  BY <1>0, AppendProperties DEF PageOK
<1>6. CASE DeleteOk
  <2> DEFINE target == modal.captured[modal.index]
             at == IndexOf(message, target)
             pair == target.role = "user" /\ at < Len(message) /\ message[at + 1].role = "assistant"
             gone == IF pair THEN {at, at + 1} ELSE {j \in DOMAIN message : message[j].id = target.id}
  <2>1. \/ UNCHANGED <<message, soon>>
        \/ message' = Without(message, gone) /\ soon' = Append(soon, Save(message'))
    BY <1>6 DEF DeleteOk
  <2> HIDE DEF gone
  <2>2. Without(message, gone) \in Seq(Fits')
    BY <1>1, WithoutFacts
  <2>3. modal' = NoModal /\ UNCHANGED <<later, stored, messageId, editing>>
    BY <1>6 DEF DeleteOk
  <2> QED BY <1>1, <1>4, <1>5, <2>1, <2>2, <2>3
<1>7. CASE EditRegenerate
  <2>1. /\ modal.kind = "edit" /\ modal.captured \in Seq(Fits') /\ modal.index \in 0 .. Len(modal.captured)
    BY <1>0, <1>1, <1>7 DEF EditRegenerate, Modals, PageOK
  <2>2. SubSeq(modal.captured, 1, modal.index) \in Seq(Fits')
    BY <2>1, CutFacts
  <2> QED BY <1>4, <1>5, <1>7, <2>2 DEF EditRegenerate
<1>8. CASE EditKeep \/ ImportOk \/ CancelModal
  <2>1. modal.captured \in Seq(Fits')
    BY <1>1 DEF Modals
  <2> QED BY <1>1, <1>4, <1>5, <1>8, <2>1 DEF EditKeep, ImportOk, CancelModal
<1>9. ASSUME NEW k \in Requests, NEW kind \in {"stream", "fetch"}, Send(k, kind) PROVE PageOK' /\ CopiesOK'
  <2> DEFINE x == Message(messageId + 2, "user", "none", k, {0})
             y == Message(messageId + 1, "assistant", "loading", k, {})
  <2>1. x \in Fits' /\ y \in Fits'
    BY <1>0, <1>1, NewFit DEF PageOK
  <2>2. message' = message \o <<x, y>> /\ soon' = Append(soon, Save(message')) /\ messageId' = messageId + 3
    BY <1>9 DEF Send, OnMessageSend
  <2>3. message' \in Seq(Fits')
    <3> HIDE DEF x, y
    <3> QED BY <1>1, <2>1, <2>2, SentFacts
  <2>4. soon' \in Seq(DueTimers')
    BY <1>1, <2>2, <2>3, SaveFacts DEF DueTimers
  <2>5. messageId' \in Int /\ UNCHANGED <<later, modal, editing, stored>>
    BY <1>0, <1>9, <2>2 DEF PageOK, Send
  <2> QED BY <1>0, <1>1, <2>3, <2>4, <2>5 DEF PageOK, CopiesOK
<1>10. CASE Stop
  <2>1. Reported({}) /\ soon' = Append(soon, Save(message'))
    BY <1>0, <1>10, StopTouches
  <2>2. message' \in Seq(Fits')
    BY <1>0, <1>1, <2>1, TouchedFits DEF Reported
  <2> QED BY <1>3, <2>1, <2>2 DEF Reported, pageVars
<1>11. CASE Clear
  <2>1. message' = <<>> /\ soon' = Append(soon, Save(message')) /\ UNCHANGED stored /\ UNCHANGED pageVars
    BY <1>11 DEF Clear, pageVars
  <2> QED BY <1>2, <1>3, <2>1
<1>12. CASE ImportFile
  <2>1. modal' = [kind |-> "import", index |-> 0, captured |-> Imported] /\ stored' \in {{Imported}, stored}
        /\ UNCHANGED <<message, soon, messageId, later, editing>>
    BY <1>12 DEF ImportFile
  <2>2. modal' \in Modals' /\ modal'.kind = "import" /\ modal'.captured = Imported
    BY <1>2, <2>1 DEF Modals
  <2> QED BY <1>0, <1>1, <1>2, <2>1, <2>2 DEF PageOK, CopiesOK
<1>13. CASE ChangeLanguage
  <2>1. message' = Default /\ soon' = soon /\ UNCHANGED stored /\ UNCHANGED pageVars
    BY <1>13 DEF ChangeLanguage, pageVars
  <2> QED BY <1>2, <1>3, <2>1
<1>14. CASE CancelEdit
  <2>1. editing' \in Msgs /\ UNCHANGED <<message, soon, stored, messageId, later, modal>>
    BY <1>14, BuiltIn DEF CancelEdit
  <2> QED BY <1>0, <1>1, <2>1 DEF PageOK, CopiesOK
<1>15. CASE EditSave
  <2>1. PICK updated \in Seq(Fits), at \in 1 .. Len(message) :
          /\ Len(updated) = Len(message)
          /\ \/ /\ at < Len(message) /\ modal' = [kind |-> "edit", index |-> at, captured |-> updated]
                /\ UNCHANGED <<message, soon>>
             \/ message' = updated /\ soon' = Append(soon, Save(updated)) /\ UNCHANGED modal
    BY <1>0, <1>15, EditSaveFacts
  <2>2. editing' \in Msgs /\ UNCHANGED <<stored, messageId, later>> /\ updated \in Seq(Fits')
    BY <1>1, <1>15, BuiltIn DEF EditSave
  <2>3. CASE /\ at < Len(message) /\ modal' = [kind |-> "edit", index |-> at, captured |-> updated]
             /\ UNCHANGED <<message, soon>>
    <3>1. at \in Nat /\ 1 <= at /\ at < Len(updated)
      BY <1>0, <2>1, <2>3
    <3>2. modal' \in Modals' /\ modal'.kind = "edit" /\ modal'.index = at /\ modal'.captured = updated
      BY <2>2, <2>3, <3>1 DEF Modals
    <3> QED BY <1>0, <1>1, <2>2, <2>3, <3>1, <3>2 DEF PageOK, CopiesOK
  <2>4. CASE message' = updated /\ soon' = Append(soon, Save(updated)) /\ UNCHANGED modal
    <3>1. soon' \in Seq(DueTimers')
      BY <1>1, <2>2, <2>4, SaveFacts DEF DueTimers
    <3> QED BY <1>0, <1>1, <2>2, <2>4, <3>1 DEF PageOK, CopiesOK
  <2> QED BY <2>1, <2>3, <2>4
<1>16. ASSUME NEW i \in DOMAIN message, Regenerate(i) PROVE PageOK' /\ CopiesOK'
  <2>1. message' \in Seq(Fits')
    BY <1>0, <1>1, <1>16, RegenerateFacts
  <2>2. later' \in Seq({"send", "edit"}) /\ UNCHANGED <<soon, stored, messageId, modal, editing>>
    BY <1>5, <1>16 DEF Regenerate
  <2> QED BY <1>0, <1>1, <2>1, <2>2 DEF PageOK, CopiesOK
<1>17. ASSUME NEW i \in DOMAIN message, AskDelete(i) PROVE PageOK' /\ CopiesOK'
  <2>1. modal' = [kind |-> "delete", index |-> i, captured |-> message] /\ i \in Nat
        /\ UNCHANGED <<message, soon, stored, messageId, later, editing>>
    BY <1>0, <1>17 DEF AskDelete
  <2>2. modal' \in Modals' /\ modal'.kind = "delete"
    BY <1>1, <2>1 DEF Modals
  <2> QED BY <1>0, <1>1, <2>1, <2>2 DEF PageOK, CopiesOK
<1>18. ASSUME NEW i \in DOMAIN message, RoleToggle(i) PROVE PageOK' /\ CopiesOK'
  <2>1. message' \in Seq(Fits')
    BY <1>0, <1>1, <1>18, RoleToggleFacts
  <2>2. soon' = Append(soon, Save(message')) /\ UNCHANGED stored /\ UNCHANGED pageVars
    BY <1>18 DEF RoleToggle, pageVars
  <2> QED BY <1>3, <2>1, <2>2
<1>19. ASSUME NEW i \in DOMAIN message, StartEdit(i) PROVE PageOK' /\ CopiesOK'
  <2>1. editing' \in Msgs /\ UNCHANGED <<message, soon, stored, messageId, later, modal>>
    BY <1>0, <1>19 DEF StartEdit, Fits
  <2> QED BY <1>0, <1>1, <2>1 DEF PageOK, CopiesOK
<1>20. ASSUME NEW b \in BOOLEAN, ResetConfig(b) PROVE PageOK' /\ CopiesOK'
  <2>1. message' \in {message, <<>>} /\ soon' \in {soon, Append(soon, Defaults)} /\ stored' = {} /\ UNCHANGED pageVars
    BY <1>20 DEF ResetConfig, pageVars
  <2>2. Defaults \in DueTimers'
    BY <1>2 DEF Defaults, DueTimers
  <2>3. soon' \in Seq(DueTimers')
    BY <1>1, <2>1, <2>2, AppendProperties
  <2> QED BY <1>0, <1>1, <1>2, <2>1, <2>3 DEF PageOK, CopiesOK, pageVars
<1>21. ASSUME NEW reload \in BOOLEAN, NEW b \in BOOLEAN, Mount(reload, b) PROVE PageOK' /\ CopiesOK'
  <2>1. PICK loaded \in Seq(Fits) :
           /\ (loaded \in stored /\ stored' = stored) \/ (loaded = Default /\ stored' = {})
           /\ \/ message' = loaded /\ soon' = <<>> /\ ~LastGenerating(loaded)
              \/ /\ loaded # <<>> /\ \E y \in Fits : /\ message' = SetLast(loaded, y) /\ y.status = "complete"
                                                     /\ y.text = Last(loaded).text
                 /\ soon' = <<Save(message')>>
    BY <1>0, <1>21, MountFacts
  <2>2. message' \in Seq(Fits')
    BY <1>1, <2>1, SetLastFacts
  <2>3. Save(message') \in DueTimers'
    BY <2>2 DEF Save, DueTimers
  <2>4. soon' \in Seq(DueTimers')
    <3>1. ASSUME NEW S, NEW x \in S PROVE <<x>> \in Seq(S)
      OBVIOUS
    <3> QED BY <2>1, <2>3, <3>1, EmptySeq
  <2>5. /\ messageId' \in Int /\ later' \in Seq({"send", "edit"}) /\ editing' \in Msgs
        /\ modal' = NoModal /\ modal'.kind = "none"
    BY <1>0, <1>21, BuiltIn, EmptySeq DEF Mount, PageOK, FirstId, NoModal
  <2> QED BY <1>1, <1>2, <2>1, <2>2, <2>4, <2>5 DEF PageOK, CopiesOK
<1>22. ASSUME NEW n \in 0 .. MaxLength, EditCustomBody(n) PROVE PageOK' /\ CopiesOK'
  <2>1. message' \in Seq(Fits')
    BY <1>0, <1>1, <1>22, CustomBodyFacts
  <2>2. soon' = soon /\ UNCHANGED stored /\ UNCHANGED pageVars
    BY <1>22, Zenon DEF EditCustomBody, pageVars
  <2> QED BY <1>3, <2>1, <2>2
<1>23. CASE Dialog
  BY <1>6, <1>7, <1>8, <1>23 DEF Dialog
<1>24. CASE User
  BY <1>9, <1>10, <1>11, <1>12, <1>13, <1>14, <1>15, <1>16, <1>17, <1>18, <1>19, <1>20, <1>21, <1>22, <1>24 DEF User
<1> QED BY <1>23, <1>24

\* Every step keeps the types.
LEMMA TypesStep ==
  ASSUME ChatOK, [ChatNext]_chatVars
  PROVE  ChatOK'
<1>1. NetOK' /\ \A k \in Requests : request[k] # "unused" => request'[k] # "unused"
  BY NetStep DEF ChatOK
<1>2. CASE ChatNext
  BY <1>1, <1>2, TypesEvents, TypesActs DEF ChatNext, ChatOK
<1>3. CASE UNCHANGED chatVars
  <2>1. Fits' = Fits
    BY <1>3 DEF chatVars, net, Fits
  <2> QED BY <1>1, <1>3, <2>1 DEF ChatOK, PageOK, CopiesOK, chatVars, Modals, DueTimers
<1> QED BY <1>2, <1>3

-----------------------------------------------------------------------------
(* Streamed answers are stored.                                            *)

\* x is a whole answer of its request, one of the streams in S.
Answered(x, S) == x.of \in S /\ x.status = "complete" /\ x.text = {x.of}

\* Every whole streamed answer of ms is in some conversation of C as well.
Covered(ms, S, C) ==
  \A i \in DOMAIN ms : Answered(ms[i], S) =>
    \E c \in C : \E j \in DOMAIN c : c[j].of = ms[i].of /\ c[j].text = {ms[i].of} /\ c[j].status = "complete"

\* The streamed answers that are shown are in what the last timer is going to store and, when no timer
\* is going to store anything, in what is stored, unless that was wiped.
CoverInv ==
  /\ \A n \in DOMAIN soon :
       soon[n].kind = "save" /\ (\A j \in DOMAIN soon : j > n => soon[j].kind # "save")
         => Covered(message, streamed, {soon[n].messages})
  /\ (\A n \in DOMAIN soon : soon[n].kind # "save") /\ ~wiped => Covered(message, streamed, stored)

\* It holds when the conversation is saved last.
LEMMA SavedCovers ==
  ASSUME ChatOK', soon' # <<>>, soon'[Len(soon')] = Save(message')
  PROVE  CoverInv'
<1> DEFINE q == soon'
           ms == message'
           S == streamed'
<1>1. q \in Seq(DueTimers') /\ q # <<>> /\ q[Len(q)] = Save(ms)
  BY DEF ChatOK, CopiesOK
<1>2. Len(q) \in DOMAIN q /\ \A n \in DOMAIN q : n # Len(q) => Len(q) > n
  BY <1>1, EmptySeq
<1>3. Save(ms).kind = "save" /\ Save(ms).messages = ms
  BY DEF Save
<1>4. Covered(ms, S, {ms})
  BY DEF Covered, Answered
<1> HIDE DEF q, ms, S
<1>5. \A n \in DOMAIN q : q[n].kind = "save" /\ (\A j \in DOMAIN q : j > n => q[j].kind # "save")
        => Covered(ms, S, {q[n].messages})
  BY <1>1, <1>2, <1>3, <1>4
<1>6. ~(\A n \in DOMAIN q : q[n].kind # "save")
  BY <1>1, <1>2, <1>3
<1> QED BY <1>5, <1>6 DEF CoverInv, q, ms, S

\* It is kept when the timers and the store are left alone and no answer becomes whole.
LEMMA KeptCovers ==
  ASSUME CoverInv, UNCHANGED <<soon, stored, wiped>>,
         \A i \in DOMAIN message' : Answered(message'[i], streamed') =>
            \E j \in DOMAIN message : Answered(message[j], streamed) /\ message[j].of = message'[i].of
  PROVE  CoverInv'
<1>1. ASSUME NEW C, Covered(message, streamed, C) PROVE Covered(message', streamed', C)
  BY <1>1 DEF Covered
<1>2. CoverInv' =
        (/\ \A n \in DOMAIN soon :
              soon[n].kind = "save" /\ (\A j \in DOMAIN soon : j > n => soon[j].kind # "save")
                => Covered(message', streamed', {soon[n].messages})
         /\ (\A n \in DOMAIN soon : soon[n].kind # "save") /\ ~wiped => Covered(message', streamed', stored))
  BY DEF CoverInv
<1> QED BY <1>1, <1>2, Zenon DEF CoverInv

\* It holds when nothing is going to be stored and what is stored was wiped or has what is shown.
LEMMA IdleCovers ==
  ASSUME \A n \in DOMAIN soon' : soon'[n].kind # "save", ~wiped' => Covered(message', streamed', stored')
  PROVE  CoverInv'
BY DEF CoverInv

\* A save that fails leaves what the later timers are going to store, and nothing else to cover.
LEMMA FailedCovers ==
  ASSUME ChatOK, CoverInv, StoreRefuses
  PROVE  CoverInv'
<1>1. soon \in Seq(DueTimers) /\ soon # <<>> /\ soon' = Tail(soon) /\ UNCHANGED <<message, streamed>> /\ wiped'
  BY DEF ChatOK, CopiesOK, StoreRefuses, net
<1>2. Len(soon) \in Nat /\ DOMAIN soon = 1 .. Len(soon) /\ DOMAIN soon' = 1 .. Len(soon) - 1
      /\ \A i \in DOMAIN soon' : soon'[i] = soon[i + 1]
  BY <1>1, HeadTailProperties, EmptySeq
<1>3. ASSUME NEW n \in DOMAIN soon', soon'[n].kind = "save", \A j \in DOMAIN soon' : j > n => soon'[j].kind # "save"
      PROVE  Covered(message', streamed', {soon'[n].messages})
  <2>1. n + 1 \in DOMAIN soon /\ soon'[n] = soon[n + 1]
    BY <1>2
  <2>2. ASSUME NEW j \in DOMAIN soon, j > n + 1 PROVE soon[j].kind # "save"
    <3>1. j - 1 \in DOMAIN soon' /\ j - 1 > n /\ (j - 1) + 1 = j
      BY <1>2, <2>2
    <3>2. soon'[j - 1] = soon[j]
      BY <1>2, <3>1
    <3> QED BY <1>3, <3>1, <3>2
  <2> QED BY <1>1, <1>3, <2>1, <2>2 DEF CoverInv
<1> QED BY <1>1, <1>3 DEF CoverInv

\* A timer that stores leaves what the later ones are going to store.
LEMMA TimerCovers ==
  ASSUME ChatOK, CoverInv, SoonTimer
  PROVE  CoverInv'
<1>1. soon \in Seq(DueTimers) /\ soon # <<>> /\ soon' = Tail(soon) /\ streamed' = streamed
  BY DEF ChatOK, CopiesOK, SoonTimer, net
<1>2. /\ Tail(soon) \in Seq(DueTimers) /\ Len(Tail(soon)) = Len(soon) - 1
      /\ \A i \in 1 .. Len(Tail(soon)) : Tail(soon)[i] = soon[i + 1]
      /\ Len(soon) \in Nat /\ Len(soon) >= 1 /\ Head(soon) = soon[1]
  BY <1>1, HeadTailProperties, EmptySeq
<1>3. DOMAIN soon = 1 .. Len(soon) /\ DOMAIN soon' = 1 .. Len(soon) - 1 /\ \A i \in DOMAIN soon' : soon'[i] = soon[i + 1]
  BY <1>1, <1>2
<1>4. CASE Head(soon).kind = "save"
  <2>1. stored' = {soon[1].messages} /\ message' = message /\ soon[1].kind = "save"
    BY <1>2, <1>4 DEF SoonTimer
  <2>2. ASSUME NEW n \in DOMAIN soon', soon'[n].kind = "save", \A j \in DOMAIN soon' : j > n => soon'[j].kind # "save"
        PROVE  Covered(message', streamed', {soon'[n].messages})
    <3>1. n + 1 \in DOMAIN soon /\ soon'[n] = soon[n + 1]
      BY <1>2, <1>3
    <3>2. ASSUME NEW j \in DOMAIN soon, j > n + 1 PROVE soon[j].kind # "save"
      <4>1. j - 1 \in DOMAIN soon' /\ j - 1 > n /\ (j - 1) + 1 = j
        BY <1>2, <1>3, <3>2
      <4>2. soon'[j - 1] = soon[j]
        BY <1>3, <4>1
      <4> QED BY <2>2, <4>1, <4>2
    <3> QED BY <1>1, <2>1, <2>2, <3>1, <3>2 DEF CoverInv
  <2>3. ASSUME \A n \in DOMAIN soon' : soon'[n].kind # "save" PROVE Covered(message', streamed', stored')
    <3>1. 1 \in DOMAIN soon
      BY <1>2, <1>3
    <3>2. ASSUME NEW j \in DOMAIN soon, j > 1 PROVE soon[j].kind # "save"
      <4>1. j - 1 \in DOMAIN soon' /\ (j - 1) + 1 = j
        BY <1>2, <1>3, <3>2
      <4>2. soon'[j - 1] = soon[j]
        BY <1>3, <4>1
      <4> QED BY <2>3, <4>1, <4>2
    <3> QED BY <1>1, <2>1, <3>1, <3>2 DEF CoverInv
  <2> QED BY <2>2, <2>3 DEF CoverInv
<1>5. CASE Head(soon).kind # "save"
  <2>1. message' = Default
    BY <1>5 DEF SoonTimer
  <2>2. \A i \in DOMAIN message' : message'[i].of = 0
    BY <2>1, BuiltIn
  <2>3. 0 \notin streamed'
    BY <1>1 DEF ChatOK, NetOK, Requests
  <2>4. \A C : Covered(message', streamed', C)
    BY <2>2, <2>3 DEF Covered, Answered
  <2> QED BY <2>4 DEF CoverInv
<1> QED BY <1>4, <1>5

\* What a touched conversation has, place by place.
LEMMA TouchedPlaces ==
  ASSUME ChatOK, NEW K, Touched(message, message', K), message' # message
  PROVE  /\ message # <<>> /\ DOMAIN message' = DOMAIN message /\ Len(message') = Len(message)
         /\ \A i \in DOMAIN message : i # Len(message) => message'[i] = message[i]
         /\ message'[Len(message)] = Last(message') /\ Len(message) \in DOMAIN message
         /\ Becomes(message[Len(message)], message'[Len(message)], K)
<1>1. PICK y \in Msgs : message # <<>> /\ message' = SetLast(message, y) /\ Becomes(Last(message), y, K)
  BY DEF Touched
<1>2. message \in Seq(Fits) /\ message \in Seq(Msgs)
  BY SeqMonotonic DEF ChatOK, CopiesOK, Fits
<1>3. /\ Len(message') = Len(message) /\ DOMAIN message' = DOMAIN message
      /\ \A i \in DOMAIN message : message'[i] = IF i = Len(message) THEN y ELSE message[i]
  BY <1>1, <1>2, SetLastFacts
<1>4. Len(message) \in DOMAIN message /\ Last(message) = message[Len(message)] /\ Last(message') = y
  BY <1>1, <1>2, LastFits, SetLastTwice
<1> QED BY <1>1, <1>3, <1>4

\* Reports keep streamed answers covered: what they do not save is not a whole streamed answer.
LEMMA ReportedCovers ==
  ASSUME ChatOK, ChatOK', CoverInv, NEW K, Reported(K)
  PROVE  CoverInv'
<1>1. CASE soon' = Append(soon, Save(message'))
  <2>1. soon \in Seq(DueTimers)
    BY DEF ChatOK, CopiesOK
  <2>2. Append(soon, Save(message')) # <<>>
        /\ Append(soon, Save(message'))[Len(Append(soon, Save(message')))] = Save(message')
    BY <2>1
  <2> QED BY <1>1, <2>2, SavedCovers
<1>2. CASE soon' # Append(soon, Save(message'))
  <2>1. /\ soon' = soon /\ streamed' = streamed /\ UNCHANGED <<soon, stored, wiped>>
        /\ \/ message' = message \/ Last(message').status \in {"incomplete", "error"}
           \/ \E k \in K : k \notin streamed /\ Last(message').text = {k}
    BY <1>2 DEF Reported
  <2>2. CASE message' = message
    BY <2>1, <2>2, KeptCovers
  <2>3. CASE message' # message
    <3>1. /\ DOMAIN message' = DOMAIN message
          /\ \A i \in DOMAIN message : i # Len(message) => message'[i] = message[i]
          /\ message'[Len(message)] = Last(message')
      BY <2>3, TouchedPlaces DEF Reported
    <3>2. ~Answered(Last(message'), streamed')
      BY <2>1, <2>3 DEF Answered
    <3>3. \A i \in DOMAIN message' : Answered(message'[i], streamed') =>
            \E j \in DOMAIN message : Answered(message[j], streamed) /\ message[j].of = message'[i].of
      BY <2>1, <3>1, <3>2
    <3> QED BY <2>1, <3>3, KeptCovers
  <2> QED BY <2>2, <2>3
<1> QED BY <1>1, <1>2

\* Every step keeps streamed answers covered.
LEMMA CoverStep ==
  ASSUME ChatOK, ChatOK', CoverInv, ChatNext
  PROVE  CoverInv'
<1>0. /\ message \in Seq(Fits) /\ soon \in Seq(DueTimers) /\ 0 \notin streamed /\ 0 \notin streamed'
      /\ DOMAIN message = 1 .. Len(message) /\ Len(message) \in Nat
  BY DEF ChatOK, CopiesOK, NetOK, Requests
<1>1. ASSUME soon' = Append(soon, Save(message')) PROVE CoverInv'
  <2>1. Append(soon, Save(message')) # <<>>
        /\ Append(soon, Save(message'))[Len(Append(soon, Save(message')))] = Save(message')
    BY <1>0
  <2> QED BY <1>1, <2>1, SavedCovers
<1>2. ASSUME UNCHANGED <<message, streamed, soon, stored, wiped>> PROVE CoverInv'
  BY <1>2, KeptCovers
<1>3. ASSUME UNCHANGED <<soon, stored, wiped>>, \A i \in DOMAIN message' : message'[i].of = 0 \/ message'[i].status = "none"
      PROVE  CoverInv'
  BY <1>0, <1>3, KeptCovers DEF Answered
<1>4. CASE Reports
  BY <1>4, ReportsTouch, ReportedCovers
<1>5. CASE SoonTimer
  BY <1>5, TimerCovers
<1>6. ASSUME NEW k \in Requests, NEW kind \in {"stream", "fetch"}, LaterAnswer(k, kind) PROVE CoverInv'
  <2> DEFINE y == Message(messageId, "assistant", "loading", k, {})
  <2>1. message' = Append(message, y) /\ UNCHANGED <<soon, stored, wiped>> /\ streamed' \subseteq streamed \cup {k}
        /\ request[k] = "unused"
    BY <1>6 DEF LaterAnswer, StartRequest
  <2>2. y.status = "loading" /\ y \in Fits
    BY NewFit DEF Message, ChatOK, PageOK
  <2> HIDE DEF y
  <2>3. ASSUME NEW i \in DOMAIN message', Answered(message'[i], streamed')
        PROVE  \E j \in DOMAIN message : Answered(message[j], streamed) /\ message[j].of = message'[i].of
    <3>1. i \in DOMAIN message /\ message'[i] = message[i]
      BY <1>0, <2>1, <2>2, <2>3 DEF Answered
    <3>2. message[i] \in Fits /\ k # 0
      BY <1>0, <3>1 DEF Requests
    <3>3. k \notin message[i].text
      BY <2>1, <3>2 DEF Fits
    <3>4. Answered(message[i], streamed)
      BY <2>1, <2>3, <3>1, <3>3 DEF Answered
    <3> QED BY <3>1, <3>4
  <2> QED BY <2>1, <2>3, KeptCovers
<1>7. CASE DeleteOk
  BY <1>1, <1>2, <1>7 DEF DeleteOk, net
<1>8. CASE ImportOk
  <2>1. message' = Imported /\ UNCHANGED <<soon, stored, wiped>>
    BY <1>8 DEF ImportOk, ChatOK, PageOK
  <2> QED BY <1>3, <2>1, BuiltIn
<1>9. CASE Stop
  BY <1>9, StopTouches, ReportedCovers
<1>10. CASE ImportFile
  <2>1. soon' = <<>> /\ wiped'
    BY <1>10 DEF ImportFile, UserActs
  <2> QED BY <2>1, IdleCovers
<1>11. CASE ChangeLanguage
  <2>1. message' = Default /\ UNCHANGED <<soon, stored, wiped>>
    BY <1>11 DEF ChangeLanguage
  <2> QED BY <1>3, <2>1, BuiltIn
<1>12. CASE EditSave
  BY <1>1, <1>2, <1>12 DEF EditSave, net
<1>13. ASSUME NEW i \in DOMAIN message, Regenerate(i) PROVE CoverInv'
  <2>1. UNCHANGED <<soon, stored, wiped, streamed>>
    BY <1>13 DEF Regenerate, net
  <2>2. \A j \in DOMAIN message' : j \in DOMAIN message /\ message'[j] = message[j]
    BY <1>13, RegenerateFacts
  <2> QED BY <2>1, <2>2, KeptCovers
<1>14. ASSUME NEW b \in BOOLEAN, ResetConfig(b) PROVE CoverInv'
  <2>1. (soon' = <<>> \/ soon' = <<Defaults>>) /\ wiped'
    BY <1>14 DEF ResetConfig, UserActs
  <2>2. \A n \in DOMAIN soon' : soon'[n].kind # "save"
    BY <2>1 DEF Defaults
  <2> QED BY <2>1, <2>2, IdleCovers
<1>15. ASSUME NEW reload \in BOOLEAN, NEW b \in BOOLEAN, Mount(reload, b) PROVE CoverInv'
  <2>1. PICK loaded \in Seq(Fits) :
           /\ (loaded \in stored /\ stored' = stored) \/ (loaded = Default /\ stored' = {})
           /\ (message' = loaded /\ soon' = <<>>) \/ soon' = <<Save(message')>>
    BY <1>15, MountFacts
  <2>2. CASE soon' = <<Save(message')>>
    BY <2>2, SavedCovers
  <2>3. CASE message' = loaded /\ soon' = <<>>
    <3>1. Covered(message', streamed', stored')
      <4>1. CASE loaded \in stored /\ stored' = stored
        BY <2>3, <4>1 DEF Covered, Answered
      <4>2. CASE loaded = Default
        <5>1. \A i \in DOMAIN Default : Default[i].of = 0
          BY BuiltIn
        <5> QED BY <1>0, <2>3, <4>2, <5>1 DEF Covered, Answered
      <4> QED BY <2>1, <4>1, <4>2
    <3> QED BY <2>3, <3>1, IdleCovers
  <2> QED BY <2>1, <2>2, <2>3
<1>16. ASSUME NEW n \in 0 .. MaxLength, EditCustomBody(n) PROVE CoverInv'
  <2>1. UNCHANGED <<soon, stored, wiped>>
    BY <1>16, Zenon DEF EditCustomBody
  <2> QED BY <1>3, <1>16, <2>1, CustomBodyFacts
<1>17. CASE Timers
  BY <1>1, <1>5, <1>6, <1>17 DEF Timers, LaterSend, OnMessageSend
<1>18. CASE Dialog
  BY <1>1, <1>2, <1>7, <1>8, <1>18 DEF Dialog, EditRegenerate, EditKeep, CancelModal, net
<1>19. CASE User
  <2>1. ASSUME NEW k \in Requests, NEW kind \in {"stream", "fetch"}, Send(k, kind) PROVE CoverInv'
    BY <1>1, <2>1 DEF Send, OnMessageSend
  <2>2. CASE Clear
    BY <1>1, <2>2 DEF Clear
  <2>3. CASE CancelEdit
    BY <1>2, <2>3 DEF CancelEdit, net
  <2>4. ASSUME NEW i \in DOMAIN message, AskDelete(i) \/ RoleToggle(i) \/ StartEdit(i) PROVE CoverInv'
    BY <1>1, <1>2, <2>4 DEF AskDelete, RoleToggle, StartEdit, net
  <2> QED BY <1>9, <1>10, <1>11, <1>12, <1>13, <1>14, <1>15, <1>16, <1>19, <2>1, <2>2, <2>3, <2>4 DEF User
<1> QED BY <1>4, <1>17, <1>18, <1>19, FailedCovers DEF ChatNext

\* ChatOK, the types, and CoverInv hold in every reachable state, whenever the user acts.
THEOREM StreamedAnswersCovered == ChatSpec => [](ChatOK /\ CoverInv)
<1>1. ASSUME ChatInit PROVE ChatOK /\ CoverInv
  <2>1. ChatOK
    BY <1>1, TypesInit
  <2>2. message = Default /\ soon = <<>> /\ 0 \notin streamed
    BY <1>1 DEF ChatInit
  <2>3. \A i \in DOMAIN message : message[i].of = 0
    BY <2>2, BuiltIn
  <2> QED BY <2>1, <2>2, <2>3 DEF CoverInv, Covered, Answered
<1>2. ASSUME ChatOK /\ CoverInv, [ChatNext]_chatVars PROVE (ChatOK /\ CoverInv)'
  <2>1. ChatOK'
    BY <1>2, TypesStep
  <2>2. CASE ChatNext
    BY <1>2, <2>1, <2>2, CoverStep
  <2>3. CASE UNCHANGED chatVars
    BY <1>2, <2>1, <2>3, KeptCovers DEF chatVars, net
  <2> QED BY <1>2, <2>1, <2>2, <2>3
<1> QED BY <1>1, <1>2, PTL DEF ChatSpec

\* A streamed answer that is shown as complete is in localStorage once the timers have run, unless an import or
\* a reset of the configuration wiped it: no interleaving of reports, timers, dialogs and the user, a quick one
\* included, leaves an answer of handleSSE that completeMessage or onStopGenerator ended unsaved.
THEOREM StreamedAnswersAreStored == ChatSpec => []StreamedAnswerStored
<1>1. ASSUME CoverInv PROVE StreamedAnswerStored
  <2> SUFFICES ASSUME soon = <<>>, ~wiped, NEW i \in DOMAIN message, message[i].of \in streamed,
                      message[i].status = "complete", message[i].text = {message[i].of}
               PROVE  \E ms \in stored : \E j \in DOMAIN ms :
                        /\ ms[j].of = message[i].of /\ ms[j].text = {message[i].of} /\ ms[j].status = "complete"
    BY DEF StreamedAnswerStored
  <2>1. Covered(message, streamed, stored)
    BY <1>1 DEF CoverInv
  <2> QED BY <2>1 DEF Covered, Answered
<1> QED BY <1>1, StreamedAnswersCovered, PTL

-----------------------------------------------------------------------------
(* Only the last message is being generated.                               *)

Quiet(ms) == \A i \in DOMAIN ms : ~Generating(ms[i])

\* While a timer of 100 ms runs, nothing is being generated and no dialog is open.
Waits == later # <<>> => Quiet(message) /\ modal = NoModal /\ Len(later) = 1

\* A message is only deleted while nothing is being generated.
Asks == (modal.kind = "delete" => Quiet(message)) /\ OnlyLast(modal.captured)

CalmInv == Waits /\ Asks /\ OnlyLastGenerates

\* What is saved is what is shown.
LEMMA SavedOnlyLast ==
  ASSUME ChatOK, OnlyLastGenerates, OnlyLast(message'), stored' = stored,
         soon' = soon \/ soon' = Append(soon, Save(message'))
  PROVE  OnlyLastGenerates'
<1>1. soon \in Seq(DueTimers) /\ DOMAIN soon = 1 .. Len(soon) /\ Len(soon) \in Nat
  BY DEF ChatOK, CopiesOK
<1>2. \A i \in DOMAIN soon : OnlyLast(soon[i].messages)
  BY DEF OnlyLastGenerates
<1>3. ASSUME NEW i \in DOMAIN soon' PROVE OnlyLast(soon'[i].messages)
  <2>1. CASE soon' = soon
    BY <1>2, <1>3, <2>1
  <2>2. CASE soon' = Append(soon, Save(message'))
    <3>1. soon'[i] = Save(message') \/ (i \in DOMAIN soon /\ soon'[i] = soon[i])
      BY <1>1, <1>3, <2>2
    <3>2. Save(message').messages = message'
      BY DEF Save
    <3> QED BY <1>2, <3>1, <3>2
  <2> QED BY <2>1, <2>2
<1>4. \A ms \in stored' : OnlyLast(ms)
  BY DEF OnlyLastGenerates
<1> QED BY <1>3, <1>4 DEF OnlyLastGenerates

\* Reports keep the last message the only one being generated, and a quiet conversation quiet.
LEMMA TouchedOnlyLast ==
  ASSUME ChatOK, NEW K, Touched(message, message', K)
  PROVE  (OnlyLast(message) => OnlyLast(message')) /\ (Quiet(message) => Quiet(message'))
<1>1. CASE message' = message
  BY <1>1
<1>2. CASE message' # message
  <2>1. /\ DOMAIN message' = DOMAIN message /\ Len(message') = Len(message) /\ Len(message) \in DOMAIN message
        /\ \A i \in DOMAIN message : i # Len(message) => message'[i] = message[i]
        /\ Generating(message'[Len(message)]) => Generating(message[Len(message)])
    BY <1>2, TouchedPlaces DEF Becomes
  <2> QED BY <2>1 DEF OnlyLast, Quiet
<1> QED BY <1>1, <1>2

\* A question and its answer are added to a quiet conversation.
LEMMA SentOnlyLast ==
  ASSUME ChatOK, Quiet(message), NEW k \in Requests, NEW kind, OnMessageSend(k, kind)
  PROVE  OnlyLast(message')
<1> DEFINE x == Message(messageId + 2, "user", "none", k, {0})
           y == Message(messageId + 1, "assistant", "loading", k, {})
<1>1. message \in Seq(Fits) /\ x \in Fits /\ y \in Fits
  BY NewFit DEF ChatOK, CopiesOK, PageOK
<1>2. message' = message \o <<x, y>>
  BY DEF OnMessageSend
<1>3. ~Generating(x)
  BY DEF Message, Generating
<1> HIDE DEF x, y
<1>4. /\ message' \in Seq(Fits) /\ Len(message') = Len(message) + 2 /\ Len(message) \in Nat
      /\ \A i \in 1 .. Len(message) : message'[i] = message[i] /\ i \in DOMAIN message
      /\ message'[Len(message) + 1] = x
  BY <1>1, <1>2, SentFacts
<1>5. ASSUME NEW i \in DOMAIN message', i # Len(message') PROVE ~Generating(message'[i])
  <2>1. i \in 1 .. Len(message) \/ i = Len(message) + 1
    BY <1>4, <1>5
  <2> QED BY <1>3, <1>4, <2>1 DEF Quiet
<1> QED BY <1>5 DEF OnlyLast

\* Nothing is being generated when no message but the last may be and the last is not.
LEMMA QuietWhenLastIs ==
  ASSUME NEW ms \in Seq(Fits), OnlyLast(ms), ~LastGenerating(ms)
  PROVE  Quiet(ms)
BY EmptySeq DEF OnlyLast, LastGenerating, Quiet, Last

\* Events keep it.
LEMMA CalmEvents ==
  ASSUME ChatOK, CalmInv, Reports \/ Timers \/ StoreRefuses
  PROVE  CalmInv'
<1>0. message \in Seq(Fits) /\ soon \in Seq(DueTimers) /\ later \in Seq({"send", "edit"}) /\ OnlyLast(message)
  BY DEF ChatOK, CopiesOK, PageOK, CalmInv, OnlyLastGenerates
<1>1. CASE Reports
  <2>1. PICK K \in SUBSET Open : Reported(K)
    BY <1>1, ReportsTouch
  <2>2. OnlyLast(message') /\ (Quiet(message) => Quiet(message'))
    BY <1>0, <2>1, TouchedOnlyLast DEF Reported
  <2>3. OnlyLastGenerates'
    BY <2>1, <2>2, SavedOnlyLast DEF CalmInv, Reported
  <2>4. later' = later /\ modal' = modal
    BY <2>1 DEF Reported
  <2> QED BY <2>2, <2>3, <2>4 DEF CalmInv, Waits, Asks
<1>2. CASE SoonTimer
  <2>1. soon # <<>> /\ soon' = Tail(soon) /\ later' = later /\ modal' = modal
    BY <1>2 DEF SoonTimer
  <2>2. /\ Tail(soon) \in Seq(DueTimers) /\ Len(Tail(soon)) = Len(soon) - 1 /\ Len(soon) \in Nat /\ Len(soon) >= 1
        /\ \A i \in 1 .. Len(Tail(soon)) : Tail(soon)[i] = soon[i + 1]
        /\ Head(soon) = soon[1] /\ 1 \in DOMAIN soon
    BY <1>0, <2>1, HeadTailProperties, EmptySeq
  <2>3. \A i \in DOMAIN soon' : i + 1 \in DOMAIN soon /\ soon'[i] = soon[i + 1]
    BY <1>0, <2>1, <2>2
  <2>4. \A i \in DOMAIN soon' : OnlyLast(soon'[i].messages)
    BY <2>3 DEF CalmInv, OnlyLastGenerates
  <2>5. OnlyLast(Head(soon).messages)
    BY <2>2 DEF CalmInv, OnlyLastGenerates
  <2>6. Quiet(Default) /\ OnlyLast(Default)
    BY BuiltIn DEF Quiet, OnlyLast, Generating
  <2>7. \/ message' = message /\ stored' = {Head(soon).messages}
        \/ message' = Default /\ stored' = stored
    BY <1>2 DEF SoonTimer
  <2>8. OnlyLast(message') /\ (Quiet(message) => Quiet(message')) /\ (\A ms \in stored' : OnlyLast(ms))
    BY <1>0, <2>5, <2>6, <2>7 DEF CalmInv, OnlyLastGenerates
  <2> QED BY <2>1, <2>4, <2>8 DEF CalmInv, Waits, Asks, OnlyLastGenerates
<1>3. ASSUME later # <<>>, later' = Tail(later) PROVE Quiet(message) /\ modal = NoModal /\ later' = <<>>
  <2>1. Len(later) = 1 /\ Quiet(message) /\ modal = NoModal
    BY <1>3 DEF CalmInv, Waits
  <2>2. Tail(later) \in Seq({"send", "edit"}) /\ Len(Tail(later)) = 0
    BY <1>0, <1>3, <2>1, HeadTailProperties
  <2>3. Tail(later) = <<>>
    BY <2>2, EmptySeq
  <2> QED BY <1>3, <2>1, <2>3
<1>4. ASSUME later' = <<>>, modal' = NoModal, OnlyLastGenerates' PROVE CalmInv'
  <2>1. modal'.kind = "none" /\ OnlyLast(modal'.captured)
    BY <1>4 DEF NoModal, OnlyLast
  <2> QED BY <1>4, <2>1 DEF CalmInv, Waits, Asks
<1>5. ASSUME NEW k \in Requests, NEW kind \in {"stream", "fetch"}, LaterSend(k, kind) PROVE CalmInv'
  <2>1. later # <<>> /\ later' = Tail(later) /\ modal' = modal /\ stored' = stored /\ OnMessageSend(k, kind)
    BY <1>5 DEF LaterSend
  <2>2. OnlyLast(message')
    BY <1>3, <2>1, SentOnlyLast
  <2>3. OnlyLastGenerates'
    BY <2>1, <2>2, SavedOnlyLast DEF CalmInv, OnMessageSend
  <2> QED BY <1>3, <1>4, <2>1, <2>3
<1>6. ASSUME NEW k \in Requests, NEW kind \in {"stream", "fetch"}, LaterAnswer(k, kind) PROVE CalmInv'
  <2> DEFINE y == Message(messageId, "assistant", "loading", k, {})
  <2>1. /\ later # <<>> /\ later' = Tail(later) /\ modal' = modal /\ stored' = stored /\ soon' = soon
        /\ message' = Append(message, y)
    BY <1>6 DEF LaterAnswer
  <2>2. y \in Fits
    BY NewFit DEF ChatOK, PageOK
  <2> HIDE DEF y
  <2>3. Quiet(message)
    BY <1>3, <2>1
  <2>4. OnlyLast(message')
    BY <1>0, <2>1, <2>2, <2>3 DEF OnlyLast, Quiet
  <2>5. OnlyLastGenerates'
    BY <2>1, <2>4, SavedOnlyLast DEF CalmInv
  <2> QED BY <1>3, <1>4, <2>1, <2>5
<1>7. CASE StoreRefuses
  <2>1. soon # <<>> /\ soon' = Tail(soon) /\ UNCHANGED <<message, stored, later, modal>>
    BY <1>7 DEF StoreRefuses
  <2>2. \A i \in DOMAIN soon' : i + 1 \in DOMAIN soon /\ soon'[i] = soon[i + 1]
    BY <1>0, <2>1, HeadTailProperties, EmptySeq
  <2> QED BY <2>1, <2>2 DEF CalmInv, Waits, Asks, OnlyLastGenerates
<1> QED BY <1>1, <1>2, <1>5, <1>6, <1>7 DEF Timers

\* Dialogs keep it: what a dialog about a question leaves is cut before the answer.
LEMMA CalmDialog ==
  ASSUME ChatOK, CalmInv, Dialog
  PROVE  CalmInv'
<1>0. message \in Seq(Fits) /\ soon \in Seq(DueTimers) /\ OnlyLast(message) /\ modal \in Modals /\ OnlyLast(modal.captured)
  BY DEF ChatOK, CopiesOK, CalmInv, OnlyLastGenerates, Asks
<1>1. modal.kind # "none" /\ modal' = NoModal
  BY DEF Dialog, DeleteOk, EditRegenerate, EditKeep, ImportOk, CancelModal
<1>2. later = <<>>
  BY <1>1 DEF CalmInv, Waits, NoModal
<1>3. modal'.kind = "none" /\ OnlyLast(modal'.captured)
  BY <1>1 DEF NoModal, OnlyLast
<1>4. CASE DeleteOk
  <2>1. Quiet(message) /\ later' = later /\ stored' = stored
    BY <1>4 DEF DeleteOk, CalmInv, Asks
  <2> DEFINE target == modal.captured[modal.index]
             at == IndexOf(message, target)
             pair == target.role = "user" /\ at < Len(message) /\ message[at + 1].role = "assistant"
             gone == IF pair THEN {at, at + 1} ELSE {j \in DOMAIN message : message[j].id = target.id}
  <2>2. \/ UNCHANGED <<message, soon>>
        \/ message' = Without(message, gone) /\ soon' = Append(soon, Save(message'))
    BY <1>4 DEF DeleteOk
  <2> HIDE DEF gone
  <2>3. OnlyLast(Without(message, gone))
    BY <1>0, <2>1, WithoutFacts DEF Quiet, OnlyLast
  <2>4. OnlyLastGenerates'
    BY <1>0, <2>1, <2>2, <2>3, SavedOnlyLast DEF CalmInv
  <2> QED BY <1>2, <1>3, <2>1, <2>4 DEF CalmInv, Waits, Asks
<1>5. CASE EditRegenerate
  <2>1. /\ modal.captured \in Seq(Fits) /\ modal.index \in 0 .. Len(modal.captured) /\ modal.index < Len(modal.captured)
        /\ modal.index \in Nat
    BY <1>0, <1>5 DEF EditRegenerate, Modals, ChatOK, PageOK
  <2>2. /\ message' = SubSeq(modal.captured, 1, modal.index) /\ soon' = Append(soon, Save(message'))
        /\ later' = Append(later, "edit") /\ stored' = stored
    BY <1>5 DEF EditRegenerate
  <2>3. Quiet(message')
    BY <1>0, <2>1, <2>2, CutFacts DEF Quiet, OnlyLast
  <2>4. OnlyLastGenerates'
    BY <2>2, <2>3, SavedOnlyLast DEF CalmInv, Quiet, OnlyLast
  <2>5. Len(later') = 1
    BY <1>2, <2>2
  <2> QED BY <1>1, <1>3, <2>3, <2>4, <2>5 DEF CalmInv, Waits, Asks
<1>6. CASE EditKeep \/ ImportOk \/ CancelModal
  <2>1. /\ OnlyLast(message') /\ stored' = stored /\ later' = later
        /\ soon' = soon \/ soon' = Append(soon, Save(message'))
    BY <1>0, <1>6 DEF EditKeep, ImportOk, CancelModal
  <2>2. OnlyLastGenerates'
    BY <2>1, SavedOnlyLast DEF CalmInv
  <2> QED BY <1>2, <1>3, <2>1, <2>2 DEF CalmInv, Waits, Asks
<1> QED BY <1>4, <1>5, <1>6 DEF Dialog

\* After loading nothing is being generated.
LEMMA MountQuiet ==
  ASSUME ChatOK, OnlyLastGenerates, NEW reload \in BOOLEAN, NEW b \in BOOLEAN, Mount(reload, b)
  PROVE  Quiet(message')
<1>1. PICK loaded \in Seq(Fits) :
         /\ loaded \in stored \/ loaded = Default
         /\ \/ message' = loaded /\ ~LastGenerating(loaded)
            \/ loaded # <<>> /\ \E y \in Fits : message' = SetLast(loaded, y) /\ y.status = "complete"
  BY MountFacts
<1>2. OnlyLast(Default)
  BY BuiltIn DEF OnlyLast, Generating
<1>3. OnlyLast(loaded)
  BY <1>1, <1>2 DEF OnlyLastGenerates
<1>4. CASE message' = loaded /\ ~LastGenerating(loaded)
  BY <1>3, <1>4, QuietWhenLastIs
<1>5. ASSUME loaded # <<>>, NEW y \in Fits, message' = SetLast(loaded, y), y.status = "complete" PROVE Quiet(message')
  <2>1. /\ DOMAIN message' = DOMAIN loaded
        /\ \A i \in DOMAIN loaded : message'[i] = IF i = Len(loaded) THEN y ELSE loaded[i]
    BY <1>5, SetLastFacts
  <2> QED BY <1>3, <1>5, <2>1 DEF Quiet, OnlyLast, Generating
<1> QED BY <1>1, <1>4, <1>5

\* So does a user who waits for the timers of 100 ms.
LEMMA CalmUser ==
  ASSUME ~QuickUser, ChatOK, CalmInv, User
  PROVE  CalmInv'
<1>0. message \in Seq(Fits) /\ soon \in Seq(DueTimers) /\ OnlyLast(message) /\ OnlyLastGenerates
  BY DEF ChatOK, CopiesOK, CalmInv, OnlyLastGenerates
<1>1. ASSUME UserActs PROVE modal = NoModal /\ later = <<>>
  BY <1>1 DEF UserActs
<1>2. ASSUME later' = <<>>, modal' = NoModal, OnlyLastGenerates' PROVE CalmInv'
  <2>1. modal'.kind = "none" /\ OnlyLast(modal'.captured)
    BY <1>2 DEF NoModal, OnlyLast
  <2> QED BY <1>2, <2>1 DEF CalmInv, Waits, Asks
<1>3. ASSUME UserActs, UNCHANGED <<later, modal, stored>>, OnlyLast(message'), soon' = soon \/ soon' = Append(soon, Save(message'))
      PROVE  CalmInv'
  <2>1. OnlyLastGenerates'
    BY <1>0, <1>3, SavedOnlyLast
  <2> QED BY <1>1, <1>2, <1>3, <2>1
<1>4. ASSUME NEW k \in Requests, NEW kind \in {"stream", "fetch"}, Send(k, kind) PROVE CalmInv'
  <2>1. UserActs /\ ~LastGenerating(message) /\ OnMessageSend(k, kind) /\ UNCHANGED <<later, modal, stored>>
    BY <1>4 DEF Send
  <2>2. Quiet(message)
    BY <1>0, <2>1, QuietWhenLastIs
  <2>3. OnlyLast(message')
    BY <2>1, <2>2, SentOnlyLast
  <2> QED BY <1>3, <2>1, <2>3 DEF OnMessageSend
<1>5. CASE Stop
  <2>1. UserActs /\ Reported({}) /\ soon' = Append(soon, Save(message'))
    BY <1>5, StopTouches DEF Stop
  <2>2. OnlyLast(message')
    BY <1>0, <2>1, TouchedOnlyLast DEF Reported
  <2> QED BY <1>3, <2>1, <2>2 DEF Reported
<1>6. CASE Clear
  <2>1. /\ UserActs /\ message' = <<>> /\ soon' = Append(soon, Save(message')) /\ UNCHANGED <<later, modal, stored>>
    BY <1>6 DEF Clear
  <2>2. OnlyLast(message')
    BY <2>1 DEF OnlyLast
  <2> QED BY <1>3, <2>1, <2>2
<1>7. CASE ImportFile
  <2>1. /\ UserActs /\ modal' = [kind |-> "import", index |-> 0, captured |-> Imported]
        /\ stored' \in {{Imported}, stored} /\ UNCHANGED <<message, soon, later>>
    BY <1>7 DEF ImportFile
  <2>2. OnlyLast(Imported)
    BY BuiltIn DEF OnlyLast, Generating
  <2>3. later' = <<>> /\ modal'.kind = "import" /\ modal'.captured = Imported
    BY <1>1, <2>1
  <2>4. OnlyLastGenerates'
    BY <1>0, <2>1, <2>2 DEF OnlyLastGenerates
  <2> QED BY <2>2, <2>3, <2>4 DEF CalmInv, Waits, Asks
<1>8. CASE ChangeLanguage
  <2>1. UserActs /\ message' = Default /\ UNCHANGED <<soon, later, modal, stored>>
    BY <1>8 DEF ChangeLanguage
  <2>2. OnlyLast(message')
    BY <2>1, BuiltIn DEF OnlyLast, Generating
  <2> QED BY <1>3, <2>1, <2>2
<1>9. CASE CancelEdit
  <2>1. UserActs /\ UNCHANGED <<message, soon, later, modal, stored>>
    BY <1>9 DEF CancelEdit
  <2> QED BY <1>0, <1>3, <2>1
<1>10. CASE EditSave
  <2>1. PICK updated \in Seq(Fits), at \in 1 .. Len(message) :
          /\ Len(updated) = Len(message)
          /\ \A i \in DOMAIN message : updated[i].status = message[i].status
          /\ \/ /\ at < Len(message) /\ modal' = [kind |-> "edit", index |-> at, captured |-> updated]
                /\ UNCHANGED <<message, soon>>
             \/ message' = updated /\ soon' = Append(soon, Save(updated)) /\ UNCHANGED modal
    BY <1>10, EditSaveFacts
  <2>2. UserActs /\ UNCHANGED <<later, stored>>
    BY <1>10 DEF EditSave
  <2>3. OnlyLast(updated)
    BY <1>0, <2>1, SMTT(30) DEF OnlyLast, Generating
  <2>4. CASE modal' = [kind |-> "edit", index |-> at, captured |-> updated] /\ UNCHANGED <<message, soon>>
    <3>1. modal'.kind = "edit" /\ modal'.captured = updated /\ later' = <<>>
      BY <1>1, <2>2, <2>4
    <3>2. OnlyLastGenerates'
      BY <1>0, <2>2, <2>4, SavedOnlyLast
    <3> QED BY <2>3, <3>1, <3>2 DEF CalmInv, Waits, Asks
  <2>5. CASE message' = updated /\ soon' = Append(soon, Save(updated)) /\ UNCHANGED modal
    BY <1>3, <2>2, <2>3, <2>5
  <2> QED BY <2>1, <2>4, <2>5
<1>11. ASSUME NEW i \in DOMAIN message, ActionEnabled(i) PROVE UserActs /\ Quiet(message)
  BY <1>11 DEF ActionEnabled, AnyGenerating, Quiet
<1>12. ASSUME NEW i \in DOMAIN message, Regenerate(i) PROVE CalmInv'
  <2>1. UserActs /\ Quiet(message) /\ later' = Append(later, "send") /\ UNCHANGED <<soon, modal, stored>>
    BY <1>11, <1>12 DEF Regenerate
  <2>2. Quiet(message')
    BY <1>12, <2>1, RegenerateFacts DEF Quiet
  <2>3. Len(later') = 1 /\ modal' = NoModal
    BY <1>1, <2>1
  <2>4. OnlyLastGenerates'
    BY <1>0, <2>1, <2>2, SavedOnlyLast DEF Quiet, OnlyLast
  <2>5. modal'.kind = "none" /\ OnlyLast(modal'.captured)
    BY <2>3 DEF NoModal, OnlyLast
  <2> QED BY <2>2, <2>3, <2>4, <2>5 DEF CalmInv, Waits, Asks
<1>13. ASSUME NEW i \in DOMAIN message, AskDelete(i) PROVE CalmInv'
  <2>1. /\ UserActs /\ Quiet(message) /\ modal' = [kind |-> "delete", index |-> i, captured |-> message]
        /\ UNCHANGED <<message, soon, later, stored>>
    BY <1>11, <1>13 DEF AskDelete
  <2>2. later' = <<>> /\ modal'.captured = message
    BY <1>1, <2>1
  <2>3. OnlyLastGenerates'
    BY <1>0, <2>1, SavedOnlyLast
  <2> QED BY <1>0, <2>1, <2>2, <2>3 DEF CalmInv, Waits, Asks
<1>14. ASSUME NEW i \in DOMAIN message, RoleToggle(i) PROVE CalmInv'
  <2>1. UserActs /\ soon' = Append(soon, Save(message')) /\ UNCHANGED <<later, modal, stored>>
    BY <1>11, <1>14 DEF RoleToggle
  <2>2. /\ message' \in Seq(Fits) /\ Len(message') = Len(message)
        /\ \A j \in DOMAIN message : message'[j].status = message[j].status
    BY <1>14, RoleToggleFacts
  <2>3. OnlyLast(message')
    BY <1>0, <2>2, SMTT(30) DEF OnlyLast, Generating
  <2> QED BY <1>3, <2>1, <2>3
<1>15. ASSUME NEW i \in DOMAIN message, StartEdit(i) PROVE CalmInv'
  <2>1. UserActs /\ UNCHANGED <<message, soon, later, modal, stored>>
    BY <1>11, <1>15 DEF StartEdit
  <2> QED BY <1>0, <1>3, <2>1
<1>16. ASSUME NEW b \in BOOLEAN, ResetConfig(b) PROVE CalmInv'
  <2>1. /\ UserActs /\ soon = <<>> /\ soon' \in {<<>>, <<Defaults>>} /\ stored' = {} /\ UNCHANGED <<later, modal>>
        /\ message' \in {message, <<>>}
    BY <1>16 DEF ResetConfig, UserActs
  <2>2. OnlyLast(<<>>) /\ Defaults.messages = <<>>
    BY DEF OnlyLast, Defaults
  <2>3. \A i \in DOMAIN soon' : OnlyLast(soon'[i].messages)
    BY <2>1, <2>2
  <2>4. OnlyLastGenerates'
    BY <1>0, <2>1, <2>2, <2>3 DEF OnlyLastGenerates
  <2> QED BY <1>1, <1>2, <2>1, <2>4
<1>17. ASSUME NEW reload \in BOOLEAN, NEW b \in BOOLEAN, Mount(reload, b) PROVE CalmInv'
  <2>1. (stored' = stored \/ stored' = {}) /\ soon' \in {<<>>, <<Save(message')>>}
    BY <1>17, MountFacts
  <2>2. Quiet(message')
    BY <1>0, <1>17, MountQuiet
  <2>3. OnlyLast(message') /\ Save(message').messages = message'
    BY <2>2 DEF Quiet, OnlyLast, Save
  <2>4. \A i \in DOMAIN soon' : OnlyLast(soon'[i].messages)
    BY <2>1, <2>3
  <2>5. \A ms \in stored' : OnlyLast(ms)
    BY <1>0, <2>1 DEF OnlyLastGenerates
  <2>6. OnlyLastGenerates'
    BY <2>3, <2>4, <2>5 DEF OnlyLastGenerates
  <2>7. later' = <<>> /\ modal' = NoModal
    BY <1>17 DEF Mount
  <2> QED BY <1>2, <2>6, <2>7
<1>18. ASSUME NEW n \in 0 .. MaxLength, EditCustomBody(n) PROVE CalmInv'
  <2>1. UserActs /\ UNCHANGED <<soon, later, modal, stored>>
    BY <1>18, Zenon DEF EditCustomBody
  <2>2. OnlyLast(message')
    BY <1>18, CustomBodyFacts DEF OnlyLast, Generating
  <2> QED BY <1>3, <2>1, <2>2
<1> QED BY <1>4, <1>5, <1>6, <1>7, <1>8, <1>9, <1>10, <1>12, <1>13, <1>14, <1>15, <1>16, <1>17, <1>18 DEF User

\* CalmInv holds in every reachable state if the user waits for the timers of 100 ms.
THEOREM CalmAlways ==
  ASSUME ~QuickUser
  PROVE  ChatSpec => [](ChatOK /\ CalmInv)
<1>1. ASSUME ChatInit PROVE ChatOK /\ CalmInv
  <2>1. ChatOK
    BY <1>1, TypesInit
  <2>2. message = Default /\ soon = <<>> /\ later = <<>> /\ modal = NoModal /\ stored = {}
    BY <1>1 DEF ChatInit
  <2>3. OnlyLast(message)
    BY <2>2, BuiltIn DEF OnlyLast, Generating
  <2>4. modal.kind = "none" /\ OnlyLast(modal.captured)
    BY <2>2 DEF NoModal, OnlyLast
  <2> QED BY <2>1, <2>2, <2>3, <2>4 DEF CalmInv, Waits, Asks, OnlyLastGenerates
<1>2. ASSUME ChatOK /\ CalmInv, [ChatNext]_chatVars PROVE (ChatOK /\ CalmInv)'
  <2>1. ChatOK'
    BY <1>2, TypesStep
  <2>2. CASE ChatNext
    BY <1>2, <2>1, <2>2, CalmEvents, CalmDialog, CalmUser DEF ChatNext
  <2>3. CASE UNCHANGED chatVars
    BY <1>2, <2>1, <2>3 DEF chatVars, CalmInv, Waits, Asks, OnlyLastGenerates
  <2> QED BY <1>2, <2>2, <2>3
<1> QED BY <1>1, <1>2, PTL DEF ChatSpec

\* In the conversation shown, in every copy that waits for its timer and in the stored one, only the last message
\* is being generated, if the user does nothing in the 100 ms before a regeneration is sent: the button that stops
\* the answer and the repair on loading, which look at the last message, miss none.
THEOREM OnlyLastIsGenerated ==
  ASSUME ~QuickUser
  PROVE  ChatSpec => []OnlyLastGenerates
<1>1. CalmInv => OnlyLastGenerates
  BY DEF CalmInv
<1> QED BY <1>1, CalmAlways, PTL

-----------------------------------------------------------------------------
(* Answers are not mixed.                                                  *)

\* An answer of request k is shown in ms as being generated.
Answering(k, ms) == \E i \in DOMAIN ms : ms[i].of = k /\ Generating(ms[i])

\* What request k reported is in no message of ms, but perhaps in the one at place n.
AtMostAt(k, ms, n) == \A i \in DOMAIN ms : k \in ms[i].text => i = n

\* What request k reported is at the place of the last message shown, in every copy.
Alone(k) ==
  /\ AtMostAt(k, message, Len(message))
  /\ \A n \in DOMAIN soon : AtMostAt(k, soon[n].messages, Len(message))
  /\ \A ms \in stored : AtMostAt(k, ms, Len(message))

\* The conversation that the dialog about an edited question holds is at most behind the one that is shown.
Behind ==
  /\ modal # NoModal => \A n \in DOMAIN soon : soon[n].kind = "save"
  /\ modal.kind = "edit" =>
       /\ Len(modal.captured) = Len(message)
       /\ \A i \in DOMAIN message : modal.captured[i].text \subseteq message[i].text \cup {0}

\* As long as an answer is being generated, in the conversation shown or in the one the dialog may bring back,
\* what its request reported is nowhere else.
Apart ==
  \A k \in Requests :
    Answering(k, message) \/ (modal.kind = "edit" /\ Answering(k, modal.captured)) => Alone(k)

ApartInv == Behind /\ Apart

\* It holds when no answer is being generated and no question is being edited.
LEMMA QuietApart ==
  ASSUME modal'.kind # "edit", modal' # NoModal => \A n \in DOMAIN soon' : soon'[n].kind = "save",
         \A i \in DOMAIN message' : ~Generating(message'[i]) \/ message'[i].of = 0
  PROVE  ApartInv'
<1>1. ASSUME NEW k \in Requests PROVE ~Answering(k, message')
  BY <1>1 DEF Answering, Requests
<1> QED BY <1>1 DEF ApartInv, Behind, Apart

\* It is kept when no answer starts, and what is shown, waits or is stored has nothing new but at the place of the last.
LEMMA KeptApart ==
  ASSUME ApartInv, Behind', Len(message') = Len(message),
         NEW k \in Requests,
         Answering(k, message') \/ (modal'.kind = "edit" /\ Answering(k, modal'.captured)) =>
           Answering(k, message) \/ (modal.kind = "edit" /\ Answering(k, modal.captured)),
         Alone(k) => /\ AtMostAt(k, message', Len(message))
                     /\ \A n \in DOMAIN soon' : AtMostAt(k, soon'[n].messages, Len(message))
                     /\ \A ms \in stored' : AtMostAt(k, ms, Len(message))
  PROVE  Answering(k, message') \/ (modal'.kind = "edit" /\ Answering(k, modal'.captured)) => Alone(k)'
BY DEF ApartInv, Apart, Alone

\* Saving what is shown.
LEMMA SavedAtMostAt ==
  ASSUME ChatOK, NEW k, NEW n, AtMostAt(k, message', n), \A i \in DOMAIN soon : AtMostAt(k, soon[i].messages, n),
         soon' = soon \/ soon' = Append(soon, Save(message'))
  PROVE  \A i \in DOMAIN soon' : AtMostAt(k, soon'[i].messages, n)
<1>1. soon \in Seq(DueTimers)
  BY DEF ChatOK, CopiesOK
<1> TAKE i \in DOMAIN soon'
<1>2. CASE soon' = soon
  BY <1>2
<1>3. CASE soon' = Append(soon, Save(message'))
  <2>1. soon'[i] = Save(message') \/ (i \in DOMAIN soon /\ soon'[i] = soon[i])
    BY <1>1, <1>3
  <2>2. Save(message').messages = message'
    BY DEF Save
  <2> QED BY <2>1, <2>2
<1> QED BY <1>2, <1>3

\* The timers that wait save, if they did and only one that saves is added.
LEMMA SavedKinds ==
  ASSUME ChatOK, \A n \in DOMAIN soon : soon[n].kind = "save", soon' = soon \/ soon' = Append(soon, Save(message'))
  PROVE  \A n \in DOMAIN soon' : soon'[n].kind = "save"
<1>1. soon \in Seq(DueTimers)
  BY DEF ChatOK, CopiesOK
<1> TAKE i \in DOMAIN soon'
<1>2. CASE soon' = soon
  BY <1>2
<1>3. CASE soon' = Append(soon, Save(message'))
  <2>1. soon'[i] = Save(message') \/ (i \in DOMAIN soon /\ soon'[i] = soon[i])
    BY <1>1, <1>3
  <2>2. Save(message').kind = "save"
    BY DEF Save
  <2> QED BY <2>1, <2>2
<1> QED BY <1>2, <1>3

\* Reports keep answers apart.
LEMMA ReportedApart ==
  ASSUME ChatOK, ApartInv, NEW K, Reported(K)
  PROVE  ApartInv'
<1>1. modal' = modal /\ stored' = stored /\ (soon' = soon \/ soon' = Append(soon, Save(message')))
  BY DEF Reported
<1>2. /\ DOMAIN message' = DOMAIN message /\ Len(message') = Len(message)
      /\ \A i \in DOMAIN message : i # Len(message) => message'[i] = message[i]
      /\ \A i \in DOMAIN message : /\ message'[i].of = message[i].of
                                   /\ (Generating(message'[i]) => Generating(message[i]))
                                   /\ message[i].text \subseteq message'[i].text \cup {0}
  <2>1. CASE message' = message
    BY <2>1
  <2>2. CASE message' # message
    BY <2>2, TouchedPlaces DEF Reported, Becomes
  <2> QED BY <2>1, <2>2
<1>3. Behind'
  <2>1. modal' # NoModal => \A n \in DOMAIN soon' : soon'[n].kind = "save"
    BY <1>1, SavedKinds DEF ApartInv, Behind
  <2>2. ASSUME modal'.kind = "edit", NEW i \in DOMAIN message'
        PROVE  modal'.captured[i].text \subseteq message'[i].text \cup {0}
    <3>1. modal.captured[i].text \subseteq message[i].text \cup {0}
      BY <1>1, <1>2, <2>2 DEF ApartInv, Behind
    <3>2. message[i].text \subseteq message'[i].text \cup {0}
      BY <1>2, <2>2
    <3> QED BY <1>1, <3>1, <3>2
  <2>3. modal'.kind = "edit" => Len(modal'.captured) = Len(message')
    BY <1>1, <1>2 DEF ApartInv, Behind
  <2> QED BY <2>1, <2>2, <2>3 DEF Behind
<1>4. ASSUME NEW k \in Requests
      PROVE  Answering(k, message') \/ (modal'.kind = "edit" /\ Answering(k, modal'.captured)) => Alone(k)'
  <2>1. Answering(k, message') => Answering(k, message)
    BY <1>2 DEF Answering
  <2>2. Alone(k) => AtMostAt(k, message', Len(message))
    BY <1>2 DEF Alone, AtMostAt
  <2>3. Alone(k) => \A n \in DOMAIN soon' : AtMostAt(k, soon'[n].messages, Len(message))
    BY <1>1, <2>2, SavedAtMostAt DEF Alone
  <2>4. Alone(k) => \A ms \in stored' : AtMostAt(k, ms, Len(message))
    BY <1>1 DEF Alone
  <2> QED BY <1>1, <1>2, <1>3, <2>1, <2>2, <2>3, <2>4, KeptApart
<1> QED BY <1>3, <1>4 DEF ApartInv, Apart

\* A request that starts has reported nothing yet.
LEMMA StartedApart ==
  ASSUME ChatOK, NEW k \in Requests, request[k] = "unused", modal' = NoModal, stored' = stored,
         soon' = soon \/ soon' = Append(soon, Save(message')),
         \A i \in DOMAIN message' : (Generating(message'[i]) => message'[i].of = k) /\ k \notin message'[i].text
  PROVE  ApartInv'
<1>0. k # 0
  BY DEF Requests, PlaygroundAssumption
<1>1. ASSUME NEW ms \in Seq(Fits), NEW n PROVE AtMostAt(k, ms, n)
  BY <1>0, <1>1 DEF AtMostAt, Fits
<1>2. soon \in Seq(DueTimers) /\ stored \subseteq Seq(Fits)
  BY DEF ChatOK, CopiesOK
<1>3. ASSUME NEW i \in DOMAIN soon PROVE soon[i].messages \in Seq(Fits)
  <2>1. soon[i] \in DueTimers
    BY <1>2, <1>3
  <2> QED BY <2>1 DEF DueTimers
<1>4. AtMostAt(k, message', Len(message'))
  BY DEF AtMostAt
<1>5. \A i \in DOMAIN soon' : AtMostAt(k, soon'[i].messages, Len(message'))
  BY <1>1, <1>3, <1>4, SavedAtMostAt
<1>6. Alone(k)'
  BY <1>1, <1>2, <1>4, <1>5 DEF Alone
<1>7. ASSUME NEW j \in Requests, Answering(j, message') PROVE j = k
  BY <1>7 DEF Answering
<1>8. modal'.kind = "none"
  BY DEF NoModal
<1> QED BY <1>6, <1>7, <1>8 DEF ApartInv, Behind, Apart

\* A question and its answer that are sent, or an answer alone, keep answers apart.
LEMMA SentApart ==
  ASSUME ChatOK, Quiet(message), modal' = NoModal, stored' = stored, NEW k \in Requests, NEW kind,
         \/ OnMessageSend(k, kind)
         \/ /\ StartRequest(k, kind) /\ soon' = soon
            /\ message' = Append(message, Message(messageId, "assistant", "loading", k, {}))
  PROVE  ApartInv'
<1> DEFINE x == Message(messageId + 2, "user", "none", k, {0})
           y == Message(messageId + 1, "assistant", "loading", k, {})
           z == Message(messageId, "assistant", "loading", k, {})
<1>1. message \in Seq(Fits) /\ x \in Fits /\ y \in Fits /\ z \in Fits /\ k # 0
  BY NewFit DEF ChatOK, CopiesOK, PageOK, Requests
<1>2. request[k] = "unused" /\ (soon' = soon \/ soon' = Append(soon, Save(message')))
  BY DEF OnMessageSend, StartRequest
<1>3. /\ x.of = k /\ k \notin x.text /\ y.of = k /\ k \notin y.text /\ z.of = k /\ k \notin z.text
  BY <1>1 DEF Message
<1>4. message' = message \o <<x, y>> \/ message' = Append(message, z)
  BY DEF OnMessageSend
<1> HIDE DEF x, y, z
<1>5. ASSUME NEW i \in DOMAIN message
      PROVE  ~Generating(message[i]) /\ k \notin message[i].text
  <2>1. message[i] \in Fits
    BY <1>1
  <2> QED BY <1>1, <1>2, <2>1 DEF Fits, Quiet
<1>6. ASSUME NEW i \in DOMAIN message'
      PROVE  (i \in DOMAIN message /\ message'[i] = message[i]) \/ message'[i] \in {x, y, z}
  <2>1. CASE message' = message \o <<x, y>>
    <3>1. /\ message' \in Seq(Fits) /\ Len(message') = Len(message) + 2 /\ Len(message) \in Nat
          /\ \A j \in 1 .. Len(message) : message'[j] = message[j] /\ j \in DOMAIN message
          /\ message'[Len(message) + 1] = x /\ message'[Len(message) + 2] = y
      BY <1>1, <2>1, SentFacts
    <3>2. i \in 1 .. Len(message) \/ i = Len(message) + 1 \/ i = Len(message) + 2
      BY <1>6, <3>1
    <3> QED BY <3>1, <3>2
  <2>2. CASE message' = Append(message, z)
    BY <1>1, <1>6, <2>2
  <2> QED BY <1>4, <2>1, <2>2
<1>7. \A i \in DOMAIN message' : (Generating(message'[i]) => message'[i].of = k) /\ k \notin message'[i].text
  BY <1>3, <1>5, <1>6
<1> QED BY <1>2, <1>7, StartedApart

\* Events keep answers apart.
LEMMA ApartEvents ==
  ASSUME ChatOK, CalmInv, ApartInv, Reports \/ Timers \/ StoreRefuses
  PROVE  ApartInv'
<1>1. CASE Reports
  BY <1>1, ReportsTouch, ReportedApart
<1>2. CASE SoonTimer
  <2>0. soon \in Seq(DueTimers) /\ soon # <<>> /\ soon' = Tail(soon) /\ modal' = modal
    BY <1>2 DEF SoonTimer, ChatOK, CopiesOK
  <2>1. /\ Tail(soon) \in Seq(DueTimers) /\ Len(Tail(soon)) = Len(soon) - 1 /\ Len(soon) \in Nat /\ Len(soon) >= 1
        /\ \A i \in 1 .. Len(Tail(soon)) : Tail(soon)[i] = soon[i + 1]
        /\ Head(soon) = soon[1] /\ 1 \in DOMAIN soon
    BY <2>0, HeadTailProperties, EmptySeq
  <2>2. \A i \in DOMAIN soon' : i + 1 \in DOMAIN soon /\ soon'[i] = soon[i + 1]
    BY <2>0, <2>1
  <2>3. CASE Head(soon).kind = "save"
    <3>1. message' = message /\ stored' = {soon[1].messages}
      BY <1>2, <2>1, <2>3 DEF SoonTimer
    <3>2. Behind'
      BY <2>0, <2>2, <3>1 DEF ApartInv, Behind
    <3>3. ASSUME NEW k \in Requests
          PROVE  Answering(k, message') \/ (modal'.kind = "edit" /\ Answering(k, modal'.captured)) => Alone(k)'
      <4>1. Alone(k) => /\ AtMostAt(k, message', Len(message))
                        /\ \A n \in DOMAIN soon' : AtMostAt(k, soon'[n].messages, Len(message))
                        /\ \A ms \in stored' : AtMostAt(k, ms, Len(message))
        BY <2>1, <2>2, <3>1 DEF Alone
      <4> QED BY <2>0, <3>1, <3>2, <4>1, KeptApart
    <3> QED BY <3>2, <3>3 DEF ApartInv, Apart
  <2>4. CASE Head(soon).kind # "save"
    <3>1. message' = Default
      BY <1>2, <2>4 DEF SoonTimer
    <3>2. modal' = NoModal
      BY <2>0, <2>1, <2>4 DEF ApartInv, Behind
    <3>3. modal'.kind # "edit"
      BY <3>2 DEF NoModal
    <3>4. \A i \in DOMAIN message' : message'[i].of = 0
      BY <3>1, BuiltIn
    <3> QED BY <3>2, <3>3, <3>4, QuietApart
  <2> QED BY <2>3, <2>4
<1>3. ASSUME NEW k \in Requests, NEW kind \in {"stream", "fetch"}, LaterSend(k, kind) \/ LaterAnswer(k, kind) PROVE ApartInv'
  <2>1. Quiet(message) /\ modal' = NoModal /\ stored' = stored
    BY <1>3 DEF LaterSend, LaterAnswer, CalmInv, Waits
  <2>2. \/ OnMessageSend(k, kind)
        \/ /\ StartRequest(k, kind) /\ soon' = soon
           /\ message' = Append(message, Message(messageId, "assistant", "loading", k, {}))
    BY <1>3 DEF LaterSend, LaterAnswer
  <2> QED BY <2>1, <2>2, SentApart
<1>4. CASE StoreRefuses
  <2>1. soon # <<>> /\ soon' = Tail(soon) /\ UNCHANGED <<message, stored, modal>>
    BY <1>4 DEF StoreRefuses
  <2>2. \A i \in DOMAIN soon' : i + 1 \in DOMAIN soon /\ soon'[i] = soon[i + 1]
    BY <2>1, HeadTailProperties, EmptySeq DEF ChatOK, CopiesOK
  <2>3. Behind'
    BY <2>1, <2>2 DEF ApartInv, Behind
  <2>4. ASSUME NEW k \in Requests
        PROVE  Answering(k, message') \/ (modal'.kind = "edit" /\ Answering(k, modal'.captured)) => Alone(k)'
    <3>1. Alone(k) => Alone(k)'
      BY <2>1, <2>2 DEF Alone
    <3> QED BY <2>1, <3>1 DEF ApartInv, Apart
  <2> QED BY <2>3, <2>4 DEF ApartInv, Apart
<1> QED BY <1>1, <1>2, <1>3, <1>4 DEF Timers

\* Dialogs keep answers apart: the conversation that is brought back has no text the one shown has not.
LEMMA ApartDialog ==
  ASSUME ChatOK, CalmInv, ApartInv, Dialog
  PROVE  ApartInv'
<1>0. message \in Seq(Fits) /\ modal \in Modals /\ modal.captured \in Seq(Fits) /\ OnlyLast(modal.captured)
  BY DEF ChatOK, CopiesOK, Modals, CalmInv, Asks
<1>1. modal' = NoModal /\ modal'.kind # "edit"
  BY DEF Dialog, DeleteOk, EditRegenerate, EditKeep, ImportOk, CancelModal, NoModal
<1>2. ASSUME Quiet(message') PROVE ApartInv'
  BY <1>1, <1>2, QuietApart DEF Quiet
<1>3. CASE DeleteOk
  <2> DEFINE target == modal.captured[modal.index]
             at == IndexOf(message, target)
             pair == target.role = "user" /\ at < Len(message) /\ message[at + 1].role = "assistant"
             gone == IF pair THEN {at, at + 1} ELSE {j \in DOMAIN message : message[j].id = target.id}
  <2>1. message' = message \/ message' = Without(message, gone)
    BY <1>3 DEF DeleteOk
  <2>2. Quiet(message)
    BY <1>3 DEF DeleteOk, CalmInv, Asks
  <2> HIDE DEF gone
  <2>3. Quiet(message')
    BY <1>0, <2>1, <2>2, WithoutFacts DEF Quiet
  <2> QED BY <1>2, <2>3
<1>4. CASE EditRegenerate
  <2>1. /\ modal.index \in 0 .. Len(modal.captured) /\ modal.index < Len(modal.captured) /\ modal.index \in Nat
        /\ message' = SubSeq(modal.captured, 1, modal.index)
    BY <1>0, <1>4 DEF EditRegenerate, Modals, ChatOK, PageOK
  <2>2. Quiet(message')
    BY <1>0, <2>1, CutFacts DEF Quiet, OnlyLast
  <2> QED BY <1>2, <2>2
<1>5. CASE EditKeep
  <2>1. modal.kind = "edit" /\ message' = modal.captured /\ soon' = Append(soon, Save(message')) /\ stored' = stored
    BY <1>5 DEF EditKeep
  <2>2. /\ Len(modal.captured) = Len(message) /\ DOMAIN modal.captured = DOMAIN message
        /\ \A i \in DOMAIN message : modal.captured[i].text \subseteq message[i].text \cup {0}
    BY <1>0, <2>1 DEF ApartInv, Behind
  <2>3. Behind'
    BY <1>1 DEF Behind
  <2>4. ASSUME NEW k \in Requests
        PROVE  Answering(k, message') \/ (modal'.kind = "edit" /\ Answering(k, modal'.captured)) => Alone(k)'
    <3>0. k # 0
      BY DEF Requests
    <3>1. Alone(k) => AtMostAt(k, message', Len(message))
      BY <2>1, <2>2, <3>0 DEF Alone, AtMostAt
    <3>2. Alone(k) => \A n \in DOMAIN soon' : AtMostAt(k, soon'[n].messages, Len(message))
      BY <2>1, <3>1, SavedAtMostAt DEF Alone
    <3>3. Alone(k) => \A ms \in stored' : AtMostAt(k, ms, Len(message))
      BY <2>1 DEF Alone
    <3>4. Len(message') = Len(message)
      BY <2>1, <2>2
    <3>5. Answering(k, message') => modal.kind = "edit" /\ Answering(k, modal.captured)
      BY <2>1
    <3> QED BY <1>1, <2>3, <3>1, <3>2, <3>3, <3>4, <3>5, KeptApart
  <2> QED BY <2>3, <2>4 DEF ApartInv, Apart
<1>6. CASE ImportOk
  <2>1. message' = Imported
    BY <1>6 DEF ImportOk, ChatOK, PageOK
  <2>2. \A i \in DOMAIN message' : message'[i].of = 0
    BY <2>1, BuiltIn
  <2> QED BY <1>1, <2>2, QuietApart
<1>7. CASE CancelModal
  <2>1. UNCHANGED <<message, soon, stored>>
    BY <1>7 DEF CancelModal
  <2>2. Behind'
    BY <1>1 DEF Behind
  <2>3. ASSUME NEW k \in Requests, Answering(k, message') PROVE Alone(k)'
    BY <2>1, <2>3 DEF ApartInv, Apart, Alone
  <2> QED BY <1>1, <2>2, <2>3 DEF ApartInv, Apart
<1> QED BY <1>3, <1>4, <1>5, <1>6, <1>7 DEF Dialog

\* So does a user who waits for the timers of 100 ms.
LEMMA ApartUser ==
  ASSUME ~QuickUser, ChatOK, CalmInv, ApartInv, User
  PROVE  ApartInv'
<1>0. message \in Seq(Fits) /\ DOMAIN message = 1 .. Len(message) /\ OnlyLast(message) /\ OnlyLastGenerates
  BY DEF ChatOK, CopiesOK, CalmInv, OnlyLastGenerates
<1>1. ASSUME UserActs PROVE modal = NoModal /\ modal.kind = "none" /\ soon = <<>>
  BY <1>1 DEF UserActs, NoModal
<1>2. ASSUME UserActs, modal' = modal, \A i \in DOMAIN message' : ~Generating(message'[i]) \/ message'[i].of = 0
      PROVE  ApartInv'
  BY <1>1, <1>2, QuietApart
<1>3. ASSUME UserActs, UNCHANGED <<message, soon>>, \A ms \in stored' : ms \in stored \/ ms = Imported, modal'.kind # "edit"
      PROVE  ApartInv'
  <2>1. Behind'
    BY <1>1, <1>3 DEF Behind
  <2>2. ASSUME NEW k \in Requests PROVE AtMostAt(k, Imported, Len(message))
    BY BuiltIn DEF AtMostAt, Requests
  <2>3. ASSUME NEW k \in Requests, Answering(k, message') PROVE Alone(k)'
    <3>1. Alone(k)
      BY <1>3, <2>3 DEF ApartInv, Apart
    <3> QED BY <1>3, <2>2, <3>1 DEF Alone
  <2> QED BY <1>3, <2>1, <2>3 DEF ApartInv, Apart
<1>4. ASSUME NEW k \in Requests, NEW kind \in {"stream", "fetch"}, Send(k, kind) PROVE ApartInv'
  <2>1. UserActs /\ ~LastGenerating(message) /\ OnMessageSend(k, kind) /\ UNCHANGED <<modal, stored>>
    BY <1>4 DEF Send
  <2>2. Quiet(message)
    BY <1>0, <2>1, QuietWhenLastIs
  <2> QED BY <1>1, <2>1, <2>2, SentApart
<1>5. CASE Stop
  BY <1>5, StopTouches, ReportedApart
<1>6. CASE Clear
  <2>1. UserActs /\ message' = <<>> /\ modal' = modal
    BY <1>6 DEF Clear
  <2> QED BY <1>2, <2>1
<1>7. CASE ImportFile
  <2>1. /\ UserActs /\ modal' = [kind |-> "import", index |-> 0, captured |-> Imported]
        /\ stored' \in {{Imported}, stored} /\ UNCHANGED <<message, soon>>
    BY <1>7 DEF ImportFile
  <2>2. modal'.kind # "edit"
    BY <2>1
  <2> QED BY <1>3, <2>1, <2>2
<1>8. CASE ChangeLanguage
  <2>1. UserActs /\ message' = Default /\ modal' = modal
    BY <1>8 DEF ChangeLanguage
  <2> QED BY <1>2, <2>1, BuiltIn
<1>9. CASE CancelEdit
  <2>1. UserActs /\ UNCHANGED <<message, soon, stored, modal>>
    BY <1>9 DEF CancelEdit
  <2> QED BY <1>1, <1>3, <2>1
<1>10. CASE EditSave
  <2>1. PICK updated \in Seq(Fits), at \in 1 .. Len(message) :
          /\ Len(updated) = Len(message)
          /\ \A i \in DOMAIN message : /\ updated[i].of = message[i].of /\ updated[i].status = message[i].status
                                       /\ updated[i].text \in {message[i].text, {0}}
          /\ \/ /\ at < Len(message) /\ modal' = [kind |-> "edit", index |-> at, captured |-> updated]
                /\ UNCHANGED <<message, soon>>
             \/ message' = updated /\ soon' = Append(soon, Save(updated)) /\ UNCHANGED modal
    BY <1>10, EditSaveFacts
  <2>2. UserActs /\ stored' = stored /\ DOMAIN updated = DOMAIN message
    BY <1>0, <1>10, <2>1 DEF EditSave
  <2>3. ASSUME NEW k \in Requests, Answering(k, updated) PROVE Answering(k, message)
    BY <2>1, <2>2, <2>3 DEF Answering, Generating
  <2>4. ASSUME NEW k \in Requests, Alone(k) PROVE AtMostAt(k, updated, Len(message))
    <3>1. k # 0
      BY DEF Requests
    <3> QED BY <2>1, <2>2, <2>4, <3>1 DEF Alone, AtMostAt
  <2>5. CASE modal' = [kind |-> "edit", index |-> at, captured |-> updated] /\ UNCHANGED <<message, soon>>
    <3>1. modal'.captured = updated /\ soon' = <<>>
      BY <1>1, <2>2, <2>5
    <3>2. \A i \in DOMAIN message : updated[i].text \subseteq message[i].text \cup {0}
      BY <2>1
    <3>3. Behind'
      BY <2>1, <2>5, <3>1, <3>2 DEF Behind
    <3>4. ASSUME NEW k \in Requests, Answering(k, message') \/ Answering(k, modal'.captured) PROVE Alone(k)'
      <4>1. Alone(k)
        BY <2>3, <2>5, <3>1, <3>4 DEF ApartInv, Apart
      <4> QED BY <2>2, <2>5, <4>1 DEF Alone
    <3> QED BY <3>3, <3>4 DEF ApartInv, Apart
  <2>6. CASE message' = updated /\ soon' = Append(soon, Save(updated)) /\ UNCHANGED modal
    <3>1. modal'.kind # "edit" /\ modal' = NoModal
      BY <1>1, <2>2, <2>6
    <3>2. Behind'
      BY <3>1 DEF Behind
    <3>3. ASSUME NEW k \in Requests
          PROVE  Answering(k, message') \/ (modal'.kind = "edit" /\ Answering(k, modal'.captured)) => Alone(k)'
      <4>1. Alone(k) => AtMostAt(k, message', Len(message))
        BY <2>4, <2>6
      <4>2. Alone(k) => \A n \in DOMAIN soon' : AtMostAt(k, soon'[n].messages, Len(message))
        BY <2>6, <4>1, SavedAtMostAt DEF Alone
      <4>3. Alone(k) => \A ms \in stored' : AtMostAt(k, ms, Len(message))
        BY <2>2 DEF Alone
      <4>4. Len(message') = Len(message) /\ (Answering(k, message') => Answering(k, message))
        BY <2>1, <2>3, <2>6
      <4> QED BY <3>1, <3>2, <4>1, <4>2, <4>3, <4>4, KeptApart
    <3> QED BY <3>2, <3>3 DEF ApartInv, Apart
  <2> QED BY <2>1, <2>5, <2>6
<1>11. ASSUME NEW i \in DOMAIN message, ActionEnabled(i) PROVE UserActs /\ Quiet(message)
  BY <1>11 DEF ActionEnabled, AnyGenerating, Quiet
<1>12. ASSUME NEW i \in DOMAIN message, Regenerate(i) PROVE ApartInv'
  <2>1. UserActs /\ Quiet(message) /\ modal' = modal
    BY <1>11, <1>12 DEF Regenerate
  <2>2. \A j \in DOMAIN message' : ~Generating(message'[j])
    BY <1>12, <2>1, RegenerateFacts DEF Quiet
  <2> QED BY <1>2, <2>1, <2>2
<1>13. ASSUME NEW i \in DOMAIN message, AskDelete(i) PROVE ApartInv'
  <2>1. /\ UserActs /\ modal' = [kind |-> "delete", index |-> i, captured |-> message] /\ UNCHANGED <<message, soon, stored>>
    BY <1>11, <1>13 DEF AskDelete
  <2>2. modal'.kind # "edit"
    BY <2>1
  <2> QED BY <1>3, <2>1, <2>2
<1>14. ASSUME NEW i \in DOMAIN message, RoleToggle(i) PROVE ApartInv'
  <2>1. UserActs /\ Quiet(message) /\ modal' = modal
    BY <1>11, <1>14 DEF RoleToggle
  <2>2. /\ message' \in Seq(Fits) /\ Len(message') = Len(message)
        /\ \A j \in DOMAIN message : message'[j].status = message[j].status
    BY <1>14, RoleToggleFacts
  <2>3. \A j \in DOMAIN message' : ~Generating(message'[j])
    BY <1>0, <2>1, <2>2 DEF Quiet, Generating
  <2> QED BY <1>2, <2>1, <2>3
<1>15. ASSUME NEW i \in DOMAIN message, StartEdit(i) PROVE ApartInv'
  <2>1. UserActs /\ UNCHANGED <<message, soon, stored, modal>>
    BY <1>11, <1>15 DEF StartEdit
  <2> QED BY <1>1, <1>3, <2>1
<1>16. ASSUME NEW b \in BOOLEAN, ResetConfig(b) PROVE ApartInv'
  <2>1. UserActs /\ stored' = {} /\ modal' = modal /\ (message' = <<>> \/ UNCHANGED <<message, soon>>)
    BY <1>16 DEF ResetConfig
  <2> QED BY <1>1, <1>2, <1>3, <2>1
<1>17. ASSUME NEW reload \in BOOLEAN, NEW b \in BOOLEAN, Mount(reload, b) PROVE ApartInv'
  <2>1. Quiet(message') /\ modal' = NoModal
    BY <1>0, <1>17, MountQuiet DEF Mount
  <2>2. modal'.kind # "edit"
    BY <2>1 DEF NoModal
  <2> QED BY <2>1, <2>2, QuietApart DEF Quiet
<1>18. ASSUME NEW n \in 0 .. MaxLength, EditCustomBody(n) PROVE ApartInv'
  <2>1. UserActs /\ modal' = modal
    BY <1>18, Zenon DEF EditCustomBody
  <2>2. \A j \in DOMAIN message' : ~Generating(message'[j])
    BY <1>18, CustomBodyFacts DEF Generating
  <2> QED BY <1>2, <2>1, <2>2
<1> QED BY <1>4, <1>5, <1>6, <1>7, <1>8, <1>9, <1>10, <1>12, <1>13, <1>14, <1>15, <1>16, <1>17, <1>18 DEF User

\* ApartInv holds in every reachable state if the user waits for the timers of 100 ms.
THEOREM ApartAlways ==
  ASSUME ~QuickUser
  PROVE  ChatSpec => [](ChatOK /\ CalmInv /\ ApartInv)
<1>1. ASSUME ChatInit PROVE ApartInv
  <2>1. message = Default /\ modal = NoModal
    BY <1>1 DEF ChatInit
  <2>2. modal.kind = "none"
    BY <2>1 DEF NoModal
  <2>3. ASSUME NEW k \in Requests PROVE ~Answering(k, message)
    BY <2>1, BuiltIn DEF Answering, Requests
  <2> QED BY <2>1, <2>2, <2>3 DEF ApartInv, Behind, Apart
<1>2. ASSUME ChatOK /\ CalmInv, ApartInv, [ChatNext]_chatVars PROVE ApartInv'
  <2>1. CASE ChatNext
    BY <1>2, <2>1, ApartEvents, ApartDialog, ApartUser DEF ChatNext
  <2>2. CASE UNCHANGED chatVars
    BY <1>2, <2>2 DEF chatVars, ApartInv, Behind, Apart, Alone
  <2> QED BY <1>2, <2>1, <2>2
<1>3. ChatSpec => [](ChatOK /\ CalmInv)
  BY CalmAlways
<1> QED BY <1>1, <1>2, <1>3, PTL DEF ChatSpec

\* A step that brings new text of a request whose answer is being generated brings it to the last message.
LEMMA NewTextAtEnd ==
  ASSUME ~QuickUser, ChatOK, CalmInv, ApartInv, ChatNext, NEW k \in Requests, Answering(k, message),
         NEW i \in DOMAIN message, i \in DOMAIN message', k \in message'[i].text, k \notin message[i].text
  PROVE  i = Len(message)
<1>0. /\ message \in Seq(Fits) /\ OnlyLast(message) /\ OnlyLastGenerates /\ Alone(k) /\ ~Quiet(message)
      /\ message' # message /\ k # 0
  BY DEF ChatOK, CopiesOK, CalmInv, OnlyLastGenerates, ApartInv, Apart, Answering, Quiet, Requests
<1>1. ASSUME NEW K, Reported(K) PROVE i = Len(message)
  BY <1>0, <1>1, TouchedPlaces DEF Reported
<1>2. CASE Reports
  BY <1>1, <1>2, ReportsTouch
<1>3. message' # Default /\ message' # Imported /\ message' # <<>>
  <2>1. \A j \in DOMAIN Default : Default[j].text = {0}
    BY BuiltIn
  <2>2. \A j \in DOMAIN Imported : Imported[j].text = {0}
    BY BuiltIn
  <2> QED BY <1>0, <2>1, <2>2
<1>4. later = <<>> /\ modal.kind # "delete" /\ LastGenerating(message)
  BY <1>0, QuietWhenLastIs DEF CalmInv, Waits, Asks
<1>5. CASE Timers
  BY <1>0, <1>3, <1>4, <1>5 DEF Timers, SoonTimer, LaterSend, LaterAnswer
<1>6. CASE Dialog
  <2>1. CASE EditRegenerate \/ EditKeep
    <3>1. modal.kind = "edit" /\ modal.captured \in Seq(Fits) /\ modal.index \in 0 .. Len(modal.captured)
      BY <2>1 DEF EditRegenerate, EditKeep, ChatOK, CopiesOK, Modals, PageOK
    <3>2. message'[i] = modal.captured[i]
      <4>1. CASE message' = SubSeq(modal.captured, 1, modal.index)
        <5>1. i \in DOMAIN SubSeq(modal.captured, 1, modal.index)
          BY <4>1
        <5>2. i \in 1 .. modal.index
          BY <3>1, <5>1, CutFacts
        <5> QED BY <3>1, <4>1, <5>2, CutFacts
      <4>2. CASE message' = modal.captured
        BY <4>2
      <4> QED BY <2>1, <4>1, <4>2 DEF EditRegenerate, EditKeep
    <3>3. modal.captured[i].text \subseteq message[i].text \cup {0}
      BY <3>1 DEF ApartInv, Behind
    <3> QED BY <1>0, <3>2, <3>3
  <2>2. CASE ImportOk
    BY <1>3, <2>2 DEF ImportOk, ChatOK, PageOK
  <2> QED BY <1>0, <1>4, <1>6, <2>1, <2>2 DEF Dialog, DeleteOk, CancelModal
<1>7. CASE User
  <2>1. CASE Stop
    BY <1>1, <2>1, StopTouches
  <2>2. CASE EditSave
    <3>1. PICK updated \in Seq(Fits) :
            /\ \A j \in DOMAIN message : updated[j].text \in {message[j].text, {0}}
            /\ message' = updated \/ message' = message
      BY <2>2, EditSaveFacts
    <3> QED BY <1>0, <3>1
  <2>3. ASSUME NEW reload \in BOOLEAN, NEW b \in BOOLEAN, Mount(reload, b) PROVE i = Len(message)
    <3>1. PICK loaded \in Seq(Fits) :
             /\ loaded \in stored \/ loaded = Default
             /\ \/ message' = loaded
                \/ loaded # <<>> /\ \E y \in Fits : message' = SetLast(loaded, y) /\ y.text = Last(loaded).text
      BY <2>3, MountFacts
    <3>2. i \in DOMAIN loaded /\ k \in loaded[i].text
      <4>1. CASE message' = loaded
        BY <4>1
      <4>2. ASSUME loaded # <<>>, NEW y \in Fits, message' = SetLast(loaded, y), y.text = Last(loaded).text
            PROVE  i \in DOMAIN loaded /\ k \in loaded[i].text
        <5>1. /\ DOMAIN message' = DOMAIN loaded
              /\ \A j \in DOMAIN loaded : message'[j] = IF j = Len(loaded) THEN y ELSE loaded[j]
          BY <4>2, SetLastFacts
        <5> QED BY <4>2, <5>1 DEF Last
      <4> QED BY <3>1, <4>1, <4>2
    <3>3. loaded \in stored
      BY <1>0, <3>1, <3>2, BuiltIn
    <3> QED BY <1>0, <3>2, <3>3 DEF Alone, AtMostAt
  <2>4. ASSUME NEW n \in 0 .. MaxLength, EditCustomBody(n) PROVE FALSE
    BY <2>4, CustomBodyFacts
  <2>5. ASSUME NEW j \in DOMAIN message, Regenerate(j) \/ AskDelete(j) \/ RoleToggle(j) \/ StartEdit(j) PROVE FALSE
    BY <1>0, <2>5 DEF Regenerate, AskDelete, RoleToggle, StartEdit, ActionEnabled, AnyGenerating, Quiet
  <2>6. ASSUME NEW b \in BOOLEAN, ResetConfig(b) PROVE FALSE
    BY <1>0, <1>3, <2>6 DEF ResetConfig
  <2>7. ASSUME Clear \/ ImportFile \/ ChangeLanguage \/ CancelEdit PROVE FALSE
    BY <1>0, <1>3, <2>7 DEF Clear, ImportFile, ChangeLanguage, CancelEdit
  <2>8. ASSUME NEW j \in Requests, NEW kind \in {"stream", "fetch"}, Send(j, kind) PROVE FALSE
    BY <1>4, <2>8 DEF Send
  <2> QED BY <1>7, <2>1, <2>2, <2>3, <2>4, <2>5, <2>6, <2>7, <2>8 DEF User
<1>8. CASE StoreRefuses
  BY <1>0, <1>8 DEF StoreRefuses
<1> QED BY <1>2, <1>5, <1>6, <1>7, <1>8 DEF ChatNext

\* As long as the answer to a request is shown as being generated, what handleSSE or the fetch of that request
\* reports goes to it and to no other message, if the user does nothing in the 100 ms before a regeneration is
\* sent: not through a late chunk, the dialog of handleEditSave that brings an old conversation back, or a reload.
THEOREM AnswersAreNotMixed ==
  ASSUME ~QuickUser
  PROVE  ChatSpec => AnswersNotMixed
<1> DEFINE Step ==
      \A k \in Requests : (\E i \in DOMAIN message : message[i].of = k /\ message[i].role = "assistant" /\ Generating(message[i]))
        => \A i \in DOMAIN message :
             i \in DOMAIN message' /\ k \in message'[i].text \ message[i].text /\ message'[i].id = message[i].id
               => message[i].of = k
<1>1. ASSUME ChatOK /\ CalmInv /\ ApartInv, [ChatNext]_chatVars PROVE [Step]_chatVars
  <2> SUFFICES ASSUME ChatNext, NEW k \in Requests, NEW j \in DOMAIN message, message[j].of = k, Generating(message[j]),
                      NEW i \in DOMAIN message, i \in DOMAIN message', k \in message'[i].text, k \notin message[i].text
               PROVE  message[i].of = k
    BY <1>1
  <2>1. Answering(k, message)
    BY DEF Answering
  <2>2. i = Len(message)
    BY <1>1, <2>1, NewTextAtEnd
  <2>3. j = Len(message)
    BY <1>1 DEF CalmInv, OnlyLastGenerates, OnlyLast
  <2> QED BY <2>2, <2>3
<1>2. ChatSpec => [](ChatOK /\ CalmInv /\ ApartInv)
  BY ApartAlways
<1> QED BY <1>1, <1>2, PTL DEF ChatSpec, AnswersNotMixed
=============================================================================
