---------------------------- MODULE TaskPolling ----------------------------
(***************************************************************************)
(* Asynchronous tasks (music, video) from their submission to their last    *)
(* billing step: RelayTask (controller/relay.go) charges and inserts a      *)
(* task, TaskPollingLoop (service/task_polling.go) sweeps the tasks that    *)
(* timed out and polls the others, and a user who asks for a Gemini or      *)
(* Vertex task makes tryRealtimeFetch (relay/relay_task.go) write its       *)
(* status too.  A poller works on copies of the rows that it read at the    *)
(* start of a round; what it writes races with the other actors.            *)
(***************************************************************************)
EXTENDS Integers

CONSTANTS
  Tasks,
  Pollers,       \* the processes that run TaskPollingLoop: the master, or two during a redeploy
  Fetchers,      \* concurrent requests that reach tryRealtimeFetch; none for most channels
  Platform,      \* "suno" or "video"
  Quota,         \* what RelayTask settles for a task, Task.Quota; a free task is never billed
  Estimates,     \* what may have been pre-consumed for it, on an earlier channel
  Actuals,       \* the final quotas a successful task may have, 0 for no adjustment
  SweepEnabled,  \* TaskTimeoutMinutes > 0
  Legacy,        \* the tasks submitted before legacyTaskCutoff
  SubLimited,    \* a subscription may refuse to pay more
  ChannelMayGo,  \* the tasks' channel may be deleted
  FetchesEnd,    \* RELAY_TIMEOUT is set: a request to the provider ends, answered or not
  DBFaults, Crashes,
  MaxFetches,    \* bound: the requests each fetcher makes
  MaxRefunds     \* bound: how often a Suno task may be refunded

ASSUME TaskAssumption ==
  /\ Platform \in {"suno", "video"}
  /\ Quota \in Nat \ {0} /\ Estimates \subseteq Nat /\ Actuals \subseteq Nat
  /\ MaxFetches \in Nat /\ MaxRefunds \in Nat
  /\ Legacy \subseteq Tasks
  /\ SweepEnabled \in BOOLEAN /\ SubLimited \in BOOLEAN /\ ChannelMayGo \in BOOLEAN
  /\ FetchesEnd \in BOOLEAN
  /\ DBFaults \in BOOLEAN /\ Crashes \in BOOLEAN

VARIABLES
  submit,        \* where RelayTask is
  status, complete,      \* the task's row: status, and whether progress is "100%"
  reason,        \* the row has a fail_reason though its status is not FAILURE
  upstream,      \* what the provider has made of the task
  expired,       \* submit_time < cutoff
  channelGone,
  paid, tokPaid, \* net quota the task has cost the funding source and the token
  pc,            \* where each poller is
  seen,          \* the status in the poller's copy of the row, "none" when it has none
  answer,        \* the provider's answer the poller is applying
  bill,          \* the adjustment the poller is making for the task
  fpc, ftask, fseen, fanswer, fetches,   \* each fetcher, and its copy of the row
  disturbed      \* history: a fault or a crash hit the task's billing

row == <<status, complete, reason>>
rows == <<submit, row>>
env == <<upstream, expired, channelGone>>
money == <<paid, tokPaid>>
poller == <<pc, seen, answer, bill>>
fetcher == <<fpc, ftask, fseen, fanswer, fetches>>
vars == <<rows, env, money, poller, fetcher, disturbed>>

\* SUBMITTED and QUEUED are handled like IN_PROGRESS.
Unfinished == {"NOT_START", "IN_PROGRESS"}
Final == {"SUCCESS", "FAILURE"}
Statuses == {"none"} \cup Unfinished \cup Final
\* AT100: unfinished, with progress "100%".  FAILING and TAINTED: Suno gives a reason for
\* a failure although the status is unfinished, or SUCCESS.
Answers == {"none", "IN_PROGRESS", "AT100", "FAILING", "TAINTED"} \cup Final

PollerLabels == {"sleep", "sweep", "sweepFunding", "sweepToken", "channel", "poll", "fetched",
                 "items", "pollFunding", "pollToken", "save"}

Init ==
  /\ submit = [t \in Tasks |-> "start"]
  /\ status = [t \in Tasks |-> "none"]
  /\ complete = [t \in Tasks |-> FALSE]
  /\ reason = [t \in Tasks |-> FALSE]
  /\ upstream = [t \in Tasks |-> "IN_PROGRESS"]
  /\ expired = [t \in Tasks |-> FALSE]
  /\ channelGone = FALSE
  /\ paid = [t \in Tasks |-> 0]
  /\ tokPaid = [t \in Tasks |-> 0]
  /\ pc = [p \in Pollers |-> "sleep"]
  /\ seen = [p \in Pollers |-> [t \in Tasks |-> "none"]]
  /\ answer = [p \in Pollers |-> [t \in Tasks |-> "none"]]
  /\ bill = [p \in Pollers |-> [t \in Tasks |-> 0]]
  /\ fpc = [f \in Fetchers |-> "idle"]
  /\ ftask \in [Fetchers -> Tasks]
  /\ fseen = [f \in Fetchers |-> "none"]
  /\ fanswer = [f \in Fetchers |-> "none"]
  /\ fetches = [f \in Fetchers |-> 0]
  /\ disturbed = [t \in Tasks |-> FALSE]

-----------------------------------------------------------------------------
(* The database. *)

\* A statement about t returns an error and has no effect.
Fails(t) == DBFaults /\ disturbed' = [disturbed EXCEPT ![t] = TRUE]

\* PostConsumeUserSubscriptionDelta refuses to go beyond the subscription's total.
FundingRefuses(t) == SubLimited /\ disturbed' = [disturbed EXCEPT ![t] = TRUE]

\* The row gets the status of an answer and its progress, "100%" with a final status.  A
\* provider may report a success below 100%: no listing tells it from one at 100%.
Write(t, a) ==
  /\ status' = [status EXCEPT ![t] = IF a = "AT100" THEN "IN_PROGRESS" ELSE a]
  /\ complete' = [complete EXCEPT ![t] = a \in Final \cup {"AT100"}]
  /\ reason' = [reason EXCEPT ![t] = FALSE]

\* Mutant: Save instead of a guarded update.
UpdateUnguarded(t, from) == TRUE

\* UpdateWithStatus: the update happens only if the row still has the status `from`.
UpdateWithStatus(t, from) == status[t] = from

\* Mutant: progress is not looked at.
ListedByStatus(t) == status[t] \in Unfinished

\* The rows GetTimedOutUnfinishedTasks and GetAllUnFinishSyncTasks return.
Listed(t) == status[t] \in Unfinished /\ ~complete[t]

\* A query that fails is taken for an empty result, a bulk update that fails is logged.
QueryResults == IF DBFaults THEN BOOLEAN ELSE {TRUE}

-----------------------------------------------------------------------------
(* RelayTask: the session is settled with the task's quota, then the task is inserted. *)

\* A settlement that fails is only logged: the task has cost what was pre-consumed, but
\* its Quota says otherwise.
SettleSubmission(t) ==
  /\ submit[t] = "start"
  /\ submit' = [submit EXCEPT ![t] = "charged"]
  /\ \/ /\ paid' = [paid EXCEPT ![t] = Quota]
        /\ tokPaid' = [tokPaid EXCEPT ![t] = Quota]
        /\ UNCHANGED disturbed
     \/ \E e \in Estimates \ {Quota} :
          /\ Fails(t) \/ (e < Quota /\ FundingRefuses(t))
          /\ paid' = [paid EXCEPT ![t] = e]
          /\ tokPaid' = [tokPaid EXCEPT ![t] = e]
  /\ UNCHANGED <<row, env, poller, fetcher>>

\* An insert that fails is only logged.
Insert(t) ==
  /\ submit[t] = "charged"
  /\ \/ /\ submit' = [submit EXCEPT ![t] = "inserted"]
        /\ Write(t, "NOT_START")
        /\ UNCHANGED disturbed
     \/ /\ Fails(t)
        /\ submit' = [submit EXCEPT ![t] = "lost"]
        /\ UNCHANGED row
  /\ UNCHANGED <<env, money, poller, fetcher>>

-----------------------------------------------------------------------------
(* One round of TaskPollingLoop. *)

Goto(p, label) == pc' = [pc EXCEPT ![p] = label]
Drop(p, t) == seen' = [seen EXCEPT ![p][t] = "none"]
Copies(S) == [t \in Tasks |-> IF t \in S THEN status[t] ELSE "none"]
NoneLeft(p) == \A t \in Tasks : seen[p][t] = "none"

\* The round begins: sweepTimedOutTasks reads the rows that timed out.
ListTimedOut(p) ==
  /\ pc[p] = "sleep"
  /\ Goto(p, "sweep")
  /\ \E ok \in QueryResults :
       seen' = [seen EXCEPT ![p] = Copies({t \in Tasks : ok /\ SweepEnabled /\ Listed(t) /\ expired[t]})]
  /\ UNCHANGED <<rows, env, money, answer, bill, fetcher, disturbed>>

\* Mutant: the guarded update is not made and the task is left as it was.
SweepTaskNever(p, t) ==
  /\ pc[p] = "sweep" /\ seen[p][t] # "none"
  /\ Drop(p, t)
  /\ UNCHANGED <<rows, env, money, pc, answer, bill, fetcher, disturbed>>

\* A timed-out task fails and, unless it is a legacy one, is refunded.
SweepTask(p, t) ==
  /\ pc[p] = "sweep" /\ seen[p][t] # "none"
  /\ Drop(p, t)
  /\ \/ /\ UpdateWithStatus(t, seen[p][t])
        /\ Write(t, "FAILURE")
        /\ bill' = [bill EXCEPT ![p][t] = IF t \in Legacy THEN 0 ELSE -Quota]
        /\ Goto(p, IF t \in Legacy THEN "sweep" ELSE "sweepFunding")
        /\ UNCHANGED disturbed
     \/ /\ ~UpdateWithStatus(t, seen[p][t])
        /\ UNCHANGED <<pc, row, bill, disturbed>>
     \/ /\ Fails(t)
        /\ UNCHANGED <<pc, row, bill>>
  /\ UNCHANGED <<submit, env, money, answer, fetcher>>

\* GetAllUnFinishSyncTasks: the copies the rest of the round works on.
ListUnfinished(p) ==
  /\ pc[p] = "sweep" /\ NoneLeft(p)
  /\ Goto(p, "channel")
  /\ \E ok \in QueryResults : seen' = [seen EXCEPT ![p] = Copies({t \in Tasks : ok /\ Listed(t)})]
  /\ UNCHANGED <<rows, env, money, answer, bill, fetcher, disturbed>>

\* The channel is looked up before its tasks are polled.
ChannelFound(p) ==
  /\ pc[p] = "channel" /\ ~channelGone
  /\ Goto(p, "poll")
  /\ UNCHANGED <<rows, env, money, seen, answer, bill, fetcher, disturbed>>

\* Mutant: the update has no condition on the id.
ChannelMissingAll(p) ==
  /\ pc[p] = "channel" /\ channelGone
  /\ status' = [t \in Tasks |-> "FAILURE"]
  /\ complete' = [t \in Tasks |-> TRUE]
  /\ reason' = [t \in Tasks |-> FALSE]
  /\ seen' = [seen EXCEPT ![p] = [t \in Tasks |-> "none"]]
  /\ Goto(p, "sleep")
  /\ UNCHANGED <<submit, env, money, answer, bill, fetcher, disturbed>>

\* TaskBulkUpdateByID: all tasks of a channel that is gone fail, whatever they are now.
ChannelMissing(p) ==
  /\ pc[p] = "channel" /\ channelGone
  /\ \E ok \in QueryResults :
       /\ status' = [t \in Tasks |-> IF ok /\ seen[p][t] # "none" THEN "FAILURE" ELSE status[t]]
       /\ complete' = [t \in Tasks |-> complete[t] \/ (ok /\ seen[p][t] # "none")]
       /\ reason' = [t \in Tasks |-> reason[t] /\ ~(ok /\ seen[p][t] # "none")]
  /\ seen' = [seen EXCEPT ![p] = [t \in Tasks |-> "none"]]
  /\ Goto(p, "sleep")
  /\ UNCHANGED <<submit, env, money, answer, bill, fetcher, disturbed>>

RoundOver(p) ==
  /\ pc[p] \in {"poll", "items"} /\ NoneLeft(p)
  /\ Goto(p, "sleep")
  /\ UNCHANGED <<rows, env, money, seen, answer, bill, fetcher, disturbed>>

-----------------------------------------------------------------------------
(* updateVideoSingleTask *)

\* An error the provider answers with counts as a failure of the task.  The progress it
\* reports is taken over as it is, also "100%" for a task that it has not finished.
VideoAnswers(t) ==
  {upstream[t], "FAILURE"} \cup (IF upstream[t] = "IN_PROGRESS" THEN {"AT100"} ELSE {})

\* The provider is asked about one task.
FetchTask(p, t) ==
  /\ pc[p] = "poll" /\ Platform = "video" /\ seen[p][t] # "none"
  /\ \E a \in VideoAnswers(t) : answer' = [answer EXCEPT ![p][t] = a]
  /\ Goto(p, "fetched")
  /\ UNCHANGED <<rows, env, money, seen, bill, fetcher, disturbed>>

\* No answer, an answer that cannot be parsed, or 429: the task keeps its status.
FetchNothing(p, t) ==
  /\ pc[p] = "poll" /\ Platform = "video" /\ seen[p][t] # "none"
  /\ Drop(p, t)
  /\ UNCHANGED <<rows, env, money, pc, answer, bill, fetcher, disturbed>>

\* Mutant: the quota of the copy is not subtracted.
FinalBillsWhole(a) ==
  IF a = "FAILURE" THEN {-Quota} ELSE {q : q \in Actuals}

\* What a task that got its final status still has to pay: settleTaskBillingOnComplete
\* for a success (0 when the quota is not adjusted), RefundTaskQuota for a failure.
FinalBills(a) ==
  IF a = "FAILURE" THEN {-Quota} ELSE {IF q = 0 THEN 0 ELSE q - Quota : q \in Actuals}

\* The guarded update; only its winner touches the money.
ApplyAnswer(p, t) ==
  /\ pc[p] = "fetched" /\ answer[p][t] # "none"
  /\ answer' = [answer EXCEPT ![p][t] = "none"]
  /\ Drop(p, t)
  /\ \/ /\ UpdateWithStatus(t, seen[p][t])
        /\ Write(t, answer[p][t])
        /\ \E b \in IF answer[p][t] \in Final THEN FinalBills(answer[p][t]) ELSE {0} :
             /\ bill' = [bill EXCEPT ![p][t] = b]
             /\ Goto(p, IF b = 0 THEN "poll" ELSE "pollFunding")
        /\ UNCHANGED disturbed
     \/ /\ ~UpdateWithStatus(t, seen[p][t])
        /\ Goto(p, "poll")
        /\ UNCHANGED <<row, bill, disturbed>>
     \/ /\ Fails(t)
        /\ Goto(p, "poll")
        /\ UNCHANGED <<row, bill>>
  /\ UNCHANGED <<submit, env, money, fetcher>>

-----------------------------------------------------------------------------
(* updateSunoTasks *)

\* The provider may give a reason for a failure with any status.
SunoAnswers(t) ==
  {upstream[t]} \cup (IF upstream[t] = "SUCCESS" THEN {"TAINTED"} ELSE {"FAILING"})

\* What RefundTaskQuota is called for: FAILURE, or any status with a reason.
ReasonGiven == {"FAILING", "TAINTED"}
StatusOf(a) == CASE a = "FAILING" -> "IN_PROGRESS" [] a = "TAINTED" -> "SUCCESS" [] OTHER -> a

\* One request for all tasks; the answer may leave some of them out.
FetchBatch(p) ==
  /\ pc[p] = "poll" /\ Platform = "suno" /\ ~NoneLeft(p)
  /\ \E a \in [Tasks -> Answers] :
       /\ \A t \in Tasks : a[t] \in IF seen[p][t] = "none" THEN {"none"}
                                    ELSE {"none"} \cup SunoAnswers(t)
       /\ answer' = [answer EXCEPT ![p] = a]
       /\ seen' = [seen EXCEPT ![p] = [t \in Tasks |-> IF a[t] = "none" THEN "none" ELSE @[t]]]
  /\ Goto(p, "items")
  /\ UNCHANGED <<rows, env, money, bill, fetcher, disturbed>>

\* task.Update(): Save writes the copy over whatever the row is now.
SaveCopy(p, t, a) ==
  /\ \/ /\ status' = [status EXCEPT ![t] = StatusOf(a)]
        /\ complete' = [complete EXCEPT ![t] = a # "IN_PROGRESS"]
        /\ reason' = [reason EXCEPT ![t] = a \in ReasonGiven]
        /\ UNCHANGED disturbed
     \/ Fails(t) /\ UNCHANGED row
  /\ answer' = [answer EXCEPT ![p][t] = "none"]
  /\ Drop(p, t)

\* An item that shows no failure is saved if taskNeedsUpdate finds any difference.
SunoItem(p, t) ==
  /\ pc[p] = "items" /\ answer[p][t] \in {"IN_PROGRESS", "SUCCESS"}
  /\ \/ SaveCopy(p, t, answer[p][t])
     \/ /\ answer[p][t] = seen[p][t]
        /\ answer' = [answer EXCEPT ![p][t] = "none"]
        /\ Drop(p, t)
        /\ UNCHANGED <<row, disturbed>>
  /\ UNCHANGED <<submit, env, money, pc, bill, fetcher>>

\* A failed one, or one with a reason, is refunded first and saved afterwards, with the
\* status the provider gave it.  Bound: MaxRefunds times.
SunoFailure(p, t) ==
  /\ pc[p] = "items" /\ answer[p][t] \in {"FAILURE"} \cup ReasonGiven
  /\ paid[t] > Quota - MaxRefunds * Quota
  /\ bill' = [bill EXCEPT ![p][t] = -Quota]
  /\ Goto(p, "pollFunding")
  /\ UNCHANGED <<rows, env, money, seen, answer, fetcher, disturbed>>

SunoSave(p, t) ==
  /\ pc[p] = "save" /\ bill[p][t] # 0
  /\ SaveCopy(p, t, answer[p][t])
  /\ bill' = [bill EXCEPT ![p][t] = 0]
  /\ Goto(p, "items")
  /\ UNCHANGED <<submit, env, money, fetcher>>

-----------------------------------------------------------------------------
(* RefundTaskQuota and RecalculateTaskQuota: the funding source, then the token. *)

\* Where the poller goes on after a task's billing.
AfterBilling(p) ==
  IF pc[p] \in {"sweepFunding", "sweepToken"} THEN "sweep" ELSE IF Platform = "suno" THEN "save" ELSE "poll"
\* SunoSave still needs to know its task.
Billed(p, t) == bill' = [bill EXCEPT ![p][t] = IF AfterBilling(p) = "save" THEN @ ELSE 0]

\* When the funding source cannot be adjusted the token is left alone.
AdjustFunding(p, t) ==
  /\ pc[p] \in {"sweepFunding", "pollFunding"} /\ bill[p][t] # 0
  /\ \/ /\ paid' = [paid EXCEPT ![t] = @ + bill[p][t]]
        /\ Goto(p, IF pc[p] = "sweepFunding" THEN "sweepToken" ELSE "pollToken")
        /\ UNCHANGED <<bill, disturbed>>
     \/ /\ Fails(t) \/ (bill[p][t] > 0 /\ FundingRefuses(t))
        /\ Goto(p, AfterBilling(p))
        /\ Billed(p, t)
        /\ UNCHANGED paid
  /\ UNCHANGED <<rows, env, tokPaid, seen, answer, fetcher>>

\* A token that cannot be adjusted is only logged.
AdjustToken(p, t) ==
  /\ pc[p] \in {"sweepToken", "pollToken"} /\ bill[p][t] # 0
  /\ \/ tokPaid' = [tokPaid EXCEPT ![t] = @ + bill[p][t]] /\ UNCHANGED disturbed
     \/ Fails(t) /\ UNCHANGED tokPaid
  /\ Goto(p, AfterBilling(p))
  /\ Billed(p, t)
  /\ UNCHANGED <<rows, env, paid, seen, answer, fetcher>>

-----------------------------------------------------------------------------
(* tryRealtimeFetch: a user asks for a Gemini or Vertex task. *)

FGoto(f, label) == fpc' = [fpc EXCEPT ![f] = label]

\* The row is read, whatever its status is.
FetchStart(f, t) ==
  /\ fpc[f] = "idle" /\ fetches[f] < MaxFetches
  /\ status[t] # "none" /\ ~channelGone
  /\ ftask' = [ftask EXCEPT ![f] = t]
  /\ fseen' = [fseen EXCEPT ![f] = status[t]]
  /\ fetches' = [fetches EXCEPT ![f] = @ + 1]
  /\ FGoto(f, "ask")
  /\ UNCHANGED <<rows, env, money, poller, fanswer, disturbed>>

FetchAnswer(f) ==
  /\ fpc[f] = "ask"
  /\ \/ /\ \E a \in {upstream[ftask[f]], "FAILURE"} : fanswer' = [fanswer EXCEPT ![f] = a]
        /\ FGoto(f, "write")
     \/ FGoto(f, "idle") /\ UNCHANGED fanswer
  /\ UNCHANGED <<rows, env, money, poller, ftask, fseen, fetches, disturbed>>

\* The guarded update; its outcome is ignored and no billing follows.
FetchWrite(f) ==
  /\ fpc[f] = "write"
  /\ \/ UpdateWithStatus(ftask[f], fseen[f]) /\ Write(ftask[f], fanswer[f])
     \/ /\ ~UpdateWithStatus(ftask[f], fseen[f]) \/ DBFaults
        /\ UNCHANGED row
  /\ FGoto(f, "idle")
  /\ UNCHANGED <<submit, env, money, poller, ftask, fseen, fanswer, fetches, disturbed>>

-----------------------------------------------------------------------------
(* The environment. *)

UpstreamEnds(t) ==
  /\ upstream[t] = "IN_PROGRESS" /\ submit[t] # "start"
  /\ \E s \in Final : upstream' = [upstream EXCEPT ![t] = s]
  /\ UNCHANGED <<rows, expired, channelGone, money, poller, fetcher, disturbed>>

TimeoutPasses(t) ==
  /\ submit[t] = "inserted" /\ ~expired[t]
  /\ expired' = [expired EXCEPT ![t] = TRUE]
  /\ UNCHANGED <<rows, upstream, channelGone, money, poller, fetcher, disturbed>>

DeleteChannel ==
  /\ ChannelMayGo /\ ~channelGone
  /\ channelGone' = TRUE
  /\ UNCHANGED <<rows, upstream, expired, money, poller, fetcher, disturbed>>

\* A poller's process dies and is started again: what it was billing is forgotten.
Crash(p) ==
  /\ Crashes /\ pc[p] # "sleep"
  /\ Goto(p, "sleep")
  /\ seen' = [seen EXCEPT ![p] = [t \in Tasks |-> "none"]]
  /\ answer' = [answer EXCEPT ![p] = [t \in Tasks |-> "none"]]
  /\ bill' = [bill EXCEPT ![p] = [t \in Tasks |-> 0]]
  /\ disturbed' = [t \in Tasks |-> disturbed[t] \/ bill[p][t] # 0]
  /\ UNCHANGED <<rows, env, money, fetcher>>

Round(p) ==
  \/ ListTimedOut(p) \/ ListUnfinished(p) \/ ChannelFound(p) \/ ChannelMissing(p) \/ RoundOver(p)
  \/ FetchBatch(p)
  \/ \E t \in Tasks :
       \/ SweepTask(p, t) \/ FetchTask(p, t) \/ FetchNothing(p, t) \/ ApplyAnswer(p, t)
       \/ SunoItem(p, t) \/ SunoFailure(p, t) \/ SunoSave(p, t)
       \/ AdjustFunding(p, t) \/ AdjustToken(p, t)

Fetch(f) == (\E t \in Tasks : FetchStart(f, t)) \/ FetchAnswer(f) \/ FetchWrite(f)

Next ==
  \/ \E t \in Tasks : SettleSubmission(t) \/ Insert(t) \/ UpstreamEnds(t) \/ TimeoutPasses(t)
  \/ \E p \in Pollers : Round(p) \/ Crash(p)
  \/ \E f \in Fetchers : Fetch(f)
  \/ DeleteChannel

Spec == Init /\ [][Next]_vars

\* The poller waits for a provider, or would be about to.
Asking(p) == pc[p] = "poll" /\ ~NoneLeft(p)

\* TaskPollingLoop runs forever, and a timeout passes.  A provider need not answer, but
\* only RELAY_TIMEOUT keeps one that hangs from stopping the loop, its sweep included.
Fairness ==
  /\ \A p \in Pollers : WF_vars(Round(p) /\ (FetchesEnd \/ ~Asking(p)))
  /\ \A t \in Tasks : WF_vars(TimeoutPasses(t)) /\ WF_vars(Insert(t))

FairSpec == Spec /\ Fairness

-----------------------------------------------------------------------------
(* Properties. *)

\* Only a task that was inserted has a row.
RowsOK ==
  /\ submit \in [Tasks -> {"start", "charged", "inserted", "lost"}]
  /\ status \in [Tasks -> Statuses] /\ complete \in [Tasks -> BOOLEAN] /\ reason \in [Tasks -> BOOLEAN]
  /\ \A t \in Tasks : submit[t] = "inserted" <=> status[t] # "none"

MoneyOK == paid \in [Tasks -> Int] /\ tokPaid \in [Tasks -> Int] /\ disturbed \in [Tasks -> BOOLEAN]

PollersOK ==
  /\ pc \in [Pollers -> PollerLabels] /\ seen \in [Pollers -> [Tasks -> Statuses]]
  /\ answer \in [Pollers -> [Tasks -> Answers]] /\ bill \in [Pollers -> [Tasks -> Int]]

FetchersOK ==
  /\ fpc \in [Fetchers -> {"idle", "ask", "write"}] /\ ftask \in [Fetchers -> Tasks]
  /\ fseen \in [Fetchers -> Statuses] /\ fanswer \in [Fetchers -> Answers]
  /\ fetches \in [Fetchers -> 0 .. MaxFetches]

EnvOK == upstream \in [Tasks -> {"IN_PROGRESS"} \cup Final] /\ expired \in [Tasks -> BOOLEAN] /\ channelGone \in BOOLEAN

\* The rows, the pollers' copies and their bills keep their types.
TypeOK == RowsOK /\ MoneyOK /\ PollersOK /\ FetchersOK /\ EnvOK

\* No poller is billing t.
Quiet(t) == \A p \in Pollers : bill[p][t] = 0

\* Whatever fails and however pollers overlap, the refunds of a task are within what it
\* was charged: none is given twice, none leaves the user or the token with a profit.
RefundWithinCharge == \A t \in Tasks : paid[t] >= 0 /\ tokPaid[t] >= 0

\* A row that says the task failed: its status does, or a reason does whatever the status.
Failed(t) == status[t] = "FAILURE" \/ reason[t]
Succeeded(t) == status[t] = "SUCCESS" /\ ~reason[t]

\* A task the provider put at 100% without finishing it is neither polled nor swept again.
TakenForDone(t) == status[t] \in Unfinished /\ complete[t] /\ ~reason[t]

\* Between billing steps a task has cost what its row says: nothing when it failed, also
\* when Suno says SUCCESS and gives a reason, its final quota when it succeeded, the
\* submitted quota as long as it is unfinished, whether it is still polled or not.
ChargeMatchesStatus ==
  \A t \in Tasks \ Legacy :
    submit[t] = "inserted" /\ Quiet(t) /\ ~disturbed[t] =>
      /\ Failed(t) => paid[t] = 0
      /\ Succeeded(t) => paid[t] \in {Quota} \cup (Actuals \ {0})
      /\ Listed(t) \/ TakenForDone(t) => paid[t] = Quota
      /\ tokPaid[t] = paid[t]

\* A final status is never left: the comment of sweepTimedOutTasks says that the guarded
\* update keeps it from overwriting a task that was advanced in the meantime.
FinalIsFinal == [][\A t \in Tasks : status[t] \in Final => status'[t] = status[t]]_vars

\* Every task that was inserted ends, and its billing with it, even if its provider
\* never answers: the sweep sees to it.  The one exception is a task that an unfinished
\* answer put at 100%: it stays as it is, charged, and no poller looks at it again.
EventuallyFinal ==
  \A t \in Tasks :
    status[t] # "none" ~> (Failed(t) \/ Succeeded(t) \/ TakenForDone(t)) /\ Quiet(t)
=============================================================================
