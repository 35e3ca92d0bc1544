------------------------- MODULE TaskPollingProofs -------------------------
(***************************************************************************)
(* Proofs about TaskPolling: types for every instance; for video tasks,    *)
(* however many pollers overlap, what a task costs and that it ends once.  *)
(***************************************************************************)
EXTENDS TaskPolling, TLAPS

USE DEF rows, row, env, money, poller, fetcher

Billing == {"sweepFunding", "sweepToken", "pollFunding", "pollToken"}
SunoLabels == {"items", "pollFunding", "pollToken", "save"}

\* What poller p remembers of task t, against where it is.
CopyInv(p, t) ==
  /\ seen[p][t] # "none" => submit[t] = "inserted"
  /\ answer[p][t] # "none" => seen[p][t] # "none"
  /\ answer[p][t] # "none" => pc[p] \in IF Platform = "video" THEN {"fetched"} ELSE SunoLabels
  /\ answer[p][t] \in ReasonGiven => Platform = "suno"
  /\ answer[p][t] = "AT100" => Platform = "video"

BillInv(p, t) ==
  /\ bill[p][t] # 0 => pc[p] \in Billing \cup {"save"}
  /\ bill[p][t] # 0 /\ Platform = "suno" /\ pc[p] \in SunoLabels => answer[p][t] # "none"

\* A poller works on one task at a time.
OneTask(p) ==
  /\ pc[p] = "fetched" => Platform = "video"
  /\ pc[p] \in {"items", "save"} => Platform = "suno"
  /\ \A t, u \in Tasks : bill[p][t] # 0 /\ bill[p][u] # 0 => t = u
  /\ pc[p] = "fetched" => \A t, u \in Tasks : answer[p][t] # "none" /\ answer[p][u] # "none" => t = u

FetcherInv(f) ==
  /\ fpc[f] # "idle" => fseen[f] # "none"
  /\ fpc[f] = "write" => fanswer[f] \in {"IN_PROGRESS"} \cup Final

PollerInv(p) == OneTask(p) /\ \A t \in Tasks : CopyInv(p, t) /\ BillInv(p, t)

StepInv ==
  /\ \A p \in Pollers : PollerInv(p)
  /\ \A f \in Fetchers : FetcherInv(f)

\* The sets of statuses and answers, spelled out.
LEMMA Labels ==
  /\ Statuses = {"none", "NOT_START", "IN_PROGRESS", "SUCCESS", "FAILURE"} /\ Final = {"SUCCESS", "FAILURE"}
  /\ Unfinished = {"NOT_START", "IN_PROGRESS"} /\ ReasonGiven = {"FAILING", "TAINTED"}
  /\ Answers = {"none", "IN_PROGRESS", "AT100", "FAILING", "TAINTED", "SUCCESS", "FAILURE"}
BY DEF Statuses, Final, Unfinished, Answers, ReasonGiven

\* A row that is written exists.
LEMMA RowType ==
  ASSUME RowsOK, NEW t \in Tasks, NEW s \in Statuses \ {"none"}, NEW done \in BOOLEAN, NEW why \in BOOLEAN,
         status' = [status EXCEPT ![t] = s], complete' = [complete EXCEPT ![t] = done], reason' = [reason EXCEPT ![t] = why],
         submit' = [submit EXCEPT ![t] = "inserted"] \/ (submit' = submit /\ submit[t] = "inserted")
  PROVE  RowsOK'
<1>1. complete' \in [Tasks -> BOOLEAN] /\ reason' \in [Tasks -> BOOLEAN]
  BY DEF RowsOK
<1>2. submit' \in [Tasks -> {"start", "charged", "inserted", "lost"}] /\ status' \in [Tasks -> Statuses]
  BY DEF RowsOK
<1>3. \A u \in Tasks : submit'[u] = "inserted" <=> status'[u] # "none"
  BY DEF RowsOK
<1> QED BY <1>1, <1>2, <1>3 DEF RowsOK

\* What a guarded update may write.
Writable == {"NOT_START", "IN_PROGRESS", "AT100"} \cup Final

\* A guarded update finds a row.
LEMMA UpdateType ==
  ASSUME TypeOK, NEW t \in Tasks, NEW from \in Statuses \ {"none"}, NEW a \in Writable,
         (UpdateWithStatus(t, from) /\ Write(t, a)) \/ UNCHANGED row, UNCHANGED submit
  PROVE  RowsOK'
<1>1. CASE UpdateWithStatus(t, from) /\ Write(t, a)
  <2>1. submit[t] = "inserted"
    BY <1>1 DEF UpdateWithStatus, TypeOK, RowsOK
  <2>2. PICK s \in Statuses \ {"none"}, done \in BOOLEAN :
          status' = [status EXCEPT ![t] = s] /\ complete' = [complete EXCEPT ![t] = done]
    <3>1. (IF a = "AT100" THEN "IN_PROGRESS" ELSE a) \in Statuses \ {"none"} /\ (a \in Final \cup {"AT100"}) \in BOOLEAN
      BY Labels DEF Writable
    <3> QED BY <1>1, <3>1 DEF Write
  <2>3. reason' = [reason EXCEPT ![t] = FALSE]
    BY <1>1 DEF Write
  <2> QED BY <1>1, <2>1, <2>2, <2>3, RowType DEF TypeOK
<1> QED BY <1>1 DEF TypeOK, RowsOK

\* A copy is saved over a row.
LEMMA SaveType ==
  ASSUME TypeOK, NEW p \in Pollers, NEW t \in Tasks, NEW a \in Answers \ {"none", "AT100"}, SaveCopy(p, t, a), submit[t] = "inserted", UNCHANGED submit
  PROVE  RowsOK'
<1>1. CASE UNCHANGED row
  BY <1>1 DEF TypeOK, RowsOK
<1>2. CASE /\ status' = [status EXCEPT ![t] = StatusOf(a)]
           /\ complete' = [complete EXCEPT ![t] = a # "IN_PROGRESS"]
           /\ reason' = [reason EXCEPT ![t] = a \in ReasonGiven]
  <2>1. StatusOf(a) \in Statuses \ {"none"} /\ (a # "IN_PROGRESS") \in BOOLEAN /\ (a \in ReasonGiven) \in BOOLEAN
    BY Labels DEF StatusOf
  <2> QED BY <1>2, <2>1, RowType DEF TypeOK
<1> QED BY <1>1, <1>2 DEF SaveCopy

\* What is left alone keeps its type.
LEMMA KeepsType ==
  ASSUME TypeOK
  PROVE  /\ UNCHANGED rows => RowsOK'
         /\ UNCHANGED money /\ UNCHANGED disturbed => MoneyOK'
         /\ UNCHANGED poller => PollersOK'
         /\ UNCHANGED fetcher => FetchersOK'
         /\ UNCHANGED env => EnvOK'
BY DEF TypeOK, RowsOK, MoneyOK, PollersOK, FetchersOK, EnvOK

\* A failed statement only marks the task.
LEMMA FailsType ==
  ASSUME MoneyOK, NEW t \in Tasks, UNCHANGED money, Fails(t) \/ FundingRefuses(t) \/ UNCHANGED disturbed
  PROVE  MoneyOK'
BY DEF MoneyOK, Fails, FundingRefuses

\* Changing one entry of a table of tables keeps its type.
LEMMA ExceptType ==
  ASSUME NEW A, NEW B, NEW C, NEW f \in [A -> [B -> C]], NEW a \in A, NEW b \in B, NEW c \in C
  PROVE  [f EXCEPT ![a][b] = c] \in [A -> [B -> C]]
OBVIOUS

\* A poller that goes on, with another copy, another answer or another bill for one task.
LEMMA PollerType ==
  ASSUME PollersOK, NEW p \in Pollers, NEW t \in Tasks
  PROVE  /\ \A label \in PollerLabels : Goto(p, label) => pc' \in [Pollers -> PollerLabels]
         /\ \A s \in Statuses : seen' = [seen EXCEPT ![p][t] = s] => seen' \in [Pollers -> [Tasks -> Statuses]]
         /\ \A a \in Answers : answer' = [answer EXCEPT ![p][t] = a] => answer' \in [Pollers -> [Tasks -> Answers]]
         /\ \A b \in Int : bill' = [bill EXCEPT ![p][t] = b] => bill' \in [Pollers -> [Tasks -> Int]]
<1>1. \A label \in PollerLabels : Goto(p, label) => pc' \in [Pollers -> PollerLabels]
  BY DEF PollersOK, Goto
<1>2. \A s \in Statuses : seen' = [seen EXCEPT ![p][t] = s] => seen' \in [Pollers -> [Tasks -> Statuses]]
  BY ExceptType DEF PollersOK
<1>3. \A a \in Answers : answer' = [answer EXCEPT ![p][t] = a] => answer' \in [Pollers -> [Tasks -> Answers]]
  BY ExceptType DEF PollersOK
<1>4. \A b \in Int : bill' = [bill EXCEPT ![p][t] = b] => bill' \in [Pollers -> [Tasks -> Int]]
  BY ExceptType DEF PollersOK
<1> QED BY <1>1, <1>2, <1>3, <1>4

\* Every step keeps the types.
LEMMA TypeStep ==
  ASSUME TypeOK, StepInv, [Next]_vars
  PROVE  TypeOK'
<1>0. RowsOK /\ MoneyOK /\ PollersOK /\ FetchersOK /\ EnvOK
  BY DEF TypeOK
<1> USE TaskAssumption, Labels DEF TypeOK, PollerLabels
<1>1. ASSUME NEW t \in Tasks, SettleSubmission(t) PROVE TypeOK'
  <2>1. RowsOK'
    BY <1>0, <1>1 DEF SettleSubmission, RowsOK
  <2>2. MoneyOK'
    <3>1. PICK e \in Estimates \cup {Quota} : paid' = [paid EXCEPT ![t] = e] /\ tokPaid' = [tokPaid EXCEPT ![t] = e]
      BY <1>1 DEF SettleSubmission
    <3>2. disturbed' = disturbed \/ disturbed' = [disturbed EXCEPT ![t] = TRUE]
      BY <1>1 DEF SettleSubmission, Fails, FundingRefuses
    <3>3. disturbed' \in [Tasks -> BOOLEAN]
      BY <1>0, <3>2 DEF MoneyOK
    <3>4. e \in Int
      OBVIOUS
    <3>5. paid' \in [Tasks -> Int] /\ tokPaid' \in [Tasks -> Int]
      BY <1>0, <3>1, <3>4 DEF MoneyOK
    <3> QED BY <3>3, <3>5 DEF MoneyOK
  <2> QED BY <1>1, <2>1, <2>2, KeepsType DEF SettleSubmission
<1>2. ASSUME NEW t \in Tasks, Insert(t) PROVE TypeOK'
  <2>1. RowsOK'
    <3>1. CASE submit' = [submit EXCEPT ![t] = "inserted"] /\ Write(t, "NOT_START")
      <4>1. /\ status' = [status EXCEPT ![t] = "NOT_START"] /\ complete' = [complete EXCEPT ![t] = FALSE]
            /\ reason' = [reason EXCEPT ![t] = FALSE]
        <5>1. (IF "NOT_START" = "AT100" THEN "IN_PROGRESS" ELSE "NOT_START") = "NOT_START" /\ ("NOT_START" \in Final \cup {"AT100"}) = FALSE
          OBVIOUS
        <5> QED BY <3>1, <5>1 DEF Write
      <4> QED BY <1>0, <3>1, <4>1, RowType
    <3>2. CASE submit' = [submit EXCEPT ![t] = "lost"] /\ UNCHANGED row
      BY <1>0, <1>2, <3>2 DEF Insert, RowsOK
    <3> QED BY <1>2, <3>1, <3>2 DEF Insert
  <2>2. MoneyOK'
    BY <1>0, <1>2, FailsType DEF Insert
  <2> QED BY <1>2, <2>1, <2>2, KeepsType DEF Insert
<1>3. ASSUME NEW t \in Tasks, UpstreamEnds(t) \/ TimeoutPasses(t) PROVE TypeOK'
  <2>1. EnvOK'
    BY <1>0, <1>3 DEF UpstreamEnds, TimeoutPasses, EnvOK
  <2> QED BY <1>3, <2>1, KeepsType DEF UpstreamEnds, TimeoutPasses
<1>4. ASSUME NEW p \in Pollers, ListTimedOut(p) \/ ListUnfinished(p) PROVE TypeOK'
  <2>1. ASSUME NEW S PROVE Copies(S) \in [Tasks -> Statuses]
    BY <1>0 DEF Copies, RowsOK
  <2>2. PICK S : seen' = [seen EXCEPT ![p] = Copies(S)]
    BY <1>4 DEF ListTimedOut, ListUnfinished
  <2>3. PollersOK'
    BY <1>0, <1>4, <2>1, <2>2 DEF ListTimedOut, ListUnfinished, Goto, PollersOK
  <2> QED BY <1>4, <2>3, KeepsType DEF ListTimedOut, ListUnfinished
<1>6. ASSUME NEW p \in Pollers, ChannelFound(p) \/ RoundOver(p) PROVE TypeOK'
  <2>1. PollersOK'
    BY <1>0, <1>6 DEF ChannelFound, RoundOver, Goto, PollersOK
  <2> QED BY <1>6, <2>1, KeepsType DEF ChannelFound, RoundOver
<1>7. ASSUME NEW p \in Pollers, ChannelMissing(p) PROVE TypeOK'
  <2>1. PollersOK'
    BY <1>0, <1>7 DEF ChannelMissing, Goto, PollersOK
  <2>2. PICK ok \in BOOLEAN :
          /\ status' = [t \in Tasks |-> IF ok /\ seen[p][t] # "none" THEN "FAILURE" ELSE status[t]]
          /\ complete' = [t \in Tasks |-> complete[t] \/ (ok /\ seen[p][t] # "none")]
          /\ reason' = [t \in Tasks |-> reason[t] /\ ~(ok /\ seen[p][t] # "none")]
    BY <1>7 DEF ChannelMissing, QueryResults
  <2>3. RowsOK'
    BY <1>0, <1>7, <2>2 DEF ChannelMissing, RowsOK, StepInv, PollerInv, CopyInv
  <2> QED BY <1>7, <2>1, <2>3, KeepsType DEF ChannelMissing
<1>8. ASSUME NEW p \in Pollers, FetchBatch(p) PROVE TypeOK'
  <2>1. PollersOK'
    BY <1>0, <1>8 DEF FetchBatch, Goto, PollersOK
  <2> QED BY <1>8, <2>1, KeepsType DEF FetchBatch
<1>9. ASSUME NEW p \in Pollers, NEW t \in Tasks, SweepTask(p, t) PROVE TypeOK'
  <2>1. PollersOK'
    <3>1. pc' = pc \/ \E label \in PollerLabels : Goto(p, label)
      BY <1>9 DEF SweepTask
    <3>2. bill' = bill \/ \E b \in Int : bill' = [bill EXCEPT ![p][t] = b]
      BY <1>9 DEF SweepTask
    <3> QED BY <1>0, <1>9, <3>1, <3>2, PollerType DEF SweepTask, Drop, PollersOK
  <2>2. MoneyOK'
    BY <1>0, <1>9, FailsType DEF SweepTask
  <2>3. RowsOK'
    <3>1. seen[p][t] \in Statuses \ {"none"} /\ "FAILURE" \in Writable
      BY <1>0, <1>9 DEF SweepTask, PollersOK, Writable
    <3>2. (UpdateWithStatus(t, seen[p][t]) /\ Write(t, "FAILURE")) \/ UNCHANGED row
      BY <1>9 DEF SweepTask
    <3> HIDE DEF TypeOK
    <3> QED BY <1>9, <3>1, <3>2, UpdateType DEF SweepTask
  <2> QED BY <1>9, <2>1, <2>2, <2>3, KeepsType DEF SweepTask
<1>10. ASSUME NEW p \in Pollers, NEW t \in Tasks, FetchTask(p, t) \/ FetchNothing(p, t) PROVE TypeOK'
  <2>1. upstream[t] \in Answers
    BY <1>0 DEF EnvOK
  <2>2. PollersOK'
    <3>1. pc' = pc \/ \E label \in PollerLabels : Goto(p, label)
      BY <1>10 DEF FetchTask, FetchNothing
    <3>2. answer' = answer \/ \E a \in Answers : answer' = [answer EXCEPT ![p][t] = a]
      BY <1>10, <2>1 DEF FetchTask, FetchNothing, VideoAnswers
    <3> QED BY <1>0, <1>10, <3>1, <3>2, PollerType DEF FetchTask, FetchNothing, Drop, PollersOK
  <2> QED BY <1>10, <2>2, KeepsType DEF FetchTask, FetchNothing
<1>11. ASSUME NEW p \in Pollers, NEW t \in Tasks, ApplyAnswer(p, t) PROVE TypeOK'
  <2>1. answer[p][t] \in Writable /\ seen[p][t] # "none"
    BY <1>0, <1>11 DEF ApplyAnswer, StepInv, PollerInv, CopyInv, OneTask, PollersOK, Writable
  <2>2. PollersOK'
    <3>1. PICK label \in {"poll", "pollFunding"}, b \in Int : Goto(p, label) /\ (bill' = bill \/ bill' = [bill EXCEPT ![p][t] = b])
      BY <1>11 DEF ApplyAnswer, FinalBills
    <3> QED BY <1>0, <1>11, <3>1, PollerType, ZenonT(30) DEF ApplyAnswer, Drop, PollersOK
  <2>3. MoneyOK'
    BY <1>0, <1>11, FailsType DEF ApplyAnswer
  <2>4. RowsOK'
    <3>1. seen[p][t] \in Statuses \ {"none"}
      BY <1>0, <2>1 DEF PollersOK
    <3>2. (UpdateWithStatus(t, seen[p][t]) /\ Write(t, answer[p][t])) \/ UNCHANGED row
      BY <1>11 DEF ApplyAnswer
    <3> HIDE DEF TypeOK
    <3> QED BY <1>11, <2>1, <3>1, <3>2, UpdateType DEF ApplyAnswer
  <2> QED BY <1>11, <2>2, <2>3, <2>4, KeepsType DEF ApplyAnswer
<1>12. ASSUME NEW p \in Pollers, NEW t \in Tasks, SunoItem(p, t) PROVE TypeOK'
  <2>1. submit[t] = "inserted"
    BY <1>0, <1>12 DEF SunoItem, StepInv, PollerInv, CopyInv
  <2>2. PollersOK'
    BY <1>0, <1>12, PollerType DEF SunoItem, SaveCopy, Drop, PollersOK
  <2>3. MoneyOK'
    BY <1>0, <1>12, FailsType DEF SunoItem, SaveCopy
  <2>4. RowsOK'
    <3> HIDE DEF TypeOK
    <3>1. CASE SaveCopy(p, t, answer[p][t])
      <4>1. answer[p][t] \in Answers \ {"none", "AT100"}
        BY <1>12 DEF SunoItem
      <4> QED BY <1>12, <2>1, <3>1, <4>1, SaveType DEF SunoItem
    <3>2. CASE UNCHANGED row
      BY <1>12, <3>2, KeepsType DEF SunoItem
    <3> QED BY <1>12, <3>1, <3>2 DEF SunoItem
  <2> QED BY <1>12, <2>2, <2>3, <2>4, KeepsType DEF SunoItem
<1>13. ASSUME NEW p \in Pollers, NEW t \in Tasks, SunoFailure(p, t) PROVE TypeOK'
  <2>1. PollersOK'
    BY <1>0, <1>13 DEF SunoFailure, Goto, PollersOK
  <2> QED BY <1>13, <2>1, KeepsType DEF SunoFailure
<1>14. ASSUME NEW p \in Pollers, NEW t \in Tasks, SunoSave(p, t) PROVE TypeOK'
  <2>1. submit[t] = "inserted" /\ answer[p][t] \in Answers \ {"none", "AT100"}
    BY <1>0, <1>14 DEF SunoSave, StepInv, PollerInv, CopyInv, BillInv, OneTask, SunoLabels, PollersOK
  <2>2. PollersOK'
    <3>1. Goto(p, "items") /\ seen' = [seen EXCEPT ![p][t] = "none"] /\ answer' = [answer EXCEPT ![p][t] = "none"]
          /\ bill' = [bill EXCEPT ![p][t] = 0]
      BY <1>14 DEF SunoSave, SaveCopy, Drop
    <3>2. pc' \in [Pollers -> PollerLabels] /\ seen' \in [Pollers -> [Tasks -> Statuses]]
      BY <1>0, <3>1, PollerType
    <3>3. answer' \in [Pollers -> [Tasks -> Answers]]
      BY <1>0, <3>1, ExceptType DEF PollersOK
    <3>4. bill' \in [Pollers -> [Tasks -> Int]]
      BY <1>0, <3>1, ExceptType DEF PollersOK
    <3> QED BY <3>2, <3>3, <3>4 DEF PollersOK
  <2>3. MoneyOK'
    BY <1>0, <1>14, FailsType DEF SunoSave, SaveCopy
  <2>4. RowsOK'
    <3> HIDE DEF TypeOK
    <3> QED BY <1>14, <2>1, SaveType DEF SunoSave
  <2> QED BY <1>14, <2>2, <2>3, <2>4, KeepsType DEF SunoSave
<1>15. ASSUME NEW p \in Pollers, NEW t \in Tasks, AdjustFunding(p, t) \/ AdjustToken(p, t) PROVE TypeOK'
  <2>1. AfterBilling(p) \in PollerLabels
    BY DEF AfterBilling
  <2>2. PICK label \in PollerLabels, b \in Int : Goto(p, label) /\ (bill' = bill \/ bill' = [bill EXCEPT ![p][t] = b])
    BY <1>0, <1>15, <2>1 DEF AdjustFunding, AdjustToken, Billed, PollersOK
  <2>3. PollersOK'
    BY <1>0, <1>15, <2>2, PollerType DEF AdjustFunding, AdjustToken, PollersOK
  <2>4. MoneyOK'
    <3>1. bill[p][t] \in Int
      BY <1>0 DEF PollersOK
    <3>2. disturbed' = disturbed \/ disturbed' = [disturbed EXCEPT ![t] = TRUE]
      BY <1>15 DEF AdjustFunding, AdjustToken, Fails, FundingRefuses
    <3>3. paid' = paid \/ paid' = [paid EXCEPT ![t] = @ + bill[p][t]]
      BY <1>15 DEF AdjustFunding, AdjustToken
    <3>4. tokPaid' = tokPaid \/ tokPaid' = [tokPaid EXCEPT ![t] = @ + bill[p][t]]
      BY <1>15 DEF AdjustFunding, AdjustToken
    <3>5. disturbed' \in [Tasks -> BOOLEAN]
      BY <1>0, <3>2 DEF MoneyOK
    <3>6. paid' \in [Tasks -> Int]
      BY <1>0, <3>1, <3>3 DEF MoneyOK
    <3>7. tokPaid' \in [Tasks -> Int]
      BY <1>0, <3>1, <3>4 DEF MoneyOK
    <3> QED BY <3>5, <3>6, <3>7 DEF MoneyOK
  <2> QED BY <1>15, <2>3, <2>4, KeepsType DEF AdjustFunding, AdjustToken
<1>17. ASSUME NEW f \in Fetchers, NEW t \in Tasks, FetchStart(f, t) PROVE TypeOK'
  <2>1. FetchersOK'
    BY <1>0, <1>17 DEF FetchStart, FGoto, FetchersOK, RowsOK
  <2> QED BY <1>17, <2>1, KeepsType DEF FetchStart
<1>18. ASSUME NEW f \in Fetchers, FetchAnswer(f) PROVE TypeOK'
  <2>1. upstream[ftask[f]] \in Answers
    BY <1>0 DEF EnvOK, FetchersOK
  <2>2. FetchersOK'
    BY <1>0, <1>18, <2>1 DEF FetchAnswer, FGoto, FetchersOK
  <2> QED BY <1>18, <2>2, KeepsType DEF FetchAnswer
<1>19. ASSUME NEW f \in Fetchers, FetchWrite(f) PROVE TypeOK'
  <2>1. FetchersOK'
    BY <1>0, <1>19 DEF FetchWrite, FGoto, FetchersOK
  <2>2. fanswer[f] \in Writable /\ fseen[f] # "none" /\ ftask[f] \in Tasks
    BY <1>0, <1>19 DEF FetchWrite, StepInv, FetcherInv, FetchersOK, Writable
  <2>3. RowsOK'
    <3>1. fseen[f] \in Statuses \ {"none"}
      BY <1>0, <2>2 DEF FetchersOK
    <3>2. (UpdateWithStatus(ftask[f], fseen[f]) /\ Write(ftask[f], fanswer[f])) \/ UNCHANGED row
      BY <1>19 DEF FetchWrite
    <3> HIDE DEF TypeOK
    <3> QED BY <1>19, <2>2, <3>1, <3>2, UpdateType DEF FetchWrite
  <2> QED BY <1>19, <2>1, <2>3, KeepsType DEF FetchWrite
<1>20. ASSUME DeleteChannel PROVE TypeOK'
  BY <1>0, <1>20, KeepsType DEF DeleteChannel, EnvOK
<1>21. ASSUME NEW p \in Pollers, Crash(p) PROVE TypeOK'
  <2>1. PollersOK'
    BY <1>0, <1>21 DEF Crash, Goto, PollersOK
  <2>2. MoneyOK'
    BY <1>0, <1>21 DEF Crash, MoneyOK
  <2> QED BY <1>21, <2>1, <2>2, KeepsType DEF Crash
<1>22. CASE UNCHANGED vars
  BY <1>22, KeepsType DEF vars
<1> HIDE DEF TypeOK
<1> QED BY <1>1, <1>2, <1>3, <1>4, <1>6, <1>7, <1>8, <1>9, <1>10, <1>11, <1>12, <1>13, <1>14, <1>15, <1>17,
           <1>18, <1>19, <1>20, <1>21, <1>22 DEF Next, Round, Fetch

\* And changes that entry alone.
LEMMA ExceptAt ==
  ASSUME NEW A, NEW B, NEW C, NEW f \in [A -> [B -> C]], NEW a \in A, NEW b \in B, NEW c
  PROVE  LET g == [f EXCEPT ![a][b] = c]
         IN g[a][b] = c /\ (\A y \in B : y # b => g[a][y] = f[a][y]) /\ \A x \in A : x # a => g[x] = f[x]
OBVIOUS

\* A poller whose own state does not change keeps its invariant: a task that was inserted stays so.
LEMMA PollerKept ==
  ASSUME NEW p \in Pollers, PollerInv(p), \A t \in Tasks : submit[t] = "inserted" => submit'[t] = "inserted",
         pc'[p] = pc[p], seen'[p] = seen[p], answer'[p] = answer[p], bill'[p] = bill[p]
  PROVE  PollerInv(p)'
BY DEF PollerInv, OneTask, CopyInv, BillInv

\* Where nothing else changes it is enough to look at the poller that moves.
LEMMA OthersKept ==
  ASSUME TypeOK, StepInv, NEW p \in Pollers, \A t \in Tasks : submit[t] = "inserted" => submit'[t] = "inserted",
         \A q \in Pollers : q # p => pc'[q] = pc[q] /\ seen'[q] = seen[q] /\ answer'[q] = answer[q] /\ bill'[q] = bill[q],
         UNCHANGED fetcher, PollerInv(p)'
  PROVE  StepInv'
<1>1. \A q \in Pollers : PollerInv(q)'
  BY PollerKept DEF StepInv
<1>2. \A f \in Fetchers : FetcherInv(f)'
  BY DEF StepInv, FetcherInv
<1> QED BY <1>1, <1>2 DEF StepInv

\* Every step keeps what pollers and fetchers have in hand consistent with where they are.
LEMMA StepInvStep ==
  ASSUME TypeOK, StepInv, [Next]_vars
  PROVE  StepInv'
<1>0. RowsOK /\ PollersOK /\ FetchersOK /\ EnvOK
  BY DEF TypeOK
<1> USE TaskAssumption, Labels DEF Billing, SunoLabels
<1>1. ASSUME UNCHANGED <<poller, fetcher>>, \A t \in Tasks : submit[t] = "inserted" => submit'[t] = "inserted" PROVE StepInv'
  BY <1>1, PollerKept DEF StepInv, FetcherInv
<1>2. ASSUME NEW t \in Tasks, SettleSubmission(t) \/ Insert(t) \/ UpstreamEnds(t) \/ TimeoutPasses(t) PROVE StepInv'
  <2>1. \A u \in Tasks : submit[u] = "inserted" => submit'[u] = "inserted"
    BY <1>0, <1>2 DEF SettleSubmission, Insert, UpstreamEnds, TimeoutPasses, RowsOK
  <2> QED BY <1>1, <1>2, <2>1 DEF SettleSubmission, Insert, UpstreamEnds, TimeoutPasses
<1>3. ASSUME NEW p \in Pollers PROVE PollerInv(p)
  BY DEF StepInv
<1>4. ASSUME NEW p \in Pollers, ListTimedOut(p) \/ ListUnfinished(p) PROVE StepInv'
  <2>1. PICK S : seen' = [seen EXCEPT ![p] = Copies(S)]
    BY <1>4 DEF ListTimedOut, ListUnfinished
  <2>2. /\ pc[p] \in {"sleep", "sweep"} /\ pc'[p] \in {"sweep", "channel"} /\ UNCHANGED <<submit, answer, bill, fetcher>>
        /\ \A q \in Pollers : q # p => pc'[q] = pc[q] /\ seen'[q] = seen[q]
    BY <1>0, <1>4, <2>1 DEF ListTimedOut, ListUnfinished, Goto, PollersOK
  <2>3. \A t \in Tasks : seen'[p][t] # "none" => submit[t] = "inserted"
    BY <1>0, <2>1 DEF Copies, PollersOK, RowsOK
  <2>4. \A t \in Tasks : answer[p][t] = "none" /\ bill[p][t] = 0
    BY <1>3, <2>2 DEF PollerInv, CopyInv, BillInv
  <2>5. PollerInv(p)'
    BY <2>2, <2>3, <2>4 DEF PollerInv, OneTask, CopyInv, BillInv
  <2> QED BY <2>2, <2>5, OthersKept
<1>5. ASSUME NEW p \in Pollers, ChannelFound(p) PROVE StepInv'
  <2>1. /\ pc[p] = "channel" /\ pc'[p] = "poll" /\ UNCHANGED <<submit, seen, answer, bill, fetcher>>
        /\ \A q \in Pollers : q # p => pc'[q] = pc[q]
    BY <1>0, <1>5 DEF ChannelFound, Goto, PollersOK
  <2>2. PollerInv(p)'
    BY <1>3, <2>1 DEF PollerInv, OneTask, CopyInv, BillInv
  <2> QED BY <2>1, <2>2, OthersKept
<1>6. ASSUME NEW p \in Pollers, RoundOver(p) PROVE StepInv'
  <2>1. /\ pc[p] \in {"poll", "items"} /\ NoneLeft(p) /\ pc'[p] = "sleep" /\ UNCHANGED <<submit, seen, answer, bill, fetcher>>
        /\ \A q \in Pollers : q # p => pc'[q] = pc[q]
    BY <1>0, <1>6 DEF RoundOver, Goto, PollersOK
  <2>2. PollerInv(p)'
    BY <1>3, <2>1 DEF PollerInv, OneTask, CopyInv, BillInv, NoneLeft
  <2> QED BY <2>1, <2>2, OthersKept
<1>7. ASSUME NEW p \in Pollers, ChannelMissing(p) PROVE StepInv'
  <2>1. /\ pc[p] = "channel" /\ pc'[p] = "sleep" /\ UNCHANGED <<submit, answer, bill, fetcher>>
        /\ \A t \in Tasks : seen'[p][t] = "none"
        /\ \A q \in Pollers : q # p => pc'[q] = pc[q] /\ seen'[q] = seen[q]
    BY <1>0, <1>7 DEF ChannelMissing, Goto, PollersOK
  <2>2. PollerInv(p)'
    BY <1>3, <2>1 DEF PollerInv, OneTask, CopyInv, BillInv
  <2> QED BY <2>1, <2>2, OthersKept
<1>8. ASSUME NEW p \in Pollers, FetchBatch(p) PROVE StepInv'
  <2>1. PICK a \in [Tasks -> Answers] :
          /\ \A t \in Tasks : a[t] \in IF seen[p][t] = "none" THEN {"none"} ELSE {"none"} \cup SunoAnswers(t)
          /\ answer' = [answer EXCEPT ![p] = a]
          /\ seen' = [seen EXCEPT ![p] = [t \in Tasks |-> IF a[t] = "none" THEN "none" ELSE @[t]]]
    BY <1>8 DEF FetchBatch
  <2>2. /\ pc[p] = "poll" /\ Platform = "suno" /\ pc'[p] = "items" /\ UNCHANGED <<submit, bill, fetcher>>
        /\ answer'[p] = a /\ \A t \in Tasks : seen'[p][t] = IF a[t] = "none" THEN "none" ELSE seen[p][t]
        /\ \A q \in Pollers : q # p => pc'[q] = pc[q] /\ seen'[q] = seen[q] /\ answer'[q] = answer[q]
    BY <1>0, <1>8, <2>1 DEF FetchBatch, Goto, PollersOK
  <2>4. \A t \in Tasks : a[t] # "AT100"
    BY <1>0, <2>1 DEF SunoAnswers, EnvOK
  <2>3. PollerInv(p)'
    BY <1>3, <2>1, <2>2, <2>4 DEF PollerInv, OneTask, CopyInv, BillInv
  <2> QED BY <2>2, <2>3, OthersKept
<1>9. ASSUME NEW p \in Pollers, NEW t \in Tasks, SweepTask(p, t) PROVE StepInv'
  <2>1. /\ pc[p] = "sweep" /\ UNCHANGED <<submit, answer, fetcher>>
        /\ seen'[p][t] = "none" /\ \A u \in Tasks : u # t => seen'[p][u] = seen[p][u]
        /\ \A q \in Pollers : q # p => seen'[q] = seen[q]
    BY <1>0, <1>9, ExceptAt DEF SweepTask, Drop, PollersOK
  <2>2. (pc' = pc /\ bill' = bill) \/ \E b \in Int : /\ bill' = [bill EXCEPT ![p][t] = b]
                                                     /\ pc' = [pc EXCEPT ![p] = IF b = 0 THEN "sweep" ELSE "sweepFunding"]
    BY <1>9 DEF SweepTask, Goto
  <2>3. \A u \in Tasks : answer[p][u] = "none" /\ bill[p][u] = 0
    BY <1>3, <2>1 DEF PollerInv, CopyInv, BillInv
  <2>4. /\ \A q \in Pollers : q # p => pc'[q] = pc[q] /\ bill'[q] = bill[q]
        /\ \A u \in Tasks : u # t => bill'[p][u] = 0
        /\ pc'[p] \in {"sweep", "sweepFunding"} /\ (bill'[p][t] # 0 => pc'[p] = "sweepFunding")
    BY <1>0, <2>1, <2>2, <2>3, ExceptAt DEF PollersOK
  <2>5. PollerInv(p)'
    BY <1>3, <2>1, <2>3, <2>4 DEF PollerInv, OneTask, CopyInv, BillInv
  <2> QED BY <2>1, <2>4, <2>5, OthersKept
<1>10. ASSUME NEW p \in Pollers, NEW t \in Tasks, FetchTask(p, t) PROVE StepInv'
  <2>1. PICK a \in {"IN_PROGRESS", "AT100"} \cup Final : answer' = [answer EXCEPT ![p][t] = a]
    BY <1>0, <1>10 DEF FetchTask, VideoAnswers, EnvOK
  <2>2. /\ pc[p] = "poll" /\ Platform = "video" /\ seen[p][t] # "none" /\ pc'[p] = "fetched"
        /\ UNCHANGED <<submit, seen, bill, fetcher>> /\ \A q \in Pollers : q # p => pc'[q] = pc[q]
    BY <1>0, <1>10 DEF FetchTask, Goto, PollersOK
  <2>3. /\ answer'[p][t] = a /\ \A u \in Tasks : u # t => answer'[p][u] = answer[p][u]
        /\ \A q \in Pollers : q # p => answer'[q] = answer[q]
    BY <1>0, <2>1, ExceptAt DEF PollersOK
  <2>4. \A u \in Tasks : answer[p][u] = "none" /\ bill[p][u] = 0
    BY <1>3, <2>2 DEF PollerInv, CopyInv, BillInv
  <2>5. PollerInv(p)'
    BY <1>3, <2>2, <2>3, <2>4 DEF PollerInv, OneTask, CopyInv, BillInv
  <2> QED BY <2>2, <2>3, <2>5, OthersKept
<1>11. ASSUME NEW p \in Pollers, NEW t \in Tasks, FetchNothing(p, t) PROVE StepInv'
  <2>1. /\ pc[p] = "poll" /\ UNCHANGED <<submit, pc, answer, bill, fetcher>>
        /\ seen'[p][t] = "none" /\ \A u \in Tasks : u # t => seen'[p][u] = seen[p][u]
        /\ \A q \in Pollers : q # p => seen'[q] = seen[q]
    BY <1>0, <1>11, ExceptAt DEF FetchNothing, Drop, PollersOK
  <2>2. \A u \in Tasks : answer[p][u] = "none" /\ bill[p][u] = 0
    BY <1>3, <2>1 DEF PollerInv, CopyInv, BillInv
  <2>3. PollerInv(p)'
    BY <1>3, <2>1, <2>2 DEF PollerInv, OneTask, CopyInv, BillInv
  <2> QED BY <2>1, <2>3, OthersKept
<1>12. ASSUME NEW p \in Pollers, NEW t \in Tasks, ApplyAnswer(p, t) PROVE StepInv'
  <2>1. /\ pc[p] = "fetched" /\ answer[p][t] # "none" /\ UNCHANGED <<submit, fetcher>>
        /\ seen' = [seen EXCEPT ![p][t] = "none"] /\ answer' = [answer EXCEPT ![p][t] = "none"]
    BY <1>12 DEF ApplyAnswer, Drop
  <2>2. \/ pc' = [pc EXCEPT ![p] = "poll"] /\ bill' = bill
        \/ \E b \in Int : /\ bill' = [bill EXCEPT ![p][t] = b]
                          /\ pc' = [pc EXCEPT ![p] = IF b = 0 THEN "poll" ELSE "pollFunding"]
    BY <1>12 DEF ApplyAnswer, Goto, FinalBills
  <2>3. Platform = "video" /\ \A u \in Tasks : (u # t => answer[p][u] = "none") /\ bill[p][u] = 0
    BY <1>3, <2>1 DEF PollerInv, OneTask, CopyInv, BillInv
  <2>4. /\ seen'[p][t] = "none" /\ answer'[p][t] = "none"
        /\ \A u \in Tasks : u # t => seen'[p][u] = seen[p][u] /\ answer'[p][u] = answer[p][u]
        /\ \A q \in Pollers : q # p => seen'[q] = seen[q] /\ answer'[q] = answer[q]
    BY <1>0, <2>1, ExceptAt DEF PollersOK
  <2>5. /\ \A q \in Pollers : q # p => pc'[q] = pc[q] /\ bill'[q] = bill[q]
        /\ \A u \in Tasks : u # t => bill'[p][u] = 0
        /\ pc'[p] \in {"poll", "pollFunding"} /\ (bill'[p][t] # 0 => pc'[p] = "pollFunding")
    BY <1>0, <2>2, <2>3, ExceptAt DEF PollersOK
  <2>6. PollerInv(p)'
    BY <1>3, <2>1, <2>3, <2>4, <2>5 DEF PollerInv, OneTask, CopyInv, BillInv
  <2> QED BY <2>1, <2>4, <2>5, <2>6, OthersKept
<1>13. ASSUME NEW p \in Pollers, NEW t \in Tasks, SunoItem(p, t) PROVE StepInv'
  <2>1. /\ pc[p] = "items" /\ UNCHANGED <<submit, pc, bill, fetcher>>
        /\ seen' = [seen EXCEPT ![p][t] = "none"] /\ answer' = [answer EXCEPT ![p][t] = "none"]
    BY <1>13 DEF SunoItem, SaveCopy, Drop
  <2>2. /\ seen'[p][t] = "none" /\ answer'[p][t] = "none"
        /\ \A u \in Tasks : u # t => seen'[p][u] = seen[p][u] /\ answer'[p][u] = answer[p][u]
        /\ \A q \in Pollers : q # p => seen'[q] = seen[q] /\ answer'[q] = answer[q]
    BY <1>0, <2>1, ExceptAt DEF PollersOK
  <2>3. PollerInv(p)'
    BY <1>3, <2>1, <2>2 DEF PollerInv, OneTask, CopyInv, BillInv
  <2> QED BY <2>1, <2>2, <2>3, OthersKept
<1>14. ASSUME NEW p \in Pollers, NEW t \in Tasks, SunoFailure(p, t) PROVE StepInv'
  <2>1. /\ pc[p] = "items" /\ answer[p][t] # "none" /\ UNCHANGED <<submit, seen, answer, fetcher>>
        /\ pc'[p] = "pollFunding" /\ \A q \in Pollers : q # p => pc'[q] = pc[q]
    BY <1>0, <1>14 DEF SunoFailure, Goto, PollersOK
  <2>2. /\ \A q \in Pollers : q # p => bill'[q] = bill[q]
        /\ \A u \in Tasks : u # t => bill'[p][u] = bill[p][u]
    BY <1>0, <1>14, ExceptAt DEF SunoFailure, PollersOK
  <2>3. PollerInv(p)'
    BY <1>3, <2>1, <2>2 DEF PollerInv, OneTask, CopyInv, BillInv
  <2> QED BY <2>1, <2>2, <2>3, OthersKept
<1>15. ASSUME NEW p \in Pollers, NEW t \in Tasks, SunoSave(p, t) PROVE StepInv'
  <2>1. /\ pc[p] = "save" /\ bill[p][t] # 0 /\ UNCHANGED <<submit, fetcher>>
        /\ seen' = [seen EXCEPT ![p][t] = "none"] /\ answer' = [answer EXCEPT ![p][t] = "none"]
        /\ bill' = [bill EXCEPT ![p][t] = 0] /\ pc'[p] = "items" /\ \A q \in Pollers : q # p => pc'[q] = pc[q]
    BY <1>0, <1>15 DEF SunoSave, SaveCopy, Drop, Goto, PollersOK
  <2>2. /\ seen'[p][t] = "none" /\ answer'[p][t] = "none" /\ bill'[p][t] = 0
        /\ \A u \in Tasks : u # t => seen'[p][u] = seen[p][u] /\ answer'[p][u] = answer[p][u] /\ bill'[p][u] = bill[p][u]
        /\ \A q \in Pollers : q # p => seen'[q] = seen[q] /\ answer'[q] = answer[q] /\ bill'[q] = bill[q]
    BY <1>0, <2>1, ExceptAt DEF PollersOK
  <2>3. \A u \in Tasks : bill'[p][u] = 0
    BY <1>3, <2>1, <2>2 DEF PollerInv, OneTask
  <2>4. PollerInv(p)'
    BY <1>3, <2>1, <2>2, <2>3 DEF PollerInv, OneTask, CopyInv, BillInv
  <2> QED BY <2>1, <2>2, <2>4, OthersKept
<1>16. ASSUME NEW p \in Pollers, NEW t \in Tasks, AdjustFunding(p, t) \/ AdjustToken(p, t) PROVE StepInv'
  <2>1. /\ pc[p] \in Billing /\ bill[p][t] # 0 /\ UNCHANGED <<submit, seen, answer, fetcher>>
    BY <1>16 DEF AdjustFunding, AdjustToken
  <2>2. \A u \in Tasks : u # t => bill[p][u] = 0
    BY <1>3, <2>1 DEF PollerInv, OneTask
  <2>3. CASE /\ bill' = bill /\ pc[p] \in {"sweepFunding", "pollFunding"}
             /\ pc' = [pc EXCEPT ![p] = IF pc[p] = "sweepFunding" THEN "sweepToken" ELSE "pollToken"]
    <3>1. /\ \A q \in Pollers : q # p => pc'[q] = pc[q]
          /\ pc'[p] = IF pc[p] = "sweepFunding" THEN "sweepToken" ELSE "pollToken"
      BY <1>0, <2>3 DEF PollersOK
    <3>2. PollerInv(p)'
      BY <1>3, <2>1, <2>2, <2>3, <3>1 DEF PollerInv, OneTask, CopyInv, BillInv
    <3> QED BY <2>1, <2>3, <3>1, <3>2, OthersKept
  <2>4. CASE pc' = [pc EXCEPT ![p] = AfterBilling(p)] /\ Billed(p, t)
    <3>1. pc'[p] = AfterBilling(p) /\ (\A q \in Pollers : q # p => pc'[q] = pc[q] /\ bill'[q] = bill[q])
      BY <1>0, <2>4, ExceptAt DEF PollersOK, Billed
    <3>2. /\ \A u \in Tasks : u # t => bill'[p][u] = bill[p][u]
          /\ bill'[p][t] = IF AfterBilling(p) = "save" THEN bill[p][t] ELSE 0
      BY <1>0, <2>4, ExceptAt DEF PollersOK, Billed
    <3>4. \/ pc[p] \in {"sweepFunding", "sweepToken"} /\ AfterBilling(p) = "sweep"
          \/ pc[p] \in {"pollFunding", "pollToken"} /\ Platform = "suno" /\ AfterBilling(p) = "save"
          \/ pc[p] \in {"pollFunding", "pollToken"} /\ Platform = "video" /\ AfterBilling(p) = "poll"
      <4>1. CASE pc[p] \in {"sweepFunding", "sweepToken"}
        BY <4>1 DEF AfterBilling
      <4>2. CASE pc[p] \in {"pollFunding", "pollToken"} /\ Platform = "suno"
        BY <4>2 DEF AfterBilling
      <4>3. CASE pc[p] \in {"pollFunding", "pollToken"} /\ Platform = "video"
        BY <4>3 DEF AfterBilling
      <4> QED BY <2>1, <4>1, <4>2, <4>3
    <3>3. PollerInv(p)'
      BY <1>3, <2>1, <2>2, <3>1, <3>2, <3>4 DEF PollerInv, OneTask, CopyInv, BillInv
    <3> QED BY <2>1, <3>1, <3>3, OthersKept
  <2> QED BY <1>16, <2>3, <2>4 DEF AdjustFunding, AdjustToken, Goto
<1>17. ASSUME NEW f \in Fetchers, Fetch(f) PROVE StepInv'
  <2>1. UNCHANGED <<submit, poller>>
    BY <1>17 DEF Fetch, FetchStart, FetchAnswer, FetchWrite
  <2>2. \A g \in Fetchers : FetcherInv(g)'
    <3>1. ASSUME NEW t \in Tasks, FetchStart(f, t) PROVE \A g \in Fetchers : FetcherInv(g)'
      BY <1>0, <3>1 DEF FetchStart, FGoto, StepInv, FetcherInv, FetchersOK
    <3>2. CASE FetchAnswer(f)
      <4>1. upstream[ftask[f]] \in {"IN_PROGRESS"} \cup Final
        BY <1>0 DEF EnvOK, FetchersOK
      <4> QED BY <1>0, <3>2, <4>1 DEF FetchAnswer, FGoto, StepInv, FetcherInv, FetchersOK
    <3>3. CASE FetchWrite(f)
      BY <1>0, <3>3 DEF FetchWrite, FGoto, StepInv, FetcherInv, FetchersOK
    <3> QED BY <1>17, <3>1, <3>2, <3>3 DEF Fetch
  <2> QED BY <1>3, <2>1, <2>2, PollerKept DEF StepInv
<1>18. ASSUME NEW p \in Pollers, Crash(p) PROVE StepInv'
  <2>1. /\ pc'[p] = "sleep" /\ UNCHANGED <<submit, fetcher>>
        /\ \A t \in Tasks : seen'[p][t] = "none" /\ answer'[p][t] = "none" /\ bill'[p][t] = 0
        /\ \A q \in Pollers : q # p => pc'[q] = pc[q] /\ seen'[q] = seen[q] /\ answer'[q] = answer[q] /\ bill'[q] = bill[q]
    BY <1>0, <1>18 DEF Crash, Goto, PollersOK
  <2>2. PollerInv(p)'
    BY <2>1 DEF PollerInv, OneTask, CopyInv, BillInv
  <2> QED BY <2>1, <2>2, OthersKept
<1>19. CASE DeleteChannel \/ UNCHANGED vars
  BY <1>1, <1>19 DEF DeleteChannel, vars
<1> QED BY <1>2, <1>4, <1>5, <1>6, <1>7, <1>8, <1>9, <1>10, <1>11, <1>12, <1>13, <1>14, <1>15, <1>16, <1>17, <1>18, <1>19
        DEF Next, Round

-----------------------------------------------------------------------------
(* Video tasks that only pollers write: what a step means for one task. *)

Funding == {"sweepFunding", "pollFunding"}

SameRow(t) == status'[t] = status[t] /\ complete'[t] = complete[t] /\ reason'[t] = reason[t]
RowKept(t) == submit'[t] = submit[t] /\ SameRow(t)
CostKept(t) == paid'[t] = paid[t] /\ tokPaid'[t] = tokPaid[t]
\* The pollers that bill t, those in P excepted, go on where they are.
BillsKept(t, P) == \A q \in Pollers \ P : bill'[q][t] = bill[q][t] /\ (bill[q][t] # 0 => pc'[q] = pc[q])

Idle(t) == RowKept(t) /\ CostKept(t) /\ BillsKept(t, {})

Submits(t) ==
  /\ submit[t] = "start" /\ submit'[t] = "charged" /\ SameRow(t) /\ BillsKept(t, {})
  /\ \E e \in Estimates \cup {Quota} : paid'[t] = e /\ tokPaid'[t] = e /\ (e # Quota => disturbed'[t])

Inserts(t) ==
  /\ submit[t] = "charged" /\ CostKept(t) /\ BillsKept(t, {})
  /\ \/ submit'[t] = "inserted" /\ status'[t] = "NOT_START" /\ ~reason'[t]
     \/ submit'[t] = "lost" /\ SameRow(t) /\ disturbed'[t]

Advances(t) ==
  /\ status[t] \in Unfinished /\ status'[t] \in Unfinished /\ ~reason'[t] /\ submit'[t] = submit[t]
  /\ CostKept(t) /\ BillsKept(t, {})

\* The poller whose guarded update ends the task is the one that bills it.
Ends(p, t) ==
  /\ status[t] \in Unfinished /\ status'[t] \in Final /\ ~reason'[t] /\ submit'[t] = submit[t]
  /\ CostKept(t) /\ BillsKept(t, {p}) /\ bill[p][t] = 0
  /\ bill'[p][t] # 0 => pc'[p] \in Funding
  /\ \/ bill'[p][t] \in FinalBills(status'[t])
     \/ t \in Legacy /\ bill'[p][t] = 0

PaysFunding(p, t) ==
  /\ RowKept(t) /\ BillsKept(t, {p}) /\ bill[p][t] # 0 /\ bill'[p][t] = bill[p][t]
  /\ pc[p] \in Funding /\ pc'[p] \notin Funding /\ paid'[t] = paid[t] + bill[p][t] /\ tokPaid'[t] = tokPaid[t]

PaysToken(p, t) ==
  /\ RowKept(t) /\ BillsKept(t, {p}) /\ bill[p][t] # 0 /\ bill'[p][t] = 0
  /\ pc[p] \notin Funding /\ paid'[t] = paid[t] /\ tokPaid'[t] = tokPaid[t] + bill[p][t]

\* The billing of t is given up, or forgotten in a crash.
GivesUp(p, t) == RowKept(t) /\ CostKept(t) /\ BillsKept(t, {p}) /\ bill'[p][t] = 0 /\ disturbed'[t]

\* The channel is gone.
Fallen(t) ==
  /\ ChannelMayGo /\ submit'[t] = "inserted" /\ submit[t] = "inserted" /\ status'[t] = "FAILURE"
  /\ CostKept(t) /\ BillsKept(t, {})

TaskStep(t) ==
  /\ disturbed[t] => disturbed'[t]
  /\ \/ Idle(t) \/ Submits(t) \/ Inserts(t) \/ Advances(t) \/ Fallen(t)
     \/ \E p \in Pollers : Ends(p, t) \/ PaysFunding(p, t) \/ PaysToken(p, t) \/ GivesUp(p, t)

\* A poller's copies are of unfinished tasks, and the channel stays unless it may go.
CopiesInv == (\A p \in Pollers : \A t \in Tasks : seen[p][t] \in {"none"} \cup Unfinished) /\ (channelGone => ChannelMayGo)

\* Only an administrator deletes the channel.
LEMMA ChannelKept ==
  ASSUME [Next]_vars
  PROVE  UNCHANGED channelGone \/ DeleteChannel
<1>1. ASSUME NEW t \in Tasks, SettleSubmission(t) \/ Insert(t) \/ UpstreamEnds(t) \/ TimeoutPasses(t) PROVE UNCHANGED channelGone
  BY <1>1 DEF SettleSubmission, Insert, UpstreamEnds, TimeoutPasses
<1>2. ASSUME NEW p \in Pollers, ListTimedOut(p) \/ ListUnfinished(p) \/ ChannelFound(p) \/ ChannelMissing(p) \/ RoundOver(p) \/ FetchBatch(p) \/ Crash(p)
      PROVE  UNCHANGED channelGone
  BY <1>2 DEF ListTimedOut, ListUnfinished, ChannelFound, ChannelMissing, RoundOver, FetchBatch, Crash
<1>3. ASSUME NEW p \in Pollers, NEW t \in Tasks, SweepTask(p, t) \/ FetchTask(p, t) \/ FetchNothing(p, t) \/ ApplyAnswer(p, t)
      PROVE  UNCHANGED channelGone
  BY <1>3 DEF SweepTask, FetchTask, FetchNothing, ApplyAnswer
<1>4. ASSUME NEW p \in Pollers, NEW t \in Tasks,
             SunoItem(p, t) \/ SunoFailure(p, t) \/ SunoSave(p, t) \/ AdjustFunding(p, t) \/ AdjustToken(p, t)
      PROVE  UNCHANGED channelGone
  BY <1>4 DEF SunoItem, SunoFailure, SunoSave, AdjustFunding, AdjustToken
<1>5. ASSUME NEW f \in Fetchers, Fetch(f) PROVE UNCHANGED channelGone
  BY <1>5 DEF Fetch, FetchStart, FetchAnswer, FetchWrite
<1>6. ASSUME UNCHANGED vars PROVE UNCHANGED channelGone
  BY <1>6 DEF vars
<1> QED BY <1>1, <1>2, <1>3, <1>4, <1>5, <1>6 DEF Next, Round

\* Every step keeps a poller's copies of unfinished tasks.
LEMMA CopiesStep ==
  ASSUME TypeOK, CopiesInv, [Next]_vars
  PROVE  CopiesInv'
<1>0. PollersOK
  BY DEF TypeOK
<1>1. channelGone' => ChannelMayGo
  BY ChannelKept DEF DeleteChannel, CopiesInv
<1>2. ASSUME NEW p \in Pollers, \A q \in Pollers : q # p => seen'[q] = seen[q],
             \A t \in Tasks : seen'[p][t] \in {"none"} \cup Unfinished \/ seen'[p][t] = seen[p][t]
      PROVE  CopiesInv'
  BY <1>1, <1>2 DEF CopiesInv
<1>3. ASSUME UNCHANGED seen PROVE CopiesInv'
  BY <1>1, <1>3 DEF CopiesInv
<1>4. ASSUME NEW p \in Pollers, ListTimedOut(p) PROVE CopiesInv'
  <2>1. PICK ok \in QueryResults : seen' = [seen EXCEPT ![p] = Copies({t \in Tasks : ok /\ SweepEnabled /\ Listed(t) /\ expired[t]})]
    BY <1>4 DEF ListTimedOut
  <2>2. \A t \in Tasks : seen'[p][t] \in {"none"} \cup Unfinished
    BY <1>0, <2>1 DEF Copies, Listed, PollersOK
  <2> QED BY <1>0, <1>2, <2>1, <2>2 DEF PollersOK
<1>5. ASSUME NEW p \in Pollers, ListUnfinished(p) PROVE CopiesInv'
  <2>1. PICK ok \in QueryResults : seen' = [seen EXCEPT ![p] = Copies({t \in Tasks : ok /\ Listed(t)})]
    BY <1>5 DEF ListUnfinished
  <2>2. \A t \in Tasks : seen'[p][t] \in {"none"} \cup Unfinished
    BY <1>0, <2>1 DEF Copies, Listed, PollersOK
  <2> QED BY <1>0, <1>2, <2>1, <2>2 DEF PollersOK
<1>6. ASSUME NEW p \in Pollers, ChannelMissing(p) \/ Crash(p) PROVE CopiesInv'
  BY <1>0, <1>2, <1>6 DEF ChannelMissing, Crash, PollersOK
<1>7. ASSUME NEW p \in Pollers, FetchBatch(p) PROVE CopiesInv'
  <2>1. PICK a : seen' = [seen EXCEPT ![p] = [t \in Tasks |-> IF a[t] = "none" THEN "none" ELSE @[t]]]
    BY <1>7 DEF FetchBatch
  <2> QED BY <1>0, <1>2, <2>1 DEF PollersOK
<1>8. ASSUME NEW p \in Pollers, NEW t \in Tasks, seen' = seen \/ Drop(p, t) PROVE CopiesInv'
  <2>1. CASE Drop(p, t)
    BY <1>0, <1>2, <2>1, ExceptAt DEF Drop, PollersOK
  <2> QED BY <1>3, <1>8, <2>1
<1>9. ASSUME NEW p \in Pollers, NEW t \in Tasks,
             \/ SweepTask(p, t) \/ FetchTask(p, t) \/ FetchNothing(p, t) \/ ApplyAnswer(p, t) \/ SunoItem(p, t) \/ SunoFailure(p, t)
             \/ SunoSave(p, t) \/ AdjustFunding(p, t) \/ AdjustToken(p, t)
      PROVE  CopiesInv'
  BY <1>8, <1>9 DEF SweepTask, FetchTask, FetchNothing, ApplyAnswer, SunoItem, SunoFailure, SunoSave, SaveCopy, AdjustFunding, AdjustToken
<1>10. ASSUME NEW p \in Pollers, ChannelFound(p) \/ RoundOver(p) PROVE CopiesInv'
  BY <1>3, <1>10 DEF ChannelFound, RoundOver
<1>11. ASSUME \/ UNCHANGED vars \/ DeleteChannel \/ \E f \in Fetchers : Fetch(f)
              \/ \E t \in Tasks : SettleSubmission(t) \/ Insert(t) \/ UpstreamEnds(t) \/ TimeoutPasses(t)
       PROVE  CopiesInv'
  BY <1>3, <1>11 DEF vars, DeleteChannel, Fetch, FetchStart, FetchAnswer, FetchWrite, SettleSubmission, Insert, UpstreamEnds, TimeoutPasses
<1> QED BY <1>4, <1>5, <1>6, <1>7, <1>9, <1>10, <1>11 DEF Next, Round

\* The kinds of steps.
LEMMA TaskKinds ==
  ASSUME TypeOK, StepInv, CopiesInv, [Next]_vars, Platform = "video", Fetchers = {}, NEW u \in Tasks
  PROVE  TaskStep(u)
<1>0. RowsOK /\ PollersOK /\ MoneyOK
  BY DEF TypeOK
<1> USE TaskAssumption, Labels
<1>1. ASSUME UNCHANGED rows, UNCHANGED money, disturbed[u] => disturbed'[u], UNCHANGED bill,
             \A q \in Pollers : pc'[q] = pc[q] \/ pc[q] \notin Billing
      PROVE  TaskStep(u)
  <2>1. \A q \in Pollers : bill[q][u] # 0 => pc'[q] = pc[q]
    BY <1>1 DEF StepInv, PollerInv, BillInv, OneTask
  <2> QED BY <1>1, <2>1 DEF TaskStep, Idle, RowKept, SameRow, CostKept, BillsKept
<1>2. ASSUME NEW t \in Tasks, SettleSubmission(t) PROVE TaskStep(u)
  <2>1. PICK e \in Estimates \cup {Quota} :
          /\ paid' = [paid EXCEPT ![t] = e] /\ tokPaid' = [tokPaid EXCEPT ![t] = e]
          /\ UNCHANGED disturbed \/ disturbed' = [disturbed EXCEPT ![t] = TRUE]
          /\ e # Quota => disturbed' = [disturbed EXCEPT ![t] = TRUE]
    BY <1>2 DEF SettleSubmission, Fails, FundingRefuses
  <2>2. /\ submit[t] = "start" /\ submit' = [submit EXCEPT ![t] = "charged"] /\ UNCHANGED <<row, poller>>
    BY <1>2 DEF SettleSubmission
  <2>3. BillsKept(u, {})
    BY <2>2 DEF BillsKept
  <2>4. disturbed[u] => disturbed'[u]
    BY <1>0, <2>1 DEF MoneyOK
  <2>5. CASE u = t
    <3>1. e # Quota => disturbed'[u]
      BY <1>0, <2>1, <2>5 DEF MoneyOK
    <3>2. paid'[u] = e /\ tokPaid'[u] = e /\ submit'[u] = "charged"
      BY <1>0, <2>1, <2>2, <2>5 DEF MoneyOK, RowsOK
    <3> QED BY <2>2, <2>3, <2>4, <2>5, <3>1, <3>2 DEF TaskStep, Submits, SameRow
  <2>6. CASE u # t
    <3>1. paid'[u] = paid[u] /\ tokPaid'[u] = tokPaid[u] /\ submit'[u] = submit[u]
      BY <1>0, <2>1, <2>2, <2>6 DEF MoneyOK, RowsOK
    <3> QED BY <2>2, <2>3, <2>4, <3>1 DEF TaskStep, Idle, RowKept, SameRow, CostKept
  <2> QED BY <2>5, <2>6
<1>3. ASSUME NEW t \in Tasks, Insert(t) PROVE TaskStep(u)
  <2>1. submit[t] = "charged" /\ UNCHANGED <<money, poller>>
    BY <1>3 DEF Insert
  <2>2. BillsKept(u, {}) /\ CostKept(u)
    BY <2>1 DEF BillsKept, CostKept
  <2>3. CASE submit' = [submit EXCEPT ![t] = "inserted"] /\ Write(t, "NOT_START") /\ UNCHANGED disturbed
    <3>1. /\ u = t => submit'[u] = "inserted" /\ status'[u] = "NOT_START" /\ ~reason'[u]
          /\ u # t => submit'[u] = submit[u] /\ SameRow(u)
      BY <1>0, <2>3 DEF Write, RowsOK, SameRow
    <3> QED BY <2>1, <2>2, <2>3, <3>1 DEF TaskStep, Inserts, Idle, RowKept, SameRow
  <2>4. CASE Fails(t) /\ submit' = [submit EXCEPT ![t] = "lost"] /\ UNCHANGED row
    <3>1. /\ disturbed[u] => disturbed'[u]
          /\ u = t => submit'[u] = "lost" /\ disturbed'[u]
          /\ u # t => submit'[u] = submit[u]
      BY <1>0, <2>4 DEF Fails, RowsOK, MoneyOK
    <3> QED BY <2>1, <2>2, <2>4, <3>1 DEF TaskStep, Inserts, Idle, RowKept, SameRow
  <2> QED BY <1>3, <2>3, <2>4 DEF Insert
<1>4. ASSUME NEW t \in Tasks, UpstreamEnds(t) \/ TimeoutPasses(t) PROVE TaskStep(u)
  BY <1>1, <1>4 DEF UpstreamEnds, TimeoutPasses
<1>5. ASSUME NEW p \in Pollers, ListTimedOut(p) \/ ListUnfinished(p) \/ ChannelFound(p) \/ RoundOver(p) \/ FetchBatch(p) PROVE TaskStep(u)
  <2>1. \A q \in Pollers : pc'[q] = pc[q] \/ pc[q] \notin Billing
    BY <1>0, <1>5 DEF ListTimedOut, ListUnfinished, ChannelFound, RoundOver, FetchBatch, Goto, PollersOK, Billing
  <2> QED BY <1>1, <1>5, <2>1 DEF ListTimedOut, ListUnfinished, ChannelFound, RoundOver, FetchBatch
<1>6. ASSUME NEW p \in Pollers, NEW t \in Tasks, FetchTask(p, t) \/ FetchNothing(p, t) PROVE TaskStep(u)
  <2>1. \A q \in Pollers : pc'[q] = pc[q] \/ pc[q] \notin Billing
    BY <1>0, <1>6 DEF FetchTask, FetchNothing, Goto, PollersOK, Billing
  <2> QED BY <1>1, <1>6, <2>1 DEF FetchTask, FetchNothing
<1>7. ASSUME NEW p \in Pollers, NEW t \in Tasks, SunoItem(p, t) \/ SunoFailure(p, t) \/ SunoSave(p, t) PROVE FALSE
  BY <1>7 DEF SunoItem, SunoFailure, SunoSave, StepInv, PollerInv, OneTask
<1>8. ASSUME NEW p \in Pollers, ChannelMissing(p) PROVE TaskStep(u)
  <2>1. PICK ok \in BOOLEAN :
          /\ status' = [t \in Tasks |-> IF ok /\ seen[p][t] # "none" THEN "FAILURE" ELSE status[t]]
          /\ complete' = [t \in Tasks |-> complete[t] \/ (ok /\ seen[p][t] # "none")]
          /\ reason' = [t \in Tasks |-> reason[t] /\ ~(ok /\ seen[p][t] # "none")]
    BY <1>8 DEF ChannelMissing, QueryResults
  <2>2. pc[p] = "channel" /\ channelGone /\ UNCHANGED <<submit, money, bill, disturbed>> /\ \A q \in Pollers : q # p => pc'[q] = pc[q]
    BY <1>0, <1>8 DEF ChannelMissing, Goto, PollersOK
  <2>3. BillsKept(u, {}) /\ CostKept(u)
    BY <2>2 DEF BillsKept, CostKept, StepInv, PollerInv, BillInv, Billing
  <2>4. CASE ok /\ seen[p][u] # "none"
    <3>1. submit[u] = "inserted" /\ status'[u] = "FAILURE" /\ ChannelMayGo
      BY <2>1, <2>2, <2>4 DEF StepInv, PollerInv, CopyInv, CopiesInv
    <3> QED BY <2>2, <2>3, <3>1 DEF TaskStep, Fallen
  <2>5. CASE ~(ok /\ seen[p][u] # "none")
    <3>1. SameRow(u)
      BY <1>0, <2>1, <2>5 DEF RowsOK, SameRow
    <3> QED BY <2>2, <2>3, <3>1 DEF TaskStep, Idle, RowKept, SameRow
  <2> QED BY <2>4, <2>5
<1>9. ASSUME NEW p \in Pollers, NEW t \in Tasks, pc[p] \notin Billing \cup {"save"}, UNCHANGED <<submit, money>>,
             NEW a \in {"IN_PROGRESS", "AT100"} \cup Final, NEW b \in Int, status[t] \in Unfinished, Write(t, a),
             bill' = [bill EXCEPT ![p][t] = b], pc'[p] \in PollerLabels, \A q \in Pollers : q # p => pc'[q] = pc[q],
             b # 0 => pc'[p] \in Funding,
             IF a \in Final THEN b \in FinalBills(a) \/ (t \in Legacy /\ b = 0) ELSE b = 0, UNCHANGED disturbed
      PROVE  TaskStep(u)
  <2>1. \A x \in Tasks : bill[p][x] = 0
    BY <1>9 DEF StepInv, PollerInv, BillInv
  <2>2. bill'[p][t] = b /\ (\A x \in Tasks : x # t => bill'[p][x] = 0) /\ \A q \in Pollers : q # p => bill'[q] = bill[q]
    BY <1>0, <1>9, <2>1, ExceptAt DEF PollersOK
  <2>3. CostKept(u)
    BY <1>9 DEF CostKept
  <2>4. /\ status'[t] = (IF a \in Final THEN a ELSE "IN_PROGRESS") /\ ~reason'[t]
        /\ \A x \in Tasks : x # t => SameRow(x)
    BY <1>0, <1>9 DEF Write, RowsOK, SameRow
  <2>5. BillsKept(u, {p}) /\ (u # t \/ b = 0 => BillsKept(u, {}))
    BY <1>9, <2>1, <2>2 DEF BillsKept
  <2>6. CASE u # t
    BY <1>9, <2>3, <2>4, <2>5, <2>6 DEF TaskStep, Idle, RowKept, SameRow
  <2>7. CASE u = t /\ a \notin Final
    BY <1>9, <2>3, <2>4, <2>5, <2>7 DEF TaskStep, Advances
  <2>8. CASE u = t /\ a \in Final
    <3>1. status[u] \in Unfinished /\ status'[u] \in Final /\ ~reason'[u] /\ submit'[u] = submit[u]
      BY <1>9, <2>4, <2>8
    <3>2. bill[p][u] = 0 /\ bill'[p][u] = b /\ (b # 0 => pc'[p] \in Funding)
      BY <1>9, <2>1, <2>2, <2>8
    <3>3. b \in FinalBills(status'[u]) \/ (u \in Legacy /\ b = 0)
      BY <1>9, <2>4, <2>8
    <3>4. Ends(p, u)
      BY <2>3, <2>5, <3>1, <3>2, <3>3 DEF Ends
    <3>5. disturbed[u] => disturbed'[u]
      BY <1>9
    <3> QED BY <3>4, <3>5 DEF TaskStep
  <2> QED BY <2>6, <2>7, <2>8
<1>10. ASSUME NEW p \in Pollers, NEW t \in Tasks, SweepTask(p, t) PROVE TaskStep(u)
  <2>1. pc[p] = "sweep" /\ seen[p][t] # "none" /\ UNCHANGED <<submit, money>>
    BY <1>10 DEF SweepTask
  <2>2. CASE UNCHANGED <<pc, row, bill>> /\ (UNCHANGED disturbed \/ Fails(t))
    <3>1. disturbed[u] => disturbed'[u]
      BY <1>0, <2>2 DEF Fails, MoneyOK
    <3> QED BY <1>1, <2>1, <2>2, <3>1
  <2>3. CASE /\ UpdateWithStatus(t, seen[p][t]) /\ Write(t, "FAILURE") /\ UNCHANGED disturbed
             /\ bill' = [bill EXCEPT ![p][t] = IF t \in Legacy THEN 0 ELSE -Quota]
             /\ Goto(p, IF t \in Legacy THEN "sweep" ELSE "sweepFunding")
    <3> DEFINE b == IF t \in Legacy THEN 0 ELSE -Quota
    <3>1. b \in Int /\ (b \in FinalBills("FAILURE") \/ (t \in Legacy /\ b = 0))
      BY DEF FinalBills
    <3>2. /\ pc'[p] = (IF t \in Legacy THEN "sweep" ELSE "sweepFunding") /\ (b # 0 => pc'[p] \in Funding) /\ pc'[p] \in PollerLabels
          /\ \A q \in Pollers : q # p => pc'[q] = pc[q]
      BY <1>0, <2>3 DEF Goto, PollersOK, Funding, PollerLabels
    <3>3. status[t] \in Unfinished
      BY <2>1, <2>3 DEF UpdateWithStatus, CopiesInv
    <3>4. bill' = [bill EXCEPT ![p][t] = b]
      BY <2>3
    <3> HIDE DEF b
    <3> QED BY <1>9, <2>1, <2>3, <3>1, <3>2, <3>3, <3>4 DEF Billing
  <2> QED BY <1>10, <2>2, <2>3 DEF SweepTask
<1>11. ASSUME NEW p \in Pollers, NEW t \in Tasks, ApplyAnswer(p, t) PROVE TaskStep(u)
  <2>1. pc[p] = "fetched" /\ answer[p][t] # "none" /\ UNCHANGED <<submit, money>>
    BY <1>11 DEF ApplyAnswer
  <2>2. seen[p][t] # "none" /\ answer[p][t] \in {"IN_PROGRESS", "AT100"} \cup Final
    BY <1>0, <2>1 DEF StepInv, PollerInv, CopyInv, PollersOK
  <2>3. CASE Goto(p, "poll") /\ UNCHANGED <<row, bill>> /\ (UNCHANGED disturbed \/ Fails(t))
    <3>1. disturbed[u] => disturbed'[u]
      BY <1>0, <2>3 DEF Fails, MoneyOK
    <3>2. \A q \in Pollers : pc'[q] = pc[q] \/ pc[q] \notin Billing
      BY <1>0, <2>1, <2>3 DEF Goto, PollersOK, Billing
    <3> QED BY <1>1, <2>1, <2>3, <3>1, <3>2
  <2>4. ASSUME UpdateWithStatus(t, seen[p][t]), Write(t, answer[p][t]), UNCHANGED disturbed,
               NEW b \in IF answer[p][t] \in Final THEN FinalBills(answer[p][t]) ELSE {0},
               bill' = [bill EXCEPT ![p][t] = b], Goto(p, IF b = 0 THEN "poll" ELSE "pollFunding")
        PROVE  TaskStep(u)
    <3>1. b \in Int
      BY <2>4 DEF FinalBills
    <3>2. /\ (b # 0 => pc'[p] \in Funding) /\ pc'[p] \in PollerLabels
          /\ \A q \in Pollers : q # p => pc'[q] = pc[q]
      BY <1>0, <2>4 DEF Goto, PollersOK, Funding, PollerLabels
    <3>3. status[t] \in Unfinished
      BY <2>2, <2>4 DEF UpdateWithStatus, CopiesInv
    <3>4. IF answer[p][t] \in Final THEN b \in FinalBills(answer[p][t]) \/ (t \in Legacy /\ b = 0) ELSE b = 0
      BY <2>4
    <3> QED BY <1>9, <2>1, <2>2, <2>4, <3>1, <3>2, <3>3, <3>4 DEF Billing
  <2> QED BY <1>11, <2>3, <2>4 DEF ApplyAnswer
<1>12. ASSUME NEW p \in Pollers, NEW t \in Tasks, AdjustFunding(p, t) \/ AdjustToken(p, t) PROVE TaskStep(u)
  <2>1. bill[p][t] # 0 /\ UNCHANGED rows /\ \A x \in Tasks : x # t => bill[p][x] = 0
    BY <1>12 DEF AdjustFunding, AdjustToken, StepInv, PollerInv, OneTask
  <2>2. \A q \in Pollers : q # p => pc'[q] = pc[q] /\ bill'[q] = bill[q]
    BY <1>0, <1>12, ExceptAt DEF AdjustFunding, AdjustToken, Goto, Billed, PollersOK
  <2>3. \A x \in Tasks : x # t => bill'[p][x] = 0
    BY <1>0, <1>12, <2>1, ExceptAt DEF AdjustFunding, AdjustToken, Billed, PollersOK
  <2>4. disturbed[u] => disturbed'[u]
    BY <1>0, <1>12 DEF AdjustFunding, AdjustToken, Fails, FundingRefuses, MoneyOK
  <2>5. RowKept(u) /\ BillsKept(u, {p}) /\ (u # t => BillsKept(u, {}))
    BY <2>1, <2>2, <2>3 DEF RowKept, SameRow, BillsKept
  <2>6. CASE u # t
    <3>1. CostKept(u)
      BY <1>0, <1>12, <2>6 DEF AdjustFunding, AdjustToken, CostKept, MoneyOK
    <3> QED BY <2>4, <2>5, <2>6, <3>1 DEF TaskStep, Idle
  <2>7. CASE u = t
    <3>1. AfterBilling(p) # "save"
      BY DEF AfterBilling
    <3>2. Billed(p, t) => bill'[p][t] = 0
      BY <1>0, <3>1, ExceptAt DEF Billed, PollersOK
    <3>3. CASE /\ AdjustFunding(p, t) /\ paid' = [paid EXCEPT ![t] = @ + bill[p][t]] /\ UNCHANGED <<bill, tokPaid>>
               /\ Goto(p, IF pc[p] = "sweepFunding" THEN "sweepToken" ELSE "pollToken")
      <4>1. pc[p] \in Funding /\ pc'[p] \notin Funding /\ paid'[t] = paid[t] + bill[p][t]
        BY <1>0, <3>3 DEF AdjustFunding, Goto, Funding, PollersOK, MoneyOK
      <4> QED BY <2>1, <2>4, <2>5, <2>7, <3>3, <4>1 DEF TaskStep, PaysFunding
    <3>4. CASE AdjustToken(p, t) /\ tokPaid' = [tokPaid EXCEPT ![t] = @ + bill[p][t]] /\ UNCHANGED paid
      <4>1. pc[p] \notin Funding /\ tokPaid'[t] = tokPaid[t] + bill[p][t] /\ bill'[p][t] = 0
        BY <1>0, <3>2, <3>4 DEF AdjustToken, Funding, MoneyOK
      <4> QED BY <2>1, <2>4, <2>5, <2>7, <3>4, <4>1 DEF TaskStep, PaysToken
    <3>5. CASE (Fails(t) \/ FundingRefuses(t)) /\ UNCHANGED money /\ Billed(p, t)
      <4>1. disturbed'[t]
        BY <1>0, <3>5 DEF Fails, FundingRefuses, MoneyOK
      <4> QED BY <2>4, <2>5, <2>7, <3>2, <3>5, <4>1 DEF TaskStep, GivesUp, CostKept
    <3> QED BY <1>12, <3>3, <3>4, <3>5 DEF AdjustFunding, AdjustToken
  <2> QED BY <2>6, <2>7
<1>13. ASSUME NEW p \in Pollers, Crash(p) PROVE TaskStep(u)
  <2>1. /\ UNCHANGED <<rows, money>> /\ bill'[p][u] = 0 /\ (bill[p][u] # 0 => disturbed'[u]) /\ (disturbed[u] => disturbed'[u])
        /\ \A q \in Pollers : q # p => pc'[q] = pc[q] /\ bill'[q] = bill[q]
    BY <1>0, <1>13 DEF Crash, Goto, PollersOK, MoneyOK
  <2>2. CASE bill[p][u] = 0
    BY <2>1, <2>2 DEF TaskStep, Idle, RowKept, SameRow, CostKept, BillsKept
  <2>3. CASE bill[p][u] # 0
    BY <2>1, <2>3 DEF TaskStep, GivesUp, RowKept, SameRow, CostKept, BillsKept
  <2> QED BY <2>2, <2>3
<1>14. CASE DeleteChannel \/ UNCHANGED vars
  BY <1>1, <1>14 DEF DeleteChannel, vars
<1> QED BY <1>2, <1>3, <1>4, <1>5, <1>6, <1>7, <1>8, <1>10, <1>11, <1>12, <1>13, <1>14 DEF Next, Round

-----------------------------------------------------------------------------
(* Video tasks: one billing, within the charge. *)

\* Only a task that ended is billed, and by one poller.
OnceAt(t) ==
  /\ \A p \in Pollers : bill[p][t] # 0 => status[t] \in Final
  /\ \A p, q \in Pollers : bill[p][t] # 0 /\ bill[q][t] # 0 => p = q

\* What has been charged covers the largest refund still to be made.
CoveredAt(t) ==
  /\ submit[t] = "start" => paid[t] = 0 /\ tokPaid[t] = 0
  /\ submit[t] # "start" /\ status[t] \notin Final => paid[t] >= Quota /\ tokPaid[t] >= Quota
  /\ paid[t] >= 0 /\ tokPaid[t] >= 0
  /\ \A p \in Pollers : bill[p][t] # 0 => /\ bill[p][t] >= -Quota /\ tokPaid[t] >= Quota
                                          /\ pc[p] \in Funding => paid[t] >= Quota

OnceInv == \A t \in Tasks : OnceAt(t)
CoveredInv == \A t \in Tasks : CoveredAt(t)

\* The guarded update has one winner: a task is billed by the poller that ended it.
LEMMA OnceStep ==
  ASSUME TypeOK, TypeOK', NEW t \in Tasks, OnceAt(t), TaskStep(t)
  PROVE  OnceAt(t)'
<1>0. \A p \in Pollers : bill[p][t] \in Int /\ bill'[p][t] \in Int
  BY DEF TypeOK, PollersOK
<1> USE Labels
<1>2. CASE Idle(t)
  BY <1>2 DEF Idle, OnceAt, RowKept, SameRow, BillsKept
<1>3. CASE Submits(t)
  BY <1>3 DEF Submits, OnceAt, BillsKept, SameRow
<1>4. CASE Inserts(t)
  <2>1. status[t] \notin Final
    BY <1>4 DEF Inserts, TypeOK, RowsOK
  <2> QED BY <1>4, <2>1 DEF Inserts, OnceAt, BillsKept, SameRow
<1>5. CASE Advances(t)
  BY <1>5 DEF Advances, OnceAt, BillsKept
<1>6. CASE Fallen(t)
  BY <1>6 DEF Fallen, OnceAt, BillsKept
<1>7. ASSUME NEW p \in Pollers, Ends(p, t) PROVE OnceAt(t)'
  <2>1. \A q \in Pollers : bill[q][t] = 0
    BY <1>7 DEF Ends, OnceAt
  <2> QED BY <1>7, <2>1 DEF Ends, OnceAt, BillsKept
<1>8. ASSUME NEW p \in Pollers, PaysFunding(p, t) \/ PaysToken(p, t) \/ GivesUp(p, t) PROVE OnceAt(t)'
  BY <1>8 DEF PaysFunding, PaysToken, GivesUp, OnceAt, RowKept, SameRow, BillsKept
<1> QED BY <1>2, <1>3, <1>4, <1>5, <1>6, <1>7, <1>8 DEF TaskStep

\* Each step keeps the charge above what is still to be refunded.
LEMMA CoveredStep ==
  ASSUME TypeOK, TypeOK', NEW t \in Tasks, OnceAt(t), CoveredAt(t), TaskStep(t), \A e \in Estimates : e >= Quota
  PROVE  CoveredAt(t)'
<1>0. /\ \A p \in Pollers : bill[p][t] \in Int /\ bill'[p][t] \in Int
      /\ paid[t] \in Int /\ tokPaid[t] \in Int /\ Quota \in Int /\ Quota > 0
  BY TaskAssumption DEF TypeOK, PollersOK, MoneyOK
<1>1. submit[t] = "inserted" <=> status[t] # "none"
  BY DEF TypeOK, RowsOK
<1> USE Labels
<1>2. CASE Idle(t)
  BY <1>2 DEF Idle, CoveredAt, RowKept, SameRow, CostKept, BillsKept
<1>3. CASE Submits(t)
  <2>1. \A p \in Pollers : bill[p][t] = 0
    BY <1>1, <1>3 DEF Submits, OnceAt
  <2>2. PICK e \in Estimates \cup {Quota} : paid'[t] = e /\ tokPaid'[t] = e
    BY <1>3 DEF Submits
  <2>4. e \in Int
    BY <1>0, TaskAssumption
  <2>3. e \in Int /\ e >= Quota
    <3>1. CASE e \in Estimates
      BY <2>4, <3>1
    <3>2. CASE e = Quota
      BY <1>0, <3>2
    <3> QED BY <3>1, <3>2
  <2> QED BY <1>0, <1>3, <2>1, <2>2, <2>3 DEF Submits, CoveredAt, BillsKept
<1>4. CASE Inserts(t)
  <2>1. \A p \in Pollers : bill'[p][t] = 0
    BY <1>1, <1>4 DEF Inserts, OnceAt, BillsKept, SameRow
  <2>2. paid[t] >= Quota /\ tokPaid[t] >= Quota
    BY <1>1, <1>4 DEF Inserts, CoveredAt
  <2> QED BY <1>0, <1>4, <2>1, <2>2 DEF Inserts, CoveredAt, CostKept
<1>5. CASE Advances(t)
  <2>1. \A p \in Pollers : bill'[p][t] = 0
    BY <1>5 DEF Advances, OnceAt, BillsKept
  <2> QED BY <1>1, <1>5, <2>1 DEF Advances, CoveredAt, CostKept
<1>6. CASE Fallen(t)
  BY <1>6 DEF Fallen, CoveredAt, CostKept, BillsKept
<1>7. ASSUME NEW p \in Pollers, Ends(p, t) PROVE CoveredAt(t)'
  <2>1. \A q \in Pollers : bill[q][t] = 0
    BY <1>7 DEF Ends, OnceAt
  <2>2. paid[t] >= Quota /\ tokPaid[t] >= Quota
    BY <1>1, <1>7 DEF Ends, CoveredAt
  <2>3. bill'[p][t] >= -Quota
    <3>1. \A q \in Actuals : q \in Nat
      BY TaskAssumption
    <3>2. ASSUME NEW b \in FinalBills(status'[t]) PROVE b >= -Quota
      BY <1>0, <3>1 DEF FinalBills
    <3>3. bill'[p][t] \in FinalBills(status'[t]) \/ bill'[p][t] = 0
      BY <1>7 DEF Ends
    <3> QED BY <1>0, <3>2, <3>3
  <2>4. \A q \in Pollers : q # p => bill'[q][t] = 0
    BY <1>7, <2>1 DEF Ends, BillsKept
  <2> QED BY <1>0, <1>1, <1>7, <2>2, <2>3, <2>4 DEF Ends, CoveredAt, CostKept
<1>8. ASSUME NEW p \in Pollers, PaysFunding(p, t) PROVE CoveredAt(t)'
  <2>1. \A q \in Pollers : q # p => bill'[q][t] = 0
    BY <1>8 DEF PaysFunding, OnceAt, BillsKept
  <2>2. status[t] \in Final /\ submit[t] = "inserted"
    BY <1>1, <1>8 DEF PaysFunding, OnceAt
  <2> QED BY <1>0, <1>8, <2>1, <2>2 DEF PaysFunding, CoveredAt, RowKept, SameRow
<1>9. ASSUME NEW p \in Pollers, PaysToken(p, t) PROVE CoveredAt(t)'
  <2>1. \A q \in Pollers : bill'[q][t] = 0
    BY <1>9 DEF PaysToken, OnceAt, BillsKept
  <2>2. status[t] \in Final /\ submit[t] = "inserted"
    BY <1>1, <1>9 DEF PaysToken, OnceAt
  <2> QED BY <1>0, <1>9, <2>1, <2>2 DEF PaysToken, CoveredAt, RowKept, SameRow
<1>10. ASSUME NEW p \in Pollers, GivesUp(p, t) PROVE CoveredAt(t)'
  BY <1>10 DEF GivesUp, CoveredAt, RowKept, SameRow, CostKept, BillsKept
<1> QED BY <1>2, <1>3, <1>4, <1>5, <1>6, <1>7, <1>8, <1>9, <1>10 DEF TaskStep

-----------------------------------------------------------------------------
(* Video tasks of a channel that stays: what a task has cost, to the unit. *)

ExactBill(p, t) ==
  /\ tokPaid[t] = Quota /\ paid[t] = IF pc[p] \in Funding THEN Quota ELSE Quota + bill[p][t]
  /\ IF status[t] = "FAILURE" THEN bill[p][t] = -Quota ELSE Quota + bill[p][t] \in Actuals \ {0}

\* Only the status says that a video task failed, and an undisturbed task has cost its quota,
\* whatever its progress, then what its bill has made of it so far, then its final quota.
ExactAt(t) ==
  /\ ~reason[t]
  /\ t \notin Legacy /\ submit[t] # "start" /\ ~disturbed[t] =>
       /\ status[t] \notin Final => paid[t] = Quota /\ tokPaid[t] = Quota
       /\ status[t] \in Final /\ Quiet(t) =>
            /\ tokPaid[t] = paid[t]
            /\ IF status[t] = "FAILURE" THEN paid[t] = 0 ELSE paid[t] \in {Quota} \cup (Actuals \ {0})
       /\ \A p \in Pollers : bill[p][t] # 0 => ExactBill(p, t)

ExactInv == \A t \in Tasks : ExactAt(t)

\* Each step keeps a task's cost what its status and its bill say.
LEMMA ExactStep ==
  ASSUME TypeOK, TypeOK', NEW t \in Tasks, OnceAt(t), ExactAt(t), TaskStep(t), ~ChannelMayGo
  PROVE  ExactAt(t)'
<1>0. /\ \A p \in Pollers : bill[p][t] \in Int /\ bill'[p][t] \in Int
      /\ paid[t] \in Int /\ tokPaid[t] \in Int /\ Quota \in Int /\ Quota > 0
  BY TaskAssumption DEF TypeOK, PollersOK, MoneyOK
<1>1. (submit[t] = "inserted" <=> status[t] # "none") /\ disturbed[t] \in BOOLEAN /\ disturbed'[t] \in BOOLEAN /\ (disturbed[t] => disturbed'[t])
  BY DEF TypeOK, RowsOK, MoneyOK, TaskStep
<1> USE Labels
<1>2. CASE Idle(t)
  <2>1. Quiet(t)' => Quiet(t)
    BY <1>2 DEF Idle, BillsKept, Quiet
  <2> QED BY <1>1, <1>2, <2>1 DEF Idle, ExactAt, ExactBill, RowKept, SameRow, CostKept, BillsKept
<1>3. CASE Submits(t)
  <2>1. status[t] \notin Final
    BY <1>1, <1>3 DEF Submits
  <2>2. \A p \in Pollers : bill'[p][t] = 0
    BY <1>3, <2>1 DEF Submits, OnceAt, BillsKept, SameRow
  <2>3. ~disturbed'[t] => paid'[t] = Quota /\ tokPaid'[t] = Quota
    BY <1>3 DEF Submits
  <2> QED BY <1>1, <1>3, <2>1, <2>2, <2>3 DEF Submits, ExactAt, SameRow
<1>4. CASE Inserts(t)
  <2>1. status[t] \notin Final /\ submit[t] # "start"
    BY <1>1, <1>4 DEF Inserts
  <2>2. \A p \in Pollers : bill'[p][t] = 0
    BY <1>4, <2>1 DEF Inserts, OnceAt, BillsKept, SameRow
  <2>3. status'[t] \notin Final /\ ~reason'[t]
    BY <1>4, <2>1 DEF Inserts, ExactAt, SameRow
  <2> QED BY <1>1, <1>4, <2>1, <2>2, <2>3 DEF Inserts, ExactAt, CostKept
<1>5. CASE Advances(t)
  <2>1. \A p \in Pollers : bill'[p][t] = 0
    BY <1>5 DEF Advances, OnceAt, BillsKept
  <2> QED BY <1>1, <1>5, <2>1 DEF Advances, ExactAt, CostKept
<1>6. CASE Fallen(t)
  BY <1>6 DEF Fallen
<1>7. ASSUME NEW p \in Pollers, Ends(p, t) PROVE ExactAt(t)'
  <2>1. \A q \in Pollers : q # p => bill'[q][t] = 0
    BY <1>7 DEF Ends, OnceAt, BillsKept
  <2>2. submit'[t] = submit[t] /\ submit[t] # "start" /\ status'[t] \in Final /\ ~reason'[t] /\ paid'[t] = paid[t] /\ tokPaid'[t] = tokPaid[t]
    BY <1>1, <1>7 DEF Ends, CostKept
  <2>3. ASSUME t \notin Legacy, ~disturbed'[t]
        PROVE  /\ Quiet(t)' => /\ tokPaid'[t] = paid'[t]
                               /\ IF status'[t] = "FAILURE" THEN paid'[t] = 0 ELSE paid'[t] \in {Quota} \cup (Actuals \ {0})
               /\ \A q \in Pollers : bill'[q][t] # 0 => ExactBill(q, t)'
    <3>1. paid'[t] = Quota /\ tokPaid'[t] = Quota
      BY <1>1, <1>7, <2>2, <2>3 DEF Ends, ExactAt
    <3>2. bill'[p][t] \in FinalBills(status'[t])
      BY <1>7, <2>3 DEF Ends
    <3>3. CASE status'[t] = "FAILURE"
      <4>1. bill'[p][t] = -Quota
        BY <3>2, <3>3 DEF FinalBills
      <4> QED BY <1>0, <1>7, <2>1, <3>1, <3>3, <4>1 DEF Ends, Quiet, ExactBill
    <3>4. CASE status'[t] # "FAILURE"
      <4>1. PICK a \in Actuals : bill'[p][t] = IF a = 0 THEN 0 ELSE a - Quota
        BY <3>2, <3>4 DEF FinalBills
      <4>2. a \in Int
        BY TaskAssumption
      <4>3. bill'[p][t] # 0 => Quota + bill'[p][t] = a /\ a # 0
        BY <1>0, <4>1, <4>2
      <4> QED BY <1>0, <1>7, <2>1, <3>1, <3>4, <4>3 DEF Ends, Quiet, ExactBill
    <3> QED BY <3>3, <3>4
  <2> QED BY <2>2, <2>3 DEF ExactAt
<1>8. ASSUME NEW p \in Pollers, PaysFunding(p, t) PROVE ExactAt(t)'
  <2>1. \A q \in Pollers : q # p => bill'[q][t] = 0
    BY <1>8 DEF PaysFunding, OnceAt, BillsKept
  <2>2. status[t] \in Final /\ submit[t] # "start" /\ ~Quiet(t)'
    BY <1>1, <1>8 DEF PaysFunding, OnceAt, Quiet
  <2>3. t \notin Legacy /\ ~disturbed'[t] => ExactBill(p, t)
    BY <1>1, <1>8, <2>2 DEF PaysFunding, ExactAt
  <2>4. ExactBill(p, t) => ExactBill(p, t)'
    BY <1>0, <1>8 DEF PaysFunding, ExactBill, RowKept, SameRow
  <2> QED BY <1>1, <1>8, <2>1, <2>2, <2>3, <2>4 DEF PaysFunding, ExactAt, RowKept, SameRow
<1>9. ASSUME NEW p \in Pollers, PaysToken(p, t) PROVE ExactAt(t)'
  <2>1. \A q \in Pollers : bill'[q][t] = 0
    BY <1>9 DEF PaysToken, OnceAt, BillsKept
  <2>2. status[t] \in Final /\ submit[t] # "start"
    BY <1>1, <1>9 DEF PaysToken, OnceAt
  <2>3. t \notin Legacy /\ ~disturbed'[t] => ExactBill(p, t)
    BY <1>1, <1>9, <2>2 DEF PaysToken, ExactAt
  <2>4. ExactBill(p, t) => /\ tokPaid'[t] = paid'[t]
                           /\ IF status[t] = "FAILURE" THEN paid'[t] = 0 ELSE paid'[t] \in Actuals \ {0}
    BY <1>0, <1>9 DEF PaysToken, ExactBill
  <2> QED BY <1>1, <1>9, <2>1, <2>2, <2>3, <2>4 DEF PaysToken, ExactAt, RowKept, SameRow
<1>10. ASSUME NEW p \in Pollers, GivesUp(p, t) PROVE ExactAt(t)'
  BY <1>10 DEF GivesUp, ExactAt, RowKept, SameRow
<1> QED BY <1>2, <1>3, <1>4, <1>5, <1>6, <1>7, <1>8, <1>9, <1>10 DEF TaskStep

-----------------------------------------------------------------------------
(* Suno tasks, polled by one process: a failed task is refunded before its *)
(* failure is saved, and a save is not guarded.                            *)

SunoAssumption == Platform = "suno" /\ Fetchers = {} /\ ~ChannelMayGo /\ \A p, q \in Pollers : p = q

\* What an undisturbed task has cost while poller p bills it: a refund, before or after the row has failed.
SunoBill(p, t) ==
  /\ bill[p][t] = -Quota
  /\ paid[t] = IF pc[p] \in Funding THEN Quota ELSE 0
  /\ tokPaid[t] = IF pc[p] = "save" THEN 0 ELSE Quota
  /\ pc[p] \in {"sweepFunding", "sweepToken"} => Failed(t)

\* The copies of the only poller are of rows that are still unfinished; what it refunds was answered to have
\* failed, or with a reason; and the cost of an undisturbed task follows from its row and from the bill.
SunoRow(t) ==
  /\ status[t] \in Final => complete[t]
  /\ reason[t] => complete[t]
  /\ complete[t] => status[t] \in Final \cup {"IN_PROGRESS"}
SunoCopy(p, t) ==
  /\ seen[p][t] # "none" => Listed(t)
  /\ bill[p][t] # 0 => status[t] # "none"
  /\ bill[p][t] # 0 /\ pc[p] \in {"pollFunding", "pollToken", "save"} => answer[p][t] \in {"FAILURE"} \cup ReasonGiven
SunoCost(t) ==
  t \notin Legacy /\ submit[t] # "start" /\ ~disturbed[t] =>
    /\ Quiet(t) => paid[t] = (IF Failed(t) THEN 0 ELSE Quota) /\ tokPaid[t] = paid[t]
    /\ \A p \in Pollers : bill[p][t] # 0 => SunoBill(p, t)
SunoAt(t) == SunoRow(t) /\ (\A p \in Pollers : SunoCopy(p, t)) /\ SunoCost(t)

SunoInv == ~channelGone /\ \A t \in Tasks : SunoAt(t)

\* A task that is not billed, before and after, and whose row and cost do not change.
LEMMA SunoAside ==
  ASSUME NEW t \in Tasks, SunoAt(t), RowKept(t), CostKept(t), disturbed[t] => disturbed'[t],
         \A q \in Pollers : bill[q][t] = 0 /\ bill'[q][t] = 0 /\ (seen'[q][t] # "none" => seen[q][t] # "none" \/ Listed(t))
  PROVE  SunoAt(t)'
<1>1. Quiet(t) /\ (Failed(t)' <=> Failed(t)) /\ (Listed(t)' <=> Listed(t))
  BY DEF RowKept, SameRow, Quiet, Failed, Listed
<1>2. SunoRow(t)'
  BY DEF SunoAt, SunoRow, RowKept, SameRow
<1>3. \A p \in Pollers : SunoCopy(p, t)'
  BY <1>1 DEF SunoAt, SunoCopy
<1>4. SunoCost(t)'
  BY <1>1 DEF SunoAt, SunoCost, RowKept, SameRow, CostKept
<1> QED BY <1>2, <1>3, <1>4 DEF SunoAt

\* A task of which nothing changes that the poller knows or pays.
LEMMA SunoSame ==
  ASSUME NEW t \in Tasks, SunoAt(t), RowKept(t), CostKept(t), disturbed[t] => disturbed'[t], UNCHANGED poller
  PROVE  SunoAt(t)'
<1>1. (Quiet(t)' <=> Quiet(t)) /\ (Failed(t)' <=> Failed(t)) /\ (Listed(t)' <=> Listed(t))
  BY DEF RowKept, SameRow, Quiet, Failed, Listed
<1>2. SunoRow(t)'
  BY DEF SunoAt, SunoRow, RowKept, SameRow
<1>3. \A p \in Pollers : SunoCopy(p, t)'
  BY <1>1 DEF SunoAt, SunoCopy, RowKept, SameRow
<1>4. SunoCost(t)'
  BY <1>1 DEF SunoAt, SunoCost, SunoBill, RowKept, SameRow, CostKept
<1> QED BY <1>2, <1>3, <1>4 DEF SunoAt

\* Each step keeps it.
LEMMA SunoStep ==
  ASSUME TypeOK, TypeOK', StepInv, SunoInv, [Next]_vars, SunoAssumption
  PROVE  SunoInv'
<1>0. RowsOK /\ PollersOK /\ MoneyOK /\ Quota \in Nat \ {0}
  BY TaskAssumption DEF TypeOK
<1>a. ~channelGone'
  BY ChannelKept DEF SunoInv, SunoAssumption, DeleteChannel
<1> SUFFICES ASSUME NEW t \in Tasks PROVE SunoAt(t)'
  BY <1>a DEF SunoInv
<1>b. SunoAt(t)
  BY DEF SunoInv
<1>c. /\ submit[t] = "inserted" <=> status[t] # "none"
      /\ complete[t] \in BOOLEAN /\ disturbed[t] \in BOOLEAN /\ paid[t] \in Int /\ tokPaid[t] \in Int
  BY <1>0 DEF RowsOK, MoneyOK
<1>d. \A p, q \in Pollers : p = q
  BY DEF SunoAssumption
<1>e. ASSUME NEW p \in Pollers PROVE PollerInv(p) /\ CopyInv(p, t) /\ BillInv(p, t) /\ bill[p][t] \in Int
  BY <1>0 DEF StepInv, PollerInv, PollersOK
<1> USE Labels
<1>1. ASSUME NEW u \in Tasks, SettleSubmission(u) PROVE SunoAt(t)'
  <2>1. UNCHANGED <<row, poller>> /\ submit[u] = "start"
    BY <1>1 DEF SettleSubmission
  <2>2. CASE u # t
    <3>1. submit'[t] = submit[t] /\ CostKept(t) /\ disturbed'[t] = disturbed[t]
      BY <1>0, <1>1, <2>2 DEF SettleSubmission, Fails, FundingRefuses, RowsOK, MoneyOK, CostKept
    <3> QED BY <1>b, <2>1, <3>1, SunoSame DEF RowKept, SameRow
  <2>3. CASE u = t
    <3>1. \/ paid'[t] = Quota /\ tokPaid'[t] = Quota
          \/ disturbed'[t]
      BY <1>0, <1>1, <2>3 DEF SettleSubmission, Fails, FundingRefuses, MoneyOK
    <3>2. status[t] = "none" /\ ~complete[t] /\ ~reason[t] /\ \A p \in Pollers : bill[p][t] = 0 /\ seen[p][t] = "none"
      BY <1>b, <1>c, <2>1, <2>3 DEF SunoAt, SunoRow, SunoCopy, Listed
    <3>3. status'[t] = "none" /\ ~complete'[t] /\ ~reason'[t] /\ \A p \in Pollers : bill'[p][t] = 0 /\ seen'[p][t] = "none"
      BY <2>1, <3>2
    <3> QED BY <3>1, <3>3 DEF SunoAt, SunoRow, SunoCopy, SunoCost, Failed
  <2> QED BY <2>2, <2>3
<1>2. ASSUME NEW u \in Tasks, Insert(u) PROVE SunoAt(t)'
  <2>1. UNCHANGED <<money, poller>> /\ submit[u] = "charged"
    BY <1>2 DEF Insert
  <2>2. CASE u # t
    <3>1. RowKept(t) /\ disturbed'[t] = disturbed[t]
      BY <1>0, <1>2, <2>2 DEF Insert, Fails, Write, RowsOK, MoneyOK, RowKept, SameRow
    <3> QED BY <1>b, <2>1, <3>1, SunoSame DEF CostKept
  <2>3. CASE u = t
    <3>1. status[t] = "none" /\ ~complete[t] /\ ~reason[t] /\ \A p \in Pollers : bill[p][t] = 0 /\ seen[p][t] = "none"
      BY <1>b, <1>c, <2>1, <2>3 DEF SunoAt, SunoRow, SunoCopy, Listed
    <3>2. /\ status'[t] \in {"none", "NOT_START"} /\ ~complete'[t] /\ ~reason'[t]
          /\ disturbed'[t] \/ disturbed'[t] = disturbed[t]
      BY <1>0, <1>2, <2>3, <3>1 DEF Insert, Fails, Write, RowsOK, MoneyOK
    <3>3. \A p \in Pollers : bill'[p][t] = 0 /\ seen'[p][t] = "none"
      BY <2>1, <3>1
    <3>4. t \notin Legacy /\ ~disturbed'[t] => paid'[t] = Quota /\ tokPaid'[t] = Quota
      BY <1>b, <2>1, <2>3, <3>1, <3>2 DEF SunoAt, SunoCost, Quiet, Failed
    <3> QED BY <3>2, <3>3, <3>4 DEF SunoAt, SunoRow, SunoCopy, SunoCost, Failed
  <2> QED BY <2>2, <2>3
<1>3. ASSUME NEW u \in Tasks, UpstreamEnds(u) \/ TimeoutPasses(u) PROVE SunoAt(t)'
  BY <1>3, <1>b, SunoSame DEF UpstreamEnds, TimeoutPasses, RowKept, SameRow, CostKept
<1>4. ASSUME DeleteChannel \/ UNCHANGED vars PROVE SunoAt(t)'
  BY <1>4, <1>b, SunoSame DEF DeleteChannel, RowKept, SameRow, CostKept, vars
<1>5. ASSUME NEW p \in Pollers, ListTimedOut(p) \/ ListUnfinished(p) \/ ChannelFound(p) \/ RoundOver(p) \/ FetchBatch(p)
      PROVE  SunoAt(t)'
  <2>1. pc[p] \in {"sleep", "sweep", "channel", "poll", "items"} /\ UNCHANGED <<rows, money, bill, disturbed>>
    BY <1>5 DEF ListTimedOut, ListUnfinished, ChannelFound, RoundOver, FetchBatch
  <2>2. bill[p][t] = 0
    BY <1>e, <2>1 DEF BillInv, Billing
  <2>3. seen'[p][t] # "none" => seen[p][t] # "none" \/ Listed(t)
    <3>1. CASE ListTimedOut(p) \/ ListUnfinished(p)
      <4>1. PICK ok : \/ seen' = [seen EXCEPT ![p] = Copies({u \in Tasks : ok /\ SweepEnabled /\ Listed(u) /\ expired[u]})]
                      \/ seen' = [seen EXCEPT ![p] = Copies({u \in Tasks : ok /\ Listed(u)})]
        BY <3>1 DEF ListTimedOut, ListUnfinished
      <4> QED BY <1>0, <4>1 DEF Copies, PollersOK
    <3>2. CASE ChannelFound(p) \/ RoundOver(p)
      BY <3>2 DEF ChannelFound, RoundOver
    <3>3. CASE FetchBatch(p)
      BY <1>0, <3>3 DEF FetchBatch, PollersOK
    <3> QED BY <1>5, <3>1, <3>2, <3>3
  <2> QED BY <1>b, <1>d, <2>1, <2>2, <2>3, SunoAside DEF RowKept, SameRow, CostKept
<1>6. ASSUME NEW p \in Pollers, NEW u \in Tasks,
             ChannelMissing(p) \/ FetchTask(p, u) \/ FetchNothing(p, u) \/ ApplyAnswer(p, u)
      PROVE  FALSE
  BY <1>6, <1>e DEF SunoInv, SunoAssumption, ChannelMissing, FetchTask, FetchNothing, ApplyAnswer, PollerInv, OneTask
\* A step of the poller for another task.
<1>7. ASSUME NEW p \in Pollers, NEW u \in Tasks, u # t, bill[p][t] = 0, bill' = bill \/ (\E b : bill' = [bill EXCEPT ![p][u] = b]),
             seen' = seen \/ Drop(p, u), RowKept(t), CostKept(t), disturbed'[t] = disturbed[t]
      PROVE  SunoAt(t)'
  <2>1. bill'[p][t] = 0
    BY <1>0, <1>7, ExceptAt DEF PollersOK
  <2>2. seen'[p][t] = seen[p][t]
    BY <1>0, <1>7, ExceptAt DEF PollersOK, Drop
  <2> QED BY <1>7, <1>b, <1>d, <2>1, <2>2, SunoAside
<1>8. ASSUME NEW p \in Pollers, NEW u \in Tasks, SweepTask(p, u) PROVE SunoAt(t)'
  <2>1. /\ pc[p] = "sweep" /\ seen[p][u] # "none" /\ Drop(p, u) /\ UNCHANGED <<submit, money, answer>> /\ bill[p][t] = 0
    BY <1>8, <1>e DEF SweepTask, BillInv, Billing
  <2>2. CASE u # t
    <3>1. RowKept(t) /\ disturbed'[t] = disturbed[t]
      BY <1>0, <1>8, <2>2 DEF SweepTask, Fails, Write, RowKept, SameRow, RowsOK, MoneyOK
    <3>2. bill' = bill \/ (\E b : bill' = [bill EXCEPT ![p][u] = b])
      BY <1>8 DEF SweepTask
    <3> QED BY <1>7, <2>1, <2>2, <3>1, <3>2 DEF CostKept
  <2>3. CASE u = t
    <3>1. Listed(t) /\ Quiet(t) /\ ~Failed(t) /\ submit[t] = "inserted"
      BY <1>b, <1>c, <1>d, <2>1, <2>3 DEF SunoAt, SunoRow, SunoCopy, Quiet, Listed, Failed
    <3>2. seen'[p][t] = "none"
      BY <1>0, <2>1, <2>3, ExceptAt DEF PollersOK, Drop
    <3>3. CASE UNCHANGED <<row, bill>>
      <4>1. disturbed[t] => disturbed'[t]
        BY <1>0, <1>8, <2>3 DEF SweepTask, Fails, MoneyOK
      <4> QED BY <1>b, <1>d, <2>1, <3>2, <3>3, <4>1, SunoAside DEF RowKept, SameRow, CostKept
    <3>4. CASE /\ Write(t, "FAILURE") /\ bill' = [bill EXCEPT ![p][t] = IF t \in Legacy THEN 0 ELSE -Quota]
               /\ Goto(p, IF t \in Legacy THEN "sweep" ELSE "sweepFunding") /\ UNCHANGED disturbed
      <4>1. status'[t] = "FAILURE" /\ complete'[t] /\ ~reason'[t]
        BY <1>0, <3>4 DEF Write, RowsOK
      <4>2. bill'[p][t] = (IF t \in Legacy THEN 0 ELSE -Quota) /\ pc'[p] = (IF t \in Legacy THEN "sweep" ELSE "sweepFunding")
        BY <1>0, <3>4, ExceptAt DEF PollersOK, Goto
      <4>3. t \notin Legacy /\ ~disturbed[t] => paid[t] = Quota /\ tokPaid[t] = Quota
        BY <1>b, <3>1 DEF SunoAt, SunoCost
      <4>4. SunoRow(t)' /\ Failed(t)'
        BY <4>1 DEF SunoRow, Failed
      <4>5. SunoCopy(p, t)'
        BY <3>2, <4>1, <4>2 DEF SunoCopy
      <4>6. t \notin Legacy => bill'[p][t] # 0 /\ bill'[p][t] = -Quota /\ pc'[p] = "sweepFunding"
        BY <1>0, <4>2
      <4>7. SunoCost(t)'
        BY <1>d, <2>1, <3>4, <4>3, <4>4, <4>6 DEF SunoCost, SunoBill, Quiet, Funding
      <4> QED BY <1>d, <4>4, <4>5, <4>7 DEF SunoAt
    <3> QED BY <1>8, <2>3, <3>3, <3>4 DEF SweepTask
  <2> QED BY <2>2, <2>3
<1>9. ASSUME NEW p \in Pollers, NEW u \in Tasks, SunoItem(p, u) PROVE SunoAt(t)'
  <2>1. pc[p] = "items" /\ answer[p][u] \in {"IN_PROGRESS", "SUCCESS"} /\ Drop(p, u) /\ UNCHANGED <<submit, money, bill>> /\ bill[p][t] = 0
    BY <1>9, <1>e DEF SunoItem, SaveCopy, BillInv, Billing
  <2>2. CASE u # t
    <3>1. RowKept(t) /\ disturbed'[t] = disturbed[t]
      BY <1>0, <1>9, <2>2 DEF SunoItem, SaveCopy, Fails, RowKept, SameRow, RowsOK, MoneyOK
    <3> QED BY <1>7, <2>1, <2>2, <3>1 DEF CostKept
  <2>3. CASE u = t
    <3>1. Listed(t) /\ Quiet(t) /\ ~Failed(t) /\ submit[t] = "inserted"
      BY <1>b, <1>c, <1>d, <1>e, <2>1, <2>3 DEF SunoAt, SunoRow, SunoCopy, CopyInv, Quiet, Listed, Failed
    <3>2. seen'[p][t] = "none" /\ bill'[p][t] = 0
      BY <1>0, <2>1, <2>3, ExceptAt DEF PollersOK, Drop
    <3>3. CASE UNCHANGED row
      <4>1. disturbed[t] => disturbed'[t]
        BY <1>0, <1>9, <2>3 DEF SunoItem, SaveCopy, Fails, MoneyOK
      <4> QED BY <1>b, <1>d, <2>1, <3>2, <3>3, <4>1, SunoAside DEF RowKept, SameRow, CostKept
    <3>4. CASE /\ status' = [status EXCEPT ![t] = StatusOf(answer[p][t])]
               /\ complete' = [complete EXCEPT ![t] = answer[p][t] # "IN_PROGRESS"]
               /\ reason' = [reason EXCEPT ![t] = answer[p][t] \in ReasonGiven] /\ UNCHANGED disturbed
      <4>1. status'[t] = answer[p][t] /\ (complete'[t] <=> status'[t] = "SUCCESS") /\ ~reason'[t]
        BY <1>0, <2>1, <2>3, <3>4 DEF RowsOK, StatusOf
      <4>2. t \notin Legacy /\ ~disturbed[t] => paid[t] = Quota /\ tokPaid[t] = Quota
        BY <1>b, <3>1 DEF SunoAt, SunoCost
      <4>3. SunoRow(t)' /\ ~Failed(t)'
        BY <2>1, <2>3, <4>1 DEF SunoRow, Failed
      <4>4. SunoCopy(p, t)'
        BY <3>2 DEF SunoCopy
      <4>5. SunoCost(t)'
        BY <1>d, <2>1, <3>2, <3>4, <4>2, <4>3 DEF SunoCost
      <4> QED BY <1>d, <4>3, <4>4, <4>5 DEF SunoAt
    <3> QED BY <1>9, <2>3, <3>3, <3>4 DEF SunoItem, SaveCopy
  <2> QED BY <2>2, <2>3
<1>10. ASSUME NEW p \in Pollers, NEW u \in Tasks, SunoFailure(p, u) PROVE SunoAt(t)'
  <2>1. /\ pc[p] = "items" /\ answer[p][u] \in {"FAILURE"} \cup ReasonGiven /\ UNCHANGED <<rows, money, seen, answer, disturbed>>
        /\ bill' = [bill EXCEPT ![p][u] = -Quota] /\ Goto(p, "pollFunding") /\ bill[p][t] = 0
    BY <1>10, <1>e DEF SunoFailure, BillInv, Billing
  <2>2. CASE u # t
    BY <1>7, <2>1, <2>2 DEF CostKept, RowKept, SameRow
  <2>3. CASE u = t
    <3>1. Listed(t) /\ Quiet(t) /\ ~Failed(t) /\ submit[t] = "inserted" /\ seen[p][t] # "none"
      BY <1>b, <1>c, <1>d, <1>e, <2>1, <2>3 DEF SunoAt, SunoRow, SunoCopy, CopyInv, Quiet, Listed, Failed
    <3>2. bill'[p][t] = -Quota /\ bill'[p][t] # 0 /\ pc'[p] = "pollFunding" /\ answer'[p][t] \in {"FAILURE"} \cup ReasonGiven
      BY <1>0, <2>1, <2>3, ExceptAt DEF PollersOK, Goto
    <3>3. t \notin Legacy /\ ~disturbed[t] => paid[t] = Quota /\ tokPaid[t] = Quota
      BY <1>b, <3>1 DEF SunoAt, SunoCost
    <3>4. SunoRow(t)' /\ Listed(t)'
      BY <1>b, <2>1, <3>1 DEF SunoAt, SunoRow, Listed
    <3>5. SunoCopy(p, t)'
      BY <1>c, <2>1, <3>1, <3>2, <3>4 DEF SunoCopy
    <3>6. SunoCost(t)'
      BY <1>d, <2>1, <3>2, <3>3 DEF SunoCost, SunoBill, Quiet, Funding
    <3> QED BY <1>d, <3>4, <3>5, <3>6 DEF SunoAt
  <2> QED BY <2>2, <2>3
<1>11. ASSUME NEW p \in Pollers, NEW u \in Tasks, bill[p][u] # 0, u # t PROVE bill[p][t] = 0
  BY <1>e, <1>11 DEF PollerInv, OneTask
<1>12. ASSUME NEW p \in Pollers, NEW u \in Tasks, SunoSave(p, u) PROVE SunoAt(t)'
  <2>1. /\ pc[p] = "save" /\ bill[p][u] # 0 /\ Drop(p, u) /\ UNCHANGED <<submit, money>> /\ bill' = [bill EXCEPT ![p][u] = 0]
    BY <1>12 DEF SunoSave, SaveCopy
  <2>2. CASE u # t
    <3>1. RowKept(t) /\ disturbed'[t] = disturbed[t]
      BY <1>0, <1>12, <2>2 DEF SunoSave, SaveCopy, Fails, RowKept, SameRow, RowsOK, MoneyOK
    <3> QED BY <1>7, <1>11, <2>1, <2>2, <3>1 DEF CostKept
  <2>3. CASE u = t
    <3>1. seen'[p][t] = "none" /\ bill'[p][t] = 0
      BY <1>0, <2>1, <2>3, ExceptAt DEF PollersOK, Drop
    <3>2. answer[p][t] \in {"FAILURE"} \cup ReasonGiven /\ submit[t] = "inserted"
      BY <1>b, <1>c, <2>1, <2>3 DEF SunoAt, SunoCopy
    <3>3. SunoCopy(p, t)'
      BY <3>1 DEF SunoCopy
    <3>4. CASE Fails(t) /\ UNCHANGED row
      <4>1. disturbed'[t]
        BY <1>0, <3>4 DEF Fails, MoneyOK
      <4>2. SunoRow(t)' /\ SunoCost(t)'
        BY <1>b, <3>4, <4>1 DEF SunoAt, SunoRow, SunoCost
      <4> QED BY <1>d, <3>3, <4>2 DEF SunoAt
    <3>5. CASE /\ status' = [status EXCEPT ![t] = StatusOf(answer[p][t])]
               /\ complete' = [complete EXCEPT ![t] = answer[p][t] # "IN_PROGRESS"]
               /\ reason' = [reason EXCEPT ![t] = answer[p][t] \in ReasonGiven] /\ UNCHANGED disturbed
      <4>1. /\ complete'[t] /\ status'[t] \in {"IN_PROGRESS", "SUCCESS", "FAILURE"}
            /\ status'[t] = "FAILURE" \/ reason'[t]
        BY <1>0, <3>2, <3>5 DEF RowsOK, StatusOf
      <4>2. t \notin Legacy /\ ~disturbed[t] => paid[t] = 0 /\ tokPaid[t] = 0
        BY <1>b, <2>1, <2>3, <3>2 DEF SunoAt, SunoCost, SunoBill, Funding
      <4>3. SunoRow(t)' /\ Failed(t)'
        BY <4>1 DEF SunoRow, Failed
      <4>4. SunoCost(t)'
        BY <1>d, <2>1, <3>1, <3>5, <4>2, <4>3 DEF SunoCost
      <4> QED BY <1>d, <3>3, <4>3, <4>4 DEF SunoAt
    <3> QED BY <1>12, <2>3, <3>4, <3>5 DEF SunoSave, SaveCopy
  <2> QED BY <2>2, <2>3
<1>13. ASSUME NEW p \in Pollers, NEW u \in Tasks, AdjustFunding(p, u) \/ AdjustToken(p, u) PROVE SunoAt(t)'
  <2>1. /\ bill[p][u] # 0 /\ pc[p] \in Billing /\ UNCHANGED <<rows, seen, answer>>
        /\ bill' = bill \/ (\E b : bill' = [bill EXCEPT ![p][u] = b])
    BY <1>13 DEF AdjustFunding, AdjustToken, Billed, Billing
  <2>2. CASE u # t
    <3>1. CostKept(t) /\ disturbed'[t] = disturbed[t]
      BY <1>0, <1>13, <2>2 DEF AdjustFunding, AdjustToken, Fails, FundingRefuses, CostKept, MoneyOK
    <3> QED BY <1>7, <1>11, <2>1, <2>2, <3>1 DEF RowKept, SameRow
  <2>3. CASE u = t
    <3> DEFINE next == IF pc[p] \in {"sweepFunding", "sweepToken"} THEN "sweep" ELSE "save"
    <3>1. AfterBilling(p) = next
      BY DEF AfterBilling, SunoAssumption
    <3>2. SunoRow(t)' /\ (Listed(t)' <=> Listed(t)) /\ (Failed(t)' <=> Failed(t)) /\ status'[t] = status[t]
      BY <1>b, <2>1 DEF SunoAt, SunoRow, Listed, Failed
    <3>3. SunoCopy(p, t)
      BY <1>b DEF SunoAt
    <3>4. /\ pc[p] \in Billing /\ bill[p][t] # 0 /\ bill[p][t] \in Int
          /\ t \notin Legacy /\ ~disturbed[t] => SunoBill(p, t)
      BY <1>b, <1>c, <1>e, <2>1, <2>3, <3>3 DEF SunoAt, SunoCost, SunoCopy
    <3>5. CASE /\ pc[p] \in Funding /\ paid' = [paid EXCEPT ![t] = @ + bill[p][t]] /\ UNCHANGED <<tokPaid, bill, disturbed>>
               /\ Goto(p, IF pc[p] = "sweepFunding" THEN "sweepToken" ELSE "pollToken")
      <4>1. /\ paid'[t] = paid[t] + bill[p][t] /\ tokPaid'[t] = tokPaid[t] /\ bill'[p][t] = bill[p][t] /\ disturbed'[t] = disturbed[t]
            /\ pc'[p] = IF pc[p] = "sweepFunding" THEN "sweepToken" ELSE "pollToken"
        BY <1>0, <3>5 DEF MoneyOK, PollersOK, Goto
      <4>2. SunoCopy(p, t)'
        BY <2>1, <3>2, <3>3, <3>5, <4>1 DEF SunoCopy, Funding
      <4>3. SunoCost(t)'
        BY <1>0, <1>c, <1>d, <3>2, <3>4, <3>5, <4>1 DEF SunoCost, SunoBill, Quiet, Funding
      <4> QED BY <1>d, <3>2, <4>2, <4>3 DEF SunoAt
    <3>6. CASE /\ Goto(p, next) /\ bill' = [bill EXCEPT ![p][t] = IF next = "save" THEN @ ELSE 0]
               /\ \/ disturbed' = [disturbed EXCEPT ![t] = TRUE]
                  \/ pc[p] \notin Funding /\ UNCHANGED <<paid, disturbed>> /\ tokPaid' = [tokPaid EXCEPT ![t] = @ + bill[p][t]]
      <4>1. pc'[p] = next /\ bill'[p][t] = IF next = "save" THEN bill[p][t] ELSE 0
        BY <1>0, <3>6, ExceptAt DEF PollersOK, Goto
      <4>2. SunoCopy(p, t)'
        BY <2>1, <3>2, <3>3, <3>4, <4>1 DEF SunoCopy, Billing
      <4>3. SunoCost(t)'
        <5>1. CASE disturbed' = [disturbed EXCEPT ![t] = TRUE]
          BY <1>0, <5>1 DEF SunoCost, MoneyOK
        <5>2. CASE pc[p] \notin Funding /\ UNCHANGED <<paid, disturbed>> /\ tokPaid' = [tokPaid EXCEPT ![t] = @ + bill[p][t]]
          <6>1. pc[p] \in {"sweepToken", "pollToken"} /\ paid'[t] = paid[t] /\ tokPaid'[t] = tokPaid[t] + bill[p][t] /\ disturbed'[t] = disturbed[t]
            BY <1>0, <3>4, <5>2 DEF MoneyOK, Funding, Billing
          <6> QED BY <1>0, <1>c, <1>d, <3>2, <3>4, <4>1, <6>1 DEF SunoCost, SunoBill, Quiet, Funding
        <5> QED BY <3>6, <5>1, <5>2
      <4> QED BY <1>d, <3>2, <4>2, <4>3 DEF SunoAt
    <3> QED BY <1>13, <2>3, <3>1, <3>5, <3>6 DEF AdjustFunding, AdjustToken, Billed, Fails, FundingRefuses, Funding
  <2> QED BY <2>2, <2>3
<1>14. ASSUME NEW p \in Pollers, Crash(p) PROVE SunoAt(t)'
  <2>1. /\ UNCHANGED <<rows, money>> /\ seen'[p][t] = "none" /\ bill'[p][t] = 0
        /\ disturbed'[t] = (disturbed[t] \/ bill[p][t] # 0)
    BY <1>0, <1>14 DEF Crash, PollersOK, MoneyOK
  <2>2. CASE bill[p][t] = 0
    BY <1>b, <1>d, <2>1, <2>2, SunoAside DEF RowKept, SameRow, CostKept
  <2>3. CASE bill[p][t] # 0
    <3>1. SunoRow(t)' /\ SunoCost(t)' /\ SunoCopy(p, t)'
      BY <1>b, <2>1, <2>3 DEF SunoAt, SunoRow, SunoCost, SunoCopy
    <3> QED BY <1>d, <3>1 DEF SunoAt
  <2> QED BY <2>2, <2>3
<1> QED BY <1>1, <1>2, <1>3, <1>4, <1>5, <1>6, <1>8, <1>9, <1>10, <1>12, <1>13, <1>14 DEF Next, Round, SunoAssumption

-----------------------------------------------------------------------------
(* Theorems. *)

\* Whatever the instance, pollers and fetchers only remember what their place in the code
\* lets them, and with it rows, copies, bills and answers keep their types.
LEMMA StepInvariant == Spec => [](TypeOK /\ StepInv)
<1>1. Init => TypeOK /\ StepInv
  <2> SUFFICES ASSUME Init PROVE TypeOK /\ StepInv
    OBVIOUS
  <2>1. RowsOK /\ MoneyOK /\ EnvOK
    <3>1. complete \in [Tasks -> BOOLEAN] /\ reason \in [Tasks -> BOOLEAN] /\ disturbed \in [Tasks -> BOOLEAN] /\ expired \in [Tasks -> BOOLEAN] /\ channelGone \in BOOLEAN
      BY DEF Init
    <3>2. upstream \in [Tasks -> {"IN_PROGRESS"} \cup Final] /\ paid \in [Tasks -> Int] /\ tokPaid \in [Tasks -> Int]
      BY DEF Init
    <3>3. /\ submit \in [Tasks -> {"start", "charged", "inserted", "lost"}] /\ status \in [Tasks -> Statuses]
          /\ \A t \in Tasks : submit[t] = "inserted" <=> status[t] # "none"
      BY Labels DEF Init
    <3> QED BY <3>1, <3>2, <3>3 DEF RowsOK, MoneyOK, EnvOK
  <2>2. FetchersOK
    BY TaskAssumption, Labels DEF Init, FetchersOK
  <2>3. PollersOK
    BY Labels DEF Init, PollersOK, PollerLabels
  <2>4. StepInv
    BY Labels DEF Init, StepInv, PollerInv, OneTask, CopyInv, BillInv, FetcherInv
  <2> QED BY <2>1, <2>2, <2>3, <2>4 DEF TypeOK
<1>2. TypeOK /\ StepInv /\ [Next]_vars => TypeOK' /\ StepInv'
  BY TypeStep, StepInvStep
<1> QED BY <1>1, <1>2, PTL DEF Spec

\* Both platforms, any number of tasks, pollers and fetchers, whatever fails: only a task that
\* was inserted has a row, and the rows, the pollers' copies and their bills keep their types.
THEOREM TypeCorrect == Spec => []TypeOK
BY StepInvariant, PTL

VideoInv == TypeOK /\ StepInv /\ CopiesInv /\ OnceInv
VideoAssumption == Platform = "video" /\ Fetchers = {}

\* The invariant of video tasks that only pollers write.
LEMMA VideoInvariant == ASSUME VideoAssumption PROVE Spec => []VideoInv
<1>1. Init => CopiesInv /\ OnceInv
  BY DEF Init, CopiesInv, OnceInv, OnceAt
<1>2. TypeOK /\ StepInv /\ CopiesInv /\ OnceInv /\ [Next]_vars /\ TypeOK' => CopiesInv' /\ OnceInv'
  <2> SUFFICES ASSUME TypeOK, StepInv, CopiesInv, OnceInv, [Next]_vars, TypeOK' PROVE CopiesInv' /\ OnceInv'
    OBVIOUS
  <2>1. CopiesInv'
    BY CopiesStep
  <2>2. \A t \in Tasks : TaskStep(t)
    BY TaskKinds, VideoAssumption DEF VideoAssumption
  <2>3. OnceInv'
    BY <2>2, OnceStep DEF OnceInv
  <2> QED BY <2>1, <2>3
<1> QED BY <1>1, <1>2, StepInvariant, PTL DEF Spec, VideoInv

\* Video tasks: however pollers overlap, fail and crash, and even if their channel goes, the
\* refunds of a task stay within what it was charged, for the user and for the token.  A failed
\* settlement leaves a task at what was pre-consumed while Task.Quota says otherwise, so this
\* needs estimates that are not below the quota.
THEOREM VideoRefundWithinCharge ==
  ASSUME VideoAssumption, \A e \in Estimates : e >= Quota PROVE Spec => []RefundWithinCharge
<1>1. Init => CoveredInv
  <2> SUFFICES ASSUME Init, NEW t \in Tasks PROVE CoveredAt(t)
    BY DEF CoveredInv
  <2>1. submit[t] = "start" /\ paid[t] = 0 /\ tokPaid[t] = 0 /\ \A p \in Pollers : bill[p][t] = 0
    BY DEF Init
  <2> QED BY <2>1 DEF CoveredAt
<1>2. VideoInv /\ CoveredInv /\ [Next]_vars /\ VideoInv' => CoveredInv'
  <2> SUFFICES ASSUME VideoInv, CoveredInv, [Next]_vars, VideoInv' PROVE CoveredInv'
    OBVIOUS
  <2>1. \A t \in Tasks : TaskStep(t)
    BY TaskKinds DEF VideoAssumption, VideoInv
  <2> QED BY <2>1, CoveredStep DEF CoveredInv, VideoInv, OnceInv
<1>3. CoveredInv => RefundWithinCharge
  BY DEF CoveredInv, CoveredAt, RefundWithinCharge
<1> QED BY <1>1, <1>2, <1>3, VideoInvariant, PTL DEF Spec

\* Video tasks of a channel that stays: between billing steps an undisturbed task has cost what
\* its row says, for every number of pollers and tasks and whatever happened to the others.
THEOREM VideoChargeMatchesStatus ==
  ASSUME VideoAssumption, ~ChannelMayGo PROVE Spec => []ChargeMatchesStatus
<1>1. Init => ExactInv
  <2> SUFFICES ASSUME Init, NEW t \in Tasks PROVE ExactAt(t)
    BY DEF ExactInv
  <2>1. submit[t] = "start" /\ status[t] = "none" /\ ~reason[t]
    BY DEF Init
  <2> QED BY <2>1, Labels DEF ExactAt
<1>2. VideoInv /\ ExactInv /\ [Next]_vars /\ VideoInv' => ExactInv'
  <2> SUFFICES ASSUME VideoInv, ExactInv, [Next]_vars, VideoInv' PROVE ExactInv'
    OBVIOUS
  <2>1. \A t \in Tasks : TaskStep(t)
    BY TaskKinds DEF VideoAssumption, VideoInv
  <2> QED BY <2>1, ExactStep DEF ExactInv, VideoInv, OnceInv
<1>3. ExactInv => ChargeMatchesStatus
  <2> SUFFICES ASSUME ExactInv, NEW t \in Tasks \ Legacy, submit[t] = "inserted", Quiet(t), ~disturbed[t]
               PROVE  /\ Failed(t) => paid[t] = 0
                      /\ Succeeded(t) => paid[t] \in {Quota} \cup (Actuals \ {0})
                      /\ Listed(t) \/ TakenForDone(t) => paid[t] = Quota
                      /\ tokPaid[t] = paid[t]
    BY DEF ChargeMatchesStatus
  <2>1. ExactAt(t)
    BY DEF ExactInv
  <2> QED BY <2>1, Labels DEF ExactAt, Failed, Succeeded, Listed, TakenForDone
<1> QED BY <1>1, <1>2, <1>3, VideoInvariant, PTL DEF Spec

\* Video tasks of a channel that stays: no step of any poller leaves a final status, so the
\* guarded updates do keep the sweep and the polls from overwriting each other.
THEOREM VideoFinalIsFinal ==
  ASSUME VideoAssumption, ~ChannelMayGo PROVE Spec => FinalIsFinal
<1>1. VideoInv /\ [Next]_vars => [\A t \in Tasks : status[t] \in Final => status'[t] = status[t]]_vars
  <2> SUFFICES ASSUME VideoInv, [Next]_vars, NEW t \in Tasks, status[t] \in Final PROVE status'[t] = status[t]
    OBVIOUS
  <2>1. TaskStep(t) /\ RowsOK
    BY TaskKinds DEF VideoAssumption, VideoInv, TypeOK
  <2>2. ~Inserts(t) \/ status'[t] = status[t]
    BY <2>1, Labels DEF Inserts, RowsOK, SameRow
  <2> QED BY <2>1, <2>2, Labels
          DEF TaskStep, Idle, Submits, Advances, Fallen, Ends, PaysFunding, PaysToken, GivesUp, RowKept, SameRow
<1> QED BY <1>1, VideoInvariant, PTL DEF Spec, FinalIsFinal

\* The invariant of Suno tasks that one process polls.
LEMMA SunoInvariant == ASSUME SunoAssumption PROVE Spec => [](TypeOK /\ StepInv /\ SunoInv)
<1>1. Init => SunoInv
  <2> SUFFICES ASSUME Init, NEW t \in Tasks PROVE SunoAt(t)
    BY DEF Init, SunoInv
  <2>1. submit[t] = "start" /\ status[t] = "none" /\ ~complete[t] /\ ~reason[t] /\ \A p \in Pollers : seen[p][t] = "none" /\ bill[p][t] = 0
    BY DEF Init
  <2> QED BY <2>1, Labels DEF SunoAt, SunoRow, SunoCopy, SunoCost
<1>2. TypeOK /\ StepInv /\ SunoInv /\ [Next]_vars /\ TypeOK' => SunoInv'
  BY SunoStep
<1> QED BY <1>1, <1>2, StepInvariant, PTL DEF Spec

\* Suno tasks of a channel that stays, polled by one process: between billing steps an undisturbed task has
\* cost what its row says, though it is refunded before its failure is saved and no save is guarded.
THEOREM SunoChargeMatchesStatus ==
  ASSUME SunoAssumption PROVE Spec => []ChargeMatchesStatus
<1>1. SunoInv => ChargeMatchesStatus
  <2> SUFFICES ASSUME SunoInv, NEW t \in Tasks \ Legacy, submit[t] = "inserted", Quiet(t), ~disturbed[t]
               PROVE  /\ Failed(t) => paid[t] = 0
                      /\ Succeeded(t) => paid[t] \in {Quota} \cup (Actuals \ {0})
                      /\ Listed(t) \/ TakenForDone(t) => paid[t] = Quota
                      /\ tokPaid[t] = paid[t]
    BY DEF ChargeMatchesStatus
  <2>1. paid[t] = (IF Failed(t) THEN 0 ELSE Quota) /\ tokPaid[t] = paid[t]
    BY DEF SunoInv, SunoAt, SunoCost
  <2>2. Listed(t) => ~Failed(t)
    BY Labels DEF SunoInv, SunoAt, SunoRow, Listed, Failed
  <2> QED BY <2>1, <2>2, Labels DEF Failed, Succeeded, TakenForDone
<1> QED BY <1>1, SunoInvariant, PTL

\* And a final status is not left, though updateSunoTasks saves its copies unguarded: with one poller a copy
\* is of a row that is still unfinished.
THEOREM SunoFinalIsFinal ==
  ASSUME SunoAssumption PROVE Spec => FinalIsFinal
<1>1. TypeOK /\ StepInv /\ SunoInv /\ [Next]_vars => [\A t \in Tasks : status[t] \in Final => status'[t] = status[t]]_vars
  <2> SUFFICES ASSUME TypeOK, StepInv, SunoInv, Next, NEW t \in Tasks, status[t] \in Final PROVE status'[t] = status[t]
    BY DEF vars
  <2>0. RowsOK /\ submit[t] = "inserted" /\ complete[t] /\ (\A p \in Pollers : seen[p][t] = "none" /\ answer[p][t] = "none")
    BY Labels DEF TypeOK, RowsOK, SunoInv, SunoAt, SunoRow, SunoCopy, Listed, StepInv, PollerInv, CopyInv
  <2>1. ASSUME NEW u \in Tasks, SettleSubmission(u) \/ Insert(u) \/ UpstreamEnds(u) \/ TimeoutPasses(u) PROVE status'[t] = status[t]
    BY <2>0, <2>1 DEF SettleSubmission, Insert, Write, UpstreamEnds, TimeoutPasses, RowsOK
  <2>2. ASSUME NEW p \in Pollers, ListTimedOut(p) \/ ListUnfinished(p) \/ ChannelFound(p) \/ RoundOver(p) \/ FetchBatch(p) \/ Crash(p)
        PROVE  status'[t] = status[t]
    BY <2>2 DEF ListTimedOut, ListUnfinished, ChannelFound, RoundOver, FetchBatch, Crash
  <2>3. ASSUME NEW p \in Pollers, NEW u \in Tasks, ChannelMissing(p) \/ FetchTask(p, u) \/ FetchNothing(p, u) \/ ApplyAnswer(p, u)
        PROVE  FALSE
    BY <2>3 DEF SunoInv, SunoAssumption, ChannelMissing, FetchTask, FetchNothing, ApplyAnswer, StepInv, PollerInv, OneTask
  <2>4. ASSUME NEW p \in Pollers, NEW u \in Tasks, SweepTask(p, u) PROVE status'[t] = status[t]
    BY <2>0, <2>4 DEF SweepTask, Write, RowsOK
  <2>5. ASSUME NEW p \in Pollers, NEW u \in Tasks, SunoItem(p, u) PROVE status'[t] = status[t]
    BY <2>0, <2>5 DEF SunoItem, SaveCopy, RowsOK
  <2>6. ASSUME NEW p \in Pollers, NEW u \in Tasks, SunoSave(p, u) PROVE status'[t] = status[t]
    <3>1. answer[p][u] # "none"
      BY <2>6 DEF SunoSave, SunoAssumption, StepInv, PollerInv, BillInv, SunoLabels
    <3>2. u # t
      BY <2>0, <3>1
    <3> QED BY <2>0, <2>6, <3>2 DEF SunoSave, SaveCopy, RowsOK
  <2>7. ASSUME NEW p \in Pollers, NEW u \in Tasks, SunoFailure(p, u) \/ AdjustFunding(p, u) \/ AdjustToken(p, u) PROVE status'[t] = status[t]
    BY <2>7 DEF SunoFailure, AdjustFunding, AdjustToken
  <2>8. ASSUME DeleteChannel PROVE status'[t] = status[t]
    BY <2>8 DEF DeleteChannel
  <2> QED BY <2>1, <2>2, <2>3, <2>4, <2>5, <2>6, <2>7, <2>8 DEF Next, Round, SunoAssumption
<1> QED BY <1>1, SunoInvariant, PTL DEF FinalIsFinal, Spec
=============================================================================
