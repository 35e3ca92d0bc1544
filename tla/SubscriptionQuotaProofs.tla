---------------------- MODULE SubscriptionQuotaProofs ----------------------
(***************************************************************************)
(* Proofs about SubscriptionQuota.                                         *)
(***************************************************************************)
EXTENDS SubscriptionQuota, FiniteSetTheorems, WellFoundedInduction, TLAPS

USE DEF tx, request, history, time, Task, Processes, Amount, MaxAttempts, NoRows

\* Where a request stands, against its record, its subscription and what it has read.
RequestAt(r) ==
  /\ pc[r] \notin {"listing", "reset", "resetting"}
  /\ pc[r] \in {"idle", "pre"} => record[r] = "none"
  /\ pc[r] \in {"held", "settle", "refunding", "refund", "returned"} => on[r] \in Subs /\ record[r] = "consumed"
  /\ pc[r] \in {"settle", "refund"} => DOMAIN snap[r] = {on[r]}

\* How many refunds of a request were tried and booked.
RefundsAt(r) ==
  /\ pc[r] \in {"idle", "pre", "held", "settle"} => attempts[r] = 0 /\ returned[r] = 0
  /\ pc[r] \in {"refunding", "refund", "returned"} => attempts[r] < MaxAttempts
  /\ pc[r] \in {"refunding", "refund"} => returned[r] <= attempts[r]
  /\ pc[r] = "returned" => returned[r] \in 1 .. attempts[r] + 1

StepInv ==
  /\ pc[Task] \in {"idle", "listing", "reset", "resetting"}
  /\ \A r \in Requests : RequestAt(r) /\ RefundsAt(r)

\* The task has read only rows whose period had ended by then.
TaskReads == pc[Task] = "resetting" => \A s \in DOMAIN snap[Task] : Due(snap[Task][s])

\* A transaction that reads rows keeps the type of what was read.
LEMMA ReadSnap ==
  ASSUME TypeOK, NEW p \in Processes, NEW S \in SUBSET Subs, NEW label \in Labels, Read(p, S, label)
  PROVE  /\ SnapsOK'
         /\ snap' = [snap EXCEPT ![p] = [s \in S |-> [sub |-> row[s], now |-> clock[s]]]]
         /\ DOMAIN snap'[p] = S
         /\ \A q \in Processes : q # p => snap'[q] = snap[q]
         /\ pc' = [pc EXCEPT ![p] = label] /\ pc' \in [Processes -> Labels]
<1>1. \A s \in S : [sub |-> row[s], now |-> clock[s]] \in Reads
  BY DEF TypeOK, Reads
<1>2. [s \in S |-> [sub |-> row[s], now |-> clock[s]]] \in [S -> Reads]
  BY <1>1
<1> QED BY <1>2 DEF TypeOK, SnapsOK, Read, Goto

\* So does one that ends.
LEMMA EndSnap ==
  ASSUME TypeOK, NEW p \in Processes, NEW label \in Labels, End(p, label)
  PROVE  /\ SnapsOK'
         /\ snap' = [snap EXCEPT ![p] = NoRows]
         /\ \A q \in Processes : q # p => snap'[q] = snap[q]
         /\ pc' = [pc EXCEPT ![p] = label] /\ pc' \in [Processes -> Labels]
<1>2. NoRows \in [{} -> Reads] /\ DOMAIN NoRows = {}
  OBVIOUS
<1> QED BY <1>2 DEF TypeOK, SnapsOK, End, Goto

\* A row with another amount or another status is still a row.
LEMMA RowTypes ==
  ASSUME NEW sub \in Rows, NEW u \in Nat, NEW status \in {"active", "expired", "cancelled", "deleted"}
  PROVE  [sub EXCEPT !.used = u] \in Rows /\ [sub EXCEPT !.status = status] \in Rows
BY DEF Rows

\* A row maybeResetUserSubscriptionWithPlanTx has started on a new period is a row.
LEMMA ResetType ==
  ASSUME NEW read \in Reads
  PROVE  Reset(read) \in Rows
BY DEF Reads, Rows, Reset

\* What a booking leaves as used is a number within AmountTotal.
LEMMA NewUsedType ==
  ASSUME NEW s \in Subs, NEW used \in Nat, NEW d \in {-1, 0, 1}, NEW u \in NewUsed(s, used, d)
  PROVE  u \in Nat /\ (Total[s] > 0 => u <= Total[s])
BY QuotaAssumption DEF NewUsed

\* A nonempty set of numbers has a least element, which Min chooses.
LEMMA MinIsLeast ==
  ASSUME NEW S \in SUBSET Nat, S # {}
  PROVE  Min(S) \in S /\ \A y \in S : Min(S) <= y
<1> DEFINE R == {ss \in Nat \X Nat : ss[1] < ss[2]}
<1>1. IsWellFoundedOn(R, Nat)
  BY NatLessThanWellFounded, Zenon DEF OpToRel
<1> HIDE DEF R
<1>2. PICK x \in S : \A y \in S : ~ (<<y, x>> \in R)
  BY <1>1, WFMin
<1>3. \A y \in S : x <= y
  <2> TAKE y \in S
  <2>1. <<y, x>> \in Nat \X Nat /\ <<y, x>>[1] = y /\ <<y, x>>[2] = x
    OBVIOUS
  <2>2. ~(y < x)
    BY <1>2, <2>1, Zenon DEF R
  <2> QED BY <2>2
<1> QED BY <1>3 DEF Min

\* What a request holds of a subscription never falls below zero.
LEMMA ShareType ==
  ASSUME TypeOK, NEW r \in Requests, NEW s \in Subs, NEW d \in {-1, 0, 1}, Shares(r, s, d)
  PROVE  share' \in [Requests -> [Subs -> Nat]] /\ slipped' \subseteq Subs
<1>1. (IF share[r][s] + d < 0 THEN 0 ELSE share[r][s] + d) \in Nat
  BY DEF TypeOK
<1> QED BY <1>1 DEF TypeOK, Shares

\* Every step keeps the types, and where the handlers and their refunds are.
LEMMA TypeStep ==
  ASSUME TypeOK, StepInv, [Next]_vars
  PROVE  TypeOK' /\ StepInv'
<1> USE QuotaAssumption DEF TypeOK, StepInv, RequestAt, RefundsAt, Labels
<1>1. ASSUME NEW r \in Requests, PreRead(r) PROVE TypeOK' /\ StepInv'
  <2>1. CASE {s \in Subs : Usable(s)} = {}
    BY <1>1, <2>1 DEF PreRead, Goto, SnapsOK
  <2>2. CASE Read(r, {s \in Subs : Usable(s)}, "pre")
    <3>1. SnapsOK' /\ pc' = [pc EXCEPT ![r] = "pre"] /\ \A q \in Processes : q # r => snap'[q] = snap[q]
      BY <2>2, ReadSnap
    <3> QED BY <1>1, <3>1 DEF PreRead
  <2> QED BY <1>1, <2>1, <2>2 DEF PreRead
<1>3. ASSUME NEW r \in Requests, NEW d \in {-1, 0, 1}, SettleRead(r, d) PROVE TypeOK' /\ StepInv'
  <2>1. CASE (d = 0 \/ ~Exists(on[r])) /\ Goto(r, "done") /\ UNCHANGED snap
    BY <1>3, <2>1 DEF SettleRead, Goto, SnapsOK
  <2>2. CASE Read(r, {on[r]}, "settle")
    <3>1. on[r] \in Subs
      BY <1>3 DEF SettleRead
    <3>2. /\ SnapsOK' /\ pc' = [pc EXCEPT ![r] = "settle"] /\ DOMAIN snap'[r] = {on[r]}
          /\ \A q \in Processes : q # r => snap'[q] = snap[q]
      BY <2>2, <3>1, ReadSnap
    <3> QED BY <1>3, <3>1, <3>2 DEF SettleRead
  <2> QED BY <1>3, <2>1, <2>2 DEF SettleRead
<1>2. ASSUME NEW r \in Requests, PreWrite(r) PROVE TypeOK' /\ StepInv'
  <2> DEFINE enough == {s \in DOMAIN snap[r] : Enough(s, Reset(snap[r][s]))}
             chosen == Min(enough)
             new == {s \in DOMAIN snap[r] : s <= chosen /\ Due(snap[r][s])}
             saved == [s \in Subs |-> IF s = chosen THEN [Reset(snap[r][s]) EXCEPT !.used = @ + Amount]
                                      ELSE IF s \in new THEN Reset(snap[r][s]) ELSE row[s]]
  <2>1. CASE enough = {}
    <3>1. SnapsOK' /\ pc' = [pc EXCEPT ![r] = "done"] /\ \A q \in Processes : q # r => snap'[q] = snap[q]
      BY <1>2, <2>1, EndSnap DEF PreWrite
    <3> HIDE DEF enough
    <3> QED BY <1>2, <2>1, <3>1 DEF PreWrite, enough
  <2>2. CASE enough # {}
    <3>1. SnapsOK' /\ pc' = [pc EXCEPT ![r] = "held"] /\ \A q \in Processes : q # r => snap'[q] = snap[q]
      BY <1>2, <2>2, EndSnap DEF PreWrite
    <3>2. chosen \in enough
      BY <2>2, MinIsLeast DEF SnapsOK
    <3>3. chosen \in DOMAIN snap[r] /\ chosen \in Subs /\ new \subseteq DOMAIN snap[r]
      BY <3>2 DEF SnapsOK
    <3>4. \A s \in DOMAIN snap[r] : snap[r][s] \in Reads /\ Reset(snap[r][s]) \in Rows /\ Reset(snap[r][s]).used \in Nat
      BY ResetType DEF SnapsOK, Rows
    <3> HIDE DEF enough, chosen
    <3>5. \A s \in Subs : saved[s] \in Rows
      <4> TAKE s \in Subs
      <4>1. CASE s = chosen
        <5>1. Reset(snap[r][s]) \in Rows /\ Reset(snap[r][s]).used + Amount \in Nat
          BY <3>3, <3>4, <4>1
        <5> QED BY <4>1, <5>1, RowTypes
      <4>2. CASE s # chosen
        BY <3>3, <3>4, <4>2
      <4> QED BY <4>1, <4>2
    <3>6. /\ row' = saved /\ record' = [record EXCEPT ![r] = "consumed"] /\ on' = [on EXCEPT ![r] = chosen]
          /\ share' = [q \in Requests |-> [s \in Subs |->
                            (IF s \in new THEN 0 ELSE share[q][s]) + (IF q = r /\ s = chosen THEN Amount ELSE 0)]]
          /\ UNCHANGED <<locks, time, delta, attempts, batch, events, faults, slipped, returned>>
      BY <1>2, <2>2 DEF PreWrite, enough, chosen
    <3> HIDE DEF new, saved
    <3>7. row' \in [Subs -> Rows]
      BY <3>5, <3>6 DEF saved
    <3>8. share' \in [Requests -> [Subs -> Nat]]
      BY <3>6
    <3>9. pc[r] = "pre"
      BY <1>2 DEF PreWrite
    <3> QED BY <3>1, <3>3, <3>6, <3>7, <3>8, <3>9
  <2> QED BY <2>1, <2>2
<1>4. ASSUME NEW r \in Requests, SettleWrite(r) PROVE TypeOK' /\ StepInv'
  <2> DEFINE s == on[r]
             new == NewUsed(s, snap[r][s].sub.used, delta[r])
  <2>1. pc[r] = "settle" /\ s \in Subs /\ snap[r][s] \in Reads /\ snap[r][s].sub \in Rows /\ snap[r][s].sub.used \in Nat
    BY <1>4 DEF SettleWrite, SnapsOK, Reads, Rows
  <2>2. SnapsOK' /\ pc' = [pc EXCEPT ![r] = "done"] /\ \A q \in Processes : q # r => snap'[q] = snap[q]
    BY <1>4, EndSnap DEF SettleWrite
  <2>3. row' \in [Subs -> Rows]
    <3>1. CASE new = {}
      BY <1>4, <3>1 DEF SettleWrite
    <3>2. CASE new # {}
      <4>1. PICK u \in new : row' = [row EXCEPT ![s] = [snap[r][s].sub EXCEPT !.used = u]]
        BY <1>4, <3>2 DEF SettleWrite
      <4>2. [snap[r][s].sub EXCEPT !.used = u] \in Rows
        BY <2>1, <4>1, NewUsedType, RowTypes
      <4> QED BY <4>1, <4>2
    <3> QED BY <3>1, <3>2
  <2>4. share' \in [Requests -> [Subs -> Nat]] /\ slipped' \subseteq Subs
    <3>1. CASE UNCHANGED <<share, slipped>>
      BY <3>1
    <3>2. CASE Shares(r, s, delta[r])
      <4>1. delta[r] \in {-1, 0, 1}
        OBVIOUS
      <4> HIDE DEF TypeOK, s
      <4> QED BY <2>1, <3>2, <4>1, ShareType
    <3> QED BY <1>4, <3>1, <3>2 DEF SettleWrite
  <2>5. UNCHANGED <<locks, time, record, request, batch, events, faults, returned>>
    BY <1>4 DEF SettleWrite
  <2> QED BY <2>1, <2>2, <2>3, <2>4, <2>5
<1>5. ASSUME NEW r \in Requests, RefundRead(r) PROVE TypeOK' /\ StepInv'
  <2>1. /\ pc[r] \in {"held", "refunding"} /\ on[r] \in Subs /\ record[r] = "consumed"
        /\ UNCHANGED <<locks, row, time, record, on, delta, batch, events, faults, history>>
    BY <1>5 DEF RefundRead
  <2>2. CASE FailAttempt(r)
    <3>1. /\ attempts' = [attempts EXCEPT ![r] = @ + 1]
          /\ End(r, IF attempts[r] + 1 < MaxAttempts THEN "refunding" ELSE "done")
      BY <2>2 DEF FailAttempt
    <3>2. /\ SnapsOK' /\ pc' = [pc EXCEPT ![r] = IF attempts[r] + 1 < MaxAttempts THEN "refunding" ELSE "done"]
          /\ \A q \in Processes : q # r => snap'[q] = snap[q]
      BY <3>1, EndSnap
    <3>3. attempts[r] \in 0 .. 2 /\ returned[r] <= attempts[r]
      BY <2>1
    <3>4. CASE attempts[r] + 1 < MaxAttempts
      BY <2>1, <3>1, <3>2, <3>3, <3>4
    <3>5. CASE ~(attempts[r] + 1 < MaxAttempts)
      BY <2>1, <3>1, <3>2, <3>3, <3>5
    <3> QED BY <3>4, <3>5
  <2>3. CASE Read(r, {on[r]}, "refund") /\ UNCHANGED attempts
    <3>1. /\ SnapsOK' /\ pc' = [pc EXCEPT ![r] = "refund"] /\ DOMAIN snap'[r] = {on[r]}
          /\ \A q \in Processes : q # r => snap'[q] = snap[q]
      BY <2>1, <2>3, ReadSnap
    <3>2. UNCHANGED <<locks, row, time, record, request, batch, events, faults, history>>
      BY <2>1, <2>3
    <3>3. TypeOK'
      BY <3>1, <3>2
    <3>4. ASSUME NEW q \in Requests PROVE RequestAt(q)' /\ RefundsAt(q)'
      <4>1. CASE q = r
        <5>1. pc'[r] = "refund" /\ on'[r] = on[r] /\ record'[r] = record[r]
          BY <3>1, <3>2
        <5>2. RequestAt(r)'
          BY <2>1, <3>1, <5>1
        <5>3. attempts[r] < MaxAttempts /\ returned[r] <= attempts[r]
          BY <2>1
        <5>4. RefundsAt(r)'
          BY <3>2, <5>1, <5>3
        <5> QED BY <4>1, <5>2, <5>4
      <4>2. CASE q # r
        BY <3>1, <3>2, <4>2
      <4> QED BY <4>1, <4>2
    <3> QED BY <3>1, <3>3, <3>4
  <2> QED BY <1>5, <2>1, <2>2, <2>3 DEF RefundRead
<1>6. ASSUME NEW r \in Requests, RefundWrite(r) PROVE TypeOK' /\ StepInv'
  <2> DEFINE s == on[r]
  <2>1. pc[r] = "refund" /\ s \in Subs /\ snap[r][s] \in Reads /\ snap[r][s].sub \in Rows /\ snap[r][s].sub.used \in Nat
    BY <1>6 DEF RefundWrite, SnapsOK, Reads, Rows
  <2>2. SnapsOK' /\ pc' = [pc EXCEPT ![r] = "returned"] /\ \A q \in Processes : q # r => snap'[q] = snap[q]
    BY <1>6, EndSnap DEF RefundWrite
  <2>3. row' \in [Subs -> Rows]
    <3>1. PICK u \in NewUsed(s, snap[r][s].sub.used, -1) : row' = [row EXCEPT ![s] = [snap[r][s].sub EXCEPT !.used = u]]
      BY <1>6 DEF RefundWrite
    <3>2. [snap[r][s].sub EXCEPT !.used = u] \in Rows
      BY <2>1, <3>1, NewUsedType, RowTypes
    <3> QED BY <3>1, <3>2
  <2>4. share' \in [Requests -> [Subs -> Nat]] /\ slipped' \subseteq Subs
    BY <1>6, <2>1 DEF RefundWrite, Shares
  <2>5. returned' = [returned EXCEPT ![r] = @ + 1] /\ UNCHANGED <<locks, time, record, request, batch, events, faults>>
    BY <1>6 DEF RefundWrite
  <2> QED BY <2>1, <2>2, <2>3, <2>4, <2>5
<1>7. ASSUME NEW r \in Requests, RefundSave(r) PROVE TypeOK' /\ StepInv'
  <2>1. SnapsOK' /\ pc' = [pc EXCEPT ![r] = "done"] /\ \A q \in Processes : q # r => snap'[q] = snap[q]
    BY <1>7, EndSnap DEF RefundSave
  <2> QED BY <1>7, <2>1 DEF RefundSave
<1>8. ASSUME Expire PROVE TypeOK' /\ StepInv'
  <2>1. row' \in [Subs -> Rows]
    BY <1>8, RowTypes DEF Expire
  <2> QED BY <1>8, <2>1 DEF Expire, Goto, SnapsOK
<1>9. ASSUME ResetList PROVE TypeOK' /\ StepInv'
  BY <1>9 DEF ResetList, Goto, SnapsOK
<1>10. ASSUME NEW s \in Subs, ResetRead(s) PROVE TypeOK' /\ StepInv'
  <2>1. CASE UNCHANGED tx
    BY <1>10, <2>1 DEF ResetRead, SnapsOK
  <2>2. CASE Read(Task, {s}, "resetting")
    <3>1. SnapsOK' /\ pc' = [pc EXCEPT ![Task] = "resetting"] /\ \A q \in Processes : q # Task => snap'[q] = snap[q]
      BY <2>2, ReadSnap
    <3> QED BY <1>10, <3>1 DEF ResetRead
  <2> QED BY <1>10, <2>1, <2>2 DEF ResetRead
<1>11. ASSUME ResetWrite PROVE TypeOK' /\ StepInv'
  <2>1. SnapsOK' /\ pc' = [pc EXCEPT ![Task] = "reset"] /\ \A q \in Processes : q # Task => snap'[q] = snap[q]
    BY <1>11, EndSnap DEF ResetWrite
  <2>2. PICK s \in DOMAIN snap[Task] : /\ row' = [row EXCEPT ![s] = Reset(snap[Task][s])]
                                       /\ share' = [r \in Requests |-> [share[r] EXCEPT ![s] = 0]]
    BY <1>11 DEF ResetWrite
  <2>3. s \in Subs /\ Reset(snap[Task][s]) \in Rows
    BY ResetType DEF SnapsOK
  <2> QED BY <1>11, <2>1, <2>2, <2>3 DEF ResetWrite
<1>12. ASSUME NEW old \in BOOLEAN, Cleanup(old) PROVE TypeOK' /\ StepInv'
  BY <1>12 DEF Cleanup, Goto, SnapsOK
<1>13. ASSUME NEW p \in Processes, Fails(p) PROVE TypeOK' /\ StepInv'
  <2>1. /\ faults' \in 0 .. MaxFaults
        /\ UNCHANGED <<locks, row, time, record, on, delta, events, history>>
    BY <1>13 DEF Fails
  <2>2. CASE pc[p] \in {"pre", "settle"} /\ End(p, "done") /\ UNCHANGED <<attempts, batch>>
    <3>1. SnapsOK' /\ pc' = [pc EXCEPT ![p] = "done"] /\ \A q \in Processes : q # p => snap'[q] = snap[q]
      BY <2>2, EndSnap
    <3> QED BY <2>1, <2>2, <3>1
  <2>3. CASE pc[p] \in {"refund", "returned"} /\ FailAttempt(p) /\ UNCHANGED batch
    <3>1. /\ attempts' = [attempts EXCEPT ![p] = @ + 1]
          /\ End(p, IF attempts[p] + 1 < MaxAttempts THEN "refunding" ELSE "done")
      BY <2>3 DEF FailAttempt
    <3>2. /\ SnapsOK' /\ pc' = [pc EXCEPT ![p] = IF attempts[p] + 1 < MaxAttempts THEN "refunding" ELSE "done"]
          /\ \A q \in Processes : q # p => snap'[q] = snap[q]
      BY <3>1, EndSnap
    <3> QED BY <2>1, <2>3, <3>1, <3>2
  <2>4. CASE pc[p] = "resetting" /\ End(p, "idle") /\ batch' = {} /\ UNCHANGED attempts
    <3>1. SnapsOK' /\ pc' = [pc EXCEPT ![p] = "idle"] /\ \A q \in Processes : q # p => snap'[q] = snap[q]
      BY <2>4, EndSnap
    <3> QED BY <2>1, <2>4, <3>1
  <2> QED BY <1>13, <2>2, <2>3, <2>4 DEF Fails
<1>14. ASSUME NEW s \in Subs, AdminInvalidate(s) \/ AdminDelete(s) PROVE TypeOK' /\ StepInv'
  <2>1. row' \in [Subs -> Rows]
    <3>1. PICK status \in {"cancelled", "deleted"} : row' = [row EXCEPT ![s] = [row[s] EXCEPT !.status = status]]
      BY <1>14 DEF AdminInvalidate, AdminDelete
    <3> QED BY <3>1, RowTypes
  <2> QED BY <1>14, <2>1 DEF AdminInvalidate, AdminDelete, Event, SnapsOK
<1>15. ASSUME NEW s \in Subs, PeriodEnds(s) PROVE TypeOK' /\ StepInv'
  BY <1>15 DEF PeriodEnds, SnapsOK
<1>17. ASSUME NEW s \in Subs, SubscriptionEnds(s) PROVE TypeOK' /\ StepInv'
  <2>1. /\ past' = past \cup {s} /\ events < MaxEvents /\ events' = events + 1
        /\ UNCHANGED <<locks, row, clock, record, tx, request, batch, faults, history>>
    BY <1>17 DEF SubscriptionEnds, Event
  <2>2. past' \subseteq Subs /\ events' \in 0 .. MaxEvents /\ SnapsOK'
    BY <2>1 DEF SnapsOK
  <2>3. TypeOK'
    BY <2>1, <2>2
  <2>4. StepInv'
    BY <2>1
  <2> QED BY <2>3, <2>4
<1>16. CASE UNCHANGED vars
  BY <1>16 DEF vars, SnapsOK
<1> HIDE DEF TypeOK, StepInv
<1> QED BY <1>1, <1>2, <1>3, <1>4, <1>5, <1>6, <1>7, <1>8, <1>9, <1>10, <1>11, <1>12, <1>13, <1>14, <1>15, <1>16, <1>17
        DEF Next, Transaction, Maintenance

\* Every step keeps what the reset task has read due when it was read.
LEMMA TaskReadsStep ==
  ASSUME TypeOK, StepInv, TaskReads, [Next]_vars
  PROVE  TaskReads'
<1>1. Task \in Processes /\ Task \notin Requests /\ Requests \subseteq Processes
  BY QuotaAssumption
<1>2. ASSUME NEW p \in Processes, p # Task, NEW label, NEW f, pc' = [pc EXCEPT ![p] = label],
             snap' = [snap EXCEPT ![p] = f] \/ snap' = snap
      PROVE  TaskReads'
  <2>1. pc'[Task] = pc[Task] /\ snap'[Task] = snap[Task]
    BY <1>1, <1>2 DEF TypeOK, SnapsOK
  <2> QED BY <2>1 DEF TaskReads, Due
<1>3. ASSUME NEW r \in Requests, PreRead(r) \/ Transaction(r) \/ \E d \in {-1, 0, 1} : SettleRead(r, d) PROVE TaskReads'
  BY <1>1, <1>2, <1>3
     DEF PreRead, Transaction, PreWrite, SettleWrite, RefundRead, RefundWrite, RefundSave, SettleRead, Read, End, Goto, FailAttempt
<1>4. ASSUME NEW p \in Processes, Fails(p) PROVE TaskReads'
  <2>1. CASE p = Task
    BY <1>4, <2>1 DEF Fails, StepInv, End, Goto, TaskReads, TypeOK
  <2>2. CASE p # Task
    BY <1>2, <1>4, <2>2 DEF Fails, FailAttempt, End, Goto
  <2> QED BY <2>1, <2>2
<1>5. ASSUME NEW s \in Subs, ResetRead(s) PROVE TaskReads'
  <2>1. CASE UNCHANGED tx
    BY <2>1 DEF TaskReads, Due
  <2>2. CASE Exists(s) /\ row[s].period < clock[s] /\ Read(Task, {s}, "resetting")
    <3>1. snap'[Task] = [x \in {s} |-> [sub |-> row[x], now |-> clock[x]]]
      BY <1>1, <2>2 DEF Read, TypeOK, SnapsOK
    <3>2. DOMAIN snap'[Task] = {s} /\ snap'[Task][s].sub = row[s] /\ snap'[Task][s].now = clock[s]
      BY <3>1
    <3> QED BY <2>2, <3>2 DEF TaskReads, Due
  <2> QED BY <1>5, <2>1, <2>2 DEF ResetRead
<1>6. ASSUME Expire \/ ResetList \/ ResetWrite \/ \E old \in BOOLEAN : Cleanup(old) PROVE TaskReads'
  <2>1. pc'[Task] # "resetting"
    BY <1>1, <1>6 DEF Expire, ResetList, ResetWrite, Cleanup, Goto, End, TypeOK
  <2> QED BY <2>1 DEF TaskReads
<1>7. ASSUME UNCHANGED vars \/ \E s \in Subs : AdminInvalidate(s) \/ AdminDelete(s) \/ PeriodEnds(s) \/ SubscriptionEnds(s)
      PROVE  TaskReads'
  <2>1. UNCHANGED tx
    BY <1>7 DEF vars, AdminInvalidate, AdminDelete, PeriodEnds, SubscriptionEnds
  <2> QED BY <2>1 DEF TaskReads, Due
<1> QED BY <1>3, <1>4, <1>5, <1>6, <1>7 DEF Next, Maintenance

-----------------------------------------------------------------------------
(* Whatever a step does besides, it treats the rows in one of four ways. *)

\* What s shows and what is held of it stay the same.
SameBooks(s) == row'[s] = row[s] /\ (\A q \in Requests : share'[q][s] = share[q][s]) /\ (s \in slipped' <=> s \in slipped)

\* Process p saves s with the period it is by now, and nothing used.
Renews(p, s) ==
  /\ Due(snap[p][s]) /\ row'[s] = Reset(snap[p][s])
  /\ \A q \in Requests : share'[q][s] = 0

\* Request r does so and books its amount at once.
RenewsAndBooks(r, s) ==
  /\ Due(snap[r][s]) /\ row'[s] = [Reset(snap[r][s]) EXCEPT !.used = 1]
  /\ Total[s] > 0 => Total[s] >= 1
  /\ \A q \in Requests : share'[q][s] = IF q = r THEN 1 ELSE 0

\* Request r books d on the row it has read.
BooksOn(r, s, d) ==
  /\ \E u \in NewUsed(s, snap[r][s].sub.used, d) : row'[s] = [snap[r][s].sub EXCEPT !.used = u]
  /\ \A q \in Requests : q # r => share'[q][s] = share[q][s]
  /\ share[r][s] + d >= 0 => share'[r][s] = share[r][s] + d
  /\ share[r][s] + d < 0 => s \in slipped'

SavesRow(p, s) ==
  \/ Renews(p, s)
  \/ p \in Requests /\ (RenewsAndBooks(p, s) \/ \E d \in {-1, 0, 1} : BooksOn(p, s, d))

Saves ==
  \E p \in Processes :
    /\ snap' = [snap EXCEPT ![p] = NoRows]
    /\ \A s \in Subs : SameBooks(s) \/ (s \in DOMAIN snap[p] /\ SavesRow(p, s))

ReadsRows ==
  \E p \in Processes, S \in SUBSET Subs :
    /\ Free(S) /\ snap' = [snap EXCEPT ![p] = [s \in S |-> [sub |-> row[s], now |-> clock[s]]]]
    /\ UNCHANGED <<row, share, slipped>>

SetsStatus ==
  /\ UNCHANGED <<snap, share, slipped>>
  /\ \A s \in Subs :
       \/ SameBooks(s)
       \/ /\ Free({s}) /\ Exists(s)
          /\ \E status \in {"cancelled", "deleted"} \cup (IF row[s].status = "active" THEN {"expired"} ELSE {}) :
               row'[s] = [row[s] EXCEPT !.status = status]

LeavesRows ==
  /\ UNCHANGED <<row, share, slipped>>
  /\ snap' = snap \/ \E p \in Processes : snap' = [snap EXCEPT ![p] = NoRows]

Kind == locks' = locks /\ slipped \subseteq slipped' /\ (Saves \/ ReadsRows \/ SetsStatus \/ LeavesRows)

\* The kinds of steps.
LEMMA StepKinds ==
  ASSUME TypeOK, StepInv, TaskReads, [Next]_vars
  PROVE  Kind
<1> USE DEF Kind
<1>1. ASSUME NEW r \in Requests, PreRead(r) PROVE Kind
  <2>1. CASE {s \in Subs : Usable(s)} = {}
    BY <1>1, <2>1 DEF PreRead, LeavesRows
  <2>2. CASE Read(r, {s \in Subs : Usable(s)}, "pre")
    BY <1>1, <2>2 DEF PreRead, Read, ReadsRows
  <2> QED BY <1>1, <2>1, <2>2 DEF PreRead
<1>2. ASSUME NEW r \in Requests, PreWrite(r) PROVE Kind
  <2> DEFINE enough == {s \in DOMAIN snap[r] : Enough(s, Reset(snap[r][s]))}
             chosen == Min(enough)
             new == {s \in DOMAIN snap[r] : s <= chosen /\ Due(snap[r][s])}
             saved == [s \in Subs |-> IF s = chosen THEN [Reset(snap[r][s]) EXCEPT !.used = @ + Amount]
                                      ELSE IF s \in new THEN Reset(snap[r][s]) ELSE row[s]]
  <2>1. CASE enough = {}
    BY <1>2, <2>1 DEF PreWrite, End, LeavesRows
  <2>2. CASE enough # {}
    <3>1. enough \in SUBSET Nat
      BY QuotaAssumption DEF TypeOK, SnapsOK
    <3>2. chosen \in enough
      BY <2>2, <3>1, MinIsLeast
    <3>3. /\ row' = saved /\ snap' = [snap EXCEPT ![r] = NoRows] /\ UNCHANGED <<locks, slipped>>
          /\ share' = [q \in Requests |-> [s \in Subs |->
                            (IF s \in new THEN 0 ELSE share[q][s]) + (IF q = r /\ s = chosen THEN Amount ELSE 0)]]
      BY <1>2, <2>2 DEF PreWrite, End
    <3>4. chosen \in DOMAIN snap[r] /\ chosen \in Subs /\ Enough(chosen, Reset(snap[r][chosen]))
      BY <3>2 DEF TypeOK, SnapsOK
    <3> HIDE DEF enough, chosen
    <3>5. ASSUME NEW s \in Subs PROVE SameBooks(s) \/ (s \in DOMAIN snap[r] /\ SavesRow(r, s))
      <4>1. CASE s # chosen /\ s \notin new
        BY <3>3, <4>1 DEF SameBooks, TypeOK
      <4>2. CASE s # chosen /\ s \in new
        BY <3>3, <4>2 DEF SavesRow, Renews, TypeOK
      <4>3. CASE s = chosen /\ s \in new
        <5>0. snap[r][s] \in Reads
          BY <3>4, <4>3 DEF TypeOK, SnapsOK
        <5>1. Due(snap[r][s]) /\ Reset(snap[r][s]).used = 0
          BY <4>3, <5>0 DEF Reset, Reads, Rows
        <5>4. row'[s] = [Reset(snap[r][s]) EXCEPT !.used = 1]
          BY <3>3, <4>3, <5>1
        <5>2. Total[s] > 0 => Total[s] >= 1
          BY QuotaAssumption
        <5>3. \A q \in Requests : share'[q][s] = IF q = r THEN 1 ELSE 0
          BY <3>3, <4>3
        <5> QED BY <3>4, <4>3, <5>1, <5>2, <5>3, <5>4 DEF SavesRow, RenewsAndBooks
      <4>4. CASE s = chosen /\ s \notin new
        <5> DEFINE u == snap[r][s].sub.used
        <5>1. snap[r][s] \in Reads /\ snap[r][s].sub \in Rows /\ u \in Nat
          BY <3>4, <4>4 DEF TypeOK, SnapsOK, Reads, Rows
        <5>2. Reset(snap[r][s]) = snap[r][s].sub
          BY <3>4, <4>4, QuotaAssumption DEF Reset
        <5>3. row'[s] = [snap[r][s].sub EXCEPT !.used = u + 1]
          BY <3>3, <4>4, <5>2
        <5>4. Total[s] = 0 \/ Total[s] - u >= 1
          BY <3>4, <4>4, <5>2 DEF Enough
        <5>5. u + 1 \in NewUsed(s, u, 1)
          BY <5>1, <5>4, QuotaAssumption DEF NewUsed
        <5>6. /\ \A q \in Requests : q # r => share'[q][s] = share[q][s]
              /\ share'[r][s] = share[r][s] + 1 /\ share[r][s] \in Nat
          BY <3>3, <4>4 DEF TypeOK
        <5> HIDE DEF u
        <5>7. BooksOn(r, s, 1)
          BY <5>3, <5>5, <5>6 DEF BooksOn, u
        <5> QED BY <3>4, <4>4, <5>7 DEF SavesRow
      <4> QED BY <4>1, <4>2, <4>3, <4>4
    <3> QED BY <3>3, <3>5 DEF Saves
  <2> QED BY <2>1, <2>2
<1>3. ASSUME NEW r \in Requests, NEW d \in {-1, 0, 1}, SettleRead(r, d) PROVE Kind
  <2>1. CASE Goto(r, "done") /\ UNCHANGED snap
    BY <1>3, <2>1 DEF SettleRead, LeavesRows
  <2>2. CASE Read(r, {on[r]}, "settle")
    <3>1. {on[r]} \in SUBSET Subs
      BY <1>3 DEF SettleRead, StepInv, RequestAt
    <3> QED BY <1>3, <2>2, <3>1 DEF SettleRead, Read, ReadsRows
  <2> QED BY <1>3, <2>1, <2>2 DEF SettleRead
<1>4. ASSUME NEW r \in Requests, NEW d \in {-1, 0, 1}, on[r] \in Subs, DOMAIN snap[r] = {on[r]},
             \E u \in NewUsed(on[r], snap[r][on[r]].sub.used, d) : row' = [row EXCEPT ![on[r]] = [snap[r][on[r]].sub EXCEPT !.used = u]],
             Shares(r, on[r], d), snap' = [snap EXCEPT ![r] = NoRows]
      PROVE  slipped \subseteq slipped' /\ Saves
  <2> DEFINE s == on[r]
  <2>1. BooksOn(r, s, d) /\ slipped \subseteq slipped'
    <3>1. \E u \in NewUsed(s, snap[r][s].sub.used, d) : row'[s] = [snap[r][s].sub EXCEPT !.used = u]
      BY <1>4 DEF TypeOK
    <3>2. /\ \A q \in Requests : q # r => share'[q][s] = share[q][s]
          /\ share'[r][s] = IF share[r][s] + d < 0 THEN 0 ELSE share[r][s] + d
          /\ share[r][s] \in Nat /\ slipped \subseteq slipped' /\ (share[r][s] + d < 0 => s \in slipped')
      BY <1>4 DEF Shares, TypeOK
    <3> HIDE DEF s
    <3> QED BY <3>1, <3>2 DEF BooksOn
  <2>2. ASSUME NEW x \in Subs, x # s PROVE SameBooks(x)
    BY <1>4, <2>2 DEF SameBooks, Shares, TypeOK
  <2> QED BY <1>4, <2>1, <2>2 DEF Saves, SavesRow
<1>5. ASSUME NEW r \in Requests, SettleWrite(r) PROVE Kind
  <2>1. on[r] \in Subs /\ DOMAIN snap[r] = {on[r]} /\ delta[r] \in {-1, 0, 1}
    BY <1>5 DEF SettleWrite, StepInv, RequestAt, TypeOK
  <2>2. CASE UNCHANGED <<row, share, slipped>>
    BY <1>5, <2>2 DEF SettleWrite, End, LeavesRows
  <2>3. CASE ~UNCHANGED <<row, share, slipped>>
    BY <1>4, <1>5, <2>1, <2>3 DEF SettleWrite, End
  <2> QED BY <2>2, <2>3
<1>6. ASSUME NEW r \in Requests, RefundRead(r) PROVE Kind
  <2>1. CASE UNCHANGED snap \/ FailAttempt(r)
    BY <1>6, <2>1 DEF RefundRead, LeavesRows, FailAttempt, End
  <2>2. CASE Read(r, {on[r]}, "refund")
    <3>1. {on[r]} \in SUBSET Subs
      BY <1>6 DEF RefundRead, StepInv, RequestAt
    <3> QED BY <1>6, <2>2, <3>1 DEF RefundRead, Read, ReadsRows
  <2> QED BY <1>6, <2>1, <2>2 DEF RefundRead
<1>7. ASSUME NEW r \in Requests, RefundWrite(r) PROVE Kind
  <2>1. on[r] \in Subs /\ DOMAIN snap[r] = {on[r]}
    BY <1>7 DEF RefundWrite, StepInv, RequestAt
  <2> QED BY <1>4, <1>7, <2>1 DEF RefundWrite, End
<1>8. ASSUME NEW r \in Requests, RefundSave(r) PROVE Kind
  BY <1>8 DEF RefundSave, End, LeavesRows
<1>9. ASSUME Expire PROVE Kind
  BY <1>9 DEF Expire, Free, SetsStatus, SameBooks, Exists, TypeOK
<1>10. ASSUME ResetList PROVE Kind
  BY <1>10 DEF ResetList, LeavesRows
<1>11. ASSUME NEW s \in Subs, ResetRead(s) PROVE Kind
  <2>1. CASE UNCHANGED tx
    BY <1>11, <2>1 DEF ResetRead, LeavesRows
  <2>2. CASE Read(Task, {s}, "resetting")
    <3>1. {s} \in SUBSET Subs /\ Task \in Processes
      OBVIOUS
    <3> QED BY <1>11, <2>2, <3>1 DEF ResetRead, Read, ReadsRows
  <2> QED BY <1>11, <2>1, <2>2 DEF ResetRead
<1>12. ASSUME ResetWrite PROVE Kind
  <2>1. PICK s \in DOMAIN snap[Task] : /\ row' = [row EXCEPT ![s] = Reset(snap[Task][s])]
                                       /\ share' = [r \in Requests |-> [share[r] EXCEPT ![s] = 0]]
    BY <1>12 DEF ResetWrite
  <2>2. s \in Subs /\ Due(snap[Task][s])
    BY <1>12 DEF ResetWrite, TaskReads, TypeOK, SnapsOK
  <2>3. Renews(Task, s)
    BY <2>1, <2>2 DEF Renews, TypeOK
  <2>4. ASSUME NEW x \in Subs, x # s PROVE SameBooks(x)
    BY <1>12, <2>1, <2>2, <2>4 DEF ResetWrite, SameBooks, TypeOK
  <2> QED BY <1>12, <2>2, <2>3, <2>4 DEF Saves, SavesRow, ResetWrite, End
<1>13. ASSUME NEW old \in BOOLEAN, Cleanup(old) PROVE Kind
  BY <1>13 DEF Cleanup, LeavesRows
<1>14. ASSUME NEW p \in Processes, Fails(p) PROVE Kind
  BY <1>14 DEF Fails, FailAttempt, End, LeavesRows
<1>15. ASSUME NEW s \in Subs, AdminInvalidate(s) \/ AdminDelete(s) PROVE Kind
  <2>1. PICK status \in {"cancelled", "deleted"} :
          /\ Exists(s) /\ Free({s}) /\ row' = [row EXCEPT ![s] = [row[s] EXCEPT !.status = status]]
          /\ UNCHANGED <<locks, tx, history>>
    BY <1>15 DEF AdminInvalidate, AdminDelete
  <2>2. row'[s] = [row[s] EXCEPT !.status = status] /\ \A x \in Subs : x # s => row'[x] = row[x]
    BY <2>1 DEF TypeOK
  <2> QED BY <2>1, <2>2 DEF SetsStatus, SameBooks
<1>16. ASSUME NEW s \in Subs, PeriodEnds(s) \/ SubscriptionEnds(s) PROVE Kind
  BY <1>16 DEF PeriodEnds, SubscriptionEnds, LeavesRows
<1>17. CASE UNCHANGED vars
  BY <1>17 DEF vars, LeavesRows
<1> HIDE DEF Kind
<1> QED BY <1>1, <1>2, <1>3, <1>5, <1>6, <1>7, <1>8, <1>9, <1>10, <1>11, <1>12, <1>13, <1>14, <1>15, <1>16, <1>17
        DEF Next, Transaction, Maintenance

-----------------------------------------------------------------------------
(* The limit, and the locks. *)

\* No row, and no row a transaction has read, exceeds its total.
LimitInv ==
  /\ UsedWithinTotal
  /\ \A p \in Processes : \A s \in DOMAIN snap[p] : Total[s] > 0 => snap[p][s].sub.used <= Total[s]

\* With row locks, rows that were read are read by one transaction, and stay as they are until it ends.
LockInv ==
  locks => /\ \A p, q \in Processes : p # q => DOMAIN snap[p] \cap DOMAIN snap[q] = {}
           /\ \A p \in Processes : \A s \in DOMAIN snap[p] : snap[p][s].sub = row[s]

\* Saving what was read keeps the status, and the limit.
LEMMA SavedRow ==
  ASSUME TypeOK, LimitInv, NEW p \in Processes, NEW s \in DOMAIN snap[p], SavesRow(p, s)
  PROVE  /\ row'[s].status = snap[p][s].sub.status
         /\ Total[s] > 0 => row'[s].used <= Total[s]
<1>1. snap[p][s] \in Reads /\ snap[p][s].sub \in Rows /\ s \in Subs /\ Total[s] \in Nat
  <2>1. s \in Subs /\ snap[p][s] \in Reads
    BY DEF TypeOK, SnapsOK
  <2> QED BY <2>1, QuotaAssumption DEF Reads
<1>2. CASE Renews(p, s)
  BY <1>1, <1>2 DEF Renews, Reset, Rows, Reads
<1>3. CASE RenewsAndBooks(p, s)
  BY <1>1, <1>3 DEF RenewsAndBooks, Reset, Rows, Reads
<1>4. ASSUME NEW d \in {-1, 0, 1}, BooksOn(p, s, d)
      PROVE  row'[s].status = snap[p][s].sub.status /\ (Total[s] > 0 => row'[s].used <= Total[s])
  <2>1. PICK u \in NewUsed(s, snap[p][s].sub.used, d) : row'[s] = [snap[p][s].sub EXCEPT !.used = u]
    BY <1>4 DEF BooksOn
  <2>2. u \in Nat /\ (Total[s] > 0 => u <= Total[s])
    BY <1>1, <2>1, NewUsedType DEF Rows
  <2> QED BY <1>1, <2>1, <2>2 DEF Rows
<1> QED BY <1>2, <1>3, <1>4 DEF SavesRow

\* Every step keeps stored and copied usage within AmountTotal.
LEMMA LimitStep ==
  ASSUME TypeOK, LimitInv, Kind
  PROVE  LimitInv'
<1>1. CASE Saves
  <2>1. PICK p \in Processes : /\ snap' = [snap EXCEPT ![p] = NoRows]
                               /\ \A s \in Subs : SameBooks(s) \/ (s \in DOMAIN snap[p] /\ SavesRow(p, s))
    BY <1>1 DEF Saves
  <2>2. UsedWithinTotal'
    BY <2>1, SavedRow DEF UsedWithinTotal, SameBooks, LimitInv
  <2>3. \A q \in Processes : q # p => snap'[q] = snap[q]
    BY <2>1 DEF TypeOK, SnapsOK
  <2>4. DOMAIN snap'[p] = {}
    BY <2>1 DEF TypeOK, SnapsOK
  <2> QED BY <2>2, <2>3, <2>4 DEF LimitInv
<1>2. CASE ReadsRows
  <2>1. PICK p \in Processes, S \in SUBSET Subs :
          snap' = [snap EXCEPT ![p] = [s \in S |-> [sub |-> row[s], now |-> clock[s]]]] /\ row' = row
    BY <1>2 DEF ReadsRows
  <2>2. \A q \in Processes : q # p => snap'[q] = snap[q]
    BY <2>1 DEF TypeOK, SnapsOK
  <2>3. snap'[p] = [s \in S |-> [sub |-> row[s], now |-> clock[s]]]
    BY <2>1 DEF TypeOK, SnapsOK
  <2>4. \A s \in DOMAIN snap'[p] : s \in Subs /\ snap'[p][s].sub = row[s]
    BY <2>3
  <2> QED BY <2>1, <2>2, <2>4 DEF LimitInv, UsedWithinTotal
<1>3. CASE SetsStatus
  <2>1. ASSUME NEW s \in Subs PROVE row'[s].used = row[s].used
    <3>1. row'[s] = row[s] \/ \E status : row'[s] = [row[s] EXCEPT !.status = status]
      BY <1>3 DEF SetsStatus, SameBooks
    <3>2. row[s] \in Rows
      BY DEF TypeOK
    <3> QED BY <3>1, <3>2 DEF Rows
  <2> QED BY <1>3, <2>1 DEF SetsStatus, LimitInv, UsedWithinTotal
<1>4. CASE LeavesRows
  <2>1. \A q \in Processes : snap'[q] = snap[q] \/ DOMAIN snap'[q] = {}
    BY <1>4 DEF LeavesRows, TypeOK, SnapsOK
  <2> QED BY <1>4, <2>1 DEF LeavesRows, LimitInv, UsedWithinTotal
<1> QED BY <1>1, <1>2, <1>3, <1>4 DEF Kind

\* Where row locks are taken, every step keeps the copies equal to their rows and apart.
LEMMA LockStep ==
  ASSUME TypeOK, LockInv, Kind
  PROVE  LockInv'
<1> SUFFICES ASSUME locks
             PROVE  /\ \A p, q \in Processes : p # q => DOMAIN snap'[p] \cap DOMAIN snap'[q] = {}
                    /\ \A p \in Processes : \A s \in DOMAIN snap'[p] : snap'[p][s].sub = row'[s]
  BY DEF LockInv, Kind
<1>1. /\ \A p, q \in Processes : p # q => DOMAIN snap[p] \cap DOMAIN snap[q] = {}
      /\ \A p \in Processes : \A s \in DOMAIN snap[p] : s \in Subs /\ snap[p][s].sub = row[s]
  BY DEF LockInv, TypeOK, SnapsOK
<1>2. CASE Saves
  <2>1. PICK p \in Processes : /\ snap' = [snap EXCEPT ![p] = NoRows]
                               /\ \A s \in Subs : SameBooks(s) \/ (s \in DOMAIN snap[p] /\ SavesRow(p, s))
    BY <1>2 DEF Saves
  <2>2. (\A q \in Processes : q # p => snap'[q] = snap[q]) /\ DOMAIN snap'[p] = {}
    BY <2>1 DEF TypeOK, SnapsOK
  <2>3. \A s \in Subs : s \notin DOMAIN snap[p] => row'[s] = row[s]
    BY <2>1 DEF SameBooks
  <2> QED BY <1>1, <2>2, <2>3
<1>3. CASE ReadsRows
  <2>1. PICK p \in Processes, S \in SUBSET Subs :
          Free(S) /\ snap' = [snap EXCEPT ![p] = [s \in S |-> [sub |-> row[s], now |-> clock[s]]]] /\ row' = row
    BY <1>3 DEF ReadsRows
  <2>2. (\A q \in Processes : q # p => snap'[q] = snap[q]) /\ snap'[p] = [s \in S |-> [sub |-> row[s], now |-> clock[s]]]
    BY <2>1 DEF TypeOK, SnapsOK
  <2>3. DOMAIN snap'[p] = S /\ \A s \in S : snap'[p][s].sub = row[s]
    BY <2>2
  <2>4. \A q \in Processes : DOMAIN snap[q] \cap S = {}
    BY <2>1 DEF Free
  <2> QED BY <1>1, <2>1, <2>2, <2>3, <2>4
<1>4. CASE SetsStatus
  <2>1. \A s \in Subs : row'[s] = row[s] \/ Free({s})
    BY <1>4 DEF SetsStatus, SameBooks
  <2>2. \A p \in Processes : \A s \in DOMAIN snap[p] : ~Free({s})
    BY DEF Free
  <2> QED BY <1>1, <1>4, <2>1, <2>2, ZenonT(30) DEF SetsStatus
<1>5. CASE LeavesRows
  <2>1. \A q \in Processes : snap'[q] = snap[q] \/ DOMAIN snap'[q] = {}
    BY <1>5 DEF LeavesRows, TypeOK, SnapsOK
  <2> QED BY <1>1, <1>5, <2>1 DEF LeavesRows
<1> QED BY <1>2, <1>3, <1>4, <1>5 DEF Kind

\* A row that is not active any more keeps its status, unless an administrator changes it.
LEMMA StatusStep ==
  ASSUME TypeOK, LimitInv, LockInv, Kind, locks, NEW s \in Subs, row[s].status # "active"
  PROVE  row'[s].status = row[s].status \/ (Exists(s) /\ row'[s].status \in {"deleted", "cancelled"})
<1>1. CASE Saves
  <2>1. PICK p \in Processes : \A x \in Subs : SameBooks(x) \/ (x \in DOMAIN snap[p] /\ SavesRow(p, x))
    BY <1>1 DEF Saves
  <2>2. CASE s \in DOMAIN snap[p] /\ SavesRow(p, s)
    BY <2>2, SavedRow DEF LockInv
  <2> QED BY <2>1, <2>2 DEF SameBooks
<1>2. CASE SetsStatus
  <2>1. CASE SameBooks(s)
    BY <2>1 DEF SameBooks
  <2>2. PICK status \in {"cancelled", "deleted"} : ~SameBooks(s) => Exists(s) /\ row'[s] = [row[s] EXCEPT !.status = status]
    BY <1>2 DEF SetsStatus
  <2> QED BY <2>1, <2>2 DEF TypeOK, Rows
<1> QED BY <1>1, <1>2 DEF Kind, ReadsRows, LeavesRows

-----------------------------------------------------------------------------
(* The ledger. *)

\* What each request holds of s, and the single units that makes: their number is what s should show as used.
Holds(s) == [q \in Requests |-> share[q][s]]
Units(f) == {h \in Requests \X Nat : 1 <= h[2] /\ h[2] <= f[h[1]]}
Exact(s) == IsFiniteSet(Units(Holds(s))) /\ row[s].used = Cardinality(Units(Holds(s)))

LedgerInv == locks => \A s \in Subs \ slipped : Exists(s) => Exact(s)

\* Nobody holds anything: there are no units.
LEMMA UnitsZero ==
  LET zero == [q \in Requests |-> 0] IN IsFiniteSet(Units(zero)) /\ Cardinality(Units(zero)) = 0
<1> DEFINE zero == [q \in Requests |-> 0]
<1>1. Units(zero) = {}
  <2>1. ASSUME NEW h \in Units(zero) PROVE FALSE
    <3>1. h \in Requests \X Nat /\ 1 <= h[2] /\ h[2] <= zero[h[1]]
      BY DEF Units
    <3>2. h[1] \in Requests /\ h[2] \in Nat
      BY <3>1
    <3> QED BY <3>1, <3>2
  <2> QED BY <2>1
<1> QED BY <1>1, FS_EmptySet

\* A request that books one more adds one unit.
LEMMA UnitsAdd ==
  ASSUME NEW f \in [Requests -> Nat], NEW r \in Requests, IsFiniteSet(Units(f))
  PROVE  LET g == [f EXCEPT ![r] = @ + 1]
         IN IsFiniteSet(Units(g)) /\ Cardinality(Units(g)) = Cardinality(Units(f)) + 1
<1> DEFINE g == [f EXCEPT ![r] = @ + 1]
           x == <<r, f[r] + 1>>
<1>1. x \in Requests \X Nat /\ x[1] = r /\ x[2] = f[r] + 1 /\ f[r] \in Nat
  OBVIOUS
<1>2. x \notin Units(f) /\ x \in Units(g)
  BY <1>1 DEF Units
<1>3. ASSUME NEW h \in Requests \X Nat PROVE h \in Units(g) <=> h \in Units(f) \/ h = x
  <2>1. h[1] \in Requests /\ h[2] \in Nat /\ h = <<h[1], h[2]>>
    OBVIOUS
  <2>2. CASE h[1] = r
    <3>1. g[h[1]] = f[r] + 1
      BY <2>1, <2>2
    <3>2. h = x <=> h[2] = f[r] + 1
      BY <1>1, <2>1, <2>2
    <3> HIDE DEF g, x
    <3> QED BY <1>1, <2>1, <2>2, <3>1, <3>2 DEF Units
  <2>3. CASE h[1] # r
    <3>1. g[h[1]] = f[h[1]] /\ h # x
      BY <1>1, <2>1, <2>3
    <3> HIDE DEF g, x
    <3> QED BY <2>1, <3>1 DEF Units
  <2> QED BY <2>2, <2>3
<1>4. Units(g) = Units(f) \cup {x}
  <2>1. Units(g) \subseteq Requests \X Nat /\ Units(f) \subseteq Requests \X Nat
    BY DEF Units
  <2> HIDE DEF g, x
  <2> QED BY <1>1, <1>3, <2>1
<1> HIDE DEF x
<1> QED BY <1>2, <1>4, FS_AddElement

\* One that gives a unit back removes one: there was one to remove.
LEMMA UnitsRemove ==
  ASSUME NEW f \in [Requests -> Nat], NEW r \in Requests, IsFiniteSet(Units(f)), f[r] >= 1
  PROVE  LET g == [f EXCEPT ![r] = @ - 1]
         IN IsFiniteSet(Units(g)) /\ Cardinality(Units(f)) = Cardinality(Units(g)) + 1
<1> DEFINE g == [f EXCEPT ![r] = @ - 1]
<1>1. g \in [Requests -> Nat] /\ f = [g EXCEPT ![r] = @ + 1]
  <2>1. f[r] \in Nat /\ f[r] - 1 \in Nat
    OBVIOUS
  <2>2. g \in [Requests -> Nat] /\ g[r] = f[r] - 1 /\ \A q \in Requests : q # r => g[q] = f[q]
    BY <2>1
  <2> HIDE DEF g
  <2>3. \A q \in Requests : f[q] = [g EXCEPT ![r] = @ + 1][q]
    BY <2>1, <2>2
  <2> QED BY <2>2, <2>3
<1>2. IsFiniteSet(Units(g))
  <2>1. Units(g) \subseteq Units(f)
    <3> SUFFICES ASSUME NEW h \in Requests \X Nat, 1 <= h[2], h[2] <= g[h[1]] PROVE h[2] <= f[h[1]]
      BY DEF Units
    <3>1. h[1] \in Requests /\ h[2] \in Nat
      OBVIOUS
    <3>2. g[h[1]] <= f[h[1]] /\ g[h[1]] \in Nat /\ f[h[1]] \in Nat
      BY <3>1
    <3> HIDE DEF g
    <3> QED BY <3>1, <3>2
  <2> HIDE DEF g
  <2> QED BY <2>1, FS_Subset
<1> HIDE DEF g
<1> QED BY <1>1, <1>2, UnitsAdd DEF g

\* How the books of s may move while they are exact.
Stays(s) == row'[s].used = row[s].used /\ Holds(s)' = Holds(s)
Moves(s, r, d) ==
  /\ row'[s].used = row[s].used + d /\ share[r][s] + d >= 0
  /\ Holds(s)' = [Holds(s) EXCEPT ![r] = @ + d]
StartsAnew(s) == row'[s].used = 0 /\ Holds(s)' = [q \in Requests |-> 0]
StartsAnewWith(s, r) == row'[s].used = 1 /\ Holds(s)' = [q \in Requests |-> IF q = r THEN 1 ELSE 0]

BooksMove(s) ==
  \/ Stays(s)
  \/ \E r \in Requests, d \in {-1, 0, 1} : Moves(s, r, d)
  \/ StartsAnew(s)
  \/ \E r \in Requests : StartsAnewWith(s, r)

\* While the books of s are exact, a booking is never cut off at zero: what is given back was held.
LEMMA BookingIsExact ==
  ASSUME TypeOK, LockInv, locks, NEW s \in Subs, s \notin slipped', Exact(s),
         NEW r \in Requests, s \in DOMAIN snap[r], NEW d \in {-1, 0, 1}, BooksOn(r, s, d), share' \in [Requests -> [Subs -> Nat]]
  PROVE  Moves(s, r, d)
<1>1. snap[r][s].sub = row[s] /\ row[s] \in Rows /\ row[s].used \in Nat /\ share[r][s] \in Nat
  BY DEF LockInv, TypeOK, Rows
<1>2. /\ \A q \in Requests : q # r => share'[q][s] = share[q][s]
      /\ share[r][s] + d >= 0 /\ share'[r][s] = share[r][s] + d
  BY <1>1 DEF BooksOn
<1>3. Holds(s) \in [Requests -> Nat] /\ Holds(s)[r] = share[r][s]
  BY DEF Holds, TypeOK
<1>4. Holds(s)' = [Holds(s) EXCEPT ![r] = @ + d]
  BY <1>2, <1>3 DEF Holds
<1>5. row[s].used + d >= 0
  <2>1. CASE d = -1
    <3>1. IsFiniteSet(Units(Holds(s))) /\ Holds(s)[r] >= 1
      BY <1>2, <1>3, <2>1 DEF Exact
    <3> DEFINE g == [Holds(s) EXCEPT ![r] = @ - 1]
    <3>2. IsFiniteSet(Units(g)) /\ Cardinality(Units(Holds(s))) = Cardinality(Units(g)) + 1
      BY <1>3, <3>1, UnitsRemove
    <3>3. Cardinality(Units(g)) \in Nat
      BY <3>2, FS_CardinalityType
    <3> HIDE DEF g
    <3> QED BY <2>1, <3>2, <3>3 DEF Exact
  <2> QED BY <1>1, <2>1
<1>6. PICK u \in NewUsed(s, row[s].used, d) : row'[s] = [row[s] EXCEPT !.used = u]
  BY <1>1 DEF BooksOn
<1>7. u = row[s].used + d
  BY <1>1, <1>5, <1>6 DEF NewUsed
<1>8. row'[s].used = row[s].used + d
  BY <1>1, <1>6, <1>7 DEF Rows
<1> QED BY <1>2, <1>4, <1>8 DEF Moves

\* Where row locks are taken, the exact books of a subscription move as QuotaLedger allows.
LEMMA ExactBooksMove ==
  ASSUME TypeOK, TypeOK', LimitInv, LockInv, LedgerInv, Kind, locks, NEW s \in Subs, s \notin slipped', Exists(s)
  PROVE  ~Exists(s)' \/ BooksMove(s)
<1>1. s \notin slipped /\ Exact(s)
  BY DEF Kind, LedgerInv
<1>2. ASSUME row'[s].used = row[s].used, \A q \in Requests : share'[q][s] = share[q][s] PROVE BooksMove(s)
  BY <1>2 DEF BooksMove, Stays, Holds
<1>3. CASE Saves
  <2>1. PICK p \in Processes : \A x \in Subs : SameBooks(x) \/ (x \in DOMAIN snap[p] /\ SavesRow(p, x))
    BY <1>3 DEF Saves
  <2>2. CASE SameBooks(s)
    BY <1>2, <2>2 DEF SameBooks
  <2>3. CASE s \in DOMAIN snap[p] /\ SavesRow(p, s)
    <3>1. snap[p][s] \in Reads
      BY <2>3 DEF TypeOK, SnapsOK
    <3>2. CASE Renews(p, s)
      <4>1. row'[s].used = 0
        BY <3>1, <3>2 DEF Renews, Reset, Reads, Rows
      <4>2. Holds(s)' = [q \in Requests |-> 0]
        BY <3>2 DEF Renews, Holds
      <4> QED BY <4>1, <4>2 DEF BooksMove, StartsAnew
    <3>3. CASE p \in Requests /\ RenewsAndBooks(p, s)
      <4>1. row'[s].used = 1
        BY <3>1, <3>3 DEF RenewsAndBooks, Reset, Reads, Rows
      <4>2. Holds(s)' = [q \in Requests |-> IF q = p THEN 1 ELSE 0]
        BY <3>3 DEF RenewsAndBooks, Holds
      <4> QED BY <3>3, <4>1, <4>2 DEF BooksMove, StartsAnewWith
    <3>4. CASE p \in Requests /\ \E d \in {-1, 0, 1} : BooksOn(p, s, d)
      <4>1. share' \in [Requests -> [Subs -> Nat]]
        BY DEF TypeOK
      <4>2. PICK d \in {-1, 0, 1} : BooksOn(p, s, d)
        BY <3>4
      <4>3. Moves(s, p, d)
        BY <1>1, <2>3, <3>4, <4>1, <4>2, BookingIsExact
      <4> QED BY <3>4, <4>3 DEF BooksMove
    <3> QED BY <2>3, <3>2, <3>3, <3>4 DEF SavesRow
  <2> QED BY <2>1, <2>2, <2>3
<1>4. CASE SetsStatus
  <2>1. row'[s] = row[s] \/ \E status : row'[s] = [row[s] EXCEPT !.status = status]
    BY <1>4 DEF SetsStatus, SameBooks
  <2>2. row[s] \in Rows
    BY DEF TypeOK
  <2>3. row'[s].used = row[s].used
    BY <2>1, <2>2 DEF Rows
  <2> QED BY <1>2, <1>4, <2>3 DEF SetsStatus
<1>5. CASE ReadsRows \/ LeavesRows
  BY <1>2, <1>5 DEF ReadsRows, LeavesRows
<1> QED BY <1>3, <1>4, <1>5 DEF Kind

\* So a subscription that has not slipped keeps its books exact.
LEMMA LedgerStep ==
  ASSUME TypeOK, TypeOK', LimitInv, LockInv, LedgerInv, Kind
  PROVE  LedgerInv'
<1> SUFFICES ASSUME locks, NEW s \in Subs, s \notin slipped', Exists(s)' PROVE Exact(s)'
  BY DEF LedgerInv, Kind
<1>1. Exists(s)
  BY StatusStep DEF Exists
<1>2. s \notin slipped /\ Exact(s)
  BY <1>1 DEF Kind, LedgerInv
<1>3. Holds(s) \in [Requests -> Nat] /\ \A q \in Requests : Holds(s)[q] = share[q][s]
  BY DEF Holds, TypeOK
<1>4. CASE Stays(s)
  BY <1>2, <1>4 DEF Stays, Exact
<1>5. ASSUME NEW r \in Requests, NEW d \in {-1, 0, 1}, Moves(s, r, d) PROVE Exact(s)'
  <2>1. /\ Holds(s)' = [Holds(s) EXCEPT ![r] = @ + d] /\ row'[s].used = row[s].used + d
        /\ Holds(s)[r] + d >= 0 /\ Holds(s)[r] \in Nat
    BY <1>3, <1>5 DEF Moves
  <2>2. IsFiniteSet(Units(Holds(s))) /\ row[s].used = Cardinality(Units(Holds(s))) /\ row[s].used \in Nat
    BY <1>2, FS_CardinalityType DEF Exact
  <2>3. CASE d = 0
    <3>1. [Holds(s) EXCEPT ![r] = @ + d] = Holds(s)
      BY <1>3, <2>3
    <3>2. Holds(s)' = Holds(s) /\ row'[s].used = row[s].used
      BY <2>1, <2>2, <2>3, <3>1
    <3> QED BY <2>2, <3>2 DEF Exact
  <2>4. CASE d = 1
    <3>1. Holds(s)' = [Holds(s) EXCEPT ![r] = @ + 1]
      BY <2>1, <2>4
    <3>2. IsFiniteSet(Units(Holds(s)')) /\ Cardinality(Units(Holds(s)')) = Cardinality(Units(Holds(s))) + 1
      BY <1>3, <2>2, <3>1, UnitsAdd
    <3> QED BY <2>1, <2>2, <2>4, <3>2 DEF Exact, Units
  <2>5. CASE d = -1
    <3>0. Holds(s)[r] + d = Holds(s)[r] - 1 /\ Holds(s)[r] >= 1
      BY <2>1, <2>5
    <3>1. Holds(s)' = [Holds(s) EXCEPT ![r] = @ - 1]
      BY <2>1, <3>0
    <3>2. IsFiniteSet(Units(Holds(s)')) /\ Cardinality(Units(Holds(s))) = Cardinality(Units(Holds(s)')) + 1
      BY <1>3, <2>2, <3>0, <3>1, UnitsRemove, ZenonT(30)
    <3>3. Cardinality(Units(Holds(s)')) \in Nat
      BY <3>2, FS_CardinalityType
    <3> QED BY <2>1, <2>2, <2>5, <3>2, <3>3 DEF Exact, Units
  <2> QED BY <2>3, <2>4, <2>5
<1>6. CASE StartsAnew(s)
  BY <1>6, UnitsZero DEF StartsAnew, Exact, Units
<1>7. ASSUME NEW r \in Requests, StartsAnewWith(s, r) PROVE Exact(s)'
  <2> DEFINE zero == [q \in Requests |-> 0]
  <2>1. zero \in [Requests -> Nat] /\ [zero EXCEPT ![r] = @ + 1] = [q \in Requests |-> IF q = r THEN 1 ELSE 0]
    OBVIOUS
  <2>2. IsFiniteSet(Units(zero)) /\ Cardinality(Units(zero)) = 0
    BY UnitsZero
  <2> HIDE DEF zero
  <2>3. IsFiniteSet(Units(Holds(s)')) /\ Cardinality(Units(Holds(s)')) = 0 + 1
    BY <1>7, <2>1, <2>2, UnitsAdd DEF StartsAnewWith
  <2> QED BY <1>7, <2>3 DEF StartsAnewWith, Exact, Units
<1> QED BY <1>1, <1>4, <1>5, <1>6, <1>7, ExactBooksMove DEF BooksMove

\* What a step makes of the ledger.
LEMMA LedgerNext ==
  ASSUME TypeOK, TypeOK', LimitInv', LockInv, LedgerInv, LimitInv, Kind
  PROVE  Ledger!Next
<1> DEFINE used == [s \in Subs |-> IF Exists(s) THEN row[s].used ELSE 0]
           held == [r \in Requests |-> [s \in Subs |-> IF Exists(s) THEN share[r][s] ELSE 0]]
           exact == IF locks THEN Subs \ slipped ELSE {}
<1>1. exact' \subseteq exact
  BY DEF Kind
<1>2. ASSUME NEW s \in exact'
      PROVE  Ledger!Unchanged(s) \/ Ledger!Booked(s) \/ Ledger!NewPeriod(s) \/ Ledger!NewPeriodBooked(s)
  <2>1. locks /\ s \in Subs /\ s \notin slipped' /\ row[s].used \in Nat
    BY <1>2 DEF Kind, TypeOK, Rows
  <2>2. CASE ~Exists(s)'
    BY <2>1, <2>2 DEF Ledger!NewPeriod
  <2>3. CASE Exists(s)'
    <3>1. Exists(s)
      BY <2>1, <2>3, StatusStep DEF Exists
    <3>2. BooksMove(s)
      BY <2>1, <2>3, <3>1, ExactBooksMove
    <3>3. used[s] = row[s].used /\ used'[s] = row'[s].used
      BY <2>1, <2>3, <3>1
    <3>4. \A q \in Requests : held[q][s] = Holds(s)[q] /\ held'[q][s] = Holds(s)'[q] /\ Holds(s)[q] = share[q][s] /\ share[q][s] \in Nat
      BY <2>1, <2>3, <3>1 DEF Holds, TypeOK
    <3>5. Total[s] > 0 => row'[s].used <= Total[s]
      BY <2>1 DEF LimitInv, UsedWithinTotal
    <3>6. CASE Stays(s)
      BY <3>3, <3>4, <3>6 DEF Stays, Ledger!Unchanged
    <3>7. ASSUME NEW r \in Requests, NEW d \in {-1, 0, 1}, Moves(s, r, d) PROVE Ledger!Booked(s)
      <4> DEFINE before == [q \in Requests |-> held[q][s]]
      <4>1. row'[s].used = row[s].used + d /\ share[r][s] + d >= 0
        BY <3>7 DEF Moves
      <4>2. used'[s] - used[s] = d /\ used'[s] = used[s] + d
        BY <2>1, <3>3, <4>1
      <4>3. before[r] + d >= 0
        BY <3>4, <4>1
      <4>4. \A q \in Requests : held'[q][s] = IF q = r THEN before[q] + d ELSE before[q]
        <5>1. Holds(s)' = [Holds(s) EXCEPT ![r] = @ + d] /\ Holds(s) \in [Requests -> Nat]
          BY <2>1, <3>7 DEF Moves, Holds, TypeOK
        <5> QED BY <3>4, <5>1
      <4>5. Ledger!Books(s, r, used'[s] - used[s], used[s], before)
        BY <3>3, <3>5, <4>2, <4>3, <4>4 DEF Ledger!Books
      <4> QED BY <4>5 DEF Ledger!Booked
    <3>8. CASE StartsAnew(s)
      BY <3>3, <3>4, <3>8 DEF StartsAnew, Ledger!NewPeriod
    <3>9. ASSUME NEW r \in Requests, StartsAnewWith(s, r) PROVE Ledger!NewPeriodBooked(s)
      <4>1. used'[s] = 1 /\ \A q \in Requests : held'[q][s] = IF q = r THEN 0 + 1 ELSE 0
        <5>1. row'[s].used = 1 /\ \A q \in Requests : Holds(s)'[q] = IF q = r THEN 1 ELSE 0
          BY <3>9, Zenon DEF StartsAnewWith
        <5> HIDE DEF used, held
        <5> QED BY <3>3, <3>4, <5>1
      <4>2. Ledger!Books(s, r, used'[s], 0, [q \in Requests |-> 0])
        BY <3>3, <3>5, <4>1 DEF Ledger!Books
      <4> QED BY <4>2 DEF Ledger!NewPeriodBooked
    <3> QED BY <3>2, <3>6, <3>7, <3>8, <3>9 DEF BooksMove
  <2> QED BY <2>2, <2>3
<1> QED BY <1>1, <1>2 DEF Ledger!Next

-----------------------------------------------------------------------------
(* Refunds, and the slips of the books. *)

\* Until a call fails, a refund that is still to be tried has not been booked.
RefundInv ==
  \A r \in Requests :
    /\ faults = 0 => returned[r] <= 1 /\ (pc[r] \in {"refunding", "refund"} => returned[r] = 0)
    /\ record[r] = "refunded" => returned[r] >= 1

\* Every step keeps that so.
LEMMA RefundStep ==
  ASSUME TypeOK, StepInv, RefundInv, [Next]_vars
  PROVE  RefundInv'
<1>1. Task \notin Requests /\ Requests \subseteq Processes
  BY QuotaAssumption
<1> USE DEF RefundInv
<1>2. ASSUME UNCHANGED <<returned, faults, record>>, NEW r \in Requests, NEW label, pc' = [pc EXCEPT ![r] = label],
             label \notin {"refunding", "refund"} \/ (faults = 0 => returned[r] = 0)
      PROVE  RefundInv'
  BY <1>1, <1>2 DEF TypeOK
<1>3. ASSUME UNCHANGED <<returned, faults, record>>, \A q \in Requests : pc'[q] = pc[q] PROVE RefundInv'
  BY <1>3
<1>4. ASSUME NEW r \in Requests, PreRead(r) \/ SettleWrite(r) \/ \E d \in {-1, 0, 1} : SettleRead(r, d) PROVE RefundInv'
  BY <1>2, <1>4 DEF PreRead, SettleWrite, SettleRead, Read, End, Goto
<1>5. ASSUME NEW r \in Requests, PreWrite(r) PROVE RefundInv'
  <2>1. /\ pc' = [pc EXCEPT ![r] = "held"] \/ pc' = [pc EXCEPT ![r] = "done"]
        /\ record' = record \/ record' = [record EXCEPT ![r] = "consumed"]
        /\ UNCHANGED <<returned, faults>>
    BY <1>5 DEF PreWrite, End, Goto
  <2> QED BY <1>1, <2>1 DEF TypeOK
<1>6. ASSUME NEW r \in Requests, RefundRead(r) PROVE RefundInv'
  <2>1. faults = 0 => returned[r] = 0
    BY <1>6 DEF RefundRead, StepInv, RefundsAt
  <2> QED BY <1>2, <1>6, <2>1 DEF RefundRead, FailAttempt, Read, End, Goto
<1>7. ASSUME NEW r \in Requests, RefundWrite(r) PROVE RefundInv'
  <2>1. /\ pc[r] = "refund" /\ pc' = [pc EXCEPT ![r] = "returned"] /\ UNCHANGED <<faults, record>>
        /\ returned' = [returned EXCEPT ![r] = @ + 1]
    BY <1>7 DEF RefundWrite, End, Goto
  <2>2. record[r] = "consumed"
    BY <2>1 DEF StepInv, RequestAt
  <2> QED BY <1>1, <2>1, <2>2 DEF TypeOK
<1>8. ASSUME NEW r \in Requests, RefundSave(r) PROVE RefundInv'
  <2>1. /\ pc[r] = "returned" /\ pc' = [pc EXCEPT ![r] = "done"] /\ UNCHANGED <<faults, returned>>
        /\ record' = [record EXCEPT ![r] = "refunded"]
    BY <1>8 DEF RefundSave, End, Goto
  <2>2. returned[r] >= 1
    BY <2>1 DEF StepInv, RefundsAt, TypeOK
  <2> QED BY <1>1, <2>1, <2>2 DEF TypeOK
<1>9. ASSUME NEW p \in Processes, Fails(p) PROVE RefundInv'
  <2>1. faults' # 0 /\ UNCHANGED <<returned, record>>
    BY <1>9 DEF Fails, TypeOK
  <2> QED BY <2>1
<1>10. ASSUME Expire \/ ResetList \/ ResetWrite \/ \E s \in Subs : ResetRead(s) PROVE RefundInv'
  <2>1. UNCHANGED <<returned, faults, record>> /\ \A q \in Requests : pc'[q] = pc[q]
    BY <1>1, <1>10 DEF Expire, ResetList, ResetRead, ResetWrite, Read, End, Goto, TypeOK
  <2> QED BY <1>3, <2>1
<1>11. ASSUME NEW old \in BOOLEAN, Cleanup(old) PROVE RefundInv'
  <2>1. /\ UNCHANGED <<returned, faults>> /\ \A q \in Requests : pc'[q] = pc[q]
        /\ \A r \in Requests : record'[r] = "refunded" => record[r] = "refunded"
    BY <1>1, <1>11 DEF Cleanup, Goto, TypeOK
  <2> QED BY <2>1
<1>12. ASSUME UNCHANGED vars \/ \E s \in Subs : AdminInvalidate(s) \/ AdminDelete(s) \/ PeriodEnds(s) \/ SubscriptionEnds(s)
       PROVE  RefundInv'
  BY <1>12 DEF vars, AdminInvalidate, AdminDelete, PeriodEnds, SubscriptionEnds
<1> HIDE DEF RefundInv
<1> QED BY <1>4, <1>5, <1>6, <1>7, <1>8, <1>9, <1>10, <1>11, <1>12 DEF Next, Transaction, Maintenance

\* Nothing failed and no period ended: nothing that was read is due, and a request that may still give
\* something back holds it.
Calm ==
  /\ slipped = {} /\ pc[Task] # "resetting"
  /\ \A p \in Processes : \A s \in DOMAIN snap[p] : snap[p][s].now = 0
  /\ \A r \in Requests : pc[r] \in {"held", "settle", "refunding", "refund"} => share[r][on[r]] >= 1

SlipInv == faults = 0 /\ (\A s \in Subs : clock[s] = 0) => Calm

\* Without faults and before any period ends, every step keeps the books of all requests calm.
LEMMA SlipStep ==
  ASSUME TypeOK, StepInv, SlipInv, [Next]_vars
  PROVE  SlipInv'
<1>1. Task \notin Requests /\ Requests \subseteq Processes /\ Task \in Processes
  BY QuotaAssumption
<1> SUFFICES ASSUME faults' = 0, \A s \in Subs : clock'[s] = 0 PROVE Calm'
  BY DEF SlipInv
<1>2. ~(\E p \in Processes : Fails(p)) /\ ~(\E s \in Subs : PeriodEnds(s))
  BY DEF Fails, PeriodEnds, TypeOK
<1>3. faults = 0 /\ \A s \in Subs : clock[s] = 0
  <2>1. UNCHANGED <<clock, faults>>
    BY <1>2 DEF Next, Transaction, Maintenance, vars, PreRead, PreWrite, SettleRead, SettleWrite, RefundRead, RefundWrite,
                RefundSave, Expire, ResetList, ResetRead, ResetWrite, Cleanup, AdminInvalidate, AdminDelete, SubscriptionEnds
  <2> QED BY <2>1
<1>4. Calm
  BY <1>3 DEF SlipInv
<1>5. \A p \in Processes : \A s \in DOMAIN snap[p] : ~Due(snap[p][s])
  <2> SUFFICES ASSUME NEW p \in Processes, NEW s \in DOMAIN snap[p] PROVE ~Due(snap[p][s])
    OBVIOUS
  <2>1. snap[p][s] \in Reads /\ snap[p][s].now = 0
    BY <1>4 DEF Calm, TypeOK, SnapsOK
  <2> QED BY <2>1 DEF Due, Reads, Rows
<1>6. ASSUME NEW p \in Processes, NEW S \in SUBSET Subs, NEW label, Read(p, S, label)
      PROVE  /\ pc' = [pc EXCEPT ![p] = label]
             /\ \A q \in Processes : \A s \in DOMAIN snap'[q] : snap'[q][s].now = 0
  <2>1. (\A q \in Processes : q # p => snap'[q] = snap[q]) /\ snap'[p] = [s \in S |-> [sub |-> row[s], now |-> clock[s]]]
    BY <1>6 DEF Read, TypeOK, SnapsOK
  <2>2. \A s \in DOMAIN snap'[p] : s \in Subs /\ snap'[p][s].now = clock[s]
    BY <2>1
  <2> QED BY <1>3, <1>4, <1>6, <2>1, <2>2 DEF Calm, Read, Goto
<1>7. ASSUME NEW p \in Processes, NEW label, End(p, label)
      PROVE  /\ pc' = [pc EXCEPT ![p] = label]
             /\ \A q \in Processes : \A s \in DOMAIN snap'[q] : snap'[q][s].now = 0
  <2>1. (\A q \in Processes : q # p => snap'[q] = snap[q]) /\ DOMAIN snap'[p] = {}
    BY <1>7 DEF End, TypeOK, SnapsOK
  <2> QED BY <1>4, <1>7, <2>1 DEF Calm, End, Goto
<1>8. ASSUME NEW r \in Requests, NEW label, pc' = [pc EXCEPT ![r] = label], UNCHANGED <<on, share, slipped>>,
             \A q \in Processes : \A s \in DOMAIN snap'[q] : snap'[q][s].now = 0,
             label \notin {"held", "settle", "refunding", "refund"} \/ pc[r] \in {"held", "settle", "refunding", "refund"}
      PROVE  Calm'
  BY <1>1, <1>4, <1>8 DEF Calm, TypeOK
<1>9. ASSUME NEW r \in Requests, PreRead(r) PROVE Calm'
  <2>1. CASE Goto(r, "done") /\ UNCHANGED snap
    BY <1>4, <1>8, <1>9, <2>1 DEF PreRead, Goto, Calm
  <2>2. CASE Read(r, {s \in Subs : Usable(s)}, "pre")
    <3>1. pc' = [pc EXCEPT ![r] = "pre"] /\ \A q \in Processes : \A s \in DOMAIN snap'[q] : snap'[q][s].now = 0
      BY <1>1, <1>6, <2>2
    <3> QED BY <1>8, <1>9, <3>1 DEF PreRead
  <2> QED BY <1>9, <2>1, <2>2 DEF PreRead
<1>10. ASSUME NEW r \in Requests, NEW d \in {-1, 0, 1}, SettleRead(r, d) PROVE Calm'
  <2>1. CASE Goto(r, "done") /\ UNCHANGED snap
    BY <1>4, <1>8, <1>10, <2>1 DEF SettleRead, Goto, Calm
  <2>2. CASE Read(r, {on[r]}, "settle")
    <3>1. pc[r] = "held" /\ on[r] \in Subs
      BY <1>10 DEF SettleRead, StepInv, RequestAt
    <3>2. pc' = [pc EXCEPT ![r] = "settle"] /\ \A q \in Processes : \A s \in DOMAIN snap'[q] : snap'[q][s].now = 0
      BY <1>1, <1>6, <2>2, <3>1
    <3> QED BY <1>8, <1>10, <3>1, <3>2 DEF SettleRead
  <2> QED BY <1>10, <2>1, <2>2 DEF SettleRead
<1>11. ASSUME NEW r \in Requests, RefundRead(r) PROVE Calm'
  <2>1. pc[r] \in {"held", "refunding"} /\ on[r] \in Subs /\ UNCHANGED <<on, share, slipped>>
    BY <1>11 DEF RefundRead, StepInv, RequestAt
  <2>2. CASE Goto(r, "done") /\ UNCHANGED snap
    BY <1>4, <1>8, <2>1, <2>2 DEF Goto, Calm
  <2>3. CASE FailAttempt(r)
    BY <1>1, <1>7, <1>8, <2>1, <2>3 DEF FailAttempt
  <2>4. CASE Read(r, {on[r]}, "refund")
    BY <1>1, <1>6, <1>8, <2>1, <2>4
  <2> QED BY <1>11, <2>2, <2>3, <2>4 DEF RefundRead
<1>12. ASSUME NEW r \in Requests, RefundSave(r) PROVE Calm'
  BY <1>1, <1>7, <1>8, <1>12 DEF RefundSave
<1>13. ASSUME NEW r \in Requests, NEW d \in {-1, 0, 1}, Shares(r, on[r], d), NEW label, End(r, label),
              pc[r] \in {"settle", "refund"}, label \in {"done", "returned"}, UNCHANGED on
       PROVE  Calm'
  <2>1. share[r][on[r]] >= 1 /\ share[r][on[r]] \in Nat
    BY <1>4, <1>13 DEF Calm, StepInv, RequestAt, TypeOK
  <2>2. slipped' = {}
    BY <1>4, <1>13, <2>1 DEF Shares, Calm
  <2>3. \A q \in Requests : q # r => share'[q] = share[q]
    BY <1>13 DEF Shares, TypeOK
  <2>4. pc' = [pc EXCEPT ![r] = label] /\ \A q \in Processes : \A s \in DOMAIN snap'[q] : snap'[q][s].now = 0
    BY <1>1, <1>7, <1>13
  <2> QED BY <1>1, <1>4, <1>13, <2>2, <2>3, <2>4 DEF Calm, TypeOK
<1>14. ASSUME NEW r \in Requests, SettleWrite(r) PROVE Calm'
  <2>1. CASE UNCHANGED <<share, slipped>>
    BY <1>1, <1>7, <1>8, <1>14, <2>1 DEF SettleWrite
  <2>2. CASE Shares(r, on[r], delta[r])
    BY <1>13, <1>14, <2>2 DEF SettleWrite, TypeOK
  <2> QED BY <1>14, <2>1, <2>2 DEF SettleWrite
<1>15. ASSUME NEW r \in Requests, RefundWrite(r) PROVE Calm'
  BY <1>13, <1>15 DEF RefundWrite
<1>16. ASSUME NEW r \in Requests, PreWrite(r) PROVE Calm'
  <2> DEFINE enough == {s \in DOMAIN snap[r] : Enough(s, Reset(snap[r][s]))}
             chosen == Min(enough)
             new == {s \in DOMAIN snap[r] : s <= chosen /\ Due(snap[r][s])}
  <2>1. CASE enough = {}
    BY <1>1, <1>7, <1>8, <1>16, <2>1 DEF PreWrite
  <2>2. CASE enough # {}
    <3>1. enough \in SUBSET Nat
      BY QuotaAssumption DEF TypeOK, SnapsOK
    <3>2. chosen \in Subs
      BY <2>2, <3>1, MinIsLeast DEF TypeOK, SnapsOK
    <3>3. new = {}
      BY <1>1, <1>5
    <3>4. /\ on' = [on EXCEPT ![r] = chosen] /\ UNCHANGED slipped
          /\ share' = [q \in Requests |-> [s \in Subs |->
                            (IF s \in new THEN 0 ELSE share[q][s]) + (IF q = r /\ s = chosen THEN Amount ELSE 0)]]
          /\ End(r, "held")
      BY <1>16, <2>2 DEF PreWrite
    <3> HIDE DEF enough, chosen, new
    <3>5. \A q \in Requests : \A s \in Subs : share'[q][s] >= share[q][s] /\ share[q][s] \in Nat
      BY <3>3, <3>4 DEF TypeOK
    <3>6. share'[r][chosen] >= 1
      BY <3>2, <3>3, <3>4 DEF TypeOK
    <3>7. pc' = [pc EXCEPT ![r] = "held"] /\ \A q \in Processes : \A s \in DOMAIN snap'[q] : snap'[q][s].now = 0
      BY <1>1, <1>7, <3>4
    <3>8. ASSUME NEW q \in Requests, pc'[q] \in {"held", "settle", "refunding", "refund"} PROVE share'[q][on'[q]] >= 1
      <4>1. CASE q = r
        BY <3>4, <3>6, <4>1 DEF TypeOK
      <4>2. CASE q # r
        <5>1. pc[q] = pc'[q] /\ on'[q] = on[q]
          BY <1>1, <3>4, <3>7, <4>2 DEF TypeOK
        <5>2. on[q] \in Subs /\ share[q][on[q]] >= 1
          BY <1>4, <3>8, <5>1 DEF StepInv, RequestAt, Calm
        <5>3. share'[q][on[q]] >= share[q][on[q]] /\ share[q][on[q]] \in Nat /\ share'[q][on[q]] \in Nat
          BY <3>3, <3>4, <3>5, <5>2 DEF TypeOK
        <5> QED BY <5>1, <5>2, <5>3
      <4> QED BY <4>1, <4>2
    <3> QED BY <1>1, <1>4, <3>4, <3>7, <3>8 DEF Calm, TypeOK
  <2> QED BY <2>1, <2>2
<1>17. ASSUME Expire \/ ResetList \/ (\E old \in BOOLEAN : Cleanup(old)) \/ \E s \in Subs : ResetRead(s) PROVE Calm'
  <2>1. ASSUME NEW s \in Subs PROVE ~(row[s].period < clock[s])
    BY <1>3 DEF TypeOK, Rows
  <2>2. UNCHANGED <<on, share, slipped, snap>>
    BY <1>17, <2>1 DEF Expire, ResetList, Cleanup, ResetRead
  <2>3. pc' \in {pc, [pc EXCEPT ![Task] = "listing"], [pc EXCEPT ![Task] = "reset"], [pc EXCEPT ![Task] = "idle"]}
    BY <1>17, <2>1 DEF Expire, ResetList, Cleanup, ResetRead, Goto
  <2>4. pc'[Task] # "resetting" /\ \A r \in Requests : pc'[r] = pc[r]
    BY <1>1, <1>4, <2>3 DEF TypeOK, Calm
  <2> QED BY <1>4, <2>2, <2>4 DEF Calm
<1>18. ~ResetWrite
  BY <1>4 DEF ResetWrite, Calm
<1>19. ASSUME UNCHANGED vars \/ \E s \in Subs : AdminInvalidate(s) \/ AdminDelete(s) \/ SubscriptionEnds(s) PROVE Calm'
  BY <1>4, <1>19 DEF vars, AdminInvalidate, AdminDelete, SubscriptionEnds, Calm
<1> QED BY <1>2, <1>9, <1>10, <1>11, <1>12, <1>14, <1>15, <1>16, <1>17, <1>18, <1>19 DEF Next, Transaction, Maintenance

-----------------------------------------------------------------------------
(* The theorems. *)

Inv == TypeOK /\ StepInv /\ TaskReads /\ LimitInv /\ LockInv /\ LedgerInv /\ RefundInv /\ SlipInv

\* The invariant holds at the start.
LEMMA InvInit == Init => Inv
<1> SUFFICES ASSUME Init PROVE Inv
  OBVIOUS
<1>1. TypeOK /\ StepInv /\ TaskReads
  BY QuotaAssumption DEF Init, TypeOK, StepInv, RequestAt, RefundsAt, Labels, SnapsOK, Rows, Row, TaskReads
<1>2. \A p \in Processes : DOMAIN snap[p] = {} /\ pc[p] = "idle"
  BY DEF Init
<1>3. Requests \subseteq Processes /\ Task \in Processes
  OBVIOUS
<1>4. LimitInv /\ LockInv
  BY <1>2, QuotaAssumption DEF Init, LimitInv, LockInv, UsedWithinTotal, Row
<1>5. RefundInv /\ SlipInv
  BY <1>2, <1>3 DEF Init, RefundInv, SlipInv, Calm
<1>6. ASSUME NEW s \in Subs PROVE Exact(s)
  <2>1. Holds(s) = [q \in Requests |-> 0] /\ row[s].used = 0
    BY DEF Init, Holds, Row
  <2> QED BY <2>1, UnitsZero DEF Exact
<1> QED BY <1>1, <1>4, <1>5, <1>6 DEF Inv, LedgerInv

\* Every step keeps the invariant, and is of one of the kinds above.
LEMMA InvStep ==
  ASSUME Inv, [Next]_vars
  PROVE  Inv' /\ Kind
<1>1. Kind
  BY StepKinds DEF Inv
<1>2. TypeOK' /\ StepInv' /\ TaskReads'
  BY TypeStep, TaskReadsStep DEF Inv
<1>3. LimitInv' /\ LockInv'
  BY <1>1, LimitStep, LockStep DEF Inv
<1>4. LedgerInv'
  BY <1>1, <1>2, LedgerStep DEF Inv
<1>5. RefundInv' /\ SlipInv'
  BY RefundStep, SlipStep DEF Inv
<1> QED BY <1>1, <1>2, <1>3, <1>4, <1>5 DEF Inv

\* The inductive invariant.
THEOREM Invariant == Spec => []Inv
<1>1. Inv /\ [Next]_vars => Inv'
  BY InvStep
<1> QED BY InvInit, <1>1, PTL DEF Spec

\* The subscriptions' state stays well typed, whatever the database does and whatever fails.
THEOREM TypeCorrect == Spec => []TypeOK
BY Invariant, PTL DEF Inv

\* No subscription with a limit ever shows more used than its total, with row locks or without: however
\* stale the row a transaction read, it compares what it saves.
THEOREM WithinTotal == Spec => []UsedWithinTotal
BY Invariant, PTL DEF Inv, LimitInv

\* A request is refunded once unless a call fails between the two transactions of the refund, and a record
\* marked refunded has been.
THEOREM RefundsOnce == Spec => []RefundedOnce
<1>1. Inv => RefundedOnce
  BY DEF Inv, RefundInv, RefundedOnce
<1> QED BY <1>1, Invariant, PTL

\* Books slip only after a failed call or the end of a period.
THEOREM SlipsAreExplained == Spec => []SlipsExplained
<1>1. Inv => SlipsExplained
  BY DEF Inv, SlipInv, Calm, SlipsExplained, TypeOK
<1> QED BY <1>1, Invariant, PTL

\* With row locks a subscription that ended never becomes usable again.
THEOREM EndedForGood == Spec => EndedStaysEnded
<1>1. Inv /\ [Next]_vars =>
        [\A s \in Subs : locks /\ row[s].status # "active" => row'[s].status \in {row[s].status, "deleted", "cancelled"}]_vars
  BY InvStep, StatusStep DEF Inv
<1> QED BY <1>1, Invariant, PTL DEF Spec, EndedStaysEnded

\* The transactions implement the ledger, in which every booking and every new period is one step.
THEOREM ImplementsLedger == Spec => LedgerImplemented
<1>1. Init => Ledger!Init
  BY DEF Init, Ledger!Init, Exists, Row
<1>2. Inv /\ [Next]_vars => [Ledger!Next]_(Ledger!vars)
  BY InvStep, LedgerNext DEF Inv
<1> QED BY <1>1, <1>2, Invariant, PTL DEF Spec, LedgerImplemented, Ledger!Spec
=============================================================================
