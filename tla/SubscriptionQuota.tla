------------------------- MODULE SubscriptionQuota -------------------------
(***************************************************************************)
(* The subscriptions of one user (model/subscription.go) and the task that *)
(* maintains them (service/subscription_reset_task.go).  A transaction     *)
(* reads rows and later saves them whole: reading and saving are two       *)
(* steps.  The reads ask for FOR UPDATE through an option that gorm v2     *)
(* does not pass on, so both databases are modelled: one that keeps the    *)
(* rows locked and one that does not.                                      *)
(***************************************************************************)
EXTENDS Integers, FiniteSets, FiniteSetsExt

CONSTANTS
  Subs,          \* subscriptions, numbers in the order of their end times
  Requests,      \* requests, positive numbers
  Total,         \* amount_total of each subscription, 0 for no limit
  MaxPeriods,    \* bound: quota periods of each subscription that end
  MaxEvents,     \* bound: subscriptions that end or are ended
  MaxFaults      \* bound: database calls that fail

ASSUME QuotaAssumption ==
  /\ Subs \subseteq Nat \ {0} /\ Requests \subseteq Nat \ {0} /\ IsFiniteSet(Subs) /\ IsFiniteSet(Requests)
  /\ Total \in [Subs -> Nat] /\ MaxPeriods \in [Subs -> Nat] /\ MaxEvents \in Nat /\ MaxFaults \in Nat

VARIABLES
  locks,         \* rows read for update stay locked until the transaction ends
  row,           \* the rows of the subscriptions
  clock,         \* the quota period of each subscription it is by now
  past,          \* subscriptions whose end_time has passed
  record,        \* the idempotency record of each request, its subscription or 0
  pc,            \* where each request, and the task, stands
  snap,          \* the rows an open transaction has read, and the period it was then
  on,            \* the subscription of each request, 0 before it has one
  delta,         \* what a settlement books
  attempts,      \* refunds tried
  batch,         \* due subscriptions the task has listed
  events, faults,   \* counters for the bounds
  share,         \* history: what each request holds of each subscription in its period
  slipped,       \* history: subscriptions on which a request gave back more than it held
  returned       \* history: refunds booked for each request

tx == <<pc, snap>>
request == <<on, delta, attempts>>
history == <<share, slipped, returned>>
time == <<clock, past>>
vars == <<locks, row, time, record, tx, request, batch, events, faults, history>>

Task == 0
Processes == Requests \cup {Task}
Amount == 1          \* pre-consumed by a request
MaxAttempts == 3     \* refundWithRetry
NoRows == [s \in {} |-> 0]

\* period: the one that ends at next_reset_time.
Row(status, used, period) == [status |-> status, used |-> used, period |-> period]

Init ==
  /\ locks \in BOOLEAN
  /\ row = [s \in Subs |-> Row("active", 0, 0)] /\ clock = [s \in Subs |-> 0] /\ past = {}
  /\ record = [r \in Requests |-> "none"]
  /\ pc = [p \in Processes |-> "idle"] /\ snap = [p \in Processes |-> NoRows]
  /\ on = [r \in Requests |-> 0] /\ delta = [r \in Requests |-> 0] /\ attempts = [r \in Requests |-> 0]
  /\ batch = {} /\ events = 0 /\ faults = 0
  /\ share = [r \in Requests |-> [s \in Subs |-> 0]] /\ slipped = {} /\ returned = [r \in Requests |-> 0]

-----------------------------------------------------------------------------
(* Transactions. *)

Exists(s) == row[s].status # "deleted"
Usable(s) == row[s].status = "active" /\ s \notin past

\* Rows that no open transaction has locked.
Free(S) == locks => \A p \in Processes : DOMAIN snap[p] \cap S = {}

Goto(p, label) == pc' = [pc EXCEPT ![p] = label]

\* A transaction of p reads the rows S and goes on at label.
Read(p, S, label) ==
  /\ Free(S)
  /\ snap' = [snap EXCEPT ![p] = [s \in S |-> [sub |-> row[s], now |-> clock[s]]]]
  /\ Goto(p, label)

\* It ends, whether it committed or not.
End(p, label) == snap' = [snap EXCEPT ![p] = NoRows] /\ Goto(p, label)

\* r books d on s: it cannot give back more than it holds there without the books getting wrong.
Shares(r, s, d) ==
  /\ share' = [share EXCEPT ![r][s] = IF @ + d < 0 THEN 0 ELSE @ + d]
  /\ slipped' = IF share[r][s] + d < 0 THEN slipped \cup {s} ELSE slipped

\* maybeResetUserSubscriptionWithPlanTx on a row that was read: due if its period had ended by then.
Due(read) == read.sub.period < read.now
Reset(read) == IF Due(read) THEN [read.sub EXCEPT !.used = 0, !.period = read.now] ELSE read.sub

-----------------------------------------------------------------------------
(* PreConsumeUserSubscription. *)

PreRead(r) ==
  /\ pc[r] = "idle"
  /\ LET rows == {s \in Subs : Usable(s)}
     IN IF rows = {} THEN Goto(r, "done") /\ UNCHANGED snap ELSE Read(r, rows, "pre")
  /\ UNCHANGED <<locks, row, time, record, request, batch, events, faults, history>>

\* Mutant: what is used already is not looked at.
EnoughAlways(s, sub) == Total[s] = 0 \/ Total[s] >= Amount

Enough(s, sub) == Total[s] = 0 \/ Total[s] - sub.used >= Amount

\* The first subscription with enough quota is charged; the ones before it are reset if they are due.  If
\* there is none the transaction is rolled back.
PreWrite(r) ==
  LET enough == {s \in DOMAIN snap[r] : Enough(s, Reset(snap[r][s]))}
      chosen == Min(enough)
      new == {s \in DOMAIN snap[r] : s <= chosen /\ Due(snap[r][s])}
  IN /\ pc[r] = "pre"
     /\ IF enough = {} THEN End(r, "done") /\ UNCHANGED <<row, record, on, share>>
        ELSE /\ row' = [s \in Subs |->
                          IF s = chosen THEN [Reset(snap[r][s]) EXCEPT !.used = @ + Amount]
                          ELSE IF s \in new THEN Reset(snap[r][s]) ELSE row[s]]
             /\ record' = [record EXCEPT ![r] = "consumed"]
             /\ on' = [on EXCEPT ![r] = chosen]
             /\ share' = [q \in Requests |-> [s \in Subs |->
                            (IF s \in new THEN 0 ELSE share[q][s]) + (IF q = r /\ s = chosen THEN Amount ELSE 0)]]
             /\ End(r, "held")
     /\ UNCHANGED <<locks, time, delta, attempts, batch, events, faults, slipped, returned>>

-----------------------------------------------------------------------------
(* PostConsumeUserSubscriptionDelta, called when a request is settled. *)

\* Mutant: the row is read without waiting for it.
SettleReadUnlocked(r, d) ==
  /\ pc[r] = "held" /\ delta' = [delta EXCEPT ![r] = d]
  /\ IF d = 0 \/ ~Exists(on[r]) THEN Goto(r, "done") /\ UNCHANGED snap
     ELSE snap' = [snap EXCEPT ![r] = [s \in {on[r]} |-> [sub |-> row[s], now |-> clock[s]]]] /\ Goto(r, "settle")
  /\ UNCHANGED <<locks, row, time, record, on, attempts, batch, events, faults, history>>

SettleRead(r, d) ==
  /\ pc[r] = "held" /\ delta' = [delta EXCEPT ![r] = d]
  /\ IF d = 0 \/ ~Exists(on[r]) THEN Goto(r, "done") /\ UNCHANGED snap ELSE Read(r, {on[r]}, "settle")
  /\ UNCHANGED <<locks, row, time, record, on, attempts, batch, events, faults, history>>

\* The new amount, none if it would exceed the quota.
NewUsed(s, used, d) ==
  LET new == IF used + d < 0 THEN 0 ELSE used + d
  IN IF Total[s] > 0 /\ new > Total[s] THEN {} ELSE {new}

\* Mutant: the request can be settled again.
SettleWriteOpen(r) ==
  LET s == on[r]
      new == NewUsed(s, snap[r][s].sub.used, delta[r])
  IN /\ pc[r] = "settle" /\ End(r, "held")
     /\ IF new = {} THEN UNCHANGED <<row, share, slipped>>
        ELSE /\ \E u \in new : row' = [row EXCEPT ![s] = [snap[r][s].sub EXCEPT !.used = u]]
             /\ Shares(r, s, delta[r])
     /\ UNCHANGED <<locks, time, record, request, batch, events, faults, returned>>

\* The row is saved whole, and created again if it was deleted meanwhile.
SettleWrite(r) ==
  LET s == on[r]
      new == NewUsed(s, snap[r][s].sub.used, delta[r])
  IN /\ pc[r] = "settle" /\ End(r, "done")
     /\ IF new = {} THEN UNCHANGED <<row, share, slipped>>
        ELSE /\ \E u \in new : row' = [row EXCEPT ![s] = [snap[r][s].sub EXCEPT !.used = u]]
             /\ Shares(r, s, delta[r])
     /\ UNCHANGED <<locks, time, record, request, batch, events, faults, returned>>

-----------------------------------------------------------------------------
(* RefundSubscriptionPreConsume under refundWithRetry. *)

\* Mutant: one attempt too many.
FailAttemptOnceMore(r) ==
  /\ attempts' = [attempts EXCEPT ![r] = @ + 1]
  /\ End(r, IF attempts[r] + 1 <= MaxAttempts THEN "refunding" ELSE "done")

\* A refund that failed is tried again, MaxAttempts times in all.
FailAttempt(r) ==
  /\ attempts' = [attempts EXCEPT ![r] = @ + 1]
  /\ End(r, IF attempts[r] + 1 < MaxAttempts THEN "refunding" ELSE "done")

\* The record is read, and the row by a transaction of its own; without the row the attempt fails.
RefundRead(r) ==
  /\ pc[r] \in {"held", "refunding"}
  /\ IF record[r] = "refunded" THEN Goto(r, "done") /\ UNCHANGED <<snap, attempts>>
     ELSE IF ~Exists(on[r]) THEN FailAttempt(r)
     ELSE Read(r, {on[r]}, "refund") /\ UNCHANGED attempts
  /\ UNCHANGED <<locks, row, time, record, on, delta, batch, events, faults, history>>

\* The inner transaction commits, before the record says so.
RefundWrite(r) ==
  LET s == on[r]
  IN /\ pc[r] = "refund" /\ End(r, "returned")
     /\ \E u \in NewUsed(s, snap[r][s].sub.used, -Amount) : row' = [row EXCEPT ![s] = [snap[r][s].sub EXCEPT !.used = u]]
     /\ Shares(r, s, -Amount)
     /\ returned' = [returned EXCEPT ![r] = @ + 1]
     /\ UNCHANGED <<locks, time, record, request, batch, events, faults>>

\* Mutant: the record stays as it is and the refund is tried again.
RefundSaveForgotten(r) ==
  /\ pc[r] = "returned" /\ FailAttempt(r)
  /\ UNCHANGED <<locks, row, time, record, on, delta, batch, events, faults, history>>

RefundSave(r) ==
  /\ pc[r] = "returned" /\ End(r, "done")
  /\ record' = [record EXCEPT ![r] = "refunded"]
  /\ UNCHANGED <<locks, row, time, request, batch, events, faults, history>>

\* A call to the database fails: the open transaction is rolled back.
Fails(p) ==
  /\ faults < MaxFaults /\ faults' = faults + 1
  /\ \/ pc[p] \in {"pre", "settle"} /\ End(p, "done") /\ UNCHANGED <<attempts, batch>>
     \/ pc[p] \in {"refund", "returned"} /\ FailAttempt(p) /\ UNCHANGED batch
     \/ pc[p] = "resetting" /\ End(p, "idle") /\ batch' = {} /\ UNCHANGED attempts
  /\ UNCHANGED <<locks, row, time, record, on, delta, events, history>>

-----------------------------------------------------------------------------
(* runSubscriptionQuotaResetOnce, on every tick of the master node. *)

\* ExpireDueSubscriptions: one UPDATE of the column.
Expire ==
  LET expired == {s \in Subs : row[s].status = "active" /\ s \in past}
  IN /\ pc[Task] = "idle" /\ Free(expired) /\ Goto(Task, "listing")
     /\ row' = [s \in Subs |-> IF s \in expired THEN [row[s] EXCEPT !.status = "expired"] ELSE row[s]]
     /\ UNCHANGED <<locks, time, record, snap, request, batch, events, faults, history>>

\* ResetDueSubscriptions reads the list, then every row of it again.
ResetList ==
  /\ pc[Task] = "listing" /\ Goto(Task, "reset")
  /\ batch' = {s \in Subs : row[s].status = "active" /\ row[s].period < clock[s]}
  /\ UNCHANGED <<locks, row, time, record, snap, request, events, faults, history>>

ResetRead(s) ==
  /\ pc[Task] = "reset" /\ s \in batch /\ batch' = batch \ {s}
  /\ IF Exists(s) /\ row[s].period < clock[s] THEN Read(Task, {s}, "resetting") ELSE UNCHANGED tx
  /\ UNCHANGED <<locks, row, time, record, request, events, faults, history>>

ResetWrite ==
  /\ pc[Task] = "resetting" /\ End(Task, "reset")
  /\ \E s \in DOMAIN snap[Task] :
       /\ row' = [row EXCEPT ![s] = Reset(snap[Task][s])]
       /\ share' = [r \in Requests |-> [share[r] EXCEPT ![s] = 0]]
  /\ UNCHANGED <<locks, time, record, request, batch, events, faults, slipped, returned>>

\* CleanupSubscriptionPreConsumeRecords, at times: the records of requests that ended long ago.
Cleanup(old) ==
  /\ pc[Task] = "reset" /\ batch = {} /\ Goto(Task, "idle")
  /\ record' = [r \in Requests |-> IF old /\ pc[r] = "done" THEN "none" ELSE record[r]]
  /\ UNCHANGED <<locks, row, time, snap, request, batch, events, faults, history>>

-----------------------------------------------------------------------------
(* Administrators and time. *)

Event == events < MaxEvents /\ events' = events + 1

\* Mutant: the row is not waited for.
AdminInvalidateUnlocked(s) ==
  /\ Event /\ Exists(s)
  /\ row' = [row EXCEPT ![s].status = "cancelled"]
  /\ UNCHANGED <<locks, time, record, tx, request, batch, faults, history>>

\* AdminInvalidateUserSubscription updates the columns status and end_time, which always go together.
AdminInvalidate(s) ==
  /\ Event /\ Exists(s) /\ Free({s})
  /\ row' = [row EXCEPT ![s].status = "cancelled"]
  /\ UNCHANGED <<locks, time, record, tx, request, batch, faults, history>>

AdminDelete(s) ==
  /\ Event /\ Exists(s) /\ Free({s})
  /\ row' = [row EXCEPT ![s].status = "deleted"]
  /\ UNCHANGED <<locks, time, record, tx, request, batch, faults, history>>

\* next_reset_time, or end_time, passes: for rows that were read before as well.
PeriodEnds(s) ==
  /\ s \notin past /\ clock[s] < MaxPeriods[s] /\ clock' = [clock EXCEPT ![s] = @ + 1]
  /\ UNCHANGED <<locks, row, past, record, tx, request, batch, events, faults, history>>

SubscriptionEnds(s) ==
  /\ Event /\ s \notin past /\ past' = past \cup {s}
  /\ UNCHANGED <<locks, row, clock, record, tx, request, batch, faults, history>>

-----------------------------------------------------------------------------
Transaction(r) == PreWrite(r) \/ SettleWrite(r) \/ RefundRead(r) \/ RefundWrite(r) \/ RefundSave(r)

Maintenance ==
  \/ Expire \/ ResetList \/ ResetWrite
  \/ \E s \in Subs : ResetRead(s)
  \/ \E old \in BOOLEAN : Cleanup(old)

Next ==
  \/ \E r \in Requests : PreRead(r) \/ Transaction(r) \/ \E d \in {-1, 0, 1} : SettleRead(r, d)
  \/ Maintenance
  \/ \E p \in Processes : Fails(p)
  \/ \E s \in Subs : AdminInvalidate(s) \/ AdminDelete(s) \/ PeriodEnds(s) \/ SubscriptionEnds(s)

Spec == Init /\ [][Next]_vars

-----------------------------------------------------------------------------
(* Properties. *)

Labels == {"idle", "pre", "held", "settle", "refunding", "refund", "returned", "done", "listing", "reset", "resetting"}
Rows == [status : {"active", "expired", "cancelled", "deleted"}, used : Nat, period : Nat]
Reads == [sub : Rows, now : Nat]

SnapsOK ==
  /\ DOMAIN snap = Processes
  /\ \A p \in Processes : DOMAIN snap[p] \subseteq Subs /\ snap[p] \in [DOMAIN snap[p] -> Reads]

TypeOK ==
  /\ locks \in BOOLEAN /\ row \in [Subs -> Rows] /\ record \in [Requests -> {"none", "consumed", "refunded"}]
  /\ clock \in [Subs -> Nat] /\ past \subseteq Subs
  /\ pc \in [Processes -> Labels] /\ SnapsOK
  /\ on \in [Requests -> Subs \cup {0}] /\ delta \in [Requests -> {-1, 0, 1}]
  /\ attempts \in [Requests -> 0 .. MaxAttempts] /\ batch \subseteq Subs
  /\ events \in 0 .. MaxEvents /\ faults \in 0 .. MaxFaults
  /\ share \in [Requests -> [Subs -> Nat]] /\ slipped \subseteq Subs /\ returned \in [Requests -> 0 .. MaxAttempts]

(* A subscription with a limit never shows more used than its total, with row locks or without: every     *)
(* transaction compares what it is about to save, however stale the row it read.                          *)
UsedWithinTotal == \A s \in Subs : Total[s] > 0 => row[s].used <= Total[s]

(* A request is refunded once, however often the refund is tried, unless a call failed after the inner     *)
(* transaction had committed; and a record that says refunded has been refunded.                          *)
RefundedOnce ==
  \A r \in Requests : /\ faults = 0 => returned[r] <= 1
                      /\ record[r] = "refunded" => returned[r] >= 1

(* A request gives back more than it holds of a subscription only after a failed call or a period that     *)
(* ended while it was running, with row locks or without: nothing else makes the books slip.              *)
SlipsExplained == slipped # {} => faults > 0 \/ \E s \in Subs : clock[s] > 0

(* With row locks, a subscription that was cancelled, has expired or was deleted never becomes usable     *)
(* again: no transaction saves a row it read before that.                                                 *)
EndedStaysEnded ==
  [][\A s \in Subs : locks /\ row[s].status # "active" => row'[s].status \in {row[s].status, "deleted", "cancelled"}]_vars

Ledger ==
  INSTANCE QuotaLedger WITH
    used <- [s \in Subs |-> IF Exists(s) THEN row[s].used ELSE 0],
    share <- [r \in Requests |-> [s \in Subs |-> IF Exists(s) THEN share[r][s] ELSE 0]],
    exact <- IF locks THEN Subs \ slipped ELSE {}

(* With row locks, and until books go wrong, the transactions book as the ledger does: what a subscription *)
(* shows as used moves with what one request holds of it, in one step, or starts anew with the period.    *)
LedgerImplemented == Ledger!Spec
=============================================================================
