---------------------------- MODULE QuotaLedger ----------------------------
(***************************************************************************)
(* What the quota of a user's subscriptions promises, without transactions:*)
(* every booking and every new period is one step.  A subscription whose   *)
(* books are not exact any more may show anything.                         *)
(***************************************************************************)
EXTENDS Integers, FiniteSets

CONSTANTS
  Subs,       \* the subscriptions of a user
  Requests,   \* the requests that book on them
  Total       \* the quota of each subscription, 0 for no limit

VARIABLES
  used,       \* what each subscription shows as used
  share,      \* what each request holds of each subscription in its current period
  exact       \* the subscriptions whose books are exact

vars == <<used, share, exact>>

Init ==
  /\ used = [s \in Subs |-> 0]
  /\ share = [r \in Requests |-> [s \in Subs |-> 0]]
  /\ exact \in SUBSET Subs

\* Request r books d on s, after the amounts in use were usedBefore and held.
Books(s, r, d, usedBefore, held) ==
  /\ held[r] + d >= 0
  /\ used'[s] = usedBefore + d
  /\ d > 0 /\ Total[s] > 0 => used'[s] <= Total[s]
  /\ \A q \in Requests : share'[q][s] = IF q = r THEN held[q] + d ELSE held[q]

Unchanged(s) == used'[s] = used[s] /\ \A q \in Requests : share'[q][s] = share[q][s]
Booked(s) == \E r \in Requests : Books(s, r, used'[s] - used[s], used[s], [q \in Requests |-> share[q][s]])
NewPeriod(s) == used'[s] = 0 /\ \A q \in Requests : share'[q][s] = 0
NewPeriodBooked(s) == \E r \in Requests : Books(s, r, used'[s], 0, [q \in Requests |-> 0])

Next ==
  /\ exact' \subseteq exact
  /\ \A s \in exact' : Unchanged(s) \/ Booked(s) \/ NewPeriod(s) \/ NewPeriodBooked(s)

Spec == Init /\ [][Next]_vars
=============================================================================
