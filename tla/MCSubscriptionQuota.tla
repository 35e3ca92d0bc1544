------------------------ MODULE MCSubscriptionQuota ------------------------
(* Two requests on two subscriptions, one with a limit, for TLC. *)
EXTENDS SubscriptionQuota
\* The limited one has a period that ends.
MCPeriods == [s \in Subs |-> IF s = 1 THEN 1 ELSE 0]
MCTotal == [s \in Subs |-> IF s = 1 THEN 1 ELSE 0]
=============================================================================
