--------------------------- MODULE BillingSession ---------------------------
(***************************************************************************)
(* The life of a relay request's BillingSession (service/billing_session.go*)
(* and service/funding_source.go), driven by the relay handler             *)
(* (controller/relay.go): pre-consume, reserve, settle, asynchronous       *)
(* refund, violation fee.  All requests share one user's wallet, one API   *)
(* token and one subscription.  Every call that reaches the database is a  *)
(* step of its own, so the steps of different requests, and of a request   *)
(* and its own refund goroutine, interleave.                               *)
(***************************************************************************)
EXTENDS Integers, FiniteSets

CONSTANTS
  Requests,        \* the request ids
  WalletQuota,     \* the user's quota at the start
  TokenQuota,      \* the token's remaining quota at the start
  TokenUnlimited,  \* relayInfo.TokenUnlimited
  SubTotal,        \* the subscription's AmountTotal, 0 for no limit
  SubUpgrades,     \* the subscription's plan has an upgrade_group
  TrustQuota,      \* common.GetTrustQuota()
  Fee,             \* the violation fee, 0 when it is switched off
  Estimates,       \* the quotas a request may ask to pre-consume
  Actuals,         \* the quotas a request may turn out to have used
  Targets,         \* the quotas Reserve may be asked for
  Preferences,     \* the billing preferences users have set
  Playgrounds,     \* the values of relayInfo.IsPlayground
  Forced,          \* the values of relayInfo.ForcePreConsume
  DBFaults,        \* TRUE when a database call may fail
  Crashes          \* TRUE when the process may die

AllPreferences ==
  {"subscription_only", "wallet_only", "wallet_first", "subscription_first"}

ASSUME QuotaAssumption ==
  /\ WalletQuota \in Int /\ TokenQuota \in Int
  /\ SubTotal \in Nat /\ TrustQuota \in Nat /\ Fee \in Nat
  /\ Estimates \subseteq Nat /\ Actuals \subseteq Nat /\ Targets \subseteq Nat

ASSUME FlagAssumption ==
  /\ TokenUnlimited \in BOOLEAN /\ SubUpgrades \in BOOLEAN
  /\ DBFaults \in BOOLEAN /\ Crashes \in BOOLEAN
  /\ Playgrounds \subseteq BOOLEAN /\ Forced \subseteq BOOLEAN
  /\ Preferences \subseteq AllPreferences

\* refundWithRetry's maxAttempts
MaxAttempts == 3

VARIABLES
  wallet, token, subUsed, subActive,  \* users.quota, tokens.remain_quota, user_subscriptions
  record,          \* the request's SubscriptionPreConsumeRecord
  pc,              \* where the handler of the request is
  bg,              \* where the refund goroutine of the request is
  req,             \* what relayInfo knows of the request
  source, fallback,                   \* the funding source being tried, the one to try next
  preConsumed, tokenConsumed, extraReserved, held,
  trusted, fundingSettled, settled, refunded,
  delta,           \* the difference Reserve or Settle is applying
  actual,          \* actualQuota of Settle
  attempts,        \* calls of RefundSubscriptionPreConsume made
  taken, tokTaken, \* history: net quota taken from the funding source and from the token
  feePaid,         \* history: the violation fee taken from the funding source
  fault            \* history: a database call of the request failed

store == <<wallet, token, subUsed, subActive, record>>
amounts == <<preConsumed, tokenConsumed, extraReserved, held>>
flags == <<trusted, fundingSettled, settled, refunded>>
plan == <<req, source, fallback>>
work == <<delta, actual, attempts>>
history == <<taken, tokTaken, feePaid, fault>>
vars == <<store, pc, bg, plan, amounts, flags, work, history>>

Sources == {"none", "wallet", "subscription"}

PreLabels == {"tryWallet", "trySubscription", "checkToken", "takeToken", "preFunding",
              "rollbackInsufficient", "rollbackError"}
RelayLabels == {"relaying", "sending", "reserveCheck", "reserveTake", "unreserve"}
EndLabels == {"settle", "settleToken", "fee", "feeToken"}
Labels == {"start"} \cup PreLabels \cup RelayLabels \cup EndLabels \cup {"done", "refused", "crashed"}
BgLabels == {"idle", "funding", "extra", "token", "done", "crashed"}

NoRequest == [quota |-> 0, playground |-> FALSE, forced |-> FALSE, tokenSeen |-> 0]

Init ==
  /\ wallet = WalletQuota /\ token = TokenQuota
  /\ subUsed = 0 /\ subActive \in BOOLEAN
  /\ record = [r \in Requests |-> "none"]
  /\ pc = [r \in Requests |-> "start"]
  /\ bg = [r \in Requests |-> "idle"]
  /\ req = [r \in Requests |-> NoRequest]
  /\ source = [r \in Requests |-> "none"]
  /\ fallback = [r \in Requests |-> "none"]
  /\ preConsumed = [r \in Requests |-> 0]
  /\ tokenConsumed = [r \in Requests |-> 0]
  /\ extraReserved = [r \in Requests |-> 0]
  /\ held = [r \in Requests |-> 0]
  /\ trusted = [r \in Requests |-> FALSE]
  /\ fundingSettled = [r \in Requests |-> FALSE]
  /\ settled = [r \in Requests |-> FALSE]
  /\ refunded = [r \in Requests |-> FALSE]
  /\ delta = [r \in Requests |-> 0]
  /\ actual = [r \in Requests |-> -1]
  /\ attempts = [r \in Requests |-> 0]
  /\ taken = [r \in Requests |-> 0]
  /\ tokTaken = [r \in Requests |-> 0]
  /\ feePaid = [r \in Requests |-> 0]
  /\ fault = [r \in Requests |-> FALSE]

-----------------------------------------------------------------------------
(* The calls into the model package.  A database transaction is one step: the *)
(* isolation is taken as serialisable, as that of SQLite.  The row locks the   *)
(* code asks for with gorm:query_option are ignored by gorm v2, so elsewhere   *)
(* this is an assumption.                                                      *)

Goto(r, label) == pc' = [pc EXCEPT ![r] = label]

\* A database call of r returns an error and has no effect.
Fails(r) == DBFaults /\ fault' = [fault EXCEPT ![r] = TRUE]

\* IncreaseTokenQuota and DecreaseTokenQuota: remain_quota moves by n, whatever it was.
MoveToken(r, n) ==
  /\ token' = token - n
  /\ tokTaken' = [tokTaken EXCEPT ![r] = @ + n]

\* Mutant: the clamp at 0 is missing.
NewUsedUnclamped(n) == subUsed + n

\* PostConsumeUserSubscriptionDelta clamps at 0 and refuses to pass AmountTotal.
NewUsed(n) == IF subUsed + n < 0 THEN 0 ELSE subUsed + n
\* Mutant: the limit is compared with the usage before the change.
WithinTotalBefore(n) == SubTotal > 0 => subUsed <= SubTotal

WithinTotal(n) == SubTotal > 0 => NewUsed(n) <= SubTotal

\* DecreaseUserQuota / IncreaseUserQuota, or PostConsumeUserSubscriptionDelta.
CanMoveFunding(r, n) == source[r] = "subscription" => WithinTotal(n)
MoveFunding(r, n) ==
  /\ wallet' = IF source[r] = "subscription" THEN wallet ELSE wallet - n
  /\ subUsed' = IF source[r] = "subscription" THEN NewUsed(n) ELSE subUsed
  /\ taken' = [taken EXCEPT ![r] = @ + n]

\* Mutant: IsPlayground is not looked at.
TokenTouchedAlways(r) == TRUE

TokenTouched(r) == ~req[r].playground

-----------------------------------------------------------------------------
(* NewBillingSession and preConsume. *)

\* resolveGroupBoundBillingPreference
EffectivePreference(pref, usesSubscriptionGroup) ==
  IF subActive /\ SubUpgrades
  THEN IF usesSubscriptionGroup THEN "subscription_only" ELSE "wallet_only"
  ELSE pref

\* The switch over the preference: the source to try, the one to fall back to.
FirstSource(pref) ==
  IF pref = "subscription_only" \/ (pref = "subscription_first" /\ subActive)
  THEN "subscription" ELSE "wallet"
Fallback(pref) ==
  CASE pref = "wallet_first" -> "subscription"
    [] pref = "subscription_first" /\ subActive -> "wallet"
    [] OTHER -> "none"

TryLabel(src) == IF src = "wallet" THEN "tryWallet" ELSE "trySubscription"

\* A relay request reaches PreConsumeBilling with a price estimate.
Begin(r) ==
  /\ pc[r] = "start"
  /\ \E q \in Estimates, p \in Playgrounds, f \in Forced, w \in Preferences, g \in BOOLEAN :
       LET pref == EffectivePreference(w, g) IN
       /\ req' = [req EXCEPT ![r] = [quota |-> q, playground |-> p, forced |-> f, tokenSeen |-> token]]
       /\ source' = [source EXCEPT ![r] = FirstSource(pref)]
       /\ fallback' = [fallback EXCEPT ![r] = Fallback(pref)]
       /\ Goto(r, TryLabel(FirstSource(pref)))
  /\ UNCHANGED <<store, bg, amounts, flags, work, history>>

\* Try the fallback source after ErrorCodeInsufficientUserQuota; else give up.
FallBack(r) ==
  /\ source' = [source EXCEPT ![r] = IF fallback[r] = "none" THEN @ ELSE fallback[r]]
  /\ fallback' = [fallback EXCEPT ![r] = "none"]
  /\ Goto(r, IF fallback[r] = "none" THEN "refused" ELSE TryLabel(fallback[r]))

\* shouldTrust, for the wallet: the only source that may be trusted.
ShouldTrust(r) ==
  /\ ~req[r].forced
  /\ TrustQuota > 0
  /\ TokenUnlimited \/ req[r].tokenSeen > TrustQuota
  /\ wallet > TrustQuota

WalletSufficient(r) == wallet > 0 /\ wallet >= req[r].quota

\* tryWallet: read the user's quota, compare, open a wallet session.
TryWallet(r) ==
  /\ pc[r] = "tryWallet"
  /\ WalletSufficient(r)
  /\ LET effective == IF ShouldTrust(r) THEN 0 ELSE req[r].quota IN
       /\ trusted' = [trusted EXCEPT ![r] = ShouldTrust(r)]
       /\ delta' = [delta EXCEPT ![r] = effective]
       /\ Goto(r, IF effective > 0 THEN "checkToken" ELSE "preFunding")
  /\ UNCHANGED <<store, bg, plan, amounts, fundingSettled, settled, refunded, actual, attempts, history>>

WalletRefuses(r) ==
  /\ pc[r] = "tryWallet"
  /\ ~WalletSufficient(r)
  /\ FallBack(r)
  /\ UNCHANGED <<store, bg, req, amounts, flags, work, history>>

WalletUnreadable(r) ==
  /\ pc[r] = "tryWallet"
  /\ Fails(r)
  /\ Goto(r, "refused")
  /\ UNCHANGED <<store, bg, plan, amounts, flags, work, taken, tokTaken, feePaid>>

\* trySubscription: a subscription session always pre-consumes at least 1.
TrySubscription(r) ==
  /\ pc[r] = "trySubscription"
  /\ delta' = [delta EXCEPT ![r] = IF req[r].quota > 0 THEN req[r].quota ELSE 1]
  /\ Goto(r, "checkToken")
  /\ UNCHANGED <<store, bg, plan, amounts, flags, actual, attempts, history>>

\* PreConsumeTokenQuota, called by preConsume and by reserveToken: it reads the
\* token and compares, and only then subtracts.
TokenCheck(r, at, enough, short) ==
  /\ pc[r] = at
  /\ \/ /\ TokenTouched(r)
        /\ TokenUnlimited \/ token >= delta[r]
        /\ Goto(r, enough)
        /\ UNCHANGED fault
     \/ /\ TokenTouched(r)
        /\ ~TokenUnlimited /\ token < delta[r]
        /\ Goto(r, short)
        /\ UNCHANGED fault
     \/ /\ TokenTouched(r)
        /\ Fails(r)
        /\ Goto(r, short)
  /\ UNCHANGED <<store, bg, plan, amounts, flags, work, taken, tokTaken, feePaid>>

CheckToken(r) == TokenCheck(r, "checkToken", "takeToken", "refused")

\* A playground request has no token to charge, but counts as if it had.
TakeToken(r) ==
  /\ \/ pc[r] = "checkToken" /\ ~TokenTouched(r) /\ UNCHANGED <<token, tokTaken>>
     \/ pc[r] = "takeToken" /\ MoveToken(r, delta[r])
  /\ tokenConsumed' = [tokenConsumed EXCEPT ![r] = delta[r]]
  /\ Goto(r, "preFunding")
  /\ UNCHANGED <<wallet, subUsed, subActive, record, bg, plan, preConsumed, extraReserved, held,
                 flags, work, taken, feePaid, fault>>

TakeTokenFails(r) ==
  /\ pc[r] = "takeToken"
  /\ Fails(r)
  /\ Goto(r, "refused")
  /\ UNCHANGED <<store, bg, plan, amounts, flags, work, taken, tokTaken, feePaid>>

\* PreConsumeUserSubscription finds an active subscription with enough left.
SubscriptionSufficient(r) == subActive /\ (SubTotal > 0 => SubTotal - subUsed >= delta[r])

\* funding.PreConsume and the end of preConsume.
PreConsumeFunding(r) ==
  /\ pc[r] = "preFunding"
  /\ source[r] = "subscription" => SubscriptionSufficient(r)
  /\ MoveFunding(r, delta[r])
  /\ held' = [held EXCEPT ![r] = delta[r]]
  /\ record' = [record EXCEPT ![r] = IF source[r] = "subscription" THEN "consumed" ELSE @]
  /\ preConsumed' = [preConsumed EXCEPT ![r] = delta[r]]
  /\ Goto(r, "relaying")
  /\ UNCHANGED <<token, subActive, bg, plan, tokenConsumed, extraReserved, flags, work,
                 tokTaken, feePaid, fault>>

FundingInsufficient(r) ==
  /\ pc[r] = "preFunding"
  /\ source[r] = "subscription" /\ ~SubscriptionSufficient(r)
  /\ Goto(r, "rollbackInsufficient")
  /\ UNCHANGED <<store, bg, plan, amounts, flags, work, history>>

\* A subscription query that fails is reported as "no active subscription".
FundingFails(r) ==
  /\ pc[r] = "preFunding"
  /\ source[r] = "subscription" \/ delta[r] > 0
  /\ Fails(r)
  /\ \/ Goto(r, "rollbackError")
     \/ source[r] = "subscription" /\ Goto(r, "rollbackInsufficient")
  /\ UNCHANGED <<store, bg, plan, amounts, flags, work, taken, tokTaken, feePaid>>

\* The roll-back of the token in preConsume, then the error or the fallback.
RollbackToken(r) ==
  /\ pc[r] \in {"rollbackInsufficient", "rollbackError"}
  /\ \/ /\ tokenConsumed[r] > 0 /\ TokenTouched(r)
        /\ \/ MoveToken(r, -tokenConsumed[r]) /\ UNCHANGED fault
           \/ Fails(r) /\ UNCHANGED <<token, tokTaken>>
     \/ /\ ~(tokenConsumed[r] > 0 /\ TokenTouched(r))
        /\ UNCHANGED <<token, tokTaken, fault>>
  /\ tokenConsumed' = [tokenConsumed EXCEPT ![r] = 0]
  /\ IF pc[r] = "rollbackInsufficient" THEN FallBack(r)
     ELSE Goto(r, "refused") /\ UNCHANGED <<source, fallback>>
  /\ UNCHANGED <<wallet, subUsed, subActive, record, bg, req, preConsumed, extraReserved, held,
                 flags, work, taken, feePaid>>

-----------------------------------------------------------------------------
(* Reserve: raise what is pre-consumed to a target before the request is sent. *)

\* When the funding source refuses, Reserve returns the error and changes nothing.
ReserveFunding(r) ==
  /\ pc[r] = "relaying"
  /\ ~settled[r] /\ ~refunded[r] /\ ~trusted[r]
  /\ \E target \in Targets :
       /\ target > preConsumed[r]
       /\ CanMoveFunding(r, target - preConsumed[r])
       /\ MoveFunding(r, target - preConsumed[r])
       /\ delta' = [delta EXCEPT ![r] = target - preConsumed[r]]
       /\ held' = [held EXCEPT ![r] = IF source[r] = "wallet" THEN @ + (target - preConsumed[r]) ELSE @]
  /\ Goto(r, "reserveCheck")
  /\ UNCHANGED <<token, subActive, record, bg, plan, preConsumed, tokenConsumed, extraReserved,
                 flags, actual, attempts, tokTaken, feePaid, fault>>

ReserveCheck(r) == TokenCheck(r, "reserveCheck", "reserveTake", "unreserve")

ReserveToken(r) ==
  /\ \/ pc[r] = "reserveCheck" /\ ~TokenTouched(r) /\ UNCHANGED <<token, tokTaken>>
     \/ pc[r] = "reserveTake" /\ MoveToken(r, delta[r])
  /\ preConsumed' = [preConsumed EXCEPT ![r] = @ + delta[r]]
  /\ tokenConsumed' = [tokenConsumed EXCEPT ![r] = @ + delta[r]]
  /\ extraReserved' = [extraReserved EXCEPT ![r] = @ + delta[r]]
  /\ Goto(r, "relaying")
  /\ UNCHANGED <<wallet, subUsed, subActive, record, bg, plan, held, flags, work,
                 taken, feePaid, fault>>

ReserveTokenFails(r) ==
  /\ pc[r] = "reserveTake"
  /\ Fails(r)
  /\ Goto(r, "unreserve")
  /\ UNCHANGED <<store, bg, plan, amounts, flags, work, taken, tokTaken, feePaid>>

\* rollbackFundingReserve; a wallet that could not be credited stays in "consumed".
\* Bound: after a Reserve that failed the handler does not call it again.
RollbackFundingReserve(r) ==
  /\ pc[r] = "unreserve"
  /\ \/ /\ MoveFunding(r, -delta[r])
        /\ held' = [held EXCEPT ![r] = IF source[r] = "wallet" THEN @ - delta[r] ELSE @]
        /\ UNCHANGED fault
     \/ Fails(r) /\ UNCHANGED <<wallet, subUsed, taken, held>>
  /\ Goto(r, "sending")
  /\ UNCHANGED <<token, subActive, record, bg, plan, preConsumed, tokenConsumed, extraReserved,
                 flags, work, tokTaken, feePaid>>

-----------------------------------------------------------------------------
(* The relay succeeds: SettleBilling and Settle. *)

RelaySucceeds(r) ==
  /\ pc[r] \in {"relaying", "sending"}
  /\ \E a \in Actuals :
       /\ actual' = [actual EXCEPT ![r] = a]
       /\ delta' = [delta EXCEPT ![r] = a - preConsumed[r]]
  /\ Goto(r, "settle")
  /\ UNCHANGED <<store, bg, plan, amounts, flags, attempts, history>>

\* A delta of 0 settles without touching anything.
SettleNothing(r) ==
  /\ pc[r] = "settle"
  /\ settled[r] \/ delta[r] = 0
  /\ settled' = [settled EXCEPT ![r] = TRUE]
  /\ Goto(r, "done")
  /\ UNCHANGED <<store, bg, plan, amounts, trusted, fundingSettled, refunded, work, history>>

SettleFunding(r) ==
  /\ pc[r] = "settle"
  /\ ~settled[r] /\ ~fundingSettled[r] /\ delta[r] # 0
  /\ CanMoveFunding(r, delta[r])
  /\ MoveFunding(r, delta[r])
  /\ fundingSettled' = [fundingSettled EXCEPT ![r] = TRUE]
  /\ Goto(r, "settleToken")
  /\ UNCHANGED <<token, subActive, record, bg, plan, amounts, trusted, settled, refunded, work,
                 tokTaken, feePaid, fault>>

\* The error is logged by the caller and the session stays as it was.
SettleFundingFails(r) ==
  /\ pc[r] = "settle"
  /\ ~settled[r] /\ delta[r] # 0
  /\ \/ ~CanMoveFunding(r, delta[r]) /\ UNCHANGED fault
     \/ Fails(r)
  /\ Goto(r, "done")
  /\ UNCHANGED <<store, bg, plan, amounts, flags, work, taken, tokTaken, feePaid>>

\* A token that cannot be adjusted is only logged.
SettleToken(r) ==
  /\ pc[r] = "settleToken"
  /\ \/ TokenTouched(r) /\ MoveToken(r, delta[r]) /\ UNCHANGED fault
     \/ TokenTouched(r) /\ Fails(r) /\ UNCHANGED <<token, tokTaken>>
     \/ ~TokenTouched(r) /\ UNCHANGED <<token, tokTaken, fault>>
  /\ settled' = [settled EXCEPT ![r] = TRUE]
  /\ Goto(r, "done")
  /\ UNCHANGED <<wallet, subUsed, subActive, record, bg, plan, amounts, trusted, fundingSettled,
                 refunded, work, taken, feePaid>>

-----------------------------------------------------------------------------
(* The relay fails: Refund, its goroutine, and the violation fee. *)

\* Mutant: only the subscription's hold is looked at.
NeedsRefundSubscription(r) ==
  /\ ~settled[r] /\ ~refunded[r] /\ ~fundingSettled[r]
  /\ source[r] = "subscription" /\ held[r] > 0

NeedsRefund(r) ==
  /\ ~settled[r] /\ ~refunded[r] /\ ~fundingSettled[r]
  /\ tokenConsumed[r] > 0 \/ (source[r] = "subscription" /\ held[r] > 0)

\* The deferred function of Relay: Refund marks the session and starts a goroutine.
RelayFails(r) ==
  /\ pc[r] \in {"relaying", "sending"}
  /\ refunded' = [refunded EXCEPT ![r] = @ \/ NeedsRefund(r)]
  /\ bg' = [bg EXCEPT ![r] = IF NeedsRefund(r) THEN "funding" ELSE @]
  /\ Goto(r, "fee")
  /\ UNCHANGED <<store, plan, amounts, trusted, fundingSettled, settled, work, history>>

\* ChargeViolationFeeIfNeeded -> PostConsumeQuota, while the goroutine may run.
ChargeFee(r) ==
  /\ pc[r] = "fee"
  /\ Fee > 0
  /\ CanMoveFunding(r, Fee)
  /\ MoveFunding(r, Fee)
  /\ feePaid' = [feePaid EXCEPT ![r] = Fee]
  /\ Goto(r, "feeToken")
  /\ UNCHANGED <<token, subActive, record, bg, plan, amounts, flags, work, tokTaken, fault>>

\* No violation, no fee configured, or the funding source did not pay it.
NoFee(r) ==
  /\ pc[r] = "fee"
  /\ Goto(r, "done")
  /\ UNCHANGED <<store, bg, plan, amounts, flags, work, history>>

ChargeFeeToken(r) ==
  /\ pc[r] = "feeToken"
  /\ \/ TokenTouched(r) /\ MoveToken(r, Fee) /\ UNCHANGED fault
     \/ TokenTouched(r) /\ Fails(r) /\ UNCHANGED <<token, tokTaken>>
     \/ ~TokenTouched(r) /\ UNCHANGED <<token, tokTaken, fault>>
  /\ Goto(r, "done")
  /\ UNCHANGED <<wallet, subUsed, subActive, record, bg, plan, amounts, flags, work, taken, feePaid>>

Bg(r, label) == bg' = [bg EXCEPT ![r] = label]

\* WalletFunding.Refund: one non-idempotent credit, never retried.
RefundWallet(r) ==
  /\ bg[r] = "funding"
  /\ source[r] = "wallet"
  /\ \/ MoveFunding(r, -held[r]) /\ UNCHANGED fault
     \/ held[r] > 0 /\ Fails(r) /\ UNCHANGED <<wallet, subUsed, taken>>
  /\ Bg(r, "extra")
  /\ UNCHANGED <<token, subActive, record, pc, plan, amounts, flags, work, tokTaken, feePaid>>

\* Mutant: everything pre-consumed is given back, the reserve included.
RefundSubscriptionAll(r) ==
  /\ bg[r] = "funding"
  /\ source[r] = "subscription"
  /\ IF record[r] = "consumed"
     THEN MoveFunding(r, -preConsumed[r]) /\ record' = [record EXCEPT ![r] = "refunded"]
     ELSE UNCHANGED <<wallet, subUsed, taken, record>>
  /\ Bg(r, "extra")
  /\ UNCHANGED <<token, subActive, pc, plan, amounts, flags, work, tokTaken, feePaid, fault>>

\* One call of RefundSubscriptionPreConsume that commits.
RefundSubscription(r) ==
  /\ bg[r] = "funding"
  /\ source[r] = "subscription"
  /\ IF record[r] = "consumed"
     THEN MoveFunding(r, -held[r]) /\ record' = [record EXCEPT ![r] = "refunded"]
     ELSE UNCHANGED <<wallet, subUsed, taken, record>>
  /\ Bg(r, "extra")
  /\ UNCHANGED <<token, subActive, pc, plan, amounts, flags, work, tokTaken, feePaid, fault>>

\* Mutant: a failed call is retried without end, the attempts counted in rounds.
RefundSubscriptionRetries(r) ==
  /\ bg[r] = "funding"
  /\ source[r] = "subscription"
  /\ Fails(r)
  /\ attempts' = [attempts EXCEPT ![r] = (@ + 1) % MaxAttempts]
  /\ UNCHANGED <<bg, wallet, subUsed, taken, token, subActive, record, pc, plan, amounts, flags, delta, actual, tokTaken, feePaid>>

\* One that fails.  The usage is given back in a transaction of its own, on DB and
\* not on tx, so the record's update may fail after that transaction has committed.
RefundSubscriptionFails(r) ==
  /\ bg[r] = "funding"
  /\ source[r] = "subscription"
  /\ Fails(r)
  /\ \/ UNCHANGED <<wallet, subUsed, taken>>
     \/ record[r] = "consumed" /\ MoveFunding(r, -held[r])
  /\ attempts' = [attempts EXCEPT ![r] = @ + 1]
  /\ Bg(r, IF attempts[r] + 1 < MaxAttempts THEN "funding" ELSE "extra")
  /\ UNCHANGED <<token, subActive, record, pc, plan, amounts, flags, delta, actual, tokTaken, feePaid>>

\* Mutant: the reserve of a wallet session is given back again.
RefundExtraAnySource(r) ==
  /\ bg[r] = "extra"
  /\ IF extraReserved[r] > 0
     THEN MoveFunding(r, -extraReserved[r]) /\ UNCHANGED fault
     ELSE UNCHANGED <<wallet, subUsed, taken, fault>>
  /\ Bg(r, "token")
  /\ UNCHANGED <<token, subActive, record, pc, plan, amounts, flags, work, tokTaken, feePaid>>

\* What Reserve added to a subscription is not in the record and is given back apart.
RefundExtra(r) ==
  /\ bg[r] = "extra"
  /\ IF extraReserved[r] > 0 /\ source[r] = "subscription"
     THEN \/ MoveFunding(r, -extraReserved[r]) /\ UNCHANGED fault
          \/ Fails(r) /\ UNCHANGED <<wallet, subUsed, taken>>
     ELSE UNCHANGED <<wallet, subUsed, taken, fault>>
  /\ Bg(r, "token")
  /\ UNCHANGED <<token, subActive, record, pc, plan, amounts, flags, work, tokTaken, feePaid>>

RefundToken(r) ==
  /\ bg[r] = "token"
  /\ IF tokenConsumed[r] > 0 /\ TokenTouched(r)
     THEN \/ MoveToken(r, -tokenConsumed[r]) /\ UNCHANGED fault
          \/ Fails(r) /\ UNCHANGED <<token, tokTaken>>
     ELSE UNCHANGED <<token, tokTaken, fault>>
  /\ Bg(r, "done")
  /\ UNCHANGED <<wallet, subUsed, subActive, record, pc, plan, amounts, flags, work, taken, feePaid>>

-----------------------------------------------------------------------------
(* The environment. *)

\* ExpireDueSubscriptions
ExpireSubscription ==
  /\ subActive
  /\ subActive' = FALSE
  /\ UNCHANGED <<wallet, token, subUsed, record, pc, bg, plan, amounts, flags, work, history>>

HandlerOver(r) == pc[r] \in {"done", "refused", "crashed"}
RefundOver(r) == bg[r] \in {"idle", "done", "crashed"}
Over(r) == HandlerOver(r) /\ RefundOver(r)

\* The process dies: sessions live in memory only, so unfinished ones are gone.
Crash ==
  /\ Crashes
  /\ \E r \in Requests : pc[r] # "start" /\ ~Over(r)
  /\ pc' = [r \in Requests |-> IF pc[r] = "start" \/ HandlerOver(r) THEN pc[r] ELSE "crashed"]
  /\ bg' = [r \in Requests |-> IF RefundOver(r) THEN bg[r] ELSE "crashed"]
  /\ UNCHANGED <<store, plan, amounts, flags, work, history>>

PreConsume(r) ==
  \/ TryWallet(r) \/ WalletRefuses(r) \/ WalletUnreadable(r) \/ TrySubscription(r)
  \/ CheckToken(r) \/ TakeToken(r) \/ TakeTokenFails(r)
  \/ PreConsumeFunding(r) \/ FundingInsufficient(r) \/ FundingFails(r) \/ RollbackToken(r)
Reserve(r) ==
  \/ ReserveFunding(r) \/ ReserveCheck(r) \/ ReserveToken(r) \/ ReserveTokenFails(r)
  \/ RollbackFundingReserve(r)
Settle(r) ==
  \/ SettleNothing(r) \/ SettleFunding(r) \/ SettleFundingFails(r) \/ SettleToken(r)
Penalty(r) == ChargeFee(r) \/ NoFee(r) \/ ChargeFeeToken(r)
Refund(r) ==
  \/ RefundWallet(r) \/ RefundSubscription(r) \/ RefundSubscriptionFails(r)
  \/ RefundExtra(r) \/ RefundToken(r)

Handler(r) ==
  \/ PreConsume(r) \/ Reserve(r) \/ RelaySucceeds(r) \/ RelayFails(r) \/ Settle(r) \/ Penalty(r)

AllOver == (\A r \in Requests : Over(r)) /\ UNCHANGED vars

Next ==
  \/ \E r \in Requests : Begin(r) \/ Handler(r) \/ Refund(r)
  \/ ExpireSubscription
  \/ Crash
  \/ AllOver

Spec == Init /\ [][Next]_vars

AwaitingUpstream(r) == pc[r] \in {"relaying", "sending"}

\* Handlers and refund goroutines are scheduled until they end.  Nothing is assumed of
\* the provider a handler waits for: RELAY_TIMEOUT is 0, no timeout, by default.
Fairness ==
  \A r \in Requests :
    WF_vars(Handler(r) /\ ~AwaitingUpstream(r)) /\ WF_vars(Refund(r))

FairSpec == Spec /\ Fairness

-----------------------------------------------------------------------------
(* Properties. *)

\* Every variable keeps its type: quotas are integers that may be overdrawn, what a
\* session holds and what a subscription has used are never negative.
TypeOK ==
  /\ wallet \in Int /\ token \in Int /\ subUsed \in Nat /\ subActive \in BOOLEAN
  /\ record \in [Requests -> {"none", "consumed", "refunded"}]
  /\ pc \in [Requests -> Labels]
  /\ bg \in [Requests -> BgLabels]
  /\ req \in [Requests -> [quota : Nat, playground : BOOLEAN, forced : BOOLEAN, tokenSeen : Int]]
  /\ source \in [Requests -> Sources]
  /\ fallback \in [Requests -> Sources]
  /\ preConsumed \in [Requests -> Nat]
  /\ tokenConsumed \in [Requests -> Nat]
  /\ extraReserved \in [Requests -> Nat]
  /\ held \in [Requests -> Nat]
  /\ trusted \in [Requests -> BOOLEAN]
  /\ fundingSettled \in [Requests -> BOOLEAN]
  /\ settled \in [Requests -> BOOLEAN]
  /\ refunded \in [Requests -> BOOLEAN]
  /\ delta \in [Requests -> Int]
  /\ actual \in [Requests -> Int]
  /\ attempts \in [Requests -> 0..MaxAttempts]
  /\ taken \in [Requests -> Int]
  /\ tokTaken \in [Requests -> Int]
  /\ feePaid \in [Requests -> Nat]
  /\ fault \in [Requests -> BOOLEAN]

\* What the type of the amounts rests on: the difference in flight is not negative,
\* a wallet reserve is part of the hold it rolls back, retries are counted.
StepInv ==
  \A r \in Requests :
    /\ pc[r] \in {"checkToken", "takeToken", "preFunding"} => delta[r] >= 0
    /\ pc[r] \in {"reserveCheck", "reserveTake", "unreserve"} =>
         delta[r] > 0 /\ (source[r] = "wallet" => held[r] >= delta[r])
    /\ pc[r] \notin {"fee", "feeToken", "done", "crashed"} => bg[r] = "idle"
    /\ bg[r] = "idle" => attempts[r] = 0
    /\ bg[r] = "funding" => attempts[r] < MaxAttempts

Succeeded(r) == actual[r] >= 0

\* What the handler owes when it is over: a refused request nothing, a failed one its
\* violation fee, a successful one what it used, or, when its settlement was refused,
\* what it had pre-consumed.
Owed(r) ==
  IF Succeeded(r) THEN (IF settled[r] THEN actual[r] ELSE preConsumed[r]) ELSE feePaid[r]

\* When a request and its refund goroutine are over and no database call failed, the
\* funding source has paid exactly what the request owes: Settle, Refund, Reserve and
\* their roll-backs never charge twice and never forget a hold.
ExactCharge ==
  \A r \in Requests :
    pc[r] \in {"done", "refused"} /\ RefundOver(r) /\ bg[r] # "crashed" /\ ~fault[r]
      => taken[r] = Owed(r)

\* The token is charged like the funding source, although the two are adjusted by
\* separate calls in both orders (a playground request has no token).
LedgersAgree ==
  \A r \in Requests :
    pc[r] \in {"done", "refused"} /\ RefundOver(r) /\ bg[r] # "crashed" /\ ~fault[r]
      => tokTaken[r] = IF req[r].playground THEN 0 ELSE taken[r]

\* The part of a charge that falls on the token.
OnToken(r, n) == IF req[r].playground THEN 0 ELSE n

\* What a request has been charged at each point of its handler, as long as no
\* database call of it has failed.
BeforeHold(r) ==
  /\ bg[r] = "idle" /\ taken[r] = 0 /\ feePaid[r] = 0 /\ actual[r] = -1
  /\ preConsumed[r] = 0 /\ extraReserved[r] = 0 /\ held[r] = 0
  /\ ~fundingSettled[r] /\ ~settled[r] /\ ~refunded[r]
  /\ pc[r] \in {"preFunding", "rollbackInsufficient", "rollbackError"} =>
       tokenConsumed[r] = delta[r] /\ tokTaken[r] = OnToken(r, delta[r])
  /\ pc[r] \notin {"preFunding", "rollbackInsufficient", "rollbackError"} =>
       tokenConsumed[r] = 0 /\ tokTaken[r] = 0
  /\ pc[r] \in {"checkToken", "takeToken", "preFunding", "rollbackInsufficient", "rollbackError"} =>
       delta[r] >= 0
  /\ pc[r] = "takeToken" => ~req[r].playground
  /\ pc[r] # "start" => source[r] \in {"wallet", "subscription"}

\* The session's own account of its hold.
HoldBooked(r) ==
  /\ source[r] \in {"wallet", "subscription"}
  /\ tokenConsumed[r] = preConsumed[r]
  /\ source[r] = "subscription" => held[r] + extraReserved[r] = preConsumed[r] /\ record[r] = "consumed"

Reserving(r) == pc[r] \in {"reserveCheck", "reserveTake", "unreserve"}

WhileRelaying(r) ==
  /\ bg[r] = "idle" /\ feePaid[r] = 0 /\ actual[r] = -1
  /\ ~fundingSettled[r] /\ ~settled[r] /\ ~refunded[r]
  /\ HoldBooked(r)
  /\ taken[r] = preConsumed[r] + (IF Reserving(r) THEN delta[r] ELSE 0)
  /\ source[r] = "wallet" => held[r] = taken[r]
  /\ tokTaken[r] = OnToken(r, preConsumed[r])
  /\ Reserving(r) => delta[r] > 0
  /\ pc[r] = "reserveTake" => ~req[r].playground

WhileSettling(r) ==
  /\ bg[r] = "idle" /\ feePaid[r] = 0 /\ actual[r] >= 0
  /\ ~settled[r] /\ ~refunded[r]
  /\ delta[r] = actual[r] - preConsumed[r]
  /\ taken[r] = IF pc[r] = "settleToken" THEN actual[r] ELSE preConsumed[r]
  /\ tokTaken[r] = OnToken(r, preConsumed[r])

AfterSuccess(r) ==
  /\ bg[r] = "idle" /\ actual[r] >= 0
  /\ taken[r] = Owed(r)
  /\ tokTaken[r] = OnToken(r, taken[r])

\* The refund goroutine and the violation fee move the same two accounts.
AfterFailure(r) ==
  /\ actual[r] = -1
  /\ bg[r] = "funding" =>
       /\ HoldBooked(r)
       /\ source[r] = "wallet" => held[r] = preConsumed[r]
       /\ taken[r] = preConsumed[r] + feePaid[r]
  /\ bg[r] = "extra" => taken[r] = feePaid[r] + (IF source[r] = "subscription" THEN extraReserved[r] ELSE 0)
  /\ bg[r] \in {"idle", "token", "done"} => taken[r] = feePaid[r]
  /\ bg[r] \in {"extra", "token"} => tokenConsumed[r] = preConsumed[r]
  /\ pc[r] = "fee" => feePaid[r] = 0
  /\ pc[r] = "feeToken" => feePaid[r] = Fee
  /\ tokTaken[r] = OnToken(r, (IF bg[r] \in {"funding", "extra", "token"} THEN preConsumed[r] ELSE 0)
                              + (IF pc[r] = "feeToken" THEN 0 ELSE feePaid[r]))

LedgerAt(r) ==
  ~fault[r] /\ pc[r] # "crashed" /\ bg[r] # "crashed" =>
    /\ pc[r] \in {"start", "refused"} \cup PreLabels => BeforeHold(r)
    /\ pc[r] \in RelayLabels => WhileRelaying(r)
    /\ pc[r] \in {"settle", "settleToken"} => WhileSettling(r)
    /\ pc[r] = "done" /\ Succeeded(r) => AfterSuccess(r)
    /\ pc[r] \in {"fee", "feeToken"} \/ (pc[r] = "done" /\ ~Succeeded(r)) => AfterFailure(r)

\* The inductive form of ExactCharge and LedgersAgree: at every step of every handler
\* both ledgers hold exactly what the session believes they hold.
LedgerInv == \A r \in Requests : LedgerAt(r)

\* Whatever database calls fail and whenever the process dies, no request leaves the
\* wallet or the token with more than it found: a non-idempotent credit is never
\* made twice nor made for a debit that did not happen.
NoProfit ==
  \A r \in Requests : (source[r] # "subscription" => taken[r] >= 0) /\ tokTaken[r] >= 0

\* The comment on RefundSubscriptionPreConsume: the refund is idempotent, so retrying
\* it gives a subscription back what was taken at most once.
RefundIdempotent ==
  \A r \in Requests : source[r] = "subscription" => taken[r] >= 0

\* A subscription with a limit is never used beyond it, by any mixture of
\* pre-consumes, reserves, settlements and fees of concurrent requests.
SubscriptionWithinTotal == SubTotal > 0 => subUsed <= SubTotal

\* What a request holds of the subscription or was charged, and the single units of quota
\* that several requests hold: counting them adds the amounts up.
OnSubscription(r) == IF source[r] = "subscription" THEN taken[r] ELSE 0
Units(amount) == UNION {{r} \X (1..amount[r]) : r \in Requests}

\* While no database call fails, the subscription's used amount is exactly the sum of
\* what its requests hold or were charged: the clamp at 0 in
\* PostConsumeUserSubscriptionDelta never hides a refund that has no debit.
SubscriptionLedger ==
  (\A r \in Requests : ~fault[r]) => subUsed = Cardinality(Units([r \in Requests |-> OnSubscription(r)]))

\* A request in billing comes to wait for its provider or is over, and once the provider
\* has answered its settlement, or its fee and its refund goroutine with its retries, end.
EventuallyOver ==
  \A r \in Requests :
    pc[r] # "start" /\ ~AwaitingUpstream(r) ~> Over(r) \/ AwaitingUpstream(r)
=============================================================================
