------------------------ MODULE BillingSessionProofs ------------------------
(***************************************************************************)
(* Proofs about BillingSession: the type invariant and, from it, that every*)
(* handler and refund goroutine keeps both ledgers exact.                  *)
(***************************************************************************)
EXTENDS BillingSession, FiniteSetTheorems, TLAPS

USE DEF store, amounts, flags, plan, work, history

\* A step of a handler or of a refund goroutine keeps every variable in its type.
LEMMA TypeOKStep ==
  ASSUME TypeOK, StepInv, NEW r \in Requests, Begin(r) \/ Handler(r) \/ Refund(r)
  PROVE  TypeOK'
<1> USE QuotaAssumption, FlagAssumption
    DEF TypeOK, StepInv, Labels, PreLabels, RelayLabels, EndLabels, BgLabels, Sources, MaxAttempts
<1>1. CASE Begin(r)
  <2> PICK q \in Estimates, p \in Playgrounds, f \in Forced, w \in Preferences, g \in BOOLEAN :
         /\ req' = [req EXCEPT ![r] = [quota |-> q, playground |-> p, forced |-> f, tokenSeen |-> token]]
         /\ source' = [source EXCEPT ![r] = FirstSource(EffectivePreference(w, g))]
         /\ fallback' = [fallback EXCEPT ![r] = Fallback(EffectivePreference(w, g))]
         /\ Goto(r, TryLabel(FirstSource(EffectivePreference(w, g))))
    BY <1>1 DEF Begin
  <2> QED BY <1>1 DEF Begin, Goto, TryLabel, FirstSource, Fallback
<1>2. CASE TryWallet(r)
  BY <1>2 DEF TryWallet, Goto, ShouldTrust
<1>3. CASE WalletRefuses(r)
  BY <1>3 DEF WalletRefuses, FallBack, Goto, TryLabel
<1>4. CASE WalletUnreadable(r)
  BY <1>4 DEF WalletUnreadable, Goto, Fails
<1>5. CASE TrySubscription(r)
  BY <1>5 DEF TrySubscription, Goto
<1>6. CASE CheckToken(r)
  <2>1. CASE UNCHANGED fault
    BY <1>6, <2>1 DEF CheckToken, TokenCheck, Goto
  <2>2. CASE Fails(r)
    BY <1>6, <2>2 DEF CheckToken, TokenCheck, Goto, Fails
  <2> QED BY <1>6, <2>1, <2>2 DEF CheckToken, TokenCheck
<1>7. CASE TakeToken(r)
  BY <1>7 DEF TakeToken, Goto, MoveToken
<1>8. CASE TakeTokenFails(r)
  BY <1>8 DEF TakeTokenFails, Goto, Fails
<1>9. CASE PreConsumeFunding(r)
  BY <1>9 DEF PreConsumeFunding, Goto, MoveFunding, NewUsed
<1>10. CASE FundingInsufficient(r)
  BY <1>10 DEF FundingInsufficient, Goto
<1>11. CASE FundingFails(r)
  BY <1>11 DEF FundingFails, Goto, Fails
<1>12. CASE RollbackToken(r)
  <2>1. token' \in Int /\ tokTaken' \in [Requests -> Int] /\ fault' \in [Requests -> BOOLEAN]
    <3>1. CASE MoveToken(r, -tokenConsumed[r]) /\ UNCHANGED fault
      BY <3>1 DEF MoveToken
    <3>2. CASE UNCHANGED <<token, tokTaken>> /\ (Fails(r) \/ UNCHANGED fault)
      BY <3>2 DEF Fails
    <3> QED BY <1>12, <3>1, <3>2 DEF RollbackToken
  <2>2. CASE FallBack(r)
    BY <1>12, <2>1, <2>2 DEF RollbackToken, FallBack, Goto, TryLabel
  <2>3. CASE Goto(r, "refused") /\ UNCHANGED <<source, fallback>>
    BY <1>12, <2>1, <2>3 DEF RollbackToken, Goto
  <2> QED BY <1>12, <2>2, <2>3 DEF RollbackToken
<1>13. CASE ReserveFunding(r)
  BY <1>13 DEF ReserveFunding, Goto, MoveFunding, NewUsed
<1>14. CASE ReserveCheck(r)
  <2>1. CASE UNCHANGED fault
    BY <1>14, <2>1 DEF ReserveCheck, TokenCheck, Goto
  <2>2. CASE Fails(r)
    BY <1>14, <2>2 DEF ReserveCheck, TokenCheck, Goto, Fails
  <2> QED BY <1>14, <2>1, <2>2 DEF ReserveCheck, TokenCheck
<1>15. CASE ReserveToken(r)
  BY <1>15 DEF ReserveToken, Goto, MoveToken
<1>16. CASE ReserveTokenFails(r)
  BY <1>16 DEF ReserveTokenFails, Goto, Fails
<1>17. CASE RollbackFundingReserve(r)
  <2>1. CASE MoveFunding(r, -delta[r]) /\ held' = [held EXCEPT ![r] = IF source[r] = "wallet" THEN @ - delta[r] ELSE @]
             /\ UNCHANGED fault
    BY <1>17, <2>1 DEF RollbackFundingReserve, Goto, MoveFunding, NewUsed
  <2>2. CASE Fails(r) /\ UNCHANGED <<wallet, subUsed, taken, held>>
    BY <1>17, <2>2 DEF RollbackFundingReserve, Goto, Fails
  <2> QED BY <1>17, <2>1, <2>2 DEF RollbackFundingReserve
<1>18. CASE RelaySucceeds(r)
  BY <1>18 DEF RelaySucceeds, Goto
<1>19. CASE SettleNothing(r)
  BY <1>19 DEF SettleNothing, Goto
<1>20. CASE SettleFunding(r)
  BY <1>20 DEF SettleFunding, Goto, MoveFunding, NewUsed
<1>21. CASE SettleFundingFails(r)
  BY <1>21 DEF SettleFundingFails, Goto, Fails
<1>22. CASE SettleToken(r)
  <2>1. CASE UNCHANGED fault
    BY <1>22, <2>1 DEF SettleToken, Goto, MoveToken
  <2>2. CASE Fails(r)
    BY <1>22, <2>2 DEF SettleToken, Goto, MoveToken, Fails
  <2> QED BY <1>22, <2>1, <2>2 DEF SettleToken
<1>23. CASE RelayFails(r)
  <2>1. CASE NeedsRefund(r)
    <3>1. refunded' = [refunded EXCEPT ![r] = TRUE] /\ bg' = [bg EXCEPT ![r] = "funding"]
      BY <1>23, <2>1 DEF RelayFails
    <3> QED BY <1>23, <3>1 DEF RelayFails, Goto
  <2>2. CASE ~NeedsRefund(r)
    <3>1. refunded' = refunded /\ bg' = bg
      BY <1>23, <2>2 DEF RelayFails
    <3> QED BY <1>23, <3>1 DEF RelayFails, Goto
  <2> QED BY <2>1, <2>2
<1>24. CASE ChargeFee(r)
  BY <1>24 DEF ChargeFee, Goto, MoveFunding, NewUsed
<1>25. CASE NoFee(r)
  BY <1>25 DEF NoFee, Goto
<1>26. CASE ChargeFeeToken(r)
  <2>1. CASE UNCHANGED fault
    BY <1>26, <2>1 DEF ChargeFeeToken, Goto, MoveToken
  <2>2. CASE Fails(r)
    BY <1>26, <2>2 DEF ChargeFeeToken, Goto, MoveToken, Fails
  <2> QED BY <1>26, <2>1, <2>2 DEF ChargeFeeToken
<1>27. CASE RefundWallet(r)
  <2>1. CASE UNCHANGED fault
    BY <1>27, <2>1 DEF RefundWallet, Bg, MoveFunding, NewUsed
  <2>2. CASE Fails(r)
    BY <1>27, <2>2 DEF RefundWallet, Bg, MoveFunding, NewUsed, Fails
  <2> QED BY <1>27, <2>1, <2>2 DEF RefundWallet
<1>28. CASE RefundSubscription(r)
  <2>1. CASE record[r] = "consumed"
    <3>1. MoveFunding(r, -held[r]) /\ record' = [record EXCEPT ![r] = "refunded"]
      BY <1>28, <2>1 DEF RefundSubscription
    <3>2. wallet' \in Int /\ subUsed' \in Nat /\ taken' \in [Requests -> Int]
      BY <3>1 DEF MoveFunding, NewUsed
    <3> QED BY <1>28, <3>1, <3>2 DEF RefundSubscription, Bg
  <2>2. CASE record[r] # "consumed"
    BY <1>28, <2>2 DEF RefundSubscription, Bg
  <2> QED BY <2>1, <2>2
<1>29. CASE RefundSubscriptionFails(r)
  <2>1. wallet' \in Int /\ subUsed' \in Nat /\ taken' \in [Requests -> Int]
    BY <1>29 DEF RefundSubscriptionFails, MoveFunding, NewUsed
  <2>2. attempts' \in [Requests -> 0..MaxAttempts]
    <3>1. attempts[r] \in 0..3 /\ attempts[r] < 3
      BY <1>29 DEF RefundSubscriptionFails
    <3>2. attempts[r] + 1 \in 0..3
      BY <3>1
    <3> QED BY <1>29, <3>2 DEF RefundSubscriptionFails
  <2> QED BY <1>29, <2>1, <2>2 DEF RefundSubscriptionFails, Bg, Fails
<1>30. CASE RefundExtra(r)
  <2>1. CASE UNCHANGED fault
    BY <1>30, <2>1 DEF RefundExtra, Bg, MoveFunding, NewUsed
  <2>2. CASE Fails(r)
    BY <1>30, <2>2 DEF RefundExtra, Bg, MoveFunding, NewUsed, Fails
  <2> QED BY <1>30, <2>1, <2>2 DEF RefundExtra
<1>31. CASE RefundToken(r)
  <2>1. CASE UNCHANGED fault
    BY <1>31, <2>1 DEF RefundToken, Bg, MoveToken
  <2>2. CASE Fails(r)
    BY <1>31, <2>2 DEF RefundToken, Bg, MoveToken, Fails
  <2> QED BY <1>31, <2>1, <2>2 DEF RefundToken
<1> QED
  BY <1>1, <1>2, <1>3, <1>4, <1>5, <1>6, <1>7, <1>8, <1>9, <1>10, <1>11, <1>12,
     <1>13, <1>14, <1>15, <1>16, <1>17, <1>18, <1>19, <1>20, <1>21, <1>22, <1>23, <1>24,
     <1>25, <1>26, <1>27, <1>28, <1>29, <1>30, <1>31
  DEF Handler, PreConsume, Reserve, Settle, Penalty, Refund

\* And keeps the facts the types rest on.
LEMMA StepInvStep ==
  ASSUME TypeOK, StepInv, NEW r \in Requests, Begin(r) \/ Handler(r) \/ Refund(r)
  PROVE  StepInv'
<1> USE QuotaAssumption, FlagAssumption DEF TypeOK, StepInv, MaxAttempts
<1>1. CASE Begin(r)
  <2> PICK q \in Estimates, p \in Playgrounds, f \in Forced, w \in Preferences, g \in BOOLEAN :
         /\ req' = [req EXCEPT ![r] = [quota |-> q, playground |-> p, forced |-> f, tokenSeen |-> token]]
         /\ source' = [source EXCEPT ![r] = FirstSource(EffectivePreference(w, g))]
         /\ fallback' = [fallback EXCEPT ![r] = Fallback(EffectivePreference(w, g))]
         /\ Goto(r, TryLabel(FirstSource(EffectivePreference(w, g))))
    BY <1>1 DEF Begin
  <2> QED BY <1>1 DEF Begin, Goto, TryLabel
<1>2. CASE TryWallet(r)
  BY <1>2 DEF TryWallet, Goto
<1>3. CASE WalletRefuses(r)
  BY <1>3 DEF WalletRefuses, FallBack, Goto, TryLabel
<1>4. CASE WalletUnreadable(r)
  BY <1>4 DEF WalletUnreadable, Goto, Fails
<1>5. CASE TrySubscription(r)
  BY <1>5 DEF TrySubscription, Goto
<1>6. CASE CheckToken(r)
  BY <1>6 DEF CheckToken, TokenCheck, Goto, Fails
<1>7. CASE TakeToken(r)
  BY <1>7 DEF TakeToken, Goto, MoveToken
<1>8. CASE TakeTokenFails(r)
  BY <1>8 DEF TakeTokenFails, Goto, Fails
<1>9. CASE PreConsumeFunding(r)
  BY <1>9 DEF PreConsumeFunding, Goto, MoveFunding, NewUsed
<1>10. CASE FundingInsufficient(r)
  BY <1>10 DEF FundingInsufficient, Goto
<1>11. CASE FundingFails(r)
  BY <1>11 DEF FundingFails, Goto, Fails
<1>12. CASE RollbackToken(r)
  BY <1>12 DEF RollbackToken, Goto, Fails, MoveToken, FallBack, TryLabel
<1>13. CASE ReserveFunding(r)
  BY <1>13 DEF ReserveFunding, Goto, MoveFunding, NewUsed
<1>14. CASE ReserveCheck(r)
  BY <1>14 DEF ReserveCheck, TokenCheck, Goto, Fails
<1>15. CASE ReserveToken(r)
  BY <1>15 DEF ReserveToken, Goto, MoveToken
<1>16. CASE ReserveTokenFails(r)
  BY <1>16 DEF ReserveTokenFails, Goto, Fails
<1>17. CASE RollbackFundingReserve(r)
  BY <1>17 DEF RollbackFundingReserve, Goto, Fails, MoveFunding, NewUsed
<1>18. CASE RelaySucceeds(r)
  BY <1>18 DEF RelaySucceeds, Goto
<1>19. CASE SettleNothing(r)
  BY <1>19 DEF SettleNothing, Goto
<1>20. CASE SettleFunding(r)
  BY <1>20 DEF SettleFunding, Goto, MoveFunding, NewUsed
<1>21. CASE SettleFundingFails(r)
  BY <1>21 DEF SettleFundingFails, Goto, Fails
<1>22. CASE SettleToken(r)
  BY <1>22 DEF SettleToken, Goto, Fails, MoveToken
<1>23. CASE RelayFails(r)
  BY <1>23 DEF RelayFails, Goto
<1>24. CASE ChargeFee(r)
  BY <1>24 DEF ChargeFee, Goto, MoveFunding, NewUsed
<1>25. CASE NoFee(r)
  BY <1>25 DEF NoFee, Goto
<1>26. CASE ChargeFeeToken(r)
  BY <1>26 DEF ChargeFeeToken, Goto, Fails, MoveToken
<1>27. CASE RefundWallet(r)
  BY <1>27 DEF RefundWallet, Bg, Fails, MoveFunding, NewUsed
<1>28. CASE RefundSubscription(r)
  BY <1>28 DEF RefundSubscription, Bg, MoveFunding, NewUsed
<1>29. CASE RefundSubscriptionFails(r)
  BY <1>29 DEF RefundSubscriptionFails, Bg, Fails, MoveFunding, NewUsed
<1>30. CASE RefundExtra(r)
  BY <1>30 DEF RefundExtra, Bg, Fails, MoveFunding, NewUsed
<1>31. CASE RefundToken(r)
  BY <1>31 DEF RefundToken, Bg, Fails, MoveToken
<1> QED
  BY <1>1, <1>2, <1>3, <1>4, <1>5, <1>6, <1>7, <1>8, <1>9, <1>10, <1>11, <1>12,
     <1>13, <1>14, <1>15, <1>16, <1>17, <1>18, <1>19, <1>20, <1>21, <1>22, <1>23, <1>24,
     <1>25, <1>26, <1>27, <1>28, <1>29, <1>30, <1>31
  DEF Handler, PreConsume, Reserve, Settle, Penalty, Refund

\* Everything recorded about request q stays the same.
Same(q) ==
  /\ record'[q] = record[q] /\ pc'[q] = pc[q] /\ bg'[q] = bg[q]
  /\ req'[q] = req[q] /\ source'[q] = source[q] /\ fallback'[q] = fallback[q]
  /\ preConsumed'[q] = preConsumed[q] /\ tokenConsumed'[q] = tokenConsumed[q] /\ extraReserved'[q] = extraReserved[q]
  /\ held'[q] = held[q] /\ trusted'[q] = trusted[q] /\ fundingSettled'[q] = fundingSettled[q]
  /\ settled'[q] = settled[q] /\ refunded'[q] = refunded[q] /\ delta'[q] = delta[q]
  /\ actual'[q] = actual[q] /\ attempts'[q] = attempts[q] /\ taken'[q] = taken[q]
  /\ tokTaken'[q] = tokTaken[q] /\ feePaid'[q] = feePaid[q] /\ fault'[q] = fault[q]

\* A step of one request leaves what is recorded about every other request alone.
LEMMA Frame ==
  ASSUME TypeOK, NEW q \in Requests, NEW r \in Requests, Begin(r) \/ Handler(r) \/ Refund(r)
  PROVE  (q # r => Same(q))
<1> USE DEF TypeOK, Same
<1>1. CASE Begin(r)
  <2> PICK e \in Estimates, p \in Playgrounds, f \in Forced, w \in Preferences, g \in BOOLEAN :
         /\ req' = [req EXCEPT ![r] = [quota |-> e, playground |-> p, forced |-> f, tokenSeen |-> token]]
         /\ source' = [source EXCEPT ![r] = FirstSource(EffectivePreference(w, g))]
         /\ fallback' = [fallback EXCEPT ![r] = Fallback(EffectivePreference(w, g))]
         /\ Goto(r, TryLabel(FirstSource(EffectivePreference(w, g))))
    BY <1>1 DEF Begin
  <2> QED BY <1>1 DEF Begin, Goto
<1>2. CASE TryWallet(r)
  BY <1>2 DEF TryWallet, Goto
<1>3. CASE WalletRefuses(r)
  BY <1>3 DEF WalletRefuses, FallBack, Goto, TryLabel
<1>4. CASE WalletUnreadable(r)
  BY <1>4 DEF WalletUnreadable, Goto, Fails
<1>5. CASE TrySubscription(r)
  BY <1>5 DEF TrySubscription, Goto
<1>6. CASE CheckToken(r)
  BY <1>6 DEF CheckToken, TokenCheck, Goto, Fails
<1>7. CASE TakeToken(r)
  BY <1>7 DEF TakeToken, Goto, MoveToken
<1>8. CASE TakeTokenFails(r)
  BY <1>8 DEF TakeTokenFails, Goto, Fails
<1>9. CASE PreConsumeFunding(r)
  BY <1>9 DEF PreConsumeFunding, Goto, MoveFunding, NewUsed
<1>10. CASE FundingInsufficient(r)
  BY <1>10 DEF FundingInsufficient, Goto
<1>11. CASE FundingFails(r)
  BY <1>11 DEF FundingFails, Goto, Fails
<1>12. CASE RollbackToken(r)
  BY <1>12 DEF RollbackToken, Goto, Fails, MoveToken, FallBack, TryLabel
<1>13. CASE ReserveFunding(r)
  BY <1>13 DEF ReserveFunding, Goto, MoveFunding, NewUsed
<1>14. CASE ReserveCheck(r)
  BY <1>14 DEF ReserveCheck, TokenCheck, Goto, Fails
<1>15. CASE ReserveToken(r)
  BY <1>15 DEF ReserveToken, Goto, MoveToken
<1>16. CASE ReserveTokenFails(r)
  BY <1>16 DEF ReserveTokenFails, Goto, Fails
<1>17. CASE RollbackFundingReserve(r)
  BY <1>17 DEF RollbackFundingReserve, Goto, Fails, MoveFunding, NewUsed
<1>18. CASE RelaySucceeds(r)
  BY <1>18 DEF RelaySucceeds, Goto
<1>19. CASE SettleNothing(r)
  BY <1>19 DEF SettleNothing, Goto
<1>20. CASE SettleFunding(r)
  BY <1>20 DEF SettleFunding, Goto, MoveFunding, NewUsed
<1>21. CASE SettleFundingFails(r)
  BY <1>21 DEF SettleFundingFails, Goto, Fails
<1>22. CASE SettleToken(r)
  BY <1>22 DEF SettleToken, Goto, Fails, MoveToken
<1>23. CASE RelayFails(r)
  BY <1>23 DEF RelayFails, Goto
<1>24. CASE ChargeFee(r)
  BY <1>24 DEF ChargeFee, Goto, MoveFunding, NewUsed
<1>25. CASE NoFee(r)
  BY <1>25 DEF NoFee, Goto
<1>26. CASE ChargeFeeToken(r)
  BY <1>26 DEF ChargeFeeToken, Goto, Fails, MoveToken
<1>27. CASE RefundWallet(r)
  BY <1>27 DEF RefundWallet, Bg, Fails, MoveFunding, NewUsed
<1>28. CASE RefundSubscription(r)
  BY <1>28 DEF RefundSubscription, Bg, MoveFunding, NewUsed
<1>29. CASE RefundSubscriptionFails(r)
  BY <1>29 DEF RefundSubscriptionFails, Bg, Fails, MoveFunding, NewUsed
<1>30. CASE RefundExtra(r)
  BY <1>30 DEF RefundExtra, Bg, Fails, MoveFunding, NewUsed
<1>31. CASE RefundToken(r)
  BY <1>31 DEF RefundToken, Bg, Fails, MoveToken
<1> QED
  BY <1>1, <1>2, <1>3, <1>4, <1>5, <1>6, <1>7, <1>8, <1>9, <1>10, <1>11, <1>12,
     <1>13, <1>14, <1>15, <1>16, <1>17, <1>18, <1>19, <1>20, <1>21, <1>22, <1>23, <1>24,
     <1>25, <1>26, <1>27, <1>28, <1>29, <1>30, <1>31
  DEF Handler, PreConsume, Reserve, Settle, Penalty, Refund

\* The ledger of a request depends on nothing else.
LEMMA SameLedger ==
  ASSUME NEW q \in Requests, Same(q), LedgerAt(q)
  PROVE  LedgerAt(q)'
BY DEF Same, LedgerAt, BeforeHold, HoldBooked, WhileRelaying, Reserving, WhileSettling, AfterSuccess, AfterFailure, Owed, Succeeded, OnToken

\* A step of a request keeps its own ledger exact.
LEMMA OwnLedger ==
  ASSUME TypeOK, StepInv, NEW r \in Requests, LedgerAt(r), Begin(r) \/ Handler(r) \/ Refund(r)
  PROVE  LedgerAt(r)'
<1> USE QuotaAssumption DEF TypeOK, PreLabels, RelayLabels, TokenTouched,
    LedgerAt, BeforeHold, HoldBooked, WhileRelaying, Reserving, WhileSettling, AfterSuccess, AfterFailure, Owed, Succeeded, OnToken
<1>1. CASE Begin(r)
  <2> PICK q \in Estimates, p \in Playgrounds, f \in Forced, w \in Preferences, g \in BOOLEAN :
         /\ req' = [req EXCEPT ![r] = [quota |-> q, playground |-> p, forced |-> f, tokenSeen |-> token]]
         /\ source' = [source EXCEPT ![r] = FirstSource(EffectivePreference(w, g))]
         /\ fallback' = [fallback EXCEPT ![r] = Fallback(EffectivePreference(w, g))]
         /\ Goto(r, TryLabel(FirstSource(EffectivePreference(w, g))))
    BY <1>1 DEF Begin
  <2> QED BY <1>1 DEF Begin, Goto, TryLabel, FirstSource, Fallback
<1>2. CASE TryWallet(r)
  BY <1>2 DEF TryWallet, Goto
<1>3. CASE WalletRefuses(r)
  BY <1>3 DEF WalletRefuses, FallBack, Goto, TryLabel, Sources
<1>4. CASE WalletUnreadable(r)
  BY <1>4 DEF WalletUnreadable, Goto, Fails
<1>5. CASE TrySubscription(r)
  BY <1>5 DEF TrySubscription, Goto
<1>6. CASE CheckToken(r)
  BY <1>6 DEF CheckToken, TokenCheck, Goto, Fails
<1>7. CASE TakeToken(r)
  BY <1>7 DEF TakeToken, Goto, MoveToken
<1>8. CASE TakeTokenFails(r)
  BY <1>8 DEF TakeTokenFails, Goto, Fails
<1>9. CASE PreConsumeFunding(r)
  BY <1>9 DEF PreConsumeFunding, Goto, MoveFunding, NewUsed
<1>10. CASE FundingInsufficient(r)
  BY <1>10 DEF FundingInsufficient, Goto
<1>11. CASE FundingFails(r)
  BY <1>11 DEF FundingFails, Goto, Fails
<1>12. CASE RollbackToken(r)
  <2>1. CASE ~fault[r] /\ Fails(r)
    BY <1>12, <2>1 DEF RollbackToken, Fails
  <2>2. CASE ~fault[r] /\ ~Fails(r)
    <3>0. /\ tokenConsumed[r] \in Nat
          /\ bg[r] # "crashed" => tokTaken[r] = OnToken(r, tokenConsumed[r])
      BY <1>12, <2>2 DEF RollbackToken
    <3>1. bg[r] # "crashed" => tokTaken'[r] = 0 /\ tokenConsumed'[r] = 0
      <4>1. CASE MoveToken(r, -tokenConsumed[r]) /\ ~req[r].playground
        BY <1>12, <3>0, <4>1 DEF RollbackToken, MoveToken
      <4>2. CASE ~(tokenConsumed[r] > 0 /\ ~req[r].playground) /\ UNCHANGED tokTaken
        BY <1>12, <3>0, <4>2 DEF RollbackToken
      <4> QED BY <1>12, <2>2, <4>1, <4>2 DEF RollbackToken
    <3>2. CASE pc[r] = "rollbackInsufficient"
      BY <1>12, <2>2, <3>1, <3>2 DEF RollbackToken, FallBack, Goto, TryLabel, Sources
    <3>3. CASE pc[r] = "rollbackError"
      BY <1>12, <2>2, <3>1, <3>3 DEF RollbackToken, Goto
    <3> QED BY <1>12, <3>2, <3>3 DEF RollbackToken
  <2>3. CASE fault[r]
    BY <1>12, <2>3 DEF RollbackToken, Fails
  <2> QED BY <2>1, <2>2, <2>3
<1>13. CASE ReserveFunding(r)
  BY <1>13 DEF ReserveFunding, Goto, MoveFunding, NewUsed
<1>14. CASE ReserveCheck(r)
  BY <1>14 DEF ReserveCheck, TokenCheck, Goto, Fails
<1>15. CASE ReserveToken(r)
  BY <1>15 DEF ReserveToken, Goto, MoveToken
<1>16. CASE ReserveTokenFails(r)
  BY <1>16 DEF ReserveTokenFails, Goto, Fails
<1>17. CASE RollbackFundingReserve(r)
  BY <1>17 DEF RollbackFundingReserve, Goto, Fails, MoveFunding, NewUsed
<1>18. CASE RelaySucceeds(r)
  BY <1>18 DEF RelaySucceeds, Goto
<1>19. CASE SettleNothing(r)
  <2>1. CASE fault[r] \/ bg[r] = "crashed"
    BY <1>19, <2>1 DEF SettleNothing
  <2>2. CASE ~fault[r] /\ bg[r] # "crashed"
    <3>1. WhileSettling(r) /\ delta[r] = 0
      BY <1>19, <2>2 DEF SettleNothing
    <3>2. actual[r] = preConsumed[r]
      <4>1. /\ delta[r] = actual[r] - preConsumed[r] /\ delta[r] = 0
            /\ actual[r] \in Int /\ preConsumed[r] \in Int
        BY <3>1
      <4> HIDE DEF TypeOK, LedgerAt, WhileSettling
      <4> QED BY <4>1
    <3>3. settled'[r] = TRUE /\ pc'[r] = "done"
      BY <1>19 DEF SettleNothing, Goto
    <3> QED BY <1>19, <3>1, <3>2, <3>3 DEF SettleNothing
  <2> QED BY <2>1, <2>2
<1>20. CASE SettleFunding(r)
  BY <1>20 DEF SettleFunding, Goto, MoveFunding, NewUsed
<1>21. CASE SettleFundingFails(r)
  BY <1>21 DEF SettleFundingFails, Goto, Fails
<1>22. CASE SettleToken(r)
  BY <1>22 DEF SettleToken, Goto, Fails, MoveToken
<1>23. CASE RelayFails(r)
  <2>1. CASE NeedsRefund(r)
    <3>1. pc' = [pc EXCEPT ![r] = "fee"] /\ bg' = [bg EXCEPT ![r] = "funding"]
      BY <1>23, <2>1 DEF RelayFails, Goto
    <3>2. pc[r] \in {"relaying", "sending"} /\ ~Reserving(r)
      BY <1>23 DEF RelayFails
    <3>3. UNCHANGED <<store, plan, amounts, work, history>>
      BY <1>23 DEF RelayFails
    <3>4. CASE ~fault[r]
      <4>1. bg[r] = "idle" /\ WhileRelaying(r)
        BY <3>2, <3>4 DEF StepInv
      <4>2. pc'[r] = "fee" /\ bg'[r] = "funding"
        BY <3>1
      <4>3. HoldBooked(r)'
        BY <4>1, <3>3
      <4> QED BY <3>2, <3>3, <4>1, <4>2, <4>3
    <3>5. CASE fault[r]
      BY <3>3, <3>5
    <3> QED BY <3>4, <3>5
  <2>2. CASE ~NeedsRefund(r)
    <3>1. pc' = [pc EXCEPT ![r] = "fee"] /\ bg' = bg
      BY <1>23, <2>2 DEF RelayFails, Goto
    <3> QED BY <1>23, <3>1, <2>2 DEF RelayFails, NeedsRefund
  <2> QED BY <2>1, <2>2
<1>24. CASE ChargeFee(r)
  BY <1>24 DEF ChargeFee, Goto, MoveFunding, NewUsed
<1>25. CASE NoFee(r)
  BY <1>25 DEF NoFee, Goto
<1>26. CASE ChargeFeeToken(r)
  BY <1>26 DEF ChargeFeeToken, Goto, Fails, MoveToken
<1>27. CASE RefundWallet(r)
  BY <1>27 DEF RefundWallet, Bg, Fails, MoveFunding, NewUsed
<1>28. CASE RefundSubscription(r)
  BY <1>28 DEF RefundSubscription, Bg, MoveFunding, NewUsed
<1>29. CASE RefundSubscriptionFails(r)
  BY <1>29 DEF RefundSubscriptionFails, Bg, Fails, MoveFunding, NewUsed
<1>30. CASE RefundExtra(r)
  BY <1>30 DEF RefundExtra, Bg, Fails, MoveFunding, NewUsed
<1>31. CASE RefundToken(r)
  BY <1>31 DEF RefundToken, Bg, Fails, MoveToken
<1> QED
  BY <1>1, <1>2, <1>3, <1>4, <1>5, <1>6, <1>7, <1>8, <1>9, <1>10, <1>11, <1>12,
     <1>13, <1>14, <1>15, <1>16, <1>17, <1>18, <1>19, <1>20, <1>21, <1>22, <1>23, <1>24,
     <1>25, <1>26, <1>27, <1>28, <1>29, <1>30, <1>31
  DEF Handler, PreConsume, Reserve, Settle, Penalty, Refund

BillingInv == TypeOK /\ StepInv /\ LedgerInv

\* The invariant holds at the start.
LEMMA InitInv == Init => BillingInv
BY QuotaAssumption DEF Init, BillingInv, TypeOK, StepInv, LedgerInv, NoRequest, Labels, PreLabels,
   RelayLabels, EndLabels, BgLabels, Sources, MaxAttempts, LedgerAt, BeforeHold, OnToken, Succeeded

\* ExpireDueSubscriptions touches no session.
LEMMA ExpireInv == BillingInv /\ ExpireSubscription => BillingInv'
<1> SUFFICES ASSUME BillingInv, ExpireSubscription PROVE BillingInv'
  OBVIOUS
<1>1. TypeOK'
  BY DEF BillingInv, ExpireSubscription, TypeOK
<1>2. StepInv'
  BY DEF BillingInv, ExpireSubscription, StepInv
<1>3. ASSUME NEW q \in Requests PROVE LedgerAt(q)'
  <2>1. Same(q)
    BY DEF ExpireSubscription, Same
  <2> QED BY <2>1, SameLedger DEF BillingInv, LedgerInv
<1> QED BY <1>1, <1>2, <1>3 DEF BillingInv, LedgerInv

\* A crash keeps what finished requests recorded; of the others nothing is claimed.
LEMMA CrashInv == BillingInv /\ Crash => BillingInv'
<1> SUFFICES ASSUME BillingInv, Crash PROVE BillingInv'
  OBVIOUS
<1> USE DEF BillingInv
<1>1. TypeOK'
  BY DEF Crash, TypeOK, Labels, BgLabels
<1>2. StepInv'
  BY DEF Crash, StepInv, TypeOK, HandlerOver, RefundOver
<1>3. ASSUME NEW q \in Requests PROVE LedgerAt(q)'
  <2>1. CASE pc'[q] = "crashed" \/ bg'[q] = "crashed"
    BY <2>1 DEF LedgerAt
  <2>2. CASE pc'[q] # "crashed" /\ bg'[q] # "crashed"
    <3>1. Same(q)
      BY <2>2 DEF Crash, Same
    <3> QED BY <3>1, SameLedger DEF LedgerInv
  <2> QED BY <2>1, <2>2
<1> QED BY <1>1, <1>2, <1>3 DEF LedgerInv

\* Every step keeps the invariant: one request's step its own ledger, and the others' by Frame.
LEMMA NextInv == BillingInv /\ [Next]_vars => BillingInv'
<1> SUFFICES ASSUME BillingInv, [Next]_vars PROVE BillingInv'
  OBVIOUS
<1>1. ASSUME NEW r \in Requests, Begin(r) \/ Handler(r) \/ Refund(r) PROVE BillingInv'
  <2>1. TypeOK' /\ StepInv'
    BY <1>1, TypeOKStep, StepInvStep DEF BillingInv
  <2>2. LedgerAt(r)'
    BY <1>1, OwnLedger DEF BillingInv, LedgerInv
  <2>3. ASSUME NEW q \in Requests, q # r PROVE LedgerAt(q)'
    <3>1. Same(q)
      BY <1>1, <2>3, Frame DEF BillingInv
    <3> QED BY <3>1, SameLedger DEF BillingInv, LedgerInv
  <2> QED BY <2>1, <2>2, <2>3 DEF BillingInv, LedgerInv
<1>2. CASE UNCHANGED vars
  <2>1. TypeOK'
    BY <1>2 DEF BillingInv, TypeOK, vars
  <2>2. StepInv'
    BY <1>2 DEF BillingInv, StepInv, vars
  <2>3. ASSUME NEW q \in Requests PROVE LedgerAt(q)'
    <3>1. Same(q)
      BY <1>2 DEF vars, Same
    <3> QED BY <3>1, SameLedger DEF BillingInv, LedgerInv
  <2> QED BY <2>1, <2>2, <2>3 DEF BillingInv, LedgerInv
<1> QED BY <1>1, <1>2, ExpireInv, CrashInv DEF Next, AllOver

\* And so it holds in every behaviour.
LEMMA SpecInv == Spec => []BillingInv
BY InitInv, NextInv, PTL DEF Spec

\* Quotas, amounts held, labels and retry counts keep their types in every behaviour,
\* with any number of requests, database faults and crashes.
THEOREM TypeCorrect == Spec => []TypeOK
<1>1. BillingInv => TypeOK
  BY DEF BillingInv
<1> QED BY <1>1, SpecInv, PTL

\* BillingSession.Settle, Refund, Reserve and their roll-backs charge the funding source
\* of every request whose database calls succeed exactly what it owes.
THEOREM ChargeIsExact == Spec => []ExactCharge
<1>1. BillingInv => ExactCharge
  BY DEF BillingInv, LedgerInv, LedgerAt, ExactCharge, RefundOver, BeforeHold, AfterSuccess,
         AfterFailure, Owed, Succeeded, TypeOK
<1> QED BY <1>1, SpecInv, PTL

\* And charge its token the same amount, or nothing for a playground request.
THEOREM LedgersAlwaysAgree == Spec => []LedgersAgree
<1>1. BillingInv => LedgersAgree
  <2> SUFFICES ASSUME BillingInv, NEW r \in Requests,
                      pc[r] \in {"done", "refused"}, RefundOver(r), bg[r] # "crashed", ~fault[r]
               PROVE  tokTaken[r] = OnToken(r, taken[r])
    BY DEF LedgersAgree, OnToken
  <2> USE DEF BillingInv, LedgerInv, LedgerAt, TypeOK
  <2>1. CASE pc[r] = "refused"
    BY <2>1 DEF BeforeHold, OnToken
  <2>2. CASE pc[r] = "done" /\ Succeeded(r)
    BY <2>2 DEF AfterSuccess
  <2>3. CASE pc[r] = "done" /\ ~Succeeded(r)
    <3>1. bg[r] \in {"idle", "done"} /\ AfterFailure(r)
      BY <2>3 DEF RefundOver
    <3>2. taken[r] = feePaid[r] /\ tokTaken[r] = OnToken(r, 0 + feePaid[r])
      BY <2>3, <3>1 DEF AfterFailure
    <3> QED BY <3>2
  <2> QED BY <2>1, <2>2, <2>3
<1> QED BY <1>1, SpecInv, PTL

\* Giving quota back never takes a subscription over its limit, clamp included.
LEMMA CreditWithinTotal ==
  ASSUME TypeOK, SubscriptionWithinTotal, NEW r \in Requests, NEW n \in Nat, MoveFunding(r, -n)
  PROVE  SubscriptionWithinTotal'
BY QuotaAssumption DEF TypeOK, SubscriptionWithinTotal, MoveFunding, NewUsed

\* Nor does a debit that PostConsumeUserSubscriptionDelta accepts.
LEMMA DebitWithinTotal ==
  ASSUME TypeOK, SubscriptionWithinTotal, NEW r \in Requests, NEW n \in Int,
         CanMoveFunding(r, n), MoveFunding(r, n)
  PROVE  SubscriptionWithinTotal'
BY QuotaAssumption DEF TypeOK, SubscriptionWithinTotal, CanMoveFunding, WithinTotal, MoveFunding, NewUsed

\* One case per action that moves funding; the others leave the usage alone.
LEMMA WithinTotalStep ==
  ASSUME TypeOK, StepInv, SubscriptionWithinTotal,
         NEW r \in Requests, Begin(r) \/ Handler(r) \/ Refund(r)
  PROVE  SubscriptionWithinTotal'
<1> USE QuotaAssumption DEF TypeOK
<1>1. CASE UNCHANGED subUsed
  BY <1>1 DEF SubscriptionWithinTotal
<1>2. CASE PreConsumeFunding(r)
  <2>1. delta[r] \in Nat /\ (source[r] = "subscription" => SubscriptionSufficient(r)) /\ MoveFunding(r, delta[r])
    BY <1>2 DEF PreConsumeFunding, StepInv
  <2>2. CanMoveFunding(r, delta[r])
    BY <2>1 DEF SubscriptionSufficient, CanMoveFunding, WithinTotal, NewUsed
  <2> QED BY <2>1, <2>2, DebitWithinTotal
<1>3. CASE ReserveFunding(r)
  <2>1. PICK target \in Targets : /\ CanMoveFunding(r, target - preConsumed[r])
                                  /\ MoveFunding(r, target - preConsumed[r])
    BY <1>3 DEF ReserveFunding
  <2>2. target - preConsumed[r] \in Int
    OBVIOUS
  <2> QED BY <2>1, <2>2, DebitWithinTotal
<1>4. CASE RollbackFundingReserve(r)
  <2>1. delta[r] \in Nat
    BY <1>4 DEF RollbackFundingReserve, StepInv
  <2>2. MoveFunding(r, -delta[r]) \/ UNCHANGED subUsed
    BY <1>4 DEF RollbackFundingReserve
  <2> QED BY <1>1, <2>1, <2>2, CreditWithinTotal
<1>5. CASE SettleFunding(r)
  <2>1. delta[r] \in Int /\ CanMoveFunding(r, delta[r]) /\ MoveFunding(r, delta[r])
    BY <1>5 DEF SettleFunding
  <2> QED BY <2>1, DebitWithinTotal
<1>6. CASE ChargeFee(r)
  <2>1. Fee \in Int /\ CanMoveFunding(r, Fee) /\ MoveFunding(r, Fee)
    BY <1>6 DEF ChargeFee
  <2> QED BY <2>1, DebitWithinTotal
<1>7. CASE RefundWallet(r) \/ RefundSubscription(r) \/ RefundSubscriptionFails(r)
  <2>1. held[r] \in Nat
    OBVIOUS
  <2>2. MoveFunding(r, -held[r]) \/ UNCHANGED subUsed
    BY <1>7 DEF RefundWallet, RefundSubscription, RefundSubscriptionFails
  <2> QED BY <1>1, <2>1, <2>2, CreditWithinTotal
<1>8. CASE RefundExtra(r)
  <2>1. extraReserved[r] \in Nat
    OBVIOUS
  <2>2. MoveFunding(r, -extraReserved[r]) \/ UNCHANGED subUsed
    BY <1>8 DEF RefundExtra
  <2> QED BY <1>1, <2>1, <2>2, CreditWithinTotal
<1>9. CASE Begin(r)
  BY <1>1, <1>9 DEF Begin
<1>10. CASE TryWallet(r) \/ WalletRefuses(r) \/ WalletUnreadable(r) \/ TrySubscription(r)
  BY <1>1, <1>10 DEF TryWallet, WalletRefuses, WalletUnreadable, TrySubscription
<1>11. CASE CheckToken(r) \/ TakeToken(r) \/ TakeTokenFails(r)
  BY <1>1, <1>11 DEF CheckToken, TokenCheck, TakeToken, TakeTokenFails
<1>12. CASE FundingInsufficient(r) \/ FundingFails(r) \/ RollbackToken(r)
  BY <1>1, <1>12 DEF FundingInsufficient, FundingFails, RollbackToken
<1>13. CASE ReserveCheck(r) \/ ReserveToken(r) \/ ReserveTokenFails(r)
  BY <1>1, <1>13 DEF ReserveCheck, TokenCheck, ReserveToken, ReserveTokenFails
<1>14. CASE RelaySucceeds(r) \/ RelayFails(r)
  BY <1>1, <1>14 DEF RelaySucceeds, RelayFails
<1>15. CASE SettleNothing(r) \/ SettleFundingFails(r) \/ SettleToken(r)
  BY <1>1, <1>15 DEF SettleNothing, SettleFundingFails, SettleToken
<1>16. CASE NoFee(r) \/ ChargeFeeToken(r) \/ RefundToken(r)
  BY <1>1, <1>16 DEF NoFee, ChargeFeeToken, RefundToken
<1> QED
  BY <1>2, <1>3, <1>4, <1>5, <1>6, <1>7, <1>8, <1>9, <1>10, <1>11, <1>12, <1>13, <1>14, <1>15, <1>16
  DEF Handler, PreConsume, Reserve, Settle, Penalty, Refund

\* No interleaving of pre-consumes, reserves, settlements, fees and refunds, with any
\* faults and crashes, uses a limited subscription beyond AmountTotal.
THEOREM TotalIsRespected == Spec => []SubscriptionWithinTotal
<1>1. Init => SubscriptionWithinTotal
  BY QuotaAssumption DEF Init, SubscriptionWithinTotal
<1>2. BillingInv /\ SubscriptionWithinTotal /\ [Next]_vars => SubscriptionWithinTotal'
  <2> SUFFICES ASSUME BillingInv, SubscriptionWithinTotal, [Next]_vars
               PROVE  SubscriptionWithinTotal'
    OBVIOUS
  <2>1. ASSUME NEW r \in Requests, Begin(r) \/ Handler(r) \/ Refund(r)
        PROVE  SubscriptionWithinTotal'
    BY <2>1, WithinTotalStep DEF BillingInv
  <2>2. CASE UNCHANGED subUsed
    BY <2>2 DEF SubscriptionWithinTotal
  <2> QED BY <2>1, <2>2 DEF Next, ExpireSubscription, Crash, AllOver, vars
<1> QED BY <1>1, <1>2, SpecInv, PTL DEF Spec

\* The inductive form of NoProfit, whatever has failed: what a request may still give
\* back is covered by what has been taken, and a settlement knows what was pre-consumed.
CoveredAt(r) ==
  /\ tokTaken[r] >= 0 /\ (source[r] # "subscription" => taken[r] >= 0)
  /\ pc[r] # "start" => source[r] # "none"
  /\ pc[r] = "start" => tokenConsumed[r] = 0
  /\ pc[r] \in {"start", "refused"} \cup PreLabels => taken[r] = 0
  /\ pc[r] = "preFunding" => tokenConsumed[r] >= delta[r]
  /\ pc[r] \in RelayLabels \cup {"settle"} /\ source[r] = "wallet" =>
       taken[r] = held[r] /\ held[r] >= preConsumed[r] + (IF Reserving(r) THEN delta[r] ELSE 0)
  /\ pc[r] \in RelayLabels \cup {"settle", "settleToken"} => tokenConsumed[r] >= preConsumed[r]
  /\ pc[r] \in {"settle", "settleToken"} => actual[r] >= 0 /\ delta[r] = actual[r] - preConsumed[r]
  /\ bg[r] = "funding" /\ source[r] = "wallet" => taken[r] >= held[r]
  /\ pc[r] \notin {"fee", "feeToken", "done", "crashed"} \/ bg[r] \in {"funding", "extra", "token"} =>
       tokTaken[r] >= OnToken(r, tokenConsumed[r])

CoveredInv == \A r \in Requests : CoveredAt(r)

\* It depends on what is recorded about the request alone.
LEMMA SameCover ==
  ASSUME NEW q \in Requests, Same(q), CoveredAt(q)
  PROVE  CoveredAt(q)'
BY DEF Same, CoveredAt, Reserving, OnToken

\* A step of a request keeps what it may give back covered, whether its database call
\* fails or not.
LEMMA OwnCover ==
  ASSUME TypeOK, StepInv, NEW r \in Requests, CoveredAt(r), Begin(r) \/ Handler(r) \/ Refund(r)
  PROVE  CoveredAt(r)'
<1> USE QuotaAssumption DEF TypeOK, StepInv, PreLabels, RelayLabels, TokenTouched, CoveredAt, Reserving, OnToken
<1>1. CASE Begin(r)
  <2> PICK q \in Estimates, p \in Playgrounds, f \in Forced, w \in Preferences, g \in BOOLEAN :
         /\ req' = [req EXCEPT ![r] = [quota |-> q, playground |-> p, forced |-> f, tokenSeen |-> token]]
         /\ source' = [source EXCEPT ![r] = FirstSource(EffectivePreference(w, g))]
         /\ fallback' = [fallback EXCEPT ![r] = Fallback(EffectivePreference(w, g))]
         /\ Goto(r, TryLabel(FirstSource(EffectivePreference(w, g))))
    BY <1>1 DEF Begin
  <2>1. pc[r] = "start" /\ pc'[r] \in {"tryWallet", "trySubscription"} /\ source'[r] \in {"wallet", "subscription"}
    BY <1>1 DEF Begin, Goto, TryLabel, FirstSource
  <2>2. taken[r] = 0 /\ tokenConsumed[r] = 0 /\ tokTaken[r] >= 0 /\ bg[r] = "idle"
    BY <2>1
  <2>3. UNCHANGED <<bg, taken, tokTaken, tokenConsumed>>
    BY <1>1 DEF Begin
  <2> QED BY <2>1, <2>2, <2>3
<1>2. CASE TryWallet(r)
  BY <1>2 DEF TryWallet, Goto
<1>3. CASE WalletRefuses(r)
  BY <1>3, SMTT(30) DEF WalletRefuses, FallBack, Goto, TryLabel, Sources
<1>4. CASE WalletUnreadable(r)
  BY <1>4 DEF WalletUnreadable, Goto, Fails
<1>5. CASE TrySubscription(r)
  BY <1>5 DEF TrySubscription, Goto
<1>6. CASE CheckToken(r)
  BY <1>6 DEF CheckToken, TokenCheck, Goto, Fails
<1>7. CASE TakeToken(r)
  BY <1>7 DEF TakeToken, Goto, MoveToken
<1>8. CASE TakeTokenFails(r)
  BY <1>8 DEF TakeTokenFails, Goto, Fails
<1>9. CASE PreConsumeFunding(r)
  BY <1>9 DEF PreConsumeFunding, Goto, MoveFunding
<1>10. CASE FundingInsufficient(r)
  BY <1>10 DEF FundingInsufficient, Goto
<1>11. CASE FundingFails(r)
  BY <1>11 DEF FundingFails, Goto, Fails
<1>12. CASE RollbackToken(r)
  BY <1>12 DEF RollbackToken, Goto, Fails, MoveToken, FallBack, TryLabel, Sources
<1>13. CASE ReserveFunding(r)
  BY <1>13 DEF ReserveFunding, Goto, MoveFunding
<1>14. CASE ReserveCheck(r)
  BY <1>14 DEF ReserveCheck, TokenCheck, Goto, Fails
<1>15. CASE ReserveToken(r)
  BY <1>15 DEF ReserveToken, Goto, MoveToken
<1>16. CASE ReserveTokenFails(r)
  BY <1>16 DEF ReserveTokenFails, Goto, Fails
<1>17. CASE RollbackFundingReserve(r)
  <2>1. CASE Fails(r) /\ UNCHANGED <<taken, held>>
    BY <1>17, <2>1 DEF RollbackFundingReserve, Goto
  <2>2. CASE MoveFunding(r, -delta[r]) /\ held' = [held EXCEPT ![r] = IF source[r] = "wallet" THEN @ - delta[r] ELSE @]
    <3>1. pc[r] = "unreserve" /\ pc'[r] = "sending" /\ delta[r] \in Nat /\ held[r] \in Nat
      BY <1>17 DEF RollbackFundingReserve, Goto
    <3>2. taken'[r] = taken[r] - delta[r] /\ (source[r] = "wallet" => held'[r] = held[r] - delta[r])
      BY <2>2 DEF MoveFunding
    <3>3. /\ source[r] = "wallet" => taken'[r] = held'[r] /\ held'[r] >= preConsumed[r]
          /\ source[r] \in {"wallet", "subscription"}
      BY <3>1, <3>2 DEF Sources
    <3> QED BY <1>17, <3>1, <3>3 DEF RollbackFundingReserve
  <2> QED BY <1>17, <2>1, <2>2 DEF RollbackFundingReserve
<1>18. CASE RelaySucceeds(r)
  BY <1>18 DEF RelaySucceeds, Goto
<1>19. CASE SettleNothing(r)
  BY <1>19 DEF SettleNothing, Goto
<1>20. CASE SettleFunding(r)
  <2>1. pc[r] = "settle" /\ pc'[r] = "settleToken" /\ taken'[r] = taken[r] + delta[r]
    BY <1>20 DEF SettleFunding, Goto, MoveFunding
  <2>2. source[r] \in {"wallet", "subscription"} /\ delta[r] = actual[r] - preConsumed[r] /\ actual[r] >= 0
    BY <2>1 DEF Sources
  <2>3. source[r] = "wallet" => taken'[r] >= 0
    <3> SUFFICES ASSUME source[r] = "wallet" PROVE taken'[r] >= 0
      OBVIOUS
    <3>1. taken[r] >= preConsumed[r] /\ taken[r] \in Int /\ preConsumed[r] \in Int /\ actual[r] \in Int
      BY <2>1
    <3> HIDE DEF TypeOK, StepInv, CoveredAt
    <3> QED BY <2>1, <2>2, <3>1
  <2> QED BY <1>20, <2>1, <2>2, <2>3 DEF SettleFunding
<1>21. CASE SettleFundingFails(r)
  BY <1>21 DEF SettleFundingFails, Goto, Fails
<1>22. CASE SettleToken(r)
  <2>1. pc[r] = "settleToken" /\ pc'[r] = "done"
    BY <1>22 DEF SettleToken, Goto
  <2>2. tokTaken'[r] >= 0
    <3>1. CASE ~req[r].playground /\ MoveToken(r, delta[r])
      <4>1. /\ tokTaken[r] >= tokenConsumed[r] /\ tokenConsumed[r] >= preConsumed[r]
            /\ delta[r] = actual[r] - preConsumed[r] /\ actual[r] >= 0 /\ tokTaken'[r] = tokTaken[r] + delta[r]
            /\ tokTaken[r] \in Int /\ tokenConsumed[r] \in Int /\ preConsumed[r] \in Int /\ actual[r] \in Int
        BY <2>1, <3>1 DEF MoveToken
      <4> HIDE DEF TypeOK, StepInv, CoveredAt
      <4> QED BY <4>1
    <3> QED BY <1>22, <3>1 DEF SettleToken
  <2>3. bg[r] = "idle"
    BY <2>1
  <2> QED BY <1>22, <2>1, <2>2, <2>3 DEF SettleToken
<1>23. CASE RelayFails(r)
  BY <1>23 DEF RelayFails, Goto
<1>24. CASE ChargeFee(r)
  BY <1>24 DEF ChargeFee, Goto, MoveFunding
<1>25. CASE NoFee(r)
  BY <1>25 DEF NoFee, Goto
<1>26. CASE ChargeFeeToken(r)
  BY <1>26 DEF ChargeFeeToken, Goto, Fails, MoveToken
<1>27. CASE RefundWallet(r)
  <2>1. bg[r] = "funding" /\ source[r] = "wallet" /\ bg'[r] = "extra" /\ pc[r] \in {"fee", "feeToken", "done", "crashed"}
    BY <1>27 DEF RefundWallet, Bg
  <2>2. taken'[r] >= 0
    <3>1. taken[r] >= held[r] /\ taken[r] \in Int /\ held[r] \in Nat
      BY <2>1
    <3>2. taken'[r] \in {taken[r], taken[r] - held[r]}
      BY <1>27 DEF RefundWallet, MoveFunding
    <3> QED BY <3>1, <3>2
  <2> QED BY <1>27, <2>1, <2>2 DEF RefundWallet
<1>28. CASE RefundSubscription(r)
  BY <1>28 DEF RefundSubscription, Bg, MoveFunding
<1>29. CASE RefundSubscriptionFails(r)
  BY <1>29 DEF RefundSubscriptionFails, Bg, Fails, MoveFunding
<1>30. CASE RefundExtra(r)
  BY <1>30 DEF RefundExtra, Bg, Fails, MoveFunding
<1>31. CASE RefundToken(r)
  BY <1>31 DEF RefundToken, Bg, Fails, MoveToken
<1> QED
  BY <1>1, <1>2, <1>3, <1>4, <1>5, <1>6, <1>7, <1>8, <1>9, <1>10, <1>11, <1>12,
     <1>13, <1>14, <1>15, <1>16, <1>17, <1>18, <1>19, <1>20, <1>21, <1>22, <1>23, <1>24,
     <1>25, <1>26, <1>27, <1>28, <1>29, <1>30, <1>31
  DEF Handler, PreConsume, Reserve, Settle, Penalty, Refund

\* Whatever database calls fail and whenever the process dies, no request leaves the wallet
\* or the token with more than it found: no credit of Refund, Settle or a roll-back is made
\* twice or without its debit.
THEOREM NobodyProfits == Spec => []NoProfit
<1>1. Init => CoveredInv
  <2> SUFFICES ASSUME Init, NEW r \in Requests PROVE CoveredAt(r)
    BY DEF CoveredInv
  <2>1. /\ pc[r] = "start" /\ bg[r] = "idle" /\ source[r] = "none"
        /\ taken[r] = 0 /\ tokTaken[r] = 0 /\ tokenConsumed[r] = 0
    BY DEF Init
  <2> QED BY <2>1 DEF CoveredAt, OnToken, PreLabels, RelayLabels
<1>2. BillingInv /\ CoveredInv /\ [Next]_vars => CoveredInv'
  <2> SUFFICES ASSUME BillingInv, CoveredInv, [Next]_vars PROVE CoveredInv'
    OBVIOUS
  <2>1. ASSUME NEW r \in Requests, Begin(r) \/ Handler(r) \/ Refund(r) PROVE CoveredInv'
    <3>1. CoveredAt(r)'
      BY <2>1, OwnCover DEF BillingInv, CoveredInv
    <3>2. ASSUME NEW q \in Requests, q # r PROVE CoveredAt(q)'
      <4>1. Same(q)
        BY <2>1, <3>2, Frame DEF BillingInv
      <4> QED BY <4>1, SameCover DEF CoveredInv
    <3> QED BY <3>1, <3>2 DEF CoveredInv
  <2>2. CASE ExpireSubscription \/ UNCHANGED vars
    <3>1. ASSUME NEW q \in Requests PROVE Same(q)
      BY <2>2 DEF ExpireSubscription, vars, Same
    <3> QED BY <3>1, SameCover DEF CoveredInv
  <2>3. CASE Crash
    <3> SUFFICES ASSUME NEW q \in Requests PROVE CoveredAt(q)'
      BY DEF CoveredInv
    <3>1. CASE pc'[q] = pc[q] /\ bg'[q] = bg[q]
      <4>1. Same(q)
        BY <2>3, <3>1 DEF Crash, Same
      <4> QED BY <4>1, SameCover DEF CoveredInv
    <3>2. CASE ~(pc'[q] = pc[q] /\ bg'[q] = bg[q])
      BY <2>3, <3>2 DEF Crash, CoveredInv, CoveredAt, HandlerOver, RefundOver, BillingInv, StepInv, TypeOK,
                        PreLabels, RelayLabels, OnToken
    <3> QED BY <3>1, <3>2
  <2> QED BY <2>1, <2>2, <2>3 DEF Next, AllOver
<1>3. CoveredInv => NoProfit
  BY DEF CoveredInv, CoveredAt, NoProfit
<1> QED BY <1>1, <1>2, <1>3, SpecInv, PTL DEF Spec

-----------------------------------------------------------------------------
(* The subscription's usage is the sum of what its requests hold. *)

\* The units of one request and those of the others: changing one amount by n changes
\* their number by n.
LEMMA UnitsSplit ==
  ASSUME NEW f \in [Requests -> Nat], NEW r \in Requests,
         IsFiniteSet(Units([f EXCEPT ![r] = 0]))
  PROVE  /\ IsFiniteSet(Units(f))
         /\ Cardinality(Units(f)) = Cardinality(Units([f EXCEPT ![r] = 0])) + f[r]
<1> DEFINE zero == [f EXCEPT ![r] = 0]
           own == {r} \X (1..f[r])
<1>1. IsFiniteSet(own) /\ Cardinality(own) = f[r]
  <2>1. f[r] \in Nat
    OBVIOUS
  <2>2. IsFiniteSet(1..f[r]) /\ Cardinality(1..f[r]) = f[r]
    BY <2>1, FS_Interval
  <2>3. IsFiniteSet({r}) /\ Cardinality({r}) = 1
    BY FS_Singleton
  <2>4. IsFiniteSet(own) /\ Cardinality(own) = Cardinality({r}) * Cardinality(1..f[r])
    <3> HIDE DEF own
    <3>1. \A S, T : IsFiniteSet(S) /\ IsFiniteSet(T) =>
            IsFiniteSet(S \X T) /\ Cardinality(S \X T) = Cardinality(S) * Cardinality(T)
      BY FS_Product
    <3> QED BY <2>2, <2>3, <3>1, Zenon DEF own
  <2> QED BY <2>1, <2>2, <2>3, <2>4
<1>2. Units(f) = Units(zero) \cup own
  <2>1. \A q \in Requests : q # r => zero[q] = f[q]
    OBVIOUS
  <2>2. zero[r] = 0 /\ 1..0 = {}
    OBVIOUS
  <2> HIDE DEF zero
  <2> QED BY <2>1, <2>2 DEF Units
<1>3. Units(zero) \cap own = {}
  <2>1. ASSUME NEW u \in Units(zero), u \in own PROVE FALSE
    <3>1. PICK q \in Requests : u \in {q} \X (1..zero[q])
      BY <2>1 DEF Units
    <3>2. u[1] = q /\ u[1] = r /\ u[2] \in 1..zero[q]
      BY <2>1, <3>1
    <3> QED BY <3>2
  <2> QED BY <2>1
<1>4. Cardinality({}) = 0 /\ Cardinality(Units(zero)) \in Nat
  BY FS_EmptySet, FS_CardinalityType
<1> HIDE DEF own, zero
<1>5. IsFiniteSet(Units(f)) /\ Cardinality(Units(f)) = Cardinality(Units(zero)) + f[r] - 0
  <2>1. IsFiniteSet(Units(zero))
    BY DEF zero
  <2> QED BY <1>1, <1>2, <1>3, <1>4, <2>1, FS_Union, SMTT(30)
<1>6. f[r] \in Nat
  OBVIOUS
<1> QED BY <1>4, <1>5, <1>6 DEF zero

\* A request whose amount changes changes the sum by as much, and is part of it.
LEMMA UnitsMove ==
  ASSUME NEW f \in [Requests -> Nat], NEW g \in [Requests -> Nat], NEW r \in Requests,
         \A q \in Requests : q # r => g[q] = f[q], IsFiniteSet(Units(f))
  PROVE  /\ IsFiniteSet(Units(g))
         /\ Cardinality(Units(f)) \in Nat /\ Cardinality(Units(f)) >= f[r]
         /\ Cardinality(Units(g)) = Cardinality(Units(f)) + g[r] - f[r]
<1> DEFINE zero == [f EXCEPT ![r] = 0]
<1>1. zero = [g EXCEPT ![r] = 0]
  OBVIOUS
<1>2. IsFiniteSet(Units(zero))
  <2>1. Units(zero) \subseteq Units(f)
    <3>1. \A q \in Requests : 1..zero[q] \subseteq 1..f[q]
      OBVIOUS
    <3> HIDE DEF zero
    <3> QED BY <3>1 DEF Units
  <2> QED BY <2>1, FS_Subset
<1>3. Cardinality(Units(zero)) \in Nat /\ f[r] \in Nat /\ g[r] \in Nat
  BY <1>2, FS_CardinalityType
<1>4. IsFiniteSet(Units(g)) /\ Cardinality(Units(g)) = Cardinality(Units(zero)) + g[r]
  BY <1>1, <1>2, UnitsSplit
<1>5. Cardinality(Units(f)) = Cardinality(Units(zero)) + f[r]
  BY <1>2, UnitsSplit
<1> HIDE DEF zero
<1> QED BY <1>3, <1>4, <1>5

Amounts == [r \in Requests |-> OnSubscription(r)]

\* A crash ends a request and its refund goroutine together; while no database call has
\* failed nobody holds a negative amount and the usage is their sum.
NoOrphans == \A r \in Requests : pc[r] = "crashed" => bg[r] \in {"idle", "done", "crashed"}
BooksInv ==
  (\A r \in Requests : ~fault[r]) =>
    /\ Amounts \in [Requests -> Nat] /\ IsFiniteSet(Units(Amounts))
    /\ subUsed = Cardinality(Units(Amounts))

\* A step that moves what request r holds moves the usage by as much.
Moves(r) == subUsed' = subUsed + OnSubscription(r)' - OnSubscription(r) /\ OnSubscription(r)' >= 0

\* PostConsumeUserSubscriptionDelta does, when the request gives back no more than it holds.
LEMMA MoveFundingMoves ==
  ASSUME TypeOK, NEW r \in Requests, NEW n \in Int, MoveFunding(r, n), UNCHANGED source,
         OnSubscription(r) >= 0, subUsed >= OnSubscription(r),
         source[r] = "subscription" => taken[r] + n >= 0
  PROVE  Moves(r)
<1>1. taken'[r] = taken[r] + n /\ taken[r] \in Int /\ subUsed \in Nat
  BY DEF TypeOK, MoveFunding
<1>2. CASE source[r] = "subscription"
  <2>1. subUsed' = NewUsed(n) /\ OnSubscription(r) = taken[r] /\ OnSubscription(r)' = taken'[r] /\ taken[r] + n >= 0
    BY <1>2 DEF MoveFunding, OnSubscription
  <2>2. subUsed + n >= 0 /\ subUsed' = subUsed + n
    BY <1>1, <2>1 DEF NewUsed
  <2> HIDE DEF OnSubscription
  <2> QED BY <1>1, <2>1, <2>2 DEF Moves
<1>3. CASE source[r] # "subscription"
  BY <1>1, <1>3 DEF MoveFunding, OnSubscription, Moves
<1> QED BY <1>2, <1>3

\* Nothing moves where neither the source nor the amounts change.
LEMMA NothingMoves ==
  ASSUME TypeOK, NEW r \in Requests, UNCHANGED <<source, taken, subUsed>>, OnSubscription(r) >= 0
  PROVE  Moves(r)
<1>1. OnSubscription(r)' = OnSubscription(r) /\ OnSubscription(r) \in Int /\ subUsed \in Nat
  BY DEF OnSubscription, TypeOK
<1> QED BY <1>1 DEF Moves

\* A request changes its funding source only before it has taken anything.
LEMMA SourceChanges ==
  ASSUME TypeOK, NEW r \in Requests, UNCHANGED <<taken, subUsed>>, taken[r] = 0
  PROVE  Moves(r)
<1>1. OnSubscription(r)' = 0 /\ OnSubscription(r) = 0 /\ subUsed \in Nat
  BY DEF OnSubscription, TypeOK
<1> QED BY <1>1 DEF Moves

\* So does every step of a request that has not failed: its ledger says what it holds.
LEMMA OwnMoves ==
  ASSUME TypeOK, StepInv, NoOrphans, NEW r \in Requests, LedgerAt(r), ~fault[r],
         OnSubscription(r) >= 0, subUsed >= OnSubscription(r), Begin(r) \/ Handler(r) \/ Refund(r), ~fault'[r]
  PROVE  Moves(r)
<1>0. /\ taken[r] \in Int /\ delta[r] \in Int /\ actual[r] \in Int /\ preConsumed[r] \in Nat /\ held[r] \in Nat
      /\ extraReserved[r] \in Nat /\ feePaid[r] \in Nat /\ Fee \in Nat /\ fault \in [Requests -> BOOLEAN]
  BY QuotaAssumption DEF TypeOK
<1>1. CASE UNCHANGED <<source, taken, subUsed>>
  BY <1>1, NothingMoves
<1>2. CASE Begin(r) \/ WalletRefuses(r) \/ RollbackToken(r)
  <2>1. pc[r] \in {"start", "tryWallet", "rollbackInsufficient", "rollbackError"} /\ UNCHANGED <<taken, subUsed>>
    BY <1>2 DEF Begin, WalletRefuses, RollbackToken
  <2>2. taken[r] = 0
    BY <2>1 DEF StepInv, LedgerAt, PreLabels, BeforeHold
  <2> QED BY <2>1, <2>2, SourceChanges
<1>3. CASE PreConsumeFunding(r)
  <2>1. taken[r] = 0 /\ delta[r] >= 0
    BY <1>3 DEF PreConsumeFunding, StepInv, LedgerAt, PreLabels, BeforeHold
  <2> QED BY <1>0, <1>3, <2>1, MoveFundingMoves DEF PreConsumeFunding
<1>4. CASE ReserveFunding(r)
  <2>1. PICK target \in Targets : MoveFunding(r, target - preConsumed[r]) /\ target > preConsumed[r]
    BY <1>4 DEF ReserveFunding
  <2>2. target \in Nat
    BY QuotaAssumption
  <2>3. source[r] = "subscription" => taken[r] + (target - preConsumed[r]) >= 0
    BY <1>0, <2>1, <2>2 DEF OnSubscription
  <2> QED BY <1>0, <1>4, <2>1, <2>2, <2>3, MoveFundingMoves DEF ReserveFunding
<1>5. CASE RollbackFundingReserve(r)
  <2>1. MoveFunding(r, -delta[r])
    BY <1>0, <1>5 DEF RollbackFundingReserve, Fails
  <2>2. taken[r] = preConsumed[r] + delta[r]
    BY <1>5 DEF RollbackFundingReserve, StepInv, LedgerAt, RelayLabels, WhileRelaying, Reserving
  <2> QED BY <1>0, <1>5, <2>1, <2>2, MoveFundingMoves DEF RollbackFundingReserve
<1>6. CASE SettleFunding(r)
  <2>1. taken[r] = preConsumed[r] /\ delta[r] = actual[r] - preConsumed[r] /\ actual[r] >= 0
    BY <1>6 DEF SettleFunding, StepInv, LedgerAt, WhileSettling
  <2>2. taken[r] + delta[r] >= 0
    BY <1>0, <2>1
  <2> QED BY <1>0, <1>6, <2>2, MoveFundingMoves DEF SettleFunding
<1>7. CASE ChargeFee(r)
  <2>1. source[r] = "subscription" => taken[r] + Fee >= 0
    BY <1>0 DEF OnSubscription
  <2> QED BY <1>0, <1>7, <2>1, MoveFundingMoves DEF ChargeFee
<1>8. ASSUME bg[r] \in {"funding", "extra"} PROVE AfterFailure(r)
  BY <1>8, <1>0 DEF TypeOK, StepInv, NoOrphans, LedgerAt, AfterSuccess
<1>9. CASE RefundWallet(r) \/ RefundSubscription(r)
  <2>1. MoveFunding(r, -held[r]) \/ UNCHANGED <<subUsed, taken>>
    BY <1>9 DEF RefundWallet, RefundSubscription
  <2>2. UNCHANGED source /\ bg[r] = "funding"
    BY <1>9 DEF RefundWallet, RefundSubscription
  <2>3. source[r] = "subscription" => taken[r] + (-held[r]) >= 0
    BY <1>0, <1>8, <2>2 DEF AfterFailure, HoldBooked
  <2> QED BY <1>0, <1>1, <2>1, <2>2, <2>3, MoveFundingMoves
<1>10. CASE RefundExtra(r)
  <2>1. (MoveFunding(r, -extraReserved[r]) /\ source[r] = "subscription") \/ UNCHANGED <<subUsed, taken>>
    BY <1>10 DEF RefundExtra
  <2>2. UNCHANGED source /\ bg[r] = "extra"
    BY <1>10 DEF RefundExtra
  <2>3. source[r] = "subscription" => taken[r] + (-extraReserved[r]) >= 0
    BY <1>0, <1>8, <2>2 DEF AfterFailure
  <2> QED BY <1>0, <1>1, <2>1, <2>2, <2>3, MoveFundingMoves
<1>11. CASE RefundSubscriptionFails(r)
  BY <1>0, <1>11 DEF RefundSubscriptionFails, Fails
<1>12. CASE TryWallet(r) \/ WalletUnreadable(r) \/ TrySubscription(r)
  BY <1>1, <1>12 DEF TryWallet, WalletUnreadable, TrySubscription
<1>13. CASE CheckToken(r) \/ TakeToken(r) \/ TakeTokenFails(r)
  BY <1>1, <1>13 DEF CheckToken, TokenCheck, TakeToken, TakeTokenFails
<1>14. CASE FundingInsufficient(r) \/ FundingFails(r)
  BY <1>1, <1>14 DEF FundingInsufficient, FundingFails
<1>15. CASE ReserveCheck(r) \/ ReserveToken(r) \/ ReserveTokenFails(r)
  BY <1>1, <1>15 DEF ReserveCheck, TokenCheck, ReserveToken, ReserveTokenFails
<1>16. CASE RelaySucceeds(r) \/ RelayFails(r)
  BY <1>1, <1>16 DEF RelaySucceeds, RelayFails
<1>17. CASE SettleNothing(r) \/ SettleFundingFails(r) \/ SettleToken(r)
  BY <1>1, <1>17 DEF SettleNothing, SettleFundingFails, SettleToken
<1>18. CASE NoFee(r) \/ ChargeFeeToken(r) \/ RefundToken(r)
  BY <1>1, <1>18 DEF NoFee, ChargeFeeToken, RefundToken
<1> QED
  BY <1>2, <1>3, <1>4, <1>5, <1>6, <1>7, <1>9, <1>10, <1>11, <1>12, <1>13, <1>14, <1>15, <1>16, <1>17, <1>18
  DEF Handler, PreConsume, Reserve, Settle, Penalty, Refund

\* Failures are remembered.
LEMMA FaultStays ==
  ASSUME TypeOK, NEW r \in Requests, Begin(r) \/ Handler(r) \/ Refund(r), ~fault'[r]
  PROVE  ~fault[r]
<1>0. fault \in [Requests -> BOOLEAN]
  BY DEF TypeOK
<1>1. Fails(r) \/ UNCHANGED fault
  <2>1. CASE Begin(r) \/ PreConsume(r)
    BY <2>1 DEF Begin, PreConsume, TryWallet, WalletRefuses, WalletUnreadable, TrySubscription, CheckToken, TokenCheck,
                TakeToken, TakeTokenFails, PreConsumeFunding, FundingInsufficient, FundingFails, RollbackToken
  <2>2. CASE Reserve(r)
    BY <2>2 DEF Reserve, ReserveFunding, ReserveCheck, TokenCheck, ReserveToken, ReserveTokenFails, RollbackFundingReserve
  <2>3. CASE RelaySucceeds(r) \/ RelayFails(r) \/ Settle(r) \/ Penalty(r)
    BY <2>3 DEF RelaySucceeds, RelayFails, Settle, SettleNothing, SettleFunding, SettleFundingFails, SettleToken, Penalty,
                ChargeFee, NoFee, ChargeFeeToken
  <2>4. CASE Refund(r)
    BY <2>4 DEF Refund, RefundWallet, RefundSubscription, RefundSubscriptionFails, RefundExtra, RefundToken
  <2> QED BY <2>1, <2>2, <2>3, <2>4 DEF Handler
<1> QED BY <1>0, <1>1 DEF Fails

\* A crash leaves no refund goroutine behind, and none is started later.
LEMMA NoOrphansStep ==
  ASSUME TypeOK, NoOrphans, [Next]_vars
  PROVE  NoOrphans'
<1> USE DEF TypeOK, NoOrphans
<1>1. ASSUME NEW r \in Requests, Begin(r) \/ Handler(r) \/ Refund(r) PROVE NoOrphans'
  <2>1. \A q \in Requests : q # r => pc'[q] = pc[q] /\ bg'[q] = bg[q]
    BY <1>1, Frame DEF Same
  <2>2. pc'[r] = "crashed" => bg'[r] \in {"idle", "done", "crashed"}
    <3>1. CASE Refund(r)
      BY <3>1 DEF Refund, RefundWallet, RefundSubscription, RefundSubscriptionFails, RefundExtra, RefundToken, Bg
    <3>2. CASE Begin(r) \/ PreConsume(r)
      BY <3>2 DEF Begin, PreConsume, TryWallet, WalletRefuses, WalletUnreadable, TrySubscription, CheckToken, TokenCheck,
                  TakeToken, TakeTokenFails, PreConsumeFunding, FundingInsufficient, FundingFails, RollbackToken, Goto,
                  FallBack, TryLabel
    <3>3. CASE Reserve(r)
      BY <3>3 DEF Reserve, ReserveFunding, ReserveCheck, TokenCheck, ReserveToken, ReserveTokenFails,
                  RollbackFundingReserve, Goto
    <3>4. CASE RelaySucceeds(r) \/ RelayFails(r) \/ Settle(r) \/ Penalty(r)
      BY <3>4 DEF RelaySucceeds, RelayFails, Settle, SettleNothing, SettleFunding, SettleFundingFails, SettleToken,
                  Penalty, ChargeFee, NoFee, ChargeFeeToken, Goto
    <3> QED BY <1>1, <3>1, <3>2, <3>3, <3>4 DEF Handler
  <2> QED BY <2>1, <2>2
<1>2. CASE Crash
  BY <1>2 DEF Crash, HandlerOver, RefundOver
<1>3. CASE ExpireSubscription \/ UNCHANGED vars
  BY <1>3 DEF ExpireSubscription, vars
<1> QED BY <1>1, <1>2, <1>3 DEF Next, AllOver

\* Every step keeps the books.
LEMMA BooksStep ==
  ASSUME BillingInv, NoOrphans, BooksInv, [Next]_vars
  PROVE  BooksInv'
<1> USE DEF BillingInv
<1>1. ASSUME NEW r \in Requests, Begin(r) \/ Handler(r) \/ Refund(r) PROVE BooksInv'
  <2> SUFFICES ASSUME \A q \in Requests : ~fault'[q]
               PROVE  /\ Amounts' \in [Requests -> Nat] /\ IsFiniteSet(Units(Amounts'))
                      /\ subUsed' = Cardinality(Units(Amounts'))
    BY DEF BooksInv, Units
  <2>1. \A q \in Requests : q # r => Same(q)
    BY <1>1, Frame
  <2>2. \A q \in Requests : ~fault[q]
    BY <1>1, <2>1, FaultStays DEF Same
  <2>3. Amounts \in [Requests -> Nat] /\ IsFiniteSet(Units(Amounts)) /\ subUsed = Cardinality(Units(Amounts))
    BY <2>2 DEF BooksInv
  <2>4. Amounts[r] = OnSubscription(r) /\ Amounts'[r] = OnSubscription(r)' /\ Amounts[r] \in Nat
    BY <2>3 DEF Amounts
  <2>5. subUsed \in Nat /\ subUsed >= OnSubscription(r) /\ OnSubscription(r) >= 0
    BY <2>3, <2>4, UnitsMove
  <2>6. Moves(r)
    BY <1>1, <2>2, <2>5, OwnMoves DEF LedgerInv
  <2>7. OnSubscription(r)' \in Nat
    <3>1. TypeOK'
      BY <1>1, TypeOKStep
    <3> QED BY <2>6, <3>1 DEF Moves, OnSubscription, TypeOK
  <2>8. \A q \in Requests : q # r => Amounts'[q] = Amounts[q]
    BY <2>1 DEF Amounts, OnSubscription, Same
  <2>9. Amounts' \in [Requests -> Nat]
    <3>1. \A q \in Requests : OnSubscription(q)' \in Nat
      BY <2>3, <2>7, <2>8 DEF Amounts
    <3> QED BY <3>1 DEF Amounts
  <2>10. IsFiniteSet(Units(Amounts')) /\ Cardinality(Units(Amounts')) = Cardinality(Units(Amounts)) + Amounts'[r] - Amounts[r]
    BY <2>3, <2>8, <2>9, UnitsMove
  <2> QED BY <2>3, <2>4, <2>6, <2>9, <2>10 DEF Moves
<1>2. CASE UNCHANGED <<source, taken, subUsed, fault>>
  <2>1. Amounts' = Amounts
    BY <1>2 DEF Amounts, OnSubscription
  <2> QED BY <1>2, <2>1 DEF BooksInv, Units
<1> QED BY <1>1, <1>2 DEF Next, ExpireSubscription, Crash, AllOver, vars

\* For any number of requests, while no database call fails, the subscription's used amount
\* is the sum of what its requests hold or were charged, whatever the order of their
\* pre-consumes, reserves, settlements, fees and refunds and whenever the process dies.
THEOREM SubscriptionBooksExact == Spec => []SubscriptionLedger
<1>1. Init => NoOrphans /\ BooksInv
  <2> SUFFICES ASSUME Init PROVE NoOrphans /\ BooksInv
    OBVIOUS
  <2>1. NoOrphans
    BY DEF Init, NoOrphans
  <2>2. \A r \in Requests : Amounts[r] = 0
    BY DEF Init, Amounts, OnSubscription
  <2>3. Amounts \in [Requests -> Nat]
    BY <2>2 DEF Amounts
  <2>4. Units(Amounts) = {}
    <3>1. 1..0 = {}
      OBVIOUS
    <3> QED BY <2>2, <3>1 DEF Units
  <2> QED BY <2>1, <2>3, <2>4, FS_EmptySet DEF Init, BooksInv
<1>2. BillingInv /\ NoOrphans /\ BooksInv /\ [Next]_vars => NoOrphans' /\ BooksInv'
  BY NoOrphansStep, BooksStep DEF BillingInv
<1>3. BooksInv => SubscriptionLedger
  BY DEF BooksInv, SubscriptionLedger, Amounts
<1> QED BY <1>1, <1>2, <1>3, SpecInv, PTL DEF Spec

=============================================================================
