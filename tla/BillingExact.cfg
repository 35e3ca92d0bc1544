SPECIFICATION Spec
CONSTANTS
  Requests = {r1, r2}
  WalletQuota = 4
  TokenQuota = 5
  TokenUnlimited = FALSE
  SubTotal = 4
  SubUpgrades = FALSE
  TrustQuota = 3
  Fee = 1
  Estimates = {0, 2}
  Actuals = {1, 3}
  Targets = {3}
  Preferences = {"wallet_first", "subscription_first"}
  Playgrounds = {TRUE, FALSE}
  Forced = {TRUE, FALSE}
  DBFaults = FALSE
  Crashes = FALSE
SYMMETRY RequestSymmetry
INVARIANTS ExactCharge LedgersAgree SubscriptionLedger
