SPECIFICATION Spec
CONSTANTS
  Requests = {r1, r2}
  WalletQuota = 2
  TokenQuota = 4
  TokenUnlimited = FALSE
  SubTotal = 3
  SubUpgrades = FALSE
  TrustQuota = 0
  Fee = 0
  Estimates = {2}
  Actuals = {0}
  Targets = {3}
  Preferences = {"subscription_first"}
  Playgrounds = {FALSE}
  Forced = {FALSE}
  DBFaults = TRUE
  Crashes = TRUE
SYMMETRY RequestSymmetry
INVARIANTS TypeOK NoProfit SubscriptionWithinTotal
