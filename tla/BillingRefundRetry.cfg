SPECIFICATION Spec
CONSTANTS
  Requests = {r1, r2}
  WalletQuota = 3
  TokenQuota = 4
  TokenUnlimited = TRUE
  SubTotal = 3
  SubUpgrades = FALSE
  TrustQuota = 0
  Fee = 0
  Estimates = {2}
  Actuals = {1}
  Targets = {}
  Preferences = {"subscription_only"}
  Playgrounds = {FALSE}
  Forced = {FALSE}
  DBFaults = TRUE
  Crashes = FALSE
SYMMETRY RequestSymmetry
INVARIANTS RefundIdempotent
