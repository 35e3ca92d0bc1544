SPECIFICATION FairSpec
CONSTANTS
  Requests = {r1, r2}
  WalletQuota = 2
  TokenQuota = 4
  TokenUnlimited = FALSE
  SubTotal = 3
  SubUpgrades = TRUE
  TrustQuota = 0
  Fee = 0
  Estimates = {2}
  Actuals = {0}
  Targets = {}
  Preferences = {"wallet_only"}
  Playgrounds = {FALSE}
  Forced = {FALSE}
  DBFaults = TRUE
  Crashes = TRUE
PROPERTIES EventuallyOver
