CONSTANTS
  Tasks = {t1}
  Pollers = {p1}
  Fetchers = {f1}
  Platform = "video"
  Quota = 2
  Estimates = {2, 3}
  Actuals = {0, 1, 3}
  SweepEnabled = TRUE
  Legacy = {}
  SubLimited = FALSE
  ChannelMayGo = FALSE
  FetchesEnd = TRUE
  DBFaults = FALSE
  Crashes = FALSE
  MaxRefunds = 3
  MaxFetches = 1
SPECIFICATION Spec
INVARIANTS
  RefundWithinCharge
