CONSTANTS
  Tasks = {t1, t2}
  Pollers = {p1}
  Fetchers = {}
  Platform = "suno"
  Quota = 2
  Estimates = {2, 3}
  Actuals = {0, 1, 3}
  SweepEnabled = TRUE
  Legacy = {t2}
  SubLimited = FALSE
  ChannelMayGo = FALSE
  FetchesEnd = TRUE
  DBFaults = TRUE
  Crashes = TRUE
  MaxRefunds = 2
  MaxFetches = 0
SPECIFICATION Spec
INVARIANTS
  ChargeMatchesStatus
