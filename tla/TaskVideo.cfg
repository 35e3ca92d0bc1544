CONSTANTS
  Tasks = {t1}
  Pollers = {p1, p2, p3}
  Fetchers = {}
  Platform = "video"
  Quota = 2
  Estimates = {2, 3}
  Actuals = {0, 1, 3}
  SweepEnabled = TRUE
  Legacy = {}
  SubLimited = TRUE
  ChannelMayGo = FALSE
  FetchesEnd = TRUE
  DBFaults = TRUE
  Crashes = TRUE
  MaxRefunds = 3
  MaxFetches = 0
SYMMETRY PollerSymmetry
SPECIFICATION Spec
INVARIANTS
  RefundWithinCharge
  ChargeMatchesStatus
PROPERTIES
  FinalIsFinal
