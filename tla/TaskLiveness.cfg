CONSTANTS
  Tasks = {t1}
  Pollers = {p1, p2}
  Fetchers = {f1}
  Platform = "video"
  Quota = 2
  Estimates = {2, 3}
  Actuals = {0, 1, 3}
  SweepEnabled = TRUE
  Legacy = {}
  SubLimited = FALSE
  ChannelMayGo = TRUE
  FetchesEnd = TRUE
  DBFaults = FALSE
  Crashes = FALSE
  MaxRefunds = 3
  MaxFetches = 2
SPECIFICATION FairSpec
INVARIANTS
  TypeOK
PROPERTIES
  EventuallyFinal
