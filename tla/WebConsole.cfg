SPECIFICATION Spec
CONSTANTS
  MaxRounds = 2
  MaxEdits = 2
  MaxFaults = 1
  NPages = 2
  MaxCalls = 4
  MaxMisses = 1
  NChannels = 2
  NModels = 3
  ConcurrencyLimit = 2
  MaxBatches = 2
  MaxSingles = 1
  NRecords = 2
  MaxOpens = 2
  MaxErrs = 1
INVARIANTS CleanIsStored FieldsKept FreshRows PagerAgrees ShownIsTested SummaryComplete OwnContents IntentKept
PROPERTIES PagesSettle
CHECK_DEADLOCK FALSE
