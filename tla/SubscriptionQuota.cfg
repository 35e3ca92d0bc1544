CONSTANTS
  Subs = {1, 2}
  Requests = {1, 2}
  Total <- MCTotal
  MaxPeriods <- MCPeriods
  MaxEvents = 1
  MaxFaults = 1
SPECIFICATION Spec
INVARIANTS TypeOK UsedWithinTotal RefundedOnce SlipsExplained
PROPERTIES EndedStaysEnded LedgerImplemented
