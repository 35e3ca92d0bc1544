CONSTANTS
  MaxRequests = 2
  MaxLength = 4
  MaxActs = 4
  QuickUser = FALSE
  MaxPriceEdits = 2
  MaxSubmits = 2
  MaxLosses = 1
SPECIFICATION Spec
INVARIANTS OnlyLastGenerates StreamedAnswerStored ShownIsCharged UntouchedKeepsPrice EditorShowsPrice
PROPERTIES AnswersNotMixed
CHECK_DEADLOCK FALSE
