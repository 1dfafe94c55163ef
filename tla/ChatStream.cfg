CONSTANTS
  None = None
  Letters <- SomeLetters
  Contents <- AFewContents
  ToolCalls <- AFewCalls
  Reasons <- EveryReason
  Usages <- AFewUsages
  MaxIndex = 2
  MaxPieces = 5
SPECIFICATION Spec
CHECK_DEADLOCK FALSE
INVARIANTS
  TypeOK
  EventsCarryTheOutput
  MalformedIsDisagreement
  FragmentsMakeTheWhole
