CONSTANTS
  a = a
  b = b
  CR = CR
  LF = LF
  Chunks = {a, b}
  DoneMark = DoneMark
  Text = Text
  Garbage = Garbage
  Configurations <- PlainConfiguration
  Symbols <- LongSymbols
  MaxBytes = 8
  MaxPiece = 2
SPECIFICATION Spec
CHECK_DEADLOCK FALSE
INVARIANTS
  CutsDoNotMatter
  EventsAreRead
