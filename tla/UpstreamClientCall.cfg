CONSTANTS
  a = a
  b = b
  CR = CR
  LF = LF
  Chunks = {a, b}
  DoneMark = DoneMark
  Text = Text
  Garbage = Garbage
  Configurations <- EveryConfiguration
  Symbols <- EverySymbol
  MaxBytes = 5
  MaxPiece = 3
SPECIFICATION Spec
CHECK_DEADLOCK FALSE
INVARIANTS
  TypeOK
  LastResponseDecides
  EventsAreRead
PROPERTIES
  DrainingEnds
