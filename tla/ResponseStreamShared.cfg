CONSTANTS
  t1 = t1
  t2 = t2
  r1 = r1
  r2 = r2
  u1 = u1
  u2 = u2
  NoId = NoId
  Turns = {t1, t2}
  ResponseIds = {r1, r2}
  TurnIds = {u1, u2}
  NewResponseId <- SharedResponseIds
  NewTurnId <- SharedTurnIds
  MaxOutputEvents = 1
  Capacity = 1
SPECIFICATION StreamSpec
INVARIANTS
  StreamTypeOK
  OneNumberedStream
  EndOfStreamIsTrue
