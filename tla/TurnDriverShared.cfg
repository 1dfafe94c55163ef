CONSTANTS
  t1 = t1
  t2 = t2
  t3 = t3
  r1 = r1
  r2 = r2
  r3 = r3
  u1 = u1
  u2 = u2
  u3 = u3
  NoId = NoId
  Turns = {t1, t2}
  ResponseIds = {r1, r2}
  TurnIds = {u1, u2}
  NewResponseId <- SharedResponseIds
  NewTurnId <- SharedTurnIds
  MaxOutputEvents = 2
SPECIFICATION Spec
INVARIANTS
  TypeOK
  MapsAgree
  CompletedEventIsStored
  EventsAreAStream
  ToldIsStored
  SinkHearsOfCommits
  ErrorsLeaveNoTrace
PROPERTIES
  StoredStays
  GrowsConversations
  NeverStuck
