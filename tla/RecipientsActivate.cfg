CONSTANTS
  s1 = s1
  e1 = e1
  e2 = e2
  m1 = m1
  r1 = r1
  r2 = r2
  NoMessage = NoMessage
  Runner = Runner
  StreamIDs <- OneStream
  Unarchivable = {}
  Broadcasts <- OneStream
  Emails <- OneEmail
  FakeBounce <- NoFake
  MessageIDs <- OneMessage
  Requests <- TwoRequests
  Slow <- AllEvents
  PurgeDelay = 1
  MaxTime = 0
  MaxBounces = 1
  MaxList = 1
SPECIFICATION Spec
INVARIANT ActivateFindsRow
CHECK_DEADLOCK FALSE
