CONSTANTS
  s1 = s1
  e1 = e1
  e2 = e2
  m1 = m1
  r1 = r1
  r2 = r2
  NoMessage = NoMessage
  Runner = Runner
  StreamIDs <- OneStream
  Unarchivable = {}
  Broadcasts <- OneStream
  Emails <- TwoEmails
  FakeBounce <- FakeFirst
  MessageIDs <- OneMessage
  Requests <- TwoRequests
  Slow <- AllEvents
  PurgeDelay = 1
  MaxTime = 1
  MaxBounces = 2
  MaxList = 1
SPECIFICATION Spec
INVARIANTS TypeOK InactiveCovered BouncesOnOwnStream ReportsEndOnce
PROPERTY PurgedOnlyWhenDue
SYMMETRY Symmetry
CHECK_DEADLOCK FALSE
