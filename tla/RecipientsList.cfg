CONSTANTS
  s1 = s1
  e1 = e1
  e2 = e2
  m1 = m1
  r1 = r1
  r2 = r2
  NoMessage = NoMessage
  Runner = Runner
  StreamIDs <- OneStream
  Unarchivable = {}
  Broadcasts = {}
  Emails <- TwoEmails
  FakeBounce <- BothFake
  MessageIDs <- OneMessage
  Requests <- OneRequest
  Slow <- NoBounceEvents
  PurgeDelay = 1
  MaxTime = 1
  MaxBounces = 1
  MaxList = 2
SPECIFICATION FairSpec
INVARIANTS InactiveMatchesRow SkippedNeverBounces
PROPERTIES ListSpec FakeBounceComes
CHECK_DEADLOCK FALSE
