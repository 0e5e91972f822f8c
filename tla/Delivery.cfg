CONSTANTS
  v1 = v1
  v2 = v2
  a1 = a1
  m1 = m1
  m2 = m2
  e = e
  u1 = u1
  u2 = u2
  r1 = r1
  r2 = r2
  Off = Off
  Unmade = Unmade
  Gone = Gone
  NoMail = NoMail
  Runner = Runner
  Servers <- OneServer
  EventHooks <- OneHook
  Events <- OneEvent
  HooksFor <- HooksForEvent
  Owner <- OwnerOfHook
  Urls <- RemoteUrl
  Remote <- RemoteUrl
  Mails <- OneMail
  Requests <- TwoRequests
  Answers <- AllAnswers
  OutboundDelays <- OneRetry
  InboundDelays <- TwoRetries
  MaxTime = 2
  MaxChains = 2
  MaxMail = 1
SPECIFICATION Spec
INVARIANTS TypeOK StatusFollowsChain RetriesKeepSchedule
PROPERTIES InboundSpec
CHECK_DEADLOCK FALSE
SYMMETRY Symmetry
