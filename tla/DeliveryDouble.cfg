CONSTANTS
  v1 = v1
  v2 = v2
  a1 = a1
  m1 = m1
  m2 = m2
  e = e
  u1 = u1
  u2 = u2
  r1 = r1
  r2 = r2
  Off = Off
  Unmade = Unmade
  Gone = Gone
  NoMail = NoMail
  Runner = Runner
  Servers <- TwoServers
  EventHooks <- NoHooks
  Events <- NoEvents
  HooksFor <- NoHooksFor
  Owner <- OwnerOfMails
  Urls <- OneUrl
  Remote = {}
  Mails <- TwoMails
  Requests <- TwoRequests
  Answers <- AllAnswers
  OutboundDelays <- OneRetry
  InboundDelays <- OneRetry
  MaxTime = 1
  MaxChains = 3
  MaxMail = 2
SPECIFICATION Spec
INVARIANT WaitingIsScheduled
CHECK_DEADLOCK FALSE
