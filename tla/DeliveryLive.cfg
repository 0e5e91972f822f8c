CONSTANTS
  v1 = v1
  v2 = v2
  a1 = a1
  m1 = m1
  m2 = m2
  e = e
  u1 = u1
  u2 = u2
  r1 = r1
  r2 = r2
  Off = Off
  Unmade = Unmade
  Gone = Gone
  NoMail = NoMail
  Runner = Runner
  Servers <- TwoServers
  EventHooks <- NoHooks
  Events <- NoEvents
  HooksFor <- NoHooksFor
  Owner <- OwnerOfMails
  Urls <- RemoteUrl
  Remote <- RemoteUrl
  Mails <- TwoMails
  Requests <- OneRequest
  Answers <- GoodOrBad
  OutboundDelays <- OneRetry
  InboundDelays <- OneRetry
  MaxTime = 2
  MaxChains = 2
  MaxMail = 2
SPECIFICATION FairSpec
PROPERTIES RetriesRun QueuedIsDelivered
CHECK_DEADLOCK FALSE
