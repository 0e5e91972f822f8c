CONSTANTS
  a1 = a1
  a2 = a2
  Addresses <- TwoAddresses
  Local <- OneLocal
  Requests <- AllRequests
  Rules <- TwoRules
  MailFaults = {"nothing"}
  SmtpRules <- OnePerStage
  Writers = {"w"}
  MaxCalls = 2
  MaxControls = 2
  MaxSeeds = 1
  MaxEvents = 4
SPECIFICATION Spec
INVARIANTS RulesCounted AnswersHold
PROPERTY AllAnswered
CHECK_DEADLOCK FALSE
