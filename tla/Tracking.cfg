CONSTANTS
  r1 = r1
  r2 = r2
  l1 = l1
  Recipients <- TwoRecipients
  Links <- OneLink
  Drafts <- OneDraft
  BounceTypes <- TwoTypes
  Retention = 1
  FirstOpensOnly = TRUE
  SmtpErrors = TRUE
  Lists <- OpensAndClicks
  PageSizes = {1}
  MaxWindow = 3
  MaxTime = 2
  MaxSends = 1
  MaxReports = 4
SPECIFICATION Spec
INVARIANTS TypeOK FirstsAgree StoryHolds OverviewAdds PagingMissesNone
CHECK_DEADLOCK FALSE
