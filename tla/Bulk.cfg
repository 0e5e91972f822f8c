CONSTANTS
  a1 = a1
  a2 = a2
  Addresses <- TwoAddresses
  Local <- OneLocal
  Submissions <- ThreeKinds
  StartDelay = 2
  StepDelay = 1
  PageSizes = {1}
  MaxRequests = 3
  MaxMessages = 3
  MaxChanges = 1
  MaxSeeds = 1
  MaxEvents = 4
SPECIFICATION Spec
INVARIANTS TypeOK CountersMatch ListingComplete
PROPERTIES LifeSpec Completes
CHECK_DEADLOCK FALSE
