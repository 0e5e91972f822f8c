CONSTANTS
  w1 = w1
  h1 = h1
  u1 = u1
  NoWork = NoWork
  Modes <- BothModes
  Works <- TwoWorks
  Held <- OneHeld
  Delays = {1, 2}
  Amounts = {2}
  MaxTimer = 1
  Seeders <- OneSeeder
  MaxReal = 1
  MaxJobs = 2
  MaxResets = 1
SPECIFICATION FairSpec
INVARIANTS TypeOK OneAtATime RunOnce HoldsHaveTasks ResetsWhenIdle
PROPERTIES AgendaSpec JobsFinish HeldAnswered
CHECK_DEADLOCK FALSE
