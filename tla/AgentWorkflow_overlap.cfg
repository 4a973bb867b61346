SPECIFICATION FairSpec
CONSTANTS
  Runners = {r1, r2}
  NPlans = 1
  StoreErrors = FALSE
  MaxFailures = 1
INVARIANTS
  LineageIsTidy
  OneRoundPerRunner
PROPERTIES
  RoundFinishes
  InterruptedStaysOpen
