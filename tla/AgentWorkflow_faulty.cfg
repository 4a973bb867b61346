SPECIFICATION Spec
CONSTANTS
  Runners = {r1}
  NPlans = 2
  StoreErrors = TRUE
  MaxFailures = 4
INVARIANTS
  SpokenIsStored
  FinishedRoundIsWhole
  CompletionIsEarned
