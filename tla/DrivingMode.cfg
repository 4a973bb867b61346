SPECIFICATION Spec
CONSTANTS
  Handlers = {h1, h2, h3}
  None = None
  Configs <- EveryConfig
  MaxRestarts = 1
SYMMETRY Symmetric
INVARIANTS
  AcknowledgedStands
  OffMeansNoRound
  CopiesAgree
