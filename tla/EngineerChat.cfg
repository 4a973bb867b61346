SPECIFICATION FairSpec
CONSTANTS
  Handlers = {h1, h2}
  HistoryLimit = 2
  Stores = {"memory", "postgres"}
  StoreErrors = TRUE
  MaxRequests = 3
  MaxRestarts = 1
CHECK_DEADLOCK FALSE
INVARIANTS
  PromptKnowsAnswers
  AckedIsToldAndStored
PROPERTIES
  QuestionsEnd
