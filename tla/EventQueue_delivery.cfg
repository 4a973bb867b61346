SPECIFICATION FairSpec
CONSTANTS
  notice = notice
  work = work
  broken = broken
  NoMessage = NoMessage
  Messages = {notice, work, broken}
  Kind <- KindOf
  Workers = {w1,w2}
  Prefetch = 2
  MaxFailures = 1
INVARIANTS
  InOnePlace
  AckedIsDone
  RepeatsHaveCauses
PROPERTIES
  AcceptedIsAcked
CHECK_DEADLOCK FALSE
