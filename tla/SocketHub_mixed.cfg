SPECIFICATION FairSpec
CONSTANTS
  Sessions = {s1}
  Rooms = {e1}
  Conns = {c1}
  Deaf = {c1}
  Posters = {p1}
  Callers = {}
  Packets = {"join", "test", "engine"}
  NoSession = NoSession
  NoRoom = NoRoom
  NoConn = NoConn
  QueueCap = 1
  BatchMax = 1
  Orderly = FALSE
  PollsAbort = FALSE
  MaxMessages = 1
  Upgrades = TRUE
INVARIANTS
  RoomsAgree
PROPERTIES
  QueuedIsReceived
  RequestsEnd
CHECK_DEADLOCK FALSE
