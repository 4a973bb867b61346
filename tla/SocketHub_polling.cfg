SPECIFICATION Spec
CONSTANTS
  Sessions = {s1}
  Rooms = {e1}
  Conns = {}
  Deaf = {}
  Posters = {p1}
  Callers = {o1}
  Packets = {"join", "leave", "message", "invalid"}
  NoSession = NoSession
  NoRoom = NoRoom
  NoConn = NoConn
  QueueCap = 2
  BatchMax = 2
  Orderly = TRUE
  PollsAbort = TRUE
  MaxMessages = 2
  Upgrades = FALSE
INVARIANTS
  AuthorsInOrder
  MembersServed
  StatusTellsTheTruth
