SPECIFICATION Spec
CONSTANTS
  Sessions = {s1,s2}
  Rooms = {e1}
  Conns = {c1,c2}
  Deaf = {}
  Posters = {}
  Callers = {o1}
  Packets = {"join", "message"}
  NoSession = NoSession
  NoRoom = NoRoom
  NoConn = NoConn
  QueueCap = 1
  BatchMax = 1
  Orderly = TRUE
  PollsAbort = FALSE
  MaxMessages = 2
  Upgrades = FALSE
INVARIANT OneWriter
CHECK_DEADLOCK FALSE
