CONSTANTS
  p1 = p1  p2 = p2  k1 = k1  k2 = k2  a = a  v = v  w = w
  Ports = {p1}
  Threads = {p1}
  Clients = {k1, k2}
  Keys = {a}
  Vals = {v, w}
  NoVal = NoVal
  NoRes = NoRes
  NoReq = NoReq
  Nothing = Nothing
  NoConn = NoConn
  Assignments <- MethodAssignments
  MaxConns = 2
  Backlog = 1
  MaxShorts = 1
  MaxFaults = 1
  SafetyLimit = 0
  HistMod = 1
  MaxSections = 4
SPECIFICATION FairSpec
INVARIANTS AnswersOwnRequest ResponseHasServerRecord LogPairs BodiesBounded EndsByQuit DeathNeedsFault WaitNeedsShortWrite
PROPERTIES ClientsEnd QuitStops
CHECK_DEADLOCK FALSE
