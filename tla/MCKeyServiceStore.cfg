CONSTANTS
  p1 = p1  p2 = p2  k1 = k1  k2 = k2  a = a  v = v  w = w
  Ports = {p1, p2}
  Threads = {p1, p2}
  Clients = {k1, k2}
  Keys = {a}
  Vals = {v, w}
  NoVal = NoVal
  NoRes = NoRes
  NoReq = NoReq
  Nothing = Nothing
  NoConn = NoConn
  Assignments <- StoreAssignments
  MaxConns = 1
  Backlog = 1
  MaxShorts = 0
  MaxFaults = 0
  SafetyLimit = 0
  HistMod = 1
  MaxSections = 3
SPECIFICATION Spec
INVARIANTS TypeOK RaceNeedsGrab
PROPERTIES Linearizable
