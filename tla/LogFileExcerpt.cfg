CONSTANTS
  HeaderLen = 3
  BodyLen = 2
  Callers = {"rpc_send_req", "main"}
  MaxRecords = 1
  MaxRuns = 2
  MaxOpen = 1
  MaxBad = 0
SPECIFICATION Spec
INVARIANTS ExcerptOfBody
