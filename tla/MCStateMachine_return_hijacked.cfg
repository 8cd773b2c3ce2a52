\* A velocity stream goes on during a return.
CONSTANTS
  Workers = {w1}
  Goals = {gA}
  SourceId = {"api", "rc"}
  Priority <- MCPriority
  MaxSeq = 1
  Metas <- MCMetas
  Requests = {"takeoff", "return", "velocity"}
  ReturnTargets = {TRUE}
  OdomMayStop = FALSE
  MaxPending = 2
SPECIFICATION Spec
INVARIANT ReturnFliesHome
