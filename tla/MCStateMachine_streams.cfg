\* High-rate commands of every kind against a return.
CONSTANTS
  Workers = {w1}
  Goals = {gA}
  SourceId = {"api", "rc"}
  Priority <- MCPriority
  MaxSeq = 1
  Metas <- MCOneSource
  Requests = {"takeoff", "return", "velocity", "trajectory", "attitude",
              "complex"}
  ReturnTargets = {TRUE}
  OdomMayStop = FALSE
  MaxPending = 2
SPECIFICATION Spec
INVARIANTS
  ControllerFollowsState
  ReturnTargetNotInherited
  ReturnHasTarget
