\* The low-rate services and loss of odometry.
CONSTANTS
  Workers = {w1}
  Goals = {gA}
  SourceId = {"api", "rc"}
  Priority <- MCPriority
  MaxSeq = 1
  Metas <- MCMetas
  Requests = {"takeoff", "land", "return", "position"}
  ReturnTargets = {TRUE, FALSE}
  OdomMayStop = TRUE
  MaxPending = 2
SPECIFICATION Spec
INVARIANTS
  TypeOK
  ControllerFollowsState
  LandingOwedOnlyInHover
  ReturnHasTarget
  ReturnTargetNotInherited
PROPERTIES
  EmergencyIsObeyed
  ImplementsLifecycle
