CONSTANTS
  SourceId = {"api", "rc"}
  Priority <- MCPriority
  PolicyTimeout <- MCPolicyTimeout
  MaxSeq = 2
  Timeouts = {0, 3}
  Skew = 1
  Delay = 2
  MaxAge = 6
  Trajectories <- MCTrajectories
  MaxLead = 1
  Envelopes <- MCEnvelopes
  MaxQueue = 2
SPECIFICATION FairSpec
INVARIANTS
  StreamTypeOK
  CompletionAtLastPoint
  RefusesOnlyForALiveSource
PROPERTIES
  ReferenceOnTime
  SourceIsLetGo
  TrajectoryEnds
