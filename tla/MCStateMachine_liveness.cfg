\* Flights end: take-off, return, landing, loss of odometry.  A position request
\* stands for every call that replaces the reference of a return.
CONSTANTS
  Workers = {w1}
  Goals = {gA}
  SourceId = {"api", "rc"}
  Priority <- MCPriority
  MaxSeq = 1
  Metas <- MCOneSource
  Requests = {"takeoff", "land", "return", "position"}
  ReturnTargets = {TRUE, FALSE}
  OdomMayStop = TRUE
  MaxPending = 1
SPECIFICATION FairSpec
PROPERTIES
  OdomLossLands
  TakeoffEnds
  LandingEnds
  ReturnLands
