SPECIFICATION Spec
CONSTANTS
  Ops = {"takeoff", "land", "return", "position", "group_takeoff", "group_land", "group_return"}
  Others = {"EMERGENCY_REQUEST", "LAND_REQUEST", "TAKEOFF_REQUEST", "ENTER_POSITION_CONTROL"}
  QueueSize = 2
  MinStay = 3
INVARIANTS PositionWasReached
