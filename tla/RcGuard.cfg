\* The defaults of rc_offboard_exit_guard.launch.
CONSTANTS
  RequireOffboard = TRUE
  Cooldown = 1
  Retry = 2
  QueueSize = 2
  Choices = 1
SPECIFICATION FairSpec
INVARIANT RcTypeOK
PROPERTIES
  SwitchGetsThrough
  AutoLandSettles
