SPECIFICATION FairSpec
CONSTANTS
  HoldTicks = 1
  LandTypes = {FALSE, TRUE}
PROPERTIES LandingIsFinished
