SPECIFICATION Spec
CONSTANTS
  HoldTicks = 2
  LandTypes = {FALSE, TRUE}
INVARIANTS LandingTypeOK OffIsDisarmed
PROPERTIES DisarmByPx4Grounded NeverArmedToLand
