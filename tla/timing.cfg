SPECIFICATION MCSpec
CONSTANTS
  Programs <- PairsOrNone
  Timeout = 6
  Second = 16  Million = 16
  Durations = {1, 2}
  MaxStep = 2
  Milli = 3
  StepMs = 2
  Gaps <- Times
  Runs <- Times
INVARIANTS EarlyRungInTime NoEarlyTimeout ResultIsHonest PollFillsStep BlocksOnlyAfterOverrun
PROPERTIES RungReturns ShortCyclesEnd
CHECK_DEADLOCK FALSE
