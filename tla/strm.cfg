SPECIFICATION Spec
CONSTANTS
  Srcs <- ThreeSources
  Rates = {0, 2}
  ServiceRate = 3
  Slot = 2
  FgTimes = {3}
  MaxRate = 4
  MaxPckts = 3
  Horizon = 6
INVARIANT TypeOK
INVARIANT IdleClock
CHECK_DEADLOCK FALSE
