SPECIFICATION MeasureSpec
CONSTANTS
  WindowTicks = 3
  MinCoverage = 90
  Threshold = 10
  BaselineLow = 3
  Deposit = 10
  Gains = {1}
  Flows = {10}
  MaxClock = 8
  MaxEvents = 3
INVARIANT MatureJudged
CHECK_DEADLOCK FALSE
