CONSTANTS
  Nano = 2
  Epoch = 1
  LimitSec = 1
  PeriodSec = 2
  Limit = 2
  Period = 4
  Timeout = 4
  MaxTime = 12
SPECIFICATION Spec
PROPERTIES WedgedMeansNothingHappened
