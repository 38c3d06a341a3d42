CONSTANTS
  Nano = 3
  Epoch = 1
  LimitSec = 1
  PeriodSec = 2
  Limit = 3
  Period = 6
  Timeout = 7
  MaxTime = 19
SPECIFICATION Spec
INVARIANTS TypeOK ReapedInTime DeadlineOnGrid MinusExact LaterExact DeadlineExact
PROPERTIES NeverReapedEarly
