SPECIFICATION RunSpec
CONSTANTS
  LeaseLength = 24
  Interval = 2
  RenewTimeout = 1
  ClaimTimeout = 2
  LogTimeout = 1
  UnwindTimeout = 7
  SettleTimeout = 2
  Skew = 8
  MaxCalls = 4
INVARIANTS LeaseCoversRun LossIsNoticed AnswerIsMine NothingIsUnderWay
PROPERTIES CallsReturn
CHECK_DEADLOCK FALSE
