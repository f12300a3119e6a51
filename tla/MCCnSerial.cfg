CONSTANTS
  Commands = {"start", "set_time"}
  MaxPending = 3
SPECIFICATION FairSpec
INVARIANTS
  TypeOK
  StartResultIsFresh
  AnswersMatchUntilTimeout
  StopLeavesNothing
PROPERTIES
  CallsReturn
CHECK_DEADLOCK FALSE
