CONSTANTS
  Python = 2
  MaxTerm = 10
  MaxInt = 10
SPECIFICATION FairSpec
INVARIANTS
  StartMeansPopen
  StopLeavesNoProgram
PROPERTIES
  StopReturns
