CONSTANTS
  Python = 3
  MaxTerm = 2
  MaxInt = 2
SPECIFICATION Spec
INVARIANTS
  StopLeavesNoProgram
