CONSTANTS
  Kinds <- MCKinds
  StaticFw = {"idle", "autotest"}
  UserFw = {"a", "b", "c"}
SPECIFICATION Spec
INVARIANTS
  ZeroMeansDone
  IdleRunsNothing
  DebugFlagsAgree
PROPERTIES
  ExperimentKeepsRedirection
  OnlySetupStartsTwice
  
