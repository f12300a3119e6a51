CONSTANTS
  Clients = {c1}
  Timers = {t1, t2}
  Exps = {e1, e2}
  Board = "m3"
  Ops = {"exp_start", "exp_stop", "exp_update_profile", "open_power_start",
         "open_power_stop", "open_debug_start", "open_debug_stop",
         "node_soft_reset", "node_flash", "auto_tests", "status"}
  NoThread = NoThread
  NoTimer = NoTimer
  NoExp = NoExp
SYMMETRY Symmetry
SPECIFICATION Spec
INVARIANTS
  TypeOK
  MutualExclusion
  ArmedTimerIsCurrent
  IdleIsClean
  StartedMeansStarted
  RedirectionStartsOnce
PROPERTIES
  StopCleansUp
  TimeoutStopsItsOwn
  ImplementsSession
CHECK_DEADLOCK FALSE
