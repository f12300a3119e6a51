CONSTANTS
  Clients = {c1, c2}
  Timers = {t1}
  Exps = {e1}
  Board = "m3"
  Ops = {"exp_start", "exp_stop", "status"}
  NoThread = NoThread
  NoTimer = NoTimer
  NoExp = NoExp
SPECIFICATION FairSpec
PROPERTIES
  TimeoutStopsExperiment
