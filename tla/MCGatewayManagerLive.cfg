CONSTANTS
  Clients = {c1}
  Timers = {t1}
  Exps = {e1}
  Board = "nrf52dk"
  Ops = {"exp_start", "exp_stop", "auto_tests"}
  NoThread = NoThread
  NoTimer = NoTimer
  NoExp = NoExp
SPECIFICATION FairSpec
PROPERTIES
  RequestsAnswered
  StopCompletes
CHECK_DEADLOCK FALSE
