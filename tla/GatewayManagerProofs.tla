------------------------ MODULE GatewayManagerProofs ------------------------
(***************************************************************************)
(* Proofs about GatewayManager, for any sets of threads and experiments.   *)
(*                                                                         *)
(* The inductive invariant IInv says, for the thread that owns the lock,   *)
(* what the steps it has already taken have established.  The other        *)
(* threads can only come to wait for the lock, be refused it, or be        *)
(* cancelled Timers, so what holds at the owner's step lasts until its     *)
(* next one.                                                               *)
(***************************************************************************)
EXTENDS GatewayManager, TLAPS

TimerSteps == {"idle", "waiting", "call", "timeout_exp_stop", "exp_stop", "return",
               "stuck"} \cup StopSteps

(* Steps of a thread that does not own the lock. *)
OutsideSteps == {"idle", "waiting", "call"}

(* The steps of a method belong to the operation that was called. *)
Serves(step, op) ==
  \/ step = op
  \/ step \in {"return", "stuck"}
  \/ step \in StopSteps /\ op \in {"exp_start", "exp_stop"}
  \/ step \in StartSteps /\ op = "exp_start"
  \/ step \in TestSteps /\ op = "auto_tests"

LockInv == \A th \in Threads : Locked(th) <=> rlock = th

TimerCall(t) ==
  /\ pc[t] \in TimerSteps
  /\ pc[t] # "idle" => req[t] \in TimerCalls

ClientCall(c) ==
  /\ pc[c] \notin {"waiting", "timeout_exp_stop"}
  /\ Locked(c) => req[c] \in Requests /\ Serves(pc[c], req[c].op)

CallInv ==
  /\ \A t \in Timers : TimerCall(t)
  /\ \A c \in Clients : ClientCall(c)

ExpInv ==
  /\ running <=> exp # NoExp
  /\ ~running => ~exp_files /\ ~user_log_handler /\ timeout_timer = NoTimer
  /\ ~running /\ redir /\ ~tests_raised =>
       rlock \in Clients /\ pc[rlock] \in {"at_tests", "at_teardown"}
  /\ ~running /\ cn # "stopped" /\ ~tests_raised =>
       /\ rlock \in Clients
       /\ pc[rlock] \in {"at_setup_on", "at_tests", "at_teardown",
                          "at_teardown_early", "stuck"}
  /\ lost # "nothing" => disturbed

TimerInv ==
  \A t \in Timers :
    /\ pc[t] = "waiting" => timeout_timer = t
    /\ timeout_timer = t /\ pc[t] # "idle" => req[t].exp = exp

(* What exp_stop has done so far. *)
Stopping(th) ==
  /\ pc[th] \in StopSteps => running
  /\ pc[th] \in StopSteps \ {"cancel_timer"} => timeout_timer = NoTimer
  /\ pc[th] \in {"on_teardown", "cn_stop", "reset"} => profile = "default"
  /\ pc[th] \in {"cn_stop", "reset"} =>
       ~redir /\ ~debug /\ (ret[th] = 0 => fw = "idle")
  /\ pc[th] = "reset" => cn = "stopped"
  /\ th \in Timers /\ pc[th] \in StopSteps \cup {"exp_stop"} =>
       exp = req[th].exp

(* What exp_start has done so far, *)
Starting(c) ==
  /\ pc[c] = "validate" => ~running
  /\ pc[c] \in StartSteps \ {"validate"} =>
       /\ running /\ exp = req[c].exp /\ timeout_timer = NoTimer
       /\ req[c].profile # "invalid" /\ req[c].fw # "wrong"
  /\ pc[c] \in {"create_files", "cn_start", "on_setup"} => (redir => tests_raised)
  /\ pc[c] \in {"create_files", "cn_start"} => (cn # "stopped" => tests_raised)
  /\ pc[c] \in StartSteps \ {"validate", "create_files"} =>
       exp_files /\ user_log_handler
  /\ pc[c] \in {"cn_start_experiment", "power_cycle", "set_timer"} => redir
  /\ pc[c] \in {"power_cycle", "set_timer"} => profile = req[c].profile

(* what ret_val = 0 says while it goes on, *)
Succeeding(c) ==
  ret[c] = 0 =>
    /\ pc[c] \in {"on_setup", "cn_start_experiment", "power_cycle", "set_timer"}
         => cn # "stopped" /\ open_node_state = "start"
    /\ pc[c] \in {"cn_start_experiment", "power_cycle", "set_timer"}
         => ~debug /\ fw = req[c].fw

(* and once it is over. *)
Started(c) ==
  At(c, "return") /\ req[c].op = "exp_start" /\ ret[c] = 0 =>
    /\ running /\ exp = req[c].exp
    /\ exp_files /\ user_log_handler
    /\ cn # "stopped" /\ open_node_state = "start"
    /\ profile = req[c].profile
    /\ redir /\ ~debug /\ fw = req[c].fw
    /\ req[c].timed <=> timeout_timer # NoTimer

(* While auto_tests uses the open node none has abandoned it. *)
Testing(c) == pc[c] \in {"at_tests", "at_teardown"} => ~tests_raised

Progress(th) ==
  /\ Stopping(th)
  /\ th \in Clients => Starting(th) /\ Succeeding(th) /\ Started(th) /\ Testing(th)

IInv ==
  /\ TypeOK /\ LockInv /\ CallInv /\ ExpInv /\ TimerInv
  /\ \A th \in Threads : Progress(th)

-----------------------------------------------------------------------------
(* The fields of a request. *)
LEMMA RequestFields ==
  ASSUME NEW r \in Requests
  PROVE  /\ r.op \in Ops
         /\ r.op = "exp_start" =>
              /\ r.exp \in Exps /\ r.timed \in BOOLEAN
              /\ r.fw \in {"idle", "user", "wrong"}
              /\ r.profile \in {"default", "user", "invalid"}
         /\ r.op = "exp_update_profile" => r.profile \in {"default", "user", "invalid"}
         /\ r.op = "node_flash" => r.fw \in {"idle", "user", "wrong"}
  BY DEF Requests

(* A thread outside the methods has made no progress in one. *)
LEMMA OutsideProgress ==
  ASSUME NEW x \in Threads, pc[x] \in OutsideSteps
  PROVE  Progress(x)
  BY DEF Progress, Stopping, Starting, Succeeding, Started, Testing, At, OutsideSteps,
     StopSteps, StartSteps

(* Only the owner of the lock is at a step of a method. *)
LEMMA OthersOutside ==
  ASSUME TypeOK, LockInv, NEW x \in Threads, rlock # x
  PROVE  pc[x] \in OutsideSteps
  BY DEF TypeOK, LockInv, Locked, Steps, OutsideSteps

(* A gateway manager that has just been set up satisfies the invariant. *)
LEMMA InitInv == Init => IInv
<1> SUFFICES ASSUME Init PROVE IInv
  OBVIOUS
<1>1. TypeOK
  BY DEF Init, TypeOK, Steps
<1>2. LockInv /\ CallInv
  BY ThreadsAssumption DEF Init, LockInv, CallInv, TimerCall, ClientCall, Locked,
     LockedSteps, Threads, AllOps, StopSteps, StartSteps, TestSteps, TimerSteps
<1>3. ExpInv /\ TimerInv
  BY ThreadsAssumption DEF Init, ExpInv, TimerInv, Threads
<1>4. \A th \in Threads : Progress(th)
  BY OutsideProgress DEF Init, OutsideSteps
<1> QED BY <1>1, <1>2, <1>3, <1>4 DEF IInv

(* A step of the owner of the lock that keeps the lock and moves no other   *)
(* thread: only what it says of shared state and of itself must be shown.   *)
LEMMA OwnerStep ==
  ASSUME IInv, NEW th \in Threads, rlock = th, rlock' = rlock, req' = req,
         NEW s \in LockedSteps, pc' = [pc EXCEPT ![th] = s],
         th \in Timers => s \in TimerSteps,
         th \in Clients => s # "timeout_exp_stop" /\ Serves(s, req[th].op),
         TypeOK', ExpInv', TimerInv', Progress(th)'
  PROVE  IInv'
<1>1. \A x \in Threads : x # th => pc'[x] = pc[x] /\ pc'[x] \in OutsideSteps
  BY OthersOutside DEF IInv, TypeOK
<1>2. pc'[th] = s
  BY DEF IInv, TypeOK
<1>3. LockInv'
  BY <1>1, <1>2 DEF IInv, LockInv, Locked
<1>4. CallInv'
  <2>1. s # "idle" /\ s # "waiting" /\ Locked(th)
    BY DEF IInv, LockInv, LockedSteps, AllOps, StopSteps, StartSteps, TestSteps
  <2>2. ASSUME NEW t \in Timers PROVE TimerCall(t)'
    BY <1>1, <1>2, <2>1 DEF IInv, CallInv, TimerCall, Threads, Locked, LockedSteps,
       AllOps, StopSteps, StartSteps, TestSteps
  <2>3. ASSUME NEW c \in Clients PROVE ClientCall(c)'
    BY <1>1, <1>2, <2>1 DEF IInv, CallInv, ClientCall, Threads, Locked
  <2> QED BY <2>2, <2>3 DEF CallInv
<1>5. \A x \in Threads : Progress(x)'
  <2> TAKE x \in Threads
  <2>1. CASE x # th
    BY <1>1, <2>1 DEF Progress, Stopping, Starting, Succeeding, Started, Testing, At,
       OutsideSteps, StopSteps, StartSteps
  <2> QED BY <2>1
<1> QED BY <1>3, <1>4, <1>5 DEF IInv

(* A client at a step of a method makes the call that the step belongs to. *)
LEMMA ServedCall ==
  ASSUME IInv, NEW c \in Clients, rlock = c
  PROVE  /\ req[c] \in Requests
         /\ pc[c] \in StartSteps => req[c].op = "exp_start"
         /\ pc[c] \in StopSteps => req[c].op \in {"exp_start", "exp_stop"}
         /\ pc[c] \in TestSteps => req[c].op = "auto_tests"
         /\ pc[c] \in AllOps => req[c].op = pc[c]
<1>1. req[c] \in Requests /\ Serves(pc[c], req[c].op)
  BY DEF IInv, LockInv, CallInv, ClientCall, Threads
<1>2. req[c].op \in AllOps
  BY <1>1, RequestFields, OpsAssumption
<1> QED BY <1>1, <1>2 DEF Serves, AllOps, StartSteps, StopSteps, TestSteps

(* The steps of exp_stop, the cancelling of the Timer apart. *)
LEMMA StopStepInv ==
  ASSUME IInv, NEW th \in Threads,
         exp_stop(th) \/ CnStopExperiment(th) \/ OnTeardown(th) \/ CnStop(th)
         \/ ResetExp(th)
  PROVE  IInv'
<1> USE ThreadsAssumption
<1> USE DEF IInv, TypeOK, At, Goto, Add, Return, Answered, OpenPower, Flash,
   Threads, exp_vars, cn_vars, prog_vars, on_vars
<1>1. CASE exp_stop(th)
  <2>1. TypeOK'
    BY <1>1 DEF exp_stop, Steps, LockedSteps, StopSteps
  <2>2. ExpInv' /\ TimerInv'
    BY <1>1 DEF exp_stop, ExpInv, TimerInv
  <2>3. Progress(th)'
    BY <1>1, ServedCall DEF exp_stop, Progress, Stopping, Starting, Succeeding,
       Started, Testing, StopSteps, StartSteps, AllOps
  <2> QED BY <1>1, <2>1, <2>2, <2>3, OwnerStep, ServedCall DEF exp_stop,
     LockedSteps, Serves, AllOps, StopSteps, StartSteps, TestSteps, TimerSteps
<1>2. CASE CnStopExperiment(th)
  <2>1. TypeOK'
    BY <1>2 DEF CnStopExperiment, Steps, LockedSteps, StopSteps
  <2>2. ExpInv' /\ TimerInv'
    BY <1>2 DEF CnStopExperiment, ExpInv, TimerInv
  <2>3. Progress(th)'
    BY <1>2 DEF CnStopExperiment, Progress, Stopping, Starting, Succeeding,
       Started, Testing, StopSteps, StartSteps
  <2> QED BY <1>2, <2>1, <2>2, <2>3, OwnerStep, ServedCall DEF
     CnStopExperiment, LockedSteps, Serves, AllOps, StopSteps, StartSteps,
     TestSteps, TimerSteps
<1>3. CASE OnTeardown(th)
  <2>1. TypeOK'
    <3>1. pc' \in [Threads -> Steps] /\ ret' \in [Threads -> {0, 1}]
      BY <1>3 DEF OnTeardown, Steps, LockedSteps, StopSteps
    <3>2. /\ debug' \in BOOLEAN /\ redir' \in BOOLEAN
          /\ fw' \in {"idle", "user", "autotest", "bad"}
      BY <1>3 DEF OnTeardown
    <3>3. tests_raised' \in BOOLEAN
      BY <1>3 DEF OnTeardown
    <3>4. UNCHANGED <<rlock, req, exp_vars, timeout_timer, cn_vars>>
      BY <1>3 DEF OnTeardown
    <3> QED BY <3>1, <3>2, <3>3, <3>4
  <2>2. ExpInv' /\ TimerInv'
    BY <1>3 DEF OnTeardown, ExpInv, TimerInv, Progress, Stopping, StopSteps
  <2>3. Progress(th)'
    BY <1>3 DEF OnTeardown, Progress, Stopping, Starting, Succeeding, Started, Testing,
       StopSteps, StartSteps
  <2> QED BY <1>3, <2>1, <2>2, <2>3, OwnerStep, ServedCall DEF OnTeardown,
     LockedSteps, Serves, AllOps, StopSteps, StartSteps, TestSteps, TimerSteps
<1>4. CASE CnStop(th)
  <2>1. TypeOK'
    BY <1>4 DEF CnStop, CnSerialStop, Steps, LockedSteps, StopSteps
  <2>2. ExpInv' /\ TimerInv'
    BY <1>4 DEF CnStop, CnSerialStop, ExpInv, TimerInv
  <2>3. Progress(th)'
    BY <1>4 DEF CnStop, CnSerialStop, Progress, Stopping, Starting, Succeeding, Started, Testing,
       StopSteps, StartSteps
  <2> QED BY <1>4, <2>1, <2>2, <2>3, OwnerStep, ServedCall DEF CnStop, CnSerialStop,
     LockedSteps, Serves, AllOps, StopSteps, StartSteps, TestSteps, TimerSteps
<1>5. CASE ResetExp(th)
  <2>0. /\ th \in Clients => req[th].op \in {"exp_start", "exp_stop"}
        /\ th \in Timers => req[th].op = "timeout_exp_stop"
    BY <1>5, ServedCall DEF ResetExp, StopSteps, CallInv, TimerCall, TimerCalls
  <2>1. TypeOK'
    <3>1. pc' \in [Threads -> Steps]
      BY <1>5 DEF ResetExp, Steps, LockedSteps, StartSteps
    <3>2. /\ running' \in BOOLEAN /\ exp' \in Exps \cup {NoExp}
          /\ exp_files' \in BOOLEAN /\ user_log_handler' \in BOOLEAN
      BY <1>5 DEF ResetExp, cleanup_user_exp_files
    <3> QED BY <1>5, <3>1, <3>2 DEF ResetExp
  <2>2. ExpInv' /\ TimerInv'
    <3>1. ~running' /\ exp' = NoExp /\ ~exp_files' /\ ~user_log_handler'
      BY <1>5 DEF ResetExp, cleanup_user_exp_files
    <3>2. timeout_timer' = NoTimer /\ ~redir'
      BY <1>5 DEF ResetExp, Progress, Stopping, StopSteps
    <3>3. \A t \in Timers : t # NoTimer /\ pc'[t] # "waiting"
      BY <1>5 DEF ResetExp, TimerInv, Progress, Stopping, StopSteps
    <3>4. cn' = "stopped" /\ (lost' # "nothing" => disturbed')
      BY <1>5 DEF ResetExp, ExpInv, Progress, Stopping, StopSteps
    <3> QED BY <3>1, <3>2, <3>3, <3>4 DEF ExpInv, TimerInv
  <2>3. Progress(th)'
    BY <1>5, <2>0 DEF ResetExp, Progress, Stopping, Starting, Succeeding,
       Started, Testing, StopSteps, StartSteps
  <2> QED BY <1>5, <2>0, <2>1, <2>2, <2>3, OwnerStep, ServedCall DEF ResetExp,
     LockedSteps, Serves, AllOps, StopSteps, StartSteps, TestSteps, TimerSteps
<1> QED BY <1>1, <1>2, <1>3, <1>4, <1>5

(* The steps of exp_start, the arming of the Timer apart. *)
LEMMA StartStepInv ==
  ASSUME IInv, NEW c \in Clients,
         exp_start(c) \/ Validate(c) \/ CreateFiles(c) \/ CnStart(c)
         \/ PowerCycle(c) \/ OnSetup(c) \/ CnStartExperiment(c)
  PROVE  IInv'
<1> USE ThreadsAssumption
<1> USE DEF IInv, TypeOK, At, Goto, Add, Return, Answered, OpenPower, Flash,
   Threads, exp_vars, cn_vars, prog_vars, on_vars
<1>1. CASE exp_start(c)
  <2>1. TypeOK'
    BY <1>1 DEF exp_start, Steps, LockedSteps, StopSteps, StartSteps
  <2>2. ExpInv' /\ TimerInv'
    BY <1>1 DEF exp_start, ExpInv, TimerInv
  <2>3. Progress(c)'
    BY <1>1 DEF exp_start, Progress, Stopping, Starting, Succeeding, Started, Testing,
       StopSteps, StartSteps
  <2> QED BY <1>1, <2>1, <2>2, <2>3, OwnerStep, ServedCall DEF exp_start,
     LockedSteps, Serves, AllOps, StopSteps, StartSteps, TestSteps
<1>2. CASE Validate(c)
  <2>0. /\ req[c].op = "exp_start" /\ req[c].exp \in Exps /\ req[c].timed \in BOOLEAN
        /\ req[c].fw \in {"idle", "user", "wrong"}
        /\ req[c].profile \in {"default", "user", "invalid"}
    BY <1>2, ServedCall, RequestFields DEF Validate, StartSteps
  <2>1. TypeOK'
    <3>1. pc' \in [Threads -> Steps] /\ ret' \in [Threads -> {0, 1}]
      BY <1>2 DEF Validate, Steps, LockedSteps, StartSteps
    <3>2. running' \in BOOLEAN /\ exp' \in Exps \cup {NoExp}
      BY <1>2, <2>0 DEF Validate
    <3> QED BY <1>2, <3>1, <3>2 DEF Validate
  <2>2. ExpInv' /\ TimerInv'
    <3>1. ~running /\ timeout_timer = NoTimer
      BY <1>2 DEF Validate, Progress, Starting, ExpInv
    <3>2. running' <=> exp' # NoExp
      BY <1>2, <2>0 DEF Validate, ExpInv
    <3>3. ExpInv'
      BY <1>2, <3>1, <3>2 DEF Validate, ExpInv
    <3>4. TimerInv'
      BY <1>2, <3>1 DEF Validate, TimerInv
    <3> QED BY <3>3, <3>4
  <2>3. Progress(c)'
    <3>1. /\ ~running /\ timeout_timer' = NoTimer /\ (redir' => tests_raised')
          /\ cn' # "stopped" => tests_raised'
      BY <1>2 DEF Validate, Progress, Starting, ExpInv
    <3>2. CASE pc'[c] = "return"
      BY <1>2, <3>2 DEF Validate, Progress, Stopping, Starting, Succeeding, Started, Testing,
         StopSteps, StartSteps
    <3>3. CASE pc'[c] = "create_files"
      <4>1. /\ running' /\ exp' = req'[c].exp
            /\ req'[c].profile # "invalid" /\ req'[c].fw # "wrong"
        BY <1>2, <3>3 DEF Validate
      <4> QED BY <3>1, <3>3, <4>1 DEF Progress, Stopping, Starting, Succeeding,
            Started, Testing, StopSteps, StartSteps
    <3> QED BY <1>2, <3>2, <3>3 DEF Validate
  <2> QED BY <1>2, <2>0, <2>1, <2>2, <2>3, OwnerStep, ServedCall DEF Validate,
     LockedSteps, Serves, AllOps, StopSteps, StartSteps, TestSteps
<1>3. CASE CreateFiles(c)
  <2>0. /\ req[c].op = "exp_start" /\ req[c].exp \in Exps /\ req[c].timed \in BOOLEAN
        /\ req[c].fw \in {"idle", "user", "wrong"}
        /\ req[c].profile \in {"default", "user", "invalid"}
    BY <1>3, ServedCall, RequestFields DEF CreateFiles, StartSteps
  <2>1. TypeOK'
    <3>1. pc' \in [Threads -> Steps] /\ ret' \in [Threads -> {0, 1}]
      BY <1>3 DEF CreateFiles, Steps, LockedSteps, StartSteps
    <3>2. exp_files' \in BOOLEAN /\ user_log_handler' \in BOOLEAN
      BY <1>3 DEF CreateFiles, create_user_exp_files
    <3> QED BY <1>3, <3>1, <3>2 DEF CreateFiles
  <2>2. ExpInv' /\ TimerInv'
    <3>1. /\ running' /\ exp' = exp /\ exp # NoExp /\ timeout_timer' = NoTimer
          /\ lost' # "nothing" => disturbed'
      BY <1>3 DEF CreateFiles, Progress, Starting, ExpInv, StartSteps
    <3>2. ExpInv'
      BY <3>1 DEF ExpInv
    <3>3. TimerInv'
      BY <1>3, <3>1 DEF CreateFiles, TimerInv
    <3> QED BY <3>2, <3>3
  <2>3. Progress(c)'
    <3>1. CASE pc'[c] = "return"
      <4>1. ret'[c] = 1
        BY <1>3, <3>1 DEF CreateFiles
      <4> QED BY <3>1, <4>1 DEF Progress, Stopping, Starting, Succeeding, Started, Testing,
            StopSteps, StartSteps
    <3>2. CASE pc'[c] = "cn_start"
      <4>1. exp_files' /\ user_log_handler'
        BY <1>3, <3>2 DEF CreateFiles, create_user_exp_files
      <4> QED BY <1>3, <3>2, <4>1 DEF CreateFiles, Progress, Stopping, Starting,
            Succeeding, Started, Testing, StopSteps, StartSteps
    <3> QED BY <1>3, <3>1, <3>2 DEF CreateFiles
  <2> QED BY <1>3, <2>0, <2>1, <2>2, <2>3, OwnerStep, ServedCall DEF
     CreateFiles, LockedSteps, Serves, AllOps, StopSteps, StartSteps, TestSteps
<1>4. CASE CnStart(c)
  <2>0. /\ req[c].op = "exp_start" /\ req[c].exp \in Exps /\ req[c].timed \in BOOLEAN
        /\ req[c].fw \in {"idle", "user", "wrong"}
        /\ req[c].profile \in {"default", "user", "invalid"}
    BY <1>4, ServedCall, RequestFields DEF CnStart, StartSteps
  <2>1. TypeOK'
    <3>1. pc' \in [Threads -> Steps] /\ ret' \in [Threads -> {0, 1}]
      BY <1>4 DEF CnStart, StartHangs, Steps, LockedSteps, StartSteps
    <3>2. cn' \in {"stopped", "started", "dead"} /\ open_node_state' \in {"start", "stop"}
      BY <1>4 DEF CnStart, StartHangs
    <3>3. lost' \in {"nothing", "reader", "program"} /\ disturbed' \in BOOLEAN
      BY <1>4 DEF CnStart, CnSerialStart
    <3> QED BY <1>4, <3>1, <3>2, <3>3 DEF CnStart
  <2>2. ExpInv' /\ TimerInv'
    <3>1. /\ running' /\ exp' = exp /\ exp # NoExp /\ timeout_timer' = NoTimer
          /\ cn # "stopped" => tests_raised
      BY <1>4 DEF CnStart, Progress, Starting, ExpInv, StartSteps
    <3>2. lost' # "nothing" => disturbed'
      BY <1>4, <3>1 DEF CnStart, CnSerialStart, ExpInv
    <3>3. ExpInv'
      BY <3>1, <3>2 DEF ExpInv
    <3>4. TimerInv'
      BY <1>4, <3>1 DEF CnStart, StartHangs, TimerInv
    <3> QED BY <3>3, <3>4
  <2>3. Progress(c)'
    BY <1>4, <2>0 DEF CnStart, StartHangs, Progress, Stopping, Starting, Succeeding,
       Started, Testing, StopSteps, StartSteps
  <2> QED BY <1>4, <2>0, <2>1, <2>2, <2>3, OwnerStep, ServedCall DEF CnStart, StartHangs,
     LockedSteps, Serves, AllOps, StopSteps, StartSteps, TestSteps
<1>5. CASE PowerCycle(c)
  <2>0. /\ req[c].op = "exp_start" /\ req[c].exp \in Exps /\ req[c].timed \in BOOLEAN
        /\ req[c].fw \in {"idle", "user", "wrong"}
        /\ req[c].profile \in {"default", "user", "invalid"}
    BY <1>5, ServedCall, RequestFields DEF PowerCycle, StartSteps
  <2>1. TypeOK'
    BY <1>5, <2>0 DEF PowerCycle, Steps, LockedSteps, StartSteps
  <2>2. ExpInv' /\ TimerInv'
    BY <1>5, <2>0 DEF PowerCycle, ExpInv, TimerInv
  <2>3. Progress(c)'
    BY <1>5, <2>0 DEF PowerCycle, Progress, Stopping, Starting, Succeeding,
       Started, Testing, StopSteps, StartSteps
  <2> QED BY <1>5, <2>0, <2>1, <2>2, <2>3, OwnerStep, ServedCall DEF
     PowerCycle, LockedSteps, Serves, AllOps, StopSteps, StartSteps, TestSteps
<1>6. CASE OnSetup(c)
  <2>0. /\ req[c].op = "exp_start" /\ req[c].exp \in Exps /\ req[c].timed \in BOOLEAN
        /\ req[c].fw \in {"idle", "user", "wrong"}
        /\ req[c].profile \in {"default", "user", "invalid"}
    BY <1>6, ServedCall, RequestFields DEF OnSetup, StartSteps
  <2>1. TypeOK'
    <3>1. pc' \in [Threads -> Steps] /\ ret' \in [Threads -> {0, 1}]
      BY <1>6 DEF OnSetup, Steps, LockedSteps, StartSteps
    <3>2. redir' \in BOOLEAN /\ fw' \in {"idle", "user", "autotest", "bad"}
      <4>1. req[c].fw # "wrong"
        BY <1>6 DEF OnSetup, Progress, Starting, StartSteps
      <4> QED BY <1>6, <2>0, <4>1 DEF OnSetup
    <3> QED BY <1>6, <3>1, <3>2 DEF OnSetup
  <2>2. ExpInv' /\ TimerInv'
    <3>1. /\ running' /\ exp' = exp /\ exp # NoExp /\ timeout_timer' = NoTimer
          /\ lost' # "nothing" => disturbed'
      BY <1>6 DEF OnSetup, Progress, Starting, ExpInv, StartSteps
    <3>2. ExpInv'
      BY <3>1 DEF ExpInv
    <3>3. TimerInv'
      BY <1>6, <3>1 DEF OnSetup, TimerInv
    <3> QED BY <3>2, <3>3
  <2>3. Progress(c)'
    <3>1. CASE redir
      <4>1. pc'[c] = "return" /\ ret'[c] = 1
        BY <1>6, <3>1 DEF OnSetup
      <4> QED BY <4>1 DEF Progress, Stopping, Starting, Succeeding, Started, Testing,
            StopSteps, StartSteps
    <3>2. CASE ~redir
      <4>1. redir'
        BY <1>6 DEF OnSetup
      <4>2. pc[c] = "on_setup" /\ pc'[c] = "cn_start_experiment"
        BY <1>6, <3>2 DEF OnSetup
      <4>3. UNCHANGED <<rlock, req, exp_vars, timeout_timer, cn_vars, debug>>
        BY <1>6 DEF OnSetup
      <4>4. ret'[c] = 0 => ret[c] = 0 /\ ~debug /\ fw' = req[c].fw
        BY <1>6, <3>2 DEF OnSetup
      <4>5. Stopping(c)'
        BY <4>2 DEF Stopping, StopSteps
      <4>6. Starting(c)'
        BY <4>1, <4>2, <4>3 DEF Progress, Starting, StartSteps
      <4>7. Succeeding(c)'
        BY <4>2, <4>3, <4>4 DEF Progress, Succeeding
      <4>8. Started(c)' /\ Testing(c)'
        BY <4>2 DEF Started, Testing
      <4> QED BY <4>5, <4>6, <4>7, <4>8 DEF Progress
    <3> QED BY <3>1, <3>2
  <2> QED BY <1>6, <2>0, <2>1, <2>2, <2>3, OwnerStep, ServedCall DEF OnSetup,
     LockedSteps, Serves, AllOps, StopSteps, StartSteps, TestSteps
<1>7. CASE CnStartExperiment(c)
  <2>0. /\ req[c].op = "exp_start" /\ req[c].exp \in Exps /\ req[c].timed \in BOOLEAN
        /\ req[c].fw \in {"idle", "user", "wrong"}
        /\ req[c].profile \in {"default", "user", "invalid"}
    BY <1>7, ServedCall, RequestFields DEF CnStartExperiment, StartSteps
  <2>1. TypeOK'
    <3>1. pc' \in [Threads -> Steps] /\ ret' \in [Threads -> {0, 1}]
      BY <1>7 DEF CnStartExperiment, Steps, LockedSteps, StartSteps
    <3>2. profile' \in {"default", "user"}
      BY <1>7, <2>0 DEF CnStartExperiment, Progress, Starting, StartSteps
    <3> QED BY <1>7, <3>1, <3>2 DEF CnStartExperiment
  <2>2. ExpInv' /\ TimerInv'
    BY <1>7, <2>0 DEF CnStartExperiment, ExpInv, TimerInv
  <2>3. Progress(c)'
    BY <1>7, <2>0 DEF CnStartExperiment, Progress, Stopping, Starting,
       Succeeding, Started, Testing, StopSteps, StartSteps
  <2> QED BY <1>7, <2>0, <2>1, <2>2, <2>3, OwnerStep, ServedCall DEF
     CnStartExperiment, LockedSteps, Serves, AllOps, StopSteps, StartSteps,
     TestSteps
<1> QED BY <1>1, <1>2, <1>3, <1>4, <1>5, <1>6, <1>7

(* The operations that are one step. *)
LEMMA OpInv ==
  ASSUME IInv, NEW c \in Clients,
         exp_update_profile(c) \/ open_power_start(c) \/ open_power_stop(c)
         \/ open_debug_start(c) \/ open_debug_stop(c) \/ node_soft_reset(c)
         \/ node_flash(c) \/ status(c)
  PROVE  IInv'
<1> USE ThreadsAssumption
<1> USE DEF IInv, TypeOK, At, Goto, Return, Answered, Flash, Threads, exp_vars,
   cn_vars, prog_vars, on_vars
<1>1. CASE exp_update_profile(c)
  <2>0. req[c].op = "exp_update_profile" /\ req[c].profile \in {"default", "user", "invalid"}
    BY <1>1, ServedCall, RequestFields DEF exp_update_profile, AllOps
  <2>1. TypeOK'
    BY <1>1, <2>0 DEF exp_update_profile, Steps, LockedSteps
  <2>2. ExpInv' /\ TimerInv'
    BY <1>1, <2>0 DEF exp_update_profile, ExpInv, TimerInv
  <2>3. Progress(c)'
    BY <1>1, <2>0 DEF exp_update_profile, Progress, Stopping, Starting,
       Succeeding, Started, Testing, StopSteps, StartSteps
  <2> QED BY <1>1, <2>0, <2>1, <2>2, <2>3, OwnerStep, ServedCall DEF
     exp_update_profile, LockedSteps, Serves, AllOps, StopSteps, StartSteps,
     TestSteps
<1>2. CASE open_power_start(c)
  <2>0. req[c].op = "open_power_start"
    BY <1>2, ServedCall DEF open_power_start, AllOps
  <2>1. TypeOK'
    BY <1>2, <2>0 DEF open_power_start, Steps, LockedSteps
  <2>2. ExpInv' /\ TimerInv'
    BY <1>2, <2>0 DEF open_power_start, ExpInv, TimerInv
  <2>3. Progress(c)'
    BY <1>2, <2>0 DEF open_power_start, Progress, Stopping, Starting,
       Succeeding, Started, Testing, StopSteps, StartSteps
  <2> QED BY <1>2, <2>0, <2>1, <2>2, <2>3, OwnerStep, ServedCall DEF
     open_power_start, LockedSteps, Serves, AllOps, StopSteps, StartSteps,
     TestSteps
<1>3. CASE open_power_stop(c)
  <2>0. req[c].op = "open_power_stop"
    BY <1>3, ServedCall DEF open_power_stop, AllOps
  <2>1. TypeOK'
    BY <1>3, <2>0 DEF open_power_stop, Steps, LockedSteps
  <2>2. ExpInv' /\ TimerInv'
    BY <1>3, <2>0 DEF open_power_stop, ExpInv, TimerInv
  <2>3. Progress(c)'
    BY <1>3, <2>0 DEF open_power_stop, Progress, Stopping, Starting,
       Succeeding, Started, Testing, StopSteps, StartSteps
  <2> QED BY <1>3, <2>0, <2>1, <2>2, <2>3, OwnerStep, ServedCall DEF
     open_power_stop, LockedSteps, Serves, AllOps, StopSteps, StartSteps,
     TestSteps
<1>4. CASE open_debug_start(c)
  <2>0. req[c].op = "open_debug_start"
    BY <1>4, ServedCall DEF open_debug_start, AllOps
  <2>1. TypeOK'
    BY <1>4, <2>0 DEF open_debug_start, Steps, LockedSteps
  <2>2. ExpInv' /\ TimerInv'
    BY <1>4, <2>0 DEF open_debug_start, ExpInv, TimerInv
  <2>3. Progress(c)'
    BY <1>4, <2>0 DEF open_debug_start, Progress, Stopping, Starting,
       Succeeding, Started, Testing, StopSteps, StartSteps
  <2> QED BY <1>4, <2>0, <2>1, <2>2, <2>3, OwnerStep, ServedCall DEF
     open_debug_start, LockedSteps, Serves, AllOps, StopSteps, StartSteps,
     TestSteps
<1>5. CASE open_debug_stop(c)
  <2>0. req[c].op = "open_debug_stop"
    BY <1>5, ServedCall DEF open_debug_stop, AllOps
  <2>1. TypeOK'
    <3>1. pc' \in [Threads -> Steps] /\ ret' \in [Threads -> {0, 1}]
      BY <1>5 DEF open_debug_stop, Steps, LockedSteps
    <3>2. debug' \in BOOLEAN
      BY <1>5 DEF open_debug_stop
    <3> QED BY <1>5, <3>1, <3>2 DEF open_debug_stop
  <2>2. ExpInv' /\ TimerInv'
    BY <1>5, <2>0 DEF open_debug_stop, ExpInv, TimerInv
  <2>3. Progress(c)'
    BY <1>5, <2>0 DEF open_debug_stop, Progress, Stopping, Starting,
       Succeeding, Started, Testing, StopSteps, StartSteps
  <2> QED BY <1>5, <2>0, <2>1, <2>2, <2>3, OwnerStep, ServedCall DEF
     open_debug_stop, LockedSteps, Serves, AllOps, StopSteps, StartSteps,
     TestSteps
<1>6. CASE node_soft_reset(c)
  <2>0. req[c].op = "node_soft_reset"
    BY <1>6, ServedCall DEF node_soft_reset, AllOps
  <2>1. TypeOK'
    BY <1>6, <2>0 DEF node_soft_reset, Steps, LockedSteps
  <2>2. ExpInv' /\ TimerInv'
    BY <1>6, <2>0 DEF node_soft_reset, ExpInv, TimerInv
  <2>3. Progress(c)'
    BY <1>6, <2>0 DEF node_soft_reset, Progress, Stopping, Starting,
       Succeeding, Started, Testing, StopSteps, StartSteps
  <2> QED BY <1>6, <2>0, <2>1, <2>2, <2>3, OwnerStep, ServedCall DEF
     node_soft_reset, LockedSteps, Serves, AllOps, StopSteps, StartSteps,
     TestSteps
<1>7. CASE node_flash(c)
  <2>0. req[c].op = "node_flash" /\ req[c].fw \in {"idle", "user", "wrong"}
    BY <1>7, ServedCall, RequestFields DEF node_flash, AllOps
  <2>1. TypeOK'
    BY <1>7, <2>0 DEF node_flash, Steps, LockedSteps
  <2>2. ExpInv' /\ TimerInv'
    BY <1>7, <2>0 DEF node_flash, ExpInv, TimerInv
  <2>3. Progress(c)'
    BY <1>7, <2>0 DEF node_flash, Progress, Stopping, Starting, Succeeding,
       Started, Testing, StopSteps, StartSteps
  <2> QED BY <1>7, <2>0, <2>1, <2>2, <2>3, OwnerStep, ServedCall DEF
     node_flash, LockedSteps, Serves, AllOps, StopSteps, StartSteps, TestSteps
<1>8. CASE status(c)
  <2>0. req[c].op = "status"
    BY <1>8, ServedCall DEF status, AllOps
  <2>1. TypeOK'
    BY <1>8, <2>0 DEF status, Steps, LockedSteps
  <2>2. ExpInv' /\ TimerInv'
    BY <1>8, <2>0 DEF status, ExpInv, TimerInv
  <2>3. Progress(c)'
    BY <1>8, <2>0 DEF status, Progress, Stopping, Starting, Succeeding,
       Started, Testing, StopSteps, StartSteps
  <2> QED BY <1>8, <2>0, <2>1, <2>2, <2>3, OwnerStep, ServedCall DEF status,
     LockedSteps, Serves, AllOps, StopSteps, StartSteps, TestSteps
<1> QED BY <1>1, <1>2, <1>3, <1>4, <1>5, <1>6, <1>7, <1>8

(* The steps of auto_tests. *)
LEMMA TestStepInv ==
  ASSUME IInv, NEW c \in Clients,
         auto_tests(c) \/ AtSetupOn(c) \/ AtTests(c) \/ AtTeardown(c)
         \/ AtTeardownRaises(c)
  PROVE  IInv'
<1> USE ThreadsAssumption
<1> USE DEF IInv, TypeOK, At, Goto, Add, Return, OpenPower, Flash, Threads,
   exp_vars, cn_vars, prog_vars, on_vars
<1>1. CASE auto_tests(c)
  <2>0. req[c].op = "auto_tests"
    BY <1>1, ServedCall DEF auto_tests, AllOps
  <2>1. TypeOK'
    <3>1. pc' \in [Threads -> Steps] /\ ret' \in [Threads -> {0, 1}]
      BY <1>1 DEF auto_tests, StartHangs, Steps, LockedSteps, TestSteps
    <3>2. cn' \in {"stopped", "started", "dead"}
      BY <1>1 DEF auto_tests, StartHangs
    <3>5. lost' \in {"nothing", "reader", "program"} /\ disturbed' \in BOOLEAN
      BY <1>1 DEF auto_tests, CnSerialStart
    <3>3. tests_raised' \in BOOLEAN
      BY <1>1, Zenon DEF auto_tests
    <3>4. UNCHANGED <<rlock, req, exp_vars, timeout_timer, profile,
                      open_node_state, redir, debug, fw>>
      BY <1>1 DEF auto_tests
    <3> QED BY <3>1, <3>2, <3>3, <3>4, <3>5
  <2>2. ExpInv' /\ TimerInv'
    <3>1. lost' # "nothing" => disturbed'
      BY <1>1 DEF auto_tests, CnSerialStart, ExpInv
    <3> QED BY <1>1, <2>0, <3>1 DEF auto_tests, StartHangs, ExpInv, TimerInv
  <2>3. Progress(c)'
    BY <1>1, <2>0 DEF auto_tests, StartHangs, Progress, Stopping, Starting, Succeeding,
       Started, Testing, StopSteps, StartSteps
  <2> QED BY <1>1, <2>0, <2>1, <2>2, <2>3, OwnerStep, ServedCall DEF
     auto_tests, StartHangs, LockedSteps, Serves, AllOps, StopSteps, StartSteps, TestSteps
<1>2. CASE AtSetupOn(c)
  <2>0. req[c].op = "auto_tests"
    BY <1>2, ServedCall DEF AtSetupOn, TestSteps
  <2>1. TypeOK'
    BY <1>2, <2>0 DEF AtSetupOn, Steps, LockedSteps, TestSteps
  <2>2. ExpInv' /\ TimerInv'
    BY <1>2, <2>0 DEF AtSetupOn, ExpInv, TimerInv
  <2>3. Progress(c)'
    BY <1>2, <2>0 DEF AtSetupOn, Progress, Stopping, Starting, Succeeding,
       Started, Testing, StopSteps, StartSteps
  <2> QED BY <1>2, <2>0, <2>1, <2>2, <2>3, OwnerStep, ServedCall DEF AtSetupOn,
     LockedSteps, Serves, AllOps, StopSteps, StartSteps, TestSteps
<1>3. CASE AtTests(c)
  <2>0. req[c].op = "auto_tests"
    BY <1>3, ServedCall DEF AtTests, TestSteps
  <2>1. TypeOK'
    <3>1. pc' \in [Threads -> Steps] /\ ret' \in [Threads -> {0, 1}]
      BY <1>3 DEF AtTests, Steps, LockedSteps, TestSteps
    <3>2. tests_raised' \in BOOLEAN
      BY <1>3 DEF AtTests
    <3> QED BY <1>3, <3>1, <3>2 DEF AtTests
  <2>2. ExpInv' /\ TimerInv'
    BY <1>3, <2>0 DEF AtTests, ExpInv, TimerInv
  <2>3. Progress(c)'
    BY <1>3, <2>0 DEF AtTests, Progress, Stopping, Starting, Succeeding,
       Started, Testing, StopSteps, StartSteps
  <2> QED BY <1>3, <2>0, <2>1, <2>2, <2>3, OwnerStep, ServedCall DEF AtTests,
     LockedSteps, Serves, AllOps, StopSteps, StartSteps, TestSteps
<1>4. CASE AtTeardown(c)
  <2>0. req[c].op = "auto_tests"
    BY <1>4, ServedCall DEF AtTeardown, TestSteps
  <2>1. TypeOK'
    <3>1. pc' \in [Threads -> Steps] /\ ret' \in [Threads -> {0, 1}]
      BY <1>4 DEF AtTeardown, CnSerialStop, Steps, LockedSteps
    <3>2. /\ debug' \in BOOLEAN /\ redir' \in BOOLEAN
          /\ fw' \in {"idle", "user", "autotest", "bad"}
          /\ open_node_state' \in {"start", "stop"}
      BY <1>4 DEF AtTeardown
    <3>3. cn' \in {"stopped", "started", "dead"}
      BY <1>4 DEF AtTeardown, CnSerialStop
    <3> QED BY <1>4, <3>1, <3>2, <3>3 DEF AtTeardown
  <2>2. ExpInv' /\ TimerInv'
    BY <1>4, <2>0 DEF AtTeardown, CnSerialStop, ExpInv, TimerInv
  <2>3. Progress(c)'
    BY <1>4, <2>0 DEF AtTeardown, CnSerialStop, Progress, Stopping, Starting, Succeeding,
       Started, Testing, StopSteps, StartSteps
  <2> QED BY <1>4, <2>0, <2>1, <2>2, <2>3, OwnerStep, ServedCall DEF
     AtTeardown, CnSerialStop, LockedSteps, Serves, AllOps, StopSteps, StartSteps, TestSteps
<1>5. CASE AtTeardownRaises(c)
  <2>0. req[c].op = "auto_tests"
    BY <1>5, ServedCall DEF AtTeardownRaises, TestSteps
  <2>1. TypeOK'
    BY <1>5, <2>0 DEF AtTeardownRaises, Steps, LockedSteps, TestSteps
  <2>2. ExpInv' /\ TimerInv'
    BY <1>5, <2>0 DEF AtTeardownRaises, ExpInv, TimerInv
  <2>3. Progress(c)'
    BY <1>5, <2>0 DEF AtTeardownRaises, Progress, Stopping, Starting,
       Succeeding, Started, Testing, StopSteps, StartSteps
  <2> QED BY <1>5, <2>0, <2>1, <2>2, <2>3, OwnerStep, ServedCall DEF
     AtTeardownRaises, LockedSteps, Serves, AllOps, StopSteps, StartSteps,
     TestSteps
<1> QED BY <1>1, <1>2, <1>3, <1>4, <1>5

(* The expiration of an experiment decides on its call. *)
LEMMA TimeoutInv ==
  ASSUME IInv, NEW t \in Timers, timeout_exp_stop(t)
  PROVE  IInv'
<1> USE ThreadsAssumption
<1> USE DEF IInv, TypeOK, At, Goto, Return, Threads, exp_vars, cn_vars, prog_vars, on_vars
<1>1. TypeOK'
  BY DEF timeout_exp_stop, Steps, LockedSteps, AllOps
<1>2. ExpInv' /\ TimerInv'
  BY DEF timeout_exp_stop, ExpInv, TimerInv
<1>3. Progress(t)'
  BY DEF timeout_exp_stop, Progress, Stopping, StopSteps
<1> QED BY <1>1, <1>2, <1>3, OwnerStep
  DEF timeout_exp_stop, LockedSteps, AllOps, TimerSteps

(* exp_stop cancels the Timer of its experiment, which may be its own.      *)
LEMMA CancelTimerInv ==
  ASSUME IInv, NEW th \in Threads, CancelTimer(th)
  PROVE  IInv'
<1> USE ThreadsAssumption
<1> USE DEF IInv, TypeOK, At, Threads, exp_vars, cn_vars, prog_vars, on_vars
<1>1. /\ rlock = th /\ rlock' = th /\ pc[th] = "cancel_timer"
      /\ pc'[th] = "cn_stop_experiment" /\ req'[th] = req[th]
      /\ timeout_timer' = NoTimer /\ running /\ running'
  BY DEF CancelTimer, Progress, Stopping, StopSteps
<1>2. \A x \in Threads : x # th =>
        \/ pc'[x] = pc[x] /\ req'[x] = req[x] /\ pc[x] \in OutsideSteps
             /\ (x = timeout_timer => pc[x] # "waiting")
        \/ pc'[x] = "idle" /\ req'[x] = NoReq
  BY <1>1, OthersOutside DEF CancelTimer
<1>3. TypeOK'
  <2>1. pc' \in [Threads -> Steps]
    BY DEF CancelTimer, Steps, LockedSteps, StopSteps
  <2>2. req' \in [Threads -> Requests \cup TimerCalls \cup {NoReq}]
    BY DEF CancelTimer
  <2> QED BY <2>1, <2>2 DEF CancelTimer
<1>4. LockInv'
  BY <1>1, <1>2 DEF LockInv, Locked, OutsideSteps, LockedSteps, AllOps, StopSteps,
     StartSteps, TestSteps
<1>5. CallInv'
  <2>1. ASSUME NEW t \in Timers PROVE TimerCall(t)'
    BY <1>1, <1>2 DEF CallInv, TimerCall, TimerSteps, StopSteps
  <2>2. ASSUME NEW c \in Clients PROVE ClientCall(c)'
    <3>1. CASE c = th
      BY <1>1, <3>1, ServedCall DEF ClientCall, Serves, StopSteps
    <3>2. CASE c # th
      BY <1>2, <3>2 DEF CallInv, ClientCall, Locked, OutsideSteps, LockedSteps,
         AllOps, StopSteps, StartSteps, TestSteps
    <3> QED BY <3>1, <3>2
  <2> QED BY <2>1, <2>2 DEF CallInv
<1>6. ExpInv'
  BY <1>1 DEF CancelTimer, ExpInv
<1>7. TimerInv'
  <2> SUFFICES ASSUME NEW t \in Timers PROVE pc'[t] # "waiting"
    BY <1>1 DEF TimerInv
  <2> QED BY <1>1, <1>2 DEF TimerInv
<1>8. ASSUME NEW x \in Threads PROVE Progress(x)'
  <2>1. CASE x = th
    BY <1>1, <2>1 DEF CancelTimer, Progress, Stopping, Starting, Succeeding, Started, Testing,
       StopSteps, StartSteps
  <2>2. CASE x # th
    BY <1>2, <2>2 DEF Progress, Stopping, Starting, Succeeding, Started, Testing,
       OutsideSteps, StopSteps, StartSteps
  <2> QED BY <2>1, <2>2
<1> QED BY <1>3, <1>4, <1>5, <1>6, <1>7, <1>8

(* exp_start arms a Timer for its experiment, or none. *)
LEMMA SetTimerInv ==
  ASSUME IInv, NEW c \in Clients, SetTimer(c)
  PROVE  IInv'
<1> USE ThreadsAssumption
<1> USE DEF IInv, TypeOK, At, Goto, Threads, exp_vars, cn_vars, prog_vars, on_vars
<1>1. /\ req[c].op = "exp_start" /\ req[c].exp \in Exps /\ req[c].timed \in BOOLEAN
      /\ req[c] \in Requests
  BY ServedCall, RequestFields DEF SetTimer, StartSteps
<1>2. rlock = c /\ rlock' = c /\ pc'[c] = "return" /\ req'[c] = req[c]
  BY DEF SetTimer
<1>3. /\ running /\ exp = req[c].exp /\ timeout_timer = NoTimer
      /\ exp_files /\ user_log_handler /\ redir /\ profile = req[c].profile
      /\ ret[c] = 0 => /\ cn # "stopped" /\ open_node_state = "start"
                       /\ ~debug /\ fw = req[c].fw
  BY DEF SetTimer, Progress, Starting, Succeeding, StartSteps
<1>4. Started(c)'
  BY <1>1, <1>2, <1>3 DEF SetTimer, Started
<1>5. CASE ~req[c].timed
  <2>1. TypeOK'
    BY <1>5 DEF SetTimer, Steps, LockedSteps
  <2>2. ExpInv' /\ TimerInv'
    BY <1>3, <1>5 DEF SetTimer, ExpInv, TimerInv
  <2>3. Progress(c)'
    BY <1>2, <1>4 DEF Progress, Stopping, Starting, Succeeding, Testing, StopSteps, StartSteps
  <2> QED BY <1>5, <2>1, <2>2, <2>3, OwnerStep DEF SetTimer, LockedSteps, Serves
<1>6. CASE req[c].timed
  <2>1. PICK t \in Timers :
          /\ pc[t] = "idle" /\ timeout_timer' = t
          /\ pc' = [pc EXCEPT ![t] = "waiting", ![c] = "return"]
          /\ req' = [req EXCEPT ![t] = [op |-> "timeout_exp_stop",
                                        exp |-> req[c].exp]]
    BY <1>6 DEF SetTimer
  <2>2. /\ pc'[t] = "waiting" /\ req'[t] \in TimerCalls /\ req'[t].exp = exp
        /\ \A x \in Threads : x # c /\ x # t =>
             pc'[x] = pc[x] /\ pc[x] \in OutsideSteps /\ req'[x] = req[x]
    BY <1>1, <1>2, <1>3, <2>1, OthersOutside DEF TimerCalls
  <2>3. TypeOK'
    <3>1. pc' \in [Threads -> Steps]
      BY <2>1 DEF Steps, LockedSteps
    <3>2. req' \in [Threads -> Requests \cup TimerCalls \cup {NoReq}]
      BY <1>1, <2>1 DEF TimerCalls
    <3> QED BY <2>1, <3>1, <3>2 DEF SetTimer
  <2>4. LockInv'
    BY <1>2, <2>2 DEF LockInv, Locked, OutsideSteps, LockedSteps, AllOps, StopSteps,
       StartSteps, TestSteps
  <2>5. CallInv'
    <3>1. ASSUME NEW x \in Timers PROVE TimerCall(x)'
      BY <2>2 DEF CallInv, TimerCall, TimerSteps
    <3>2. ASSUME NEW x \in Clients PROVE ClientCall(x)'
      BY <1>1, <1>2, <2>2 DEF CallInv, ClientCall, Serves, Locked
    <3> QED BY <3>1, <3>2 DEF CallInv
  <2>6. ExpInv' /\ TimerInv'
    BY <1>3, <2>1, <2>2 DEF SetTimer, ExpInv, TimerInv
  <2>7. ASSUME NEW x \in Threads PROVE Progress(x)'
    <3>1. CASE x = c
      BY <1>2, <1>4, <3>1 DEF Progress, Stopping, Starting, Succeeding, Testing, StopSteps,
         StartSteps
    <3>2. CASE x # c
      BY <2>2, <3>2 DEF Progress, Stopping, Starting, Succeeding, Started, Testing,
         OutsideSteps, StopSteps, StartSteps
    <3> QED BY <3>1, <3>2
  <2> QED BY <2>3, <2>4, <2>5, <2>6, <2>7
<1> QED BY <1>1, <1>5, <1>6

(* A thread comes to the lock or is refused it: nothing shared changes. *)
LEMMA OutsideInv ==
  ASSUME IInv, NEW th \in Threads,
         (th \in Clients /\ Request(th)) \/ (th \in Timers /\ Expire(th)) \/ WouldBlock(th)
  PROVE  IInv'
<1> USE ThreadsAssumption
<1> USE DEF IInv, TypeOK, Goto, Threads, exp_vars, cn_vars, prog_vars, on_vars
<1>1. /\ UNCHANGED <<rlock, ret, running, exp, exp_files, user_log_handler,
                     timeout_timer, cn, lost, disturbed, profile, open_node_state,
                     redir, debug, fw, tests_raised>>
      /\ \E s \in {"idle", "call"} : pc' = [pc EXCEPT ![th] = s]
      /\ \/ req' = req
         \/ req' = [req EXCEPT ![th] = NoReq] /\ pc'[th] = "idle"
      /\ pc[th] \in OutsideSteps
      /\ th \in Timers => pc[th] # "idle"
  BY DEF Request, Expire, WouldBlock, OutsideSteps
<1>2. /\ pc'[th] \in {"idle", "call"} /\ rlock # th
      /\ \A x \in Threads : x # th => pc'[x] = pc[x] /\ req'[x] = req[x]
  BY <1>1 DEF LockInv, Locked, OutsideSteps, LockedSteps, AllOps, StopSteps,
     StartSteps, TestSteps
<1>3. TypeOK'
  <2>1. pc' \in [Threads -> Steps]
    BY <1>1 DEF Steps
  <2>2. req' \in [Threads -> Requests \cup TimerCalls \cup {NoReq}]
    BY <1>1
  <2> QED BY <1>1, <2>1, <2>2
<1>4. LockInv'
  BY <1>1, <1>2 DEF LockInv, Locked, LockedSteps, AllOps, StopSteps, StartSteps,
     TestSteps
<1>5. CallInv'
  <2>1. ASSUME NEW t \in Timers PROVE TimerCall(t)'
    BY <1>1, <1>2 DEF CallInv, TimerCall, TimerSteps
  <2>2. ASSUME NEW c \in Clients PROVE ClientCall(c)'
    BY <1>1, <1>2 DEF CallInv, ClientCall, Locked, LockedSteps, AllOps, StopSteps,
       StartSteps, TestSteps
  <2> QED BY <2>1, <2>2 DEF CallInv
<1>6. ExpInv' /\ TimerInv'
  BY <1>1, <1>2 DEF ExpInv, TimerInv
<1>7. ASSUME NEW x \in Threads PROVE Progress(x)'
  <2>1. CASE x = th
    BY <1>2, <2>1 DEF Progress, Stopping, Starting, Succeeding, Started, Testing, At,
       StopSteps, StartSteps
  <2>2. CASE x # th
    BY <1>1, <1>2, <2>2 DEF Progress, Stopping, Starting, Succeeding, Started, Testing, At
  <2> QED BY <2>1, <2>2
<1> QED BY <1>3, <1>4, <1>5, <1>6, <1>7

(* A thread enters a method. *)
LEMMA AcquireInv ==
  ASSUME IInv, NEW th \in Threads, NEW call, Acquire(th, call),
         th \in Clients => call \in Requests,
         th \in Timers => call = req[th]
  PROVE  IInv'
<1> USE ThreadsAssumption
<1> USE DEF IInv, TypeOK, Goto, Threads, exp_vars, cn_vars, prog_vars, on_vars
<1>1. /\ th \in Clients => call.op \in AllOps
      /\ th \in Timers => call \in TimerCalls /\ call.op = "timeout_exp_stop"
      /\ call \in Requests \cup TimerCalls
  BY RequestFields, OpsAssumption DEF Acquire, CallInv, TimerCall, TimerCalls
<1>2. /\ rlock = NoThread /\ rlock' = th /\ pc'[th] = call.op /\ req'[th] = call
      /\ \A x \in Threads : x # th =>
           pc'[x] = pc[x] /\ req'[x] = req[x] /\ pc[x] \in OutsideSteps
  BY OthersOutside DEF Acquire
<1>3. TypeOK'
  <2>1. pc' \in [Threads -> Steps]
    BY <1>1 DEF Acquire, Steps, LockedSteps
  <2>2. req' \in [Threads -> Requests \cup TimerCalls \cup {NoReq}]
    BY <1>1 DEF Acquire
  <2> QED BY <2>1, <2>2 DEF Acquire
<1>4. LockInv'
  BY <1>1, <1>2 DEF LockInv, Locked, OutsideSteps, LockedSteps, AllOps, StopSteps,
     StartSteps, TestSteps
<1>5. CallInv'
  <2>1. ASSUME NEW t \in Timers PROVE TimerCall(t)'
    BY <1>1, <1>2 DEF CallInv, TimerCall, TimerSteps
  <2>2. ASSUME NEW c \in Clients PROVE ClientCall(c)'
    BY <1>1, <1>2 DEF CallInv, ClientCall, Serves, Locked, AllOps
  <2> QED BY <2>1, <2>2 DEF CallInv
<1>6. ExpInv' /\ TimerInv'
  <2>1. ~running /\ redir => tests_raised
    BY <1>2 DEF ExpInv
  <2>2. ExpInv'
    BY <2>1 DEF Acquire, ExpInv
  <2>3. TimerInv'
    BY <1>1, <1>2 DEF Acquire, TimerInv, AllOps
  <2> QED BY <2>2, <2>3
<1>7. ASSUME NEW x \in Threads PROVE Progress(x)'
  <2>1. CASE x = th
    BY <1>1, <1>2, <2>1 DEF Progress, Stopping, Starting, Succeeding, Started, Testing, At,
       AllOps, StopSteps, StartSteps
  <2>2. CASE x # th
    BY <1>2, <2>2 DEF Progress, Stopping, Starting, Succeeding, Started, Testing, At,
       OutsideSteps, StopSteps, StartSteps
  <2> QED BY <2>1, <2>2
<1> QED BY <1>3, <1>4, <1>5, <1>6, <1>7

(* A thread leaves a method. *)
LEMMA ReleaseInv ==
  ASSUME IInv, NEW th \in Threads, Release(th)
  PROVE  IInv'
<1> USE ThreadsAssumption
<1> USE DEF IInv, TypeOK, At, Goto, Threads, exp_vars, cn_vars, prog_vars, on_vars
<1>1. /\ rlock = th /\ rlock' = NoThread /\ pc[th] = "return"
      /\ pc'[th] = "idle" /\ req'[th] = NoReq
      /\ \A x \in Threads : x # th =>
           pc'[x] = pc[x] /\ req'[x] = req[x] /\ pc[x] \in OutsideSteps
  BY OthersOutside DEF Release
<1>2. TypeOK'
  <2>1. pc' \in [Threads -> Steps] /\ ret' \in [Threads -> {0, 1}]
    BY DEF Release, Steps
  <2>2. req' \in [Threads -> Requests \cup TimerCalls \cup {NoReq}]
    BY DEF Release
  <2> QED BY <2>1, <2>2 DEF Release
<1>3. LockInv'
  BY <1>1 DEF LockInv, Locked, OutsideSteps, LockedSteps, AllOps, StopSteps,
     StartSteps, TestSteps
<1>4. CallInv'
  <2>1. ASSUME NEW t \in Timers PROVE TimerCall(t)'
    BY <1>1 DEF CallInv, TimerCall, TimerSteps
  <2>2. ASSUME NEW c \in Clients PROVE ClientCall(c)'
    BY <1>1 DEF CallInv, ClientCall, Locked, LockedSteps, AllOps, StopSteps,
       StartSteps, TestSteps
  <2> QED BY <2>1, <2>2 DEF CallInv
<1>5. ExpInv' /\ TimerInv'
  BY <1>1 DEF Release, ExpInv, TimerInv
<1>6. ASSUME NEW x \in Threads PROVE Progress(x)'
  BY <1>1 DEF Progress, Stopping, Starting, Succeeding, Started, Testing, OutsideSteps,
     StopSteps, StartSteps
<1> QED BY <1>2, <1>3, <1>4, <1>5, <1>6

(* No promise is about a control_node_serial that has ended. *)
LEMMA DiesInv ==
  ASSUME IInv, ControlNodeSerialDies
  PROVE  IInv'
<1> USE DEF IInv, TypeOK, exp_vars, on_vars, ControlNodeSerialDies
<1>1. TypeOK' /\ LockInv' /\ CallInv' /\ ExpInv' /\ TimerInv'
  BY DEF LockInv, CallInv, TimerCall, ClientCall, Locked, ExpInv, TimerInv
<1>2. ASSUME NEW x \in Threads PROVE Progress(x)'
  BY DEF Progress, Stopping, Starting, Succeeding, Started, Testing, At
<1> QED BY <1>1, <1>2

(* Nor about one that is out of reach. *)
LEMMA LostEndsInv ==
  ASSUME IInv, LostEnds
  PROVE  IInv'
<1> USE DEF IInv, TypeOK, exp_vars, on_vars, LostEnds
<1>1. /\ lost' \in {"nothing", "reader", "program"} /\ disturbed' \in BOOLEAN
      /\ lost' # "nothing" => disturbed'
  BY DEF ExpInv
<1>2. TypeOK'
  BY <1>1
<1>3. LockInv' /\ CallInv' /\ ExpInv' /\ TimerInv'
  BY <1>1 DEF LockInv, CallInv, TimerCall, ClientCall, Locked, ExpInv, TimerInv
<1>4. ASSUME NEW x \in Threads PROVE Progress(x)'
  BY DEF Progress, Stopping, Starting, Succeeding, Started, Testing, At
<1> QED BY <1>2, <1>3, <1>4

(* A step that changes nothing keeps the invariant. *)
LEMMA StutterInv ==
  ASSUME IInv, UNCHANGED vars
  PROVE  IInv'
<1> USE DEF IInv, TypeOK, vars, exp_vars, cn_vars, prog_vars, on_vars
<1>1. TypeOK' /\ LockInv' /\ CallInv' /\ ExpInv' /\ TimerInv'
  BY DEF LockInv, CallInv, TimerCall, ClientCall, Locked, ExpInv, TimerInv
<1>2. ASSUME NEW x \in Threads PROVE Progress(x)'
  BY DEF Progress, Stopping, Starting, Succeeding, Started, Testing, At
<1> QED BY <1>1, <1>2

(* Every step of every thread keeps the invariant. *)
LEMMA NextInv ==
  ASSUME IInv, [Next]_vars
  PROVE  IInv'
<1>1. ASSUME NEW c \in Clients, Request(c) PROVE IInv'
  BY <1>1, OutsideInv DEF Threads
<1>2. ASSUME NEW th \in Threads, WouldBlock(th) PROVE IInv'
  BY <1>2, OutsideInv
<1>3. ASSUME NEW th \in Threads, Release(th) PROVE IInv'
  BY <1>3, ReleaseInv
<1>4. ASSUME NEW th \in Threads, StopStep(th) PROVE IInv'
  BY <1>4, StopStepInv, CancelTimerInv DEF StopStep
<1>5. ASSUME NEW c \in Clients, ClientStep(c) PROVE IInv'
  BY <1>5, StartStepInv, SetTimerInv, OpInv, TestStepInv DEF ClientStep
<1>6. ASSUME NEW c \in Clients, NEW r \in Requests, Acquire(c, r) PROVE IInv'
  BY <1>6, AcquireInv, ThreadsAssumption DEF Threads
<1>7. ASSUME NEW t \in Timers, Expire(t) PROVE IInv'
  BY <1>7, OutsideInv DEF Threads
<1>8. ASSUME NEW t \in Timers, Acquire(t, req[t]) PROVE IInv'
  BY <1>8, AcquireInv, ThreadsAssumption DEF Threads
<1>9. ASSUME NEW t \in Timers, timeout_exp_stop(t) PROVE IInv'
  BY <1>9, TimeoutInv
<1>10. CASE ControlNodeSerialDies
  BY <1>10, DiesInv
<1>11. CASE UNCHANGED vars
  BY <1>11, StutterInv
<1>12. CASE LostEnds
  BY <1>12, LostEndsInv
<1> QED BY <1>1, <1>2, <1>3, <1>4, <1>5, <1>6, <1>7, <1>8, <1>9, <1>10, <1>11,
    <1>12 DEF Next, ThreadStep

(* The invariant holds in every state of the manager. *)
LEMMA Invariance == Spec => []IInv
  BY InitInv, NextInv, PTL DEF Spec

-----------------------------------------------------------------------------
(* The theorems *)

(* Every variable of the manager keeps its type, whatever requests arrive   *)
(* and whenever Timers expire.                                              *)
THEOREM TypeCorrect == Spec => []TypeOK
<1>1. IInv => TypeOK
  BY DEF IInv
<1> QED BY <1>1, Invariance, PTL

(* The decorator synchronous keeps two methods from overlapping: any number *)
(* of request and Timer threads, one owner of rlock inside a method.        *)
THEOREM MethodsExclude == Spec => []MutualExclusion
<1>1. IInv => MutualExclusion
  BY ThreadsAssumption DEF IInv, LockInv, CallInv, ClientCall, MutualExclusion, Threads
<1> QED BY <1>1, Invariance, PTL

(* exp_stop leaves no armed Timer behind: a Timer that waits is the current *)
(* one, and it was created for the experiment that runs.                    *)
THEOREM ArmedTimer == Spec => []ArmedTimerIsCurrent
<1>1. IInv => ArmedTimerIsCurrent
  BY DEF IInv, TypeOK, ExpInv, TimerInv, ArmedTimerIsCurrent
<1> QED BY <1>1, Invariance, PTL

(* Between two methods a gateway without an experiment holds nothing of     *)
(* one, whatever failed in exp_start, exp_stop or auto_tests; what an       *)
(* auto_tests that raised or ran in an experiment leaves is the exception.  *)
THEOREM CleanWhenIdle == Spec => []IdleIsClean
<1>1. IInv => IdleIsClean
  BY ThreadsAssumption DEF IInv, ExpInv, IdleIsClean
<1> QED BY <1>1, Invariance, PTL

(* An exp_start that returns 0 has started all it was asked for. *)
THEOREM ZeroMeansStarted == Spec => []StartedMeansStarted
<1>1. IInv => StartedMeansStarted
  BY DEF IInv, Progress, Started, StartedMeansStarted, Threads
<1> QED BY <1>1, Invariance, PTL

(* The open_node.setup of exp_start meets a serial redirection that is      *)
(* started only if an exception ended an earlier auto_tests.                *)
THEOREM RedirectionOnce == Spec => []RedirectionStartsOnce
<1>1. IInv => RedirectionStartsOnce
  BY DEF IInv, Progress, Starting, RedirectionStartsOnce, At, Threads
<1> QED BY <1>1, Invariance, PTL

(* Only the last step of exp_stop ends an experiment. *)
LEMMA EndsByReset ==
  ASSUME [Next]_vars, running, ~running'
  PROVE  \E th \in Threads : ResetExp(th)
<1> USE DEF exp_vars
<1>1. ~UNCHANGED vars /\ ~ControlNodeSerialDies /\ ~LostEnds
  BY DEF vars, ControlNodeSerialDies, LostEnds
<1>2. ASSUME NEW th \in Threads
      PROVE  ~(Request(th) \/ WouldBlock(th) \/ Release(th) \/ Expire(th)
               \/ timeout_exp_stop(th) \/ \E r : Acquire(th, r))
  BY DEF Request, WouldBlock, Release, Expire, timeout_exp_stop, Acquire
<1>3. ASSUME NEW c \in Clients PROVE ~ClientStep(c)
  BY DEF ClientStep, exp_start, Validate, CreateFiles, CnStart, PowerCycle, OnSetup,
     CnStartExperiment, SetTimer, exp_update_profile, open_power_start,
     open_power_stop, open_debug_start, open_debug_stop, node_soft_reset,
     node_flash, status, auto_tests, AtSetupOn, AtTests, AtTeardown,
     AtTeardownRaises
<1>4. ASSUME NEW th \in Threads, StopStep(th) PROVE ResetExp(th)
  BY <1>4 DEF StopStep, exp_stop, CancelTimer, CnStopExperiment, OnTeardown, CnStop
<1> QED BY <1>1, <1>2, <1>3, <1>4 DEF Next, ThreadStep, Threads

(* Whatever fails on the way, the end of an experiment leaves the nodes     *)
(* stopped and clean for the next one; a control_node_serial out of reach   *)
(* it leaves only if auto_tests disturbed an experiment or had raised.      *)
THEOREM StopLeavesClean == Spec => StopCleansUp
<1>1. ASSUME IInv, [Next]_vars, running, ~running'
      PROVE  /\ cn' = "stopped" /\ profile' = "default"
             /\ lost' # "nothing" => disturbed'
             /\ ~redir' /\ ~debug'
             /\ timeout_timer' = NoTimer /\ ~exp_files' /\ ~user_log_handler'
             /\ ret'[rlock] = 0 => fw' = "idle"
  <2>1. PICK th \in Threads : ResetExp(th)
    BY <1>1, EndsByReset
  <2>2. ~exp_files' /\ ~user_log_handler'
    BY <2>1 DEF ResetExp, cleanup_user_exp_files
  <2> QED BY <1>1, <2>1, <2>2 DEF ResetExp, IInv, ExpInv, Progress, Stopping, At,
       StopSteps, cn_vars, prog_vars, on_vars
<1>2. IInv /\ [Next]_vars =>
        [running /\ ~running' =>
          /\ cn' = "stopped" /\ profile' = "default"
          /\ lost' # "nothing" => disturbed'
          /\ ~redir' /\ ~debug'
          /\ timeout_timer' = NoTimer /\ ~exp_files' /\ ~user_log_handler'
          /\ ret'[rlock] = 0 => fw' = "idle"]_vars
  BY <1>1
<1> QED BY <1>2, Invariance, PTL DEF Spec, StopCleansUp

(* A Timer thread that stops an experiment stops the one it was created     *)
(* for, however late it gets the lock.                                      *)
THEOREM TimeoutOwn == Spec => TimeoutStopsItsOwn
<1>1. ASSUME IInv, [Next]_vars, NEW t \in Timers, rlock = t, running, ~running'
      PROVE  exp = req[t].exp
  BY <1>1, EndsByReset DEF ResetExp, IInv, Progress, Stopping, At, StopSteps, Threads
<1>2. IInv /\ [Next]_vars =>
        [\A t \in Timers : rlock = t /\ running /\ ~running' => exp = req[t].exp]_vars
  BY <1>1
<1> QED BY <1>2, Invariance, PTL DEF Spec, TimeoutStopsItsOwn

-----------------------------------------------------------------------------
(* GatewayManager implements ExperimentSession: every step of a thread of   *)
(* the manager is a step of the session or leaves it alone.                 *)

(* What a step must leave alone to be no step of the session. *)
LEMMA HeldUnchanged ==
  ASSUME exp_files' = exp_files, user_log_handler' = user_log_handler, redir' = redir,
         timeout_timer' # NoTimer <=> timeout_timer # NoTimer
  PROVE  Held' = Held
  BY DEF Held

(* A step that leaves the session's state alone is no step of it. *)
LEMMA SessionStutters ==
  ASSUME UNCHANGED <<running, exp, exp_files, user_log_handler, redir>>,
         timeout_timer' # NoTimer <=> timeout_timer # NoTimer,
         running \/ ~redir \/ tests_raised' = tests_raised
  PROVE  UNCHANGED Session!vars
  BY HeldUnchanged DEF Session!vars

(* The steps of exp_stop drop the resources and end the session. *)
LEMMA SessionStopStep ==
  ASSUME IInv, NEW th \in Threads, StopStep(th)
  PROVE  [Session!Next]_(Session!vars)
<1>1. CASE exp_stop(th) \/ CnStopExperiment(th) \/ CnStop(th)
  BY <1>1, SessionStutters
  DEF exp_stop, CnStopExperiment, CnStop, exp_vars, on_vars
<1>2. CASE CancelTimer(th)
  <2>1. running /\ running' /\ exp' = exp
    BY <1>2 DEF CancelTimer, IInv, Progress, Stopping, At, StopSteps, exp_vars
  <2>2. Held' = Held \ {"timer"}
    BY <1>2 DEF CancelTimer, Held, exp_vars, on_vars
  <2>3. Session!Drop("timer")
    BY <2>1, <2>2 DEF Session!Drop, Session!Records
  <2> QED BY <2>3 DEF Session!Next, Session!Resources
<1>3. CASE OnTeardown(th)
  <2>1. running /\ running' /\ exp' = exp
    BY <1>3 DEF OnTeardown, IInv, Progress, Stopping, At, StopSteps, exp_vars
  <2>2. Held' = Held \ {"redirection"}
    BY <1>3 DEF OnTeardown, Held, exp_vars
  <2>3. Session!Drop("redirection")
    BY <2>1, <2>2 DEF Session!Drop, Session!Records
  <2> QED BY <2>3 DEF Session!Next, Session!Resources
<1>4. CASE ResetExp(th)
  <2>1. running /\ ~redir /\ timeout_timer = NoTimer
    BY <1>4 DEF ResetExp, IInv, Progress, Stopping, At, StopSteps
  <2>2. ~running' /\ ~redir' /\ timeout_timer' = NoTimer /\ exp' = NoExp
    BY <1>4, <2>1 DEF ResetExp, on_vars
  <2>3. Held \subseteq Session!Records
    BY <2>1 DEF Held, Session!Records
  <2>4. Held' = {}
    BY <1>4, <2>2 DEF ResetExp, cleanup_user_exp_files, Held
  <2>5. Session!End
    BY <2>1, <2>2, <2>3, <2>4 DEF Session!End
  <2> QED BY <2>5 DEF Session!Next
<1> QED BY <1>1, <1>2, <1>3, <1>4 DEF StopStep

(* The steps of exp_start begin the session and take the resources. *)
LEMMA SessionStartStep ==
  ASSUME IInv, NEW c \in Clients,
         exp_start(c) \/ Validate(c) \/ CreateFiles(c) \/ CnStart(c) \/ PowerCycle(c)
         \/ OnSetup(c) \/ CnStartExperiment(c) \/ SetTimer(c)
  PROVE  [Session!Next]_(Session!vars)
<1>1. CASE exp_start(c) \/ CnStart(c) \/ PowerCycle(c) \/ CnStartExperiment(c)
  BY <1>1, SessionStutters
  DEF exp_start, CnStart, PowerCycle, CnStartExperiment, exp_vars, on_vars
<1>2. CASE Validate(c)
  <2>1. /\ ~running /\ (redir => tests_raised) /\ ~exp_files /\ ~user_log_handler
        /\ timeout_timer = NoTimer
    BY <1>2, ThreadsAssumption DEF Validate, IInv, ExpInv, Progress, Starting, At,
       Threads
  <2>2. Held \subseteq {"redirection"} /\ Held' = Held
    BY <1>2, <2>1, HeldUnchanged DEF Validate, Held, on_vars
  <2>3. CASE running' = running /\ exp' = exp
    BY <1>2, <2>3, SessionStutters DEF Validate, on_vars
  <2>4. CASE running' = TRUE /\ exp' = req[c].exp
    <3>1. req[c].exp \in Exps
      BY <1>2, ServedCall, RequestFields DEF Validate, At, StartSteps
    <3>2. running'
      BY <2>4
    <3>3. Session!Begin(req[c].exp)
      BY <2>1, <2>2, <2>4, <3>2 DEF Session!Begin
    <3> QED BY <3>1, <3>3 DEF Session!Next
  <2> QED BY <1>2, <2>3, <2>4 DEF Validate
<1>3. CASE CreateFiles(c)
  <2>1. running /\ running' /\ exp' = exp
    BY <1>3 DEF CreateFiles, IInv, Progress, Starting, At, Threads, StartSteps
  <2>2. /\ exp_files => exp_files'
        /\ user_log_handler => user_log_handler'
    <3>1. exp_files' = exp_files \/ exp_files' = TRUE
      BY <1>3 DEF CreateFiles, create_user_exp_files
    <3>2. user_log_handler' = user_log_handler \/ user_log_handler' = TRUE
      BY <1>3 DEF CreateFiles
    <3> QED BY <3>1, <3>2
  <2>3. Held' = Held \cup (Held' \ {"timer"})
    <3>1. timeout_timer' = timeout_timer /\ redir' = redir
      BY <1>3 DEF CreateFiles, on_vars
    <3> QED BY <2>2, <3>1 DEF Held
  <2>4. Held' \ {"timer"} \in SUBSET Session!Resources
    BY DEF Held, Session!Resources, Session!Records
  <2>5. Session!Take(Held' \ {"timer"})
    BY <2>1, <2>3 DEF Session!Take
  <2> QED BY <2>4, <2>5 DEF Session!Next
<1>4. CASE OnSetup(c)
  <2>1. running /\ running' /\ exp' = exp
    BY <1>4 DEF OnSetup, IInv, Progress, Starting, At, Threads, StartSteps, exp_vars
  <2>2. Held' = Held \cup {"redirection"}
    BY <1>4 DEF OnSetup, Held, exp_vars
  <2>3. Session!Take({"redirection"})
    BY <2>1, <2>2 DEF Session!Take
  <2> QED BY <2>3 DEF Session!Next, Session!Resources, Session!Records
<1>5. CASE SetTimer(c)
  <2>1. running /\ exp_files /\ user_log_handler /\ redir
    BY <1>5 DEF SetTimer, IInv, Progress, Starting, At, Threads, StartSteps
  <2>2. UNCHANGED <<running, exp, exp_files, user_log_handler, redir>>
    BY <1>5 DEF SetTimer, exp_vars, on_vars
  <2>3. CASE timeout_timer' = timeout_timer
    BY <2>1, <2>2, <2>3, SessionStutters
  <2>4. CASE timeout_timer' \in Timers
    <3>1. Held' = Held \cup {"timer"}
      BY <2>2, <2>4, ThreadsAssumption DEF Held
    <3>2. Session!Resources \ {"timer"} \subseteq Held
      BY <2>1 DEF Held, Session!Resources, Session!Records
    <3>3. Session!Take({"timer"})
      BY <2>1, <2>2, <3>1, <3>2 DEF Session!Take
    <3> QED BY <3>3 DEF Session!Next, Session!Resources, Session!Records
  <2> QED BY <1>5, <2>3, <2>4 DEF SetTimer
<1> QED BY <1>1, <1>2, <1>3, <1>4, <1>5

(* auto_tests is a session of its own, or takes and drops the redirection   *)
(* of the experiment it disturbs.                                           *)
LEMMA SessionTestStep ==
  ASSUME IInv, NEW c \in Clients,
         auto_tests(c) \/ AtSetupOn(c) \/ AtTests(c) \/ AtTeardown(c)
         \/ AtTeardownRaises(c)
  PROVE  [Session!Next]_(Session!vars)
<1>1. UNCHANGED <<running, exp, exp_files, user_log_handler, timeout_timer>>
  BY DEF auto_tests, AtSetupOn, AtTests, AtTeardown, AtTeardownRaises, exp_vars
<1>2. ~running => ~exp_files /\ ~user_log_handler /\ timeout_timer = NoTimer
  BY DEF IInv, ExpInv
<1>3. CASE AtSetupOn(c)
  <2>1. redir' = TRUE /\ Held' = Held \cup {"redirection"}
    BY <1>1, <1>3 DEF AtSetupOn, Held
  <2>2. CASE running
    <3>1. Session!Take({"redirection"})
      BY <1>1, <2>1, <2>2 DEF Session!Take
    <3> QED BY <3>1 DEF Session!Next, Session!Resources, Session!Records
  <2>3. CASE ~running /\ ~redir
    <3>1. Held = {}
      BY <1>2, <2>3 DEF Held
    <3>2. redir' /\ ~tests_raised'
      BY <1>3, <2>3 DEF AtSetupOn
    <3>3. Session!BeginTests
      BY <1>1, <2>1, <2>3, <3>1, <3>2 DEF Session!BeginTests
    <3> QED BY <3>3 DEF Session!Next
  <2>4. CASE ~running /\ redir
    <3>1. tests_raised
      BY <1>3, <2>4 DEF AtSetupOn, IInv, ExpInv, At
    <3>2. (redir' <=> redir) /\ (tests_raised' <=> tests_raised)
      BY <1>3, <2>4, <3>1 DEF AtSetupOn
    <3>3. redir' = redir /\ tests_raised' = tests_raised
      BY <1>3, <2>4, <3>1, <3>2 DEF AtSetupOn, IInv, TypeOK
    <3> QED BY <1>1, <3>3, SessionStutters
  <2> QED BY <2>2, <2>3, <2>4
<1>4. CASE AtTeardown(c)
  <2>1. redir' = FALSE /\ Held' = Held \ {"redirection"} /\ ~tests_raised
    BY <1>1, <1>4 DEF AtTeardown, Held, IInv, Progress, Testing, At, Threads
  <2>2. CASE running
    <3>1. Session!Drop("redirection")
      BY <1>1, <2>1, <2>2 DEF Session!Drop, Session!Records
    <3> QED BY <3>1 DEF Session!Next, Session!Resources
  <2>3. CASE ~running /\ redir
    <3>1. Held' = {}
      BY <1>1, <1>2, <2>1, <2>3 DEF Held
    <3>2. Session!EndTests
      BY <1>1, <2>1, <2>3, <3>1 DEF Session!EndTests
    <3> QED BY <3>2 DEF Session!Next
  <2>4. CASE ~redir
    <3>1. redir' = redir
      BY <2>1, <2>4 DEF IInv, TypeOK
    <3> QED BY <1>1, <2>4, <3>1, SessionStutters
  <2> QED BY <2>2, <2>3, <2>4
<1>5. CASE auto_tests(c) \/ AtTests(c) \/ AtTeardownRaises(c)
  <2>1. redir' = redir /\ Held' = Held
    BY <1>1, <1>5, HeldUnchanged DEF auto_tests, AtTests, AtTeardownRaises
  <2>2. CASE tests_raised' = tests_raised \/ running \/ ~redir
    BY <1>1, <2>1, <2>2, SessionStutters
  <2>3. CASE tests_raised' = TRUE /\ ~tests_raised /\ ~running /\ redir
    <3>1. tests_raised'
      BY <2>3
    <3>2. Session!EndTests
      BY <1>1, <2>1, <2>3, <3>1 DEF Session!EndTests
    <3> QED BY <3>2 DEF Session!Next
  <2>4. tests_raised' = tests_raised \/ tests_raised' = TRUE
    BY <1>5 DEF auto_tests, AtTests, AtTeardownRaises
  <2> QED BY <2>2, <2>3, <2>4 DEF IInv, TypeOK
<1> QED BY <1>3, <1>4, <1>5

(* Every step of the manager is a step of the session or a stutter. *)
LEMMA SessionStep ==
  ASSUME IInv, [Next]_vars
  PROVE  [Session!Next]_(Session!vars)
<1> USE DEF exp_vars, on_vars
<1>1. CASE UNCHANGED vars \/ ControlNodeSerialDies \/ LostEnds
  BY <1>1, SessionStutters DEF vars, ControlNodeSerialDies, LostEnds
<1>2. ASSUME NEW th \in Threads,
             Request(th) \/ WouldBlock(th) \/ Release(th) \/ Expire(th)
             \/ timeout_exp_stop(th) \/ \E r : Acquire(th, r)
      PROVE  [Session!Next]_(Session!vars)
  BY <1>2, SessionStutters
  DEF Request, WouldBlock, Release, Expire, timeout_exp_stop, Acquire
<1>3. ASSUME NEW th \in Threads, StopStep(th)
      PROVE  [Session!Next]_(Session!vars)
  BY <1>3, SessionStopStep
<1>4. ASSUME NEW c \in Clients, ClientStep(c)
      PROVE  [Session!Next]_(Session!vars)
  <2>1. CASE exp_update_profile(c) \/ open_power_start(c) \/ open_power_stop(c)
             \/ open_debug_start(c) \/ open_debug_stop(c) \/ node_soft_reset(c)
             \/ node_flash(c) \/ status(c)
    BY <2>1, SessionStutters DEF exp_update_profile, open_power_start,
       open_power_stop, open_debug_start, open_debug_stop, node_soft_reset,
       node_flash, status
  <2> QED BY <1>4, <2>1, SessionStartStep, SessionTestStep DEF ClientStep
<1> QED BY <1>1, <1>2, <1>3, <1>4 DEF Next, ThreadStep, Threads

(* The gateway manager, with its threads, lock and failing steps, is a      *)
(* gateway used by one session at a time.                                   *)
THEOREM ManagerImplementsSession == Spec => ImplementsSession
<1>1. Init => Session!Init
  BY DEF Init, Session!Init, Held
<1>2. IInv /\ [Next]_vars => [Session!Next]_(Session!vars)
  BY SessionStep
<1> QED BY <1>1, <1>2, Invariance, PTL DEF Spec, ImplementsSession, Session!Spec
=============================================================================
