--------------------------- MODULE GatewayManager ---------------------------
(***************************************************************************)
(* The gateway manager of gateway_code/gateway_manager.py: one object      *)
(* driven by the HTTP request threads of the REST server and by the        *)
(* expiration Timer threads that exp_start creates.                        *)
(*                                                                         *)
(* Every public method is wrapped by common.synchronous('rlock'): a thread *)
(* that finds the re-entrant lock taken by another thread does not wait,   *)
(* it gets EWOULDBLOCK.  For a request that is a 503 answer; for a Timer   *)
(* thread it is an exception nobody handles.                               *)
(*                                                                         *)
(* A method is a sequence of steps, because Timers expire and requests     *)
(* arrive between any two of them, and because a step can raise and leave  *)
(* the steps before it done.  The control node and the open node appear as *)
(* the state the manager's promises are about.  The open node is an        *)
(* OpenOCD board, the control node an iotlab one.  A return code is 0 or   *)
(* 1, and 1 stands for any non-zero sum of return codes.                   *)
(***************************************************************************)
EXTENDS Naturals

CONSTANTS
  Clients,   \* request threads of the HTTP server
  Timers,    \* Timer thread objects, reused once dead and unreferenced
  Exps,      \* the (exp_id, user) pairs that requests name
  Board,     \* open node TYPE
  Ops,       \* the operations that requests ask for
  NoThread,  \* the lock is free
  NoTimer,   \* timeout_timer is None
  NoExp      \* exp_id and user are None

AllOps ==
  { "exp_start", "exp_stop", "exp_update_profile", "open_power_start",
    "open_power_stop", "open_debug_start", "open_debug_stop",
    "node_soft_reset", "node_flash", "auto_tests", "status" }

ASSUME ThreadsAssumption ==
  /\ Clients \cap Timers = {}
  /\ NoThread \notin Clients \cup Timers
  /\ NoTimer \notin Timers
  /\ NoExp \notin Exps

ASSUME OpsAssumption == Ops \subseteq AllOps

ASSUME BoardAssumption == Board \in {"m3", "nrf52dk", "nrf52840dk", "nrf52840mdk"}

VARIABLES
  rlock,             \* the thread that owns the lock, or NoThread
  pc,                \* where each thread is
  req,               \* the call each thread makes: operation and arguments
  ret,               \* ret_val of each thread's call
  running,           \* experiment_is_running
  exp,               \* (exp_id, user)
  exp_files,         \* exp_files is non-empty
  user_log_handler,  \* user_log_handler is not None
  timeout_timer,     \* the Timer that timeout_timer refers to
  cn,                \* cn_serial.process: "stopped", "started" or "dead"
  lost,              \* what runs on since cn_serial.start overwrote its
                     \* attributes: a program and its reader, or the reader
  profile,           \* control_node.profile
  open_node_state,   \* control_node.open_node_state
  redir,             \* the serial redirection thread is started
  debug,             \* a debugger process is referenced by openocd._debug
  fw,                \* firmware on the open node; "bad": a flash failed half way
  tests_raised,      \* ghost: an exception ended auto_tests before its teardown
  disturbed          \* ghost: auto_tests began in an experiment, or cn_serial
                     \* was started after an auto_tests that raised, and what
                     \* that lost has not ended since

exp_vars == <<running, exp, exp_files, user_log_handler>>
prog_vars == <<cn, lost, disturbed>>
cn_vars  == <<prog_vars, profile, open_node_state>>
on_vars  == <<redir, debug, fw, tests_raised>>
vars == <<rlock, pc, req, ret, exp_vars, timeout_timer, cn_vars, on_vars>>

Threads == Clients \cup Timers

-----------------------------------------------------------------------------
(* Requests and steps *)

NoReq == [op |-> "none"]

(* firmware "idle": no firmware given; "wrong": an ELF for another target.  *)
(* profile "default": none given; "invalid": from_dict raises ValueError.   *)
Requests ==
  [ op: {"exp_start"} \cap Ops, exp: Exps, timed: BOOLEAN,
    fw: {"idle", "user", "wrong"}, profile: {"default", "user", "invalid"} ]
  \cup [ op: {"exp_update_profile"} \cap Ops,
         profile: {"default", "user", "invalid"} ]
  \cup [ op: {"node_flash"} \cap Ops, node: {"open", "control"},
         fw: {"idle", "user", "wrong"} ]
  \cup [ op: {"node_soft_reset"} \cap Ops, node: {"open", "control"} ]
  \cup [ op: Ops \ {"exp_start", "exp_update_profile", "node_flash",
                    "node_soft_reset"} ]

TimerCalls == [ op: {"timeout_exp_stop"}, exp: Exps ]

StopSteps  == { "cancel_timer", "cn_stop_experiment", "on_teardown",
                "cn_stop", "reset" }
StartSteps == { "validate", "create_files", "cn_start", "power_cycle",
                "on_setup", "cn_start_experiment", "set_timer" }
TestSteps  == { "at_setup_on", "at_tests", "at_teardown", "at_teardown_early" }

(* Steps a thread takes while it owns the lock.  A stuck thread waits for   *)
(* ever in cn_serial.start or cn_serial.stop.                               *)
LockedSteps == AllOps \cup {"timeout_exp_stop", "return", "stuck"}
               \cup StopSteps \cup StartSteps \cup TestSteps

(* idle: a request thread without a request, a Timer not created or dead.   *)
(* waiting: a Timer in finished.wait(interval).                             *)
(* call: about to acquire the lock.                                         *)
Steps == {"idle", "waiting", "call"} \cup LockedSteps

TypeOK ==
  /\ rlock \in Threads \cup {NoThread}
  /\ pc \in [Threads -> Steps]
  /\ req \in [Threads -> Requests \cup TimerCalls \cup {NoReq}]
  /\ ret \in [Threads -> {0, 1}]
  /\ running \in BOOLEAN
  /\ exp \in Exps \cup {NoExp}
  /\ exp_files \in BOOLEAN
  /\ user_log_handler \in BOOLEAN
  /\ timeout_timer \in Timers \cup {NoTimer}
  /\ cn \in {"stopped", "started", "dead"}
  /\ lost \in {"nothing", "reader", "program"}
  /\ profile \in {"default", "user"}
  /\ open_node_state \in {"start", "stop"}
  /\ redir \in BOOLEAN
  /\ debug \in BOOLEAN
  /\ fw \in {"idle", "user", "autotest", "bad"}
  /\ tests_raised \in BOOLEAN
  /\ disturbed \in BOOLEAN

(* __init__ followed by setup, which flashes the control node and leaves    *)
(* the manager's own state as __init__ made it.                             *)
Init ==
  /\ rlock = NoThread
  /\ pc = [th \in Threads |-> "idle"]
  /\ req = [th \in Threads |-> NoReq]
  /\ ret = [th \in Threads |-> 0]
  /\ running = FALSE
  /\ exp = NoExp
  /\ exp_files = FALSE
  /\ user_log_handler = FALSE
  /\ timeout_timer = NoTimer
  /\ cn = "stopped"
  /\ lost = "nothing"
  /\ profile = "default"
  /\ open_node_state = "stop"
  /\ redir = FALSE
  /\ debug = FALSE
  /\ fw \in {"idle", "user"}
  /\ tests_raised = FALSE
  /\ disturbed = FALSE

-----------------------------------------------------------------------------
(* Calls and the lock *)

At(th, step) == rlock = th /\ pc[th] = step

Goto(th, step) == pc' = [pc EXCEPT ![th] = step]

(* ret_val += r *)
Add(th, r) == ret' = [ret EXCEPT ![th] = IF @ + r = 0 THEN 0 ELSE 1]

(* The thread's call returns r to the decorator. *)
Return(th, r) ==
  /\ Goto(th, "return")
  /\ ret' = [ret EXCEPT ![th] = r]

(* A request arrives at the REST server. *)
Request(c) ==
  /\ pc[c] = "idle"
  /\ Goto(c, "call")
  /\ UNCHANGED <<rlock, req, ret, exp_vars, timeout_timer, cn_vars, on_vars>>

(* The interval of a Timer that was not cancelled is over.  It is one       *)
(* second at least: the exp_start that armed the Timer has returned.        *)
Expire(t) ==
  /\ pc[t] = "waiting"
  /\ \A c \in Clients : ~(pc[c] = "return" /\ req[c].op = "exp_start")
  /\ Goto(t, "call")
  /\ UNCHANGED <<rlock, req, ret, exp_vars, timeout_timer, cn_vars, on_vars>>

(* Mutant: the decorator acquires without looking whether it could. *)
AcquireUnchecked(th, call) ==
  /\ pc[th] = "call"
  /\ rlock' = th
  /\ Goto(th, call.op)
  /\ req' = [req EXCEPT ![th] = call]
  /\ UNCHANGED <<ret, exp_vars, timeout_timer, cn_vars, on_vars>>

(* synchronous: the lock is free.  What a request asks for matters only     *)
(* from here on; a Timer was given its call when it was created.            *)
Acquire(th, call) ==
  /\ pc[th] = "call"
  /\ rlock = NoThread
  /\ rlock' = th
  /\ Goto(th, call.op)
  /\ req' = [req EXCEPT ![th] = call]
  /\ UNCHANGED <<ret, exp_vars, timeout_timer, cn_vars, on_vars>>

(* Mutant: acquire(blocking=True), a thread waits until the lock is free. *)
WaitsForLock(th) == FALSE /\ UNCHANGED vars

(* synchronous: another thread owns the lock, EnvironmentError(EWOULDBLOCK) *)
(* ends the call.  _cb_wrap answers 503 to a request; a Timer thread dies   *)
(* of the exception, timeout_timer still referring to it.                   *)
WouldBlock(th) ==
  /\ pc[th] = "call"
  /\ rlock # NoThread
  /\ Goto(th, "idle")
  /\ req' = [req EXCEPT ![th] = NoReq]
  /\ UNCHANGED <<rlock, ret, exp_vars, timeout_timer, cn_vars, on_vars>>

(* The call is over, normally or by an exception: release in the finally. *)
Release(th) ==
  /\ At(th, "return")
  /\ rlock' = NoThread
  /\ Goto(th, "idle")
  /\ req' = [req EXCEPT ![th] = NoReq]
  /\ ret' = [ret EXCEPT ![th] = 0]
  /\ UNCHANGED <<exp_vars, timeout_timer, cn_vars, on_vars>>

-----------------------------------------------------------------------------
(* What the nodes do *)

(* A sum of answers to commands: all of them are ACKed only if              *)
(* control_node_serial runs.                                                *)
Answered(r) == r = 0 => cn = "started"

(* OpenOCD.flash with result r; a debugger, if any, makes it fail at once. *)
Flash(debugging, firmware, r) ==
  \/ r = 0 /\ ~debugging /\ fw' = firmware
  \/ r = 1 /\ fw' \in (IF debugging THEN {fw} ELSE {fw, "bad"})

(* open_start or open_stop among other calls whose results add up to r. *)
OpenPower(state, r) ==
  open_node_state' \in IF r = 0 THEN {state}
                       ELSE IF cn = "started" THEN {state, open_node_state}
                       ELSE {open_node_state}

(* The control_node_serial program ends by itself. *)
ControlNodeSerialDies ==
  /\ cn = "started"
  /\ cn' = "dead"
  /\ UNCHANGED <<rlock, pc, req, ret, exp_vars, timeout_timer, lost, disturbed,
                 profile, open_node_state, on_vars>>

(* So does a program that is out of reach, then the lost reader thread. *)
LostEnds ==
  /\ \/ lost = "program" /\ lost' = "reader" /\ disturbed' = disturbed
     \/ lost = "reader" /\ lost' = "nothing" /\ disturbed' = FALSE
  /\ UNCHANGED <<rlock, pc, req, ret, exp_vars, timeout_timer, cn, profile,
                 open_node_state, on_vars>>

(* cn_serial.start overwrites self.process and self.reader_thread: a        *)
(* program that runs and its reader thread go on, out of reach of stop; so  *)
(* may the reader thread of a program that has just ended.                  *)
CnSerialStart ==
  lost' \in IF cn = "started" THEN {"program"}
            ELSE IF cn = "dead" /\ lost = "nothing" THEN {"nothing", "reader"}
            ELSE {lost}

(* cn_serial.start waits without a timeout for a program that ended before  *)
(* it was ready and whose reader thread ended at its end of file.           *)
StartHangs(c) ==
  /\ cn' = "dead"
  /\ Goto(c, "stuck")
  /\ ret' = ret

(* cn_serial.stop, then the next step.  It joins the reader thread, which   *)
(* waits for ever for room in _wait_ready when a lost one has filled it.    *)
CnSerialStop(th, step) ==
  \/ cn' = "stopped" /\ Goto(th, step)
  \/ /\ lost # "nothing" /\ cn # "stopped"
     /\ cn' = "dead" /\ Goto(th, "stuck")

-----------------------------------------------------------------------------
(* exp_stop, called by a request, by exp_start and by _timeout_exp_stop *)

exp_stop(th) ==
  /\ At(th, "exp_stop")
  /\ IF running THEN Goto(th, "cancel_timer") /\ ret' = ret
                ELSE Return(th, 0)
  /\ UNCHANGED <<rlock, req, exp_vars, timeout_timer, cn_vars, on_vars>>

(* Mutant: a Timer stops whatever experiment runs. *)
StopsAnyExperiment(t) ==
  /\ At(t, "timeout_exp_stop")
  /\ Goto(t, "exp_stop")
  /\ UNCHANGED <<rlock, req, ret, exp_vars, timeout_timer, cn_vars, on_vars>>

(* _timeout_exp_stop: stop only the experiment that started the Timer. *)
timeout_exp_stop(t) ==
  /\ At(t, "timeout_exp_stop")
  /\ IF exp = req[t].exp THEN Goto(t, "exp_stop") /\ ret' = ret
                         ELSE Return(t, 0)
  /\ UNCHANGED <<rlock, req, exp_vars, timeout_timer, cn_vars, on_vars>>

(* Mutant: timeout_timer is forgotten and not cancelled. *)
ForgetsTimer(th) ==
  /\ At(th, "cancel_timer")
  /\ timeout_timer' = NoTimer
  /\ Goto(th, "cn_stop_experiment")
  /\ UNCHANGED <<rlock, req, ret, exp_vars, cn_vars, on_vars>>

(* Mutant: timeout_timer is not set to None. *)
KeepsTimer(th) ==
  /\ At(th, "cancel_timer")
  /\ Goto(th, "cn_stop_experiment")
  /\ UNCHANGED <<rlock, req, ret, exp_vars, timeout_timer, cn_vars, on_vars>>

(* timeout_timer.cancel() has an effect only on a Timer that still waits. *)
CancelTimer(th) ==
  /\ At(th, "cancel_timer")
  /\ timeout_timer' = NoTimer
  /\ pc' = [x \in Threads |->
              IF x = th THEN "cn_stop_experiment"
              ELSE IF x = timeout_timer /\ pc[x] = "waiting" THEN "idle"
              ELSE pc[x]]
  /\ req' = [x \in Threads |->
               IF x = timeout_timer /\ pc[x] = "waiting" THEN NoReq
               ELSE req[x]]
  /\ UNCHANGED <<rlock, ret, exp_vars, cn_vars, on_vars>>

(* Mutant: the profile of the experiment stays. *)
KeepsProfile(th) ==
  /\ At(th, "cn_stop_experiment")
  /\ \E r \in {0, 1} : Answered(r) /\ OpenPower("start", r) /\ Add(th, r)
  /\ Goto(th, "on_teardown")
  /\ UNCHANGED <<rlock, req, exp_vars, timeout_timer, prog_vars, profile, on_vars>>

(* ControlNode.stop_experiment: default profile, open node powered for its  *)
(* cleanup.                                                                 *)
CnStopExperiment(th) ==
  /\ At(th, "cn_stop_experiment")
  /\ \E r \in {0, 1} :
       /\ Answered(r)
       /\ profile' = "default"
       /\ OpenPower("start", r)
       /\ Add(th, r)
  /\ Goto(th, "on_teardown")
  /\ UNCHANGED <<rlock, req, exp_vars, timeout_timer, prog_vars, on_vars>>

(* Mutant: exp_stop returns when the cleanup of the open node fails. *)
TeardownGivesUp(th) ==
  /\ At(th, "on_teardown")
  /\ debug' = FALSE
  /\ redir' = FALSE
  /\ tests_raised' = FALSE
  /\ \E flashed \in {0, 1} :
       /\ Flash(FALSE, "idle", flashed)
       /\ Add(th, flashed)
       /\ Goto(th, IF flashed = 0 THEN "cn_stop" ELSE "return")
  /\ UNCHANGED <<rlock, req, exp_vars, timeout_timer, cn_vars>>

(* open_node.teardown: debug_stop, serial_redirection.stop, flash(None). *)
OnTeardown(th) ==
  /\ At(th, "on_teardown")
  /\ debug' = FALSE
  /\ redir' = FALSE
  /\ tests_raised' = FALSE
  /\ \E flashed, other \in {0, 1} :
       /\ Flash(FALSE, "idle", flashed)
       /\ Add(th, flashed + other)
  /\ Goto(th, "cn_stop")
  /\ UNCHANGED <<rlock, req, exp_vars, timeout_timer, cn_vars>>

(* ControlNode.stop; its return value is not used. *)
CnStop(th) ==
  /\ At(th, "cn_stop")
  /\ \E r \in {0, 1} : Answered(r) /\ OpenPower("stop", r)
  /\ CnSerialStop(th, "reset")
  /\ UNCHANGED <<rlock, req, ret, exp_vars, timeout_timer, lost, disturbed, profile,
                 on_vars>>

(* Empty files are deleted; exp_files = {} stands for FALSE. *)
cleanup_user_exp_files == exp_files' = FALSE

(* Mutant: the log handler of the user is not removed. *)
KeepsLogHandler(th) ==
  /\ At(th, "reset")
  /\ cleanup_user_exp_files
  /\ exp' = NoExp
  /\ running' = FALSE
  /\ Goto(th, IF req[th].op = "exp_start" THEN "validate" ELSE "return")
  /\ UNCHANGED <<rlock, req, ret, user_log_handler, timeout_timer, cn_vars, on_vars>>

(* Clean the user files, forget the experiment and its log handler; return  *)
(* to the caller, which is exp_start when it replaces an experiment.        *)
ResetExp(th) ==
  /\ At(th, "reset")
  /\ cleanup_user_exp_files
  /\ exp' = NoExp
  /\ running' = FALSE
  /\ user_log_handler' = FALSE
  /\ Goto(th, IF req[th].op = "exp_start" THEN "validate" ELSE "return")
  /\ UNCHANGED <<rlock, req, ret, timeout_timer, cn_vars, on_vars>>

-----------------------------------------------------------------------------
(* exp_start *)

(* Mutant: a running experiment is not stopped first. *)
StartsOver(c) ==
  /\ At(c, "exp_start")
  /\ Goto(c, "validate")
  /\ UNCHANGED <<rlock, req, ret, exp_vars, timeout_timer, cn_vars, on_vars>>

exp_start(c) ==
  /\ At(c, "exp_start")
  /\ Goto(c, IF running THEN "cancel_timer" ELSE "validate")
  /\ UNCHANGED <<rlock, req, ret, exp_vars, timeout_timer, cn_vars, on_vars>>

(* Mutant: profile_from_dict accepts everything. *)
ValidatesFirmwareOnly(c) ==
  /\ At(c, "validate")
  /\ \/ req[c].fw = "wrong" /\ Return(c, 1) /\ UNCHANGED <<running, exp>>
     \/ /\ req[c].fw # "wrong"
        /\ running' = TRUE
        /\ exp' = req[c].exp
        /\ Goto(c, "create_files")
        /\ ret' = [ret EXCEPT ![c] = 0]
  /\ UNCHANGED <<rlock, req, exp_files, user_log_handler, timeout_timer,
                 cn_vars, on_vars>>

(* profile_from_dict and is_compatible_with_node, before anything is done;  *)
(* then the experiment counts as running.                                   *)
Validate(c) ==
  /\ At(c, "validate")
  /\ \/ /\ req[c].profile = "invalid" \/ req[c].fw = "wrong"
        /\ Return(c, 1)
        /\ UNCHANGED <<running, exp>>
     \/ /\ req[c].profile # "invalid" /\ req[c].fw # "wrong"
        /\ running' = TRUE
        /\ exp' = req[c].exp
        /\ Goto(c, "create_files")
        /\ ret' = [ret EXCEPT ![c] = 0]
  /\ UNCHANGED <<rlock, req, exp_files, user_log_handler, timeout_timer,
                 cn_vars, on_vars>>

(* The files get their names once all of them are created. *)
create_user_exp_files == exp_files' = TRUE

(* create_user_exp_files or user_logger may raise IOError, which nothing    *)
(* handles: the experiment stays running with nothing started.              *)
CreateFiles(c) ==
  /\ At(c, "create_files")
  /\ \/ /\ create_user_exp_files /\ user_log_handler' = TRUE
        /\ Goto(c, "cn_start") /\ ret' = ret
     \/ /\ exp_files' = exp_files \/ create_user_exp_files
        /\ user_log_handler' = user_log_handler
        /\ Return(c, 1)
  /\ UNCHANGED <<rlock, req, running, exp, timeout_timer, cn_vars, on_vars>>

(* ControlNode.start: reset, cn_serial.start, open_start('dc').  The        *)
(* program may end at start, cn_serial.start then returns 1 or hangs.       *)
CnStart(c) ==
  /\ At(c, "cn_start")
  /\ CnSerialStart
  /\ disturbed' = (disturbed \/ tests_raised)
  /\ \/ /\ \E r \in {0, 1} :
             /\ cn' \in IF r = 0 THEN {"started"} ELSE {"started", "dead"}
             /\ open_node_state' \in
                  IF r = 0 THEN {"start"}
                  ELSE IF cn' = "started" THEN {"start", open_node_state}
                  ELSE {open_node_state}
             /\ Add(c, r)
        /\ Goto(c, "on_setup")
     \/ StartHangs(c) /\ open_node_state' = open_node_state
  /\ UNCHANGED <<rlock, req, exp_vars, timeout_timer, profile, on_vars>>

(* An nrf52dk given a firmware needs open_stop then open_start. *)
PowerCycle(c) ==
  /\ At(c, "power_cycle")
  /\ \E r \in {0, 1} :
       /\ Answered(r)
       /\ \/ OpenPower("start", r)
          \/ r = 1 /\ OpenPower("stop", r)
       /\ Add(c, r)
  /\ Goto(c, "set_timer")
  /\ UNCHANGED <<rlock, req, exp_vars, timeout_timer, prog_vars, profile, on_vars>>

(* Mutant: the result of the flash is not added to ret_val. *)
IgnoresFlash(c) ==
  /\ At(c, "on_setup")
  /\ \E flashed, other \in {0, 1} :
       /\ Flash(debug, req[c].fw, flashed)
       /\ IF redir THEN Return(c, 1)
          ELSE Add(c, other) /\ Goto(c, "cn_start_experiment")
  /\ redir' = TRUE
  /\ UNCHANGED <<rlock, req, exp_vars, timeout_timer, cn_vars, debug,
                 tests_raised>>

(* open_node.setup: flash, then start the serial redirection.  A            *)
(* redirection already started makes Thread.start raise RuntimeError.       *)
OnSetup(c) ==
  /\ At(c, "on_setup")
  /\ \E flashed, other \in {0, 1} :
       /\ Flash(debug, req[c].fw, flashed)
       /\ IF redir THEN Return(c, 1)
          ELSE Add(c, flashed + other) /\ Goto(c, "cn_start_experiment")
  /\ redir' = TRUE
  /\ UNCHANGED <<rlock, req, exp_vars, timeout_timer, cn_vars, debug,
                 tests_raised>>

(* The boards that ^nrf52[0-9]{0,3}dk$ matches. *)
board_require_power_cycle == Board \in {"nrf52dk", "nrf52840dk"}

(* ControlNode.start_experiment: the profile is recorded before it is sent. *)
CnStartExperiment(c) ==
  /\ At(c, "cn_start_experiment")
  /\ profile' = req[c].profile
  /\ \E r \in {0, 1} : Answered(r) /\ Add(c, r)
  /\ Goto(c, IF board_require_power_cycle /\ req[c].fw # "idle"
             THEN "power_cycle" ELSE "set_timer")
  /\ UNCHANGED <<rlock, req, exp_vars, timeout_timer, prog_vars, open_node_state,
                 on_vars>>

(* Timer(timeout, _timeout_exp_stop, args=(exp_id, user)).start().  The     *)
(* experiment is started whatever ret_val is.                               *)
SetTimer(c) ==
  /\ At(c, "set_timer")
  /\ IF req[c].timed
     THEN \E t \in Timers :
            /\ pc[t] = "idle"
            /\ timeout_timer' = t
            /\ pc' = [pc EXCEPT ![t] = "waiting", ![c] = "return"]
            /\ req' = [req EXCEPT ![t] = [op |-> "timeout_exp_stop",
                                          exp |-> req[c].exp]]
     ELSE Goto(c, "return") /\ UNCHANGED <<req, timeout_timer>>
  /\ UNCHANGED <<rlock, ret, exp_vars, cn_vars, on_vars>>

-----------------------------------------------------------------------------
(* The other operations; none of them looks at experiment_is_running. *)

exp_update_profile(c) ==
  /\ At(c, "exp_update_profile")
  /\ \/ req[c].profile = "invalid" /\ Return(c, 1) /\ profile' = profile
     \/ /\ req[c].profile # "invalid"
        /\ profile' = req[c].profile
        /\ \E r \in {0, 1} : Answered(r) /\ Return(c, r)
  /\ UNCHANGED <<rlock, req, exp_vars, timeout_timer, prog_vars, open_node_state,
                 on_vars>>

open_power_start(c) ==
  /\ At(c, "open_power_start")
  /\ \E r \in {0, 1} :
       /\ Answered(r)
       /\ open_node_state' = IF r = 0 THEN "start" ELSE open_node_state
       /\ Return(c, r)
  /\ UNCHANGED <<rlock, req, exp_vars, timeout_timer, prog_vars, profile, on_vars>>

open_power_stop(c) ==
  /\ At(c, "open_power_stop")
  /\ \E r \in {0, 1} :
       /\ Answered(r)
       /\ open_node_state' = IF r = 0 THEN "stop" ELSE open_node_state
       /\ Return(c, r)
  /\ UNCHANGED <<rlock, req, exp_vars, timeout_timer, prog_vars, profile, on_vars>>

(* OpenOCD.debug_start kills a previous debugger first. *)
open_debug_start(c) ==
  /\ At(c, "open_debug_start")
  /\ debug' = TRUE
  /\ Return(c, 0)
  /\ UNCHANGED <<rlock, req, exp_vars, timeout_timer, cn_vars, redir, fw,
                 tests_raised>>

(* OpenOCD.debug_stop fails when the debugger has already ended. *)
open_debug_stop(c) ==
  /\ At(c, "open_debug_stop")
  /\ debug' = FALSE
  /\ \E r \in {0, 1} : (r = 1 => debug) /\ Return(c, r)
  /\ UNCHANGED <<rlock, req, exp_vars, timeout_timer, cn_vars, redir, fw,
                 tests_raised>>

node_soft_reset(c) ==
  /\ At(c, "node_soft_reset")
  /\ \E r \in {0, 1} :
       /\ req[c].node = "open" /\ debug => r = 1
       /\ Return(c, r)
  /\ UNCHANGED <<rlock, req, exp_vars, timeout_timer, cn_vars, on_vars>>

node_flash(c) ==
  /\ At(c, "node_flash")
  /\ \/ req[c].fw = "wrong" /\ Return(c, 1) /\ fw' = fw
     \/ /\ req[c].fw # "wrong"
        /\ \E r \in {0, 1} :
             /\ IF req[c].node = "open" THEN Flash(debug, req[c].fw, r)
                                        ELSE fw' = fw
             /\ Return(c, r)
  /\ UNCHANGED <<rlock, req, exp_vars, timeout_timer, cn_vars, redir, debug,
                 tests_raised>>

(* status, and sleep: nothing but time under the lock. *)
status(c) ==
  /\ At(c, "status")
  /\ \E r \in {0, 1} : Return(c, r)
  /\ UNCHANGED <<rlock, req, exp_vars, timeout_timer, cn_vars, on_vars>>

-----------------------------------------------------------------------------
(* auto_tests.  FatalError goes to teardown; any other exception leaves     *)
(* auto_tests at once, with what it started still there.                    *)

(* setup_control_node: the result of cn_serial.start is not used; on_serial *)
(* does not exist yet.                                                      *)
auto_tests(c) ==
  /\ At(c, "auto_tests")
  /\ CnSerialStart
  /\ disturbed' = (disturbed \/ running \/ tests_raised)
  /\ cn' \in {"started", "dead"}
  /\ \/ /\ cn' = "started" /\ Goto(c, "at_setup_on") /\ ret' = ret
        /\ tests_raised' = tests_raised
     \/ /\ Goto(c, "at_teardown_early") /\ ret' = [ret EXCEPT ![c] = 1]
        /\ tests_raised' = tests_raised
     \/ Return(c, 1) /\ tests_raised' = TRUE
     \/ StartHangs(c) /\ tests_raised' = tests_raised
  /\ UNCHANGED <<rlock, req, exp_vars, timeout_timer, profile, open_node_state,
                 redir, debug, fw>>

(* _setup_open_node_connection: open_start, then open_node.setup of         *)
(* FW_AUTOTEST, which raises if the redirection is started.                 *)
AtSetupOn(c) ==
  /\ At(c, "at_setup_on")
  /\ \E r, flashed \in {0, 1} :
       /\ Answered(r)
       /\ OpenPower("start", r)
       /\ Flash(debug, "autotest", flashed)
       /\ IF redir THEN Return(c, 1)
          ELSE Add(c, r + flashed) /\ Goto(c, "at_tests")
  /\ redir' = TRUE
  /\ tests_raised' = (redir /\ tests_raised)
  /\ UNCHANGED <<rlock, req, exp_vars, timeout_timer, prog_vars, profile, debug>>

(* The connection to the redirection and the tests.  A connection that      *)
(* failed raises at its first use, a broken one at the next, and the test   *)
(* of leds raises when no measure came.                                     *)
AtTests(c) ==
  /\ At(c, "at_tests")
  /\ \/ /\ \E r \in {0, 1} : Add(c, r)
        /\ Goto(c, "at_teardown")
        /\ tests_raised' = tests_raised
     \/ Return(c, 1) /\ tests_raised' = TRUE
  /\ UNCHANGED <<rlock, req, exp_vars, timeout_timer, cn_vars, redir, debug, fw>>

(* teardown(blink): the open node is torn down and stopped unless all tests *)
(* passed and it may go on blinking.                                        *)
AtTeardown(c) ==
  /\ At(c, "at_teardown")
  /\ redir' = FALSE
  /\ \E blink \in BOOLEAN, r, flashed \in {0, 1} :
       /\ blink => ret[c] = 0
       /\ IF blink
          THEN debug' = debug /\ fw' = fw /\ OpenPower("start", 1)
               /\ ret' = [ret EXCEPT ![c] = r]
          ELSE /\ debug' = FALSE
               /\ Flash(FALSE, "idle", flashed)
               /\ \/ OpenPower("stop", 1) \/ OpenPower("start", 1)
               /\ Add(c, r + flashed)
  /\ CnSerialStop(c, "return")
  /\ UNCHANGED <<rlock, req, exp_vars, timeout_timer, lost, disturbed, profile,
                 tests_raised>>

(* teardown raises after open_start('dc'), in set_result_leds: the          *)
(* connection to the open node is broken, or on_serial does not exist yet   *)
(* (at_teardown_early).  The rest of teardown is skipped.                   *)
AtTeardownRaises(c) ==
  /\ At(c, "at_teardown") \/ At(c, "at_teardown_early")
  /\ OpenPower("start", 1)
  /\ Return(c, 1)
  /\ tests_raised' = TRUE
  /\ UNCHANGED <<rlock, req, exp_vars, timeout_timer, prog_vars, profile, redir, debug, fw>>

-----------------------------------------------------------------------------
StopStep(th) ==
  \/ exp_stop(th) \/ CancelTimer(th) \/ CnStopExperiment(th)
  \/ OnTeardown(th) \/ CnStop(th) \/ ResetExp(th)

ClientStep(c) ==
  \/ exp_start(c) \/ Validate(c) \/ CreateFiles(c) \/ CnStart(c)
  \/ PowerCycle(c) \/ OnSetup(c) \/ CnStartExperiment(c) \/ SetTimer(c)
  \/ exp_update_profile(c) \/ open_power_start(c) \/ open_power_stop(c)
  \/ open_debug_start(c) \/ open_debug_stop(c) \/ node_soft_reset(c)
  \/ node_flash(c) \/ status(c)
  \/ auto_tests(c) \/ AtSetupOn(c) \/ AtTests(c) \/ AtTeardown(c)
  \/ AtTeardownRaises(c)

(* A step of the thread that a scheduler which runs every thread grants. *)
ThreadStep(th) ==
  \/ WouldBlock(th) \/ Release(th) \/ StopStep(th)
  \/ th \in Clients /\ (ClientStep(th) \/ \E r \in Requests : Acquire(th, r))
  \/ th \in Timers /\ (Expire(th) \/ Acquire(th, req[th]) \/ timeout_exp_stop(th))

Next ==
  \/ \E c \in Clients : Request(c)
  \/ \E th \in Threads : ThreadStep(th)
  \/ ControlNodeSerialDies
  \/ LostEnds

Spec == Init /\ [][Next]_vars

(* Threads run and Timers expire; no request need ever come.  A call into   *)
(* the nodes works under a timeout of its own, and its step ends; the two   *)
(* waits that have none, in cn_serial.start and cn_serial.stop, may leave a *)
(* thread stuck, which has no step.                                         *)
FairSpec == Spec /\ \A th \in Threads : WF_vars(ThreadStep(th))
-----------------------------------------------------------------------------
(* Properties *)

Locked(th) == pc[th] \in LockedSteps

(* The lock is owned by the one thread that executes a method, so two       *)
(* methods never overlap although acquisition never waits.                  *)
MutualExclusion ==
  /\ \A th \in Threads : Locked(th) <=> rlock = th
  /\ \A th \in Threads : pc[th] \in {"waiting", "timeout_exp_stop"} => th \in Timers

(* A Timer that still waits is the one timeout_timer refers to, and         *)
(* timeout_timer refers to a Timer of the experiment that runs: exp_stop    *)
(* never leaves an armed Timer behind, whatever failed before it.           *)
ArmedTimerIsCurrent ==
  /\ \A t \in Timers : pc[t] = "waiting" => timeout_timer = t
  /\ timeout_timer # NoTimer =>
       /\ running
       /\ pc[timeout_timer] # "idle" => req[timeout_timer].exp = exp

(* Between two methods, a gateway that runs no experiment holds nothing of  *)
(* one: no identity, files, log handler or Timer, also after exceptions and *)
(* failed starts.  A serial redirection or control_node_serial it keeps     *)
(* only if an exception ended auto_tests, against "shutdown node if test    *)
(* failed" (autotest.py:327); a program or reader thread out of reach, that *)
(* cn_serial.start overwrote, only if auto_tests disturbed an experiment or *)
(* raised before it.                                                        *)
IdleIsClean ==
  rlock = NoThread /\ ~running =>
    /\ exp = NoExp
    /\ ~exp_files
    /\ ~user_log_handler
    /\ timeout_timer = NoTimer
    /\ redir \/ cn # "stopped" => tests_raised
    /\ lost # "nothing" => disturbed

(* When exp_start is about to return 0, all it was asked for is in place:   *)
(* the summed return codes hide no failed step, and nothing of a previous   *)
(* experiment is left.                                                      *)
StartedMeansStarted ==
  \A c \in Clients :
    At(c, "return") /\ req[c].op = "exp_start" /\ ret[c] = 0 =>
      /\ running /\ exp = req[c].exp
      /\ exp_files /\ user_log_handler
      /\ cn # "stopped" /\ open_node_state = "start"
      /\ profile = req[c].profile
      /\ redir /\ ~debug /\ fw = req[c].fw
      /\ req[c].timed <=> timeout_timer # NoTimer

(* exp_start calls serial_redirection.start on a redirection that is        *)
(* already started, which raises RuntimeError half way, only if an earlier  *)
(* auto_tests raised and no experiment was stopped since.                   *)
RedirectionStartsOnce ==
  \A c \in Clients : At(c, "on_setup") /\ redir => tests_raised

(* The end of an experiment leaves the nodes as the next one needs them,    *)
(* whatever calls failed; if exp_stop also returns 0 the open node has the  *)
(* idle firmware.  No control_node_serial runs any more, the one cn_serial  *)
(* refers to or another, unless auto_tests disturbed an experiment or one   *)
(* that raised had left a program to the next cn_serial.start: then stop,   *)
(* "Stop `control node serial program`" (cn_interface.py:143), may not have *)
(* stopped the first one.                                                   *)
StopCleansUp ==
  [][running /\ ~running' =>
       /\ cn' = "stopped" /\ profile' = "default"
       /\ lost' # "nothing" => disturbed'
       /\ ~redir' /\ ~debug'
       /\ timeout_timer' = NoTimer /\ ~exp_files' /\ ~user_log_handler'
       /\ ret'[rlock] = 0 => fw' = "idle"]_vars

(* A Timer thread ends only an experiment with the identity it was created  *)
(* with (docstring of _timeout_exp_stop), however late it gets the lock.    *)
TimeoutStopsItsOwn ==
  [][\A t \in Timers :
       rlock = t /\ running /\ ~running' => exp = req[t].exp]_vars

(* The thread hangs in exp_start or auto_tests, for control_node_serial     *)
(* ended before it was ready; or in cn_serial.stop, for a lost reader.      *)
Hangs(th) ==
  /\ pc[th] = "stuck" /\ cn = "dead"
  /\ req[th].op \in {"exp_start", "auto_tests"} \/ disturbed

(* Every request is answered, with 503 at worst, unless it hangs in         *)
(* cn_serial: no request waits for another one, not even for one that hangs *)
(* with the lock, and every path through a method releases the lock.        *)
RequestsAnswered ==
  \A c \in Clients : pc[c] = "call" ~> pc[c] = "idle" \/ Hangs(c)

(* Once exp_stop has begun the experiment ends, unless auto_tests left a    *)
(* reader thread on which cn_serial.stop hangs.                             *)
StopCompletes ==
  \A th \in Threads :
    pc[th] \in StopSteps ~> ~running \/ (Hangs(th) /\ disturbed)

(* "Run exp_stop after timeout": an armed Timer ends the experiment.        *)
(* Refuted: a Timer that expires while any request owns the lock dies.      *)
TimeoutStopsExperiment ==
  \A t \in Timers : timeout_timer = t ~> timeout_timer # t

-----------------------------------------------------------------------------
(* The manager implements ExperimentSession: who uses the gateway is        *)
(* experiment_is_running, or auto_tests from the start of its redirection   *)
(* until it ends it or raises.                                              *)
Held == { r \in {"files", "log", "redirection", "timer"} :
            \/ r = "files" /\ exp_files
            \/ r = "log" /\ user_log_handler
            \/ r = "redirection" /\ redir
            \/ r = "timer" /\ timeout_timer # NoTimer }

Session == INSTANCE ExperimentSession WITH
  kind  <- IF running THEN "experiment" ELSE IF redir /\ ~tests_raised THEN "tests"
           ELSE "none",
  owner <- exp,
  held  <- Held

(* Every step of the manager is a step of a session or none: sessions never *)
(* overlap, a Timer is armed only for an experiment that is fully set up,   *)
(* and an experiment ends only when nothing of it runs.                     *)
ImplementsSession == Session!Spec
=============================================================================
