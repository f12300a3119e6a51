--------------------------- MODULE ExternalProcess ---------------------------
(***************************************************************************)
(* ExternalProcess of gateway_code/utils/external_process.py: a thread     *)
(* that runs a program again and again until stop.  It is the serial       *)
(* redirection of every open node, and RtlTcp, Mosquitto, MjpgStreamer and *)
(* LoraGatewayBridge.                                                      *)
(*                                                                         *)
(* The class derives from threading.Thread and keeps an Event in           *)
(* self._started.  Python 3's Thread keeps an attribute of its own under   *)
(* that name: its bootstrap sets it and is_alive reads it.  tox.ini runs   *)
(* the code under both versions, so the version is a constant.             *)
(***************************************************************************)
EXTENDS Naturals

CONSTANTS
  Python,    \* 2 or 3
  MaxTerm,   \* how many SIGTERM, then
  MaxInt     \* how many SIGINT signals_iter gives before SIGKILL

ASSUME PythonAssumption == Python \in {2, 3}
ASSUME SignalsAssumption == MaxTerm \in Nat /\ MaxInt \in Nat

VARIABLES
  owner,     \* the thread that calls start and stop
  start_ret, \* what start is about to return
  signals,   \* how many values signals_iter has given to this stop
  run,       \* _run
  started,   \* _started is set
  ref,       \* self.process: "none", "old" (a program that ended) or "current"
  thread,    \* where _target is
  program    \* the last program Popen created

vars == <<owner, start_ret, signals, run, started, ref, thread, program>>

NoResult == 2

ThreadSteps == { "bootstrap", "loop", "popen", "assign", "set", "wait", "clear" }

TypeOK ==
  /\ owner \in {"idle", "start_wait", "start_return", "stop_loop", "stop_end", "stopped"}
  /\ start_ret \in {0, 1, NoResult}
  /\ signals \in 0..(MaxTerm + MaxInt + 1)
  /\ run \in BOOLEAN
  /\ started \in BOOLEAN
  /\ ref \in {"none", "old", "current"}
  /\ thread \in ThreadSteps \cup {"new", "dead"}
  /\ program \in {"none", "alive", "exited"}

Init ==
  /\ owner = "idle"
  /\ start_ret = NoResult
  /\ signals = 0
  /\ run = FALSE
  /\ started = FALSE
  /\ ref = "none"
  /\ thread = "new"
  /\ program = "none"

-----------------------------------------------------------------------------
(* start *)

(* Thread.start; a thread object starts once. *)
Start ==
  /\ owner = "idle"
  /\ thread = "new"
  /\ run' = TRUE
  /\ thread' = "bootstrap"
  /\ program' = "none"
  /\ owner' = "start_wait"
  /\ UNCHANGED <<start_ret, signals, started, ref>>

(* _started.wait(15.0) *)
StartWait ==
  /\ owner = "start_wait"
  /\ \/ started /\ start_ret' = 0
     \/ ~started /\ thread # "bootstrap" /\ start_ret' = 1
  /\ owner' = "start_return"
  /\ UNCHANGED <<signals, run, started, ref, thread, program>>

StartReturn ==
  /\ owner = "start_return"
  /\ start_ret' = NoResult
  /\ owner' = "idle"
  /\ UNCHANGED <<signals, run, started, ref, thread, program>>

-----------------------------------------------------------------------------
(* stop *)

is_alive ==
  /\ thread \in ThreadSteps
  /\ Python = 3 => started

(* signals_iter: SIGTERM, then SIGINT, then SIGKILL for ever. *)
Signal(n) == IF n < MaxTerm THEN "SIGTERM"
             ELSE IF n < MaxTerm + MaxInt THEN "SIGINT" ELSE "SIGKILL"

(* Mutant: _run is not reset, the thread runs the program again. *)
StopKeepsRunning ==
  /\ owner = "idle"
  /\ signals' = 0
  /\ owner' = "stop_loop"
  /\ UNCHANGED <<start_ret, run, started, ref, thread, program>>

Stop ==
  /\ owner = "idle"
  /\ run' = FALSE
  /\ signals' = 0
  /\ owner' = "stop_loop"
  /\ UNCHANGED <<start_ret, started, ref, thread, program>>

(* One round of the loop: the next signal to the program that self.process  *)
(* refers to, if any.  A program may ignore any signal but SIGKILL; one     *)
(* that has ended raises OSError(3), which is passed over.                  *)
StopSignal ==
  /\ owner = "stop_loop"
  /\ is_alive
  /\ IF ref = "none" THEN signals' = signals
     ELSE signals' = IF signals > MaxTerm + MaxInt THEN signals ELSE signals + 1
  /\ program' \in IF ref = "current" /\ program = "alive"
                  THEN IF Signal(signals) = "SIGKILL" THEN {"exited"}
                       ELSE {"alive", "exited"}
                  ELSE {program}
  /\ UNCHANGED <<owner, start_ret, run, started, ref, thread>>

(* Mutant: stop is content with one signal. *)
StopDoneEarly ==
  /\ owner = "stop_loop"
  /\ ~is_alive \/ signals > 0
  /\ owner' = "stop_end"
  /\ UNCHANGED <<start_ret, signals, run, started, ref, thread, program>>

StopDone ==
  /\ owner = "stop_loop"
  /\ ~is_alive
  /\ owner' = "stop_end"
  /\ UNCHANGED <<start_ret, signals, run, started, ref, thread, program>>

(* Forget the program; _thread_init makes the object ready for a new start. *)
(* A thread that still runs goes on running.                                *)
StopEnd ==
  /\ owner = "stop_end"
  /\ ref' = "none"
  /\ started' = FALSE
  /\ thread' = IF thread \in ThreadSteps THEN thread ELSE "new"
  /\ owner' = "stopped"
  /\ UNCHANGED <<start_ret, signals, run, program>>

StopReturn ==
  /\ owner = "stopped"
  /\ owner' = "idle"
  /\ UNCHANGED <<start_ret, signals, run, started, ref, thread, program>>

-----------------------------------------------------------------------------
(* The thread: _target and _call_process *)

(* Python 3's bootstrap sets the attribute that the class took over. *)
ThreadBootstrap ==
  /\ thread = "bootstrap"
  /\ started' = (Python = 3 \/ started)
  /\ thread' = "loop"
  /\ UNCHANGED <<owner, start_ret, signals, run, ref, program>>

(* Mutant: _started is set before Popen. *)
SetBeforePopen ==
  /\ thread = "loop"
  /\ thread' = IF run THEN "popen" ELSE "dead"
  /\ started' = run
  /\ UNCHANGED <<owner, start_ret, signals, run, ref, program>>

(* while self._run *)
ThreadLoop ==
  /\ thread = "loop"
  /\ thread' = IF run THEN "popen" ELSE "dead"
  /\ UNCHANGED <<owner, start_ret, signals, run, started, ref, program>>

(* Popen runs the program, or raises and ends the thread. *)
ThreadPopen ==
  /\ thread = "popen"
  /\ \/ thread' = "assign" /\ program' = "alive"
     \/ thread' = "dead" /\ program' = program
  /\ ref' = IF ref = "current" THEN "old" ELSE ref
  /\ UNCHANGED <<owner, start_ret, signals, run, started>>

ThreadAssign ==
  /\ thread = "assign"
  /\ ref' = "current"
  /\ thread' = "set"
  /\ UNCHANGED <<owner, start_ret, signals, run, started, program>>

ThreadSet ==
  /\ thread = "set"
  /\ started' = TRUE
  /\ thread' = "wait"
  /\ UNCHANGED <<owner, start_ret, signals, run, ref, program>>

(* process.wait() *)
ThreadWait ==
  /\ thread = "wait"
  /\ program = "exited"
  /\ thread' = "clear"
  /\ UNCHANGED <<owner, start_ret, signals, run, started, ref, program>>

(* check_error, sleep(0.5), _started.clear() *)
ThreadClear ==
  /\ thread = "clear"
  /\ started' = FALSE
  /\ thread' = "loop"
  /\ UNCHANGED <<owner, start_ret, signals, run, ref, program>>

(* The program ends by itself. *)
ProgramEnds ==
  /\ program = "alive"
  /\ program' = "exited"
  /\ UNCHANGED <<owner, start_ret, signals, run, started, ref, thread>>

-----------------------------------------------------------------------------
Owner ==
  \/ StartWait \/ StartReturn
  \/ StopSignal \/ StopDone \/ StopEnd \/ StopReturn

Target ==
  \/ ThreadBootstrap \/ ThreadLoop \/ ThreadPopen \/ ThreadAssign
  \/ ThreadSet \/ ThreadWait \/ ThreadClear

Next == Start \/ Stop \/ Owner \/ Target \/ ProgramEnds

Spec == Init /\ [][Next]_vars

(* Both threads run.  No program need end by itself. *)
FairSpec == Spec /\ WF_vars(Owner) /\ WF_vars(Target)

-----------------------------------------------------------------------------
(* Properties *)

(* "wait for 'Popen' to have been called": when start returns 0 a program   *)
(* has been run.                                                            *)
StartMeansPopen == owner = "start_return" /\ start_ret = 0 => program # "none"

(* "Stop the running thread": once stop has returned no program lives, at   *)
(* whatever step of its loop stop met the thread.                           *)
StopLeavesNoProgram ==
  owner \in {"stopped", "idle"} /\ ~run => program # "alive"

(* stop returns, even if the program ignores all signals but SIGKILL and    *)
(* the first ones went to a program that had already ended.                 *)
StopReturns == owner = "stop_loop" ~> owner = "stopped"
=============================================================================
