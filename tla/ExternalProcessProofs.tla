----------------------- MODULE ExternalProcessProofs ------------------------
(***************************************************************************)
(* Proofs about ExternalProcess, for any number of SIGTERM and SIGINT      *)
(* before SIGKILL.                                                         *)
(*                                                                         *)
(* The types are proved for both versions of Python.  What start and stop  *)
(* promise is proved for Python 2, where _started belongs to the class     *)
(* alone; for Python 3 it is false, as the run process_py3_stop shows.     *)
(***************************************************************************)
EXTENDS ExternalProcess, TLAPS

(* Every count of signals up to the first SIGKILL is in the type of signals  *)
(* (signals_iter, external_process.py:97-122).                               *)
LEMMA SignalCounts ==
  /\ 0 \in 0..(MaxTerm + MaxInt + 1)
  /\ \A n \in 0..(MaxTerm + MaxInt + 1) :
       n > MaxTerm + MaxInt \/ n + 1 \in 0..(MaxTerm + MaxInt + 1)
BY SignalsAssumption

(* The types of the variables, under either version of Python: the thread   *)
(* that calls start and stop and the one that runs _target are always at one *)
(* of their steps (external_process.py:65-151).                              *)
THEOREM Typing == Spec => []TypeOK
<1>1. Init => TypeOK
  BY SignalCounts DEF Init, TypeOK, NoResult, ThreadSteps
<1>2. TypeOK /\ [Next]_vars => TypeOK'
  <2> SUFFICES ASSUME TypeOK, [Next]_vars PROVE TypeOK'
    OBVIOUS
  <2> USE SignalCounts DEF TypeOK, NoResult, ThreadSteps
  <2>1. CASE Start
    BY <2>1 DEF Start
  <2>2. CASE Stop
    BY <2>2 DEF Stop
  <2>3. CASE Owner
    <3>1. CASE StartWait
      BY <3>1 DEF StartWait
    <3>2. CASE StartReturn
      BY <3>2 DEF StartReturn
    <3>3. CASE StopSignal
      <4>1. signals' \in 0..(MaxTerm + MaxInt + 1)
        BY <3>3 DEF StopSignal
      <4>2. program' \in {"none", "alive", "exited"}
        BY <3>3 DEF StopSignal
      <4> QED
        BY <3>3, <4>1, <4>2 DEF StopSignal
    <3>4. CASE StopDone
      BY <3>4 DEF StopDone
    <3>5. CASE StopEnd
      BY <3>5 DEF StopEnd
    <3>6. CASE StopReturn
      BY <3>6 DEF StopReturn
    <3> QED
      BY <2>3, <3>1, <3>2, <3>3, <3>4, <3>5, <3>6 DEF Owner
  <2>4. CASE Target
    <3>1. CASE ThreadBootstrap
      BY <3>1 DEF ThreadBootstrap
    <3>2. CASE ThreadLoop
      BY <3>2 DEF ThreadLoop
    <3>3. CASE ThreadPopen
      BY <3>3 DEF ThreadPopen
    <3>4. CASE ThreadAssign
      BY <3>4 DEF ThreadAssign
    <3>5. CASE ThreadSet
      BY <3>5 DEF ThreadSet
    <3>6. CASE ThreadWait
      BY <3>6 DEF ThreadWait
    <3>7. CASE ThreadClear
      BY <3>7 DEF ThreadClear
    <3> QED
      BY <2>4, <3>1, <3>2, <3>3, <3>4, <3>5, <3>6, <3>7 DEF Target
  <2>5. CASE ProgramEnds
    BY <2>5 DEF ProgramEnds
  <2>6. CASE UNCHANGED vars
    BY <2>6 DEF vars
  <2> QED
    BY <2>1, <2>2, <2>3, <2>4, <2>5, <2>6 DEF Next
<1> QED
  BY <1>1, <1>2, PTL DEF Spec

-----------------------------------------------------------------------------
(* The inductive invariant, for Python 2. *)

(* _started is set from Popen's return to the end of the program and never   *)
(* outlives the loop.                                                        *)
StartedInv == started <=> thread \in {"wait", "clear"}

(* A program lives only while _call_process is between Popen and wait. *)
ProgramInv ==
  /\ program = "alive" => thread \in {"assign", "set", "wait"}
  /\ thread \in {"assign", "set", "wait", "clear"} => program # "none"

(* The value that start is about to return. *)
ResultInv ==
  /\ owner # "start_return" => start_ret = NoResult
  /\ start_ret = 0 => program # "none"

(* stop's loop is left only when the thread has ended. *)
StopInv ==
  /\ owner \in {"start_wait", "start_return"} => run
  /\ owner \in {"stop_loop", "stop_end", "stopped"} => ~run
  /\ owner \in {"stop_end", "stopped"} => thread \in {"new", "dead"}
  /\ owner = "idle" /\ ~run => thread \in {"new", "dead"}

IInv == TypeOK /\ StartedInv /\ ProgramInv /\ ResultInv /\ StopInv

(* Under Python 2 the invariant holds of __init__ and is kept by every step  *)
(* of the owner, of _target and of the program.                              *)
THEOREM Invariance ==
  ASSUME Python = 2
  PROVE  Spec => []IInv
<1>1. Init => IInv
  <2> SUFFICES ASSUME Init PROVE IInv
    OBVIOUS
  <2>1. TypeOK
    BY SignalCounts DEF Init, TypeOK, NoResult, ThreadSteps
  <2>2. ResultInv
    BY DEF Init, ResultInv, NoResult
  <2>3. StartedInv /\ ProgramInv /\ StopInv
    BY DEF Init, StartedInv, ProgramInv, StopInv
  <2> QED
    BY <2>1, <2>2, <2>3 DEF IInv
<1>2. IInv /\ TypeOK' /\ [Next]_vars => IInv'
  <2> SUFFICES ASSUME IInv, TypeOK', [Next]_vars PROVE IInv'
    OBVIOUS
  <2> USE DEF IInv, TypeOK, StartedInv, ProgramInv, ResultInv, StopInv, NoResult,
              ThreadSteps
  <2>1. CASE Start
    <3>1. start_ret = NoResult
      BY <2>1 DEF Start
    <3>2. ~started
      BY <2>1 DEF Start
    <3>3. ResultInv' /\ StartedInv'
      BY <2>1, <3>1, <3>2 DEF Start
    <3>4. ProgramInv' /\ StopInv'
      BY <2>1 DEF Start
    <3> QED
      BY <3>3, <3>4
  <2>2. CASE Stop
    BY <2>2 DEF Stop
  <2>3. CASE Owner
    <3>1. CASE StartWait
      BY <3>1 DEF StartWait
    <3>2. CASE StartReturn
      BY <3>2 DEF StartReturn
    <3>3. CASE StopSignal
      <4>1. \/ program' = program
            \/ program = "alive" /\ program' = "exited"
        BY <3>3 DEF StopSignal
      <4> QED
        BY <3>3, <4>1 DEF StopSignal
    <3>4. CASE StopDone
      <4>1. thread \in {"new", "dead"}
        BY <3>4 DEF StopDone, is_alive
      <4> QED
        BY <3>4, <4>1 DEF StopDone
    <3>5. CASE StopEnd
      BY <3>5 DEF StopEnd
    <3>6. CASE StopReturn
      BY <3>6 DEF StopReturn
    <3> QED
      BY <2>3, <3>1, <3>2, <3>3, <3>4, <3>5, <3>6 DEF Owner
  <2>4. CASE Target
    <3>1. CASE ThreadBootstrap
      BY <3>1 DEF ThreadBootstrap
    <3>2. CASE ThreadLoop
      BY <3>2 DEF ThreadLoop
    <3>3. CASE ThreadPopen
      BY <3>3 DEF ThreadPopen
    <3>4. CASE ThreadAssign
      BY <3>4 DEF ThreadAssign
    <3>5. CASE ThreadSet
      BY <3>5 DEF ThreadSet
    <3>6. CASE ThreadWait
      BY <3>6 DEF ThreadWait
    <3>7. CASE ThreadClear
      BY <3>7 DEF ThreadClear
    <3> QED
      BY <2>4, <3>1, <3>2, <3>3, <3>4, <3>5, <3>6, <3>7 DEF Target
  <2>5. CASE ProgramEnds
    BY <2>5 DEF ProgramEnds
  <2>6. CASE UNCHANGED vars
    BY <2>6 DEF vars
  <2> QED
    BY <2>1, <2>2, <2>3, <2>4, <2>5, <2>6 DEF Next
<1> QED
  BY <1>1, <1>2, Typing, PTL DEF Spec

(* Under Python 2, when start returns 0 (external_process.py:65-71) Popen    *)
(* has been called: _started is only ever set by _call_process.              *)
THEOREM StartRunsProgram ==
  ASSUME Python = 2
  PROVE  Spec => []StartMeansPopen
<1>1. IInv => StartMeansPopen
  BY DEF IInv, ResultInv, StartMeansPopen
<1> QED
  BY <1>1, Invariance, PTL

(* Under Python 2, once stop has returned (external_process.py:73-95) and   *)
(* until the next start no program lives, at whatever step of _target stop   *)
(* was called.                                                               *)
THEOREM StopEndsProgram ==
  ASSUME Python = 2
  PROVE  Spec => []StopLeavesNoProgram
<1>1. IInv => StopLeavesNoProgram
  BY DEF IInv, ProgramInv, StopInv, StopLeavesNoProgram
<1> QED
  BY <1>1, Invariance, PTL
=============================================================================
