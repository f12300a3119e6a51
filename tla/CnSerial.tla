------------------------------ MODULE CnSerial ------------------------------
(***************************************************************************)
(* The link to the control node: ControlNodeSerial of                      *)
(* control_nodes/cn_iotlab/cn_interface.py, its reader thread, and the     *)
(* control_node_serial program it runs.                                    *)
(*                                                                         *)
(*   caller --stdin--> control_node_serial --tty--> control node           *)
(*   caller <--msgs, _wait_ready-- reader <--stderr-- control_node_serial  *)
(*                                                                         *)
(* The caller is the thread that owns the manager's lock, so it is one at  *)
(* a time: it calls start, then send_command, then stop.  The program may  *)
(* end at any time, and the control node may answer late or never.  A      *)
(* command and its answer carry a mark that the program does not have:     *)
(* whether it is the command the caller waits for.                         *)
(***************************************************************************)
EXTENDS Integers, Sequences

CONSTANTS
  Commands,    \* command names
  MaxPending   \* bound: commands and answers of one session under way

ASSUME MaxPendingAssumption == MaxPending \in Nat \ {0}

VARIABLES
  caller,      \* where the caller is
  command,     \* the name of the command being sent
  start_ret,   \* what the last start returned
  send_ret,    \* what the last Protocol.send_cmd returned
  own,         \* ghost: its answer was the answer to its command
  timed_out,   \* ghost: a command of this session timed out
  referenced,  \* self.process is not None
  process,     \* the program itself
  signal,      \* signal sent to the program: "none", "term" or "kill"
  reader,      \* where the reader thread is
  stdin,       \* commands written and not answered
  stderr,      \* lines printed and not read
  wait_ready,  \* _wait_ready, a Queue(1)
  msgs         \* msgs, a Queue(1)

vars == <<caller, command, start_ret, send_ret, own, timed_out, referenced,
          process, signal, reader, stdin, stderr, wait_ready, msgs>>

caller_vars == <<caller, command, start_ret, send_ret, own, timed_out, referenced>>
link_vars == <<stdin, stderr>>

-----------------------------------------------------------------------------
NoResult == -1

Line(kind, name, ok, current) ==
  [kind |-> kind, name |-> name, ok |-> ok, current |-> current]

Ready == [kind |-> "cn_serial_ready"]
Error == [kind |-> "cn_serial_error"]
Answers == [kind: {"answer"}, name: Commands, ok: BOOLEAN, current: BOOLEAN]
Sent == [name: Commands, current: BOOLEAN]

TypeOK ==
  /\ caller \in {"idle", "start_wait", "started", "send_write", "send_get",
                 "sent", "stop_wait", "stop_join"}
  /\ command \in Commands
  /\ start_ret \in {NoResult, 0, 1}
  /\ send_ret \in {NoResult, 0, 1}
  /\ own \in BOOLEAN
  /\ timed_out \in BOOLEAN
  /\ referenced \in BOOLEAN
  /\ process \in {"none", "starting", "up", "exited"}
  /\ signal \in {"none", "term", "kill"}
  /\ reader \in {"none", "poll", "read", "put_ready", "put_failed", "ended"}
  /\ stdin \in Seq(Sent)
  /\ stderr \in Seq(Answers \cup {Ready, Error})
  /\ wait_ready \in {<<>>, <<0>>, <<1>>}
  /\ msgs = <<>> \/ \E a \in Answers : msgs = <<a>>

Init ==
  /\ caller = "idle"
  /\ command \in Commands
  /\ start_ret = NoResult
  /\ send_ret = NoResult
  /\ own = FALSE
  /\ timed_out = FALSE
  /\ referenced = FALSE
  /\ process = "none"
  /\ signal = "none"
  /\ reader = "none"
  /\ stdin = <<>>
  /\ stderr = <<>>
  /\ wait_ready = <<>>
  /\ msgs = <<>>

-----------------------------------------------------------------------------
(* start *)

(* Mutant: _wait_ready is not emptied. *)
StartKeepsReady ==
  /\ caller = "idle"
  /\ ~referenced
  /\ process' = "starting"
  /\ signal' = "none"
  /\ stdin' = <<>>
  /\ stderr' = <<>>
  /\ referenced' = TRUE
  /\ reader' = "poll"
  /\ caller' = "start_wait"
  /\ timed_out' = FALSE
  /\ UNCHANGED <<command, start_ret, send_ret, own, wait_ready, msgs>>

(* Empty _wait_ready, run the program, start the reader.  The caller        *)
(* modelled here starts only after a stop, as exp_start does; GatewayManager *)
(* has the second program that auto_tests starts during an experiment.      *)
StartProcess ==
  /\ caller = "idle"
  /\ ~referenced
  /\ wait_ready' = <<>>
  /\ process' = "starting"
  /\ signal' = "none"
  /\ stdin' = <<>>
  /\ stderr' = <<>>
  /\ referenced' = TRUE
  /\ reader' = "poll"
  /\ caller' = "start_wait"
  /\ timed_out' = FALSE
  /\ UNCHANGED <<command, start_ret, send_ret, own, msgs>>

(* ret = self._wait_ready.get() has no timeout. *)
StartGet ==
  /\ caller = "start_wait"
  /\ wait_ready # <<>>
  /\ start_ret' = Head(wait_ready)
  /\ wait_ready' = <<>>
  /\ caller' = "started"
  /\ UNCHANGED <<command, send_ret, own, timed_out, referenced, process,
                 signal, reader, link_vars, msgs>>

(* Whatever start returned the caller goes on. *)
StartReturn ==
  /\ caller = "started"
  /\ start_ret' = NoResult
  /\ caller' = "idle"
  /\ UNCHANGED <<command, send_ret, own, timed_out, referenced, process,
                 signal, reader, link_vars, wait_ready, msgs>>

-----------------------------------------------------------------------------
(* send_command, then the comparison of Protocol.send_cmd *)

(* Mutant: msgs is not emptied. *)
SendKeepsOldAnswers(name) ==
  /\ caller = "idle"
  /\ Len(stdin) + Len(stderr) < MaxPending
  /\ command' = name
  /\ caller' = "send_write"
  /\ UNCHANGED <<start_ret, send_ret, own, timed_out, referenced, process,
                 signal, reader, link_vars, wait_ready, msgs>>

(* Remove old answers from msgs. *)
SendBegin(name) ==
  /\ caller = "idle"
  /\ Len(stdin) + Len(stderr) < MaxPending
  /\ command' = name
  /\ msgs' = <<>>
  /\ caller' = "send_write"
  /\ UNCHANGED <<start_ret, send_ret, own, timed_out, referenced, process,
                 signal, reader, link_vars, wait_ready>>

(* The commands and answers under way belong to earlier commands now. *)
Older(s) ==
  [i \in 1..Len(s) |->
     IF "current" \in DOMAIN s[i] THEN [s[i] EXCEPT !.current = FALSE] ELSE s[i]]

(* Write to stdin; without a program, or once it has ended, that fails with *)
(* AttributeError or IOError and the answer is None.                        *)
SendWrite ==
  /\ caller = "send_write"
  /\ stderr' = Older(stderr)
  /\ msgs' = Older(msgs)
  /\ IF referenced /\ process # "exited"
     THEN /\ stdin' = Append(Older(stdin), [name |-> command, current |-> TRUE])
          /\ caller' = "send_get"
          /\ send_ret' = send_ret
     ELSE /\ stdin' = Older(stdin)
          /\ caller' = "sent"
          /\ send_ret' = 1
  /\ UNCHANGED <<command, start_ret, own, timed_out, referenced, process,
                 signal, reader, wait_ready>>

(* The answer is taken from msgs: 0 if it is [command, 'ACK']. *)
SendGet ==
  /\ caller = "send_get"
  /\ msgs # <<>>
  /\ send_ret' = IF Head(msgs).name = command /\ Head(msgs).ok THEN 0 ELSE 1
  /\ own' = Head(msgs).current
  /\ msgs' = <<>>
  /\ caller' = "sent"
  /\ UNCHANGED <<command, start_ret, timed_out, referenced, process, signal,
                 reader, link_vars, wait_ready>>

(* queue.Empty after one second: the answer is None. *)
SendTimeout ==
  /\ caller = "send_get"
  /\ msgs = <<>>
  /\ send_ret' = 1
  /\ timed_out' = TRUE
  /\ caller' = "sent"
  /\ UNCHANGED <<command, start_ret, own, referenced, process, signal, reader,
                 link_vars, wait_ready, msgs>>

SendReturn ==
  /\ caller = "sent"
  /\ send_ret' = NoResult
  /\ own' = FALSE
  /\ caller' = "idle"
  /\ UNCHANGED <<command, start_ret, timed_out, referenced, process, signal,
                 reader, link_vars, wait_ready, msgs>>

-----------------------------------------------------------------------------
(* stop *)

(* process.terminate(); OSError (the program has already ended) and         *)
(* AttributeError (there is none) go on to the join.                        *)
StopTerminate ==
  /\ caller = "idle"
  /\ IF referenced /\ process # "exited"
     THEN signal' = "term" /\ caller' = "stop_wait"
     ELSE signal' = signal /\ caller' = "stop_join"
  /\ UNCHANGED <<command, start_ret, send_ret, own, timed_out, referenced,
                 process, reader, link_vars, wait_ready, msgs>>

(* process.wait(timeout=5); kill on TimeoutExpired. *)
StopWait ==
  /\ caller = "stop_wait"
  /\ \/ process = "exited" /\ signal' = signal
     \/ process # "exited" /\ signal' = "kill"
  /\ caller' = "stop_join"
  /\ UNCHANGED <<command, start_ret, send_ret, own, timed_out, referenced,
                 process, reader, link_vars, wait_ready, msgs>>

(* Mutant: the process is forgotten before the reader is joined. *)
StopDoesNotJoin ==
  /\ caller = "stop_join"
  /\ referenced' = FALSE
  /\ caller' = "idle"
  /\ UNCHANGED <<command, start_ret, send_ret, own, timed_out, process,
                 signal, reader, link_vars, wait_ready, msgs>>

(* reader_thread.join(), then forget the process. *)
StopJoin ==
  /\ caller = "stop_join"
  /\ reader \in {"none", "ended"}
  /\ referenced' = FALSE
  /\ caller' = "idle"
  /\ UNCHANGED <<command, start_ret, send_ret, own, timed_out, process,
                 signal, reader, link_vars, wait_ready, msgs>>

-----------------------------------------------------------------------------
(* The reader thread, _reader and _handle_answer *)

(* while self.process.poll() is None, else ... *)
ReaderPoll ==
  /\ reader = "poll"
  /\ reader' = IF process = "exited" THEN "put_failed" ELSE "read"
  /\ UNCHANGED <<caller_vars, process, signal, link_vars, wait_ready, msgs>>

(* Mutant: msgs has no maximal size. *)
ReaderNeverDrops ==
  /\ reader = "read"
  /\ stderr # <<>>
  /\ stderr' = Tail(stderr)
  /\ reader' = IF Head(stderr) = Ready THEN "put_ready" ELSE "poll"
  /\ msgs' = IF Head(stderr).kind = "answer" THEN Append(msgs, Head(stderr))
             ELSE msgs
  /\ UNCHANGED <<caller_vars, process, signal, stdin, wait_ready>>

(* Mutant: the word of the program that is ready is not recognised. *)
ReaderMissesReady ==
  /\ reader = "read"
  /\ stderr # <<>>
  /\ stderr' = Tail(stderr)
  /\ reader' = "poll"
  /\ msgs' = IF Head(stderr).kind = "answer" /\ msgs = <<>>
             THEN <<Head(stderr)>> ELSE msgs
  /\ UNCHANGED <<caller_vars, process, signal, stdin, wait_ready>>

(* readline returns a line; an answer is put in msgs unless that is full.   *)
ReaderLine ==
  /\ reader = "read"
  /\ stderr # <<>>
  /\ stderr' = Tail(stderr)
  /\ reader' = IF Head(stderr) = Ready THEN "put_ready" ELSE "poll"
  /\ msgs' = IF Head(stderr).kind = "answer" /\ msgs = <<>>
             THEN <<Head(stderr)>> ELSE msgs
  /\ UNCHANGED <<caller_vars, process, signal, stdin, wait_ready>>

(* readline returns '': break, which skips the else branch of the loop. *)
ReaderEof ==
  /\ reader = "read"
  /\ stderr = <<>>
  /\ process = "exited"
  /\ reader' = "ended"
  /\ UNCHANGED <<caller_vars, process, signal, link_vars, wait_ready, msgs>>

(* _wait_ready.put blocks while the queue is full. *)
ReaderPut ==
  /\ reader \in {"put_ready", "put_failed"}
  /\ wait_ready = <<>>
  /\ wait_ready' = <<IF reader = "put_ready" THEN 0 ELSE 1>>
  /\ reader' = IF reader = "put_ready" THEN "poll" ELSE "ended"
  /\ UNCHANGED <<caller_vars, process, signal, link_vars, msgs>>

-----------------------------------------------------------------------------
(* The control_node_serial program and the control node *)

(* main opens the tty, starts its threads; read_commands prints ready. *)
ProgramReady ==
  /\ process = "starting"
  /\ process' = "up"
  /\ stderr' = Append(stderr, Ready)
  /\ UNCHANGED <<caller_vars, signal, reader, stdin, wait_ready, msgs>>

(* main cannot open the tty: it prints an error and returns. *)
ProgramFails ==
  /\ process = "starting"
  /\ process' = "exited"
  /\ stderr' = Append(stderr, Error)
  /\ stdin' = <<>>
  /\ UNCHANGED <<caller_vars, signal, reader, wait_ready, msgs>>

(* The control node executes the oldest command and write_answer prints     *)
(* ACK or NACK.                                                             *)
ProgramAnswers ==
  /\ process = "up"
  /\ stdin # <<>>
  /\ stdin' = Tail(stdin)
  /\ \E ok \in BOOLEAN :
       stderr' = Append(stderr, Line("answer", Head(stdin).name, ok,
                                     Head(stdin).current))
  /\ UNCHANGED <<caller_vars, process, signal, reader, wait_ready, msgs>>

(* A command the parser refuses gives an error line, one lost on the tty    *)
(* nothing: no answer in either case.                                       *)
ProgramLoses ==
  /\ process = "up"
  /\ stdin # <<>>
  /\ stdin' = Tail(stdin)
  /\ stderr' \in {stderr, Append(stderr, Error)}
  /\ UNCHANGED <<caller_vars, process, signal, reader, wait_ready, msgs>>

(* The serial read fails, or a signal ends the program. *)
ProgramExits ==
  /\ process \in {"starting", "up"}
  /\ process' = "exited"
  /\ stdin' = <<>>
  /\ UNCHANGED <<caller_vars, signal, reader, stderr, wait_ready, msgs>>

-----------------------------------------------------------------------------
Caller ==
  \/ StartProcess \/ StartGet \/ StartReturn
  \/ \E name \in Commands : SendBegin(name)
  \/ SendWrite \/ SendGet \/ SendTimeout \/ SendReturn
  \/ StopTerminate \/ StopWait \/ StopJoin

Reader == ReaderPoll \/ ReaderLine \/ ReaderEof \/ ReaderPut

Program ==
  \/ ProgramReady \/ ProgramFails \/ ProgramAnswers \/ ProgramLoses
  \/ ProgramExits

Next == Caller \/ Reader \/ Program

Spec == Init /\ [][Next]_vars

(* Threads run, the program gets through its start, and a killed program    *)
(* ends.  SIGTERM need not end it, the control node need not answer, and    *)
(* the caller need not make another call.                                   *)
FairSpec ==
  /\ Spec
  /\ WF_vars(StartGet) /\ WF_vars(StartReturn)
  /\ WF_vars(SendWrite) /\ WF_vars(SendGet \/ SendTimeout) /\ WF_vars(SendReturn)
  /\ WF_vars(StopWait) /\ WF_vars(StopJoin)
  /\ WF_vars(Reader)
  /\ WF_vars(ProgramReady \/ ProgramFails)
  /\ WF_vars(signal = "kill" /\ ProgramExits)

-----------------------------------------------------------------------------
(* Properties *)

(* What start returns is about the program it has just run: 0 means it      *)
(* announced itself, 1 that it has ended.  No value that a reader left in   *)
(* _wait_ready at the end of an earlier session is taken for it.            *)
StartResultIsFresh ==
  /\ start_ret = 0 => process # "starting"
  /\ start_ret = 1 => process = "exited"

(* As long as no command of the session has timed out, the answer that      *)
(* send_command returns is the answer to its own command; in particular a   *)
(* new session never takes an answer of an earlier one.                     *)
AnswersMatchUntilTimeout ==
  caller = "sent" /\ ~timed_out /\ send_ret = 0 => own

(* When stop has returned the program has ended and its reader too, so the  *)
(* next start finds the tty free and nobody writes to its queues.           *)
StopLeavesNothing ==
  ~referenced => process \in {"none", "exited"} /\ reader \in {"none", "ended"}

(* The program ended before it was ready, the reader saw the end of stderr  *)
(* and ended by its break: nothing will be put in _wait_ready.              *)
StartHangs ==
  caller = "start_wait" /\ process = "exited" /\ reader = "ended" /\ wait_ready = <<>>

(* send_command and stop always return: neither a lost command or answer, a *)
(* full msgs or a dead program, nor a program that ignores SIGTERM or a     *)
(* reader blocked on a full _wait_ready holds them up.  start returns too,  *)
(* also "in case of failure at startup" as the reader says of the value it  *)
(* then puts (cn_interface.py:226), with one exception, StartHangs: that    *)
(* value is not put when readline meets the end of stderr.                  *)
CallsReturn ==
  /\ caller \in {"send_write", "send_get"} ~> caller = "idle"
  /\ caller \in {"stop_wait", "stop_join"} ~> caller = "idle"
  /\ caller = "start_wait" ~> caller = "started" \/ StartHangs
=============================================================================
