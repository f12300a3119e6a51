# A TLA+ model of the IoT-LAB gateway

The gateway of an IoT-LAB node is a Python server (`gateway_code`) with a C
helper program (`control_node_serial`). The server starts and stops experiments
on an *open node* (the user's board) and drives a *control node* (the board that
powers and measures the open node). This directory models the parts of it that
carry state, checks them with TLC, and proves with TLAPS the safety
properties that TLC finds to hold.

    request threads --HTTP--> GatewayRest --try-lock--> GatewayManager <-- Timer threads
                                                       |            |
                                             control node        open node
                                 ControlNodeIotlab, Protocol   NodeOpenOCDBase, NodeA8, ...
                                           |                        |
                     ControlNodeSerial --stdin/stderr-->      SerialRedirection
                                  control_node_serial         (ExternalProcess)
                                  (serial reader, command
                                   reader, sniffer server)

## Inventory

| component | state | operations | what makes it correct | hard because |
|---|---|---|---|---|
| `GatewayManager` | `experiment_is_running`, `(exp_id, user)`, `exp_files`, `user_log_handler`, `timeout_timer`, `rlock` | `exp_start`, `exp_stop`, `_timeout_exp_stop`, `exp_update_profile`, power, debug, reset, flash, `auto_tests`, `status`, `sleep` | one experiment at a time; everything it took is given back; 0 means done; the timeout ends it | Timers race requests; every step may fail or raise; the lock refuses instead of waiting |
| `GatewayRest` | none | one handler per route | every request is answered | 503 when the lock is taken |
| `ControlNodeIotlab` | `profile`, `open_node_state` | `start`, `stop`, `start_experiment`, `stop_experiment`, `open_start`, `open_stop`, `configure_profile` | its state is that of the hardware | acknowledgements are lost |
| `ControlNodeSerial` | `process`, `reader_thread`, queues `msgs` and `_wait_ready` of size 1 | `start`, `send_command`, `stop`, reader thread | a result belongs to its call; calls return | late answers, death of the program at any moment |
| `control_node_serial` | tty, parser state, `active_connection`, `connect_fd` | read commands, write answers, decode packets, serve a sniffer client | answers and measures decoded; a connected client is served | three threads, one lock-less protocol |
| `ExternalProcess` | `_run`, `_started`, `process`, the thread | `start`, `stop`, restart loop | 0 means running, stopped means stopped | stop races the restart loop; Python 3 uses `_started` too |
| OpenOCD nodes | `_debug`, firmware, redirection | `setup`, `teardown`, `flash`, `reset`, debug | firmware and redirection as asked | a debugger blocks flash and reset |
| EDBG, Zigduino, Leonardo, Firefly, Pycom, LoRa gateway, RTL-SDR | `_current_fw`, `_in_debug`, external processes | as above | as above | deleted temporary files; the redirection is stopped around a flash |
| A8, rpi3 (Linux) | `_a8_expect`, boot threads | `setup`, `teardown`, `wait_booted`, login | every boot is watched, the port is given back | threads nobody joins share one attribute and one port |
| `AutoTestManager` | `on_serial`, `ret_dict` | set-up, tests, teardown | the gateway is as before | exceptions other than `FatalError` skip teardown |
| `profile.py`, `cn_protocol.py`, `command_parser.c` | none | validate, format, parse | Python accepts only what the C parser accepts | limits written twice |
| `serial.c`, `measures_handler.c`, `time_ref.c` | packet state machine, time reference | decode | the result does not depend on chunks; time arithmetic | bytes arrive in any pieces |
| configuration, ELF check, logging, command line tools | read-only | | | |

`PROJECT.json` lists every component with its status, and every hazard with its
line in the source and the properties aimed at it.

## Modules

| module | models | composed with |
|---|---|---|
| `GatewayManager` | manager, REST server, Timers, lock; the nodes as the state the manager's promises are about | instantiates `ExperimentSession` |
| `ExperimentSession` | abstract: what the manager promises about experiments | |
| `CnSerial` | `ControlNodeSerial`, its reader, the program's command path, the control node's answers | |
| `ExternalProcess` | the redirection's thread and its owner | |
| `SnifferServer` | the two threads that share the sniffer connection | |
| `Commands` | a profile from `Profile.from_dict` through `cn_protocol.py` and `command_reader.c` to what the control node does | |
| `ControlNode` | the control node classes, their calls, the hardware | extends `Commands` |
| `Packets` | bytes from the control node: `serial.c`, `decode.c`, `measures_handler.c`, `time_ref.c` | |
| `OpenNode` | the open node classes and their programming tools | |
| `LinuxNode` | A8 and rpi3: boot watchers, the port they share, the login of the auto tests | |
| `MC...` | the instances for TLC | |
| `...Proofs` | the theorems about the module it is named after; `ControlNodeProofs` those about `Commands` too | extends it |

### GatewayManager

A thread's `pc` is the step of the method it executes. A method is split where
the code calls into a node or the file system: between two such calls a Timer
may expire, a request may come and be refused, and the call may fail or raise
and leave the steps before it done. `exp_stop` is one sequence of actions used
by its three callers (a request, `exp_start` replacing an experiment, and
`_timeout_exp_stop`), as in the code, where the re-entrant lock lets the call
nest. Return codes are 0 or 1; 1 is any non-zero sum.

* `Acquire`, `WouldBlock` and `Release` are `common.synchronous`. A refused
  Timer thread dies with its exception, and `timeout_timer` still refers to it.
* A request is chosen when the lock is acquired, because what a refused
  request asked for has no effect. The node argument of flash and reset, the
  firmware (none, a good one, one for another target), the profile (none, a good
  one, one `from_dict` refuses) and the timeout (0 or not) are the arguments
  the code tells apart.
* A file system error in `create_user_exp_files` leaves an experiment that
  "runs" with nothing started; a redirection that is already started raises in
  `setup`; `auto_tests` may raise in its set-up, in its tests or in its
  teardown, with what it started still up.
* `ControlNodeSerialDies` ends the program at any time.
* `cn_serial.start` only overwrites `self.process` and `self.reader_thread`
  (`CnSerialStart`). A second one without a `stop`, by `auto_tests` during an experiment
  or after one that raised, leaves the first program running: nothing closes its stdin,
  since a `Popen` that still runs is kept in `subprocess._active`. `lost` says what is
  out of reach of `cn_serial.stop`: a program with its reader thread, or the reader
  alone; `LostEnds` ends them. The ghost `disturbed` says that `auto_tests` called `start`
  during an experiment, or that a `start` followed an `auto_tests` that raised, and what
  was lost is not gone yet. What two programs do to one tty
  is not modelled.
* A thread that waits for ever is at the step `stuck`, with the lock. There are two waits without a
  timeout: `cn_serial.start` waits for a program that ended before it was ready (`StartHangs`;
  `CnSerial` shows how), and `cn_serial.stop` joins a reader that cannot put its mark in
  `_wait_ready`, of size one, because a lost reader filled it (`CnSerialStop`).
* `tests_raised` is a ghost: an exception ended an `auto_tests` and no
  experiment was stopped since. It is the condition under which the redirection
  may be up without an experiment.
* A Timer object that is dead and unreferenced may be used again for a new one.

The open node is an OpenOCD board and the control node an iotlab one, the
combination most boards have. `Board` is `m3` or one of the nrf52 boards, whose
`exp_start` power-cycles the open node. Pycom's waits for its tty are left out.

### CnSerial

The caller is the thread that owns the manager's lock, so there is one. Each
command and its answer carry a ghost mark, whether it is the command the caller
waits for; the program does not have it. `start` follows a `stop`, as in
`exp_start`; the second `start` of `auto_tests` is in `GatewayManager`. A program lives in a session of its own: its pipes are new. The
model is that of the code under Python 2 (strings from the pipe).

### ExternalProcess

The owner calls start and stop at any time; the thread goes through
`_target` and `_call_process` access by access. Python 3 differs from Python 2 in two places,
`ThreadBootstrap` and `is_alive`, both marked external. The first also refutes
`StartMeansPopen` under Python 3: `start` returns as soon as the bootstrap has set
`_started`, before `Popen` (set `Python = 3` in `MCExternalProcess.cfg`).

### SnifferServer

Each access to `active_connection` and `connect_fd` is a step. Descriptors are
numbers, the lowest free one is given first, and a closed one is reused. The
test at `sniffer_server.c:138` is true when there is *no* connection, against
the comment above it, "Keep only one connection active", so a client that is
replaced stays open and connected, and is served no more: `OnlyOneConnection` states the
comment, and run `sniffer_one_connection` refutes it. The sender's clean-up closes a
number that may have been given to another client since. The ghost
`reused` marks those numbers; `ClosesGoneOrReused` says that this clean-up closes no other
connected client.

### Commands and ControlNode

`Commands` has no state: it is the validation of a profile, the command lines
it becomes, the parsing of a line with the tables and limits of the C code, and
the packet. A list of channels is the set it encodes. `Execute`, what the
firmware does with a packet, is external and only decodes what was encoded.
`IsProfileDict` is the shape of a profile that `Profile.__init__` can unpack: any numbers,
any radio mode, any list of channels, valid or not, and either part may be left out.

In `ControlNode` a method is the list of calls it makes, made one after the
other; `ret` is 0 or 1. A call may fail before the hardware has seen it
(`SendFails`), work (`SendWorks`), or work without an answer in time
(`SendUnanswered`). Such an answer may still come: `late` holds the answers under way, oldest
first. `send_command` empties its queue before it sends and `send_cmd` compares only the
name, so a late ACK that comes while a later command of the same name waits is taken for its
answer, executed or not (`SendLate`); otherwise it is thrown away or fails the command
that gets it (`LateArrives`). So configuring a profile may return 0 with the previous profile
in the control node. `hw` is the hardware beside `open_node_state` and
`profile`. The ghost `doubtful` has the parts of `hw` whose command, in this method, took a
late ACK: `ZeroMeansDone` says nothing of those (`Sure`) and everything of the others. The ghost `unsure` says that a power command was executed without
an answer, or took a late one, or the control node was reset, since the last power command that was
executed and answered. Only then may the two differ, and only then may the next profile switch the
open node off or on.

`DefaultProfile` is `static/default_profile.json`. A node's number is below
4096 (`NumAssumption`): `cmd_set_node_id` puts it in the 12 bits beside the architecture.

`AcceptedUnlessKnown` states exactly which profiles Python accepts and the C
program refuses, without an answer: a power source that is not in its
table (or too long for its buffer), and a sniffer on one channel given several
times, which Python counts and C does not.

### Packets

The control node's frames are external, and the model makes their bytes; any
number of bytes is read at a time. Everything after that is the C code. What
TLC shows that the code does, and the properties say:

* a sniffer client gets every packet followed by one byte that is not part of
  it (the length counts the type byte that the pointer has skipped);
* an empty packet is handled when the next byte arrives and decodes the buffer
  of the packet before it; only an acknowledgement has a visible effect again,
  and it is the same one. If no byte follows it, or only frames that are lost, it is never handled;
* when the acknowledgement of a new consumption layout is lost, measures are
  dropped if the number of values differs, and named after the wrong quantity
  if it does not.

`set_time_ref` belongs to two threads and no lock. `cmd_set_time` of the command reader writes
its two words one after the other; the handler of the acknowledgement subtracts it from the time of
arrival and clears it. `timeval_substract` modifies its second argument, here the shared
variable itself, so the model takes it and `timerclear` access by access. The build optimises (-O3 on ARM, -O1
elsewhere): a word that was read may stay in a register or be read again until the result is stored, and the
model allows both. A write between the test of `time_ref.c:33` and the subtraction of
line 49 gives negative microseconds, which the comment there ("tv_usec is certainly positive")
excludes. `ElapsedNormal` is about every delay `cmd_set_time` did not write into, also
after earlier overlaps that left anything at all in `set_time_ref`. The other direction, the handler changing
the time that `cmd_set_time` is about to send (`command_reader.c:199-201`), is not
followed to the control node.

The error code of a logger frame is a `char`, whose sign depends on the
platform (`CharSigned`; unsigned on the gateway's ARM). The NTP time of a
sniffed packet is left out, its arithmetic being beyond TLC's 32-bit integers.
`tv_sec` and `tv_usec` are signed and of 32 bits on the gateway, so the times of a
frame stay where that arithmetic is exact: a reference before 2037 (`Seconds`) and
measures less than 2^31 microseconds, 35 minutes, after it (`Micros`).

### OpenNode

Methods run under the manager's lock, so each is one action. Inside it, a step
maps a state to the set of states it may lead to (a tool fails with the old
firmware kept or lost, a tty does not come, a file is gone), and `Then` goes on
unless one has raised. A firmware of a request is a file that comes with it (`Upload`), is
used by one call (`CalledWith`), and is deleted some time after (`CloseFile`): the handler
closes it after the manager has released its lock (`rest_server.py:208-212`), so another request may come in between.
Firmwares of the gateway stay. The auto tests set the node up and tear it down too
(`AutotestBegin`, `AutotestSetup`, `AutotestTeardown`), with or without an experiment, or
raise in between (`AutotestRaises`); the ghost `tests_left` says what they left.

The `binary` flag of a flash request is a word that `booleanize` turns into a value or
refuses.

Zigduino and Firefly nodes stop and start the redirection around a flash,
started or not: flashed without an experiment, they leave it up, against their comment "Finally restore
serial redirection", and the next setup raises (`IdleRunsNothing`, `OnlySetupStartsTwice`). A Firefly whose firmware has no code gets a `ValueError` out of `cc2538.flash`
with the redirection stopped. An EDBG node that is set up while a debugger runs has
`_in_debug` false beside it. Starting the EDBG debugger flashes `_current_fw`
again without looking at the result; once the file of a user's firmware is gone
the flash fails without a change, and until then it flashes that firmware. `DebugStartKeepsFirmware`
states what that comes to.

### LinuxNode

A connection is named by the call of `wait_booted` that opened it. The call
connects to the redirection's port, assigns the shared attribute, reads it
again to call `expect`, and closes in its `finally` whatever the attribute
holds then. socat serves one client and is restarted by the redirection's
thread; users of the port and the auto tests' login compete for it. Assumed:
`setup` is called with the redirection stopped (in `GatewayManager`,
`RedirectionStartsOnce`), and the interpreter closes a connection when nothing
refers to it any more (`Dropped`, external).

Calls of an earlier session live on: one may read in a later experiment, report
its boot, or close its connection. The properties say when: only a call that did
not yet read at its teardown does the first, only an overlap allows the last.

## Runs

| run | checks | shows |
|---|---|---|
| `manager` | type, `MutualExclusion`, `ArmedTimerIsCurrent`, `IdleIsClean`, `StartedMeansStarted`, `RedirectionStartsOnce`, `StopCleansUp`, `TimeoutStopsItsOwn`, `ImplementsSession` | holds for a request thread, 2 Timers, 2 experiments and every operation |
| `manager_live` | `RequestsAnswered`, `StopCompletes` | holds under fair scheduling, with `exp_start`, `exp_stop`, `auto_tests` and a Timer, on a board with the power cycle |
| `timeout_lost` | `TimeoutStopsExperiment` | refuted: a Timer that meets a taken lock dies |
| `cn_serial` | type, `StartResultIsFresh`, `AnswersMatchUntilTimeout`, `StopLeavesNothing`, `CallsReturn` | holds; the last with the one way in which `start` hangs |
| `process` | `StartMeansPopen`, `StopLeavesNoProgram`, `StopReturns` | holds under Python 2 |
| `process_py3_stop` | `StopLeavesNoProgram` | refuted under Python 3, where `is_alive` reads the `_started` that the loop clears |
| `sniffer` | type, `ActiveWhenClient`, `ClosesGoneOrReused` | holds |
| `sniffer_one_connection` | `OnlyOneConnection` | refuted: the test that should close the earlier client is inverted |
| `control_node` | `ZeroMeansDone`, `PowerStateTracked`, `AcceptedUnlessKnown`, `ProfileKeepsPower` | holds for every kind of profile, with lost and late answers |
| `packets` | `ChunksInvisible`, `FramesDelivered`, `ElapsedNormal` | holds |
| `open_nodes` | `ZeroMeansDone`, `IdleRunsNothing`, `DebugFlagsAgree`, `ExperimentKeepsRedirection`, `OnlySetupStartsTwice`, `DebugStartKeepsFirmware` | holds |
| `linux_boot` | type, `NoConnectionLeft`, `WatchedAlone`, `ForeignBootOnlyLate`, `BootWaitEnds` | holds |

The refuted properties are what a comment or docstring next to the code says;
`PROJECT.json` quotes it in "findings". Other surprising behaviour is
characterised by a property that holds and names the exception:

* what an `auto_tests` that raised leaves running (`IdleIsClean`, ghost `tests_raised`), and the
  program that one during an experiment leaves running after `exp_stop` (`StopCleansUp`, ghost `disturbed`);
* a `start` that hangs, since the end of file on stderr skips the wake-up meant for "failure at
  startup" (`CallsReturn`, `StartHangs`), and what that does to requests (`RequestsAnswered`, `Hangs`);
* an answer that comes after its timeout and is taken for the next one's
  (`AnswersMatchUntilTimeout`, `ZeroMeansDone`);
* those named with their modules above.

Every property that holds has a mutant: an operator next to its original in the
module, marked "Mutant", that changes the code as a bug would and makes TLC find
the property violated.

**Bounds.** Two Timers are needed for an old one to live on beside the current one, two
experiments for a Timer to meet a foreign one. One request thread is enough: the lock gives a second one
nothing but refusals, which the first one gets as well, from a Timer that owns the lock. No
property relates three of them, and the proofs need no bound. Liveness, for which TLC can use no
symmetry, is checked with one Timer, one experiment and the operations that can hang. In `ControlNode`, `MaxLate` bounds the
answers that are late at a time, and `LateCommands` says of which commands: in the run
`config_consumption_measure`, which every profile fills differently; the proof is for any
commands. Both bounds are only in the guard of `SendUnanswered`. In `CnSerial`, `MaxPending` bounds the
commands and answers under way in one session: three is enough for a late
answer, the queue of size one full and a further answer behind them. Only the
guard of `SendBegin` uses it. `MaxFd = 2` gives the sniffer three descriptors: an old
client, a current one and a new one. `ExternalProcess` runs with the
code's own 10 SIGTERM and 10 SIGINT where it passes. The counter of signals
stops once it has reached SIGKILL.

`MCControlNode` takes profiles at both ends of every range (period, average,
channels, number per channel), each with a different set of measures and
sources, and the reasons to refuse, in Python and in C. `MCPackets` has streams of three to eight
frames: each layout, each kind of frame empty and not, noise with and without
the synchronisation byte; reads of 1 to 9 bytes, or all there is, put an
end of a read at every byte of a header and a measure and let one read hold
several packets. `MCOpenNode` has all classes, one firmware of the
gateway besides the idle one and two of users, so that a remembered firmware, a
current and a new one differ. `MCLinuxNode` has two calls of `wait_booted` over
three sessions (a stale call beside a live one, and a session after both, in which the
tty is missing) and two of the ten connection attempts, one that
fails and the last.

**Fairness.** `GatewayManager`: weak fairness of each thread's next step. The
threads are the interpreter's, and a call into a node works under a
timeout (OpenOCD 100 s, a command 1 s, `wait_tty`). For the two waits that have none a step
may lead to `stuck`, where no step is enabled and fairness asks for nothing;
`RequestsAnswered` and `StopCompletes` say "or hangs", and in which call it may (`Hangs`). No request need ever arrive. `CnSerial`: the
threads run, the program gets through its start or fails, and SIGKILL ends it;
SIGTERM need not, and the control node need not answer. `ExternalProcess`:
both threads run; the program need not end by itself. A call that waits for a
second or for fifteen may give up at any moment once there is nothing to get.
`LinuxNode`: each call of `wait_booted` goes on (its connection attempts and its
read have timeouts), and so does the caller that waits for it and logs in.
Nothing is assumed of the board, of users of the port, of socat's restart, or of the
shell prompt, for which `expect` has no timeout.

**Deadlock** is checked except in `CnSerial`, where a `start` that hangs
is a state the code really stops in, in the passing runs of `GatewayManager`, whose
only request thread may hang, and in `Packets`, where the bytes end.

## Proofs

A theorem holds for every value of the constants: any number of threads, boots
or descriptors, any profiles, any stream of bytes. The runs check the same
definitions on small instances. Hardly any of the properties is inductive by
itself; each module names the invariant that is, and the theorems follow from it.

| module | theorem (property) | assumptions on the constants |
|---|---|---|
| `GatewayManagerProofs` | `TypeCorrect` (`TypeOK`), `MethodsExclude` (`MutualExclusion`), `ArmedTimer` (`ArmedTimerIsCurrent`), `CleanWhenIdle` (`IdleIsClean`), `ZeroMeansStarted` (`StartedMeansStarted`), `RedirectionOnce` (`RedirectionStartsOnce`), `StopLeavesClean` (`StopCleansUp`), `TimeoutOwn` (`TimeoutStopsItsOwn`), `ManagerImplementsSession` (`ImplementsSession`) | threads, Timers and experiments are different things; `Ops` are operations; the boards that exist |
| `CnSerialProofs` | `Typing`, `StartIsFresh` (`StartResultIsFresh`), `StopIsComplete` (`StopLeavesNothing`), `AnswersAreOwn` (`AnswersMatchUntilTimeout`) | `MaxPending` is positive |
| `ExternalProcessProofs` | `Typing`, `StartRunsProgram` (`StartMeansPopen`), `StopEndsProgram` (`StopLeavesNoProgram`) | Python is 2 or 3, signals are counted by numbers; the last two theorems say "under Python 2" |
| `SnifferServerProofs` | `Typing`, `NoClientForgotten` (`ActiveWhenClient`), `OnlyReusedClosed` (`ClosesGoneOrReused`) | `MaxFd` is a number |
| `ControlNodeProofs` | `ZeroIsDone` (`ZeroMeansDone`), `PowerIsTracked` (`PowerStateTracked`), `ProfilesKeepPower` (`ProfileKeepsPower`), `RefusedAreKnown` (`AcceptedUnlessKnown`) | the classes and supplies that exist; profiles have the shape `IsProfileDict`; `Num` < 4096; `MaxLate` is a number, `LateCommands` any set |
| `OpenNodeProofs` | `ZeroIsDone` (`ZeroMeansDone`), `NothingRunsIdle` (`IdleRunsNothing`), `SetupStartsTwice` (`OnlySetupStartsTwice`), `FlagsAgree` (`DebugFlagsAgree`), `RedirectionIsKept` (`ExperimentKeepsRedirection`), `DebuggingKeepsFirmware` (`DebugStartKeepsFirmware`) | the classes that exist; the gateway's firmwares, with the idle one, and the users' are different |
| `LinuxNodeProofs` | `Typing`, `PortIsFreed` (`NoConnectionLeft`), `WatchUndisturbed` (`WatchedAlone`), `ForeignBootsAreLate` (`ForeignBootOnlyLate`) | the bounds are numbers, and there is an attempt to connect |
| `PacketsProofs` | `ChunksDoNotMatter` (`ChunksInvisible`), `FramesGiveTheirValues` (`FramesDelivered`), `DelaysAreNormal` (`ElapsedNormal`) | reads give at least a byte; a stream is a sequence of frames whose payloads fit in a packet, with any bytes as noise; its times fit in signed 32 bits; delays are between times that have less than a million microseconds; `char` is signed or not |

**GatewayManager.** `StopCleansUp`, for instance, is about the last step
of `exp_stop`, and depends on what the earlier steps did and on no other
thread having undone it. The inductive invariant `IInv` says
this for each step:

* `LockInv`: a thread is inside a method exactly if it owns the lock. So at most
  one thread is, and what its steps have done stays done;
* `CallInv`: a thread's step belongs to the call it makes (a Timer never
  executes a step of `exp_start`);
* `ExpInv`: identity, files, log handler and Timer exist only while an
  experiment runs; a redirection or a `control_node_serial` without one belongs
  to `auto_tests`, running or abandoned, and what is out of reach was lost by a disturbed start;
* `TimerInv`: a Timer that waits is the current one, and the current one has the
  identity of the experiment;
* `Progress`: for the owner of the lock, what the steps of `exp_stop`
  (`Stopping`) and `exp_start` (`Starting`) have established (before its `cn_serial.start`
  only an `auto_tests` that raised can have left a program), what `ret_val = 0`
  says while the start goes on (`Succeeding`) and at its end (`Started`), and
  that `auto_tests` uses the redirection it started (`Testing`).

`OwnerStep` says once what most actions need: a step of the owner that changes
only its own `pc` and `ret` keeps the lock and all claims about other threads.
Each group of actions has its lemma, `NextInv` puts them together. With
`EndsByReset` (only the last step of `exp_stop` ends an experiment) the action
properties follow. The refinement shows that every action is a step of
`ExperimentSession` or a stutter, under the mapping `Session` (who uses the
gateway; which of files, log, redirection and Timer are held). `IInv` supplies
what the abstract guards ask for: nothing is held when a session begins, the
rest is there when the Timer is armed, nothing runs at the end.

**CnSerial.** `ReaderInv`: whatever the reader has seen, put in `_wait_ready` or
is about to put there is of the program that runs now, because `start`
forgets the rest before `Popen`. `UnderWayInv`: until the first timeout there is
nothing in the pipes and in `msgs` unless a caller waits, and then exactly one
thing, its own command or the answer to it.

**ExternalProcess.** `StartedInv` and `ProgramInv` tie `_started` and the program to the
step of the loop, `ResultInv` the value `start` will return to `Popen`, `StopInv` the
owner's step to `_run` and the thread: `stop` leaves its loop only when the thread
has ended. Under Python 3 the interpreter's use of `_started`
breaks the first, and run `process_py3_stop` refutes the conclusion.

**SnifferServer.** `FlagInv`: if there is a client and the flag is 0, the accepting thread has yet to
set it, or the sender is about to try this very client, or has just succeeded
and will set it. `ClearInv`: only the sender clears the flag. `CloseInv`: a failed descriptor
names a client only if it was reused.

**ControlNode.** A method's calls are fixed when it is entered. `IInv`: the power
command that repeats the state of that moment comes before every call that
changes the state (`Calls`, `Tame`), so as long as the power is known it is that of
`open_node_state`. `ProfileInv`: `self.profile` is always one that `from_dict`
accepted; lemmas on the words, limits and tables of both programs say what the C
parser makes of each of its values. `ZeroInv`: as long as `ret` is 0, each value the method
promises is `Settled`: it is there and no call to come changes it, or a
call to come gives it (`Attains`) and the later ones keep it (`Keeps`). A command that takes a late ACK is a
call skipped: it settles nothing, but makes its own values doubtful, and the others stay settled
(`SkipSettled`). For the values of a profile
this needs that the packet decodes to what Python encoded (`Decoded`), for every
accepted period, average, set of measures and channels.

**OpenNode.** A method is a chain of steps with several outcomes. Each step has a lemma on
what it changes, chains are summarised (`Then`), and `NodeInv` says what holds between
calls: no exception and no result is left, a file exists only for a request that has not
ended, only the processes of the class are up, and only classes with a debugger use its flags. `CurrentFwInv`: an EDBG node has the
firmware that the debugger would flash again, unless a flash broke it or the last request
failed.

**LinuxNode.** Three invariants. `OpenInv`: an open connection is being made, is held
by the shared attribute, or is read by a call, and the attribute's is open only while a call is
left to close it. `AloneInv`: a call that started alone stays alone, since only
`setup` makes calls and it begins a session. `ServedInv`: no connection
outlives its socat, so a call that was reading at its teardown reads a dead one.

**Packets.** The parser skips, copies and handles many bytes at once; the reference
`ByteStates` takes them one by one. `ChunkInv`: what is read and not yet parsed is the next part of
the stream (`RxInv`), a packet being received is incomplete unless it is empty
(`PktInv`), and the parser is in the state of the reference after the bytes parsed
so far, or has handled an empty packet that the reference handles with the next byte
(`ParserInv`). The proof has the induction over bytes that this needs: `Induction` for
sets of numbers (from the library's `WFMin`), `StatesExist` for the recursive
definition of `ByteStates`, and with them `Search` and `Copy`, which say that `memchr` and `memcpy`
do what the reference does in as many steps. For this theorem `decode_pkt` is not looked
into, and the bytes may be any, as a stream may be noise.

`FramesGiveTheirValues` is about the whole path, from the frames the firmware means to
send to what is printed, injected in OML or sent to the client: any number of frames of
every kind, with lost ones, empty packets and noise between them, in reads of any size.
Its argument, in the order of the module:

* `Holds(s, at, t)` (s has t at an offset) and `Joins(F, s)` (F has the partial
  concatenations of s) replace reasoning about nested concatenations; `FlattenJoins` shows that
  `FlattenSeq` is the last of them, for any sequences;
* one packet: a buffer that begins with the payload of a frame, whatever follows in it from
  longer packets before, decodes to what the frame means. `SniffGives`, `RadioGives`,
  `ConsGives`, `AckGives`, `AnswerGives` and `ErrorGives` are the cases, `FrameGives` joins them; `WordSum`
  (four bytes make the number again), `TimeNormal` (the seconds carried are those of the
  exact time) and `HandlerReads` (the offsets of the values present, for each of the
  layouts) are their arithmetic. `ConsDropped` and `ConsKept`: the length test
  accepts consumption measures exactly if there are as many values as in the layout received;
* an empty packet: `EmptyGives` looks at what `decode_pkt` does with length 0 and the buffer
  of any other packet, `EmptyMeant` at the layout that is then in force;
* the frames, one after the other: after i frames the parser is `AtRest`, or `Waits`
  for a byte with which to handle an empty packet; the buffer holds the last
  payload (`Held`), the layout is that of the last acknowledgement received (`LayoutNext`), and
  the outputs are what the first i frames mean (`Said`). `NoiseRead`,
  `EmptyRead`, `PacketRead` and `SilentRead` are the steps, `AllRead` the induction;
* `ParserGives` carries this over to `serial.c` with `ChunkInv`.

The proof corrected the property: an empty packet that is followed only by lost frames
or by noise without bytes is not handled either, so `Meant` asks whether a byte follows and not
whether a frame does. `MCPackets` has such a stream now.

**Only model-checked**: all liveness properties (`RequestsAnswered`, `StopCompletes`,
`CallsReturn`, `StopReturns`, `BootWaitEnds`), as fairness is beyond the
prover. Every other property of the passing runs is proved.

## Not modelled

* what two `control_node_serial` programs on one tty read and write; that there are two is
  in `GatewayManager`;
* a sniffer client that does not read: `send` then blocks in the kernel, and no
  fairness of the code's makes it return;
* the same user and experiment id started again before an expired Timer of the
  first run gets the lock: the code compares identities only;
* the commands of the auto tests (`test_*`, `config_radio_pp`) and the single tests, which
  are modelled by their results; the auto tests' own socket
  (`node_connection.py`), used by one thread;
* the start of `lora_pkt_fwd` in the constructor of the LoRa gateway, and the ssh
  session to a Linux node;
* HTTP and JSON parsing, board configuration and the ELF check (read once, their
  results are arguments of requests), logging, the OML output, tty settings, udev
  rules and init scripts, command line tools, and the firmware itself.
