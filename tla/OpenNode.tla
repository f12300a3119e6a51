------------------------------ MODULE OpenNode ------------------------------
(***************************************************************************)
(* The open node classes and the tools they program a node with: OpenOCD   *)
(* nodes (plain, with a J-Link tty or with a serial input to clear), EDBG, *)
(* Zigduino, Leonardo, Firefly and Pycom nodes, the LoRa gateway, the      *)
(* RTL-SDR and nodes without anything to do.                               *)
(*                                                                         *)
(* Methods run one at a time under the manager's lock, so each is one      *)
(* action, made of steps with several outcomes: a step maps a state of the *)
(* node to the set of states it may lead to, and Then goes on with the     *)
(* next step unless one has raised.  auto_tests is one method of several   *)
(* calls of the node, and keeps the lock between them.  A request's file   *)
(* exists before and after the method it is for, without the lock.         *)
(***************************************************************************)
EXTENDS Integers, FiniteSets

CONSTANTS
  Kinds,     \* the classes to consider
  StaticFw,  \* firmwares of the gateway, the idle one included
  UserFw     \* firmwares of requests: files that end with their request

None == "none"  \* no firmware, no file or no exception

OpenocdKinds == {"openocd", "jlink", "dirty"}
NoKinds == {"lora_gw", "rtl_sdr", "no"}

ASSUME KindsAssumption ==
  Kinds \subseteq OpenocdKinds \cup NoKinds
                    \cup {"edbg", "zigduino", "leonardo", "firefly", "pycom"}
ASSUME FwAssumption ==
  /\ {"idle", "autotest"} \subseteq StaticFw /\ StaticFw \cap UserFw = {}
  /\ None \notin StaticFw \cup UserFw

VARIABLES
  kind,         \* the class of the node
  phase,        \* whether an experiment has been set up
  testing,      \* whether auto_tests runs, and has set the node up
  uploads,      \* of each request's file: closed, waiting for the lock, called
  node,         \* the node, its attributes and its external processes
  last,         \* the last method, the firmware it was given and its result
  failed_fw,    \* ghost: the firmware of the last request, if it failed
  idle_flash,   \* ghost: flashed without an experiment since the last teardown
  tests_left    \* ghost: how tests ended without a teardown since the last one

vars == <<kind, phase, testing, uploads, node, last, failed_fw, idle_flash, tests_left>>

(* The external processes that setup starts. *)
Services ==
  CASE kind = "lora_gw" -> {"mosquitto", "lora_gateway_bridge"}
    [] kind = "rtl_sdr" -> {"rtl_tcp"}
    [] kind = "no" -> {}
    [] OTHER -> {"serial_redirection"}

-----------------------------------------------------------------------------
(* Steps.  ret is 0 or, for any positive sum of return codes, 1; raised     *)
(* names the exception that left the method.                                *)

Fail(n) == [n EXCEPT !.ret = 1]

Then(S, Step(_)) == UNION { IF s.raised # None THEN {s} ELSE Step(s) : s \in S }

(* wait_no_tty's result is not used; wait_tty times out without a tty. *)
wait_tty(n) == {n, Fail(n)}

(* Opening the tty fails without it. *)
OpenSerial(n) == {n, Fail(n)}

(* ExternalProcess.start: its thread is started only once; it may fail to   *)
(* run its program in time.                                                 *)
StartService(n, p) ==
  IF p \in n.up THEN {[n EXCEPT !.raised = "RuntimeError"]}
  ELSE LET s == [n EXCEPT !.up = @ \cup {p}] IN {s, Fail(s)}

StopService(n, p) == {[n EXCEPT !.up = @ \ {p}]}

RedirectionStart(n) == StartService(n, "serial_redirection")
RedirectionStop(n)  == StopService(n, "serial_redirection")

(* abspath raises IOError, which is caught, if there is no such file. *)
Exists(fw) == fw \in StaticFw \/ (fw \in UserFw /\ uploads[fw] # "closed")

(* A programming tool writes the firmware, or fails, or times out, with the *)
(* old firmware still there or not.                                         *)
Program(n, fw) ==
  IF ~Exists(fw) THEN {Fail(n)}
  ELSE {[n EXCEPT !.fw = fw]} \cup {Fail(n), Fail([n EXCEPT !.fw = "broken"])}

-----------------------------------------------------------------------------
(* openocd.py *)

openocd_flash(n, fw) == IF n.debug THEN {Fail(n)} ELSE Program(n, fw)

openocd_reset(n) == IF n.debug THEN {Fail(n)} ELSE {n, Fail(n)}

(* A debugger that is already gone makes terminate fail. *)
openocd_debug_stop(n) ==
  LET s == [n EXCEPT !.debug = FALSE] IN IF n.debug THEN {s, Fail(s)} ELSE {s}

(* The result of the debug_stop inside is not used. *)
openocd_debug_start(n) == {[n EXCEPT !.debug = TRUE]}

-----------------------------------------------------------------------------
(* node_openocd.py *)

node_openocd_flash(n, fw) ==
  Then(openocd_flash(n, fw),
       LAMBDA s : CASE kind = "jlink" -> wait_tty(s)
                    [] kind = "dirty" -> OpenSerial(s)
                    [] OTHER -> {s})

node_openocd_setup(n, fw) ==
  Then(Then(wait_tty(n), LAMBDA s : node_openocd_flash(s, fw)), RedirectionStart)

node_openocd_teardown(n) ==
  Then(Then(Then(wait_tty(n), openocd_debug_stop), RedirectionStop),
       LAMBDA s : node_openocd_flash(s, "idle"))

-----------------------------------------------------------------------------
(* node_edbg.py and edbg.py: _current_fw is set before the flash is tried,  *)
(* and openocd programs the node instead of edbg in debug mode.             *)

edbg_flash(n, fw) == Program(n, fw)

node_edbg_flash(n, fw) ==
  LET s == [n EXCEPT !.current_fw = fw] IN
  IF n.in_debug THEN openocd_flash(s, fw) ELSE edbg_flash(s, fw)

node_edbg_setup(n, fw) ==
  Then(Then(wait_tty([n EXCEPT !.in_debug = FALSE]),
            LAMBDA s : node_edbg_flash(s, fw)),
       RedirectionStart)

(* Mutant: the flag is not reset. *)
DebugStopKeepsFlag(n) == openocd_debug_stop(n)

node_edbg_debug_stop(n) == openocd_debug_stop([n EXCEPT !.in_debug = FALSE])

(* Mutant: the idle firmware is flashed, as flash() does without a path. *)
DebugStartsIdle(n) ==
  LET s == [n EXCEPT !.in_debug = TRUE] IN
  { [t EXCEPT !.debug = TRUE, !.ret = n.ret] : t \in node_edbg_flash(s, "idle") }

(* The result of the flash is not used. *)
node_edbg_debug_start(n) ==
  LET s == [n EXCEPT !.in_debug = TRUE]
      flashed == IF n.current_fw = None THEN {s} ELSE node_edbg_flash(s, n.current_fw)
  IN UNION { openocd_debug_start([t EXCEPT !.ret = n.ret]) : t \in flashed }

node_edbg_teardown(n) ==
  Then(Then(Then(wait_tty([n EXCEPT !.in_debug = FALSE]), node_edbg_debug_stop),
            RedirectionStop),
       LAMBDA s : node_edbg_flash(s, "idle"))

-----------------------------------------------------------------------------
(* node_zigduino.py, node_leonardo.py and avrdude.py *)

avrdude_flash(n, fw) == Program(n, fw)

(* The tty is opened a second time, without a handler. *)
disable_dtr(n) == {n, Fail(n), [n EXCEPT !.raised = "IOError"]}

zigduino_do_flash(n, fw, redirect) ==
  LET stopped == IF redirect THEN Then(wait_tty(n), RedirectionStop) ELSE wait_tty(n)
      flashed == Then(Then(stopped, LAMBDA s : avrdude_flash(s, fw)), wait_tty)
  IN IF redirect THEN Then(Then(flashed, disable_dtr), RedirectionStart) ELSE flashed

(* Mutant: a refused flash has already stopped the redirection. *)
FlashStopsFirst(n, fw, binary, offset) ==
  IF binary \/ offset # 0 THEN { Fail(s) : s \in RedirectionStop(n) }
  ELSE zigduino_do_flash(n, fw, TRUE)

zigduino_flash(n, fw, binary, offset) ==
  IF binary \/ offset # 0 THEN {Fail(n)} ELSE zigduino_do_flash(n, fw, TRUE)

(* Mutant: flash is called as it is outside setup. *)
SetupRedirects(n, fw) ==
  Then(Then(Then(wait_tty(n), LAMBDA s : zigduino_do_flash(s, fw, TRUE)),
            disable_dtr),
       RedirectionStart)

zigduino_setup(n, fw) ==
  Then(Then(Then(wait_tty(n), LAMBDA s : zigduino_do_flash(s, fw, FALSE)),
            disable_dtr),
       RedirectionStart)

zigduino_teardown(n) ==
  Then(Then(Then(wait_tty(n), RedirectionStop), wait_tty),
       LAMBDA s : zigduino_do_flash(s, "idle", FALSE))

zigduino_reset(n) == {Fail(n)} \cup wait_tty(n)

(* A failure leaves the node as it was. *)
trigger_bootloader(n) == {n, Fail(n)}

(* Mutant: a bootloader that does not come is ignored. *)
FlashIgnoresBootloader(n, fw, binary, offset) ==
  { n } \cup
  ( IF binary \/ offset # 0 THEN {Fail(n)}
    ELSE Then(avrdude_flash(n, fw), wait_tty) )

(* The bootloader is triggered before anything is refused. *)
leonardo_flash(n, fw, binary, offset) ==
  { Fail(n) } \cup
  ( IF binary \/ offset # 0 THEN {Fail(n)}
    ELSE Then(avrdude_flash(n, fw), wait_tty) )

leonardo_setup(n, fw) ==
  Then(Then(wait_tty(n), LAMBDA s : leonardo_flash(s, fw, FALSE, 0)), RedirectionStart)

leonardo_teardown(n) ==
  Then(Then(wait_tty(n), RedirectionStop),
       LAMBDA s : leonardo_flash(s, "idle", FALSE, 0))

leonardo_reset(n) == Then(trigger_bootloader(n), wait_tty)

-----------------------------------------------------------------------------
(* node_firefly.py and cc2538.py *)

(* get_elf_load_addr finds no address in a firmware without code, and the   *)
(* command cannot be formatted with None.  The gateway's own firmwares have *)
(* code.                                                                    *)
cc2538_flash(n, fw) ==
  Program(n, fw) \cup
  ( IF fw \in UserFw /\ Exists(fw) THEN {[n EXCEPT !.raised = "ValueError"]} ELSE {} )

cc2538_reset(n) == {n, Fail(n)}

firefly_do_flash(n, fw, toggle_redirect) ==
  LET flashed == Then(IF toggle_redirect THEN RedirectionStop(n) ELSE {n},
                      LAMBDA s : cc2538_flash(s, fw))
  IN IF toggle_redirect THEN Then(flashed, RedirectionStart) ELSE flashed

firefly_flash(n, fw, binary, offset) ==
  IF binary \/ offset # 0 THEN {Fail(n)} ELSE firefly_do_flash(n, fw, TRUE)

firefly_setup(n, fw) ==
  Then(Then(wait_tty(n), LAMBDA s : firefly_do_flash(s, fw, FALSE)), RedirectionStart)

firefly_teardown(n) ==
  Then(Then(wait_tty(n), RedirectionStop),
       LAMBDA s : firefly_do_flash(s, "idle", FALSE))

-----------------------------------------------------------------------------
(* Nodes without a programmer *)

(* node_pycom.py: erasing the flash is what idle means for such a node. *)
send_sequence(n) == OpenSerial(n)
Erase(n) == {[n EXCEPT !.fw = "idle"], Fail(n)}

pycom_setup(n) ==
  Then(Then(Then(Then(wait_tty(n), send_sequence), Erase), send_sequence), RedirectionStart)

pycom_teardown(n) == Then(Then(send_sequence(n), Erase), RedirectionStop)

(* node_lora_gateway.py, node_rtl_sdr.py *)
lora_gw_setup(n) ==
  Then(StartService(n, "mosquitto"), LAMBDA s : StartService(s, "lora_gateway_bridge"))

lora_gw_teardown(n) ==
  Then(StopService(n, "lora_gateway_bridge"), LAMBDA s : StopService(s, "mosquitto"))

ykush(n) == {n, Fail(n)}

rtl_sdr_setup(n) == Then(ykush(n), LAMBDA s : StartService(s, "rtl_tcp"))
rtl_sdr_teardown(n) == Then(StopService(n, "rtl_tcp"), ykush)

-----------------------------------------------------------------------------
(* The methods of the class *)

setup(n, fw) ==
  CASE kind \in OpenocdKinds -> node_openocd_setup(n, fw)
    [] kind = "edbg" -> node_edbg_setup(n, fw)
    [] kind = "zigduino" -> zigduino_setup(n, fw)
    [] kind = "leonardo" -> leonardo_setup(n, fw)
    [] kind = "firefly" -> firefly_setup(n, fw)
    [] kind = "pycom" -> pycom_setup(n)
    [] kind = "lora_gw" -> lora_gw_setup(n)
    [] kind = "rtl_sdr" -> rtl_sdr_setup(n)
    [] kind = "no" -> {n}

teardown(n) ==
  CASE kind \in OpenocdKinds -> node_openocd_teardown(n)
    [] kind = "edbg" -> node_edbg_teardown(n)
    [] kind = "zigduino" -> zigduino_teardown(n)
    [] kind = "leonardo" -> leonardo_teardown(n)
    [] kind = "firefly" -> firefly_teardown(n)
    [] kind = "pycom" -> pycom_teardown(n)
    [] kind = "lora_gw" -> lora_gw_teardown(n)
    [] kind = "rtl_sdr" -> rtl_sdr_teardown(n)
    [] kind = "no" -> {n}

(* The offset only matters where it is refused. *)
flash(n, fw, binary, offset) ==
  CASE kind \in OpenocdKinds -> node_openocd_flash(n, fw)
    [] kind = "edbg" -> node_edbg_flash(n, fw)
    [] kind = "zigduino" -> zigduino_flash(n, fw, binary, offset)
    [] kind = "leonardo" -> leonardo_flash(n, fw, binary, offset)
    [] kind = "firefly" -> firefly_flash(n, fw, binary, offset)
    [] OTHER -> {n}

reset(n) ==
  CASE kind \in OpenocdKinds \cup {"edbg"} -> openocd_reset(n)
    [] kind = "zigduino" -> zigduino_reset(n)
    [] kind = "leonardo" -> leonardo_reset(n)
    [] kind = "firefly" -> cc2538_reset(n)
    [] kind = "pycom" -> send_sequence(n)
    [] OTHER -> {n}

-----------------------------------------------------------------------------
Init ==
  /\ kind \in Kinds
  /\ phase = "idle" /\ testing = "no"
  /\ uploads = [fw \in UserFw |-> "closed"]
  /\ node = [ up |-> {}, fw |-> "unknown", debug |-> FALSE, in_debug |-> FALSE,
              current_fw |-> None, ret |-> 0, raised |-> None ]
  /\ last = [op |-> None, fw |-> None, ret |-> 0, raised |-> None]
  /\ failed_fw = None
  /\ idle_flash = FALSE /\ tests_left = "none"

(* The manager gets the result. *)
Returns(op, fw, outcomes) ==
  \E n \in outcomes :
    /\ node' = [n EXCEPT !.ret = 0, !.raised = None]
    /\ last' = [op |-> op, fw |-> fw, ret |-> n.ret, raised |-> n.raised]
    /\ failed_fw' = IF fw = None THEN failed_fw
                    ELSE IF n.ret # 0 \/ n.raised # None THEN fw ELSE None
    /\ kind' = kind

(* A request saves the firmware it was sent in a file of a new name, ...    *)
Upload(fw) ==
  /\ uploads[fw] = "closed" /\ fw \notin {node.fw, node.current_fw, failed_fw}
  /\ uploads' = [uploads EXCEPT ![fw] = "waiting"]
  /\ UNCHANGED <<kind, phase, testing, node, last, failed_fw, idle_flash, tests_left>>

(* ... calls the manager with it, ...                                       *)
CalledWith(fw) ==
  /\ testing = "no"
  /\ fw \in UserFw => uploads[fw] = "waiting"
  /\ uploads' = [f \in UserFw |-> IF f = fw THEN "called" ELSE uploads[f]]

(* ... and deletes it some time after the call, or without one if the lock  *)
(* was taken or the firmware is for another node.                           *)
CloseFile(fw) ==
  /\ uploads[fw] # "closed"
  /\ uploads' = [uploads EXCEPT ![fw] = "closed"]
  /\ UNCHANGED <<kind, phase, testing, node, last, failed_fw, idle_flash, tests_left>>

Setup(fw) ==
  /\ CalledWith(fw)
  /\ phase = "idle"
  /\ phase' = "experiment"
  /\ Returns("setup", fw, setup(node, fw))
  /\ UNCHANGED <<testing, idle_flash, tests_left>>

Teardown ==
  /\ testing = "no"
  /\ phase = "experiment"
  /\ phase' = "idle"
  /\ Returns("teardown", "idle", teardown(node))
  /\ idle_flash' = FALSE /\ tests_left' = "none"
  /\ UNCHANGED <<testing, uploads>>

Flash(fw, binary, offset) ==
  /\ CalledWith(fw)
  /\ Returns("flash", fw, flash(node, fw, binary, offset))
  /\ idle_flash' = (idle_flash \/ phase = "idle")
  /\ UNCHANGED <<phase, testing, tests_left>>

ResetNode ==
  /\ testing = "no"
  /\ Returns("reset", None, reset(node))
  /\ UNCHANGED <<phase, testing, uploads, idle_flash, tests_left>>

(* The other classes have no such methods. *)
HasDebugger == kind \in OpenocdKinds \cup {"edbg"}

DebugStart ==
  /\ HasDebugger /\ testing = "no"
  /\ Returns("debug_start", None,
             IF kind = "edbg" THEN node_edbg_debug_start(node) ELSE openocd_debug_start(node))
  /\ UNCHANGED <<phase, testing, uploads, idle_flash, tests_left>>

DebugStop ==
  /\ HasDebugger /\ testing = "no"
  /\ Returns("debug_stop", None,
             IF kind = "edbg" THEN node_edbg_debug_stop(node) ELSE openocd_debug_stop(node))
  /\ UNCHANGED <<phase, testing, uploads, idle_flash, tests_left>>

-----------------------------------------------------------------------------
(* auto_tests, which takes no notice of an experiment *)

(* The other classes have no firmware for it. *)
HasAutotest == kind \notin NoKinds \cup {"pycom"}

AutotestBegin ==
  /\ HasAutotest /\ testing = "no"
  /\ testing' = "begun"
  /\ UNCHANGED <<kind, phase, uploads, node, last, failed_fw, idle_flash, tests_left>>

(* _setup_open_node.  An exception of setup ends auto_tests at once. *)
AutotestSetup ==
  /\ testing = "begun"
  /\ Returns("autotest_setup", "autotest", setup(node, "autotest"))
  /\ testing' = IF last'.raised = None THEN "set_up" ELSE "no"
  /\ tests_left' = IF last'.raised = None THEN tests_left ELSE "raised"
  /\ UNCHANGED <<phase, uploads, idle_flash>>

(* Mutant: the redirection is left to the node's teardown. *)
BlinkKeepsRedirection(n, stop) == IF stop THEN teardown(n) ELSE {n}

teardown_open_node(n, stop) ==
  IF stop THEN Then(RedirectionStop(n), teardown) ELSE RedirectionStop(n)

(* With blink, and if all went well, the node stays on with the firmware of *)
(* the tests.  The classes without leds also come here when setting up the  *)
(* control node has failed.                                                 *)
AutotestTeardown(stop) ==
  /\ \/ testing = "set_up" /\ (stop \/ last.ret = 0)
     \/ testing = "begun" /\ stop /\ kind \in {"zigduino", "leonardo"}
  /\ Returns("autotest_teardown", IF stop THEN "idle" ELSE None,
             teardown_open_node(node, stop))
  /\ testing' = "no"
  /\ idle_flash' = (idle_flash /\ ~stop)
  /\ tests_left' = IF stop THEN "none" ELSE "blinked"
  /\ UNCHANGED <<phase, uploads>>

(* Another exception leaves the node as it is: the tests read the serial    *)
(* line, and the leds are set through it, connected or not.                 *)
AutotestRaises ==
  /\ testing # "no"
  /\ testing' = "no"
  /\ tests_left' = IF testing = "set_up" THEN "raised" ELSE tests_left
  /\ UNCHANGED <<kind, phase, uploads, node, last, failed_fw, idle_flash>>

-----------------------------------------------------------------------------
(* common.booleanize: a word stands for one value, or raises ValueError     *)
(* (no value).  Words are taken in lower case.                              *)
booleanize(word) ==
  CASE word \in {"y", "yes", "t", "true", "on", "1"}  -> {TRUE}
    [] word \in {"n", "no", "f", "false", "off", "0"} -> {FALSE}
    [] OTHER -> {}

(* The words a request may give as its flag; "" when it gives none. *)
FlagWords == {"", "yes", "0", "maybe"}

(* A word that is no flag ends the request before its file is made. *)
FlashRequest(fw, word, offset) ==
  \E binary \in IF word = "" THEN {FALSE} ELSE booleanize(word) :
    Flash(fw, binary, offset)

Next ==
  \/ \E fw \in StaticFw : Flash(fw, FALSE, 0)
  \/ \E fw \in UserFw, word \in FlagWords, offset \in {0, 1} :
       FlashRequest(fw, word, offset)
  \/ \E fw \in StaticFw \cup UserFw : Setup(fw)
  \/ Teardown \/ ResetNode \/ DebugStart \/ DebugStop
  \/ AutotestBegin \/ AutotestSetup \/ AutotestRaises
  \/ \E stop \in BOOLEAN : AutotestTeardown(stop)
  \/ \E fw \in UserFw : Upload(fw) \/ CloseFile(fw)

Spec == Init /\ [][Next]_vars

-----------------------------------------------------------------------------
(* Properties *)

Succeeded(op) == last.op = op /\ last.ret = 0 /\ last.raised = None

(* A setup, flash or teardown that returns 0 leaves the node with the       *)
(* firmware it was asked for, and setup with its processes running and      *)
(* teardown with none of them, whatever the order of the calls before and   *)
(* with a debugger left running; the setup and the teardown of auto_tests   *)
(* too.                                                                     *)
ZeroMeansDone ==
  /\ kind \notin NoKinds \cup {"pycom"} =>
       \A op \in {"setup", "flash", "teardown", "autotest_setup"} :
         Succeeded(op) => node.fw = last.fw
  /\ Succeeded("setup") \/ Succeeded("autotest_setup") => node.up = Services
  /\ last.op \in {"teardown", "autotest_teardown"} /\ last.raised = None => node.up = {}
  /\ last.op = "teardown" /\ last.raised = None => ~node.debug

(* An experiment keeps its processes through any flash, reset or debug,     *)
(* failed or refused ones included, unless one raised (disable_dtr without  *)
(* the tty, or a Firefly's firmware without code) or auto_tests took the    *)
(* node from it.                                                            *)
ExperimentKeepsRedirection ==
  [][phase = "experiment" /\ phase' = "experiment" /\ node.up = Services
       /\ node'.up # Services =>
         \/ last'.op = "flash" /\ last'.raised \in {"IOError", "ValueError"}
         \/ last'.op = "autotest_teardown"]_vars

(* Without an experiment and without tests no process runs, unless a        *)
(* Zigduino or a Firefly was flashed without an experiment, as their flash  *)
(* starts the redirection, running before or not (node_zigduino.py:157 says *)
(* "Finally restore serial redirection"), or auto_tests raised.             *)
IdleRunsNothing ==
  phase = "idle" /\ testing = "no" /\ node.up # {} =>
    (idle_flash /\ kind \in {"zigduino", "firefly"}) \/ tests_left = "raised"

(* Thread.start raises RuntimeError for a process that was started before.  *)
(* Only setup does that: of an experiment, after a flash without one or     *)
(* tests that raised; of auto_tests, also during an experiment.             *)
OnlySetupStartsTwice ==
  [][last' # last /\ last'.raised = "RuntimeError" =>
       \/ last'.op = "setup" /\ (idle_flash \/ tests_left = "raised")
       \/ last'.op = "autotest_setup"
            /\ (idle_flash \/ tests_left = "raised" \/ phase = "experiment")]_vars

(* The two debug flags of an EDBG node differ only in an experiment that    *)
(* was set up with the debugger running, or in auto_tests or after them if  *)
(* they left the node on; a node is never flashed by openocd for a debugger *)
(* that is not there.                                                       *)
DebugFlagsAgree ==
  /\ node.in_debug => node.debug
  /\ kind = "edbg" /\ node.debug /\ ~node.in_debug =>
       phase = "experiment" \/ testing = "set_up" \/ tests_left # "none"

(* Starting the debugger of an EDBG node reflashes _current_fw.  On a node  *)
(* that works this fails half way or changes nothing, unless the last       *)
(* requested flash had failed: debug_start then does what was refused.  A   *)
(* user's firmware is flashed so only by a debug_start between the end of   *)
(* the call and the end of its request, which deletes the file.             *)
DebugStartKeepsFirmware ==
  [][last'.op = "debug_start" /\ node'.fw # node.fw =>
       /\ kind = "edbg"
       /\ node.fw = "broken" \/ node'.fw \in {"broken", failed_fw}
       /\ \/ node.current_fw \in StaticFw
          \/ node.current_fw \in UserFw /\ uploads[node.current_fw] = "called"]_vars
=============================================================================
