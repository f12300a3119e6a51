--------------------------- MODULE OpenNodeProofs ---------------------------
(***************************************************************************)
(* Proofs about the open node classes: what a method that returns 0 has    *)
(* done, which processes run when, and how the debug flags and the         *)
(* firmware to debug follow the node, for every set of firmwares.          *)
(*                                                                         *)
(* Each method is a chain of steps joined by Then.  The first lemmas say   *)
(* what one step changes, the next ones follow the chain of each class,    *)
(* and one lemma per method of the interface sums the classes up.  The     *)
(* invariance proof uses only those summaries.                             *)
(***************************************************************************)
EXTENDS OpenNode, TLAPS

Processes == {"serial_redirection", "mosquitto", "lora_gateway_bridge", "rtl_tcp"}
Firmwares == StaticFw \cup UserFw \cup {None, "unknown", "broken"}

Nodes ==
  [ up : SUBSET Processes, fw : Firmwares, debug : BOOLEAN, in_debug : BOOLEAN,
    current_fw : Firmwares, ret : {0, 1},
    raised : {None, "RuntimeError", "IOError", "ValueError"} ]

(* Classes that flash the firmware they are given. *)
Programmed == Kinds \ (NoKinds \cup {"pycom"})

-----------------------------------------------------------------------------
(* What steps do *)

(* No step but those of the debugger touches its flags; none takes back a   *)
(* failure.                                                                 *)
Kept(n, s) ==
  /\ s \in Nodes
  /\ s.debug = n.debug /\ s.in_debug = n.in_debug
  /\ s.ret = 0 => n.ret = 0

(* Only the result changes. *)
Quiet(n, s) ==
  /\ Kept(n, s)
  /\ s.up = n.up /\ s.fw = n.fw /\ s.current_fw = n.current_fw /\ s.raised = n.raised

(* A firmware was written, or that failed. *)
Wrote(n, fw, s) ==
  /\ Kept(n, s)
  /\ s.up = n.up /\ s.current_fw = n.current_fw /\ s.raised = n.raised
  /\ s.fw \in {n.fw, fw, "broken"}
  /\ s.fw # n.fw => Exists(fw)
  /\ s.ret = 0 => s.fw = fw

(* A process was started, unless it was running already. *)
Launched(n, p, s) ==
  /\ Kept(n, s)
  /\ s.fw = n.fw /\ s.current_fw = n.current_fw
  /\ s.up = n.up \cup {p}
  /\ s.raised = IF p \in n.up THEN "RuntimeError" ELSE n.raised

(* Failing is quiet. *)
LEMMA FailIsQuiet ==
  ASSUME NEW n \in Nodes
  PROVE  Quiet(n, Fail(n)) /\ Fail(n).ret = 1
BY DEF Fail, Nodes, Quiet, Kept

(* So is every step that succeeds or fails without an effect of its own.    *)
LEMMA TriesAreQuiet ==
  ASSUME NEW n \in Nodes, NEW s \in {n, Fail(n)}
  PROVE  Quiet(n, s)
BY FailIsQuiet DEF Quiet, Kept

(* What an assignment of the firmware leaves alone. *)
LEMMA WriteKeeps ==
  ASSUME NEW n \in Nodes, NEW w \in Firmwares, NEW s, s = [n EXCEPT !.fw = w]
  PROVE  /\ Kept(n, s) /\ s.ret = n.ret /\ s.fw = w
         /\ s.up = n.up /\ s.current_fw = n.current_fw /\ s.raised = n.raised
BY DEF Nodes, Kept

(* A programming tool writes the firmware if it succeeds. *)
LEMMA ProgramWrites ==
  ASSUME NEW n \in Nodes, NEW fw \in Firmwares, NEW s \in Program(n, fw)
  PROVE  Wrote(n, fw, s)
<1> DEFINE w == [n EXCEPT !.fw = fw]
           b == [n EXCEPT !.fw = "broken"]
<1>1. s = Fail(n) \/ (Exists(fw) /\ s \in {w, Fail(b)})
  BY DEF Program
<1>2. "broken" \in Firmwares
  BY DEF Firmwares
<1>3. /\ Kept(n, w) /\ w.ret = n.ret /\ w.fw = fw
      /\ w.up = n.up /\ w.current_fw = n.current_fw /\ w.raised = n.raised
  BY WriteKeeps
<1>4. /\ Kept(n, b) /\ b.ret = n.ret /\ b.fw = "broken"
      /\ b.up = n.up /\ b.current_fw = n.current_fw /\ b.raised = n.raised
  BY <1>2, WriteKeeps
<1> HIDE DEF w, b
<1>5. QED
  BY <1>1, <1>3, <1>4, FailIsQuiet DEF Wrote, Quiet, Kept

(* Starting a process runs it, or raises because its thread was started.    *)
LEMMA StartLaunches ==
  ASSUME NEW n \in Nodes, n.raised = None, NEW p \in Processes, NEW s \in StartService(n, p)
  PROVE  Launched(n, p, s)
<1>1. CASE p \in n.up
  <2>1. s = [n EXCEPT !.raised = "RuntimeError"]
    BY <1>1 DEF StartService
  <2>2. QED
    BY <1>1, <2>1 DEF Nodes, Launched, Kept
<1>2. CASE p \notin n.up
  <2> DEFINE u == [n EXCEPT !.up = @ \cup {p}]
  <2>1. s \in {u, Fail(u)}
    BY <1>2 DEF StartService
  <2>2. n.up \cup {p} \in SUBSET Processes
    BY DEF Nodes
  <2>3. Launched(n, p, u)
    BY <1>2, <2>2 DEF Nodes, Launched, Kept
  <2> HIDE DEF u
  <2>4. QED
    BY <2>1, <2>3, FailIsQuiet DEF Launched, Quiet, Kept
<1>3. QED
  BY <1>1, <1>2

(* Stopping a process only takes it down. *)
LEMMA StopTakesDown ==
  ASSUME NEW n \in Nodes, NEW p, NEW s \in StopService(n, p)
  PROVE  /\ Kept(n, s) /\ s.fw = n.fw /\ s.current_fw = n.current_fw
         /\ s.raised = n.raised /\ s.up = n.up \ {p}
<1>1. n.up \ {p} \in SUBSET Processes
  BY DEF Nodes
<1>2. QED
  BY <1>1 DEF StopService, Nodes, Kept

(* Where Then goes on from one state. *)
After(s, S) == IF s.raised # None THEN {s} ELSE S

-----------------------------------------------------------------------------
(* What methods come to, for a class whose processes are in S. *)

Redirection == {"serial_redirection"}

SetUp(n, S, t) ==
  /\ t \in Nodes /\ t.debug = n.debug
  /\ n.up \subseteq t.up /\ t.up \subseteq S
  /\ t.raised = None => t.up = S
  /\ t.raised = "RuntimeError" => n.up # {}

TornDown(n, t) ==
  /\ t \in Nodes /\ t.up = {} /\ t.raised = None

-----------------------------------------------------------------------------
(* OpenOCD nodes *)

(* An OpenOCD node is flashed, and its tty comes back or not. *)
LEMMA OpenocdFlash ==
  ASSUME NEW n \in Nodes, n.raised = None, NEW fw \in Firmwares,
         NEW t \in node_openocd_flash(n, fw)
  PROVE  Wrote(n, fw, t)
<1>1. PICK s \in openocd_flash(n, fw) :
        t \in After(s, CASE kind = "jlink" -> wait_tty(s)
                         [] kind = "dirty" -> OpenSerial(s)
                         [] OTHER -> {s})
  BY Zenon DEF node_openocd_flash, Then, After
<1>2. t \in {s, Fail(s)}
  BY <1>1 DEF After, wait_tty, OpenSerial
<1>3. Wrote(n, fw, s)
  BY ProgramWrites, FailIsQuiet DEF openocd_flash, Wrote, Quiet, Kept
<1>4. QED
  BY <1>2, <1>3, FailIsQuiet DEF Wrote, Quiet, Kept

(* Stopping the debugger clears the flag, and only that. *)
LEMMA DebuggerStops ==
  ASSUME NEW n \in Nodes, NEW s \in openocd_debug_stop(n)
  PROVE  /\ s \in Nodes /\ ~s.debug /\ s.in_debug = n.in_debug
         /\ s.up = n.up /\ s.fw = n.fw /\ s.current_fw = n.current_fw
         /\ s.raised = n.raised /\ (s.ret = 0 => n.ret = 0)
<1> DEFINE d == [n EXCEPT !.debug = FALSE]
<1>1. s \in {d, Fail(d)}
  BY DEF openocd_debug_stop
<1>2. /\ d \in Nodes /\ d.debug = FALSE /\ d.in_debug = n.in_debug
      /\ d.up = n.up /\ d.fw = n.fw /\ d.current_fw = n.current_fw
      /\ d.raised = n.raised /\ d.ret = n.ret
  BY DEF Nodes
<1> HIDE DEF d
<1>3. QED
  BY <1>1, <1>2, FailIsQuiet DEF Quiet, Kept

LEMMA OpenocdSetup ==
  ASSUME NEW n \in Nodes, n.raised = None, n.up \subseteq Redirection,
         NEW fw \in Firmwares, NEW t \in node_openocd_setup(n, fw)
  PROVE  SetUp(n, Redirection, t) /\ t.in_debug = n.in_debug /\ (t.ret = 0 => t.fw = fw)
<1>1. PICK b \in Then(wait_tty(n), LAMBDA s : node_openocd_flash(s, fw)) :
        t \in After(b, RedirectionStart(b))
  BY Zenon DEF node_openocd_setup, Then, After
<1>2. PICK a \in wait_tty(n) : b \in After(a, node_openocd_flash(a, fw))
  BY Zenon DEF Then, After
<1>3. Quiet(n, a)
  BY TriesAreQuiet DEF wait_tty
<1>4. Wrote(a, fw, b)
  BY <1>2, <1>3, OpenocdFlash DEF After, Quiet, Kept
<1>5. Launched(b, "serial_redirection", t)
  BY <1>1, <1>3, <1>4, StartLaunches DEF After, RedirectionStart, Quiet, Wrote, Kept, Processes
<1>6. QED
  BY <1>3, <1>4, <1>5 DEF SetUp, Redirection, Quiet, Wrote, Launched, Kept, None

LEMMA OpenocdTeardown ==
  ASSUME NEW n \in Nodes, n.raised = None, n.up \subseteq Redirection,
         NEW t \in node_openocd_teardown(n)
  PROVE  /\ TornDown(n, t) /\ ~t.debug /\ t.in_debug = n.in_debug
         /\ t.ret = 0 => t.fw = "idle"
<1>1. PICK c \in Then(Then(wait_tty(n), openocd_debug_stop), RedirectionStop) :
        t \in After(c, node_openocd_flash(c, "idle"))
  BY Zenon DEF node_openocd_teardown, Then, After
<1>2. PICK b \in Then(wait_tty(n), openocd_debug_stop) : c \in After(b, RedirectionStop(b))
  BY Zenon DEF Then, After
<1>3. PICK a \in wait_tty(n) : b \in After(a, openocd_debug_stop(a))
  BY Zenon DEF Then, After
<1>4. Quiet(n, a)
  BY TriesAreQuiet DEF wait_tty
<1>5. /\ b \in Nodes /\ ~b.debug /\ b.in_debug = n.in_debug /\ b.up = n.up
      /\ b.raised = None
  BY <1>3, <1>4, DebuggerStops DEF After, Quiet, Kept
<1>6. /\ Kept(b, c) /\ c.raised = None /\ c.up = b.up \ {"serial_redirection"}
  BY <1>2, <1>5, StopTakesDown DEF After, RedirectionStop
<1>7. "idle" \in Firmwares
  BY FwAssumption DEF Firmwares
<1>8. Wrote(c, "idle", t)
  BY <1>1, <1>6, <1>7, OpenocdFlash DEF After, Kept
<1>9. QED
  BY <1>5, <1>6, <1>8 DEF TornDown, Redirection, Wrote, Kept

-----------------------------------------------------------------------------
(* EDBG nodes *)

(* The firmware is noted even if it cannot be flashed. *)
LEMMA EdbgFlash ==
  ASSUME NEW n \in Nodes, n.raised = None, NEW fw \in Firmwares,
         NEW t \in node_edbg_flash(n, fw)
  PROVE  /\ Kept(n, t) /\ t.up = n.up /\ t.raised = None /\ t.current_fw = fw
         /\ t.fw \in {n.fw, fw, "broken"}
         /\ t.fw # n.fw => Exists(fw)
         /\ t.ret = 0 => t.fw = fw
<1> DEFINE s == [n EXCEPT !.current_fw = fw]
<1>1. /\ Kept(n, s) /\ s.ret = n.ret /\ s.up = n.up /\ s.fw = n.fw
      /\ s.raised = n.raised /\ s.current_fw = fw
  BY DEF Nodes, Kept
<1>2. t \in Program(s, fw) \/ t = Fail(s)
  BY DEF node_edbg_flash, openocd_flash, edbg_flash
<1> HIDE DEF s
<1>3. s \in Nodes
  BY <1>1 DEF Kept
<1>4. CASE t \in Program(s, fw)
  <2>1. Wrote(s, fw, t)
    BY <1>3, <1>4, ProgramWrites
  <2>2. QED
    BY <1>1, <1>3, <2>1 DEF Wrote, Kept
<1>5. CASE t = Fail(s)
  <2>1. Quiet(s, t) /\ t.ret = 1
    BY <1>3, <1>5, FailIsQuiet
  <2>2. QED
    BY <1>1, <2>1 DEF Quiet, Kept
<1>6. QED
  BY <1>2, <1>4, <1>5

(* What leaving debug mode leaves alone. *)
LEMMA ModeKeeps ==
  ASSUME NEW n \in Nodes, NEW b \in BOOLEAN, NEW s, s = [n EXCEPT !.in_debug = b]
  PROVE  /\ s \in Nodes /\ s.in_debug = b /\ s.debug = n.debug
         /\ s.up = n.up /\ s.fw = n.fw /\ s.current_fw = n.current_fw
         /\ s.raised = n.raised /\ s.ret = n.ret
BY DEF Nodes

LEMMA EdbgSetup ==
  ASSUME NEW n \in Nodes, n.raised = None, n.up \subseteq Redirection,
         NEW fw \in Firmwares, NEW t \in node_edbg_setup(n, fw)
  PROVE  /\ SetUp(n, Redirection, t) /\ ~t.in_debug /\ t.current_fw = fw
         /\ t.ret = 0 => t.fw = fw
<1> DEFINE m == [n EXCEPT !.in_debug = FALSE]
<1>1. PICK b \in Then(wait_tty(m), LAMBDA s : node_edbg_flash(s, fw)) :
        t \in After(b, RedirectionStart(b))
  BY Zenon DEF node_edbg_setup, Then, After
<1>2. PICK a \in wait_tty(m) : b \in After(a, node_edbg_flash(a, fw))
  BY Zenon DEF Then, After
<1>3. /\ m \in Nodes /\ m.in_debug = FALSE /\ m.debug = n.debug
      /\ m.up = n.up /\ m.raised = None
  BY ModeKeeps
<1> HIDE DEF m
<1>4. Quiet(m, a)
  BY <1>3, TriesAreQuiet DEF wait_tty
<1>5. /\ Kept(a, b) /\ b.up = a.up /\ b.raised = None /\ b.current_fw = fw
      /\ b.ret = 0 => b.fw = fw
  BY <1>2, <1>3, <1>4, EdbgFlash DEF After, Quiet, Kept
<1>6. Launched(b, "serial_redirection", t)
  BY <1>1, <1>5, StartLaunches DEF After, RedirectionStart, Kept, Processes
<1>7. QED
  BY <1>3, <1>4, <1>5, <1>6 DEF SetUp, Redirection, Quiet, Launched, Kept, None

LEMMA EdbgDebugStop ==
  ASSUME NEW n \in Nodes, NEW s \in node_edbg_debug_stop(n)
  PROVE  /\ s \in Nodes /\ ~s.debug /\ ~s.in_debug
         /\ s.up = n.up /\ s.fw = n.fw /\ s.current_fw = n.current_fw
         /\ s.raised = n.raised
<1> DEFINE m == [n EXCEPT !.in_debug = FALSE]
<1>1. s \in openocd_debug_stop(m)
  BY DEF node_edbg_debug_stop
<1>2. /\ m \in Nodes /\ m.in_debug = FALSE /\ m.up = n.up /\ m.fw = n.fw
      /\ m.current_fw = n.current_fw /\ m.raised = n.raised
  BY ModeKeeps
<1> HIDE DEF m
<1>3. QED
  BY <1>1, <1>2, DebuggerStops

LEMMA EdbgTeardown ==
  ASSUME NEW n \in Nodes, n.raised = None, n.up \subseteq Redirection,
         NEW t \in node_edbg_teardown(n)
  PROVE  /\ TornDown(n, t) /\ ~t.debug /\ ~t.in_debug /\ t.current_fw = "idle"
         /\ t.ret = 0 => t.fw = "idle"
<1> DEFINE m == [n EXCEPT !.in_debug = FALSE]
<1>1. PICK c \in Then(Then(wait_tty(m), node_edbg_debug_stop), RedirectionStop) :
        t \in After(c, node_edbg_flash(c, "idle"))
  BY Zenon DEF node_edbg_teardown, Then, After
<1>2. PICK b \in Then(wait_tty(m), node_edbg_debug_stop) : c \in After(b, RedirectionStop(b))
  BY Zenon DEF Then, After
<1>3. PICK a \in wait_tty(m) : b \in After(a, node_edbg_debug_stop(a))
  BY Zenon DEF Then, After
<1>4. m \in Nodes /\ m.up = n.up /\ m.raised = None
  BY ModeKeeps
<1> HIDE DEF m
<1>5. Quiet(m, a)
  BY <1>4, TriesAreQuiet DEF wait_tty
<1>6. b \in Nodes /\ ~b.debug /\ ~b.in_debug /\ b.up = n.up /\ b.raised = None
  BY <1>3, <1>4, <1>5, EdbgDebugStop DEF After, Quiet, Kept
<1>7. /\ Kept(b, c) /\ c.raised = None /\ c.up = b.up \ {"serial_redirection"}
  BY <1>2, <1>6, StopTakesDown DEF After, RedirectionStop
<1>8. "idle" \in Firmwares
  BY FwAssumption DEF Firmwares
<1>9. /\ Kept(c, t) /\ t.up = c.up /\ t.raised = None /\ t.current_fw = "idle"
      /\ t.ret = 0 => t.fw = "idle"
  BY <1>1, <1>7, <1>8, EdbgFlash DEF After, Kept
<1>10. QED
  BY <1>6, <1>7, <1>9 DEF TornDown, Redirection, Kept

(* Starting the debugger flashes the noted firmware, if its file is there,  *)
(* and whatever comes of it the debugger runs.                              *)
LEMMA EdbgDebugStart ==
  ASSUME NEW n \in Nodes, n.raised = None, NEW t \in node_edbg_debug_start(n)
  PROVE  /\ t \in Nodes /\ t.debug /\ t.in_debug
         /\ t.up = n.up /\ t.current_fw = n.current_fw /\ t.raised = None
         /\ t.fw \in {n.fw, n.current_fw, "broken"}
         /\ t.fw # n.fw => n.current_fw # None /\ Exists(n.current_fw)
<1> DEFINE m == [n EXCEPT !.in_debug = TRUE]
<1>1. PICK s \in IF n.current_fw = None THEN {m} ELSE node_edbg_flash(m, n.current_fw) :
        t = [[s EXCEPT !.ret = n.ret] EXCEPT !.debug = TRUE]
  BY DEF node_edbg_debug_start, openocd_debug_start
<1>2. /\ m \in Nodes /\ m.in_debug = TRUE /\ m.up = n.up /\ m.fw = n.fw
      /\ m.current_fw = n.current_fw /\ m.raised = None
  BY ModeKeeps
<1> HIDE DEF m
<1>3. n.current_fw \in Firmwares /\ n.ret \in {0, 1}
  BY DEF Nodes
<1>4. /\ s \in Nodes /\ s.in_debug = TRUE /\ s.up = n.up /\ s.current_fw = n.current_fw
      /\ s.raised = None /\ s.fw \in {n.fw, n.current_fw, "broken"}
      /\ s.fw # n.fw => n.current_fw # None /\ Exists(n.current_fw)
  <2>1. CASE n.current_fw = None
    BY <1>1, <1>2, <2>1
  <2>2. CASE n.current_fw # None
    <3>1. s \in node_edbg_flash(m, n.current_fw)
      BY <1>1, <2>2
    <3>2. QED
      BY <1>2, <1>3, <2>2, <3>1, EdbgFlash DEF Kept
  <2>3. QED
    BY <2>1, <2>2
<1>5. /\ t \in Nodes /\ t.debug = TRUE /\ t.in_debug = s.in_debug /\ t.up = s.up
      /\ t.current_fw = s.current_fw /\ t.raised = s.raised /\ t.fw = s.fw
  BY <1>1, <1>3, <1>4 DEF Nodes
<1>6. QED
  BY <1>4, <1>5

-----------------------------------------------------------------------------
(* Zigduino nodes *)

(* Without redirection, as in setup and teardown, only the firmware changes. *)
LEMMA ZigduinoPlainFlash ==
  ASSUME NEW n \in Nodes, n.raised = None, NEW fw \in Firmwares,
         NEW t \in zigduino_do_flash(n, fw, FALSE)
  PROVE  Wrote(n, fw, t)
<1>1. PICK b \in Then(wait_tty(n), LAMBDA s : avrdude_flash(s, fw)) :
        t \in After(b, wait_tty(b))
  BY Zenon DEF zigduino_do_flash, Then, After
<1>2. PICK a \in wait_tty(n) : b \in After(a, avrdude_flash(a, fw))
  BY Zenon DEF Then, After
<1>3. Quiet(n, a)
  BY TriesAreQuiet DEF wait_tty
<1>4. Wrote(a, fw, b)
  BY <1>2, <1>3, ProgramWrites DEF After, avrdude_flash, Quiet, Kept
<1>5. Quiet(b, t)
  BY <1>1, <1>4, TriesAreQuiet DEF After, wait_tty, Wrote, Kept
<1>6. QED
  BY <1>3, <1>4, <1>5 DEF Wrote, Quiet, Kept

(* The tty may be gone when it is opened once more. *)
LEMMA DtrDisabled ==
  ASSUME NEW n \in Nodes, NEW s \in disable_dtr(n)
  PROVE  /\ Kept(n, s) /\ s.up = n.up /\ s.fw = n.fw /\ s.current_fw = n.current_fw
         /\ s.raised \in {n.raised, "IOError"}
<1>1. CASE s = [n EXCEPT !.raised = "IOError"]
  BY <1>1 DEF Nodes, Kept
<1>2. CASE s \in {n, Fail(n)}
  BY <1>2, TriesAreQuiet DEF Quiet
<1>3. QED
  BY <1>1, <1>2 DEF disable_dtr

(* With redirection it is up again in the end, unless disable_dtr raised.   *)
LEMMA ZigduinoRedirectedFlash ==
  ASSUME NEW n \in Nodes, n.raised = None, n.up \subseteq Redirection,
         NEW fw \in Firmwares, NEW t \in zigduino_do_flash(n, fw, TRUE)
  PROVE  /\ Kept(n, t) /\ t.raised \in {None, "IOError"} /\ t.up \subseteq Redirection
         /\ t.raised = None => t.up = Redirection
         /\ t.ret = 0 => t.fw = fw
<1> DEFINE A == Then(wait_tty(n), RedirectionStop)
           B == Then(A, LAMBDA s : avrdude_flash(s, fw))
           C == Then(B, wait_tty)
           D == Then(C, disable_dtr)
<1>1. t \in Then(D, RedirectionStart)
  BY DEF zigduino_do_flash
<1>2. PICK d \in D : t \in After(d, RedirectionStart(d))
  <2> HIDE DEF D
  <2>1. QED
    BY <1>1, Zenon DEF Then, After
<1>3. PICK c \in C : d \in After(c, disable_dtr(c))
  <2> HIDE DEF C
  <2>1. QED
    BY Zenon DEF Then, After
<1>4. PICK b \in B : c \in After(b, wait_tty(b))
  <2> HIDE DEF B
  <2>1. QED
    BY Zenon DEF Then, After
<1>5. PICK a \in A : b \in After(a, avrdude_flash(a, fw))
  <2> HIDE DEF A
  <2>1. QED
    BY Zenon DEF Then, After
<1>6. PICK w \in wait_tty(n) : a \in After(w, RedirectionStop(w))
  BY Zenon DEF Then, After
<1> HIDE DEF A, B, C, D
<1>7. Quiet(n, w)
  BY TriesAreQuiet DEF wait_tty
<1>8. Kept(w, a) /\ a.raised = None /\ a.up = w.up \ {"serial_redirection"}
  BY <1>6, <1>7, StopTakesDown DEF After, RedirectionStop, Quiet, Kept
<1>9. Wrote(a, fw, b)
  BY <1>5, <1>8, ProgramWrites DEF After, avrdude_flash, Kept
<1>10. Quiet(b, c)
  BY <1>4, <1>9, TriesAreQuiet DEF After, wait_tty, Wrote, Kept
<1>11. Kept(c, d) /\ d.up = c.up /\ d.fw = c.fw /\ d.raised \in {None, "IOError"}
  BY <1>3, <1>8, <1>9, <1>10, DtrDisabled DEF After, Wrote, Quiet, Kept
<1>12. n.up \ {"serial_redirection"} = {}
  BY DEF Redirection
<1>13. d.up = {}
  BY <1>7, <1>8, <1>9, <1>10, <1>11, <1>12 DEF Wrote, Quiet
<1>14. CASE d.raised = None
  <2>1. Launched(d, "serial_redirection", t)
    BY <1>2, <1>11, <1>14, StartLaunches DEF After, RedirectionStart, Kept, Processes
  <2>2. QED
    BY <1>7, <1>8, <1>9, <1>10, <1>11, <1>13, <1>14, <2>1
       DEF Redirection, Launched, Wrote, Quiet, Kept
<1>15. CASE d.raised # None
  <2>1. t = d
    BY <1>2, <1>15 DEF After
  <2>2. QED
    BY <1>7, <1>8, <1>9, <1>10, <1>11, <1>13, <1>15, <2>1
       DEF Redirection, Wrote, Quiet, Kept
<1>16. QED
  BY <1>14, <1>15

LEMMA ZigduinoSetup ==
  ASSUME NEW n \in Nodes, n.raised = None, n.up \subseteq Redirection,
         NEW fw \in Firmwares, NEW t \in zigduino_setup(n, fw)
  PROVE  SetUp(n, Redirection, t) /\ t.in_debug = n.in_debug /\ (t.ret = 0 => t.fw = fw)
<1>1. PICK c \in Then(Then(wait_tty(n), LAMBDA s : zigduino_do_flash(s, fw, FALSE)), disable_dtr) :
        t \in After(c, RedirectionStart(c))
  BY Zenon DEF zigduino_setup, Then, After
<1>2. PICK b \in Then(wait_tty(n), LAMBDA s : zigduino_do_flash(s, fw, FALSE)) :
        c \in After(b, disable_dtr(b))
  BY Zenon DEF Then, After
<1>3. PICK a \in wait_tty(n) : b \in After(a, zigduino_do_flash(a, fw, FALSE))
  BY Zenon DEF Then, After
<1>4. Quiet(n, a)
  BY TriesAreQuiet DEF wait_tty
<1>5. Wrote(a, fw, b)
  BY <1>3, <1>4, ZigduinoPlainFlash DEF After, Quiet, Kept
<1>6. Kept(b, c) /\ c.up = b.up /\ c.fw = b.fw /\ c.raised \in {None, "IOError"}
  BY <1>2, <1>4, <1>5, DtrDisabled DEF After, Wrote, Quiet, Kept
<1>7. CASE c.raised = None
  <2>1. Launched(c, "serial_redirection", t)
    BY <1>1, <1>6, <1>7, StartLaunches DEF After, RedirectionStart, Kept, Processes
  <2>2. QED
    BY <1>4, <1>5, <1>6, <1>7, <2>1
       DEF SetUp, Redirection, Launched, Wrote, Quiet, Kept, None
<1>8. CASE c.raised # None
  BY <1>1, <1>4, <1>5, <1>6, <1>8 DEF After, SetUp, Redirection, Wrote, Quiet, Kept, None
<1>9. QED
  BY <1>7, <1>8

LEMMA ZigduinoTeardown ==
  ASSUME NEW n \in Nodes, n.raised = None, n.up \subseteq Redirection,
         NEW t \in zigduino_teardown(n)
  PROVE  /\ TornDown(n, t) /\ t.debug = n.debug /\ t.in_debug = n.in_debug
         /\ t.ret = 0 => t.fw = "idle"
<1>1. PICK c \in Then(Then(wait_tty(n), RedirectionStop), wait_tty) :
        t \in After(c, zigduino_do_flash(c, "idle", FALSE))
  BY Zenon DEF zigduino_teardown, Then, After
<1>2. PICK b \in Then(wait_tty(n), RedirectionStop) : c \in After(b, wait_tty(b))
  BY Zenon DEF Then, After
<1>3. PICK a \in wait_tty(n) : b \in After(a, RedirectionStop(a))
  BY Zenon DEF Then, After
<1>4. Quiet(n, a)
  BY TriesAreQuiet DEF wait_tty
<1>5. Kept(a, b) /\ b.raised = None /\ b.up = a.up \ {"serial_redirection"}
  BY <1>3, <1>4, StopTakesDown DEF After, RedirectionStop, Quiet, Kept
<1>6. Quiet(b, c)
  BY <1>2, <1>5, TriesAreQuiet DEF After, wait_tty, Kept
<1>7. "idle" \in Firmwares
  BY FwAssumption DEF Firmwares
<1>8. Wrote(c, "idle", t)
  BY <1>1, <1>5, <1>6, <1>7, ZigduinoPlainFlash DEF After, Quiet, Kept
<1>9. QED
  BY <1>4, <1>5, <1>6, <1>8 DEF TornDown, Redirection, Wrote, Quiet, Kept

-----------------------------------------------------------------------------
(* Leonardo nodes *)

(* A flash fails without the bootloader, and is refused for a binary. *)
LEMMA LeonardoFlash ==
  ASSUME NEW n \in Nodes, n.raised = None, NEW fw \in Firmwares, NEW binary, NEW offset,
         NEW t \in leonardo_flash(n, fw, binary, offset)
  PROVE  Wrote(n, fw, t)
<1>1. t = Fail(n) \/ t \in Then(avrdude_flash(n, fw), wait_tty)
  BY DEF leonardo_flash
<1>2. CASE t = Fail(n)
  BY <1>2, FailIsQuiet DEF Wrote, Quiet, Kept
<1>3. CASE t \in Then(avrdude_flash(n, fw), wait_tty)
  <2>1. PICK a \in avrdude_flash(n, fw) : t \in After(a, wait_tty(a))
    BY <1>3, Zenon DEF Then, After
  <2>2. Wrote(n, fw, a)
    BY ProgramWrites DEF avrdude_flash
  <2>3. Quiet(a, t)
    BY <2>1, <2>2, TriesAreQuiet DEF After, wait_tty, Wrote, Kept
  <2>4. QED
    BY <2>2, <2>3 DEF Wrote, Quiet, Kept
<1>4. QED
  BY <1>1, <1>2, <1>3

LEMMA LeonardoSetup ==
  ASSUME NEW n \in Nodes, n.raised = None, n.up \subseteq Redirection,
         NEW fw \in Firmwares, NEW t \in leonardo_setup(n, fw)
  PROVE  SetUp(n, Redirection, t) /\ t.in_debug = n.in_debug /\ (t.ret = 0 => t.fw = fw)
<1>1. PICK b \in Then(wait_tty(n), LAMBDA s : leonardo_flash(s, fw, FALSE, 0)) :
        t \in After(b, RedirectionStart(b))
  BY Zenon DEF leonardo_setup, Then, After
<1>2. PICK a \in wait_tty(n) : b \in After(a, leonardo_flash(a, fw, FALSE, 0))
  BY Zenon DEF Then, After
<1>3. Quiet(n, a)
  BY TriesAreQuiet DEF wait_tty
<1>4. Wrote(a, fw, b)
  BY <1>2, <1>3, LeonardoFlash DEF After, Quiet, Kept
<1>5. Launched(b, "serial_redirection", t)
  BY <1>1, <1>3, <1>4, StartLaunches DEF After, RedirectionStart, Quiet, Wrote, Kept, Processes
<1>6. QED
  BY <1>3, <1>4, <1>5 DEF SetUp, Redirection, Quiet, Wrote, Launched, Kept, None

LEMMA LeonardoTeardown ==
  ASSUME NEW n \in Nodes, n.raised = None, n.up \subseteq Redirection,
         NEW t \in leonardo_teardown(n)
  PROVE  /\ TornDown(n, t) /\ t.debug = n.debug /\ t.in_debug = n.in_debug
         /\ t.ret = 0 => t.fw = "idle"
<1>1. PICK b \in Then(wait_tty(n), RedirectionStop) :
        t \in After(b, leonardo_flash(b, "idle", FALSE, 0))
  BY Zenon DEF leonardo_teardown, Then, After
<1>2. PICK a \in wait_tty(n) : b \in After(a, RedirectionStop(a))
  BY Zenon DEF Then, After
<1>3. Quiet(n, a)
  BY TriesAreQuiet DEF wait_tty
<1>4. Kept(a, b) /\ b.raised = None /\ b.up = a.up \ {"serial_redirection"}
  BY <1>2, <1>3, StopTakesDown DEF After, RedirectionStop, Quiet, Kept
<1>5. "idle" \in Firmwares
  BY FwAssumption DEF Firmwares
<1>6. Wrote(b, "idle", t)
  BY <1>1, <1>4, <1>5, LeonardoFlash DEF After, Kept
<1>7. QED
  BY <1>3, <1>4, <1>6 DEF TornDown, Redirection, Wrote, Quiet, Kept

(* Whether or not the bootloader comes, only the result tells. *)
LEMMA LeonardoReset ==
  ASSUME NEW n \in Nodes, n.raised = None, NEW t \in leonardo_reset(n)
  PROVE  Quiet(n, t)
<1>1. PICK a \in trigger_bootloader(n) : t \in After(a, wait_tty(a))
  BY Zenon DEF leonardo_reset, Then, After
<1>2. Quiet(n, a)
  BY TriesAreQuiet DEF trigger_bootloader
<1>3. Quiet(a, t)
  BY <1>1, <1>2, TriesAreQuiet DEF After, wait_tty, Quiet, Kept
<1>4. QED
  BY <1>2, <1>3 DEF Quiet, Kept

-----------------------------------------------------------------------------
(* Firefly nodes *)

(* A request's firmware may have no code, and then the tool is not run. *)
NoCode(n, fw, s) ==
  /\ Kept(n, s) /\ fw \in UserFw
  /\ s.up = n.up /\ s.raised = "ValueError"

LEMMA Cc2538Writes ==
  ASSUME NEW n \in Nodes, NEW fw \in Firmwares, NEW s \in cc2538_flash(n, fw)
  PROVE  Wrote(n, fw, s) \/ NoCode(n, fw, s)
<1>1. CASE s \in Program(n, fw)
  BY <1>1, ProgramWrites
<1>2. CASE fw \in UserFw /\ s = [n EXCEPT !.raised = "ValueError"]
  <2>1. Kept(n, s) /\ s.up = n.up /\ s.raised = "ValueError"
    BY <1>2 DEF Nodes, Kept
  <2>2. QED
    BY <1>2, <2>1 DEF NoCode
<1>3. QED
  BY <1>1, <1>2 DEF cc2538_flash

LEMMA FireflyPlainFlash ==
  ASSUME NEW n \in Nodes, n.raised = None, NEW fw \in Firmwares,
         NEW t \in firefly_do_flash(n, fw, FALSE)
  PROVE  Wrote(n, fw, t) \/ NoCode(n, fw, t)
<1>1. PICK a \in {n} : t \in After(a, cc2538_flash(a, fw))
  BY Zenon DEF firefly_do_flash, Then, After
<1>2. t \in cc2538_flash(n, fw)
  BY <1>1 DEF After
<1>3. QED
  BY <1>2, Cc2538Writes

(* The redirection is stopped for the flash, and up again unless there is   *)
(* no code to flash.                                                        *)
LEMMA FireflyRedirectedFlash ==
  ASSUME NEW n \in Nodes, n.raised = None, n.up \subseteq Redirection,
         NEW fw \in Firmwares, NEW t \in firefly_do_flash(n, fw, TRUE)
  PROVE  /\ Kept(n, t) /\ t.raised \in {None, "ValueError"} /\ t.up \subseteq Redirection
         /\ t.raised = None => t.up = Redirection
         /\ t.ret = 0 /\ t.raised = None => t.fw = fw
<1>1. PICK b \in Then(RedirectionStop(n), LAMBDA s : cc2538_flash(s, fw)) :
        t \in After(b, RedirectionStart(b))
  BY Zenon DEF firefly_do_flash, Then, After
<1>2. PICK a \in RedirectionStop(n) : b \in After(a, cc2538_flash(a, fw))
  BY Zenon DEF Then, After
<1>3. Kept(n, a) /\ a.raised = None /\ a.up = n.up \ {"serial_redirection"}
  BY StopTakesDown DEF RedirectionStop
<1>4. a.up = {} /\ a \in Nodes
  BY <1>3 DEF Redirection, Kept
<1>5. Wrote(a, fw, b) \/ NoCode(a, fw, b)
  BY <1>2, <1>3, <1>4, Cc2538Writes DEF After
<1>6. CASE Wrote(a, fw, b)
  <2>1. Launched(b, "serial_redirection", t)
    BY <1>1, <1>3, <1>6, StartLaunches DEF After, RedirectionStart, Wrote, Kept, Processes
  <2>2. QED
    BY <1>3, <1>4, <1>6, <2>1 DEF Redirection, Wrote, Launched, Kept
<1>7. CASE NoCode(a, fw, b)
  <2>1. t = b
    BY <1>1, <1>7 DEF After, NoCode, None
  <2>2. QED
    BY <1>3, <1>4, <1>7, <2>1 DEF NoCode, Kept, None, Redirection
<1>8. QED
  BY <1>5, <1>6, <1>7

LEMMA FireflySetup ==
  ASSUME NEW n \in Nodes, n.raised = None, n.up \subseteq Redirection,
         NEW fw \in Firmwares, NEW t \in firefly_setup(n, fw)
  PROVE  /\ SetUp(n, Redirection, t) /\ t.in_debug = n.in_debug
         /\ t.ret = 0 /\ t.raised = None => t.fw = fw
<1>1. PICK b \in Then(wait_tty(n), LAMBDA s : firefly_do_flash(s, fw, FALSE)) :
        t \in After(b, RedirectionStart(b))
  BY Zenon DEF firefly_setup, Then, After
<1>2. PICK a \in wait_tty(n) : b \in After(a, firefly_do_flash(a, fw, FALSE))
  BY Zenon DEF Then, After
<1>3. Quiet(n, a)
  BY TriesAreQuiet DEF wait_tty
<1>4. Wrote(a, fw, b) \/ NoCode(a, fw, b)
  BY <1>2, <1>3, FireflyPlainFlash DEF After, Quiet, Kept
<1>5. CASE Wrote(a, fw, b)
  <2>1. Launched(b, "serial_redirection", t)
    BY <1>1, <1>3, <1>5, StartLaunches DEF After, RedirectionStart, Quiet, Wrote, Kept, Processes
  <2>2. QED
    BY <1>3, <1>5, <2>1 DEF SetUp, Redirection, Quiet, Wrote, Launched, Kept, None
<1>6. CASE NoCode(a, fw, b)
  <2>1. t = b
    BY <1>1, <1>6 DEF After, NoCode, None
  <2>2. QED
    BY <1>3, <1>6, <2>1 DEF SetUp, Redirection, Quiet, NoCode, Kept, None
<1>7. QED
  BY <1>4, <1>5, <1>6

LEMMA FireflyTeardown ==
  ASSUME NEW n \in Nodes, n.raised = None, n.up \subseteq Redirection,
         NEW t \in firefly_teardown(n)
  PROVE  /\ TornDown(n, t) /\ t.debug = n.debug /\ t.in_debug = n.in_debug
         /\ t.ret = 0 => t.fw = "idle"
<1>1. PICK b \in Then(wait_tty(n), RedirectionStop) :
        t \in After(b, firefly_do_flash(b, "idle", FALSE))
  BY Zenon DEF firefly_teardown, Then, After
<1>2. PICK a \in wait_tty(n) : b \in After(a, RedirectionStop(a))
  BY Zenon DEF Then, After
<1>3. Quiet(n, a)
  BY TriesAreQuiet DEF wait_tty
<1>4. Kept(a, b) /\ b.raised = None /\ b.up = a.up \ {"serial_redirection"}
  BY <1>2, <1>3, StopTakesDown DEF After, RedirectionStop, Quiet, Kept
<1>5. "idle" \in Firmwares /\ "idle" \notin UserFw
  BY FwAssumption DEF Firmwares
<1>6. Wrote(b, "idle", t)
  BY <1>1, <1>4, <1>5, FireflyPlainFlash DEF After, Kept, NoCode
<1>7. QED
  BY <1>3, <1>4, <1>6 DEF TornDown, Redirection, Wrote, Quiet, Kept

-----------------------------------------------------------------------------
(* Nodes without a programmer *)

(* Erasing is not flashing a firmware. *)
LEMMA EraseKeeps ==
  ASSUME NEW n \in Nodes, NEW s \in Erase(n)
  PROVE  Kept(n, s) /\ s.up = n.up /\ s.raised = n.raised
<1>1. "idle" \in Firmwares
  BY FwAssumption DEF Firmwares
<1>2. CASE s = [n EXCEPT !.fw = "idle"]
  BY <1>1, <1>2, WriteKeeps
<1>3. CASE s = Fail(n)
  BY <1>3, FailIsQuiet DEF Quiet
<1>4. QED
  BY <1>2, <1>3 DEF Erase

LEMMA PycomSetup ==
  ASSUME NEW n \in Nodes, n.raised = None, n.up \subseteq Redirection,
         NEW t \in pycom_setup(n)
  PROVE  SetUp(n, Redirection, t) /\ t.in_debug = n.in_debug
<1> DEFINE A == Then(wait_tty(n), send_sequence)
           B == Then(A, Erase)
           C == Then(B, send_sequence)
<1>1. PICK c \in C : t \in After(c, RedirectionStart(c))
  BY Zenon DEF pycom_setup, Then, After
<1>2. PICK b \in B : c \in After(b, send_sequence(b))
  BY Zenon DEF Then, After
<1>3. PICK a \in A : b \in After(a, Erase(a))
  BY Zenon DEF Then, After
<1>4. PICK w \in wait_tty(n) : a \in After(w, send_sequence(w))
  BY Zenon DEF Then, After
<1> HIDE DEF A, B, C
<1>5. Quiet(n, w)
  BY TriesAreQuiet DEF wait_tty
<1>6. Quiet(w, a)
  BY <1>4, <1>5, TriesAreQuiet DEF After, send_sequence, OpenSerial, Quiet, Kept
<1>7. Kept(a, b) /\ b.up = a.up /\ b.raised = a.raised
  BY <1>3, <1>5, <1>6, EraseKeeps DEF After, Quiet, Kept
<1>8. Quiet(b, c)
  BY <1>2, <1>7, TriesAreQuiet DEF After, send_sequence, OpenSerial, Kept
<1>9. Launched(c, "serial_redirection", t)
  BY <1>1, <1>5, <1>6, <1>7, <1>8, StartLaunches
     DEF After, RedirectionStart, Quiet, Kept, Processes
<1>10. QED
  BY <1>5, <1>6, <1>7, <1>8, <1>9 DEF SetUp, Redirection, Quiet, Launched, Kept, None

LEMMA PycomTeardown ==
  ASSUME NEW n \in Nodes, n.raised = None, n.up \subseteq Redirection,
         NEW t \in pycom_teardown(n)
  PROVE  TornDown(n, t) /\ t.debug = n.debug /\ t.in_debug = n.in_debug
<1>1. PICK b \in Then(send_sequence(n), Erase) : t \in After(b, RedirectionStop(b))
  BY Zenon DEF pycom_teardown, Then, After
<1>2. PICK a \in send_sequence(n) : b \in After(a, Erase(a))
  BY Zenon DEF Then, After
<1>3. Quiet(n, a)
  BY TriesAreQuiet DEF send_sequence, OpenSerial
<1>4. Kept(a, b) /\ b.up = a.up /\ b.raised = a.raised
  BY <1>2, <1>3, EraseKeeps DEF After, Quiet, Kept
<1>5. Kept(b, t) /\ t.raised = b.raised /\ t.up = b.up \ {"serial_redirection"}
  BY <1>1, <1>3, <1>4, StopTakesDown DEF After, RedirectionStop, Quiet, Kept
<1>6. QED
  BY <1>3, <1>4, <1>5 DEF TornDown, Redirection, Quiet, Kept

LoraServices == {"mosquitto", "lora_gateway_bridge"}

LEMMA LoraSetup ==
  ASSUME NEW n \in Nodes, n.raised = None, n.up \subseteq LoraServices,
         NEW t \in lora_gw_setup(n)
  PROVE  SetUp(n, LoraServices, t) /\ t.in_debug = n.in_debug
<1>1. PICK a \in StartService(n, "mosquitto") :
        t \in After(a, StartService(a, "lora_gateway_bridge"))
  BY Zenon DEF lora_gw_setup, Then, After
<1>2. Launched(n, "mosquitto", a)
  BY StartLaunches DEF Processes
<1>3. CASE "mosquitto" \in n.up
  BY <1>1, <1>2, <1>3 DEF After, SetUp, LoraServices, Launched, Kept, None
<1>4. CASE "mosquitto" \notin n.up
  <2>1. Launched(a, "lora_gateway_bridge", t)
    BY <1>1, <1>2, <1>4, StartLaunches DEF After, Launched, Kept, Processes
  <2>2. QED
    BY <1>2, <1>4, <2>1 DEF SetUp, LoraServices, Launched, Kept, None
<1>5. QED
  BY <1>3, <1>4

LEMMA LoraTeardown ==
  ASSUME NEW n \in Nodes, n.raised = None, n.up \subseteq LoraServices,
         NEW t \in lora_gw_teardown(n)
  PROVE  TornDown(n, t) /\ t.debug = n.debug /\ t.in_debug = n.in_debug
<1>1. PICK a \in StopService(n, "lora_gateway_bridge") :
        t \in After(a, StopService(a, "mosquitto"))
  BY Zenon DEF lora_gw_teardown, Then, After
<1>2. Kept(n, a) /\ a.raised = None /\ a.up = n.up \ {"lora_gateway_bridge"}
  BY StopTakesDown
<1>3. Kept(a, t) /\ t.raised = None /\ t.up = a.up \ {"mosquitto"}
  BY <1>1, <1>2, StopTakesDown DEF After, Kept
<1>4. QED
  BY <1>2, <1>3 DEF TornDown, LoraServices, Kept

LEMMA RtlSetup ==
  ASSUME NEW n \in Nodes, n.raised = None, n.up \subseteq {"rtl_tcp"},
         NEW t \in rtl_sdr_setup(n)
  PROVE  SetUp(n, {"rtl_tcp"}, t) /\ t.in_debug = n.in_debug
<1>1. PICK a \in ykush(n) : t \in After(a, StartService(a, "rtl_tcp"))
  BY Zenon DEF rtl_sdr_setup, Then, After
<1>2. Quiet(n, a)
  BY TriesAreQuiet DEF ykush
<1>3. Launched(a, "rtl_tcp", t)
  BY <1>1, <1>2, StartLaunches DEF After, Quiet, Kept, Processes
<1>4. QED
  BY <1>2, <1>3 DEF SetUp, Quiet, Launched, Kept, None

LEMMA RtlTeardown ==
  ASSUME NEW n \in Nodes, n.raised = None, n.up \subseteq {"rtl_tcp"},
         NEW t \in rtl_sdr_teardown(n)
  PROVE  TornDown(n, t) /\ t.debug = n.debug /\ t.in_debug = n.in_debug
<1>1. PICK a \in StopService(n, "rtl_tcp") : t \in After(a, ykush(a))
  BY Zenon DEF rtl_sdr_teardown, Then, After
<1>2. Kept(n, a) /\ a.raised = None /\ a.up = n.up \ {"rtl_tcp"}
  BY StopTakesDown
<1>3. Quiet(a, t)
  BY <1>1, <1>2, TriesAreQuiet DEF After, ykush, Kept
<1>4. QED
  BY <1>2, <1>3 DEF TornDown, Quiet, Kept

-----------------------------------------------------------------------------
(* The methods of the interface, whatever the class *)

(* Every class is one of these. *)
LEMMA Classes ==
  ASSUME kind \in Kinds
  PROVE  kind \in OpenocdKinds \cup {"edbg", "zigduino", "leonardo", "firefly", "pycom",
                                     "lora_gw", "rtl_sdr", "no"}
BY KindsAssumption DEF NoKinds

(* The processes a class has. *)
LEMMA ServicesOf ==
  ASSUME kind \in Kinds
  PROVE  /\ kind = "lora_gw" => Services = LoraServices
         /\ kind = "rtl_sdr" => Services = {"rtl_tcp"}
         /\ kind = "no" => Services = {}
         /\ kind \notin NoKinds => Services = Redirection
BY Classes DEF Services, LoraServices, Redirection, NoKinds

(* Setup starts the processes of the class or raises, and without a failure *)
(* the node has the firmware.                                               *)
LEMMA SetupOutcome ==
  ASSUME kind \in Kinds, NEW n \in Nodes, n.raised = None, n.up \subseteq Services,
         NEW fw \in Firmwares, NEW t \in setup(n, fw)
  PROVE  /\ SetUp(n, Services, t)
         /\ kind = "edbg" => ~t.in_debug /\ t.current_fw = fw
         /\ kind # "edbg" => t.in_debug = n.in_debug
         /\ kind \in Programmed /\ t.ret = 0 /\ t.raised = None => t.fw = fw
<1> USE DEF NoKinds, OpenocdKinds, Programmed
<1>1. CASE kind \in OpenocdKinds
  BY <1>1, ServicesOf, OpenocdSetup DEF setup
<1>2. CASE kind = "edbg"
  BY <1>2, ServicesOf, EdbgSetup DEF setup
<1>3. CASE kind = "zigduino"
  BY <1>3, ServicesOf, ZigduinoSetup DEF setup
<1>4. CASE kind = "leonardo"
  BY <1>4, ServicesOf, LeonardoSetup DEF setup
<1>5. CASE kind = "firefly"
  BY <1>5, ServicesOf, FireflySetup DEF setup
<1>6. CASE kind = "pycom"
  BY <1>6, ServicesOf, PycomSetup DEF setup
<1>7. CASE kind = "lora_gw"
  BY <1>7, ServicesOf, LoraSetup DEF setup
<1>8. CASE kind = "rtl_sdr"
  BY <1>8, ServicesOf, RtlSetup DEF setup
<1>9. CASE kind = "no"
  BY <1>9, ServicesOf DEF setup, SetUp, None
<1>10. QED
  BY <1>1, <1>2, <1>3, <1>4, <1>5, <1>6, <1>7, <1>8, <1>9, Classes

(* Teardown never raises and stops everything. *)
LEMMA TeardownOutcome ==
  ASSUME kind \in Kinds, NEW n \in Nodes, n.raised = None, n.up \subseteq Services,
         NEW t \in teardown(n)
  PROVE  /\ TornDown(n, t)
         /\ HasDebugger => ~t.debug
         /\ ~HasDebugger => t.debug = n.debug
         /\ kind = "edbg" => ~t.in_debug /\ t.current_fw = "idle"
         /\ kind # "edbg" => t.in_debug = n.in_debug
         /\ kind \in Programmed /\ t.ret = 0 => t.fw = "idle"
<1> USE DEF NoKinds, OpenocdKinds, Programmed, HasDebugger
<1>1. CASE kind \in OpenocdKinds
  BY <1>1, ServicesOf, OpenocdTeardown DEF teardown
<1>2. CASE kind = "edbg"
  BY <1>2, ServicesOf, EdbgTeardown DEF teardown
<1>3. CASE kind = "zigduino"
  BY <1>3, ServicesOf, ZigduinoTeardown DEF teardown
<1>4. CASE kind = "leonardo"
  BY <1>4, ServicesOf, LeonardoTeardown DEF teardown
<1>5. CASE kind = "firefly"
  BY <1>5, ServicesOf, FireflyTeardown DEF teardown
<1>6. CASE kind = "pycom"
  BY <1>6, ServicesOf, PycomTeardown DEF teardown
<1>7. CASE kind = "lora_gw"
  BY <1>7, ServicesOf, LoraTeardown DEF teardown
<1>8. CASE kind = "rtl_sdr"
  BY <1>8, ServicesOf, RtlTeardown DEF teardown
<1>9. CASE kind = "no"
  BY <1>9, ServicesOf DEF teardown, TornDown
<1>10. QED
  BY <1>1, <1>2, <1>3, <1>4, <1>5, <1>6, <1>7, <1>8, <1>9, Classes

(* A flash keeps the processes of an experiment unless it raised; only    *)
(* two classes touch them at all.                                           *)
LEMMA FlashOutcome ==
  ASSUME kind \in Kinds, NEW n \in Nodes, n.raised = None, n.up \subseteq Services,
         NEW fw \in Firmwares, NEW binary, NEW offset, NEW t \in flash(n, fw, binary, offset)
  PROVE  /\ Kept(n, t) /\ t.raised \in {None, "IOError", "ValueError"} /\ t.up \subseteq Services
         /\ t.raised = None /\ n.up = Services => t.up = Services
         /\ kind \notin {"zigduino", "firefly"} => t.up = n.up
         /\ kind = "edbg" => t.current_fw = fw
         /\ kind \in Programmed /\ t.ret = 0 /\ t.raised = None => t.fw = fw
<1> USE DEF NoKinds, OpenocdKinds, Programmed
<1>1. CASE kind \in OpenocdKinds
  BY <1>1, OpenocdFlash DEF flash, Wrote
<1>2. CASE kind = "edbg"
  BY <1>2, EdbgFlash DEF flash
<1>3. CASE kind = "zigduino"
  <2>1. t = Fail(n) \/ t \in zigduino_do_flash(n, fw, TRUE)
    BY <1>3 DEF flash, zigduino_flash
  <2>2. CASE t = Fail(n)
    BY <1>3, <2>2, FailIsQuiet DEF Quiet
  <2>3. CASE t \in zigduino_do_flash(n, fw, TRUE)
    <3>1. Services = Redirection
      BY <1>3, ServicesOf
    <3>2. /\ Kept(n, t) /\ t.raised \in {None, "IOError"} /\ t.up \subseteq Redirection
          /\ t.raised = None => t.up = Redirection
          /\ t.ret = 0 => t.fw = fw
      BY <2>3, <3>1, ZigduinoRedirectedFlash
    <3>3. QED
      BY <1>3, <3>1, <3>2
  <2>4. QED
    BY <2>1, <2>2, <2>3
<1>4. CASE kind = "leonardo"
  BY <1>4, LeonardoFlash DEF flash, Wrote
<1>5. CASE kind = "firefly"
  <2>1. t = Fail(n) \/ t \in firefly_do_flash(n, fw, TRUE)
    BY <1>5 DEF flash, firefly_flash
  <2>2. CASE t = Fail(n)
    BY <1>5, <2>2, FailIsQuiet DEF Quiet
  <2>3. CASE t \in firefly_do_flash(n, fw, TRUE)
    <3>1. Services = Redirection
      BY <1>5, ServicesOf
    <3>2. /\ Kept(n, t) /\ t.raised \in {None, "ValueError"} /\ t.up \subseteq Redirection
          /\ t.raised = None => t.up = Redirection
          /\ t.ret = 0 /\ t.raised = None => t.fw = fw
      BY <2>3, <3>1, FireflyRedirectedFlash
    <3>3. QED
      BY <1>5, <3>1, <3>2
  <2>4. QED
    BY <2>1, <2>2, <2>3
<1>6. CASE kind \in {"pycom", "lora_gw", "rtl_sdr", "no"}
  BY <1>6 DEF flash, Kept
<1>7. QED
  BY <1>1, <1>2, <1>3, <1>4, <1>5, <1>6, Classes

(* A reset changes nothing the properties can tell. *)
LEMMA ResetOutcome ==
  ASSUME kind \in Kinds, NEW n \in Nodes, n.raised = None, NEW t \in reset(n)
  PROVE  Quiet(n, t)
<1>1. CASE kind = "leonardo"
  BY <1>1, LeonardoReset DEF reset, OpenocdKinds
<1>2. CASE kind # "leonardo"
  <2>1. t \in {n, Fail(n)}
    BY <1>2 DEF reset, OpenocdKinds, openocd_reset, zigduino_reset, cc2538_reset,
                send_sequence, OpenSerial, wait_tty
  <2>2. QED
    BY <2>1, TriesAreQuiet
<1>3. QED
  BY <1>1, <1>2

(* The debugger is started and stopped by one method for the class and its  *)
(* debug mode.                                                              *)
LEMMA DebugStartOutcome ==
  ASSUME NEW n \in Nodes, n.raised = None, HasDebugger,
         NEW t \in IF kind = "edbg" THEN node_edbg_debug_start(n) ELSE openocd_debug_start(n)
  PROVE  /\ t \in Nodes /\ t.debug /\ t.up = n.up /\ t.raised = None
         /\ t.current_fw = n.current_fw
         /\ IF kind = "edbg" THEN t.in_debug ELSE t.in_debug = n.in_debug
         /\ t.fw # n.fw => /\ kind = "edbg" /\ n.current_fw # None
                           /\ t.fw \in {n.current_fw, "broken"} /\ Exists(n.current_fw)
<1>1. CASE kind = "edbg"
  BY <1>1, EdbgDebugStart
<1>2. CASE kind # "edbg"
  <2>1. t = [n EXCEPT !.debug = TRUE]
    BY <1>2 DEF openocd_debug_start
  <2>2. /\ t \in Nodes /\ t.debug = TRUE /\ t.up = n.up /\ t.raised = n.raised
        /\ t.current_fw = n.current_fw /\ t.in_debug = n.in_debug /\ t.fw = n.fw
    BY <2>1 DEF Nodes
  <2>3. QED
    BY <1>2, <2>2
<1>3. QED
  BY <1>1, <1>2

LEMMA DebugStopOutcome ==
  ASSUME NEW n \in Nodes,
         NEW t \in IF kind = "edbg" THEN node_edbg_debug_stop(n) ELSE openocd_debug_stop(n)
  PROVE  /\ t \in Nodes /\ ~t.debug /\ t.up = n.up /\ t.raised = n.raised
         /\ t.fw = n.fw /\ t.current_fw = n.current_fw
         /\ IF kind = "edbg" THEN ~t.in_debug ELSE t.in_debug = n.in_debug
<1>1. CASE kind = "edbg"
  BY <1>1, EdbgDebugStop
<1>2. CASE kind # "edbg"
  BY <1>2, DebuggerStops
<1>3. QED
  BY <1>1, <1>2

-----------------------------------------------------------------------------
(* auto_tests stops the redirection and, if it does not leave the node on,  *)
(* tears it down as an experiment does.                                     *)
LEMMA TestsTeardownOutcome ==
  ASSUME kind \in Kinds, HasAutotest, NEW n \in Nodes, n.raised = None,
         n.up \subseteq Services, NEW stop \in BOOLEAN,
         NEW t \in teardown_open_node(n, stop)
  PROVE  /\ TornDown(n, t)
         /\ kind # "edbg" => t.in_debug = n.in_debug
         /\ ~HasDebugger => t.debug = n.debug
         /\ stop /\ HasDebugger => ~t.debug
         /\ stop /\ kind = "edbg" => ~t.in_debug /\ t.current_fw = "idle"
         /\ stop /\ kind \in Programmed /\ t.ret = 0 => t.fw = "idle"
         /\ ~stop => /\ t.in_debug = n.in_debug /\ t.debug = n.debug
                     /\ t.fw = n.fw /\ t.current_fw = n.current_fw
<1>1. n.up \ {"serial_redirection"} = {}
  BY ServicesOf DEF HasAutotest, Redirection
<1>2. ASSUME NEW s \in RedirectionStop(n)
      PROVE  /\ Kept(n, s) /\ s.fw = n.fw /\ s.current_fw = n.current_fw
             /\ s.raised = None /\ s.up = {}
  BY <1>1, <1>2, StopTakesDown DEF RedirectionStop
<1>3. CASE ~stop
  BY <1>2, <1>3 DEF teardown_open_node, TornDown, Kept
<1>4. CASE stop
  <2>1. PICK s \in RedirectionStop(n) : t \in After(s, teardown(s))
    BY <1>4, Zenon DEF teardown_open_node, Then, After
  <2>2. /\ Kept(n, s) /\ s.raised = None /\ s.up = {}
    BY <1>2
  <2>3. t \in teardown(s)
    BY <2>1, <2>2 DEF After
  <2>4. QED
    BY <1>4, <2>2, <2>3, TeardownOutcome DEF Kept, TornDown
<1>5. QED
  BY <1>3, <1>4

-----------------------------------------------------------------------------
(* The inductive invariant *)

(* Between calls the node has a result and an exception of none of them;    *)
(* only the processes of its class ever run, only classes with a debugger   *)
(* use its flags and only those with a firmware for it are tested.          *)
NodeInv ==
  /\ kind \in Kinds /\ phase \in {"idle", "experiment"}
  /\ testing \in {"no", "begun", "set_up"}
  /\ testing # "no" => HasAutotest
  /\ uploads \in [UserFw -> {"closed", "waiting", "called"}]
  /\ node \in Nodes /\ node.raised = None /\ node.ret = 0
  /\ node.up \subseteq Services
  /\ node.debug => HasDebugger
  /\ node.in_debug => kind = "edbg"

(* An EDBG node has the firmware that debug_start would flash, unless a     *)
(* flash broke it or the last request failed.  The file of a firmware it    *)
(* was given is never one that still waits for its call.                    *)
CurrentFwInv ==
  kind = "edbg" /\ node.current_fw # None =>
    /\ node.fw \in {node.current_fw, "broken"} \/ failed_fw = node.current_fw
    /\ node.current_fw \in StaticFw \cup UserFw
    /\ node.current_fw \in UserFw => uploads[node.current_fw] # "waiting"

(* As IdleRunsNothing, and also before the tests set the node up. *)
IdleInv ==
  phase = "idle" /\ testing # "set_up" /\ node.up # {} =>
    (idle_flash /\ kind \in {"zigduino", "firefly"}) \/ tests_left = "raised"

IInv == NodeInv /\ CurrentFwInv /\ IdleInv /\ ZeroMeansDone /\ DebugFlagsAgree

(* The manager takes the result and the exception, and the rest stays. *)
Taken(n, op, fw) ==
  /\ node' \in Nodes /\ node'.raised = None /\ node'.ret = 0
  /\ node'.up = n.up /\ node'.fw = n.fw /\ node'.current_fw = n.current_fw
  /\ node'.debug = n.debug /\ node'.in_debug = n.in_debug
  /\ last'.op = op /\ last'.fw = fw /\ last'.ret = n.ret /\ last'.raised = n.raised
  /\ failed_fw' = IF fw = None THEN failed_fw
                  ELSE IF n.ret # 0 \/ n.raised # None THEN fw ELSE None
  /\ kind' = kind

LEMMA ReturnsOutcome ==
  ASSUME NEW op, NEW fw, NEW S, \A n \in S : n \in Nodes, Returns(op, fw, S)
  PROVE  \E n \in S : Taken(n, op, fw)
<1>1. PICK n \in S :
        /\ node' = [n EXCEPT !.ret = 0, !.raised = None]
        /\ last' = [op |-> op, fw |-> fw, ret |-> n.ret, raised |-> n.raised]
        /\ failed_fw' = IF fw = None THEN failed_fw
                        ELSE IF n.ret # 0 \/ n.raised # None THEN fw ELSE None
        /\ kind' = kind
  BY DEF Returns
<1>2. n \in Nodes
  OBVIOUS
<1>3. /\ node' \in Nodes /\ node'.raised = None /\ node'.ret = 0
      /\ node'.up = n.up /\ node'.fw = n.fw /\ node'.current_fw = n.current_fw
      /\ node'.debug = n.debug /\ node'.in_debug = n.in_debug
  BY <1>1, <1>2 DEF Nodes
<1>4. last'.op = op /\ last'.fw = fw /\ last'.ret = n.ret /\ last'.raised = n.raised
  BY <1>1
<1>5. QED
  BY <1>1, <1>3, <1>4 DEF Taken

(* A request names a firmware. *)
LEMMA RequestedFw ==
  ASSUME NEW fw \in StaticFw \cup UserFw
  PROVE  fw \in Firmwares /\ fw # None
BY FwAssumption DEF Firmwares

(* A call with a request's firmware marks its file and no other. *)
LEMMA CallMarks ==
  ASSUME IInv, NEW fw \in StaticFw \cup UserFw, CalledWith(fw)
  PROVE  /\ testing = "no"
         /\ uploads' \in [UserFw -> {"closed", "waiting", "called"}]
         /\ fw \in UserFw => uploads'[fw] = "called"
         /\ \A f \in UserFw : uploads'[f] # uploads[f] => f = fw
BY DEF CalledWith, IInv, NodeInv

(* Setup may raise because of a flash without an experiment, of tests that  *)
(* raised, of disable_dtr or of a firmware without code; it leaves the      *)
(* debugger running but not the mode.                                       *)
LEMMA SetupStep ==
  ASSUME IInv, NEW fw \in StaticFw \cup UserFw, Setup(fw)
  PROVE  /\ IInv' /\ last'.op = "setup" /\ phase = "idle"
         /\ last'.raised = "RuntimeError" => idle_flash \/ tests_left = "raised"
<1>1. fw \in Firmwares /\ fw # None
  BY RequestedFw
<1>2. /\ Returns("setup", fw, setup(node, fw)) /\ phase = "idle" /\ phase' = "experiment"
      /\ UNCHANGED <<testing, idle_flash, tests_left>> /\ CalledWith(fw)
  BY DEF Setup
<1>3. \A n \in setup(node, fw) :
        /\ SetUp(node, Services, n) /\ n \in Nodes
        /\ kind = "edbg" => ~n.in_debug /\ n.current_fw = fw
        /\ kind # "edbg" => n.in_debug = node.in_debug
        /\ kind \in Programmed /\ n.ret = 0 /\ n.raised = None => n.fw = fw
  BY <1>1, SetupOutcome DEF IInv, NodeInv, SetUp
<1>4. PICK n \in setup(node, fw) : Taken(n, "setup", fw)
  BY <1>2, <1>3, ReturnsOutcome
<1>5. /\ testing = "no" /\ uploads' \in [UserFw -> {"closed", "waiting", "called"}]
      /\ fw \in UserFw => uploads'[fw] = "called"
  BY <1>2, CallMarks
<1>6. NodeInv'
  BY <1>2, <1>3, <1>4, <1>5 DEF IInv, NodeInv, Taken, SetUp, Services, HasDebugger
<1>7. CurrentFwInv'
  BY <1>1, <1>3, <1>4, <1>5 DEF IInv, NodeInv, CurrentFwInv, Taken, Programmed, NoKinds
<1>8. ZeroMeansDone'
  BY <1>3, <1>4 DEF IInv, NodeInv, ZeroMeansDone, Succeeded, Taken, SetUp, Services, Programmed
<1>9. IdleInv'
  BY <1>2 DEF IdleInv
<1>10. DebugFlagsAgree'
  BY <1>2, <1>3, <1>4 DEF IInv, NodeInv, DebugFlagsAgree, Taken, SetUp
<1>11. last'.raised = "RuntimeError" => idle_flash \/ tests_left = "raised"
  BY <1>2, <1>3, <1>4, <1>5 DEF Taken, SetUp, IInv, IdleInv
<1>12. last'.op = "setup"
  BY <1>4 DEF Taken
<1>13. QED
  BY <1>2, <1>6, <1>7, <1>8, <1>9, <1>10, <1>11, <1>12 DEF IInv

LEMMA TeardownStep ==
  ASSUME IInv, Teardown
  PROVE  IInv' /\ last'.op = "teardown" /\ last'.raised = None /\ phase' = "idle"
<1>1. /\ Returns("teardown", "idle", teardown(node)) /\ phase' = "idle"
      /\ UNCHANGED <<testing, uploads>> /\ testing = "no"
  BY DEF Teardown
<1>2. "idle" \in StaticFw /\ "idle" # None /\ "idle" \notin UserFw
  BY FwAssumption, RequestedFw
<1>3. \A n \in teardown(node) :
        /\ TornDown(node, n) /\ n \in Nodes
        /\ HasDebugger => ~n.debug
        /\ ~HasDebugger => n.debug = node.debug
        /\ kind = "edbg" => ~n.in_debug /\ n.current_fw = "idle"
        /\ kind # "edbg" => n.in_debug = node.in_debug
        /\ kind \in Programmed /\ n.ret = 0 => n.fw = "idle"
  BY TeardownOutcome DEF IInv, NodeInv, TornDown
<1>4. PICK n \in teardown(node) : Taken(n, "teardown", "idle")
  BY <1>1, <1>3, ReturnsOutcome
<1>5. ~n.debug /\ ~n.in_debug
  BY <1>3 DEF IInv, NodeInv
<1>6. NodeInv'
  BY <1>1, <1>3, <1>4, <1>5 DEF IInv, NodeInv, Taken, TornDown, Services, HasDebugger
<1>7. CurrentFwInv'
  BY <1>2, <1>3, <1>4 DEF IInv, NodeInv, CurrentFwInv, Taken, Programmed, NoKinds, TornDown
<1>8. ZeroMeansDone'
  BY <1>3, <1>4, <1>5 DEF IInv, NodeInv, ZeroMeansDone, Succeeded, Taken, TornDown, Programmed
<1>9. IdleInv'
  BY <1>3, <1>4 DEF IdleInv, Taken, TornDown
<1>10. DebugFlagsAgree'
  BY <1>4, <1>5 DEF DebugFlagsAgree, Taken
<1>11. last'.op = "teardown" /\ last'.raised = None
  BY <1>3, <1>4 DEF Taken, TornDown
<1>12. QED
  BY <1>1, <1>6, <1>7, <1>8, <1>9, <1>10, <1>11 DEF IInv

LEMMA FlashStep ==
  ASSUME IInv, NEW fw \in StaticFw \cup UserFw, NEW binary, NEW offset,
         Flash(fw, binary, offset)
  PROVE  /\ IInv' /\ last'.op = "flash" /\ last'.raised # "RuntimeError" /\ kind' = kind
         /\ node.up = Services /\ node'.up # Services =>
              last'.raised \in {"IOError", "ValueError"}
<1>1. fw \in Firmwares /\ fw # None
  BY RequestedFw
<1>2. /\ Returns("flash", fw, flash(node, fw, binary, offset))
      /\ UNCHANGED <<phase, testing, tests_left>> /\ CalledWith(fw)
      /\ idle_flash' = (idle_flash \/ phase = "idle")
  BY DEF Flash
<1>3. \A n \in flash(node, fw, binary, offset) :
        /\ Kept(node, n) /\ n \in Nodes /\ n.raised \in {None, "IOError", "ValueError"}
        /\ n.up \subseteq Services
        /\ n.raised = None /\ node.up = Services => n.up = Services
        /\ kind \notin {"zigduino", "firefly"} => n.up = node.up
        /\ kind = "edbg" => n.current_fw = fw
        /\ kind \in Programmed /\ n.ret = 0 /\ n.raised = None => n.fw = fw
  BY <1>1, FlashOutcome DEF IInv, NodeInv, Kept
<1>4. PICK n \in flash(node, fw, binary, offset) : Taken(n, "flash", fw)
  BY <1>2, <1>3, ReturnsOutcome
<1>5. /\ testing = "no" /\ uploads' \in [UserFw -> {"closed", "waiting", "called"}]
      /\ fw \in UserFw => uploads'[fw] = "called"
  BY <1>2, CallMarks
<1>6. NodeInv'
  BY <1>2, <1>3, <1>4, <1>5 DEF IInv, NodeInv, Taken, Kept, Services, HasDebugger
<1>7. CurrentFwInv'
  BY <1>1, <1>3, <1>4, <1>5 DEF IInv, NodeInv, CurrentFwInv, Taken, Programmed, NoKinds
<1>8. ZeroMeansDone'
  BY <1>3, <1>4 DEF IInv, NodeInv, ZeroMeansDone, Succeeded, Taken, Programmed
<1>9. IdleInv'
  BY <1>2, <1>3, <1>4 DEF IInv, NodeInv, IdleInv, Taken
<1>10. DebugFlagsAgree'
  BY <1>2, <1>3, <1>4 DEF IInv, DebugFlagsAgree, Taken, Kept
<1>11. node.up = Services /\ node'.up # Services => last'.raised \in {"IOError", "ValueError"}
  BY <1>3, <1>4 DEF Taken
<1>12. last'.op = "flash" /\ last'.raised # "RuntimeError" /\ kind' = kind
  BY <1>3, <1>4 DEF Taken, None
<1>13. QED
  BY <1>6, <1>7, <1>8, <1>9, <1>10, <1>11, <1>12 DEF IInv

(* Steps that leave the processes and the firmware to debug as they are. *)
LEMMA ResetStep ==
  ASSUME IInv, ResetNode
  PROVE  /\ IInv' /\ node'.up = node.up /\ kind' = kind
         /\ last'.op = "reset" /\ last'.raised = None
<1>1. /\ Returns("reset", None, reset(node))
      /\ UNCHANGED <<phase, testing, uploads, idle_flash, tests_left>>
  BY DEF ResetNode
<1>2. \A n \in reset(node) : Quiet(node, n) /\ n \in Nodes
  BY ResetOutcome DEF IInv, NodeInv, Quiet, Kept
<1>3. PICK n \in reset(node) : Taken(n, "reset", None)
  BY <1>1, <1>2, ReturnsOutcome
<1>4. NodeInv'
  BY <1>1, <1>2, <1>3 DEF IInv, NodeInv, Taken, Quiet, Kept, Services, HasDebugger, HasAutotest
<1>5. CurrentFwInv'
  BY <1>1, <1>2, <1>3 DEF IInv, CurrentFwInv, Taken, Quiet
<1>6. ZeroMeansDone'
  BY <1>3 DEF ZeroMeansDone, Succeeded, Taken
<1>7. IdleInv'
  BY <1>1, <1>2, <1>3 DEF IInv, IdleInv, Taken, Quiet
<1>8. DebugFlagsAgree'
  BY <1>1, <1>2, <1>3 DEF IInv, DebugFlagsAgree, Taken, Quiet, Kept
<1>9. last'.op = "reset" /\ last'.raised = None /\ node'.up = node.up /\ kind' = kind
  BY <1>2, <1>3 DEF Taken, Quiet, IInv, NodeInv
<1>10. QED
  BY <1>4, <1>5, <1>6, <1>7, <1>8, <1>9 DEF IInv

LEMMA DebugStartStep ==
  ASSUME IInv, DebugStart
  PROVE  /\ IInv' /\ node'.up = node.up /\ kind' = kind
         /\ last'.op = "debug_start" /\ last'.raised = None
         /\ node'.fw # node.fw =>
              /\ kind = "edbg"
              /\ node.fw = "broken" \/ node'.fw \in {"broken", failed_fw}
              /\ \/ node.current_fw \in StaticFw
                 \/ node.current_fw \in UserFw /\ uploads[node.current_fw] = "called"
<1> DEFINE S == IF kind = "edbg" THEN node_edbg_debug_start(node) ELSE openocd_debug_start(node)
<1>1. /\ Returns("debug_start", None, S) /\ HasDebugger
      /\ UNCHANGED <<phase, testing, uploads, idle_flash, tests_left>>
  BY DEF DebugStart
<1>2. \A n \in S :
        /\ n \in Nodes /\ n.debug /\ n.up = node.up /\ n.raised = None
        /\ n.current_fw = node.current_fw
        /\ IF kind = "edbg" THEN n.in_debug ELSE n.in_debug = node.in_debug
        /\ n.fw # node.fw => /\ kind = "edbg" /\ node.current_fw # None
                             /\ n.fw \in {node.current_fw, "broken"}
                             /\ Exists(node.current_fw)
  BY <1>1, DebugStartOutcome DEF IInv, NodeInv
<1> HIDE DEF S
<1>3. PICK n \in S : Taken(n, "debug_start", None)
  BY <1>1, <1>2, ReturnsOutcome
<1>4. NodeInv'
  BY <1>1, <1>2, <1>3 DEF IInv, NodeInv, Taken, Services, HasDebugger, HasAutotest
<1>5. CurrentFwInv'
  BY <1>1, <1>2, <1>3 DEF IInv, CurrentFwInv, Taken
<1>6. ZeroMeansDone'
  BY <1>3 DEF ZeroMeansDone, Succeeded, Taken
<1>7. IdleInv'
  BY <1>1, <1>2, <1>3 DEF IInv, IdleInv, Taken
<1>8. DebugFlagsAgree'
  BY <1>1, <1>2, <1>3 DEF IInv, NodeInv, DebugFlagsAgree, Taken
<1>9. ASSUME node'.fw # node.fw
      PROVE  /\ kind = "edbg"
             /\ node.fw = "broken" \/ node'.fw \in {"broken", failed_fw}
             /\ \/ node.current_fw \in StaticFw
                \/ node.current_fw \in UserFw /\ uploads[node.current_fw] = "called"
  <2>1. /\ kind = "edbg" /\ node.current_fw # None /\ node'.fw \in {node.current_fw, "broken"}
        /\ Exists(node.current_fw)
    BY <1>2, <1>3, <1>9 DEF Taken
  <2>2. /\ node.fw \in {node.current_fw, "broken"} \/ failed_fw = node.current_fw
        /\ node.current_fw \in UserFw => uploads[node.current_fw] # "waiting"
    BY <2>1 DEF IInv, CurrentFwInv
  <2>3. node.current_fw \in UserFw => uploads[node.current_fw] \in {"closed", "waiting", "called"}
    BY DEF IInv, NodeInv
  <2>4. QED
    BY <1>9, <2>1, <2>2, <2>3 DEF Exists
<1>10. last'.op = "debug_start" /\ last'.raised = None /\ node'.up = node.up /\ kind' = kind
  BY <1>2, <1>3 DEF Taken
<1>11. QED
  BY <1>4, <1>5, <1>6, <1>7, <1>8, <1>9, <1>10 DEF IInv

LEMMA DebugStopStep ==
  ASSUME IInv, DebugStop
  PROVE  /\ IInv' /\ node'.up = node.up /\ kind' = kind
         /\ last'.op = "debug_stop" /\ last'.raised = None
<1> DEFINE S == IF kind = "edbg" THEN node_edbg_debug_stop(node) ELSE openocd_debug_stop(node)
<1>1. /\ Returns("debug_stop", None, S) /\ HasDebugger
      /\ UNCHANGED <<phase, testing, uploads, idle_flash, tests_left>>
  BY DEF DebugStop
<1>2. \A n \in S :
        /\ n \in Nodes /\ ~n.debug /\ n.up = node.up /\ n.raised = None
        /\ n.fw = node.fw /\ n.current_fw = node.current_fw
        /\ IF kind = "edbg" THEN ~n.in_debug ELSE n.in_debug = node.in_debug
  BY DebugStopOutcome DEF IInv, NodeInv
<1> HIDE DEF S
<1>3. PICK n \in S : Taken(n, "debug_stop", None)
  BY <1>1, <1>2, ReturnsOutcome
<1>4. NodeInv'
  BY <1>1, <1>2, <1>3 DEF IInv, NodeInv, Taken, Services, HasDebugger, HasAutotest
<1>5. CurrentFwInv'
  BY <1>1, <1>2, <1>3 DEF IInv, CurrentFwInv, Taken
<1>6. ZeroMeansDone'
  BY <1>3 DEF ZeroMeansDone, Succeeded, Taken
<1>7. IdleInv'
  BY <1>1, <1>2, <1>3 DEF IInv, IdleInv, Taken
<1>8. DebugFlagsAgree'
  BY <1>1, <1>2, <1>3 DEF IInv, NodeInv, DebugFlagsAgree, Taken
<1>9. last'.op = "debug_stop" /\ last'.raised = None /\ node'.up = node.up /\ kind' = kind
  BY <1>2, <1>3 DEF Taken
<1>10. QED
  BY <1>4, <1>5, <1>6, <1>7, <1>8, <1>9 DEF IInv

(* The setup of auto_tests raises for a redirection it meets, an            *)
(* experiment's included.                                                   *)
LEMMA AutotestSetupStep ==
  ASSUME IInv, AutotestSetup
  PROVE  /\ IInv' /\ last'.op = "autotest_setup"
         /\ last'.raised = "RuntimeError" =>
              idle_flash \/ tests_left = "raised" \/ phase = "experiment"
         /\ node.up = Services => node'.up = Services
<1>1. /\ Returns("autotest_setup", "autotest", setup(node, "autotest")) /\ testing = "begun"
      /\ testing' = IF last'.raised = None THEN "set_up" ELSE "no"
      /\ tests_left' = IF last'.raised = None THEN tests_left ELSE "raised"
      /\ UNCHANGED <<phase, uploads, idle_flash>>
  BY DEF AutotestSetup
<1>2. "autotest" \in StaticFw /\ "autotest" \notin UserFw /\ "autotest" # None
      /\ "autotest" \in Firmwares
  BY FwAssumption, RequestedFw
<1>3. \A n \in setup(node, "autotest") :
        /\ SetUp(node, Services, n) /\ n \in Nodes
        /\ kind = "edbg" => ~n.in_debug /\ n.current_fw = "autotest"
        /\ kind # "edbg" => n.in_debug = node.in_debug
        /\ kind \in Programmed /\ n.ret = 0 /\ n.raised = None => n.fw = "autotest"
  BY <1>2, SetupOutcome DEF IInv, NodeInv, SetUp
<1>4. PICK n \in setup(node, "autotest") : Taken(n, "autotest_setup", "autotest")
  BY <1>1, <1>3, ReturnsOutcome
<1>5. NodeInv'
  BY <1>1, <1>3, <1>4 DEF IInv, NodeInv, Taken, SetUp, Services, HasDebugger, HasAutotest
<1>6. CurrentFwInv'
  BY <1>1, <1>2, <1>3, <1>4 DEF IInv, NodeInv, CurrentFwInv, Taken, Programmed, NoKinds
<1>7. ZeroMeansDone'
  BY <1>3, <1>4 DEF IInv, NodeInv, ZeroMeansDone, Succeeded, Taken, SetUp, Services, Programmed
<1>8. IdleInv'
  BY <1>1 DEF IdleInv
<1>9. DebugFlagsAgree'
  BY <1>1, <1>3, <1>4 DEF IInv, NodeInv, DebugFlagsAgree, Taken, SetUp, None
<1>10. last'.raised = "RuntimeError" =>
         idle_flash \/ tests_left = "raised" \/ phase = "experiment"
  BY <1>1, <1>3, <1>4 DEF Taken, SetUp, IInv, NodeInv, IdleInv
<1>11. node.up = Services => node'.up = Services
  <2>1. node.up \subseteq n.up /\ n.up \subseteq Services /\ node'.up = n.up
    BY <1>3, <1>4 DEF Taken, SetUp
  <2>2. ASSUME node.up = Services PROVE n.up = Services
    BY <2>1, <2>2
  <2>3. QED
    BY <2>1, <2>2
<1>12. last'.op = "autotest_setup"
  BY <1>4 DEF Taken
<1>13. QED
  BY <1>5, <1>6, <1>7, <1>8, <1>9, <1>10, <1>11, <1>12 DEF IInv

LEMMA AutotestTeardownStep ==
  ASSUME IInv, NEW stop \in BOOLEAN, AutotestTeardown(stop)
  PROVE  IInv' /\ last'.op = "autotest_teardown" /\ last'.raised = None
<1> DEFINE fw == IF stop THEN "idle" ELSE None
<1>1. /\ Returns("autotest_teardown", fw, teardown_open_node(node, stop))
      /\ testing # "no" /\ testing' = "no"
      /\ idle_flash' = (idle_flash /\ ~stop)
      /\ tests_left' = IF stop THEN "none" ELSE "blinked"
      /\ UNCHANGED <<phase, uploads>>
  BY DEF AutotestTeardown
<1>2. "idle" \in StaticFw /\ "idle" # None /\ "idle" \notin UserFw
  BY FwAssumption, RequestedFw
<1>3. \A n \in teardown_open_node(node, stop) :
        /\ TornDown(node, n) /\ n \in Nodes
        /\ kind # "edbg" => n.in_debug = node.in_debug
        /\ ~HasDebugger => n.debug = node.debug
        /\ stop /\ HasDebugger => ~n.debug
        /\ stop /\ kind = "edbg" => ~n.in_debug /\ n.current_fw = "idle"
        /\ stop /\ kind \in Programmed /\ n.ret = 0 => n.fw = "idle"
        /\ ~stop => /\ n.in_debug = node.in_debug /\ n.debug = node.debug
                    /\ n.fw = node.fw /\ n.current_fw = node.current_fw
  BY <1>1, TestsTeardownOutcome DEF IInv, NodeInv, TornDown
<1>4. PICK n \in teardown_open_node(node, stop) : Taken(n, "autotest_teardown", fw)
  BY <1>1, <1>3, ReturnsOutcome
<1>5. NodeInv'
  BY <1>1, <1>3, <1>4 DEF IInv, NodeInv, Taken, TornDown, Services, HasDebugger
<1>6. CurrentFwInv'
  BY <1>1, <1>2, <1>3, <1>4 DEF IInv, NodeInv, CurrentFwInv, Taken, Programmed, NoKinds, TornDown
<1>7. ZeroMeansDone'
  BY <1>3, <1>4 DEF ZeroMeansDone, Succeeded, Taken, TornDown
<1>8. IdleInv'
  BY <1>3, <1>4 DEF IdleInv, Taken, TornDown
<1>9. DebugFlagsAgree'
  BY <1>1, <1>3, <1>4 DEF IInv, NodeInv, DebugFlagsAgree, Taken, HasDebugger
<1>10. last'.op = "autotest_teardown" /\ last'.raised = None
  BY <1>3, <1>4 DEF Taken, TornDown
<1>11. QED
  BY <1>5, <1>6, <1>7, <1>8, <1>9, <1>10 DEF IInv

(* Steps that do not call the node. *)
Aside == AutotestBegin \/ AutotestRaises \/ (\E fw \in UserFw : Upload(fw) \/ CloseFile(fw))

LEMMA AsideStep ==
  ASSUME IInv, Aside
  PROVE  IInv' /\ UNCHANGED <<kind, phase, node, last>>
<1>1. UNCHANGED <<kind, phase, node, last, failed_fw, idle_flash>>
  BY DEF Aside, AutotestBegin, AutotestRaises, Upload, CloseFile
<1>2. ZeroMeansDone'
  BY <1>1 DEF IInv, ZeroMeansDone, Succeeded, Services
<1>3. CASE AutotestBegin
  BY <1>1, <1>2, <1>3 DEF AutotestBegin, IInv, NodeInv, CurrentFwInv, IdleInv, DebugFlagsAgree,
                          Services, HasDebugger, HasAutotest
<1>4. CASE AutotestRaises
  BY <1>1, <1>2, <1>4 DEF AutotestRaises, IInv, NodeInv, CurrentFwInv, IdleInv, DebugFlagsAgree,
                          Services, HasDebugger, HasAutotest
<1>5. ASSUME NEW fw \in UserFw, Upload(fw) \/ CloseFile(fw)
      PROVE  IInv'
  <2>1. UNCHANGED <<testing, tests_left>>
    BY <1>5 DEF Upload, CloseFile
  <2>2. /\ uploads' \in [UserFw -> {"closed", "waiting", "called"}]
        /\ \A f \in UserFw : uploads'[f] = "waiting" =>
             uploads[f] = "waiting" \/ f # node.current_fw
    BY <1>5 DEF Upload, CloseFile, IInv, NodeInv
  <2>3. CurrentFwInv'
    BY <1>1, <2>2 DEF IInv, CurrentFwInv
  <2>4. NodeInv' /\ IdleInv' /\ DebugFlagsAgree'
    BY <1>1, <2>1, <2>2 DEF IInv, NodeInv, IdleInv, DebugFlagsAgree, Services, HasDebugger,
                            HasAutotest
  <2>5. QED
    BY <1>2, <2>3, <2>4 DEF IInv
<1>6. QED
  BY <1>1, <1>3, <1>4, <1>5 DEF Aside

(* Whatever the words of a request (common.booleanize), it flashes its      *)
(* firmware with some flag, or it is none of the node's steps.              *)
LEMMA Steps ==
  ASSUME Next
  PROVE  \/ \E fw \in StaticFw \cup UserFw, binary \in BOOLEAN, offset \in {0, 1} :
              Flash(fw, binary, offset)
         \/ \E fw \in StaticFw \cup UserFw : Setup(fw)
         \/ Teardown \/ ResetNode \/ DebugStart \/ DebugStop
         \/ AutotestSetup \/ (\E stop \in BOOLEAN : AutotestTeardown(stop))
         \/ Aside
<1>1. ASSUME NEW fw \in UserFw, NEW word, NEW offset, FlashRequest(fw, word, offset)
      PROVE  \E binary \in BOOLEAN : Flash(fw, binary, offset)
  <2>1. (IF word = "" THEN {FALSE} ELSE booleanize(word)) \subseteq BOOLEAN
    BY DEF booleanize
  <2>2. QED
    BY <1>1, <2>1 DEF FlashRequest
<1>2. CASE \E fw \in UserFw, word \in FlagWords, offset \in {0, 1} :
             FlashRequest(fw, word, offset)
  BY <1>1, <1>2
<1>3. CASE \E fw \in StaticFw : Flash(fw, FALSE, 0)
  BY <1>3
<1>4. QED
  BY <1>2, <1>3 DEF Next, Aside

(* No sequence of calls, failing ones included, leaves the invariant. *)
THEOREM Invariance == Spec => []IInv
<1>1. Init => IInv
  <2> SUFFICES ASSUME Init PROVE IInv
    OBVIOUS
  <2> USE DEF Init
  <2>1. /\ node \in Nodes /\ node.raised = None /\ node.ret = 0
        /\ node.up = {} /\ node.debug = FALSE /\ node.in_debug = FALSE
        /\ node.current_fw = None
    BY DEF Nodes, Firmwares
  <2>2. NodeInv /\ CurrentFwInv /\ DebugFlagsAgree /\ IdleInv
    BY <2>1 DEF NodeInv, CurrentFwInv, DebugFlagsAgree, IdleInv
  <2>3. last.op = None /\ last.raised = None
    OBVIOUS
  <2>4. ZeroMeansDone
    BY <2>1, <2>3 DEF ZeroMeansDone, Succeeded, None
  <2>5. QED
    BY <2>2, <2>4 DEF IInv
<1>2. IInv /\ [Next]_vars => IInv'
  <2> SUFFICES ASSUME IInv, [Next]_vars PROVE IInv'
    OBVIOUS
  <2>1. ASSUME NEW fw \in StaticFw \cup UserFw, Setup(fw) PROVE IInv'
    BY <2>1, SetupStep
  <2>2. ASSUME NEW fw \in StaticFw \cup UserFw, NEW binary, NEW offset,
               Flash(fw, binary, offset)
        PROVE  IInv'
    BY <2>2, FlashStep
  <2>3. CASE Teardown
    BY <2>3, TeardownStep
  <2>4. CASE ResetNode
    BY <2>4, ResetStep
  <2>5. CASE DebugStart
    BY <2>5, DebugStartStep
  <2>6. CASE DebugStop
    BY <2>6, DebugStopStep
  <2>7. CASE AutotestSetup
    BY <2>7, AutotestSetupStep
  <2>8. ASSUME NEW stop \in BOOLEAN, AutotestTeardown(stop) PROVE IInv'
    BY <2>8, AutotestTeardownStep
  <2>9. CASE Aside
    BY <2>9, AsideStep
  <2>10. CASE UNCHANGED vars
    BY <2>10 DEF vars, IInv, NodeInv, CurrentFwInv, ZeroMeansDone, Succeeded, IdleInv,
                 DebugFlagsAgree, Services, HasDebugger, HasAutotest
  <2>11. QED
    BY <2>1, <2>2, <2>3, <2>4, <2>5, <2>6, <2>7, <2>8, <2>9, <2>10, Steps
<1>3. QED
  BY <1>1, <1>2, PTL DEF Spec

(* setup, flash and teardown (nodes' classes under open_nodes/) return 0    *)
(* only when the firmware, the processes and the debugger are as asked.     *)
THEOREM ZeroIsDone == Spec => []ZeroMeansDone
<1>1. IInv => ZeroMeansDone
  BY DEF IInv
<1>2. QED
  BY <1>1, Invariance, PTL

(* Without an experiment a process runs only after a Zigduino's or a        *)
(* Firefly's flash (NodeZigduino.flash, NodeFirefly.flash) or after         *)
(* auto_tests that raised between _setup_open_node and its teardown.        *)
THEOREM NothingRunsIdle == Spec => []IdleRunsNothing
<1>1. IInv => IdleRunsNothing
  BY DEF IInv, NodeInv, IdleInv, IdleRunsNothing
<1>2. QED
  BY <1>1, Invariance, PTL

(* Only setup raises RuntimeError (Thread.start): an experiment's after a   *)
(* flash without one or tests that raised, and that of auto_tests           *)
(* (autotest.py, _setup_open_node) in an experiment too.                    *)
THEOREM SetupStartsTwice == Spec => OnlySetupStartsTwice
<1> DEFINE A == last' # last /\ last'.raised = "RuntimeError" =>
                  \/ last'.op = "setup" /\ (idle_flash \/ tests_left = "raised")
                  \/ last'.op = "autotest_setup"
                       /\ (idle_flash \/ tests_left = "raised" \/ phase = "experiment")
<1>1. IInv /\ [Next]_vars => [A]_vars
  <2> SUFFICES ASSUME IInv, Next, last' # last, last'.raised = "RuntimeError" PROVE A
    OBVIOUS
  <2> HIDE DEF A
  <2>1. /\ ~Teardown /\ ~ResetNode /\ ~DebugStart /\ ~DebugStop
        /\ \A stop \in BOOLEAN : ~AutotestTeardown(stop)
    BY TeardownStep, ResetStep, DebugStartStep, DebugStopStep, AutotestTeardownStep DEF None
  <2>2. \A fw \in StaticFw \cup UserFw, binary \in BOOLEAN, offset \in {0, 1} :
          ~Flash(fw, binary, offset)
    BY FlashStep
  <2>3. ~Aside
    BY AsideStep
  <2>4. CASE AutotestSetup
    BY <2>4, AutotestSetupStep DEF A
  <2>5. ASSUME NEW fw \in StaticFw \cup UserFw, Setup(fw) PROVE A
    BY <2>5, SetupStep DEF A
  <2>6. QED
    BY <2>1, <2>2, <2>3, <2>4, <2>5, Steps
<1>2. QED
  BY <1>1, Invariance, PTL DEF Spec, OnlySetupStartsTwice

(* NodeEdbg._in_debug never says that a debugger runs which does not, and   *)
(* both agree outside an experiment and without tests left behind.          *)
THEOREM FlagsAgree == Spec => []DebugFlagsAgree
<1>1. IInv => DebugFlagsAgree
  BY DEF IInv
<1>2. QED
  BY <1>1, Invariance, PTL

(* Flash, reset and debug keep an experiment's redirection, unless the      *)
(* flash raised (NodeZigduino._disable_dtr, or cc2538.flash given an ELF    *)
(* file without code); auto_tests stop it only in their teardown.           *)
THEOREM RedirectionIsKept == Spec => ExperimentKeepsRedirection
<1> DEFINE A == phase = "experiment" /\ phase' = "experiment" /\ node.up = Services
                  /\ node'.up # Services =>
                    \/ last'.op = "flash" /\ last'.raised \in {"IOError", "ValueError"}
                    \/ last'.op = "autotest_teardown"
<1>1. IInv /\ [Next]_vars => [A]_vars
  <2> SUFFICES ASSUME IInv, Next, phase = "experiment", phase' = "experiment",
                      node.up = Services, node'.up # Services
               PROVE  \/ last'.op = "flash" /\ last'.raised \in {"IOError", "ValueError"}
                      \/ last'.op = "autotest_teardown"
    OBVIOUS
  <2>1. ~Teardown /\ \A fw \in StaticFw \cup UserFw : ~Setup(fw)
    BY TeardownStep, SetupStep
  <2>2. ~ResetNode /\ ~DebugStart /\ ~DebugStop /\ ~AutotestSetup /\ ~Aside
    BY ResetStep, DebugStartStep, DebugStopStep, AutotestSetupStep, AsideStep
  <2>3. ASSUME NEW fw \in StaticFw \cup UserFw, NEW binary \in BOOLEAN, NEW offset \in {0, 1},
               Flash(fw, binary, offset)
        PROVE  last'.op = "flash" /\ last'.raised \in {"IOError", "ValueError"}
    BY <2>3, FlashStep
  <2>4. ASSUME NEW stop \in BOOLEAN, AutotestTeardown(stop)
        PROVE  last'.op = "autotest_teardown"
    BY <2>4, AutotestTeardownStep
  <2>5. QED
    BY <2>1, <2>2, <2>3, <2>4, Steps
<1>2. QED
  BY <1>1, Invariance, PTL DEF Spec, ExperimentKeepsRedirection

(* NodeEdbg.debug_start gives a node that works no firmware but the one a   *)
(* failed request had asked for, and a user's only while the request that   *)
(* brought it has not closed its file (rest_server.py, open_flash).         *)
THEOREM DebuggingKeepsFirmware == Spec => DebugStartKeepsFirmware
<1> DEFINE B == /\ kind = "edbg"
                /\ node.fw = "broken" \/ node'.fw \in {"broken", failed_fw}
                /\ \/ node.current_fw \in StaticFw
                   \/ node.current_fw \in UserFw /\ uploads[node.current_fw] = "called"
           A == last'.op = "debug_start" /\ node'.fw # node.fw => B
<1>1. IInv /\ [Next]_vars => [A]_vars
  <2> SUFFICES ASSUME IInv, Next, last'.op = "debug_start", node'.fw # node.fw PROVE B
    OBVIOUS
  <2>1. ~Teardown /\ ~ResetNode /\ ~DebugStop /\ ~AutotestSetup /\ ~Aside
    BY TeardownStep, ResetStep, DebugStopStep, AutotestSetupStep, AsideStep
  <2>2. \A fw \in StaticFw \cup UserFw, binary \in BOOLEAN, offset \in {0, 1} :
          ~Flash(fw, binary, offset)
    BY FlashStep
  <2>3. /\ \A fw \in StaticFw \cup UserFw : ~Setup(fw)
        /\ \A stop \in BOOLEAN : ~AutotestTeardown(stop)
    BY SetupStep, AutotestTeardownStep
  <2>4. DebugStart
    BY <2>1, <2>2, <2>3, Steps
  <2>5. QED
    BY <2>4, DebugStartStep
<1>2. QED
  BY <1>1, Invariance, PTL DEF Spec, DebugStartKeepsFirmware
=============================================================================
