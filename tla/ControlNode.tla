---------------------------- MODULE ControlNode ----------------------------
(***************************************************************************)
(* The control node classes: iotlab and iotlabm3, which command a control  *)
(* node through control_node_serial, rpi3, which switches a USB hub and    *)
(* runs a camera server, and no, which is not there.                       *)
(*                                                                         *)
(* A method is the list of calls it makes, whose return codes it adds up;  *)
(* the manager's lock lets one method run at a time.  Commands goes with   *)
(* it: a command that Python sends becomes a packet or is refused there.   *)
(* A command or its answer may be lost, and control_node_serial may end,   *)
(* between any two calls.  An answer that comes after its command's second *)
(* is read by the next command that waits, which only compares names.      *)
(***************************************************************************)
EXTENDS Commands

CONSTANTS
  Kinds,           \* the classes to consider
  ProfileDicts,    \* profiles as requests give them
  Alim,            \* open_node.ALIM
  Archi, Num,      \* node_id
  MaxLate,         \* bound: answers under way after their command timed out
  LateCommands     \* bound: the commands whose answers may come late

ASSUME KindsAssumption == Kinds \subseteq {"iotlab", "iotlabm3", "rpi3", "no"}
ASSUME AlimAssumption == Alim \in {"3.3V", "5V"}
ASSUME ProfilesAssumption == \A p \in ProfileDicts : IsProfileDict(p)
ASSUME MaxLateAssumption == MaxLate \in Nat
ASSUME NumAssumption == Num \in Nat /\ Num < 4096  \* 12 bits of a packet

(* default_profile.json *)
DefaultProfile == [power |-> "dc", consumption |-> <<>>, radio |-> <<>>]

VARIABLES
  kind,             \* the class of the control node
  camera_config,    \* CAMERA_CONFIG is a file
  profile,          \* self.profile
  open_node_state,  \* self.open_node_state
  phase,            \* what the manager has done for an experiment
  method,           \* the method being called
  todo,             \* the calls it has still to make
  ret,              \* its ret_val
  link,             \* control_node_serial runs
  hw,               \* the control node, or the USB hub
  camera,           \* the mjpg_streamer thread is started
  late,             \* the commands whose ACK is under way, none waits for them
  unsure,           \* ghost: power may not be what the last answer said
  doubtful          \* ghost: fields whose command took the ACK of another one

node_vars == <<kind, camera_config>>
vars == <<node_vars, profile, open_node_state, phase, method, todo, ret, link,
          hw, camera, late, unsure, doubtful>>

Iotlab == kind \in {"iotlab", "iotlabm3"}

-----------------------------------------------------------------------------
(* Calls *)

Send(line) == [do |-> "send", line |-> line, state |-> open_node_state]
Power(state, line) == [do |-> "power", line |-> line, state |-> state]
Call(do, counts) == [do |-> do, counts |-> counts]

(* Mutant: open_start is called with the profile's source. *)
ConfigureStarts(p) ==
  CASE kind = "iotlab" ->
         << Power("start", start_stop("start", p.power)),
            Send(config_consumption(Alim, p)), Send(config_radio(p)) >>
    [] kind = "iotlabm3" -> << Send(config_radio(p)) >>
    [] OTHER -> <<>>

(* configure_profile: the power state is the one the last answered command  *)
(* set, sent again with the profile's source.                               *)
Configure(p) ==
  CASE kind = "iotlab" ->
         << Send(start_stop(open_node_state, p.power)),
            Send(config_consumption(Alim, p)), Send(config_radio(p)) >>
    [] kind = "iotlabm3" -> << Send(config_radio(p)) >>
    [] OTHER -> <<>>

(* open_start and open_stop; iotlabm3 ignores them, no does not have them.  *)
OpenPower(state, source) ==
  CASE kind = "iotlab" -> << Power(state, start_stop(state, source)) >>
    [] kind = "rpi3" -> << [do |-> "ykush", state |-> state] >>
    [] OTHER -> <<>>

StartCalls ==
  (IF Iotlab THEN <<Call("reset", TRUE), Call("start", TRUE)>> ELSE <<>>)
    \o OpenPower("start", "dc")

StopCalls ==
  OpenPower("stop", "dc")
    \o (IF Iotlab THEN <<Call("stop", TRUE), Call("reset", TRUE)>> ELSE <<>>)

StartExperimentCalls(p) ==
  (IF Iotlab
   THEN << Send(Line("green_led_blink", <<>>)), Send(Line("set_time", <<>>)) >>
          \o [i \in 1..Len(set_node_id(Archi, Num)) |-> Send(set_node_id(Archi, Num)[i])]
   ELSE <<>>)
    \o Configure(p)
    \o (IF kind = "rpi3" /\ camera_config THEN <<Call("camera_start", TRUE)>> ELSE <<>>)

StopExperimentCalls ==
  Configure(DefaultProfile)
    \o OpenPower("start", "dc")
    \o (IF Iotlab THEN <<Send(Line("green_led_on", <<>>))>> ELSE <<>>)
    \o (IF kind = "rpi3" /\ camera_config THEN <<Call("camera_stop", TRUE)>> ELSE <<>>)

(* The results of cn_serial.start and stop are not added by the auto tests. *)
AutotestSetupCalls ==
  IF Iotlab THEN << Call("reset", TRUE), Call("start", FALSE),
                    Send(Line("set_time", <<>>)) >>
  ELSE <<>>

AutotestTeardownCalls(stop_on) ==
  IF Iotlab THEN (IF stop_on THEN OpenPower("stop", "dc") ELSE <<>>)
                   \o <<Call("stop", FALSE)>>
  ELSE <<>>

-----------------------------------------------------------------------------
Init ==
  /\ kind \in Kinds
  /\ camera_config \in IF kind = "rpi3" THEN BOOLEAN ELSE {FALSE}
  /\ profile = DefaultProfile
  /\ open_node_state = "stop"
  /\ phase = "none"
  /\ method = "none"
  /\ todo = <<>>
  /\ ret = 0
  /\ link = FALSE
  /\ hw = Reset(FALSE)
  /\ camera = FALSE
  /\ late = <<>>
  /\ unsure = FALSE
  /\ doubtful = {}

(* A method is called; profile is assigned before anything is sent. *)
Enter(name, p, calls) ==
  /\ method = "none"
  /\ method' = name
  /\ profile' = p
  /\ todo' = calls
  /\ ret' = 0
  /\ UNCHANGED <<node_vars, open_node_state, link, hw, camera, late, unsure, doubtful>>

Start ==
  /\ phase = "none"
  /\ phase' = "started"
  /\ Enter("start", profile, StartCalls)

StartExperiment(p) ==
  /\ phase = "started"
  /\ ProfileValid(p)
  /\ phase' = "running"
  /\ Enter("start_experiment", p, StartExperimentCalls(p))

StopExperiment ==
  /\ phase = "running"
  /\ phase' = "stopping"
  /\ Enter("stop_experiment", DefaultProfile, StopExperimentCalls)

Stop ==
  /\ phase = "stopping"
  /\ phase' = "none"
  /\ Enter("stop", profile, StopCalls)

(* The methods below are called with or without an experiment. *)
ConfigureProfile(p) ==
  /\ ProfileValid(p)
  /\ phase' = phase
  /\ Enter("configure_profile", p, Configure(p))

(* Routes for open_start and open_stop exist only if the class has them. *)
HasOpenPower == kind # "no"

OpenStartStop(state) ==
  /\ HasOpenPower
  /\ phase' = phase
  /\ Enter("open_power", profile, OpenPower(state, profile.power))

AutotestSetup ==
  /\ phase' = phase
  /\ Enter("autotest_setup", profile, AutotestSetupCalls)

AutotestTeardown(stop_on) ==
  /\ phase' = phase
  /\ Enter("autotest_teardown", profile, AutotestTeardownCalls(stop_on))

(* The method returns ret_val to the manager. *)
Return ==
  /\ method # "none"
  /\ todo = <<>>
  /\ method' = "none"
  /\ ret' = 0
  /\ doubtful' = {}
  /\ UNCHANGED <<node_vars, profile, open_node_state, phase, todo, link, hw,
                 camera, late, unsure>>

-----------------------------------------------------------------------------
(* The calls, one after the other *)

Next1(do) == todo # <<>> /\ Head(todo).do \in do /\ todo' = Tail(todo)

IsPower(line) == line.name \in {"start", "stop"}

(* The fields of the control node that a command sets. *)
Written(name) ==
  CASE name = "start" -> {"on", "source"}
    [] name = "stop" -> {"on"}
    [] name = "set_time" -> {"time"}
    [] name = "set_node_id" -> {"id"}
    [] name \in {"green_led_on", "green_led_blink"} -> {"led"}
    [] name = "config_consumption_measure" -> {"consumption"}
    [] OTHER -> {"radio"}

(* open_start and open_stop set open_node_state when the answer is right. *)
Answered(c) ==
  /\ ret' = ret
  /\ open_node_state' = IF c.do = "power" THEN c.state ELSE open_node_state

(* Mutant: open_node_state is set whatever the answer was. *)
SendFailsSetsState ==
  /\ Next1({"send", "power"})
  /\ ret' = 1
  /\ open_node_state' = Head(todo).state
  /\ UNCHANGED <<node_vars, profile, phase, method, link, hw, camera, late,
                 unsure, doubtful>>

(* The command is not executed, since the program refuses the line or does  *)
(* not run or since it is lost, and no answer of its name comes in time.    *)
SendFails ==
  /\ Next1({"send", "power"})
  /\ ret' = 1
  /\ UNCHANGED <<node_vars, profile, open_node_state, phase, method, link, hw,
                 camera, late, unsure, doubtful>>

(* The command is executed and an answer of its name comes in time: its own *)
(* one, or that of an earlier command, and then its own one is late or lost.*)
SendWorks ==
  /\ Next1({"send", "power"})
  /\ link
  /\ LET line == Head(todo).line IN
       /\ parse_cmd(line) # Refused
       /\ hw' = Execute(hw, parse_cmd(line)[1])
       /\ unsure' = (unsure /\ ~IsPower(line))
       /\ \/ late = <<>> /\ late' = late
          \/ /\ late # <<>> /\ Head(late) = line.name
             /\ late' \in {Tail(late), Append(Tail(late), line.name)}
  /\ Answered(Head(todo))
  /\ UNCHANGED <<node_vars, profile, phase, method, link, camera, doubtful>>

(* The command is executed and its answer is lost, or late. *)
SendUnanswered ==
  /\ Next1({"send", "power"})
  /\ link
  /\ LET line == Head(todo).line IN
       /\ parse_cmd(line) # Refused
       /\ hw' = Execute(hw, parse_cmd(line)[1])
       /\ unsure' = (unsure \/ IsPower(line))
       /\ \/ late' = late
          \/ /\ Len(late) < MaxLate /\ line.name \in LateCommands
             /\ late' = Append(late, line.name)
  /\ ret' = 1
  /\ UNCHANGED <<node_vars, profile, open_node_state, phase, method, link, camera,
                 doubtful>>

(* The command is not executed, and the late ACK of an earlier command of   *)
(* its name is taken for its answer.                                        *)
SendLate ==
  /\ Next1({"send", "power"})
  /\ link /\ late # <<>>
  /\ LET name == Head(todo).line.name IN
       /\ Head(late) = name
       /\ unsure' = (unsure \/ IsPower(Head(todo).line))
       /\ doubtful' = doubtful \cup Written(name)
  /\ late' = Tail(late)
  /\ Answered(Head(todo))
  /\ UNCHANGED <<node_vars, profile, phase, method, link, hw, camera>>

(* A late answer comes when no command waits and is thrown away by the next *)
(* one, is lost, or fails a command of another name.                        *)
LateArrives ==
  /\ late # <<>>
  /\ late' = Tail(late)
  /\ UNCHANGED <<node_vars, profile, open_node_state, phase, method, todo, ret,
                 link, hw, camera, unsure, doubtful>>

(* openocd.reset: what it does to the open node's power is not known here. *)
ResetNode ==
  /\ Next1({"reset"})
  /\ \/ \E on \in BOOLEAN : hw' = Reset(on) /\ unsure' = TRUE /\ ret' = ret
     \/ hw' = hw /\ unsure' = unsure /\ ret' = 1
  /\ UNCHANGED <<node_vars, profile, open_node_state, phase, method, link, camera,
                 late, doubtful>>

(* cn_serial.start and cn_serial.stop *)
StartLink ==
  /\ Next1({"start"})
  /\ link' \in BOOLEAN
  /\ ret' = IF link' \/ ~Head(todo).counts THEN ret ELSE 1
  /\ UNCHANGED <<node_vars, profile, open_node_state, phase, method, hw, camera,
                 late, unsure, doubtful>>

StopLink ==
  /\ Next1({"stop"})
  /\ link' = FALSE
  /\ late' = <<>>
  /\ UNCHANGED <<node_vars, profile, open_node_state, phase, method, ret, hw,
                 camera, unsure, doubtful>>

(* Nothing can be written to the program any more, so no command waits for  *)
(* the answers it left.                                                     *)
LinkDies ==
  /\ link
  /\ link' = FALSE
  /\ late' = <<>>
  /\ UNCHANGED <<node_vars, profile, open_node_state, phase, method, todo, ret,
                 hw, camera, unsure, doubtful>>

(* ykushcmd switches the port and may still return an error or time out. *)
Ykush ==
  /\ Next1({"ykush"})
  /\ LET on == [hw EXCEPT !.on = (Head(todo).state = "start")] IN
       \/ /\ hw' = on
          /\ open_node_state' = Head(todo).state
          /\ unsure' = FALSE
          /\ ret' = ret
       \/ /\ hw' \in {hw, on}
          /\ open_node_state' = open_node_state
          /\ unsure' = (unsure \/ hw' # hw)
          /\ ret' = 1
  /\ UNCHANGED <<node_vars, profile, phase, method, link, camera, late, doubtful>>

(* mjpg_streamer.start and stop *)
Camera ==
  /\ Next1({"camera_start", "camera_stop"})
  /\ camera' = (Head(todo).do = "camera_start")
  /\ ret' \in IF camera' THEN {ret, 1} ELSE {ret}
  /\ UNCHANGED <<node_vars, profile, open_node_state, phase, method, link, hw,
                 late, unsure, doubtful>>

Next ==
  \/ Start \/ StopExperiment \/ Stop \/ AutotestSetup
  \/ \E p \in ProfileDicts : StartExperiment(p) \/ ConfigureProfile(p)
  \/ ConfigureProfile(DefaultProfile)
  \/ \E state \in {"start", "stop"} : OpenStartStop(state)
  \/ \E stop_on \in BOOLEAN : AutotestTeardown(stop_on)
  \/ SendFails \/ SendWorks \/ SendUnanswered \/ SendLate \/ LateArrives
  \/ ResetNode \/ StartLink \/ StopLink \/ LinkDies \/ Ykush \/ Camera
  \/ Return

Spec == Init /\ [][Next]_vars

-----------------------------------------------------------------------------
(* Properties *)

Done(m) == method = m /\ todo = <<>> /\ ret = 0

(* What a profile asks for, in the terms of the control node. *)
Wanted(p) ==
  [ consumption |->
      IF p.consumption = <<>> \/ ~Measures(p.consumption[1]) THEN <<>>
      ELSE LET c == p.consumption[1] IN
           << [ source |-> IF p.power = "dc" THEN Alim ELSE "BATT",
                power |-> c.power, voltage |-> c.voltage, current |-> c.current,
                period |-> c.period, average |-> c.average ] >>,
    radio |->
      IF p.radio = <<>> THEN <<>>
      ELSE LET r == p.radio[1] IN
           << [ mode |-> r.mode, channels |-> Range(r.channels),
                period |-> IF r.period = NoValue THEN 0 ELSE r.period,
                num_per_channel |-> r.num_per_channel ] >> ]

(* The command that sets a field was not answered by an earlier one's ACK. *)
Sure(field) == field \notin doubtful

(* configure_profile and start_experiment return 0 only if the control node *)
(* measures exactly what the profile asks for, encoded in Python, parsed    *)
(* and encoded again in C, and powers the open node from the profile's      *)
(* source; start_experiment also leaves it with time, id and blinking led.  *)
(* stop_experiment returns 0 only if nothing is measured or filmed any more *)
(* and the open node is powered for its cleanup.  The one exception is a    *)
(* command of the method that took the late ACK of an earlier command of    *)
(* its name (cn_protocol.py, send_cmd): nothing is said of what it sets,    *)
(* and everything still is of what the other commands set.                  *)
ZeroMeansDone ==
  /\ Done("configure_profile") \/ Done("start_experiment") =>
       /\ Iotlab /\ Sure("radio") => hw.radio = Wanted(profile).radio
       /\ kind = "iotlab" =>
            /\ Sure("consumption") => hw.consumption = Wanted(profile).consumption
            /\ Sure("on") => (hw.on <=> open_node_state = "start")
            /\ Sure("on") /\ Sure("source") /\ hw.on => hw.source = profile.power
  /\ Done("start_experiment") /\ Iotlab =>
       /\ Sure("led") => hw.led = "blink"
       /\ Sure("time") => hw.time
       /\ Archi \in {"m3", "a8"} /\ Sure("id") => hw.id % 4096 = Num
  /\ Done("stop_experiment") =>
       /\ ~camera
       /\ Iotlab => (Sure("radio") => hw.radio = <<>>) /\ (Sure("led") => hw.led = "on")
       /\ kind = "iotlab" => /\ Sure("consumption") => hw.consumption = <<>>
                             /\ Sure("source") => hw.source = "dc"
       /\ kind \in {"iotlab", "rpi3"} /\ Sure("on") => hw.on

(* open_node_state, which the next profile is configured with, differs from *)
(* the power of the open node only if since the last one executed and       *)
(* answered a power command was executed without an answer, another took    *)
(* the late ACK of an earlier one, or the control node was reset.           *)
PowerStateTracked ==
  kind \in {"iotlab", "rpi3"} /\ ~unsure => (hw.on <=> open_node_state = "start")

(* Configuring a profile never turns the open node on or off, unless the    *)
(* answer of an earlier power command was lost or taken for another's.      *)
ProfileKeepsPower ==
  [][hw'.on # hw.on /\ method \in {"configure_profile", "start_experiment"}
       => unsure]_vars

(* A profile that Profile.from_dict accepts is refused by the C parser for  *)
(* exactly two reasons: its power source does not fit the format or is not  *)
(* in the dictionary, or a sniffer is given one channel several times.      *)
AcceptedUnlessKnown ==
  (\A line \in { start_stop(open_node_state, profile.power),
                 config_consumption(Alim, profile), config_radio(profile) } :
     parse_cmd(line) # Refused)
  <=> /\ profile.power \in {"dc", "battery"}
      /\ \A r \in Range(profile.radio) :
           r.mode = "sniffer" /\ Len(r.channels) > 1 =>
             \E i, j \in DOMAIN r.channels : r.channels[i] # r.channels[j]
=============================================================================
