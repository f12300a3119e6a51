------------------------- MODULE ControlNodeProofs --------------------------
(***************************************************************************)
(* Proofs about ControlNode and Commands, for any control node class,      *)
(* profiles, supply and node id.                                           *)
(*                                                                         *)
(* A method's calls are fixed when it is entered.  Two arguments about     *)
(* these lists:                                                            *)
(*   - the power command that configure_profile repeats with the state of  *)
(*     that moment is sent before every call that can change the state, so *)
(*     the power is tracked (IInv);                                        *)
(*   - as long as no call has failed, each value that the method promises  *)
(*     is there to stay, or a call still to be made gives it and no later  *)
(*     one takes it away (ZeroInv).                                        *)
(* Between them, what becomes of a profile's values in the two programs.   *)
(***************************************************************************)
EXTENDS ControlNode, SequenceTheorems, TLAPS

States == {"start", "stop"}

(* The commands that Protocol sends. *)
Names ==
  { "start", "stop", "set_time", "set_node_id", "green_led_on", "green_led_blink",
    "config_radio_stop", "config_radio_measure", "config_radio_sniffer",
    "config_consumption_measure" }

-----------------------------------------------------------------------------
(* Commands *)

(* Whatever its arguments, a command line that parse_cmd accepts becomes a   *)
(* packet of the type of its name (command_reader.c:369-415).                *)
LEMMA ParsedType ==
  ASSUME NEW line, line.name \in Names, parse_cmd(line) # Refused
  PROVE  parse_cmd(line)[1].type = commands_d[line.name]
<1> DEFINE type == commands_d[line.name]
           w == line.words
<1>1. command_parse(line)
  BY DEF parse_cmd
<1>2. CASE line.name \in {"start", "stop"}
  <2>1. parse_cmd(line) = cmd_alim(type, w)
    BY <1>1, <1>2 DEF parse_cmd
  <2> QED
    BY <2>1 DEF cmd_alim, Packet, Refused
<1>3. CASE line.name = "set_node_id"
  <2>1. parse_cmd(line) = cmd_set_node_id(type, w)
    BY <1>1, <1>3 DEF parse_cmd
  <2> QED
    BY <2>1 DEF cmd_set_node_id, Packet, Refused
<1>4. CASE line.name = "config_consumption_measure"
  <2>1. parse_cmd(line) = cmd_consumption(type, w)
    BY <1>1, <1>4 DEF parse_cmd
  <2> QED
    BY <2>1 DEF cmd_consumption, Packet, Refused
<1>5. CASE line.name = "config_radio_measure"
  <2>1. parse_cmd(line) = cmd_radio_measure(type, w)
    BY <1>1, <1>5 DEF parse_cmd
  <2> QED
    BY <2>1 DEF cmd_radio_measure, Packet, Refused
<1>6. CASE line.name = "config_radio_sniffer"
  <2>1. parse_cmd(line) = cmd_radio_sniffer(type, w)
    BY <1>1, <1>6 DEF parse_cmd
  <2> QED
    BY <2>1 DEF cmd_radio_sniffer, Packet, Refused
<1>7. CASE line.name \in {"set_time", "green_led_on", "green_led_blink",
                          "config_radio_stop"}
  <2>1. parse_cmd(line) = Packet(type, <<>>)
    BY <1>1, <1>7 DEF parse_cmd
  <2> QED
    BY <2>1 DEF Packet
<1> QED
  BY <1>2, <1>3, <1>4, <1>5, <1>6, <1>7 DEF Names

(* What the control node does with a packet: only start and stop switch the  *)
(* open node, and the records it keeps stay records.                         *)
LEMMA ExecutePower ==
  ASSUME NEW h, "on" \in DOMAIN h, NEW pkt, NEW name \in Names,
         pkt.type = commands_d[name]
  PROVE  /\ "on" \in DOMAIN Execute(h, pkt)
         /\ name = "start" => Execute(h, pkt).on = TRUE
         /\ name = "stop" => Execute(h, pkt).on = FALSE
         /\ name \notin States => Execute(h, pkt).on = h.on
<1> USE DEF commands_d
<1>1. CASE name = "start"
  <2>1. Execute(h, pkt) = [h EXCEPT !.on = TRUE, !.source = Key(alim_d, pkt.data[1])]
    BY <1>1 DEF Execute
  <2>2. \A k : /\ "on" \in DOMAIN [h EXCEPT !.on = TRUE, !.source = k]
              /\ [h EXCEPT !.on = TRUE, !.source = k].on = TRUE
    OBVIOUS
  <2> QED
    BY <1>1, <2>1, <2>2 DEF States
<1>2. CASE name = "stop"
  BY <1>2 DEF Execute, States
<1>3. CASE name = "set_time"
  BY <1>3 DEF Execute, States
<1>4. CASE name = "set_node_id"
  BY <1>4 DEF Execute, States
<1>5. CASE name = "green_led_on"
  BY <1>5 DEF Execute, States
<1>6. CASE name = "green_led_blink"
  BY <1>6 DEF Execute, States
<1>7. CASE name = "config_radio_stop"
  BY <1>7 DEF Execute, States
<1>8. CASE name = "config_radio_measure"
  BY <1>8 DEF Execute, States
<1>9. CASE name = "config_radio_sniffer"
  BY <1>9 DEF Execute, States
<1>10. CASE name = "config_consumption_measure"
  BY <1>10 DEF Execute, States
<1> QED
  BY <1>1, <1>2, <1>3, <1>4, <1>5, <1>6, <1>7, <1>8, <1>9, <1>10 DEF Names

-----------------------------------------------------------------------------
(* Lists of calls *)

IsCall(c) ==
  \/ c.do = "send" /\ c.line.name \in Names
  \/ c.do = "power" /\ c.line.name = c.state /\ c.state \in States
  \/ c.do = "ykush" /\ c.state \in States
  \/ c.do \in {"reset", "start", "stop", "camera_start", "camera_stop"}

(* configure_profile's repetition of the power command. *)
Repeats(c) == c.do = "send" /\ IsPower(c.line)

(* Calls that do not set open_node_state and do not reset the node. *)
Tame(s) == \A i \in 1..Len(s) : s[i].do \in {"send", "camera_start"}

NoRepeat(s) == \A i \in 1..Len(s) : ~Repeats(s[i])

(* A repeated power command is the one of state st, and nothing before it    *)
(* changes the state.                                                        *)
Ordered(s, st) ==
  \A j \in 1..Len(s) :
    Repeats(s[j]) =>
      /\ s[j].line.name = st
      /\ \A i \in 1..Len(s) : i < j => s[i].do \in {"send", "camera_start"}

Calls(s, st) ==
  /\ \E S : s \in Seq(S)
  /\ \A i \in 1..Len(s) : IsCall(s[i])
  /\ Ordered(s, st)

(* Without a repeated command the order does not matter. *)
LEMMA NoRepeatOrdered ==
  ASSUME NEW s, NEW st, NoRepeat(s)
  PROVE  Ordered(s, st)
BY DEF NoRepeat, Ordered

(* No call at all. *)
LEMMA NoCalls ==
  ASSUME NEW st
  PROVE  Calls(<<>>, st) /\ Tame(<<>>) /\ NoRepeat(<<>>)
<1>1. <<>> \in Seq({}) /\ Len(<<>>) = 0
  OBVIOUS
<1> QED
  BY <1>1 DEF Calls, Tame, NoRepeat, Ordered

(* One call. *)
LEMMA OneCall ==
  ASSUME NEW c, IsCall(c), NEW st, Repeats(c) => c.line.name = st
  PROVE  /\ Calls(<<c>>, st)
         /\ c.do \in {"send", "camera_start"} => Tame(<<c>>)
         /\ ~Repeats(c) => NoRepeat(<<c>>)
<1> DEFINE s == <<c>>
<1>1. s \in Seq({c}) /\ Len(s) = 1 /\ s[1] = c
  OBVIOUS
<1> HIDE DEF s
<1>2. \A i \in 1..Len(s) : i = 1
  BY <1>1
<1>3. Calls(s, st)
  BY <1>1, <1>2 DEF Calls, Ordered
<1>4. c.do \in {"send", "camera_start"} => Tame(s)
  BY <1>1, <1>2 DEF Tame
<1>5. ~Repeats(c) => NoRepeat(s)
  BY <1>1, <1>2 DEF NoRepeat
<1> QED
  BY <1>3, <1>4, <1>5 DEF s

(* One list of calls after the other: the second repeats no power command or *)
(* the first changes no state.                                               *)
LEMMA JoinCalls ==
  ASSUME NEW s, NEW t, NEW st, Calls(s, st), Calls(t, st)
  PROVE  /\ Tame(s) \/ NoRepeat(t) => Calls(s \o t, st)
         /\ Tame(s) /\ Tame(t) => Tame(s \o t)
         /\ NoRepeat(s) /\ NoRepeat(t) => NoRepeat(s \o t)
<1>1. PICK S : s \in Seq(S)
  BY DEF Calls
<1>2. PICK T : t \in Seq(T)
  BY DEF Calls
<1>3. s \in Seq(S \cup T) /\ t \in Seq(S \cup T)
  BY <1>1, <1>2, SeqMonotonic
<1> DEFINE u == s \o t
<1>4. /\ u \in Seq(S \cup T)
      /\ Len(u) = Len(s) + Len(t)
      /\ \A i \in 1..(Len(s) + Len(t)) :
           u[i] = IF i <= Len(s) THEN s[i] ELSE t[i - Len(s)]
  BY <1>3, ConcatProperties
<1>5. Len(s) \in Nat /\ Len(t) \in Nat
  BY <1>3, LenProperties
<1> HIDE DEF u
<1>6. ASSUME NEW i \in 1..Len(u)
      PROVE  \/ i \in 1..Len(s) /\ u[i] = s[i]
             \/ i > Len(s) /\ i - Len(s) \in 1..Len(t) /\ u[i] = t[i - Len(s)]
  BY <1>4, <1>5
<1>7. \A i \in 1..Len(u) : IsCall(u[i])
  BY <1>6 DEF Calls
<1>8. Tame(s) /\ Tame(t) => Tame(u)
  BY <1>6 DEF Tame
<1>9. NoRepeat(s) /\ NoRepeat(t) => NoRepeat(u)
  BY <1>6 DEF NoRepeat
<1>10. ASSUME Tame(s) \/ NoRepeat(t),
              NEW j \in 1..Len(u), Repeats(u[j])
       PROVE  /\ u[j].line.name = st
              /\ \A i \in 1..Len(u) : i < j => u[i].do \in {"send", "camera_start"}
  <2>1. CASE j \in 1..Len(s) /\ u[j] = s[j]
    <3>1. \A i \in 1..Len(u) : i < j => i \in 1..Len(s) /\ u[i] = s[i]
      BY <1>4, <1>5, <2>1
    <3> QED
      BY <1>10, <2>1, <3>1 DEF Calls, Ordered
  <2>2. CASE j > Len(s) /\ j - Len(s) \in 1..Len(t) /\ u[j] = t[j - Len(s)]
    <3>1. Tame(s)
      BY <1>10, <2>2 DEF NoRepeat
    <3>2. u[j].line.name = st
      BY <1>10, <2>2 DEF Calls, Ordered
    <3>3. ASSUME NEW i \in 1..Len(u), i < j PROVE u[i].do \in {"send", "camera_start"}
      <4>1. CASE i \in 1..Len(s) /\ u[i] = s[i]
        BY <3>1, <4>1 DEF Tame
      <4>2. CASE i > Len(s) /\ i - Len(s) \in 1..Len(t) /\ u[i] = t[i - Len(s)]
        <5>1. i - Len(s) < j - Len(s)
          BY <1>4, <1>5, <3>3
        <5> QED
          BY <1>10, <2>2, <4>2, <5>1 DEF Calls, Ordered
      <4> QED
        BY <1>6, <4>1, <4>2
    <3> QED
      BY <3>2, <3>3
  <2> QED
    BY <1>6, <2>1, <2>2
<1>11. Tame(s) \/ NoRepeat(t) => Ordered(u, st)
  BY <1>10 DEF Ordered
<1>12. Tame(s) \/ NoRepeat(t) => Calls(u, st)
  BY <1>4, <1>7, <1>11 DEF Calls
<1> QED
  BY <1>8, <1>9, <1>12 DEF u

(* The first call is made: what is left is a list of calls for the same      *)
(* state, and if that call may have changed the state, for any.              *)
LEMMA TakeCall ==
  ASSUME NEW s, NEW st, Calls(s, st), s # <<>>
  PROVE  /\ IsCall(Head(s))
         /\ Repeats(Head(s)) => Head(s).line.name = st
         /\ Tame(s) => Head(s).do \in {"send", "camera_start"} /\ Tame(Tail(s))
         /\ Calls(Tail(s), st)
         /\ Head(s).do \notin {"send", "camera_start"}
              => \A st2 : Calls(Tail(s), st2)
<1>1. PICK S : s \in Seq(S)
  BY DEF Calls
<1> DEFINE u == Tail(s)
<1>2. /\ u \in Seq(S)
      /\ Len(u) = Len(s) - 1
      /\ \A i \in 1..Len(u) : u[i] = s[i + 1]
      /\ Len(s) \in Nat \ {0}
      /\ Head(s) = s[1]
  BY <1>1, HeadTailProperties, EmptySeq
<1> HIDE DEF u
<1>3. /\ 1 \in 1..Len(s)
      /\ \A i \in 1..Len(u) : i + 1 \in 1..Len(s) /\ 1 < i + 1
      /\ \A i, j \in 1..Len(u) : i < j => i + 1 < j + 1
  BY <1>2
<1>4. \A i \in 1..Len(u) : IsCall(u[i])
  BY <1>2, <1>3 DEF Calls
<1>5. Ordered(u, st)
  BY <1>2, <1>3 DEF Calls, Ordered
<1>6. Head(s).do \notin {"send", "camera_start"} => NoRepeat(u)
  BY <1>2, <1>3 DEF Calls, Ordered, NoRepeat
<1>7. Tame(s) => Tame(u)
  BY <1>2, <1>3 DEF Tame
<1>8. Head(s).do \notin {"send", "camera_start"} => \A st2 : Calls(u, st2)
  BY <1>2, <1>4, <1>6, NoRepeatOrdered DEF Calls
<1>9. /\ IsCall(Head(s))
      /\ Repeats(Head(s)) => Head(s).line.name = st
      /\ Tame(s) => Head(s).do \in {"send", "camera_start"}
  BY <1>2, <1>3 DEF Calls, Ordered, Tame
<1> QED
  BY <1>2, <1>4, <1>5, <1>7, <1>8, <1>9 DEF Calls, u

(* Lists of two and of three calls, put together. *)
LEMMA ShortLists ==
  ASSUME NEW a, NEW b, NEW c
  PROVE  /\ <<a>> \o <<b>> = <<a, b>>
         /\ (<<a>> \o <<b>>) \o <<c>> = <<a, b, c>>
<1> DEFINE S == {a, b, c}
<1>1. /\ <<a>> \in Seq(S) /\ <<b>> \in Seq(S) /\ <<c>> \in Seq(S)
      /\ <<a, b>> \in Seq(S) /\ <<a, b, c>> \in Seq(S)
  OBVIOUS
<1> HIDE DEF S
<1>2. <<a>> \o <<b>> = <<a, b>>
  <2> DEFINE s == <<a>> \o <<b>>
  <2>1. s \in Seq(S) /\ Len(s) = 2 /\ s[1] = a /\ s[2] = b
    BY <1>1, ConcatProperties
  <2> HIDE DEF s
  <2>2. \A i \in 1..Len(s) : s[i] = <<a, b>>[i]
    BY <2>1
  <2>3. s = <<a, b>>
    BY <1>1, <2>1, <2>2, SeqEqual
  <2> QED
    BY <2>3 DEF s
<1>3. <<a, b>> \o <<c>> = <<a, b, c>>
  <2> DEFINE s == <<a, b>> \o <<c>>
  <2>1. s \in Seq(S) /\ Len(s) = 3 /\ s[1] = a /\ s[2] = b /\ s[3] = c
    BY <1>1, ConcatProperties
  <2> HIDE DEF s
  <2>2. \A i \in 1..Len(s) : s[i] = <<a, b, c>>[i]
    BY <2>1
  <2>3. s = <<a, b, c>>
    BY <1>1, <2>1, <2>2, SeqEqual
  <2> QED
    BY <2>3 DEF s
<1> QED
  BY <1>2, <1>3

-----------------------------------------------------------------------------
(* The lists of the methods *)

(* A command other than start and stop. *)
LEMMA PlainSend ==
  ASSUME NEW line, line.name \in Names \ States, NEW st
  PROVE  Calls(<<Send(line)>>, st) /\ Tame(<<Send(line)>>) /\ NoRepeat(<<Send(line)>>)
<1>1. IsCall(Send(line)) /\ ~Repeats(Send(line)) /\ Send(line).do = "send"
  BY DEF IsCall, Repeats, Send, IsPower, States
<1> QED
  BY <1>1, OneCall

(* A call that sends nothing. *)
LEMMA PlainCall ==
  ASSUME NEW do \in {"reset", "start", "stop", "camera_start", "camera_stop"},
         NEW counts, NEW st
  PROVE  /\ Calls(<<Call(do, counts)>>, st) /\ NoRepeat(<<Call(do, counts)>>)
         /\ do = "camera_start" => Tame(<<Call(do, counts)>>)
<1>1. /\ IsCall(Call(do, counts)) /\ ~Repeats(Call(do, counts))
      /\ Call(do, counts).do = do
  BY DEF IsCall, Repeats, Call
<1> QED
  BY <1>1, OneCall

(* configure_profile repeats the power command of the current state, and     *)
(* changes no state itself.                                                  *)
LEMMA ConfigureCalls ==
  ASSUME NEW p, open_node_state \in States
  PROVE  Calls(Configure(p), open_node_state) /\ Tame(Configure(p))
<1> DEFINE st == open_node_state
           a == Send(start_stop(open_node_state, p.power))
           b == Send(config_consumption(Alim, p))
           c == Send(config_radio(p))
<1>1. Calls(<<a>>, st) /\ Tame(<<a>>)
  <2>1. IsCall(a) /\ a.line.name = st /\ a.do = "send"
    BY DEF IsCall, Send, start_stop, Line, States, Names
  <2> QED
    BY <2>1, OneCall
<1>2. Calls(<<b>>, st) /\ Tame(<<b>>) /\ NoRepeat(<<b>>)
  <2>1. config_consumption(Alim, p).name \in Names \ States
    BY DEF config_consumption, Line, Names, States
  <2> QED
    BY <2>1, PlainSend
<1>3. Calls(<<c>>, st) /\ Tame(<<c>>) /\ NoRepeat(<<c>>)
  <2>1. config_radio(p).name \in Names \ States
    BY DEF config_radio, Line, Names, States
  <2> QED
    BY <2>1, PlainSend
<1> HIDE DEF a, b, c, st
<1>4. Calls(<<a>> \o <<b>>, st) /\ Tame(<<a>> \o <<b>>)
  BY <1>1, <1>2, JoinCalls
<1>5. Calls((<<a>> \o <<b>>) \o <<c>>, st) /\ Tame((<<a>> \o <<b>>) \o <<c>>)
  BY <1>3, <1>4, JoinCalls
<1>6. (<<a>> \o <<b>>) \o <<c>> = <<a, b, c>>
  BY ShortLists
<1>7. \/ Configure(p) = <<a, b, c>>
      \/ Configure(p) = <<c>>
      \/ Configure(p) = <<>>
  BY DEF Configure, a, b, c
<1> QED
  BY <1>3, <1>5, <1>6, <1>7, NoCalls DEF st

(* open_start and open_stop. *)
LEMMA OpenPowerCalls ==
  ASSUME NEW state \in States, NEW source, NEW st
  PROVE  Calls(OpenPower(state, source), st) /\ NoRepeat(OpenPower(state, source))
<1> DEFINE a == Power(state, start_stop(state, source))
           b == [do |-> "ykush", state |-> state]
<1>1. IsCall(a) /\ ~Repeats(a) /\ IsCall(b) /\ ~Repeats(b)
  BY DEF IsCall, Repeats, Power, start_stop, Line, States
<1> HIDE DEF a, b
<1>2. /\ Calls(<<a>>, st) /\ NoRepeat(<<a>>)
      /\ Calls(<<b>>, st) /\ NoRepeat(<<b>>)
  BY <1>1, OneCall
<1>3. OpenPower(state, source) \in {<<a>>, <<b>>, <<>>}
  BY DEF OpenPower, a, b
<1> QED
  BY <1>2, <1>3, NoCalls

(* start and stop. *)
LEMMA StartStopCalls ==
  ASSUME NEW st
  PROVE  Calls(StartCalls, st) /\ Calls(StopCalls, st)
<1> DEFINE a == <<Call("reset", TRUE)>>
           b == <<Call("start", TRUE)>>
           c == <<Call("stop", TRUE)>>
           p == OpenPower("start", "dc")
           q == OpenPower("stop", "dc")
<1>1. /\ Calls(a, st) /\ NoRepeat(a)
      /\ Calls(b, st) /\ NoRepeat(b)
      /\ Calls(c, st) /\ NoRepeat(c)
  BY PlainCall
<1>2. Calls(p, st) /\ NoRepeat(p) /\ Calls(q, st) /\ NoRepeat(q)
  BY OpenPowerCalls DEF States
<1>3. /\ StartCalls = (IF Iotlab THEN a \o b ELSE <<>>) \o p
      /\ StopCalls = q \o (IF Iotlab THEN c \o a ELSE <<>>)
  BY ShortLists DEF StartCalls, StopCalls
<1> HIDE DEF a, b, c, p, q
<1>4. /\ Calls(a \o b, st) /\ NoRepeat(a \o b)
      /\ Calls(c \o a, st) /\ NoRepeat(c \o a)
  BY <1>1, JoinCalls
<1>5. /\ Calls((a \o b) \o p, st) /\ Calls(<<>> \o p, st)
      /\ Calls(q \o (c \o a), st) /\ Calls(q \o <<>>, st)
  BY <1>2, <1>4, JoinCalls, NoCalls
<1> QED
  BY <1>3, <1>5

(* start_experiment changes no state: the led, the time, the id, then the    *)
(* profile and the camera.                                                   *)
LEMMA StartExperimentList ==
  ASSUME NEW p, open_node_state \in States
  PROVE  /\ Calls(StartExperimentCalls(p), open_node_state)
         /\ Tame(StartExperimentCalls(p))
<1> DEFINE st == open_node_state
           a == <<Send(Line("green_led_blink", <<>>))>>
           b == <<Send(Line("set_time", <<>>))>>
           n == set_node_id(Archi, Num)
           c == [i \in 1..Len(n) |-> Send(n[i])]
           d == Configure(p)
           e == IF kind = "rpi3" /\ camera_config THEN <<Call("camera_start", TRUE)>>
                ELSE <<>>
<1>1. /\ Line("green_led_blink", <<>>).name \in Names \ States
      /\ Line("set_time", <<>>).name \in Names \ States
      /\ Line("set_node_id", <<Archi, Num>>).name \in Names \ States
  BY DEF Line, Names, States
<1>2. Calls(a, st) /\ Tame(a) /\ Calls(b, st) /\ Tame(b)
  BY <1>1, PlainSend
<1>3. Calls(c, st) /\ Tame(c)
  <2>1. CASE Archi \in {"m3", "a8"}
    <3> DEFINE l == Line("set_node_id", <<Archi, Num>>)
    <3>1. n = <<l>>
      BY <2>1 DEF set_node_id
    <3>2. Len(n) = 1 /\ n[1] = l
      BY <3>1
    <3> HIDE DEF l, n
    <3>3. c = [i \in 1..1 |-> Send(l)]
      BY <3>2
    <3>4. c = <<Send(l)>>
      BY <3>3
    <3>5. Calls(<<Send(l)>>, st) /\ Tame(<<Send(l)>>)
      BY <1>1, PlainSend DEF l
    <3> QED
      BY <3>4, <3>5
  <2>2. CASE Archi \notin {"m3", "a8"}
    <3>1. c = <<>>
      BY <2>2 DEF set_node_id
    <3> QED
      BY <3>1, NoCalls
  <2> QED
    BY <2>1, <2>2
<1>4. Calls(d, st) /\ Tame(d)
  BY ConfigureCalls
<1>5. Calls(e, st) /\ Tame(e)
  BY PlainCall, NoCalls
<1> DEFINE f == IF Iotlab THEN (a \o b) \o c ELSE <<>>
<1>6. StartExperimentCalls(p) = (f \o d) \o e
  <2>1. a \o b = << Send(Line("green_led_blink", <<>>)), Send(Line("set_time", <<>>)) >>
    BY ShortLists
  <2> QED
    BY <2>1 DEF StartExperimentCalls
<1> HIDE DEF a, b, c, d, e
<1>7. Calls(a \o b, st) /\ Tame(a \o b)
  BY <1>2, JoinCalls
<1>8. Calls((a \o b) \o c, st) /\ Tame((a \o b) \o c)
  BY <1>3, <1>7, JoinCalls
<1>9. Calls(f, st) /\ Tame(f)
  BY <1>8, NoCalls
<1> HIDE DEF f
<1>10. Calls(f \o d, st) /\ Tame(f \o d)
  BY <1>4, <1>9, JoinCalls
<1>11. Calls((f \o d) \o e, st) /\ Tame((f \o d) \o e)
  BY <1>5, <1>10, JoinCalls
<1> QED
  BY <1>6, <1>11

(* stop_experiment repeats the power command before it starts the open node. *)
LEMMA StopExperimentList ==
  ASSUME open_node_state \in States
  PROVE  Calls(StopExperimentCalls, open_node_state)
<1> DEFINE st == open_node_state
           a == Configure(DefaultProfile)
           b == OpenPower("start", "dc")
           c == IF Iotlab THEN <<Send(Line("green_led_on", <<>>))>> ELSE <<>>
           d == IF kind = "rpi3" /\ camera_config THEN <<Call("camera_stop", TRUE)>>
                ELSE <<>>
<1>1. Calls(a, st)
  BY ConfigureCalls
<1>2. Calls(b, st) /\ NoRepeat(b)
  BY OpenPowerCalls DEF States
<1>3. Calls(c, st) /\ NoRepeat(c)
  <2>1. Line("green_led_on", <<>>).name \in Names \ States
    BY DEF Line, Names, States
  <2> QED
    BY <2>1, PlainSend, NoCalls
<1>4. Calls(d, st) /\ NoRepeat(d)
  BY PlainCall, NoCalls
<1>5. StopExperimentCalls = ((a \o b) \o c) \o d
  BY DEF StopExperimentCalls
<1> HIDE DEF a, b, c, d
<1>6. Calls(a \o b, st)
  BY <1>1, <1>2, JoinCalls
<1>7. Calls((a \o b) \o c, st)
  BY <1>3, <1>6, JoinCalls
<1> QED
  BY <1>4, <1>5, <1>7, JoinCalls

(* The auto tests. *)
LEMMA AutotestLists ==
  ASSUME NEW st, NEW stop_on
  PROVE  Calls(AutotestSetupCalls, st) /\ Calls(AutotestTeardownCalls(stop_on), st)
<1> DEFINE a == <<Call("reset", TRUE)>>
           b == <<Call("start", FALSE)>>
           c == <<Send(Line("set_time", <<>>))>>
           d == IF stop_on THEN OpenPower("stop", "dc") ELSE <<>>
           e == <<Call("stop", FALSE)>>
<1>1. Calls(a, st) /\ NoRepeat(a) /\ Calls(b, st) /\ NoRepeat(b)
  BY PlainCall
<1>2. Calls(c, st) /\ NoRepeat(c)
  <2>1. Line("set_time", <<>>).name \in Names \ States
    BY DEF Line, Names, States
  <2> QED
    BY <2>1, PlainSend
<1>3. Calls(d, st) /\ NoRepeat(d)
  BY OpenPowerCalls, NoCalls DEF States
<1>4. Calls(e, st) /\ NoRepeat(e)
  BY PlainCall
<1>5. AutotestSetupCalls = IF Iotlab THEN (a \o b) \o c ELSE <<>>
  <2>1. (a \o b) \o c = << Call("reset", TRUE), Call("start", FALSE),
                           Send(Line("set_time", <<>>)) >>
    BY ShortLists
  <2> QED
    BY <2>1 DEF AutotestSetupCalls
<1>6. AutotestTeardownCalls(stop_on) = IF Iotlab THEN d \o e ELSE <<>>
  BY DEF AutotestTeardownCalls
<1> HIDE DEF a, b, c, d, e
<1>7. Calls(a \o b, st)
  BY <1>1, JoinCalls
<1>8. Calls((a \o b) \o c, st) /\ Calls(d \o e, st)
  BY <1>2, <1>3, <1>4, <1>7, JoinCalls
<1> QED
  BY <1>5, <1>6, <1>8, NoCalls

-----------------------------------------------------------------------------
(* The inductive invariant. *)

ProfileMethods == {"configure_profile", "start_experiment"}

TodoInv ==
  /\ Calls(todo, open_node_state)
  /\ method \in ProfileMethods => Tame(todo)

(* As long as the power is known it is that of open_node_state. *)
KnownInv == ~unsure => (hw.on <=> open_node_state = "start")

IInv ==
  /\ open_node_state \in States
  /\ "on" \in DOMAIN hw /\ hw.on \in BOOLEAN
  /\ unsure \in BOOLEAN
  /\ TodoInv
  /\ KnownInv

(* Entering a method replaces only the list of calls. *)
LEMMA EnterKeeps ==
  ASSUME IInv, NEW name, NEW p, NEW calls, Enter(name, p, calls),
         Calls(calls, open_node_state), name \in ProfileMethods => Tame(calls)
  PROVE  IInv'
BY DEF Enter, IInv, TodoInv, KnownInv

(* A call of a method leaves a shorter list. *)
LEMMA NextCall ==
  ASSUME IInv, NEW do, Next1(do), method' = method
  PROVE  /\ IsCall(Head(todo)) /\ Head(todo).do \in do
         /\ Repeats(Head(todo)) => Head(todo).line.name = open_node_state
         /\ method \in ProfileMethods => Head(todo).do \in {"send", "camera_start"}
         /\ open_node_state' = open_node_state => TodoInv'
         /\ Head(todo).do \notin {"send", "camera_start"} => TodoInv'
<1>1. Calls(todo, open_node_state) /\ todo # <<>> /\ todo' = Tail(todo)
  BY DEF IInv, TodoInv, Next1
<1>2. /\ IsCall(Head(todo)) /\ Head(todo).do \in do
      /\ Repeats(Head(todo)) => Head(todo).line.name = open_node_state
      /\ Tame(todo) => Head(todo).do \in {"send", "camera_start"} /\ Tame(todo')
      /\ Calls(todo', open_node_state)
      /\ Head(todo).do \notin {"send", "camera_start"} => \A st : Calls(todo', st)
  BY <1>1, TakeCall DEF Next1
<1>3. method \in ProfileMethods => Tame(todo)
  BY DEF IInv, TodoInv
<1> QED
  BY <1>2, <1>3 DEF TodoInv

(* A command that is executed switches the open node as its name says, and   *)
(* only start and stop do.                                                   *)
LEMMA Executed ==
  ASSUME IInv, NEW line, line.name \in Names, parse_cmd(line) # Refused,
         hw' = Execute(hw, parse_cmd(line)[1])
  PROVE  /\ "on" \in DOMAIN hw'
         /\ IsPower(line) => hw'.on = (line.name = "start")
         /\ ~IsPower(line) => hw'.on = hw.on
<1>1. parse_cmd(line)[1].type = commands_d[line.name]
  BY ParsedType
<1>2. "on" \in DOMAIN hw
  BY DEF IInv
<1> QED
  BY <1>1, <1>2, ExecutePower DEF IsPower, States

(* Every call of a method keeps the invariant; a method of a profile         *)
(* switches the open node only when its power is not known.                  *)
LEMMA CallsKeep ==
  ASSUME IInv,
         \/ SendFails \/ SendWorks \/ SendUnanswered \/ SendLate \/ ResetNode
         \/ StartLink \/ StopLink \/ Ykush \/ Camera
  PROVE  /\ IInv'
         /\ method \in ProfileMethods /\ ~unsure => hw'.on = hw.on
<1>1. CASE SendFails
  <2>1. TodoInv' /\ UNCHANGED <<open_node_state, hw, unsure>>
    BY <1>1, NextCall DEF SendFails
  <2> QED
    BY <2>1 DEF IInv, KnownInv
<1>2. CASE SendWorks \/ SendUnanswered
  <2> DEFINE c == Head(todo)
             line == c.line
  <2>1. /\ Next1({"send", "power"}) /\ method' = method
        /\ parse_cmd(line) # Refused
        /\ hw' = Execute(hw, parse_cmd(line)[1])
    BY <1>2 DEF SendWorks, SendUnanswered
  <2>2. /\ IsCall(c) /\ c.do \in {"send", "power"}
        /\ Repeats(c) => line.name = open_node_state
        /\ method \in ProfileMethods => c.do = "send"
        /\ open_node_state' = open_node_state => TodoInv'
        /\ c.do = "power" => TodoInv'
    BY <2>1, NextCall
  <2>3. line.name \in Names /\ (c.do = "power" => line.name = c.state /\ c.state \in States)
    BY <2>2 DEF IsCall, Names, States
  <2>4. c.do = "power" => IsPower(line)
    BY <2>3 DEF IsPower, States
  <2>5. /\ "on" \in DOMAIN hw'
        /\ IsPower(line) => hw'.on = (line.name = "start")
        /\ ~IsPower(line) => hw'.on = hw.on
    BY <2>1, <2>3, Executed
  <2>6. hw'.on \in BOOLEAN
    BY <2>5 DEF IInv
  <2>7. c.do = "send" /\ IsPower(line) => line.name = open_node_state
    BY <2>2 DEF Repeats
  <2>8. method \in ProfileMethods /\ ~unsure => hw'.on = hw.on
    BY <2>2, <2>5, <2>7 DEF IInv, KnownInv
  <2>9. CASE SendWorks
    <3>1. /\ open_node_state' = IF c.do = "power" THEN c.state ELSE open_node_state
          /\ unsure' = (unsure /\ ~IsPower(line))
      BY <2>9 DEF SendWorks, Answered
    <3>2. open_node_state' \in States /\ unsure' \in BOOLEAN
      BY <2>3, <3>1 DEF IInv
    <3>3. TodoInv'
      BY <2>2, <3>1
    <3>4. KnownInv'
      <4>1. CASE IsPower(line)
        <5>1. open_node_state' = line.name
          BY <2>2, <2>3, <2>7, <3>1, <4>1
        <5> QED
          BY <2>5, <4>1, <5>1 DEF KnownInv
      <4>2. CASE ~IsPower(line)
        <5>1. open_node_state' = open_node_state /\ hw'.on = hw.on /\ unsure' = unsure
          BY <2>2, <2>4, <2>5, <3>1, <4>2 DEF IInv
        <5> QED
          BY <5>1 DEF IInv, KnownInv
      <4> QED
        BY <4>1, <4>2
    <3> QED
      BY <2>5, <2>6, <2>8, <3>2, <3>3, <3>4 DEF IInv
  <2>10. CASE SendUnanswered
    <3>1. open_node_state' = open_node_state /\ unsure' = (unsure \/ IsPower(line))
      BY <2>10 DEF SendUnanswered
    <3>2. unsure' \in BOOLEAN
      BY <3>1
    <3>3. KnownInv'
      BY <2>5, <3>1 DEF IInv, KnownInv
    <3> QED
      BY <2>2, <2>5, <2>6, <2>8, <3>1, <3>2, <3>3 DEF IInv
  <2> QED
    BY <1>2, <2>9, <2>10
<1>3. CASE ResetNode
  <2>1. Next1({"reset"}) /\ method' = method /\ open_node_state' = open_node_state
    BY <1>3 DEF ResetNode
  <2>2. TodoInv' /\ method \notin ProfileMethods
    BY <2>1, NextCall
  <2>3. \/ /\ \E on \in BOOLEAN : hw' = Reset(on)
           /\ unsure' = TRUE
        \/ hw' = hw /\ unsure' = unsure
    BY <1>3 DEF ResetNode
  <2>4. \A on \in BOOLEAN : "on" \in DOMAIN Reset(on) /\ Reset(on).on \in BOOLEAN
    BY DEF Reset
  <2> QED
    BY <2>1, <2>2, <2>3, <2>4 DEF IInv, KnownInv
<1>4. CASE StartLink \/ StopLink
  <2>1. TodoInv' /\ UNCHANGED <<open_node_state, hw, unsure>>
    BY <1>4, NextCall DEF StartLink, StopLink
  <2> QED
    BY <2>1 DEF IInv, KnownInv
<1>5. CASE Camera
  <2>1. TodoInv' /\ UNCHANGED <<open_node_state, hw, unsure>>
    BY <1>5, NextCall DEF Camera
  <2> QED
    BY <2>1 DEF IInv, KnownInv
<1>6. CASE Ykush
  <2> DEFINE c == Head(todo)
             on == [hw EXCEPT !.on = (c.state = "start")]
  <2>1. Next1({"ykush"}) /\ method' = method
    BY <1>6 DEF Ykush
  <2>2. IsCall(c) /\ c.do = "ykush" /\ method \notin ProfileMethods /\ TodoInv'
    BY <2>1, NextCall
  <2>3. c.state \in States
    BY <2>2 DEF IsCall
  <2>4. \/ /\ hw' = on /\ open_node_state' = c.state /\ unsure' = FALSE
        \/ /\ hw' \in {hw, on} /\ open_node_state' = open_node_state
           /\ unsure' = (unsure \/ hw' # hw)
    BY <1>6 DEF Ykush
  <2>5. "on" \in DOMAIN on /\ on.on = (c.state = "start")
    BY DEF IInv
  <2> HIDE DEF c, on
  <2>6. "on" \in DOMAIN hw' /\ hw'.on \in BOOLEAN /\ unsure' \in BOOLEAN
    BY <2>4, <2>5 DEF IInv
  <2>7. open_node_state' \in States
    BY <2>3, <2>4 DEF IInv
  <2>8. KnownInv'
    BY <2>4, <2>5 DEF IInv, KnownInv
  <2> QED
    BY <2>2, <2>6, <2>7, <2>8 DEF IInv
<1>7. CASE SendLate
  <2> DEFINE c == Head(todo)
  <2>1. /\ Next1({"send", "power"}) /\ method' = method /\ hw' = hw
        /\ unsure' = (unsure \/ IsPower(c.line))
        /\ open_node_state' = IF c.do = "power" THEN c.state ELSE open_node_state
    BY <1>7 DEF SendLate, Answered
  <2>2. /\ IsCall(c) /\ c.do \in {"send", "power"}
        /\ open_node_state' = open_node_state => TodoInv'
        /\ c.do = "power" => TodoInv'
    BY <2>1, NextCall
  <2>3. c.do = "power" => c.line.name = c.state /\ c.state \in States
    BY <2>2 DEF IsCall
  <2>4. c.do = "power" => IsPower(c.line)
    BY <2>3 DEF IsPower, States
  <2>5. open_node_state' \in States /\ unsure' \in BOOLEAN /\ TodoInv'
    BY <2>1, <2>2, <2>3 DEF IInv
  <2>6. KnownInv'
    BY <2>1, <2>2, <2>4 DEF IInv, KnownInv
  <2> QED
    BY <2>1, <2>5, <2>6 DEF IInv
<1> QED
  BY <1>1, <1>2, <1>3, <1>4, <1>5, <1>6, <1>7

(* The invariant holds of every control node that has just been created and  *)
(* is kept by every method, by every call of one, when an answer is late and *)
(* when control_node_serial ends.                                            *)
THEOREM Invariance == Spec => []IInv
<1>1. Init => IInv
  <2> SUFFICES ASSUME Init PROVE IInv
    OBVIOUS
  <2>1. "on" \in DOMAIN hw /\ hw.on = FALSE
    BY DEF Init, Reset
  <2>2. Calls(todo, open_node_state) /\ method \notin ProfileMethods
    BY NoCalls DEF Init, ProfileMethods
  <2> QED
    BY <2>1, <2>2 DEF Init, IInv, TodoInv, KnownInv, States
<1>2. IInv /\ [Next]_vars => IInv'
  <2> SUFFICES ASSUME IInv, [Next]_vars PROVE IInv'
    OBVIOUS
  <2>0. open_node_state \in States
    BY DEF IInv
  <2>1. CASE Start
    BY <2>1, StartStopCalls, EnterKeeps DEF Start, ProfileMethods
  <2>2. CASE Stop
    BY <2>2, StartStopCalls, EnterKeeps DEF Stop, ProfileMethods
  <2>3. CASE StopExperiment
    BY <2>0, <2>3, StopExperimentList, EnterKeeps DEF StopExperiment, ProfileMethods
  <2>4. ASSUME NEW p, StartExperiment(p) PROVE IInv'
    BY <2>0, <2>4, StartExperimentList, EnterKeeps DEF StartExperiment
  <2>5. ASSUME NEW p, ConfigureProfile(p) PROVE IInv'
    BY <2>0, <2>5, ConfigureCalls, EnterKeeps DEF ConfigureProfile
  <2>6. ASSUME NEW state \in {"start", "stop"}, OpenStartStop(state) PROVE IInv'
    BY <2>6, OpenPowerCalls, EnterKeeps DEF OpenStartStop, ProfileMethods, States
  <2>7. CASE AutotestSetup
    BY <2>7, AutotestLists, EnterKeeps DEF AutotestSetup, ProfileMethods
  <2>8. ASSUME NEW stop_on \in BOOLEAN, AutotestTeardown(stop_on) PROVE IInv'
    BY <2>8, AutotestLists, EnterKeeps DEF AutotestTeardown, ProfileMethods
  <2>9. CASE \/ SendFails \/ SendWorks \/ SendUnanswered \/ SendLate \/ ResetNode
             \/ StartLink \/ StopLink \/ Ykush \/ Camera
    BY <2>9, CallsKeep
  <2>10. CASE LinkDies \/ LateArrives
    BY <2>10 DEF LinkDies, LateArrives, IInv, TodoInv, KnownInv
  <2>11. CASE Return
    BY <2>11 DEF Return, IInv, TodoInv, KnownInv, ProfileMethods
  <2>12. CASE UNCHANGED vars
    BY <2>12 DEF vars, IInv, TodoInv, KnownInv
  <2> QED
    BY <2>1, <2>2, <2>3, <2>4, <2>5, <2>6, <2>7, <2>8, <2>9, <2>10, <2>11, <2>12
       DEF Next
<1> QED
  BY <1>1, <1>2, PTL DEF Spec

(* open_node_state, which the next profile is configured with, is the power  *)
(* of the open node unless since the last one executed and answered a power  *)
(* command was executed without an answer or took the ACK of an earlier one, *)
(* or the control node was reset (cn_iotlab/__init__.py,                     *)
(* cn_rpi3/__init__.py, cn_protocol.py).                                     *)
THEOREM PowerIsTracked == Spec => []PowerStateTracked
<1>1. IInv => PowerStateTracked
  BY DEF IInv, KnownInv, PowerStateTracked
<1> QED
  BY <1>1, Invariance, PTL

(* Configuring a profile never switches the open node while its power is     *)
(* known: the command that configure_profile repeats is the one of the       *)
(* current state.                                                            *)
THEOREM ProfilesKeepPower == Spec => ProfileKeepsPower
<1>1. IInv /\ [Next]_vars
        => [hw'.on # hw.on /\ method \in {"configure_profile", "start_experiment"}
              => unsure]_vars
  <2> SUFFICES ASSUME IInv, Next, hw'.on # hw.on, method \in ProfileMethods, ~unsure
               PROVE  FALSE
    BY DEF ProfileMethods
  <2>1. hw' # hw
    OBVIOUS
  <2>2. CASE \/ SendFails \/ SendWorks \/ SendUnanswered \/ SendLate \/ ResetNode
             \/ StartLink \/ StopLink \/ Ykush \/ Camera
    BY <2>2, CallsKeep
  <2>3. CASE LinkDies \/ LateArrives \/ Return
    BY <2>1, <2>3 DEF LinkDies, LateArrives, Return
  <2>4. ASSUME NEW name, NEW p, NEW calls, Enter(name, p, calls) PROVE FALSE
    BY <2>1, <2>4 DEF Enter
  <2> QED
    BY <2>2, <2>3, <2>4 DEF Next, Start, Stop, StopExperiment, StartExperiment,
       ConfigureProfile, OpenStartStop, AutotestSetup, AutotestTeardown
<1> QED
  BY <1>1, Invariance, PTL DEF Spec, ProfileKeepsPower

-----------------------------------------------------------------------------
(* What the C parser accepts *)

(* The one value of an optional field. *)
LEMMA OneValue ==
  ASSUME NEW S, NEW s \in Seq(S), Len(s) \in {0, 1}
  PROVE  /\ Range(s) \subseteq S
         /\ s = <<>> => Range(s) = {}
         /\ s # <<>> => s[1] \in S /\ Range(s) = {s[1]}
<1>1. DOMAIN s = 1..Len(s) /\ Len(s) \in Nat
  BY LenProperties
<1>2. \A i \in 1..Len(s) : s[i] \in S
  BY ElementOfSeq
<1>3. CASE Len(s) = 0
  BY <1>1, <1>3, EmptySeq DEF Range
<1>4. CASE Len(s) = 1
  <2>1. DOMAIN s = {1} /\ s # <<>>
    BY <1>1, <1>4, EmptySeq
  <2> QED
    BY <1>2, <1>4, <2>1 DEF Range
<1> QED
  BY <1>3, <1>4

(* start and stop are accepted with the sources that the dictionary has and  *)
(* the format can read (command_reader.c, cmd_alim).                         *)
LEMMA PowerAccepted ==
  ASSUME NEW state \in States, NEW power
  PROVE  parse_cmd(start_stop(state, power)) # Refused <=> power \in {"dc", "battery"}
<1> DEFINE line == start_stop(state, power)
<1>1. line.name = state /\ line.words = <<power>>
  BY DEF start_stop, Line
<1>2. command_parse(line)
  BY <1>1 DEF command_parse, commands, States
<1>3. parse_cmd(line) = cmd_alim(commands_d[state], <<power>>)
  BY <1>1, <1>2 DEF parse_cmd, States
<1>4. DOMAIN alim_d = {"dc", "dc_charge", "battery"}
  BY DEF alim_d
<1>5. power \in {"dc", "battery"} => get_val(power, alim_d) \in {0, 2}
  BY <1>4 DEF get_val, LongWords, alim_d
<1>6. power \notin {"dc", "battery"} => get_val(power, alim_d) = 255
  BY <1>4 DEF get_val, LongWords
<1>7. \A type, data : Packet(type, data) # Refused
  BY DEF Packet, Refused
<1> QED
  BY <1>3, <1>5, <1>6, <1>7 DEF cmd_alim

(* Every consumption that profile.py accepts has its values in the           *)
(* dictionaries of command_reader.c.                                         *)
LEMMA ConsumptionAccepted ==
  ASSUME NEW p, IsProfileDict(p), ProfileValid(p)
  PROVE  parse_cmd(config_consumption(Alim, p)) # Refused
<1> DEFINE line == config_consumption(Alim, p)
           type == commands_d["config_consumption_measure"]
<1>0. \A data : Packet(type, data) # Refused
  BY DEF Packet, Refused
<1>1. CASE \A c \in Range(p.consumption) : ~Measures(c)
  <2>1. line.name = "config_consumption_measure" /\ line.words = <<"stop">>
    BY <1>1 DEF config_consumption, Line
  <2>2. command_parse(line)
    BY <2>1 DEF command_parse, commands
  <2>3. parse_cmd(line) = cmd_consumption(type, <<"stop">>)
    BY <2>1, <2>2 DEF parse_cmd
  <2> QED
    BY <1>0, <2>3 DEF cmd_consumption
<1>2. CASE ~\A c \in Range(p.consumption) : ~Measures(c)
  <2> DEFINE c == p.consumption[1]
             source == ConsumptionSource(Alim, p.power)
             w == <<"start", source, Bit(c.power), Bit(c.voltage), Bit(c.current),
                    c.period, c.average>>
  <2>1. c \in Range(p.consumption)
    BY <1>2, OneValue DEF IsProfileDict
  <2>2. c.period \in DOMAIN periods_d /\ c.average \in DOMAIN average_d
    BY <2>1 DEF ProfileValid, ConsumptionValid, periods_d, average_d
  <2>3. get_val(source, power_source_d) \in {16, 32, 64}
    BY AlimAssumption DEF ConsumptionSource, get_val, power_source_d, LongWords
  <2>4. line.name = "config_consumption_measure" /\ line.words = w
    BY <1>2 DEF config_consumption, Line
  <2>5. /\ Len(w) = 7 /\ w[1] = "start" /\ w[2] = source
        /\ w[6] = c.period /\ w[7] = c.average
    OBVIOUS
  <2> HIDE DEF w, c, source
  <2>6. command_parse(line)
    BY <2>4, <2>5 DEF command_parse, commands
  <2>7. parse_cmd(line) = cmd_consumption(type, w)
    BY <2>4, <2>6 DEF parse_cmd
  <2> QED
    BY <1>0, <2>2, <2>3, <2>5, <2>7 DEF cmd_consumption
<1> QED
  BY <1>1, <1>2

Distinct(s) == \E i, j \in DOMAIN s : s[i] # s[j]

(* The channels that profile.py accepts, as the C parser sees them: none is  *)
(* dropped, and there are several if two places of the list differ.          *)
LEMMA ChannelsList ==
  ASSUME NEW s \in Seq(Int), s # <<>>, Range(s) \subseteq 11..26
  PROVE  /\ Range(s) # {} /\ parse_channels_list(Range(s)) = Range(s)
         /\ (\E a, b \in Range(s) : a # b) <=> Distinct(s)
         /\ Distinct(s) => Len(s) > 1
         /\ Len(s) > 1 <=> Len(s) # 1
<1>1. DOMAIN s = 1..Len(s) /\ Len(s) \in Nat /\ Len(s) # 0
  BY LenProperties, EmptySeq
<1>2. Range(s) = { s[i] : i \in DOMAIN s }
  BY DEF Range
<1>3. 1 \in DOMAIN s
  BY <1>1
<1>4. Range(s) # {}
  BY <1>2, <1>3
<1>5. (\E a, b \in Range(s) : a # b) <=> Distinct(s)
  BY <1>2 DEF Distinct
<1>6. Distinct(s) => Len(s) > 1
  BY <1>1 DEF Distinct
<1>7. Len(s) > 1 <=> Len(s) # 1
  <2>1. \A n \in Nat : n # 0 => (n > 1 <=> n # 1)
    OBVIOUS
  <2> QED
    BY <1>1, <2>1
<1>8. parse_channels_list(Range(s)) = Range(s)
  BY DEF parse_channels_list
<1> QED
  BY <1>4, <1>5, <1>6, <1>7, <1>8

(* The 16 bits of a period in a packet keep it. *)
LEMMA PeriodKept ==
  ASSUME NEW n \in 0..MaxPeriod
  PROVE  n % 65536 = n
<1>1. MaxPeriod \in Int /\ MaxPeriod < 65536
  BY DEF MaxPeriod
<1>2. n \in Int /\ 0 <= n /\ n < 65536
  BY <1>1
<1> QED
  BY <1>2

(* Radio (profile.py) refuses an empty list and channels outside 11 to 26. *)
LEMMA RadioChannels ==
  ASSUME NEW r \in RadioDicts, RadioValid(r)
  PROVE  /\ r.channels \in Seq(Int) /\ r.channels # <<>>
         /\ Range(r.channels) \subseteq 11..26
BY DEF RadioValid, RadioDicts

(* Radio._is_valid, in the terms of the C parser: a period and a number fit  *)
(* their fields, and a sniffer has a period if its list is not of length 1.  *)
LEMMA RadioFields ==
  ASSUME NEW r \in RadioDicts, RadioValid(r)
  PROVE  /\ r.mode = "rssi" =>
              /\ r.period % 65536 # 0
              /\ ~(r.num_per_channel > 255)
         /\ r.mode # "rssi" =>
              /\ r.mode = "sniffer"
              /\ RadioPeriod(r) % 65536 = RadioPeriod(r)
              /\ RadioPeriod(r) # 0 <=> Len(r.channels) # 1
<1>1. ASSUME r.mode = "rssi"
      PROVE  r.period % 65536 # 0 /\ ~(r.num_per_channel > 255)
  <2>1. r.period \in 1..MaxPeriod /\ r.num_per_channel \in 0..255
    BY <1>1 DEF RadioValid
  <2>2. ASSUME NEW n \in 1..MaxPeriod PROVE n \in 0..MaxPeriod /\ n # 0
    OBVIOUS
  <2> QED
    BY <2>1, <2>2, PeriodKept
<1>2. ASSUME r.mode # "rssi"
      PROVE  /\ r.mode = "sniffer"
             /\ RadioPeriod(r) % 65536 = RadioPeriod(r)
             /\ RadioPeriod(r) # 0 <=> Len(r.channels) # 1
  <2>1. /\ r.mode = "sniffer" /\ RadioPeriod(r) \in 0..MaxPeriod
        /\ RadioPeriod(r) # 0 <=> Len(r.channels) # 1
    BY <1>2 DEF RadioValid
  <2> QED
    BY <2>1, PeriodKept
<1> QED
  BY <1>1, <1>2

(* A sniffer on several channels needs two of them to differ; every other    *)
(* radio that profile.py accepts is accepted by command_reader.c.            *)
LEMMA RadioAccepted ==
  ASSUME NEW p, IsProfileDict(p), ProfileValid(p)
  PROVE  parse_cmd(config_radio(p)) # Refused
         <=> \A r \in Range(p.radio) :
               r.mode = "sniffer" /\ Len(r.channels) > 1 =>
                 \E i, j \in DOMAIN r.channels : r.channels[i] # r.channels[j]
<1> DEFINE line == config_radio(p)
<1>0. \A type, data : Packet(type, data) # Refused
  BY DEF Packet, Refused
<1>1. CASE p.radio = <<>>
  <2>1. line.name = "config_radio_stop" /\ line.words = <<>>
    BY <1>1 DEF config_radio, Line
  <2>2. command_parse(line)
    BY <2>1 DEF command_parse, commands
  <2>3. parse_cmd(line) = Packet(commands_d["config_radio_stop"], <<>>)
    BY <2>1, <2>2 DEF parse_cmd
  <2>4. Range(p.radio) = {}
    BY <1>1, OneValue DEF IsProfileDict
  <2> QED
    BY <1>0, <2>3, <2>4
<1>2. CASE p.radio # <<>>
  <2> DEFINE r == p.radio[1]
             channels == Range(r.channels)
             period == RadioPeriod(r)
             distinct == Distinct(r.channels)
  <2>1. r \in RadioDicts /\ Range(p.radio) = {r}
    BY <1>2, OneValue DEF IsProfileDict
  <2>2. RadioValid(r)
    BY <2>1 DEF ProfileValid
  <2> HIDE DEF r
  <2>3. /\ r.channels \in Seq(Int) /\ r.channels # <<>> /\ channels \subseteq 11..26
    BY <2>1, <2>2, RadioChannels
  <2>4. /\ channels # {} /\ parse_channels_list(channels) = channels
        /\ (\E a, b \in channels : a # b) <=> distinct
        /\ distinct => Len(r.channels) > 1
        /\ Len(r.channels) > 1 <=> Len(r.channels) # 1
    BY <2>3, ChannelsList
  <2>5. ASSUME r.mode # "rssi"
        PROVE  /\ r.mode = "sniffer" /\ period % 65536 = period
               /\ period # 0 <=> Len(r.channels) # 1
    BY <2>1, <2>2, <2>5, RadioFields
  <2> HIDE DEF channels, period, distinct
  <2>6. CASE r.mode = "rssi"
    <3> DEFINE w == <<channels, r.period, r.num_per_channel>>
    <3>1. line.name = "config_radio_measure" /\ line.words = w
      BY <1>2, <2>6 DEF config_radio, Line, r, channels
    <3>2. Len(w) = 3 /\ w[1] = channels /\ w[2] = r.period /\ w[3] = r.num_per_channel
      OBVIOUS
    <3> HIDE DEF w
    <3>3. command_parse(line)
      BY <3>1, <3>2 DEF command_parse, commands
    <3>4. parse_cmd(line) = cmd_radio_measure(commands_d["config_radio_measure"], w)
      BY <3>1, <3>3 DEF parse_cmd
    <3>5. r.period % 65536 # 0 /\ ~(r.num_per_channel > 255)
      BY <2>1, <2>2, <2>6, RadioFields
    <3>6. parse_cmd(line) # Refused
      BY <1>0, <2>4, <3>2, <3>4, <3>5 DEF cmd_radio_measure
    <3> QED
      BY <2>1, <2>6, <3>6
  <2>7. CASE r.mode # "rssi"
    <3> DEFINE w == <<channels, period>>
    <3>1. line.name = "config_radio_sniffer" /\ line.words = w
      BY <1>2, <2>7 DEF config_radio, Line, r, channels, period
    <3>2. Len(w) = 2 /\ w[1] = channels /\ w[2] = period
      OBVIOUS
    <3> HIDE DEF w
    <3>3. command_parse(line)
      BY <3>1, <3>2 DEF command_parse, commands
    <3>4. parse_cmd(line) = cmd_radio_sniffer(commands_d["config_radio_sniffer"], w)
      BY <3>1, <3>3 DEF parse_cmd
    <3>5. parse_cmd(line) = Refused <=> (distinct /\ period = 0) \/ (~distinct /\ period # 0)
      BY <1>0, <2>4, <2>5, <2>7, <3>2, <3>4 DEF cmd_radio_sniffer
    <3>6. parse_cmd(line) # Refused <=> (Len(r.channels) > 1 => distinct)
      BY <2>4, <2>5, <2>7, <3>5
    <3> QED
      BY <2>1, <2>5, <2>7, <3>6 DEF distinct, Distinct
  <2> QED
    BY <2>6, <2>7
<1> QED
  BY <1>1, <1>2

(* default_profile.json measures nothing. *)
LEMMA DefaultIsValid ==
  /\ IsProfileDict(DefaultProfile) /\ ProfileValid(DefaultProfile)
  /\ DefaultProfile.power = "dc"
  /\ Wanted(DefaultProfile).consumption = <<>> /\ Wanted(DefaultProfile).radio = <<>>
<1> DEFINE p == DefaultProfile
<1>1. p.power = "dc" /\ p.consumption = <<>> /\ p.radio = <<>>
  BY DEF DefaultProfile
<1>2. \A S : <<>> \in Seq(S) /\ Len(<<>>) = 0
  OBVIOUS
<1>3. Range(<<>>) = {}
  BY DEF Range
<1> HIDE DEF p
<1>4. IsProfileDict(p)
  BY <1>1, <1>2 DEF IsProfileDict
<1>5. ProfileValid(p)
  BY <1>1, <1>3 DEF ProfileValid
<1>6. Wanted(p).consumption = <<>> /\ Wanted(p).radio = <<>>
  BY <1>1 DEF Wanted
<1> QED
  BY <1>1, <1>4, <1>5, <1>6 DEF p

ProfileInv == IsProfileDict(profile) /\ ProfileValid(profile)

(* self.profile is always one that Profile.from_dict accepted. *)
LEMMA ProfileInvariance == Spec => []ProfileInv
<1>1. Init => ProfileInv
  BY DefaultIsValid DEF Init, ProfileInv
<1>2. ProfileInv /\ [Next]_vars => ProfileInv'
  <2> SUFFICES ASSUME ProfileInv, [Next]_vars PROVE ProfileInv'
    OBVIOUS
  <2> USE DEF ProfileInv
  <2>1. ASSUME NEW name, NEW p, NEW calls, Enter(name, p, calls),
               IsProfileDict(p), ProfileValid(p)
        PROVE  ProfileInv'
    BY <2>1 DEF Enter
  <2>2. CASE StopExperiment \/ ConfigureProfile(DefaultProfile)
    BY <2>1, <2>2, DefaultIsValid DEF StopExperiment, ConfigureProfile
  <2>3. ASSUME NEW p \in ProfileDicts, StartExperiment(p) \/ ConfigureProfile(p)
        PROVE  ProfileInv'
    BY <2>1, <2>3, ProfilesAssumption DEF StartExperiment, ConfigureProfile
  <2>4. CASE \/ Start \/ Stop \/ AutotestSetup
             \/ \E state \in {"start", "stop"} : OpenStartStop(state)
             \/ \E stop_on \in BOOLEAN : AutotestTeardown(stop_on)
    BY <2>1, <2>4 DEF Start, Stop, AutotestSetup, OpenStartStop, AutotestTeardown
  <2>5. CASE \/ SendFails \/ SendWorks \/ SendUnanswered \/ SendLate \/ LateArrives
             \/ ResetNode \/ StartLink \/ StopLink \/ LinkDies \/ Ykush \/ Camera
             \/ Return \/ UNCHANGED vars
    <3>1. profile' = profile
      BY <2>5 DEF SendFails, SendWorks, SendUnanswered, SendLate, LateArrives, ResetNode,
         StartLink, StopLink, LinkDies, Ykush, Camera, Return, vars
    <3> QED
      BY <3>1
  <2> QED
    BY <2>2, <2>3, <2>4, <2>5 DEF Next
<1> QED
  BY <1>1, <1>2, PTL DEF Spec

(* Of the profiles that Profile.from_dict accepts (profile.py), for any      *)
(* values of their fields, parse_cmd (command_reader.c) refuses those with a *)
(* power source it cannot read or a sniffer on one channel given several     *)
(* times, and no other.                                                      *)
THEOREM RefusedAreKnown == Spec => []AcceptedUnlessKnown
<1>1. IInv /\ ProfileInv => AcceptedUnlessKnown
  <2> SUFFICES ASSUME IInv, ProfileInv PROVE AcceptedUnlessKnown
    OBVIOUS
  <2>1. open_node_state \in States /\ IsProfileDict(profile) /\ ProfileValid(profile)
    BY DEF IInv, ProfileInv
  <2> QED
    BY <2>1, PowerAccepted, ConsumptionAccepted, RadioAccepted DEF AcceptedUnlessKnown
<1> QED
  BY <1>1, Invariance, ProfileInvariance, PTL

-----------------------------------------------------------------------------
(* What each command sets *)

Fields == {"on", "source", "consumption", "radio", "led", "time", "id"}

(* A packet changes only the fields of its command. *)
LEMMA ExecuteFields ==
  ASSUME NEW h, DOMAIN h = Fields, NEW pkt, NEW name \in Names,
         pkt.type = commands_d[name]
  PROVE  /\ DOMAIN Execute(h, pkt) = Fields
         /\ \A f \in Fields \ Written(name) : Execute(h, pkt)[f] = h[f]
<1> USE DEF commands_d
<1>1. CASE name = "start"
  <2>1. Execute(h, pkt) = [h EXCEPT !.on = TRUE, !.source = Key(alim_d, pkt.data[1])]
    BY <1>1 DEF Execute
  <2>2. Written(name) = {"on", "source"}
    BY <1>1 DEF Written
  <2>3. \A k : /\ DOMAIN [h EXCEPT !.on = TRUE, !.source = k] = Fields
               /\ \A f \in Fields \ {"on", "source"} :
                    [h EXCEPT !.on = TRUE, !.source = k][f] = h[f]
    OBVIOUS
  <2> QED
    BY <2>1, <2>2, <2>3
<1>2. CASE name = "stop"
  BY <1>2 DEF Execute, Written
<1>3. CASE name = "set_time"
  BY <1>3 DEF Execute, Written
<1>4. CASE name = "set_node_id"
  BY <1>4 DEF Execute, Written
<1>5. CASE name = "green_led_on"
  BY <1>5 DEF Execute, Written
<1>6. CASE name = "green_led_blink"
  BY <1>6 DEF Execute, Written
<1>7. CASE name = "config_radio_stop"
  BY <1>7 DEF Execute, Written
<1>8. CASE name = "config_radio_measure"
  BY <1>8 DEF Execute, Written
<1>9. CASE name = "config_radio_sniffer"
  BY <1>9 DEF Execute, Written
<1>10. CASE name = "config_consumption_measure"
  BY <1>10 DEF Execute, Written
<1> QED
  BY <1>1, <1>2, <1>3, <1>4, <1>5, <1>6, <1>7, <1>8, <1>9, <1>10 DEF Names

(* What a call that works does to the hardware, reset excepted. *)
Accepted(c) == c.do \in {"send", "power"} => parse_cmd(c.line) # Refused

Effect(c, h) ==
  CASE c.do \in {"send", "power"} -> Execute(h, parse_cmd(c.line)[1])
    [] c.do = "ykush" -> [h EXCEPT !.on = (c.state = "start")]
    [] OTHER -> h

Works(c, h) == c.do # "reset" /\ DOMAIN h = Fields /\ Accepted(c)

(* Call c sets field f, to the value v, or leaves it that value. *)
Sets(c, f) == c.do \in {"send", "power"} => f \in Written(c.line.name)
Attains(c, f, v) ==
  c.do # "reset" /\ Sets(c, f) /\ \A h : Works(c, h) => Effect(c, h)[f] = v
Keeps(c, f, v) ==
  c.do # "reset" /\ \A h : Works(c, h) /\ h[f] = v => Effect(c, h)[f] = v

(* The hardware keeps its fields. *)
LEMMA EffectFields ==
  ASSUME NEW c, IsCall(c), NEW h, Works(c, h)
  PROVE  DOMAIN Effect(c, h) = Fields
<1>1. CASE c.do \in {"send", "power"}
  <2>1. c.line.name \in Names /\ parse_cmd(c.line) # Refused
    BY <1>1 DEF IsCall, Names, States, Works, Accepted
  <2>2. parse_cmd(c.line)[1].type = commands_d[c.line.name]
    BY <2>1, ParsedType
  <2> QED
    BY <1>1, <2>1, <2>2, ExecuteFields DEF Effect, Works
<1>2. CASE c.do \notin {"send", "power"}
  BY <1>2 DEF Effect, Works
<1> QED
  BY <1>1, <1>2

(* A command leaves every field alone that it does not set. *)
LEMMA SendKeeps ==
  ASSUME NEW c, c.do \in {"send", "power"}, c.line.name \in Names,
         NEW f \in Fields \ Written(c.line.name), NEW v
  PROVE  Keeps(c, f, v)
<1> SUFFICES ASSUME NEW h, Works(c, h), h[f] = v PROVE Effect(c, h)[f] = v
  BY DEF Keeps
<1>1. parse_cmd(c.line) # Refused
  BY DEF Works, Accepted
<1>2. parse_cmd(c.line)[1].type = commands_d[c.line.name]
  BY <1>1, ParsedType
<1> QED
  BY <1>1, <1>2, ExecuteFields DEF Effect, Works

(* So does a call that is not for the control node. *)
LEMMA CallKeeps ==
  ASSUME NEW do \in {"start", "stop", "camera_start", "camera_stop"}, NEW counts,
         NEW f, NEW v
  PROVE  Keeps(Call(do, counts), f, v)
<1>1. Call(do, counts).do = do
  BY DEF Call
<1> QED
  BY <1>1 DEF Keeps, Effect

(* start and stop with their source: the byte of the source names one entry  *)
(* of the dictionary.                                                        *)
LEMMA PowerSets ==
  ASSUME NEW c, c.do \in {"send", "power"}, NEW state \in States, NEW source,
         c.line = start_stop(state, source)
  PROVE  /\ Attains(c, "on", state = "start")
         /\ state = "start" => Attains(c, "source", source)
<1> DEFINE line == c.line
           type == commands_d[state]
           pkt == parse_cmd(line)[1]
<1>1. line.name = state /\ line.words = <<source>> /\ line.words[1] = source
  BY DEF start_stop, Line
<1>2. SUFFICES ASSUME NEW h, Works(c, h)
               PROVE  /\ Effect(c, h).on = (state = "start")
                      /\ state = "start" => Effect(c, h).source = source
  <2>1. Sets(c, "on") /\ (state = "start" => Sets(c, "source"))
    BY <1>1 DEF Sets, Written, States
  <2> QED
    BY <1>2, <2>1 DEF Attains
<1>3. parse_cmd(line) # Refused
  BY <1>2 DEF Works, Accepted
<1>4. source \in {"dc", "battery"}
  BY <1>3, PowerAccepted
<1>5. parse_cmd(line) = cmd_alim(type, line.words)
  BY <1>1, <1>3 DEF parse_cmd, States
<1>6. get_val(source, alim_d) = alim_d[source]
  BY <1>4 DEF get_val, LongWords, alim_d
<1>7. pkt.type = type /\ pkt.data[1] = alim_d[source]
  BY <1>1, <1>3, <1>5, <1>6 DEF cmd_alim, Packet
<1>8. Key(alim_d, alim_d[source]) = source
  <2>1. /\ DOMAIN alim_d = {"dc", "dc_charge", "battery"}
        /\ alim_d["dc"] = 2 /\ alim_d["dc_charge"] = 1 /\ alim_d["battery"] = 0
    BY DEF alim_d
  <2>2. \A k \in DOMAIN alim_d : alim_d[k] = alim_d[source] => k = source
    BY <1>4, <2>1
  <2>3. source \in DOMAIN alim_d
    BY <1>4, <2>1
  <2> QED
    BY <2>2, <2>3 DEF Key
<1>9. Effect(c, h) = Execute(h, pkt)
  BY DEF Effect
<1>10. "on" \in DOMAIN h /\ "source" \in DOMAIN h
  BY <1>2 DEF Works, Fields
<1> HIDE DEF pkt
<1>11. CASE state = "start"
  <2>1. Execute(h, pkt) = [h EXCEPT !.on = TRUE, !.source = Key(alim_d, pkt.data[1])]
    BY <1>7, <1>11 DEF Execute, commands_d
  <2>2. \A k : /\ [h EXCEPT !.on = TRUE, !.source = k].on = TRUE
               /\ [h EXCEPT !.on = TRUE, !.source = k].source = k
    BY <1>10
  <2>3. Execute(h, pkt).on = TRUE /\ Execute(h, pkt).source = source
    BY <1>7, <1>8, <2>1, <2>2
  <2> QED
    BY <1>9, <1>11, <2>3
<1>12. CASE state = "stop"
  <2>1. Execute(h, pkt) = [h EXCEPT !.on = FALSE]
    BY <1>7, <1>12 DEF Execute, commands_d
  <2> QED
    BY <1>9, <1>10, <1>12, <2>1
<1> QED
  BY <1>11, <1>12 DEF States

(* The commands without words: the leds and the time. *)
LEMMA WordlessSets ==
  /\ Attains(Send(Line("green_led_on", <<>>)), "led", "on")
  /\ Attains(Send(Line("green_led_blink", <<>>)), "led", "blink")
  /\ Attains(Send(Line("set_time", <<>>)), "time", TRUE)
<1>1. ASSUME NEW name \in {"green_led_on", "green_led_blink", "set_time"}, NEW h,
             Works(Send(Line(name, <<>>)), h)
      PROVE  /\ name = "green_led_on" => Effect(Send(Line(name, <<>>)), h).led = "on"
             /\ name = "green_led_blink" => Effect(Send(Line(name, <<>>)), h).led = "blink"
             /\ name = "set_time" => Effect(Send(Line(name, <<>>)), h).time = TRUE
  <2> DEFINE line == Line(name, <<>>)
             pkt == parse_cmd(line)[1]
             e == Effect(Send(line), h)
  <2>1. line.name = name
    BY DEF Line
  <2>2. Send(line).do = "send" /\ Send(line).line = line
    BY DEF Send
  <2>3. parse_cmd(line) # Refused
    BY <1>1, <2>2 DEF Works, Accepted
  <2>4. pkt.type = commands_d[name]
    BY <2>1, <2>3, ParsedType DEF Names
  <2>5. e = Execute(h, pkt)
    BY <2>2 DEF Effect
  <2>6. "led" \in DOMAIN h /\ "time" \in DOMAIN h
    BY <1>1 DEF Works, Fields
  <2> HIDE DEF pkt, e
  <2>7. name = "green_led_on" => e.led = "on"
    BY <2>4, <2>5, <2>6 DEF Execute, commands_d
  <2>8. name = "green_led_blink" => e.led = "blink"
    BY <2>4, <2>5, <2>6 DEF Execute, commands_d
  <2>9. name = "set_time" => e.time = TRUE
    BY <2>4, <2>5, <2>6 DEF Execute, commands_d
  <2> QED
    BY <2>7, <2>8, <2>9 DEF e
<1>2. \A name : LET c == Send(Line(name, <<>>)) IN c.do = "send" /\ c.line.name = name
  BY DEF Send, Line
<1>3. /\ "led" \in Written("green_led_on") /\ "led" \in Written("green_led_blink")
      /\ "time" \in Written("set_time")
  BY DEF Written
<1> QED
  BY <1>1, <1>2, <1>3 DEF Attains, Sets

(* The id of an m3 or a8 node: 4 bits of architecture, 12 of number. *)
NodeId == 4096 * archi_d[Archi] + (Num % 4096)

(* The node is given that id, whose low 12 bits are the number. *)
LEMMA IdSets ==
  ASSUME Archi \in {"m3", "a8"}
  PROVE  /\ Attains(Send(Line("set_node_id", <<Archi, Num>>)), "id", NodeId)
         /\ NodeId % 4096 = Num
<1> DEFINE w == <<Archi, Num>>
           line == Line("set_node_id", w)
           pkt == parse_cmd(line)[1]
           c == Send(line)
<1>1. /\ line.name = "set_node_id" /\ line.words = w
      /\ w[1] = Archi /\ w[2] = Num
      /\ c.do = "send" /\ c.line = line
  BY DEF Line, Send
<1>2. archi_d[Archi] \in {3, 8} /\ Archi \in DOMAIN archi_d \ LongWords
  BY DEF archi_d, LongWords
<1>3. get_val(Archi, archi_d) # 255
  BY <1>2 DEF get_val
<1> HIDE DEF w, line, c
<1>4. ASSUME NEW h, Works(c, h) PROVE Effect(c, h).id = NodeId
  <2>1. parse_cmd(line) # Refused
    BY <1>1, <1>4 DEF Works, Accepted
  <2>2. parse_cmd(line) = cmd_set_node_id(commands_d["set_node_id"], w)
    BY <1>1, <2>1 DEF parse_cmd
  <2>3. pkt.type = commands_d["set_node_id"] /\ pkt.data[1] = NodeId
    BY <1>1, <1>3, <2>2 DEF cmd_set_node_id, Packet, NodeId
  <2>4. Effect(c, h) = Execute(h, pkt) /\ "id" \in DOMAIN h
    BY <1>1, <1>4 DEF Effect, Works, Fields
  <2> HIDE DEF pkt
  <2> QED
    BY <2>3, <2>4 DEF Execute, commands_d
<1>5. Attains(c, "id", NodeId)
  <2>1. Sets(c, "id")
    BY <1>1 DEF Sets, Written
  <2> QED
    BY <1>1, <1>4, <2>1 DEF Attains
<1>6. NodeId % 4096 = Num
  <2>1. Num % 4096 = Num
    BY NumAssumption
  <2>2. \A a \in {3, 8} : (4096 * a + Num) % 4096 = Num
    BY NumAssumption
  <2> QED
    BY <1>2, <2>1, <2>2 DEF NodeId
<1> QED
  BY <1>5, <1>6 DEF c, line, w

(* The tables of eight values: the place of a value finds it again. *)
LEMMA Places ==
  /\ \A x \in Range(PeriodChoices) :
       periods_d[x] \in 0..7 /\ PeriodChoices[1 + periods_d[x]] = x
  /\ \A x \in Range(AverageChoices) :
       \E k \in 0..7 : average_d[x] = 16 * k /\ AverageChoices[1 + k] = x
<1>1. ASSUME NEW s, DOMAIN s = 1..8, Len(s) = 8,
             \A i, j \in 1..8 : s[i] = s[j] => i = j,
             NEW x \in Range(s)
      PROVE  /\ SelectInSeq(s, LAMBDA y : y = x) \in 1..8
             /\ s[SelectInSeq(s, LAMBDA y : y = x)] = x
  <2>1. PICK i \in 1..8 : s[i] = x
    BY <1>1 DEF Range
  <2> DEFINE I == { j \in 1..Len(s) : s[j] = x }
  <2>2. I = {i}
    BY <1>1, <2>1
  <2> HIDE DEF I
  <2>3. Min(I) = i /\ I # {}
    BY <2>1, <2>2 DEF Min
  <2>4. SelectInSeq(s, LAMBDA y : y = x) = Min(I)
    BY <2>3 DEF SelectInSeq, I
  <2> QED
    BY <2>1, <2>3, <2>4
<1>2. /\ DOMAIN PeriodChoices = 1..8 /\ Len(PeriodChoices) = 8
      /\ \A i, j \in 1..8 : PeriodChoices[i] = PeriodChoices[j] => i = j
  BY DEF PeriodChoices
<1>3. /\ DOMAIN AverageChoices = 1..8 /\ Len(AverageChoices) = 8
      /\ \A i, j \in 1..8 : AverageChoices[i] = AverageChoices[j] => i = j
  BY DEF AverageChoices
<1>4. \A k \in 1..8 : k - 1 \in 0..7 /\ 1 + (k - 1) = k
  OBVIOUS
<1>5. ASSUME NEW x \in Range(PeriodChoices)
      PROVE  periods_d[x] \in 0..7 /\ PeriodChoices[1 + periods_d[x]] = x
  <2> DEFINE k == SelectInSeq(PeriodChoices, LAMBDA y : y = x)
  <2>1. k \in 1..8 /\ PeriodChoices[k] = x
    BY <1>1, <1>2
  <2>2. periods_d[x] = k - 1
    BY DEF periods_d
  <2> HIDE DEF k
  <2> QED
    BY <1>4, <2>1, <2>2
<1>6. ASSUME NEW x \in Range(AverageChoices)
      PROVE  \E k \in 0..7 : average_d[x] = 16 * k /\ AverageChoices[1 + k] = x
  <2> DEFINE k == SelectInSeq(AverageChoices, LAMBDA y : y = x)
  <2>1. k \in 1..8 /\ AverageChoices[k] = x
    BY <1>1, <1>3
  <2>2. average_d[x] = 16 * (k - 1)
    BY DEF average_d
  <2> HIDE DEF k
  <2> QED
    BY <1>4, <2>1, <2>2
<1> QED
  BY <1>5, <1>6

(* The two bytes of a consumption are decoded to what was encoded. *)
LEMMA Decoded ==
  ASSUME NEW source \in {"3.3V", "5V", "BATT"},
         NEW power \in BOOLEAN, NEW voltage \in BOOLEAN, NEW current \in BOOLEAN,
         NEW period \in Range(PeriodChoices), NEW average \in Range(AverageChoices)
  PROVE  DecodeConsumption(power_source_d[source] + Bit(power) + 2 * Bit(voltage)
                             + 4 * Bit(current),
                           periods_d[period] + average_d[average])
         = [ source |-> source, power |-> power, voltage |-> voltage,
             current |-> current, period |-> period, average |-> average ]
<1> DEFINE s == power_source_d[source]
           c0 == s + Bit(power) + 2 * Bit(voltage) + 4 * Bit(current)
           c1 == periods_d[period] + average_d[average]
<1>1. s \in {16, 32, 64}
  BY DEF power_source_d
<1>2. Bit(power) \in {0, 1} /\ Bit(voltage) \in {0, 1} /\ Bit(current) \in {0, 1}
  BY DEF Bit
<1>3. \A n \in {16, 32, 64}, x, y, z \in {0, 1} :
        /\ (n + x + 2 * y + 4 * z) - ((n + x + 2 * y + 4 * z) % 16) = n
        /\ (n + x + 2 * y + 4 * z) % 2 = x
        /\ ((n + x + 2 * y + 4 * z) \div 2) % 2 = y
        /\ ((n + x + 2 * y + 4 * z) \div 4) % 2 = z
  OBVIOUS
<1>4. /\ c0 - (c0 % 16) = s
      /\ c0 % 2 = Bit(power)
      /\ (c0 \div 2) % 2 = Bit(voltage)
      /\ (c0 \div 4) % 2 = Bit(current)
  BY <1>1, <1>2, <1>3
<1>5. Key(power_source_d, s) = source
  <2>1. \A k \in DOMAIN power_source_d : power_source_d[k] = s => k = source
    BY DEF power_source_d
  <2>2. source \in DOMAIN power_source_d
    BY DEF power_source_d
  <2> QED
    BY <2>1, <2>2 DEF Key
<1>6. /\ (Bit(power) = 1) = power
      /\ (Bit(voltage) = 1) = voltage
      /\ (Bit(current) = 1) = current
  BY DEF Bit
<1>7. PICK k \in 0..7 : average_d[average] = 16 * k /\ AverageChoices[1 + k] = average
  BY Places
<1>8. periods_d[period] \in 0..7 /\ PeriodChoices[1 + periods_d[period]] = period
  BY Places
<1>9. \A i, j \in 0..7 : (i + 16 * j) % 16 = i /\ (i + 16 * j) \div 16 = j
  OBVIOUS
<1>10. PeriodChoices[1 + (c1 % 16)] = period /\ AverageChoices[1 + (c1 \div 16)] = average
  BY <1>7, <1>8, <1>9
<1> HIDE DEF c0, c1, s
<1>11. DecodeConsumption(c0, c1)
         = [ source |-> source, power |-> power, voltage |-> voltage,
             current |-> current, period |-> period, average |-> average ]
  BY <1>4, <1>5, <1>6, <1>10 DEF DecodeConsumption
<1> QED
  BY <1>11 DEF c0, c1, s

(* A consumption that was accepted is measured as the profile says. *)
LEMMA ConsumptionSets ==
  ASSUME NEW p, IsProfileDict(p), ProfileValid(p)
  PROVE  Attains(Send(config_consumption(Alim, p)), "consumption", Wanted(p).consumption)
<1> DEFINE line == config_consumption(Alim, p)
           call == Send(line)
           type == commands_d["config_consumption_measure"]
           pkt == parse_cmd(line)[1]
           want == Wanted(p).consumption
<1>1. call.do = "send" /\ call.line = line
  BY DEF Send
<1>2. line.name = "config_consumption_measure"
  BY DEF config_consumption, Line
<1>3. SUFFICES ASSUME NEW h, Works(call, h) PROVE Effect(call, h).consumption = want
  <2>1. Sets(call, "consumption")
    BY <1>1, <1>2 DEF Sets, Written
  <2> QED
    BY <1>1, <1>3, <2>1 DEF Attains
<1>4. parse_cmd(line) # Refused
  BY <1>1, <1>3 DEF Works, Accepted
<1>5. parse_cmd(line) = cmd_consumption(type, line.words)
  BY <1>2, <1>4 DEF parse_cmd
<1>6. Effect(call, h) = Execute(h, pkt) /\ "consumption" \in DOMAIN h
  BY <1>1, <1>3 DEF Effect, Works, Fields
<1>7. ASSUME pkt.type = type
      PROVE  Execute(h, pkt).consumption =
               IF pkt.data[1] = 0 THEN <<>>
               ELSE <<DecodeConsumption(pkt.data[2], pkt.data[3])>>
  <2> HIDE DEF pkt
  <2> QED
    BY <1>6, <1>7 DEF Execute, commands_d
<1>8. CASE \A c \in Range(p.consumption) : ~Measures(c)
  <2>1. line.words = <<"stop">> /\ line.words[1] = "stop"
    BY <1>8 DEF config_consumption, Line
  <2>2. parse_cmd(line) = Packet(type, <<0, 0, 0>>)
    BY <1>5, <2>1 DEF cmd_consumption, state_d
  <2>3. pkt.type = type /\ pkt.data[1] = 0
    BY <2>2 DEF Packet
  <2>4. p.consumption = <<>> \/ ~Measures(p.consumption[1])
    BY <1>8, OneValue DEF IsProfileDict
  <2>5. want = <<>>
    BY <2>4 DEF Wanted
  <2> QED
    BY <1>6, <1>7, <2>3, <2>5
<1>9. CASE ~\A c \in Range(p.consumption) : ~Measures(c)
  <2> DEFINE c == p.consumption[1]
             source == ConsumptionSource(Alim, p.power)
             w == <<"start", source, Bit(c.power), Bit(c.voltage), Bit(c.current),
                    c.period, c.average>>
             b0 == power_source_d[source] + Bit(c.power) + 2 * Bit(c.voltage)
                     + 4 * Bit(c.current)
             b1 == periods_d[c.period] + average_d[c.average]
  <2>1. p.consumption # <<>> /\ c \in ConsumptionDicts /\ Range(p.consumption) = {c}
    BY <1>9, OneValue DEF IsProfileDict
  <2>2. Measures(c) /\ c.period \in Range(PeriodChoices) /\ c.average \in Range(AverageChoices)
    BY <1>9, <2>1 DEF ProfileValid, ConsumptionValid
  <2>3. source \in {"3.3V", "5V", "BATT"}
    BY AlimAssumption DEF ConsumptionSource
  <2>4. line.words = w
    BY <1>9 DEF config_consumption, Line
  <2>5. /\ w[1] = "start" /\ w[2] = source /\ w[3] = Bit(c.power) /\ w[4] = Bit(c.voltage)
        /\ w[5] = Bit(c.current) /\ w[6] = c.period /\ w[7] = c.average
    OBVIOUS
  <2>6. c.power \in BOOLEAN /\ c.voltage \in BOOLEAN /\ c.current \in BOOLEAN
    BY <2>1 DEF ConsumptionDicts
  <2>7. DecodeConsumption(b0, b1)
          = [ source |-> source, power |-> c.power, voltage |-> c.voltage,
              current |-> c.current, period |-> c.period, average |-> c.average ]
    BY <2>2, <2>3, <2>6, Decoded
  <2>8. want = <<[ source |-> source, power |-> c.power, voltage |-> c.voltage,
                   current |-> c.current, period |-> c.period, average |-> c.average ]>>
    BY <2>1, <2>2 DEF Wanted, ConsumptionSource
  <2> HIDE DEF w
  <2>9. parse_cmd(line) = Packet(type, <<1, b0, b1>>)
    BY <1>4, <1>5, <2>4, <2>5 DEF cmd_consumption, state_d
  <2> HIDE DEF b0, b1
  <2>10. pkt.type = type /\ pkt.data[1] = 1 /\ pkt.data[2] = b0 /\ pkt.data[3] = b1
    BY <2>9 DEF Packet
  <2>11. Execute(h, pkt).consumption = <<DecodeConsumption(b0, b1)>>
    BY <1>7, <2>10
  <2> QED
    BY <1>6, <2>7, <2>8, <2>11
<1> QED
  BY <1>8, <1>9

(* A radio that was accepted measures or sniffs as the profile says. *)
LEMMA RadioSets ==
  ASSUME NEW p, IsProfileDict(p), ProfileValid(p)
  PROVE  Attains(Send(config_radio(p)), "radio", Wanted(p).radio)
<1> DEFINE line == config_radio(p)
           call == Send(line)
           pkt == parse_cmd(line)[1]
           want == Wanted(p).radio
<1>1. call.do = "send" /\ call.line = line
  BY DEF Send
<1>2. SUFFICES ASSUME NEW h, Works(call, h) PROVE Effect(call, h).radio = want
  <2>1. line.name \in {"config_radio_stop", "config_radio_measure", "config_radio_sniffer"}
    BY DEF config_radio, Line
  <2>2. Sets(call, "radio")
    BY <1>1, <2>1 DEF Sets, Written
  <2> QED
    BY <1>1, <1>2, <2>2 DEF Attains
<1>3. parse_cmd(line) # Refused
  BY <1>1, <1>2 DEF Works, Accepted
<1>4. Effect(call, h) = Execute(h, pkt) /\ "radio" \in DOMAIN h
  BY <1>1, <1>2 DEF Effect, Works, Fields
<1>5. CASE p.radio = <<>>
  <2>1. line.name = "config_radio_stop"
    BY <1>5 DEF config_radio, Line
  <2>2. pkt.type = commands_d["config_radio_stop"]
    BY <1>3, <2>1, ParsedType DEF Names
  <2>3. want = <<>>
    BY <1>5 DEF Wanted
  <2> HIDE DEF pkt, want
  <2> QED
    BY <1>4, <2>2, <2>3 DEF Execute, commands_d
<1>6. CASE p.radio # <<>>
  <2> DEFINE r == p.radio[1]
             channels == Range(r.channels)
             period == RadioPeriod(r)
  <2>1. r \in RadioDicts /\ Range(p.radio) = {r}
    BY <1>6, OneValue DEF IsProfileDict
  <2>2. RadioValid(r)
    BY <2>1 DEF ProfileValid
  <2>3. want = << [ mode |-> r.mode, channels |-> channels,
                    period |-> IF r.period = NoValue THEN 0 ELSE r.period,
                    num_per_channel |-> r.num_per_channel ] >>
    BY <1>6 DEF Wanted
  <2>4. r.mode = "rssi" => line = Line("config_radio_measure",
                                       <<channels, r.period, r.num_per_channel>>)
    BY <1>6 DEF config_radio
  <2>5. r.mode # "rssi" => line = Line("config_radio_sniffer", <<channels, period>>)
    BY <1>6 DEF config_radio
  <2> HIDE DEF r, line, want
  <2>6. parse_channels_list(channels) = channels
    BY <2>1, <2>2, RadioChannels, ChannelsList
  <2>7. CASE r.mode = "rssi"
    <3> DEFINE w == <<channels, r.period, r.num_per_channel>>
    <3>1. line.name = "config_radio_measure" /\ line.words = w
      BY <2>4, <2>7 DEF Line
    <3>2. w[1] = channels /\ w[2] = r.period /\ w[3] = r.num_per_channel
      OBVIOUS
    <3>3. r.period \in 1..MaxPeriod
      BY <2>2, <2>7 DEF RadioValid
    <3>4. ASSUME NEW n \in 1..MaxPeriod PROVE n \in 0..MaxPeriod /\ n # NoValue
      BY DEF NoValue
    <3>5. r.period % 65536 = r.period /\ r.period # NoValue
      BY <3>3, <3>4, PeriodKept
    <3> HIDE DEF w
    <3>6. parse_cmd(line) = cmd_radio_measure(commands_d["config_radio_measure"], w)
      BY <1>3, <3>1 DEF parse_cmd
    <3>7. /\ pkt.type = commands_d["config_radio_measure"]
          /\ pkt.data = <<channels, r.period, r.num_per_channel>>
      BY <1>3, <2>6, <3>2, <3>5, <3>6 DEF cmd_radio_measure, Packet
    <3> HIDE DEF pkt, channels
    <3>8. pkt.data[1] = channels /\ pkt.data[2] = r.period /\ pkt.data[3] = r.num_per_channel
      BY <3>7
    <3>9. Execute(h, pkt).radio = <<[mode |-> "rssi", channels |-> channels,
            period |-> r.period, num_per_channel |-> r.num_per_channel]>>
      BY <1>4, <3>7, <3>8 DEF Execute, commands_d
    <3> QED
      BY <1>4, <2>3, <2>7, <3>5, <3>9
  <2>8. CASE r.mode # "rssi"
    <3> DEFINE w == <<channels, period>>
    <3>1. line.name = "config_radio_sniffer" /\ line.words = w
      BY <2>5, <2>8 DEF Line
    <3>2. w[1] = channels /\ w[2] = period
      OBVIOUS
    <3>3. r.mode = "sniffer" /\ period % 65536 = period
      BY <2>1, <2>2, <2>8, RadioFields
    <3>4. /\ r.num_per_channel = NoValue
          /\ period = IF r.period = NoValue THEN 0 ELSE r.period
      BY <2>2, <2>8, <3>3 DEF RadioValid, RadioPeriod
    <3> HIDE DEF w, period
    <3>5. parse_cmd(line) = cmd_radio_sniffer(commands_d["config_radio_sniffer"], w)
      BY <1>3, <3>1 DEF parse_cmd
    <3>6. /\ pkt.type = commands_d["config_radio_sniffer"]
          /\ pkt.data = <<channels, period>>
      BY <1>3, <2>6, <3>2, <3>3, <3>5 DEF cmd_radio_sniffer, Packet
    <3> HIDE DEF pkt, channels
    <3>7. pkt.data[1] = channels /\ pkt.data[2] = period
      BY <3>6
    <3>8. Execute(h, pkt).radio = <<[mode |-> "sniffer", channels |-> channels,
            period |-> period, num_per_channel |-> NoValue]>>
      BY <1>4, <3>6, <3>7 DEF Execute, commands_d
    <3> QED
      BY <1>4, <2>3, <3>3, <3>4, <3>8
  <2> QED
    BY <2>7, <2>8
<1> QED
  BY <1>5, <1>6

-----------------------------------------------------------------------------
(* What a list of calls leads to *)

List(s) == \E S : s \in Seq(S)

(* A call of the list gives field f the value v and no later one takes it    *)
(* away; or no call of the list changes it.                                  *)
Due(s, f, v) ==
  \E i \in 1..Len(s) :
    /\ Attains(s[i], f, v)
    /\ \A j \in 1..Len(s) : i < j => Keeps(s[j], f, v)
Rest(s, f, v) == \A j \in 1..Len(s) : Keeps(s[j], f, v)

(* The value is still to come, or there to stay. *)
Settled(s, f, v, h) == Due(s, f, v) \/ (h[f] = v /\ Rest(s, f, v))

(* The empty list and a single call. *)
LEMMA SmallLists ==
  ASSUME NEW f, NEW v
  PROVE  /\ List(<<>>) /\ Rest(<<>>, f, v)
         /\ \A c : /\ List(<<c>>)
                   /\ Attains(c, f, v) => Due(<<c>>, f, v)
                   /\ Keeps(c, f, v) => Rest(<<c>>, f, v)
<1>1. <<>> \in Seq({}) /\ Len(<<>>) = 0
  OBVIOUS
<1>2. List(<<>>) /\ Rest(<<>>, f, v)
  BY <1>1 DEF List, Rest
<1>3. ASSUME NEW c
      PROVE  /\ List(<<c>>)
             /\ Attains(c, f, v) => Due(<<c>>, f, v)
             /\ Keeps(c, f, v) => Rest(<<c>>, f, v)
  <2> DEFINE s == <<c>>
  <2>1. s \in Seq({c}) /\ Len(s) = 1 /\ s[1] = c
    OBVIOUS
  <2> HIDE DEF s
  <2>2. \A i \in 1..Len(s) : i = 1
    BY <2>1
  <2>3. Attains(c, f, v) => Due(s, f, v)
    BY <2>1, <2>2 DEF Due
  <2>4. Keeps(c, f, v) => Rest(s, f, v)
    BY <2>1, <2>2 DEF Rest
  <2> QED
    BY <2>1, <2>3, <2>4 DEF List, s
<1> QED
  BY <1>2, <1>3

(* One list after the other. *)
LEMMA JoinLists ==
  ASSUME NEW s, NEW t, List(s), List(t), NEW f, NEW v
  PROVE  /\ List(s \o t)
         /\ Due(t, f, v) => Due(s \o t, f, v)
         /\ Due(s, f, v) /\ Rest(t, f, v) => Due(s \o t, f, v)
         /\ Rest(s, f, v) /\ Rest(t, f, v) => Rest(s \o t, f, v)
<1>1. PICK S : s \in Seq(S)
  BY DEF List
<1>2. PICK T : t \in Seq(T)
  BY DEF List
<1>3. s \in Seq(S \cup T) /\ t \in Seq(S \cup T)
  BY <1>1, <1>2, SeqMonotonic
<1> DEFINE u == s \o t
           n == Len(s)
           m == Len(t)
<1>4. /\ u \in Seq(S \cup T)
      /\ Len(u) = n + m
      /\ \A i \in 1..(n + m) : u[i] = IF i <= n THEN s[i] ELSE t[i - n]
  BY <1>3, ConcatProperties
<1>5. n \in Nat /\ m \in Nat
  BY <1>3, LenProperties
<1> HIDE DEF u, n, m
<1>6. ASSUME NEW i \in 1..Len(u)
      PROVE  \/ i \in 1..n /\ u[i] = s[i]
             \/ i > n /\ i - n \in 1..m /\ u[i] = t[i - n]
  BY <1>4, <1>5
<1>7. \A i \in 1..n : i \in 1..Len(u) /\ u[i] = s[i]
  BY <1>4, <1>5
<1>8. \A i \in 1..m : n + i \in 1..Len(u) /\ u[n + i] = t[i]
  BY <1>4, <1>5
<1>9. Rest(s, f, v) /\ Rest(t, f, v) => Rest(u, f, v)
  BY <1>6 DEF Rest, n, m
<1>10. ASSUME Due(t, f, v) PROVE Due(u, f, v)
  <2>1. PICK i \in 1..m : Attains(t[i], f, v) /\ \A j \in 1..m : i < j => Keeps(t[j], f, v)
    BY <1>10 DEF Due, m
  <2>2. n + i \in 1..Len(u) /\ Attains(u[n + i], f, v)
    BY <1>8, <2>1
  <2>3. ASSUME NEW j \in 1..Len(u), n + i < j PROVE Keeps(u[j], f, v)
    <3>1. j - n \in 1..m /\ i < j - n /\ u[j] = t[j - n]
      BY <1>4, <1>5, <2>3
    <3> QED
      BY <2>1, <3>1
  <2> QED
    BY <2>2, <2>3 DEF Due
<1>11. ASSUME Due(s, f, v), Rest(t, f, v) PROVE Due(u, f, v)
  <2>1. PICK i \in 1..n : Attains(s[i], f, v) /\ \A j \in 1..n : i < j => Keeps(s[j], f, v)
    BY <1>11 DEF Due, n
  <2>2. i \in 1..Len(u) /\ Attains(u[i], f, v)
    BY <1>7, <2>1
  <2>3. ASSUME NEW j \in 1..Len(u), i < j PROVE Keeps(u[j], f, v)
    BY <1>6, <1>11, <2>1, <2>3 DEF Rest, m
  <2> QED
    BY <2>2, <2>3 DEF Due
<1> QED
  BY <1>4, <1>9, <1>10, <1>11 DEF List, u

(* The first call has worked, or was a reset: what was settled still is. *)
LEMMA TakeSettled ==
  ASSUME NEW s, List(s), s # <<>>, NEW f, NEW v, NEW h, Settled(s, f, v, h),
         NEW h2, Head(s).do # "reset" => Works(Head(s), h) /\ h2 = Effect(Head(s), h)
  PROVE  Settled(Tail(s), f, v, h2)
<1>1. PICK S : s \in Seq(S)
  BY DEF List
<1> DEFINE u == Tail(s)
           c == Head(s)
<1>2. /\ Len(u) = Len(s) - 1
      /\ \A i \in 1..Len(u) : u[i] = s[i + 1]
      /\ Len(s) \in Nat \ {0}
      /\ c = s[1]
  BY <1>1, HeadTailProperties, EmptySeq
<1> HIDE DEF u, c
<1>3. /\ 1 \in 1..Len(s)
      /\ \A i \in 1..Len(u) : i + 1 \in 1..Len(s) /\ 1 < i + 1
      /\ \A i, j \in 1..Len(u) : i < j => i + 1 < j + 1
      /\ \A i \in 1..Len(s) : i = 1 \/ (i - 1 \in 1..Len(u) /\ (i - 1) + 1 = i)
      /\ \A i \in 1..Len(s), j \in 1..Len(u) : i - 1 < j => i < j + 1
  BY <1>2
<1>4. CASE h[f] = v /\ Rest(s, f, v)
  <2>1. Keeps(c, f, v)
    BY <1>2, <1>3, <1>4 DEF Rest
  <2>2. h2[f] = v
    BY <1>4, <2>1 DEF Keeps, c
  <2>3. Rest(u, f, v)
    BY <1>2, <1>3, <1>4 DEF Rest
  <2> QED
    BY <2>2, <2>3 DEF Settled, u
<1>5. CASE Due(s, f, v)
  <2>1. PICK i \in 1..Len(s) :
          Attains(s[i], f, v) /\ \A j \in 1..Len(s) : i < j => Keeps(s[j], f, v)
    BY <1>5 DEF Due
  <2>2. CASE i = 1
    <3>1. Rest(u, f, v)
      BY <1>2, <1>3, <2>1, <2>2 DEF Rest
    <3>2. h2[f] = v
      BY <1>2, <2>1, <2>2 DEF Attains, c
    <3> QED
      BY <3>1, <3>2 DEF Settled, u
  <2>3. CASE i # 1
    <3>1. i - 1 \in 1..Len(u) /\ u[i - 1] = s[i]
      BY <1>2, <1>3, <2>3
    <3>2. ASSUME NEW j \in 1..Len(u), i - 1 < j PROVE Keeps(u[j], f, v)
      BY <1>2, <1>3, <2>1, <3>2
    <3>3. Due(u, f, v)
      BY <2>1, <3>1, <3>2 DEF Due
    <3> QED
      BY <3>3 DEF Settled, u
  <2> QED
    BY <2>2, <2>3
<1> QED
  BY <1>4, <1>5 DEF Settled

(* The first call was not executed and took another answer: what it does not *)
(* set is still settled.                                                     *)
LEMMA SkipSettled ==
  ASSUME NEW s, List(s), s # <<>>, NEW f, NEW v, NEW h, Settled(s, f, v, h),
         Head(s).do \in {"send", "power"}, f \notin Written(Head(s).line.name)
  PROVE  Settled(Tail(s), f, v, h)
<1>1. PICK S : s \in Seq(S)
  BY DEF List
<1> DEFINE u == Tail(s)
           c == Head(s)
<1>2. /\ Len(u) = Len(s) - 1
      /\ \A i \in 1..Len(u) : u[i] = s[i + 1]
      /\ Len(s) \in Nat \ {0}
      /\ c = s[1]
  BY <1>1, HeadTailProperties, EmptySeq
<1>3. ~Attains(c, f, v)
  BY DEF Attains, Sets
<1> HIDE DEF u, c
<1>4. /\ \A i \in 1..Len(u) : i + 1 \in 1..Len(s)
      /\ \A i \in 1..Len(s) : i = 1 \/ (i - 1 \in 1..Len(u) /\ (i - 1) + 1 = i)
      /\ \A i \in 1..Len(s), j \in 1..Len(u) : i - 1 < j => i < j + 1
  BY <1>2
<1>5. CASE h[f] = v /\ Rest(s, f, v)
  <2>1. Rest(u, f, v)
    BY <1>2, <1>4, <1>5 DEF Rest
  <2> QED
    BY <1>5, <2>1 DEF Settled, u
<1>6. CASE Due(s, f, v)
  <2>1. PICK i \in 1..Len(s) :
          Attains(s[i], f, v) /\ \A j \in 1..Len(s) : i < j => Keeps(s[j], f, v)
    BY <1>6 DEF Due
  <2>2. i # 1
    BY <1>2, <1>3, <2>1
  <2>3. i - 1 \in 1..Len(u) /\ u[i - 1] = s[i]
    BY <1>2, <1>4, <2>2
  <2>4. ASSUME NEW j \in 1..Len(u), i - 1 < j PROVE Keeps(u[j], f, v)
    BY <1>2, <1>4, <2>1, <2>4
  <2>5. Due(u, f, v)
    BY <2>1, <2>3, <2>4 DEF Due
  <2> QED
    BY <2>5 DEF Settled, u
<1> QED
  BY <1>5, <1>6 DEF Settled

(* configure_profile settles the power, the consumption and the radio, and   *)
(* touches nothing else.                                                     *)
LEMMA ConfigureSettles ==
  ASSUME NEW p, IsProfileDict(p), ProfileValid(p), open_node_state \in States
  PROVE  /\ List(Configure(p))
         /\ Iotlab => Due(Configure(p), "radio", Wanted(p).radio)
         /\ kind = "iotlab" =>
              /\ Due(Configure(p), "consumption", Wanted(p).consumption)
              /\ Due(Configure(p), "on", open_node_state = "start")
              /\ open_node_state = "start" => Due(Configure(p), "source", p.power)
         /\ \A f \in {"led", "time", "id"} : \A v : Rest(Configure(p), f, v)
<1> DEFINE st == open_node_state
           on == open_node_state = "start"
           a == Send(start_stop(open_node_state, p.power))
           b == Send(config_consumption(Alim, p))
           c == Send(config_radio(p))
           cons == Wanted(p).consumption
           rad == Wanted(p).radio
<1>1. /\ a.do = "send" /\ a.line = start_stop(st, p.power) /\ a.line.name = st
      /\ b.do = "send" /\ b.line.name = "config_consumption_measure"
      /\ c.do = "send"
      /\ c.line.name \in {"config_radio_stop", "config_radio_measure", "config_radio_sniffer"}
  BY DEF Send, start_stop, config_consumption, config_radio, Line
<1>2. /\ Written(a.line.name) \subseteq {"on", "source"}
      /\ Written(b.line.name) = {"consumption"}
      /\ Written(c.line.name) = {"radio"}
      /\ a.line.name \in Names /\ b.line.name \in Names /\ c.line.name \in Names
  BY <1>1 DEF Written, Names, States
<1>3. /\ Attains(a, "on", on)
      /\ on => Attains(a, "source", p.power)
      /\ Attains(b, "consumption", cons)
      /\ Attains(c, "radio", rad)
  BY <1>1, PowerSets, ConsumptionSets, RadioSets
<1> HIDE DEF a, b, c, on, cons, rad
<1>4. /\ \A f \in Fields \ {"on", "source"} : \A v : Keeps(a, f, v)
      /\ \A f \in Fields \ {"consumption"} : \A v : Keeps(b, f, v)
      /\ \A f \in Fields \ {"radio"} : \A v : Keeps(c, f, v)
  BY <1>1, <1>2, SendKeeps
<1> DEFINE s == (<<a>> \o <<b>>) \o <<c>>
<1>5. List(<<a>>) /\ List(<<b>>) /\ List(<<c>>) /\ List(<<>>)
  BY SmallLists
<1>6. List(<<a>> \o <<b>>) /\ List(s)
  BY <1>5, JoinLists
<1>7. Due(s, "radio", rad) /\ Due(<<c>>, "radio", rad)
  BY <1>3, <1>5, <1>6, SmallLists, JoinLists
<1>8. Due(s, "consumption", cons)
  <2>1. Due(<<a>> \o <<b>>, "consumption", cons)
    BY <1>3, <1>5, SmallLists, JoinLists
  <2>2. Rest(<<c>>, "consumption", cons)
    BY <1>4, SmallLists DEF Fields
  <2> QED
    BY <1>5, <1>6, <2>1, <2>2, JoinLists
<1>9. ASSUME NEW f \in {"on", "source"}, NEW v, Attains(a, f, v) PROVE Due(s, f, v)
  <2>1. Rest(<<b>>, f, v) /\ Rest(<<c>>, f, v)
    BY <1>4, SmallLists DEF Fields
  <2>2. Due(<<a>> \o <<b>>, f, v)
    BY <1>5, <1>9, <2>1, SmallLists, JoinLists
  <2> QED
    BY <1>5, <1>6, <2>1, <2>2, JoinLists
<1>10. ASSUME NEW f \in {"led", "time", "id"}, NEW v
       PROVE  Rest(s, f, v) /\ Rest(<<c>>, f, v) /\ Rest(<<>>, f, v)
  <2>1. Rest(<<a>>, f, v) /\ Rest(<<b>>, f, v) /\ Rest(<<c>>, f, v) /\ Rest(<<>>, f, v)
    BY <1>4, SmallLists DEF Fields
  <2>2. Rest(<<a>> \o <<b>>, f, v)
    BY <1>5, <2>1, JoinLists
  <2> QED
    BY <1>5, <1>6, <2>1, <2>2, JoinLists
<1>11. s = <<a, b, c>>
  BY ShortLists
<1>12. /\ kind = "iotlab" => Configure(p) = s
       /\ kind = "iotlabm3" => Configure(p) = <<c>>
       /\ Configure(p) \in {s, <<c>>, <<>>}
  BY <1>11 DEF Configure, a, b, c
<1> HIDE DEF s
<1>13. Iotlab => Due(Configure(p), "radio", rad)
  BY <1>7, <1>12 DEF Iotlab
<1>14. kind = "iotlab" =>
         /\ Due(Configure(p), "consumption", cons)
         /\ Due(Configure(p), "on", on)
         /\ on => Due(Configure(p), "source", p.power)
  BY <1>3, <1>8, <1>9, <1>12
<1>15. \A f \in {"led", "time", "id"} : \A v : Rest(Configure(p), f, v)
  BY <1>10, <1>12
<1>16. List(Configure(p))
  BY <1>5, <1>6, <1>12
<1> QED
  BY <1>13, <1>14, <1>15, <1>16 DEF on, cons, rad

(* start_experiment settles the led, the time and the id besides. *)
LEMMA StartExperimentSettles ==
  ASSUME NEW p, IsProfileDict(p), ProfileValid(p), open_node_state \in States, Iotlab
  PROVE  LET s == StartExperimentCalls(p) IN
         /\ Due(s, "radio", Wanted(p).radio)
         /\ kind = "iotlab" =>
              /\ Due(s, "consumption", Wanted(p).consumption)
              /\ Due(s, "on", open_node_state = "start")
              /\ open_node_state = "start" => Due(s, "source", p.power)
         /\ Due(s, "led", "blink") /\ Due(s, "time", TRUE)
         /\ Archi \in {"m3", "a8"} => Due(s, "id", NodeId)
<1> DEFINE a == Send(Line("green_led_blink", <<>>))
           b == Send(Line("set_time", <<>>))
           n == set_node_id(Archi, Num)
           i == Send(Line("set_node_id", <<Archi, Num>>))
           c == [j \in 1..Len(n) |-> Send(n[j])]
           d == Configure(p)
           e == (<<a>> \o <<b>>) \o c
           s == StartExperimentCalls(p)
<1>1. /\ a.do = "send" /\ a.line.name = "green_led_blink"
      /\ b.do = "send" /\ b.line.name = "set_time"
      /\ i.do = "send" /\ i.line.name = "set_node_id"
  BY DEF Send, Line
<1>2. /\ Written(a.line.name) = {"led"} /\ Written(b.line.name) = {"time"}
      /\ Written(i.line.name) = {"id"}
      /\ a.line.name \in Names /\ b.line.name \in Names /\ i.line.name \in Names
  BY <1>1 DEF Written, Names
<1>3. /\ Attains(a, "led", "blink") /\ Attains(b, "time", TRUE)
      /\ Archi \in {"m3", "a8"} => Attains(i, "id", NodeId)
  <2>1. Attains(a, "led", "blink") /\ Attains(b, "time", TRUE)
    BY WordlessSets
  <2>2. ASSUME Archi \in {"m3", "a8"} PROVE Attains(i, "id", NodeId)
    BY <2>2, IdSets
  <2> QED
    BY <2>1, <2>2
<1>4. IF Archi \in {"m3", "a8"} THEN c = <<i>> ELSE c = <<>>
  <2>1. CASE Archi \in {"m3", "a8"}
    <3> DEFINE l == Line("set_node_id", <<Archi, Num>>)
    <3>1. n = <<l>>
      BY <2>1 DEF set_node_id
    <3>2. Len(n) = 1 /\ n[1] = l
      BY <3>1
    <3> HIDE DEF l, n
    <3>3. c = [j \in 1..1 |-> Send(l)]
      BY <3>2
    <3>4. c = <<Send(l)>>
      BY <3>3
    <3> QED
      BY <2>1, <3>4 DEF l
  <2>2. CASE Archi \notin {"m3", "a8"}
    <3>1. c = <<>>
      BY <2>2 DEF set_node_id
    <3> QED
      BY <2>2, <3>1
  <2> QED
    BY <2>1, <2>2
<1>5. s = (e \o d) \o <<>>
  <2>1. <<a>> \o <<b>> = <<a, b>>
    BY ShortLists
  <2>2. ~(kind = "rpi3" /\ camera_config)
    BY DEF Iotlab
  <2> QED
    BY <2>1, <2>2 DEF StartExperimentCalls
<1>6. /\ List(d)
      /\ Due(d, "radio", Wanted(p).radio)
      /\ kind = "iotlab" =>
           /\ Due(d, "consumption", Wanted(p).consumption)
           /\ Due(d, "on", open_node_state = "start")
           /\ open_node_state = "start" => Due(d, "source", p.power)
      /\ \A f \in {"led", "time", "id"} : \A v : Rest(d, f, v)
  BY ConfigureSettles
<1> HIDE DEF a, b, c, d, i, s
<1>7. /\ \A f \in Fields \ {"led"} : \A v : Keeps(a, f, v)
      /\ \A f \in Fields \ {"time"} : \A v : Keeps(b, f, v)
      /\ \A f \in Fields \ {"id"} : \A v : Keeps(i, f, v)
  BY <1>1, <1>2, SendKeeps
<1>8. List(<<a>>) /\ List(<<b>>) /\ List(<<>>) /\ List(<<i>>)
  BY SmallLists
<1>9. List(c) /\ List(<<a>> \o <<b>>)
  BY <1>4, <1>8, JoinLists
<1>10. List(e)
  BY <1>9, JoinLists
<1>11. ASSUME NEW f \in Fields \ {"id"}, NEW v PROVE Rest(c, f, v)
  BY <1>4, <1>7, SmallLists
<1>12. Due(e, "led", "blink")
  <2>1. Rest(<<b>>, "led", "blink") /\ Rest(c, "led", "blink")
    BY <1>7, <1>11, SmallLists DEF Fields
  <2>2. Due(<<a>> \o <<b>>, "led", "blink")
    BY <1>3, <1>8, <2>1, SmallLists, JoinLists
  <2> QED
    BY <1>9, <2>1, <2>2, JoinLists
<1>13. Due(e, "time", TRUE)
  <2>1. Rest(c, "time", TRUE)
    BY <1>11 DEF Fields
  <2>2. Due(<<a>> \o <<b>>, "time", TRUE)
    BY <1>3, <1>8, SmallLists, JoinLists
  <2> QED
    BY <1>9, <2>1, <2>2, JoinLists
<1>14. Archi \in {"m3", "a8"} => Due(e, "id", NodeId)
  BY <1>3, <1>4, <1>9, SmallLists, JoinLists
<1> HIDE DEF e
<1>15. List(e \o d)
  BY <1>6, <1>10, JoinLists
<1>16. ASSUME NEW f, NEW v, Due(e \o d, f, v) PROVE Due(s, f, v)
  BY <1>5, <1>8, <1>15, <1>16, SmallLists, JoinLists
<1>17. ASSUME NEW f, NEW v, Due(d, f, v) PROVE Due(s, f, v)
  BY <1>6, <1>10, <1>16, <1>17, JoinLists
<1>18. ASSUME NEW f \in {"led", "time", "id"}, NEW v, Due(e, f, v) PROVE Due(s, f, v)
  BY <1>6, <1>10, <1>16, <1>18, JoinLists
<1> QED
  BY <1>6, <1>12, <1>13, <1>14, <1>17, <1>18 DEF s

(* open_start and ykush, and what they leave alone. *)
LEMMA OpenPowerSettles ==
  LET s == OpenPower("start", "dc") IN
  /\ List(s)
  /\ kind = "iotlab" => Due(s, "source", "dc")
  /\ kind \in {"iotlab", "rpi3"} => Due(s, "on", TRUE)
  /\ \A f \in Fields \ {"on", "source"} : \A v : Rest(s, f, v)
<1> DEFINE line == start_stop("start", "dc")
           a == Power("start", line)
           b == [do |-> "ykush", state |-> "start"]
           s == OpenPower("start", "dc")
<1>1. /\ a.do = "power" /\ a.line = line /\ a.line.name = "start"
      /\ b.do = "ykush" /\ b.state = "start"
  BY DEF Power, start_stop, Line
<1>2. Written(a.line.name) = {"on", "source"} /\ a.line.name \in Names
  BY <1>1 DEF Written, Names
<1>3. Attains(a, "on", TRUE) /\ Attains(a, "source", "dc")
  <2>1. Attains(a, "on", "start" = "start") /\ Attains(a, "source", "dc")
    BY <1>1, PowerSets DEF States
  <2>2. ("start" = "start") = TRUE
    OBVIOUS
  <2> QED
    BY <2>1, <2>2
<1>4. /\ kind = "iotlab" => s = <<a>>
      /\ kind = "rpi3" => s = <<b>>
      /\ s \in {<<a>>, <<b>>, <<>>}
  BY DEF OpenPower
<1> HIDE DEF a, b, s, line
<1>5. Attains(b, "on", TRUE)
  BY <1>1 DEF Attains, Sets, Effect, Works, Fields
<1>6. ASSUME NEW f \in Fields \ {"on", "source"}, NEW v PROVE Keeps(a, f, v) /\ Keeps(b, f, v)
  <2>1. Keeps(a, f, v)
    BY <1>1, <1>2, SendKeeps
  <2>2. Keeps(b, f, v)
    BY <1>1 DEF Keeps, Effect, Works
  <2> QED
    BY <2>1, <2>2
<1>7. List(<<a>>) /\ List(<<b>>) /\ List(<<>>)
  BY SmallLists
<1>8. List(s)
  BY <1>4, <1>7
<1>9. kind = "iotlab" => Due(s, "source", "dc") /\ Due(s, "on", TRUE)
  BY <1>3, <1>4, SmallLists
<1>10. kind = "rpi3" => Due(s, "on", TRUE)
  BY <1>4, <1>5, SmallLists
<1>11. \A f \in Fields \ {"on", "source"} : \A v : Rest(s, f, v)
  BY <1>4, <1>6, SmallLists
<1> QED
  BY <1>8, <1>9, <1>10, <1>11 DEF s

(* stop_experiment stops the measures, powers the open node and sets the     *)
(* led.                                                                      *)
LEMMA StopExperimentSettles ==
  ASSUME open_node_state \in States
  PROVE  LET s == StopExperimentCalls IN
         /\ Iotlab => Due(s, "radio", <<>>) /\ Due(s, "led", "on")
         /\ kind = "iotlab" => Due(s, "consumption", <<>>) /\ Due(s, "source", "dc")
         /\ kind \in {"iotlab", "rpi3"} => Due(s, "on", TRUE)
<1> DEFINE a == Configure(DefaultProfile)
           b == OpenPower("start", "dc")
           l == Send(Line("green_led_on", <<>>))
           c == IF Iotlab THEN <<l>> ELSE <<>>
           k == Call("camera_stop", TRUE)
           d == IF kind = "rpi3" /\ camera_config THEN <<k>> ELSE <<>>
           s == StopExperimentCalls
<1>1. /\ List(a)
      /\ Iotlab => Due(a, "radio", <<>>)
      /\ kind = "iotlab" => Due(a, "consumption", <<>>)
  BY ConfigureSettles, DefaultIsValid
<1>2. /\ List(b)
      /\ kind = "iotlab" => Due(b, "source", "dc")
      /\ kind \in {"iotlab", "rpi3"} => Due(b, "on", TRUE)
      /\ \A f \in Fields \ {"on", "source"} : \A v : Rest(b, f, v)
  BY OpenPowerSettles
<1>3. s = ((a \o b) \o c) \o d
  BY DEF StopExperimentCalls
<1>4. l.do = "send" /\ l.line.name = "green_led_on"
  BY DEF Send, Line
<1>5. Written(l.line.name) = {"led"} /\ l.line.name \in Names
  BY <1>4 DEF Written, Names
<1>6. Attains(l, "led", "on")
  BY WordlessSets
<1>7. \A f, v : Keeps(k, f, v)
  BY CallKeeps
<1> HIDE DEF a, b, k, l, s
<1>8. \A f \in Fields \ {"led"} : \A v : Keeps(l, f, v)
  BY <1>4, <1>5, SendKeeps
<1>9. List(c) /\ List(d)
  BY SmallLists
<1>10. Iotlab => Due(c, "led", "on")
  BY <1>6, SmallLists
<1>11. \A f \in Fields \ {"led"} : \A v : Rest(c, f, v)
  BY <1>8, SmallLists
<1>12. \A f, v : Rest(d, f, v)
  BY <1>7, SmallLists
<1> HIDE DEF c, d
<1>13. List(a \o b) /\ List((a \o b) \o c)
  BY <1>1, <1>2, <1>9, JoinLists
<1>14. ASSUME NEW f, NEW v, Due((a \o b) \o c, f, v) PROVE Due(s, f, v)
  BY <1>3, <1>9, <1>12, <1>13, <1>14, JoinLists
<1>15. ASSUME NEW f \in Fields \ {"led"}, NEW v, Due(a \o b, f, v) PROVE Due(s, f, v)
  BY <1>9, <1>11, <1>13, <1>14, <1>15, JoinLists
<1>16. ASSUME NEW f \in {"radio", "consumption"}, NEW v, Due(a, f, v) PROVE Due(s, f, v)
  <2>1. Due(a \o b, f, v)
    BY <1>1, <1>2, <1>16, JoinLists DEF Fields
  <2> QED
    BY <1>15, <2>1 DEF Fields
<1>17. ASSUME NEW f \in {"on", "source"}, NEW v, Due(b, f, v) PROVE Due(s, f, v)
  <2>1. Due(a \o b, f, v)
    BY <1>1, <1>2, <1>17, JoinLists
  <2> QED
    BY <1>15, <2>1 DEF Fields
<1>18. Iotlab => Due(s, "led", "on")
  BY <1>9, <1>10, <1>13, <1>14, JoinLists
<1> QED
  BY <1>1, <1>2, <1>16, <1>17, <1>18 DEF s

-----------------------------------------------------------------------------
(* The camera *)

Has(s, do) == \E i \in 1..Len(s) : s[i].do = do

(* Calls of short and of joined lists. *)
LEMMA HasCalls ==
  ASSUME NEW do
  PROVE  /\ ~Has(<<>>, do)
         /\ \A a : Has(<<a>>, do) <=> a.do = do
         /\ \A a, b : Has(<<a, b>>, do) <=> a.do = do \/ b.do = do
         /\ \A a, b, c : Has(<<a, b, c>>, do) <=> a.do = do \/ b.do = do \/ c.do = do
         /\ \A s, t : List(s) /\ List(t) => (Has(s \o t, do) <=> Has(s, do) \/ Has(t, do))
<1>1. ~Has(<<>>, do)
  BY DEF Has
<1>2. ASSUME NEW a PROVE Has(<<a>>, do) <=> a.do = do
  BY DEF Has
<1>3. ASSUME NEW a, NEW b PROVE Has(<<a, b>>, do) <=> a.do = do \/ b.do = do
  BY DEF Has
<1>4. ASSUME NEW a, NEW b, NEW c
      PROVE  Has(<<a, b, c>>, do) <=> a.do = do \/ b.do = do \/ c.do = do
  BY DEF Has
<1>5. ASSUME NEW s, NEW t, List(s), List(t)
      PROVE  Has(s \o t, do) <=> Has(s, do) \/ Has(t, do)
  <2>1. PICK S : s \in Seq(S)
    BY <1>5 DEF List
  <2>2. PICK T : t \in Seq(T)
    BY <1>5 DEF List
  <2>3. s \in Seq(S \cup T) /\ t \in Seq(S \cup T)
    BY <2>1, <2>2, SeqMonotonic
  <2> DEFINE u == s \o t
             n == Len(s)
             m == Len(t)
  <2>4. /\ Len(u) = n + m
        /\ \A i \in 1..(n + m) : u[i] = IF i <= n THEN s[i] ELSE t[i - n]
    BY <2>3, ConcatProperties
  <2>5. n \in Nat /\ m \in Nat
    BY <2>3, LenProperties
  <2> HIDE DEF u, n, m
  <2>6. \A i \in 1..Len(u) : \/ i \in 1..n /\ u[i] = s[i]
                             \/ i - n \in 1..m /\ u[i] = t[i - n]
    BY <2>4, <2>5
  <2>7. \A i \in 1..n : i \in 1..Len(u) /\ u[i] = s[i]
    BY <2>4, <2>5
  <2>8. \A i \in 1..m : n + i \in 1..Len(u) /\ u[n + i] = t[i]
    BY <2>4, <2>5
  <2>9. Has(u, do) <=> Has(s, do) \/ Has(t, do)
    BY <2>6, <2>7, <2>8 DEF Has, n, m
  <2> QED
    BY <2>9 DEF u
<1> QED
  BY <1>1, <1>2, <1>3, <1>4, <1>5

(* The first call is made. *)
LEMMA TakeHas ==
  ASSUME NEW s, List(s), s # <<>>, NEW do
  PROVE  Has(s, do) <=> Head(s).do = do \/ Has(Tail(s), do)
<1>1. PICK S : s \in Seq(S)
  BY DEF List
<1> DEFINE u == Tail(s)
<1>2. /\ Len(u) = Len(s) - 1
      /\ \A i \in 1..Len(u) : u[i] = s[i + 1]
      /\ Len(s) \in Nat \ {0}
      /\ Head(s) = s[1]
  BY <1>1, HeadTailProperties, EmptySeq
<1> HIDE DEF u
<1>3. /\ 1 \in 1..Len(s)
      /\ \A i \in 1..Len(u) : i + 1 \in 1..Len(s)
      /\ \A i \in 1..Len(s) : i = 1 \/ (i - 1 \in 1..Len(u) /\ (i - 1) + 1 = i)
  BY <1>2
<1>4. ASSUME NEW i \in 1..Len(s), s[i].do = do PROVE Head(s).do = do \/ Has(u, do)
  <2>1. CASE i = 1
    BY <1>2, <1>4, <2>1
  <2>2. CASE i # 1
    <3>1. i - 1 \in 1..Len(u) /\ u[i - 1] = s[i]
      BY <1>2, <1>3, <2>2
    <3> QED
      BY <1>4, <3>1 DEF Has
  <2> QED
    BY <2>1, <2>2
<1>5. Has(u, do) => Has(s, do)
  BY <1>2, <1>3 DEF Has
<1>6. Head(s).do = do => Has(s, do)
  BY <1>2, <1>3 DEF Has
<1> QED
  BY <1>4, <1>5, <1>6 DEF Has, u

Filming == kind = "rpi3" /\ camera_config

(* Only start_experiment starts the camera, on a rpi3 that has one, and      *)
(* stop_experiment stops it there.                                           *)
LEMMA CameraLists ==
  /\ ~Has(StartCalls, "camera_start") /\ ~Has(StopCalls, "camera_start")
  /\ \A state, source : ~Has(OpenPower(state, source), "camera_start")
  /\ \A p : ~Has(Configure(p), "camera_start")
  /\ ~Has(AutotestSetupCalls, "camera_start")
  /\ \A stop_on : ~Has(AutotestTeardownCalls(stop_on), "camera_start")
  /\ \A p : open_node_state \in States /\ Has(StartExperimentCalls(p), "camera_start") => Filming
  /\ open_node_state \in States => ~Has(StopExperimentCalls, "camera_start")
  /\ open_node_state \in States /\ Filming => Has(StopExperimentCalls, "camera_stop")
<1> DEFINE x == "camera_start"
<1>1. \A s, st : Calls(s, st) => List(s)
  BY DEF Calls, List
<1>2. ASSUME NEW state, NEW source
      PROVE  List(OpenPower(state, source)) /\ ~Has(OpenPower(state, source), x)
  <2> DEFINE a == Power(state, start_stop(state, source))
             b == [do |-> "ykush", state |-> state]
  <2>1. a.do # x /\ b.do # x
    BY DEF Power
  <2>2. OpenPower(state, source) \in {<<a>>, <<b>>, <<>>}
    BY DEF OpenPower
  <2> HIDE DEF a, b
  <2>3. ~Has(<<a>>, x) /\ ~Has(<<b>>, x) /\ ~Has(<<>>, x)
    BY <2>1, HasCalls
  <2>4. List(<<a>>) /\ List(<<b>>) /\ List(<<>>)
    BY SmallLists
  <2> QED
    BY <2>2, <2>3, <2>4
<1>3. ASSUME NEW p PROVE ~Has(Configure(p), x)
  <2> DEFINE a == Send(start_stop(open_node_state, p.power))
             b == Send(config_consumption(Alim, p))
             c == Send(config_radio(p))
  <2>1. a.do # x /\ b.do # x /\ c.do # x
    BY DEF Send
  <2>2. Configure(p) \in {<<a, b, c>>, <<c>>, <<>>}
    BY DEF Configure
  <2> HIDE DEF a, b, c
  <2> QED
    BY <2>1, <2>2, HasCalls
<1>4. \A do, counts : Call(do, counts).do = do
  BY DEF Call
<1>5. \A line : Send(line).do = "send"
  BY DEF Send
<1>6. ~Has(StartCalls, x) /\ ~Has(StopCalls, x)
  <2> DEFINE r == Call("reset", TRUE)
             a == Call("start", TRUE)
             b == Call("stop", TRUE)
             s == IF Iotlab THEN <<r, a>> ELSE <<>>
             t == IF Iotlab THEN <<b, r>> ELSE <<>>
             p == OpenPower("start", "dc")
             q == OpenPower("stop", "dc")
  <2>1. r.do # x /\ a.do # x /\ b.do # x
    BY DEF Call
  <2>2. StartCalls = s \o p /\ StopCalls = q \o t
    BY DEF StartCalls, StopCalls
  <2>3. List(p) /\ ~Has(p, x) /\ List(q) /\ ~Has(q, x)
    BY <1>2
  <2> HIDE DEF r, a, b, p, q
  <2>4. <<r, a>> \in Seq({r, a}) /\ <<b, r>> \in Seq({b, r})
    OBVIOUS
  <2>5. List(s) /\ List(t)
    BY <2>4, SmallLists DEF List
  <2>6. ~Has(s, x) /\ ~Has(t, x)
    BY <2>1, HasCalls
  <2> HIDE DEF s, t
  <2> QED
    BY <2>2, <2>3, <2>5, <2>6, HasCalls
<1>7. ~Has(AutotestSetupCalls, x)
  <2> DEFINE a == Call("reset", TRUE)
             b == Call("start", FALSE)
             c == Send(Line("set_time", <<>>))
  <2>1. a.do # x /\ b.do # x /\ c.do # x
    BY <1>4, <1>5
  <2>2. AutotestSetupCalls \in {<<a, b, c>>, <<>>}
    BY DEF AutotestSetupCalls
  <2> HIDE DEF a, b, c
  <2> QED
    BY <2>1, <2>2, HasCalls
<1>8. ASSUME NEW stop_on PROVE ~Has(AutotestTeardownCalls(stop_on), x)
  <2> DEFINE a == IF stop_on THEN OpenPower("stop", "dc") ELSE <<>>
             b == Call("stop", FALSE)
  <2>1. b.do # x
    BY DEF Call
  <2>2. List(a) /\ ~Has(a, x)
    BY <1>2, HasCalls, SmallLists
  <2>3. AutotestTeardownCalls(stop_on) \in {a \o <<b>>, <<>>}
    BY DEF AutotestTeardownCalls
  <2> HIDE DEF a, b
  <2>4. List(<<b>>) /\ ~Has(<<b>>, x)
    BY <2>1, HasCalls, SmallLists
  <2>5. ~Has(a \o <<b>>, x) /\ ~Has(<<>>, x)
    BY <2>2, <2>4, HasCalls
  <2> QED
    BY <2>3, <2>5
<1>9. ASSUME open_node_state \in States
      PROVE  /\ ~Has(StopExperimentCalls, x)
             /\ Filming => Has(StopExperimentCalls, "camera_stop")
  <2> DEFINE a == Configure(DefaultProfile)
             b == OpenPower("start", "dc")
             l == Send(Line("green_led_on", <<>>))
             c == IF Iotlab THEN <<l>> ELSE <<>>
             k == Call("camera_stop", TRUE)
             d == IF Filming THEN <<k>> ELSE <<>>
  <2>1. List(a) /\ ~Has(a, x) /\ List(b) /\ ~Has(b, x)
    BY <1>1, <1>2, <1>3, <1>9, ConfigureCalls
  <2>2. l.do = "send" /\ k.do = "camera_stop"
    BY <1>4, <1>5
  <2>3. StopExperimentCalls = ((a \o b) \o c) \o d
    BY DEF StopExperimentCalls, Filming
  <2> HIDE DEF a, b, l, k
  <2>4. List(c) /\ ~Has(c, x) /\ List(d) /\ ~Has(d, x)
    BY <2>2, HasCalls, SmallLists
  <2>5. Filming => Has(d, "camera_stop")
    BY <2>2, HasCalls
  <2> HIDE DEF c, d
  <2>6. List(a \o b) /\ List((a \o b) \o c)
    BY <2>1, <2>4, JoinLists
  <2>7. ~Has(a \o b, x) /\ ~Has((a \o b) \o c, x)
    BY <2>1, <2>4, <2>6, HasCalls
  <2> QED
    BY <2>3, <2>4, <2>5, <2>6, <2>7, HasCalls
<1>10. ASSUME NEW p, open_node_state \in States, Has(StartExperimentCalls(p), x), ~Filming
       PROVE  FALSE
  <2> DEFINE a == Send(Line("green_led_blink", <<>>))
             b == Send(Line("set_time", <<>>))
             n == set_node_id(Archi, Num)
             c == [j \in 1..Len(n) |-> Send(n[j])]
             d == Configure(p)
             e == IF Iotlab THEN <<a, b>> \o c ELSE <<>>
  <2>1. List(d) /\ ~Has(d, x)
    BY <1>1, <1>3, <1>10, ConfigureCalls
  <2>2. StartExperimentCalls(p) = (e \o d) \o <<>>
    BY <1>10 DEF StartExperimentCalls, Filming
  <2>3. a.do # x /\ b.do # x
    BY <1>5
  <2>4. n \in Seq({Line("set_node_id", <<Archi, Num>>)})
    BY DEF set_node_id
  <2> HIDE DEF n
  <2>5. Len(n) \in Nat
    BY <2>4, LenProperties
  <2>6. c \in Seq({Send(n[j]) : j \in 1..Len(n)}) /\ Len(c) = Len(n)
    BY <2>5
  <2>7. \A j \in 1..Len(c) : c[j].do # x
    BY <1>5, <2>6
  <2> HIDE DEF a, b, c, d
  <2>8. List(c) /\ ~Has(c, x)
    BY <2>6, <2>7 DEF List, Has
  <2>9. <<a, b>> \in Seq({a, b})
    OBVIOUS
  <2>10. List(<<a, b>>) /\ ~Has(<<a, b>>, x)
    BY <2>3, <2>9, HasCalls DEF List
  <2>11. List(e) /\ ~Has(e, x)
    BY <2>8, <2>10, HasCalls, SmallLists, JoinLists
  <2> HIDE DEF e
  <2>12. List(e \o d) /\ ~Has(e \o d, x)
    BY <2>1, <2>11, HasCalls, JoinLists
  <2>13. List(<<>>) /\ ~Has(<<>>, x)
    BY HasCalls, SmallLists
  <2>14. ~Has((e \o d) \o <<>>, x)
    BY <2>12, <2>13, HasCalls
  <2> QED
    BY <1>10, <2>2, <2>14
<1> QED
  BY <1>2, <1>3, <1>6, <1>7, <1>8, <1>9, <1>10

-----------------------------------------------------------------------------
(* What a method that returns 0 has done *)

(* The method being called promises value v of field f. *)
Required(f, v) ==
  \/ /\ method \in ProfileMethods /\ Iotlab
     /\ f = "radio" /\ v = Wanted(profile).radio
  \/ /\ method \in ProfileMethods /\ kind = "iotlab"
     /\ \/ f = "consumption" /\ v = Wanted(profile).consumption
        \/ f = "on" /\ v = (open_node_state = "start")
        \/ f = "source" /\ v = profile.power /\ open_node_state = "start"
  \/ /\ method = "start_experiment" /\ Iotlab
     /\ \/ f = "led" /\ v = "blink"
        \/ f = "time" /\ v = TRUE
        \/ f = "id" /\ v = NodeId /\ Archi \in {"m3", "a8"}
  \/ /\ method = "stop_experiment" /\ Iotlab
     /\ \/ f = "radio" /\ v = <<>>
        \/ f = "led" /\ v = "on"
  \/ /\ method = "stop_experiment" /\ kind = "iotlab"
     /\ \/ f = "consumption" /\ v = <<>>
        \/ f = "source" /\ v = "dc"
  \/ /\ method = "stop_experiment" /\ kind \in {"iotlab", "rpi3"}
     /\ f = "on" /\ v = TRUE

(* As long as no call has failed, what is promised is settled, except what a *)
(* command sets that took the answer of another one.                         *)
DoneInv ==
  ret = 0 => \A f, v : Required(f, v) /\ f \notin doubtful => Settled(todo, f, v, hw)

CameraInv ==
  /\ camera \in BOOLEAN
  /\ camera => Filming
  /\ Has(todo, "camera_start") => Filming /\ method = "start_experiment"
  /\ method = "stop_experiment" /\ camera => Has(todo, "camera_stop")

ZeroInv == DOMAIN hw = Fields /\ DoneInv /\ CameraInv

(* A method is entered with a list that settles what it promises. *)
LEMMA EnterSettles ==
  ASSUME ZeroInv, NEW name, NEW p, NEW calls, Enter(name, p, calls),
         Has(calls, "camera_start") => Filming /\ name = "start_experiment",
         name = "stop_experiment" /\ Filming => Has(calls, "camera_stop"),
         \A f, v : Required(f, v)' => Due(calls, f, v)
  PROVE  ZeroInv'
<1>1. /\ method' = name /\ todo' = calls /\ hw' = hw /\ camera' = camera
      /\ kind' = kind /\ camera_config' = camera_config
  BY DEF Enter, node_vars
<1>2. DoneInv'
  BY <1>1 DEF DoneInv, Settled
<1>3. CameraInv'
  BY <1>1 DEF ZeroInv, CameraInv, Filming
<1> QED
  BY <1>1, <1>2, <1>3 DEF ZeroInv

(* The promises last as long as the method, whose state only a method that   *)
(* configures no profile may change.                                         *)
LEMMA SamePromise ==
  ASSUME UNCHANGED <<node_vars, profile, method>>,
         method \in ProfileMethods => open_node_state' = open_node_state
  PROVE  \A f, v : Required(f, v)' => Required(f, v)
<1>1. kind' = kind /\ profile' = profile /\ method' = method
  BY DEF node_vars
<1>2. Iotlab' <=> Iotlab
  BY <1>1 DEF Iotlab
<1> SUFFICES ASSUME NEW f, NEW v, Required(f, v)' PROVE Required(f, v)
  OBVIOUS
<1>3. CASE method \in ProfileMethods
  BY <1>1, <1>2, <1>3 DEF Required
<1>4. CASE method \notin ProfileMethods
  BY <1>1, <1>2, <1>4 DEF Required, ProfileMethods
<1> QED
  BY <1>3, <1>4

(* A call is made. *)
LEMMA CallsSettle ==
  ASSUME IInv, ZeroInv,
         \/ SendFails \/ SendWorks \/ SendUnanswered \/ SendLate \/ ResetNode
         \/ StartLink \/ StopLink \/ Ykush \/ Camera
  PROVE  ZeroInv'
<1> DEFINE c == Head(todo)
<1>1. PICK do : Next1(do) /\ UNCHANGED <<node_vars, profile, method>>
  BY DEF SendFails, SendWorks, SendUnanswered, SendLate, ResetNode, StartLink, StopLink,
     Ykush, Camera
<1>2. /\ todo # <<>> /\ todo' = Tail(todo) /\ List(todo)
      /\ IsCall(c)
      /\ method \in ProfileMethods => c.do \in {"send", "camera_start"}
  BY <1>1, NextCall DEF Next1, IInv, TodoInv, Calls, List
<1>3. DOMAIN hw = Fields
  BY DEF ZeroInv
<1>4. \A x : Has(todo, x) <=> c.do = x \/ Has(todo', x)
  BY <1>2, TakeHas
<1>5. /\ Filming' <=> Filming
      /\ method' = method
  BY <1>1 DEF Filming, node_vars
<1>6. ASSUME camera' = camera, c.do \notin {"camera_start", "camera_stop"}
      PROVE  CameraInv'
  BY <1>4, <1>5, <1>6 DEF ZeroInv, CameraInv
<1>7. ASSUME ret' = 0 => ret = 0 /\ (c.do # "reset" => Works(c, hw) /\ hw' = Effect(c, hw)),
             c.do \in {"send", "camera_start"} => open_node_state' = open_node_state,
             doubtful' = doubtful
      PROVE  DoneInv'
  <2>1. \A f, v : Required(f, v)' => Required(f, v)
    BY <1>1, <1>2, <1>7, SamePromise
  <2> SUFFICES ASSUME ret' = 0, NEW f, NEW v, Required(f, v)', f \notin doubtful'
               PROVE  Settled(todo', f, v, hw')
    BY DEF DoneInv
  <2>2. Settled(todo, f, v, hw)
    BY <1>7, <2>1 DEF ZeroInv, DoneInv
  <2> QED
    BY <1>2, <1>7, <2>2, TakeSettled
<1>8. CASE SendFails
  <2>1. /\ c.do \in {"send", "power"} /\ ret' = 1
        /\ UNCHANGED <<hw, camera, open_node_state, doubtful>>
    BY <1>8 DEF SendFails, Next1
  <2> QED
    BY <1>3, <1>6, <1>7, <2>1 DEF ZeroInv
<1>9. CASE SendWorks \/ SendUnanswered
  <2>1. /\ c.do \in {"send", "power"} /\ camera' = camera
        /\ parse_cmd(c.line) # Refused
        /\ hw' = Execute(hw, parse_cmd(c.line)[1])
        /\ ret' \in {ret, 1} /\ doubtful' = doubtful
        /\ c.do = "send" => open_node_state' = open_node_state
    BY <1>9 DEF SendWorks, SendUnanswered, Answered, Next1
  <2>2. Works(c, hw) /\ hw' = Effect(c, hw)
    BY <1>3, <2>1 DEF Works, Accepted, Effect
  <2>3. DOMAIN hw' = Fields
    BY <1>2, <2>2, EffectFields
  <2>4. DoneInv'
    BY <1>7, <2>1, <2>2
  <2> QED
    BY <1>6, <2>1, <2>3, <2>4 DEF ZeroInv
<1>10. CASE ResetNode
  <2>1. /\ c.do = "reset" /\ camera' = camera /\ ret' \in {ret, 1} /\ doubtful' = doubtful
        /\ hw' = hw \/ \E on : hw' = Reset(on)
    BY <1>10 DEF ResetNode, Next1
  <2>2. \A on : DOMAIN Reset(on) = Fields
    BY DEF Reset, Fields
  <2> QED
    BY <1>3, <1>6, <1>7, <2>1, <2>2 DEF ZeroInv
<1>11. CASE StartLink \/ StopLink
  <2>1. /\ c.do \in {"start", "stop"} /\ camera' = camera /\ ret' \in {ret, 1}
        /\ hw' = hw /\ open_node_state' = open_node_state /\ doubtful' = doubtful
    BY <1>11 DEF StartLink, StopLink, Next1
  <2>2. Works(c, hw) /\ hw' = Effect(c, hw)
    BY <1>3, <2>1 DEF Works, Accepted, Effect
  <2> QED
    BY <1>3, <1>6, <1>7, <2>1, <2>2 DEF ZeroInv
<1>12. CASE Ykush
  <2> DEFINE on == [hw EXCEPT !.on = (c.state = "start")]
  <2>1. /\ c.do = "ykush" /\ camera' = camera /\ doubtful' = doubtful
        /\ \/ hw' = on /\ ret' = ret
           \/ hw' \in {hw, on} /\ ret' = 1
    BY <1>12 DEF Ykush, Next1
  <2>2. Works(c, hw) /\ on = Effect(c, hw)
    BY <1>3, <2>1 DEF Works, Accepted, Effect
  <2>3. DOMAIN on = Fields
    BY <1>3
  <2> HIDE DEF on
  <2>4. DoneInv'
    BY <1>7, <2>1, <2>2
  <2> QED
    BY <1>3, <1>6, <2>1, <2>3, <2>4 DEF ZeroInv
<1>13. CASE Camera
  <2>1. /\ c.do \in {"camera_start", "camera_stop"} /\ camera' = (c.do = "camera_start")
        /\ ret' \in {ret, 1} /\ hw' = hw /\ open_node_state' = open_node_state
        /\ doubtful' = doubtful
    BY <1>13 DEF Camera, Next1
  <2>2. Works(c, hw) /\ hw' = Effect(c, hw)
    BY <1>3, <2>1 DEF Works, Accepted, Effect
  <2>3. CameraInv'
    BY <1>4, <1>5, <2>1 DEF ZeroInv, CameraInv
  <2> QED
    BY <1>3, <1>7, <2>1, <2>2, <2>3 DEF ZeroInv
<1>14. CASE SendLate
  <2>1. /\ c.do \in {"send", "power"} /\ camera' = camera /\ hw' = hw /\ ret' = ret
        /\ c.do = "send" => open_node_state' = open_node_state
        /\ doubtful' = doubtful \cup Written(c.line.name)
    BY <1>14 DEF SendLate, Answered, Next1
  <2>2. \A f, v : Required(f, v)' => Required(f, v)
    BY <1>1, <1>2, <2>1, SamePromise
  <2>3. ASSUME ret' = 0, NEW f, NEW v, Required(f, v)', f \notin doubtful'
        PROVE  Settled(todo', f, v, hw')
    <3>1. Settled(todo, f, v, hw) /\ f \notin Written(c.line.name)
      BY <2>1, <2>2, <2>3 DEF ZeroInv, DoneInv
    <3>2. Settled(Tail(todo), f, v, hw)
      BY <1>2, <2>1, <3>1, SkipSettled
    <3> QED
      BY <1>2, <2>1, <3>2
  <2>4. DoneInv'
    BY <2>3 DEF DoneInv
  <2> QED
    BY <1>3, <1>6, <2>1, <2>4 DEF ZeroInv
<1> QED
  BY <1>8, <1>9, <1>10, <1>11, <1>12, <1>13, <1>14

(* The methods: what they promise is what their list settles. *)
LEMMA MethodsSettle ==
  ASSUME IInv, ZeroInv, NEW name, NEW p, NEW calls, Enter(name, p, calls),
         \/ /\ name = "configure_profile" /\ calls = Configure(p)
            /\ IsProfileDict(p) /\ ProfileValid(p)
         \/ /\ name = "start_experiment" /\ calls = StartExperimentCalls(p)
            /\ IsProfileDict(p) /\ ProfileValid(p)
         \/ name = "stop_experiment" /\ calls = StopExperimentCalls
         \/ /\ name \notin ProfileMethods \cup {"stop_experiment"}
            /\ ~Has(calls, "camera_start")
  PROVE  ZeroInv'
<1>1. /\ method' = name /\ profile' = p /\ kind' = kind
      /\ open_node_state' = open_node_state /\ open_node_state \in States
  BY DEF Enter, node_vars, IInv
<1>2. Iotlab' <=> Iotlab
  BY <1>1 DEF Iotlab
<1>3. CASE /\ name = "configure_profile" /\ calls = Configure(p)
           /\ IsProfileDict(p) /\ ProfileValid(p)
  <2>1. ~Has(calls, "camera_start")
    BY <1>3, CameraLists
  <2>2. ASSUME NEW f, NEW v, Required(f, v)' PROVE Due(calls, f, v)
    BY <1>1, <1>2, <1>3, <2>2, ConfigureSettles DEF Required, ProfileMethods
  <2> QED
    BY <1>3, <2>1, <2>2, EnterSettles
<1>4. CASE /\ name = "start_experiment" /\ calls = StartExperimentCalls(p)
           /\ IsProfileDict(p) /\ ProfileValid(p)
  <2>1. Has(calls, "camera_start") => Filming
    BY <1>1, <1>4, CameraLists
  <2>2. ASSUME NEW f, NEW v, Required(f, v)' PROVE Due(calls, f, v)
    <3>1. Iotlab
      BY <1>1, <1>2, <1>4, <2>2 DEF Required, Iotlab
    <3> QED
      BY <1>1, <1>2, <1>4, <2>2, <3>1, StartExperimentSettles DEF Required
  <2> QED
    BY <1>4, <2>1, <2>2, EnterSettles
<1>5. CASE name = "stop_experiment" /\ calls = StopExperimentCalls
  <2>1. ~Has(calls, "camera_start") /\ (Filming => Has(calls, "camera_stop"))
    BY <1>1, <1>5, CameraLists
  <2>2. ASSUME NEW f, NEW v, Required(f, v)' PROVE Due(calls, f, v)
    BY <1>1, <1>2, <1>5, <2>2, StopExperimentSettles DEF Required, ProfileMethods
  <2> QED
    BY <1>5, <2>1, <2>2, EnterSettles
<1>6. CASE /\ name \notin ProfileMethods \cup {"stop_experiment"}
           /\ ~Has(calls, "camera_start")
  <2>1. ASSUME NEW f, NEW v, Required(f, v)' PROVE FALSE
    BY <1>1, <1>6, <2>1 DEF Required, ProfileMethods
  <2> QED
    BY <1>6, <2>1, EnterSettles
<1> QED
  BY <1>3, <1>4, <1>5, <1>6

(* The invariant is kept by every method and every call. *)
LEMMA ZeroInvariance == Spec => []ZeroInv
<1>1. Init => ZeroInv
  <2> SUFFICES ASSUME Init PROVE ZeroInv
    OBVIOUS
  <2>1. DOMAIN hw = Fields
    BY DEF Init, Reset, Fields
  <2>2. DoneInv
    BY DEF Init, DoneInv, Required, ProfileMethods
  <2>3. CameraInv
    BY HasCalls DEF Init, CameraInv
  <2> QED
    BY <2>1, <2>2, <2>3 DEF ZeroInv
<1>2. IInv /\ ZeroInv /\ [Next]_vars => ZeroInv'
  <2> SUFFICES ASSUME IInv, ZeroInv, [Next]_vars PROVE ZeroInv'
    OBVIOUS
  <2>1. CASE Start
    BY <2>1, MethodsSettle, CameraLists DEF Start, ProfileMethods
  <2>2. CASE Stop
    BY <2>2, MethodsSettle, CameraLists DEF Stop, ProfileMethods
  <2>3. CASE StopExperiment
    BY <2>3, MethodsSettle DEF StopExperiment
  <2>4. ASSUME NEW p \in ProfileDicts, StartExperiment(p) PROVE ZeroInv'
    BY <2>4, MethodsSettle, ProfilesAssumption DEF StartExperiment
  <2>5. ASSUME NEW p, IsProfileDict(p), ConfigureProfile(p) PROVE ZeroInv'
    BY <2>5, MethodsSettle DEF ConfigureProfile
  <2>6. ASSUME NEW state \in {"start", "stop"}, OpenStartStop(state) PROVE ZeroInv'
    BY <2>6, MethodsSettle, CameraLists DEF OpenStartStop, ProfileMethods
  <2>7. CASE AutotestSetup
    BY <2>7, MethodsSettle, CameraLists DEF AutotestSetup, ProfileMethods
  <2>8. ASSUME NEW stop_on \in BOOLEAN, AutotestTeardown(stop_on) PROVE ZeroInv'
    BY <2>8, MethodsSettle, CameraLists DEF AutotestTeardown, ProfileMethods
  <2>9. CASE \/ SendFails \/ SendWorks \/ SendUnanswered \/ SendLate \/ ResetNode
             \/ StartLink \/ StopLink \/ Ykush \/ Camera
    BY <2>9, CallsSettle
  <2>10. CASE LinkDies \/ LateArrives \/ UNCHANGED vars
    <3>1. UNCHANGED <<node_vars, profile, open_node_state, method, todo, ret, hw, camera,
                      doubtful>>
      BY <2>10 DEF LinkDies, LateArrives, vars
    <3>2. \A f, v : Required(f, v)' => Required(f, v)
      BY <3>1, SamePromise
    <3>3. DoneInv'
      BY <3>1, <3>2 DEF ZeroInv, DoneInv
    <3>4. CameraInv'
      BY <3>1 DEF ZeroInv, CameraInv, Filming, node_vars
    <3> QED
      BY <3>1, <3>3, <3>4 DEF ZeroInv
  <2>11. CASE Return
    <3>1. /\ method' = "none" /\ todo = <<>> /\ todo' = <<>>
          /\ UNCHANGED <<node_vars, hw, camera>>
      BY <2>11 DEF Return
    <3>2. DoneInv'
      BY <3>1 DEF DoneInv, Required, ProfileMethods
    <3>3. ~Has(<<>>, "camera_start")
      BY HasCalls
    <3>4. CameraInv'
      BY <3>1, <3>3 DEF ZeroInv, CameraInv, Filming, node_vars
    <3> QED
      BY <3>1, <3>2, <3>4 DEF ZeroInv
  <2> QED
    BY <2>1, <2>2, <2>3, <2>4, <2>5, <2>6, <2>7, <2>8, <2>9, <2>10, <2>11,
       ProfilesAssumption, DefaultIsValid DEF Next
<1> QED
  BY <1>1, <1>2, Invariance, PTL DEF Spec

(* configure_profile and start_experiment return 0 only if the control node  *)
(* measures what the profile asks for, decoded from the bytes that the C     *)
(* program made of the Python command lines, and the open node's power is    *)
(* open_node_state from the profile's source; start_experiment then also     *)
(* left time, id and led; stop_experiment returns 0 only if nothing measures *)
(* or films and the open node is powered (cn_iotlab/__init__.py,             *)
(* cn_rpi3/__init__.py).  Nothing is said of what a command sets that took   *)
(* the late ACK of an earlier one (cn_protocol.py), whatever their number.   *)
THEOREM ZeroIsDone == Spec => []ZeroMeansDone
<1>1. IInv /\ ZeroInv => ZeroMeansDone
  <2> SUFFICES ASSUME IInv, ZeroInv PROVE ZeroMeansDone
    OBVIOUS
  <2>1. ASSUME NEW f, NEW v, todo = <<>>, ret = 0, Required(f, v), Sure(f)
        PROVE  hw[f] = v
    <3>1. Settled(<<>>, f, v, hw)
      BY <2>1 DEF ZeroInv, DoneInv, Sure
    <3>2. ~Due(<<>>, f, v)
      BY DEF Due
    <3> QED
      BY <3>1, <3>2 DEF Settled
  <2>2. ASSUME Done("configure_profile") \/ Done("start_experiment")
        PROVE  /\ Iotlab /\ Sure("radio") => hw.radio = Wanted(profile).radio
               /\ kind = "iotlab" =>
                    /\ Sure("consumption") => hw.consumption = Wanted(profile).consumption
                    /\ Sure("on") => (hw.on <=> open_node_state = "start")
                    /\ Sure("on") /\ Sure("source") /\ hw.on => hw.source = profile.power
    <3>1. method \in ProfileMethods /\ todo = <<>> /\ ret = 0
      BY <2>2 DEF Done, ProfileMethods
    <3>2. Iotlab => Required("radio", Wanted(profile).radio)
      BY <3>1 DEF Required
    <3>3. kind = "iotlab" =>
            /\ Required("consumption", Wanted(profile).consumption)
            /\ Required("on", open_node_state = "start")
            /\ open_node_state = "start" => Required("source", profile.power)
      BY <3>1 DEF Required
    <3>4. kind = "iotlab" /\ Sure("on") => hw.on = (open_node_state = "start")
      BY <2>1, <3>1, <3>3
    <3> QED
      BY <2>1, <3>1, <3>2, <3>3, <3>4
  <2>3. ASSUME Done("start_experiment"), Iotlab
        PROVE  /\ Sure("led") => hw.led = "blink"
               /\ Sure("time") => hw.time
               /\ Archi \in {"m3", "a8"} /\ Sure("id") => hw.id % 4096 = Num
    <3>1. /\ Required("led", "blink") /\ Required("time", TRUE)
          /\ Archi \in {"m3", "a8"} => Required("id", NodeId)
      BY <2>3 DEF Done, Required
    <3>2. /\ Sure("led") => hw.led = "blink"
          /\ Sure("time") => hw.time = TRUE
          /\ Archi \in {"m3", "a8"} /\ Sure("id") => hw.id = NodeId
      BY <2>1, <2>3, <3>1 DEF Done
    <3> QED
      BY <3>2, IdSets
  <2>4. ASSUME Done("stop_experiment")
        PROVE  /\ ~camera
               /\ Iotlab => (Sure("radio") => hw.radio = <<>>) /\ (Sure("led") => hw.led = "on")
               /\ kind = "iotlab" => /\ Sure("consumption") => hw.consumption = <<>>
                                     /\ Sure("source") => hw.source = "dc"
               /\ kind \in {"iotlab", "rpi3"} /\ Sure("on") => hw.on
    <3>1. method = "stop_experiment" /\ todo = <<>> /\ ret = 0
      BY <2>4 DEF Done
    <3>2. ~camera
      BY <3>1, HasCalls DEF ZeroInv, CameraInv
    <3>3. /\ Iotlab => Required("radio", <<>>) /\ Required("led", "on")
          /\ kind = "iotlab" => Required("consumption", <<>>) /\ Required("source", "dc")
          /\ kind \in {"iotlab", "rpi3"} => Required("on", TRUE)
      BY <3>1 DEF Required
    <3>4. kind \in {"iotlab", "rpi3"} /\ Sure("on") => hw.on = TRUE
      BY <2>1, <3>1, <3>3
    <3> QED
      BY <2>1, <3>1, <3>2, <3>3, <3>4
  <2> QED
    BY <2>2, <2>3, <2>4 DEF ZeroMeansDone
<1> QED
  BY <1>1, Invariance, ZeroInvariance, PTL
=============================================================================
