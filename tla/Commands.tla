------------------------------ MODULE Commands ------------------------------
(***************************************************************************)
(* From a monitoring profile to what the control node executes:            *)
(*                                                                         *)
(*   Profile.from_dict (profile.py) accepts or refuses a profile,          *)
(*   Protocol (cn_protocol.py) turns it into command lines,                *)
(*   parse_cmd (command_reader.c) turns a line into a packet or refuses,   *)
(*   Execute is what the firmware does with a packet (external).           *)
(*                                                                         *)
(* A command line is a name and its words, a packet a type byte and its    *)
(* data.  A list of channels on a line, and the 32 bits that encode it,    *)
(* are the set of the channels.  An optional value is a sequence of length *)
(* 0 or 1, and NoValue is the None of a field that was not given.          *)
(***************************************************************************)
EXTENDS Integers, Sequences, SequencesExt

NoValue == -1

-----------------------------------------------------------------------------
(* profile.py *)

PeriodChoices  == <<140, 204, 332, 588, 1100, 2116, 4156, 8244>>
AverageChoices == <<1, 4, 16, 64, 128, 256, 512, 1024>>
MaxPeriod == 65535

ConsumptionValid(c) ==
  /\ c.period \in Range(PeriodChoices)
  /\ c.average \in Range(AverageChoices)

(* A sniffer's period may be left out. *)
RadioPeriod(r) == IF r.mode = "sniffer" /\ r.period = NoValue THEN 0 ELSE r.period

(* Mutant: a period is also accepted for a single channel. *)
RadioValidAnyPeriod(r) ==
  /\ r.channels # <<>>
  /\ Range(r.channels) \subseteq 11..26
  /\ \/ /\ r.mode = "rssi"
        /\ r.period \in 1..MaxPeriod
        /\ r.num_per_channel \in 0..255
     \/ /\ r.mode = "sniffer"
        /\ RadioPeriod(r) \in 0..MaxPeriod
        /\ r.num_per_channel = NoValue

(* The number of channels is that of the list, repetitions included. *)
RadioValid(r) ==
  /\ r.channels # <<>>
  /\ Range(r.channels) \subseteq 11..26
  /\ \/ /\ r.mode = "rssi"
        /\ r.period \in 1..MaxPeriod
        /\ Len(r.channels) = 1 \/ r.num_per_channel # 0
        /\ r.num_per_channel \in 0..255
     \/ /\ r.mode = "sniffer"
        /\ RadioPeriod(r) \in 0..MaxPeriod
        /\ RadioPeriod(r) # 0 <=> Len(r.channels) # 1
        /\ r.num_per_channel = NoValue

(* The values that the fields of a profile's parts may have, valid or not;  *)
(* either part may be left out.  Any power source is taken.                 *)
ConsumptionDicts ==
  [period : Int, average : Int, power : BOOLEAN, voltage : BOOLEAN, current : BOOLEAN]
RadioDicts ==
  [mode : STRING, channels : Seq(Int), period : Int, num_per_channel : Int]

IsProfileDict(p) ==
  /\ p.consumption \in Seq(ConsumptionDicts) /\ Len(p.consumption) \in {0, 1}
  /\ p.radio \in Seq(RadioDicts) /\ Len(p.radio) \in {0, 1}

(* The power source is not looked at. *)
ProfileValid(p) ==
  /\ \A c \in Range(p.consumption) : ConsumptionValid(c)
  /\ \A r \in Range(p.radio) : RadioValid(r)

ConsumptionSource(alim, power) == IF power = "dc" THEN alim ELSE "BATT"

-----------------------------------------------------------------------------
(* cn_protocol.py *)

Line(name, words) == [name |-> name, words |-> words]

start_stop(state, alim) == Line(state, <<alim>>)

(* Only m3 and a8 nodes have an id on the control node. *)
set_node_id(archi, num) ==
  IF archi \in {"m3", "a8"} THEN <<Line("set_node_id", <<archi, num>>)>> ELSE <<>>

Bit(b) == IF b THEN 1 ELSE 0

Measures(c) == c.power \/ c.voltage \/ c.current

config_consumption(alim, profile) ==
  IF \A c \in Range(profile.consumption) : ~Measures(c)
  THEN Line("config_consumption_measure", <<"stop">>)
  ELSE LET c == profile.consumption[1] IN
       Line("config_consumption_measure",
            <<"start", ConsumptionSource(alim, profile.power), Bit(c.power),
              Bit(c.voltage), Bit(c.current), c.period, c.average>>)

config_radio(profile) ==
  IF profile.radio = <<>> THEN Line("config_radio_stop", <<>>)
  ELSE LET r == profile.radio[1] IN
       IF r.mode = "rssi"
       THEN Line("config_radio_measure",
                 <<Range(r.channels), r.period, r.num_per_channel>>)
       ELSE Line("config_radio_sniffer", <<Range(r.channels), RadioPeriod(r)>>)

-----------------------------------------------------------------------------
(* command_reader.c *)

alim_d == [dc |-> 2, dc_charge |-> 1, battery |-> 0]
archi_d == [m3 |-> 3, a8 |-> 8]
state_d == [start |-> 1, stop |-> 0]
power_source_d == [s \in {"3.3V", "5V", "BATT"} |->
                     CASE s = "3.3V" -> 16 [] s = "5V" -> 32 [] s = "BATT" -> 64]

(* The dictionaries of the eight periods and averages, in order. *)
periods_d == [p \in Range(PeriodChoices) |-> SelectInSeq(PeriodChoices, LAMBDA x : x = p) - 1]
average_d == [a \in Range(AverageChoices) |->
                16 * (SelectInSeq(AverageChoices, LAMBDA x : x = a) - 1)]

commands_d ==
  [ start |-> 17, stop |-> 16, set_time |-> 32, set_node_id |-> 33,
    green_led_on |-> 53, green_led_blink |-> 54, config_radio_stop |-> 192,
    config_radio_measure |-> 193, config_radio_sniffer |-> 195,
    config_consumption_measure |-> 204 ]

(* The formats of the table: how many words each command may have. *)
commands ==
  [ start |-> {1}, stop |-> {1}, set_time |-> {0}, set_node_id |-> {2},
    green_led_on |-> {0}, green_led_blink |-> {0}, config_radio_stop |-> {0},
    config_radio_measure |-> {3}, config_radio_sniffer |-> {2},
    config_consumption_measure |-> {1, 7} ]

command_parse(line) == Len(line.words) \in commands[line.name]

(* %8s reads eight characters of a word; a longer one is cut and found in   *)
(* no dictionary.                                                           *)
LongWords == {"dc_charge"}
get_val(word, dict) == IF word \in DOMAIN dict \ LongWords THEN dict[word] ELSE 255

Refused == <<>>
Packet(type, data) == <<[type |-> type, data |-> data]>>

cmd_alim(type, w) ==
  IF get_val(w[1], alim_d) = 255 THEN Refused
  ELSE Packet(type, <<get_val(w[1], alim_d)>>)

cmd_set_node_id(type, w) ==
  IF get_val(w[1], archi_d) = 255 THEN Refused
  ELSE Packet(type, <<4096 * archi_d[w[1]] + (w[2] % 4096)>>)

(* Mutant: the bit of the voltage is the bit of the current. *)
ConsumptionSwapsBits(type, w) ==
  IF w[1] = "stop" THEN Packet(type, <<state_d["stop"], 0, 0>>)
  ELSE Packet(type, <<state_d[w[1]],
                      power_source_d[w[2]] + w[3] + 4 * w[4] + 2 * w[5],
                      periods_d[w[6]] + average_d[w[7]]>>)

(* 1 byte start or stop, 1 byte source and measures, 1 byte period and      *)
(* average.                                                                 *)
cmd_consumption(type, w) ==
  IF w[1] = "stop" THEN Packet(type, <<state_d["stop"], 0, 0>>)
  ELSE IF \/ get_val(w[2], power_source_d) = 255
          \/ w[6] \notin DOMAIN periods_d
          \/ w[7] \notin DOMAIN average_d
  THEN Refused
  ELSE Packet(type, <<state_d[w[1]],
                      power_source_d[w[2]] + w[3] + 2 * w[4] + 4 * w[5],
                      periods_d[w[6]] + average_d[w[7]]>>)

parse_channels_list(channels) == channels \cap 11..26

cmd_radio_measure(type, w) ==
  LET channels == parse_channels_list(w[1]) IN
  IF channels = {} \/ w[2] % 65536 = 0 \/ w[3] > 255 THEN Refused
  ELSE Packet(type, <<channels, w[2] % 65536, w[3]>>)

(* Several distinct channels need a period, a single one must have none. *)
cmd_radio_sniffer(type, w) ==
  LET channels == parse_channels_list(w[1])
      several  == \E a, b \in channels : a # b
  IN IF \/ channels = {}
        \/ several /\ w[2] % 65536 = 0
        \/ ~several /\ w[2] # 0
     THEN Refused
     ELSE Packet(type, <<channels, w[2] % 65536>>)

parse_cmd(line) ==
  LET type == commands_d[line.name]
      w    == line.words
  IN IF ~command_parse(line) THEN Refused
     ELSE CASE line.name \in {"start", "stop"} -> cmd_alim(type, w)
            [] line.name = "set_node_id" -> cmd_set_node_id(type, w)
            [] line.name = "config_consumption_measure" -> cmd_consumption(type, w)
            [] line.name = "config_radio_measure" -> cmd_radio_measure(type, w)
            [] line.name = "config_radio_sniffer" -> cmd_radio_sniffer(type, w)
            [] OTHER -> Packet(type, <<>>)

-----------------------------------------------------------------------------
(* The control node's firmware *)

(* After a reset it measures nothing and has neither time nor id. *)
Reset(on) ==
  [ on |-> on, source |-> "dc", consumption |-> <<>>, radio |-> <<>>,
    led |-> "on", time |-> FALSE, id |-> 0 ]

Key(dict, val) == CHOOSE k \in DOMAIN dict : dict[k] = val

DecodeConsumption(c0, c1) ==
  [ source  |-> Key(power_source_d, c0 - (c0 % 16)),
    power   |-> c0 % 2 = 1,
    voltage |-> (c0 \div 2) % 2 = 1,
    current |-> (c0 \div 4) % 2 = 1,
    period  |-> PeriodChoices[1 + (c1 % 16)],
    average |-> AverageChoices[1 + (c1 \div 16)] ]

Execute(hw, pkt) ==
  LET d == pkt.data IN
  CASE pkt.type = commands_d["start"] ->
         [hw EXCEPT !.on = TRUE, !.source = Key(alim_d, d[1])]
    [] pkt.type = commands_d["stop"] -> [hw EXCEPT !.on = FALSE]
    [] pkt.type = commands_d["set_time"] -> [hw EXCEPT !.time = TRUE]
    [] pkt.type = commands_d["set_node_id"] -> [hw EXCEPT !.id = d[1]]
    [] pkt.type = commands_d["green_led_on"] -> [hw EXCEPT !.led = "on"]
    [] pkt.type = commands_d["green_led_blink"] -> [hw EXCEPT !.led = "blink"]
    [] pkt.type = commands_d["config_consumption_measure"] ->
         [hw EXCEPT !.consumption =
            IF d[1] = 0 THEN <<>> ELSE <<DecodeConsumption(d[2], d[3])>>]
    [] pkt.type = commands_d["config_radio_stop"] -> [hw EXCEPT !.radio = <<>>]
    [] pkt.type = commands_d["config_radio_measure"] ->
         [hw EXCEPT !.radio = <<[mode |-> "rssi", channels |-> d[1],
                                 period |-> d[2], num_per_channel |-> d[3]]>>]
    [] pkt.type = commands_d["config_radio_sniffer"] ->
         [hw EXCEPT !.radio = <<[mode |-> "sniffer", channels |-> d[1],
                                 period |-> d[2], num_per_channel |-> NoValue]>>]
=============================================================================
