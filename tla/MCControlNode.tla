--------------------------- MODULE MCControlNode ---------------------------
(* ControlNode with profiles at the edges of what profile.py accepts. *)
EXTENDS ControlNode

Consumption(period, average, p, v, c) ==
  << [period |-> period, average |-> average, power |-> p, voltage |-> v,
      current |-> c] >>

Radio(mode, channels, period, num) ==
  << [mode |-> mode, channels |-> channels, period |-> period,
      num_per_channel |-> num] >>

Prof(power, consumption, radio) ==
  [power |-> power, consumption |-> consumption, radio |-> radio]

(* The limits of period, average, channels and number; the last four are    *)
(* refused by profile.py or by the C parser.                                *)
MCProfiles ==
  { Prof("battery", Consumption(8244, 1, FALSE, TRUE, FALSE),
         Radio("rssi", <<26, 11>>, 65535, 255)),
    Prof("dc", Consumption(588, 64, FALSE, FALSE, FALSE),
         Radio("sniffer", <<11, 12>>, 65535, NoValue)),
    Prof("dc", Consumption(140, 1024, TRUE, FALSE, TRUE),
         Radio("sniffer", <<26>>, NoValue, NoValue)),
    Prof("dc_charge", Consumption(204, 512, TRUE, TRUE, TRUE),
         Radio("sniffer", <<11, 11>>, 1, NoValue)),
    Prof("dc", <<>>, Radio("rssi", <<11, 12>>, 1, 0)),
    Prof("dc", <<>>, Radio("sniffer", <<11>>, 7, NoValue)),
    Prof("dc", Consumption(100, 1, TRUE, FALSE, FALSE), <<>>) }
=============================================================================
