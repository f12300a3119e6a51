----------------------------- MODULE MCPackets -----------------------------
(* Packets with streams of up to eight frames: every kind of frame, noise,  *)
(* empty packets, lost acknowledgements and values at their limits.         *)
EXTENDS Packets

Answer == [k |-> "answer", type |-> 17, ack |-> 10]
Error  == [k |-> "error", code |-> 130]
Ack(t, c) == [k |-> "config", type |-> t, config |-> c]
Consumption(n) ==
  [ k |-> "consumption", ref |-> 7,
    meas |-> [ i \in 1..n |-> [us |-> 999999 * i, p |-> 128 + i, v |-> 70000 + i,
                               c |-> 2147483600 + i] ] ]
Rssi(n) ==
  [ k |-> "radio", ref |-> 300,
    meas |-> [i \in 1..n |-> [us |-> 500000 * i, channel |-> 26, rssi |-> 127 + i]] ]
Sniff(n) ==
  [ k |-> "sniff", channel |-> 11, lqi |-> 255, rssi |-> 200,
    payload |-> [i \in 1..n |-> 100 + i] ]
Empty == [k |-> "empty"]
Noise(b) == [k |-> "noise", bytes |-> b]
Lost(f) == [k |-> "lost", frame |-> f]

MCStreams ==
  { <<Noise(<<1, 255>>), Answer, Noise(<<0>>), Error>> } \cup
  { <<Ack(204, 16 + c), Consumption(2), Ack(204, 0)>> : c \in 1..7 } \cup
  { <<Ack(204, 17), Consumption(1), Lost(Ack(204, c)), Consumption(1), Answer>>
      : c \in {18, 23} } \cup
  { <<Empty, Ack(204, 35), Empty, Empty, Consumption(1), Ack(193, 0), Empty, Answer>>,
    <<Ack(204, 65), Consumption(2), Ack(204, 70), Consumption(1)>>,
    <<Rssi(2), Ack(192, 0), Sniff(3), Answer>>,
    <<Sniff(5), Sniff(0), Sniff(1), Empty>>,
    <<Ack(32, 0), Answer, Ack(32, 0), Empty, Error>>,
    <<Ack(195, 0), Consumption(0), Rssi(0)>>,
    <<Ack(193, 0), Empty, Lost(Answer), Noise(<<>>)>>,
    <<Noise(<<128, 3, 1>>), Ack(204, 17), Consumption(1), Answer>>,
    <<Noise(<<128>>), Sniff(2), Answer, Answer>> }

MCTimes == << [sec |-> 1, usec |-> 0], [sec |-> 1, usec |-> 999999],
              [sec |-> 2, usec |-> 0], [sec |-> 4, usec |-> 999999] >>
=============================================================================
