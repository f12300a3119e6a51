------------------------------ MODULE Packets ------------------------------
(***************************************************************************)
(* What control_node_serial makes of the bytes of the control node:        *)
(* serial.c cuts them into packets, whatever the sizes of the reads,       *)
(* decode.c sends a packet to write_answer or to measures_handler.c, which *)
(* reads consumption measures with the layout that the last consumption    *)
(* acknowledgement announced.                                              *)
(*                                                                         *)
(* A byte is a number.  A float is the number its four bytes make, as it   *)
(* is only copied.  The frames the control node means to send, and their   *)
(* encoding, are the firmware's (external).                                *)
(***************************************************************************)
EXTENDS Integers, Sequences, FiniteSets, FiniteSetsExt, SequencesExt

CONSTANTS
  Streams,    \* the sequences of frames to consider
  Times,      \* the successive results of gettimeofday
  MaxChunk,   \* bound: a read gives up to MaxChunk bytes, or all there are
  CharSigned  \* whether char is a signed type on the gateway

ASSUME MaxChunkAssumption == MaxChunk \in Nat \ {0}
ASSUME CharAssumption == CharSigned \in BOOLEAN
MICRO == 1000000

ASSUME TimesAssumption ==
  Times # <<>> /\ Times \in Seq([sec : Int, usec : 0..MICRO - 1])

SYNC_BYTE == 128
SET_TIME == 32
CONFIG_RADIO_STOP == 192
CONFIG_RADIO_MEAS == 193
CONFIG_CONSUMPTION == 204
ACK_FRAME == 250
RADIO_MEAS_FRAME == 241
RADIO_SNIFFER_FRAME == 243
CONSUMPTION_FRAME == 252
LOGGER_FRAME == 238
MEASURE_POWER == 1
MEASURE_VOLTAGE == 2
MEASURE_CURRENT == 4
CommandTypes == {16, 17, 32, 33, 53, 54, 113, 114, 115, 116, 118, 192, 193, 195, 204}
ack_d == {10, 2}

VARIABLES
  frames,       \* what the control node means to send
  wire,         \* the bytes that are not read yet
  rx, cur_idx,  \* the bytes of the last read, and how many are parsed
  state,        \* the parser's state
  pkt,          \* its packet: len, cur_idx and data
  mh_state,     \* measures_handler.c: the layout of the measures
  outs,         \* what was printed, injected in OML or sent to the sniffer
  set_time_ref, \* when set_time was sent
  now,          \* index in Times
  setting,      \* the command thread is writing set_time_ref
  sub,          \* the call of timeval_substract: its place, x and registers
  elapsed       \* ghost: the last set_time delay, and what it was made from

rx_vars == <<wire, rx, cur_idx, state, pkt, mh_state, outs>>
time_vars == <<set_time_ref, now, setting, sub, elapsed>>
vars == <<frames, rx_vars, time_vars>>

-----------------------------------------------------------------------------
(* Decoding a packet: d is its buffer, len its length. *)

(* A byte of the static buffer, 0 where nothing was ever written. *)
At(d, i) == IF i < Len(d) THEN d[i + 1] ELSE 0

WordAt(d, i) ==
  At(d, i) + 256 * At(d, i + 1) + 65536 * At(d, i + 2) + 16777216 * At(d, i + 3)

Int8(b) == IF b > 127 THEN b - 256 ELSE b

(* The two halves of a uint32_t. *)
Uint32(n) == <<(n \div 65536) % 65536, n % 65536>>

Bit(n, mask) == (n \div mask) % 2 = 1

Result(mh, out) == [mh |-> mh, out |-> out]

write_answer(d, len) ==
  IF len # 2 THEN <<>>
  ELSE IF At(d, 0) = LOGGER_FRAME
  THEN << [out |-> "error", code |-> IF CharSigned THEN Int8(At(d, 1)) ELSE At(d, 1)] >>
  ELSE IF At(d, 0) \in CommandTypes /\ At(d, 1) \in ack_d
  THEN << [out |-> "answer", type |-> At(d, 0), ack |-> At(d, 1)] >>
  ELSE <<>>

calculate_time_extended(s, us) ==
  [sec |-> s + (us \div MICRO), usec |-> us % MICRO]

(* The measures of a packet: where a handler reads each, and its time. *)
handle_oml_measure(d, len, size) ==
  LET num == At(d, 1) IN
  IF len # 6 + num * (4 + size) THEN <<>>
  ELSE [ i \in 1..num |->
           LET at == 6 + (i - 1) * (4 + size) IN
           [ at |-> at + 4,
             time |-> calculate_time_extended(WordAt(d, 2), WordAt(d, at)) ] ]

NAN == -1

(* The values that exist, in the order power, voltage, current. *)
consumption_handler(d, mh, at, time) ==
  LET v == at + (IF mh.p THEN 4 ELSE 0)
      c == v + (IF mh.v THEN 4 ELSE 0)
  IN [ out |-> "consumption", time |-> time,
       p |-> IF mh.p THEN WordAt(d, at) ELSE NAN,
       v |-> IF mh.v THEN WordAt(d, v) ELSE NAN,
       c |-> IF mh.c THEN WordAt(d, c) ELSE NAN ]

radio_handler(d, at, time) ==
  [out |-> "radio", time |-> time, channel |-> At(d, at), rssi |-> Int8(At(d, at + 1))]

(* The packet is sent from its second byte on with the whole length, and    *)
(* summarised for OML; its NTP time is left out.                            *)
handle_radio_sniffer(d, len) ==
  LET pkt_len == At(d, 32) IN
  IF len < 33 \/ len # 33 + pkt_len THEN <<>>
  ELSE << [out |-> "client", bytes |-> [i \in 1..len |-> At(d, i)]],
          [ out |-> "sniffer", channel |-> At(d, 5), lqi |-> At(d, 9),
            rssi |-> Int8(At(d, 24)), length |-> Uint32(pkt_len - 2) ] >>

Count(p, v, c) == (IF p THEN 1 ELSE 0) + (IF v THEN 1 ELSE 0) + (IF c THEN 1 ELSE 0)

(* Mutant: the measures of the earlier configuration are not cleared. *)
ConfigKeepsOld(mh, config) ==
  LET p == mh.p \/ Bit(config, MEASURE_POWER)
      v == mh.v \/ Bit(config, MEASURE_VOLTAGE)
      c == mh.c \/ Bit(config, MEASURE_CURRENT)
  IN [p |-> p, v |-> v, c |-> c, meas_len |-> 4 * Count(p, v, c)]

config_consumption(mh, config) ==
  LET p == Bit(config, MEASURE_POWER)
      v == Bit(config, MEASURE_VOLTAGE)
      c == Bit(config, MEASURE_CURRENT)
  IN [p |-> p, v |-> v, c |-> c, meas_len |-> 4 * Count(p, v, c)]

(* The length is not looked at. *)
handle_ack_pkt(d, mh) ==
  CASE At(d, 1) \in {SET_TIME, CONFIG_RADIO_STOP, CONFIG_RADIO_MEAS} ->
         Result(mh, <<[out |-> "config_ack", type |-> At(d, 1)]>>)
    [] At(d, 1) = CONFIG_CONSUMPTION ->
         Result(config_consumption(mh, At(d, 2)),
                <<[out |-> "config_ack", type |-> At(d, 1)]>>)
    [] OTHER -> Result(mh, <<>>)

handle_measure_pkt(d, len, mh) ==
  CASE At(d, 0) = ACK_FRAME -> handle_ack_pkt(d, mh)
    [] At(d, 0) = RADIO_SNIFFER_FRAME -> Result(mh, handle_radio_sniffer(d, len))
    [] At(d, 0) = CONSUMPTION_FRAME ->
         LET meas == handle_oml_measure(d, len, mh.meas_len) IN
         Result(mh, [i \in DOMAIN meas |->
                       consumption_handler(d, mh, meas[i].at, meas[i].time)])
    [] At(d, 0) = RADIO_MEAS_FRAME ->
         LET meas == handle_oml_measure(d, len, 2) IN
         Result(mh, [i \in DOMAIN meas |->
                       radio_handler(d, meas[i].at, meas[i].time)])
    [] OTHER -> Result(mh, <<>>)

decode_pkt(d, len, mh) ==
  IF At(d, 0) \div 16 = 15 THEN handle_measure_pkt(d, len, mh)
  ELSE Result(mh, write_answer(d, len))

(* Mutant: no borrow. *)
NoCarry(x, y) == 0

(* time_ref.c:31-42: the seconds that go from the microseconds of y to its  *)
(* seconds, by one adjustment or the other.                                 *)
nsec(x, y) ==
  LET less == IF x < y THEN (y - x) \div MICRO + 1 ELSE 0
      y1   == y - MICRO * less
      more == IF x - y1 > MICRO THEN (x - y1) \div MICRO ELSE 0
  IN less - more

-----------------------------------------------------------------------------
(* The control node's side *)

Word(n) == << n % 256, (n \div 256) % 256, (n \div 65536) % 256, n \div 16777216 >>

(* A frame may be lost as a whole on the serial line. *)
Frame(f) == IF f.k = "lost" THEN f.frame ELSE f

(* The layout announced by the last consumption acknowledgement before i    *)
(* among those of the frames kept in the set Kept.                          *)
Config(fs, i, Kept) ==
  LET acks == { j \in (1..i - 1) \cap Kept :
                  Frame(fs[j]).k = "config" /\ Frame(fs[j]).type = CONFIG_CONSUMPTION }
  IN IF acks = {} THEN 0
     ELSE Frame(fs[CHOOSE j \in acks : \A l \in acks : l <= j]).config

(* The values that config selects, in order. *)
Selected(m, config) ==
  (IF Bit(config, MEASURE_POWER) THEN <<m.p>> ELSE <<>>) \o
  (IF Bit(config, MEASURE_VOLTAGE) THEN <<m.v>> ELSE <<>>) \o
  (IF Bit(config, MEASURE_CURRENT) THEN <<m.c>> ELSE <<>>)

Words(ns) == FlattenSeq([i \in DOMAIN ns |-> Word(ns[i])])

Zep(f) ==
  [ i \in 1..(32 + Len(f.payload)) |->
      CASE i = 5 -> f.channel
        [] i = 9 -> f.lqi
        [] i = 24 -> f.rssi
        [] i = 32 -> Len(f.payload)
        [] i > 32 -> f.payload[i - 32]
        [] OTHER -> i ]

Payload(fs, i) ==
  LET f == fs[i]
      sent == Config(fs, i, DOMAIN fs)
  IN
  CASE f.k = "answer" -> <<f.type, f.ack>>
    [] f.k = "error" -> <<LOGGER_FRAME, f.code>>
    [] f.k = "config" -> <<ACK_FRAME, f.type, f.config>>
    [] f.k = "sniff" -> <<RADIO_SNIFFER_FRAME>> \o Zep(f)
    [] f.k = "radio" ->
         <<RADIO_MEAS_FRAME, Len(f.meas)>> \o Word(f.ref) \o
         FlattenSeq([j \in DOMAIN f.meas |->
                       Word(f.meas[j].us) \o <<f.meas[j].channel, f.meas[j].rssi>>])
    [] f.k = "consumption" ->
         <<CONSUMPTION_FRAME, Len(f.meas)>> \o Word(f.ref) \o
         FlattenSeq([j \in DOMAIN f.meas |->
                       Word(f.meas[j].us) \o Words(Selected(f.meas[j], sent))])
    [] f.k = "empty" -> <<>>

(* Noise is any bytes between two frames. *)
Encode(fs, i) ==
  CASE fs[i].k = "lost" -> <<>>
    [] fs[i].k = "noise" -> fs[i].bytes
    [] OTHER -> <<SYNC_BYTE, Len(Payload(fs, i))>> \o Payload(fs, i)

Bytes(fs) == FlattenSeq([i \in DOMAIN fs |-> Encode(fs, i)])

Byte == 0..255
Uint32s == {n \in Nat : n \div 16777216 \in Byte}

(* tv_sec and tv_usec are signed, of 32 bits on the gateway: the seconds of *)
(* a packet leave room for a carry, and its microseconds are below 2^31.    *)
Seconds == {n \in Nat : n \div 16777216 \in 0..126}
Micros == {n \in Nat : n \div 16777216 \in 0..127}

SentFrames ==
  [k : {"answer"}, type : CommandTypes, ack : ack_d] \cup
  [k : {"error"}, code : Byte] \cup
  [k : {"config"}, type : Byte, config : Byte] \cup
  [k : {"sniff"}, channel : Byte, lqi : Byte, rssi : Byte, payload : Seq(Byte)] \cup
  [k : {"radio"}, ref : Seconds, meas : Seq([us : Micros, channel : Byte, rssi : Byte])] \cup
  [k : {"consumption"}, ref : Seconds,
   meas : Seq([us : Micros, p : Uint32s, v : Uint32s, c : Uint32s])] \cup
  [k : {"empty"}]

Frames ==
  SentFrames \cup [k : {"noise"}, bytes : Seq(Byte)] \cup [k : {"lost"}, frame : SentFrames]

(* The length of a packet is a byte. *)
ASSUME StreamsAssumption ==
  \A fs \in Streams :
    /\ fs \in Seq(Frames)
    /\ \A i \in DOMAIN fs :
         fs[i].k \notin {"noise", "lost"} => Len(Payload(fs, i)) \in Byte

-----------------------------------------------------------------------------
(* serial.c *)

NoTime == [sec |-> 0, usec |-> 0]

Init ==
  /\ frames \in Streams
  /\ wire = Bytes(frames)
  /\ rx = <<>>
  /\ cur_idx = 0
  /\ state = "IDLE"
  /\ pkt = [len |-> 0, cur_idx |-> 0, data |-> <<>>]
  /\ mh_state = [p |-> FALSE, v |-> FALSE, c |-> FALSE, meas_len |-> 0]
  /\ outs = <<>>
  /\ set_time_ref = NoTime
  /\ now = IF \E f \in Range(frames) : f.k = "config" /\ f.type = SET_TIME
           THEN 1 ELSE Len(Times)
  /\ setting = FALSE
  /\ sub = [pc |-> "none", x |-> NoTime, sec |-> 0, usec |-> 0,
            ref |-> NoTime, mixed |-> FALSE]
  /\ elapsed = <<>>

(* read returns when there is something to read. *)
receive_data(n) ==
  /\ rx = <<>> /\ sub.pc = "none"
  /\ n <= Len(wire)
  /\ rx' = SubSeq(wire, 1, n)
  /\ wire' = SubSeq(wire, n + 1, Len(wire))
  /\ UNCHANGED <<frames, cur_idx, state, pkt, mh_state, outs, time_vars>>

(* The loop goes on while there are bytes. *)
Advance(i) ==
  IF i = Len(rx) THEN rx' = <<>> /\ cur_idx' = 0
  ELSE rx' = rx /\ cur_idx' = i

Parsing(s) == rx # <<>> /\ state = s /\ sub.pc = "none"

SearchSync ==
  /\ Parsing("IDLE")
  /\ LET syncs == {i \in (cur_idx + 1)..Len(rx) : rx[i] = SYNC_BYTE} IN
       IF syncs = {}
       THEN /\ rx' = <<>> /\ cur_idx' = 0
            /\ state' = state
       ELSE /\ Advance(CHOOSE i \in syncs : \A j \in syncs : i <= j)
            /\ state' = "WAIT_LEN"
  /\ UNCHANGED <<frames, wire, pkt, mh_state, outs, time_vars>>

(* Mutant: the index in the packet is not reset. *)
ReadLenNoReset ==
  /\ Parsing("WAIT_LEN")
  /\ pkt' = [pkt EXCEPT !.len = rx[cur_idx + 1]]
  /\ Advance(cur_idx + 1)
  /\ state' = "GET_PAYLOAD"
  /\ UNCHANGED <<frames, wire, mh_state, outs, time_vars>>

ReadLen ==
  /\ Parsing("WAIT_LEN")
  /\ pkt' = [len |-> rx[cur_idx + 1], cur_idx |-> 0, data |-> pkt.data]
  /\ Advance(cur_idx + 1)
  /\ state' = "GET_PAYLOAD"
  /\ UNCHANGED <<frames, wire, mh_state, outs, time_vars>>

(* memcpy in the static buffer, which keeps the bytes of earlier packets. *)
Overwrite(d, at, new) ==
  [ i \in 1..(IF at + Len(new) > Len(d) THEN at + Len(new) ELSE Len(d)) |->
      IF i > at /\ i <= at + Len(new) THEN new[i - at] ELSE d[i] ]

(* The packet is handled.  On the acknowledgement of a set_time the thread   *)
(* takes the time and goes on to timeval_substract; the ghosts ref and mixed *)
(* are set_time_ref at that point and whether it is written meanwhile.       *)
Handle(p) ==
  LET r == decode_pkt(p.data, p.len, mh_state) IN
  /\ mh_state' = r.mh
  /\ outs' = outs \o r.out
  /\ IF [out |-> "config_ack", type |-> SET_TIME] \in Range(r.out)
     THEN sub' = [ sub EXCEPT !.pc = "load_usec", !.x = Times[now],
                              !.ref = set_time_ref, !.mixed = setting ]
     ELSE UNCHANGED sub

GetPayload ==
  /\ Parsing("GET_PAYLOAD")
  /\ LET n == IF pkt.len - pkt.cur_idx < Len(rx) - cur_idx
              THEN pkt.len - pkt.cur_idx ELSE Len(rx) - cur_idx
         new == SubSeq(rx, cur_idx + 1, cur_idx + n)
         p == [ len |-> pkt.len, cur_idx |-> pkt.cur_idx + n,
                data |-> Overwrite(pkt.data, pkt.cur_idx, new) ]
     IN /\ pkt' = p
        /\ Advance(cur_idx + n)
        /\ IF p.len = p.cur_idx
           THEN Handle(p) /\ state' = "IDLE"
           ELSE UNCHANGED <<mh_state, outs, sub, state>>
  /\ UNCHANGED <<frames, wire, set_time_ref, now, setting, elapsed>>

-----------------------------------------------------------------------------
(* timeval_substract(&time_diff, &time_ack, &set_time_ref) and timerclear,   *)
(* one access to set_time_ref at a time.  At the optimisation the Makefile   *)
(* asks for, a word of y stays in a register until *result, which may be y,  *)
(* is written: tv_usec is loaded again for the last subtraction.             *)

InSubstract(at) ==
  /\ sub.pc = at
  /\ UNCHANGED <<frames, rx_vars, now, setting>>

Carry == nsec(sub.x.usec, sub.usec)

LoadUsec ==
  /\ InSubstract("load_usec")
  /\ sub' = [ sub EXCEPT
                !.usec = set_time_ref.usec,
                !.pc = IF nsec(sub.x.usec, set_time_ref.usec) = 0
                       THEN "load_sec" ELSE "store_usec" ]
  /\ UNCHANGED <<set_time_ref, elapsed>>

StoreUsec ==
  /\ InSubstract("store_usec")
  /\ set_time_ref' = [set_time_ref EXCEPT !.usec = sub.usec - MICRO * Carry]
  /\ sub' = [sub EXCEPT !.pc = "load_sec"]
  /\ UNCHANGED elapsed

LoadSec ==
  /\ InSubstract("load_sec")
  /\ sub' = [ sub EXCEPT !.sec = set_time_ref.sec + Carry,
                         !.pc = IF Carry = 0 THEN "result" ELSE "store_sec" ]
  /\ UNCHANGED <<set_time_ref, elapsed>>

StoreSec ==
  /\ InSubstract("store_sec")
  /\ set_time_ref' = [set_time_ref EXCEPT !.sec = sub.sec]
  /\ sub' = [sub EXCEPT !.pc = "result"]
  /\ UNCHANGED elapsed

SubstractResult ==
  /\ InSubstract("result")
  /\ elapsed' = << [ diff |-> [ sec |-> sub.x.sec - sub.sec,
                                usec |-> sub.x.usec - set_time_ref.usec ],
                     x |-> sub.x, ref |-> sub.ref, mixed |-> sub.mixed ] >>
  /\ sub' = [sub EXCEPT !.pc = "clear_usec"]
  /\ UNCHANGED set_time_ref

ClearUsec ==
  /\ InSubstract("clear_usec")
  /\ set_time_ref' = [set_time_ref EXCEPT !.usec = 0]
  /\ sub' = [sub EXCEPT !.pc = "clear_sec"]
  /\ UNCHANGED elapsed

ClearSec ==
  /\ InSubstract("clear_sec")
  /\ set_time_ref' = [set_time_ref EXCEPT !.sec = 0]
  /\ sub' = [sub EXCEPT !.pc = "none"]
  /\ UNCHANGED elapsed

-----------------------------------------------------------------------------
(* cmd_set_time, in the thread that reads commands: gettimeofday writes the *)
(* two words of set_time_ref without a lock.                                *)
SetTimeSec ==
  /\ ~setting
  /\ now < Len(Times)
  /\ now' = now + 1
  /\ set_time_ref' = [set_time_ref EXCEPT !.sec = Times[now'].sec]
  /\ setting' = TRUE
  /\ sub' = [sub EXCEPT !.mixed = TRUE]
  /\ UNCHANGED <<frames, rx_vars, elapsed>>

SetTimeUsec ==
  /\ setting
  /\ set_time_ref' = [set_time_ref EXCEPT !.usec = Times[now].usec]
  /\ setting' = FALSE
  /\ UNCHANGED <<frames, rx_vars, now, sub, elapsed>>

TimePasses ==
  /\ ~setting
  /\ now < Len(Times)
  /\ now' = now + 1
  /\ UNCHANGED <<frames, rx_vars, set_time_ref, setting, sub, elapsed>>

Next ==
  \/ \E n \in (1..MaxChunk) \cup {Len(wire)} : n > 0 /\ receive_data(n)
  \/ SearchSync \/ ReadLen \/ GetPayload
  \/ LoadUsec \/ StoreUsec \/ LoadSec \/ StoreSec \/ SubstractResult
  \/ ClearUsec \/ ClearSec
  \/ SetTimeSec \/ SetTimeUsec \/ TimePasses

Spec == Init /\ [][Next]_vars

-----------------------------------------------------------------------------
(* Properties *)

(* The protocol read one byte at a time.  A packet of length 0 is only      *)
(* handled when the next byte comes, which then is looked at as the first   *)
(* of a packet.                                                             *)
Handled(s) ==
  LET r == decode_pkt(s.data, s.len, s.mh)
  IN [ state |-> "IDLE", len |-> s.len, cur_idx |-> s.cur_idx, data |-> s.data,
       outs |-> s.outs \o r.out, mh |-> r.mh ]

Searched(s, b) == IF b = SYNC_BYTE THEN [s EXCEPT !.state = "WAIT_LEN"] ELSE s

Stored(s, b) ==
  [ state |-> s.state, len |-> s.len, cur_idx |-> s.cur_idx + 1,
    data |-> Overwrite(s.data, s.cur_idx, <<b>>), outs |-> s.outs, mh |-> s.mh ]

ByteStep(s, b) ==
  CASE s.state = "IDLE" -> Searched(s, b)
    [] s.state = "WAIT_LEN" ->
         [s EXCEPT !.state = "GET_PAYLOAD", !.len = b, !.cur_idx = 0]
    [] s.state = "GET_PAYLOAD" /\ s.len = 0 -> Searched(Handled(s), b)
    [] s.state = "GET_PAYLOAD" /\ s.len # 0 ->
         LET got == Stored(s, b) IN IF got.cur_idx = got.len THEN Handled(got) ELSE got

ByteInit ==
  [ state |-> "IDLE", len |-> 0, cur_idx |-> 0, data |-> <<>>, outs |-> <<>>,
    mh |-> [p |-> FALSE, v |-> FALSE, c |-> FALSE, meas_len |-> 0] ]

(* The states it goes through on the bytes bs. *)
ByteStates(bs) ==
  LET st[n \in 0..Len(bs)] == IF n = 0 THEN ByteInit ELSE ByteStep(st[n - 1], bs[n])
  IN st

Parser ==
  [ state |-> state, len |-> pkt.len, cur_idx |-> pkt.cur_idx, data |-> pkt.data,
    outs |-> outs, mh |-> mh_state ]

(* Whatever the reads the bytes come in, the parser's state, the layout and *)
(* everything printed or sent are those of the protocol read byte by byte:  *)
(* nothing is lost, repeated or reordered at the edges of a read.           *)
ChunksInvisible ==
  rx = <<>> =>
    LET all == Bytes(frames) IN Parser = ByteStates(all)[Len(all) - Len(wire)]

(* What should come of a frame: its values, at their normalised times.      *)
TimeOf(f, m) ==
  LET us == f.ref * MICRO + m.us IN [sec |-> us \div MICRO, usec |-> us % MICRO]

(* The value that the layout got names, of those selected by sent. *)
ValueOf(m, sent, got, mask) ==
  IF ~Bit(got, mask) THEN NAN
  ELSE Selected(m, sent)[Count(Bit(got, MEASURE_POWER),
                               mask >= MEASURE_VOLTAGE /\ Bit(got, MEASURE_VOLTAGE),
                               mask >= MEASURE_CURRENT /\ Bit(got, MEASURE_CURRENT))]

Acked(f) ==
  IF f.type \in {SET_TIME, CONFIG_RADIO_STOP, CONFIG_RADIO_MEAS, CONFIG_CONSUMPTION}
  THEN <<[out |-> "config_ack", type |-> f.type]>> ELSE <<>>

Filled(f) == f.k \notin {"lost", "noise", "empty"}

(* Consumption values are named by the last layout that was received; with  *)
(* an acknowledgement lost they are dropped if their number differs, and    *)
(* named wrongly if it does not.  An empty packet repeats the message of an *)
(* acknowledgement before it, when a byte comes after it.                   *)
Meant(fs, i) ==
  LET f == fs[i]
      sent == Config(fs, i, DOMAIN fs)
      got == Config(fs, i, {j \in DOMAIN fs : fs[j].k # "lost"})
      before == {j \in 1..i - 1 : Filled(fs[j])}
  IN CASE f.k = "answer" -> <<[out |-> "answer", type |-> f.type, ack |-> f.ack]>>
       [] f.k = "error" -> <<[out |-> "error", code |-> IF CharSigned THEN Int8(f.code) ELSE f.code]>>
       [] f.k = "config" -> Acked(f)
       [] f.k = "radio" ->
            [j \in DOMAIN f.meas |->
               [out |-> "radio", time |-> TimeOf(f, f.meas[j]),
                channel |-> f.meas[j].channel, rssi |-> Int8(f.meas[j].rssi)]]
       [] f.k = "sniff" ->
            << [out |-> "client", bytes |-> Zep(f)],
               [out |-> "sniffer", channel |-> f.channel, lqi |-> f.lqi,
                rssi |-> Int8(f.rssi), length |-> Uint32(Len(f.payload) - 2)] >>
       [] f.k = "consumption" ->
            IF \E m \in Range(f.meas) : Len(Selected(m, sent)) # Len(Selected(m, got))
            THEN <<>>
            ELSE [j \in DOMAIN f.meas |->
                    [out |-> "consumption", time |-> TimeOf(f, f.meas[j]),
                     p |-> ValueOf(f.meas[j], sent, got, MEASURE_POWER),
                     v |-> ValueOf(f.meas[j], sent, got, MEASURE_VOLTAGE),
                     c |-> ValueOf(f.meas[j], sent, got, MEASURE_CURRENT)]]
       [] f.k = "empty" ->
            IF \/ \A j \in i + 1..Len(fs) : Encode(fs, j) = <<>>
               \/ before = {}
               \/ fs[Max(before)].k # "config"
            THEN <<>> ELSE Acked(fs[Max(before)])
       [] OTHER -> <<>>

(* A sniffer client gets one byte more than the packet. *)
Trimmed(o) ==
  IF o.out = "client"
  THEN [out |-> "client", bytes |-> SubSeq(o.bytes, 1, Len(o.bytes) - 1)] ELSE o

Quiet(fs) == \A f \in Range(fs) : f.k = "noise" => SYNC_BYTE \notin Range(f.bytes)

(* Unless noise holds a synchronisation byte, every frame that arrives      *)
(* gives exactly its values, in order, and nothing else is given; a sniffer *)
(* client gets every packet followed by exactly one more byte.              *)
FramesDelivered ==
  Quiet(frames) =>
    LET meant == FlattenSeq([i \in DOMAIN frames |-> Meant(frames, i)])
        given == [i \in DOMAIN outs |-> Trimmed(outs[i])]
    IN /\ IsPrefix(given, meant)
       /\ wire = <<>> /\ rx = <<>> => given = meant

(* The delay printed for set_time, unless cmd_set_time wrote set_time_ref    *)
(* while it was computed, is the time since the value set_time_ref had, as   *)
(* seconds and less than a million microseconds: what earlier overlaps of    *)
(* the two threads left in set_time_ref does no harm.  A write during the    *)
(* computation does: "tv_usec is certainly positive" (time_ref.c:46-47) is   *)
(* wrong then.                                                               *)
ElapsedNormal ==
  \A e \in Range(elapsed) :
    ~ e.mixed =>
      /\ e.diff.usec \in 0..MICRO - 1
      /\ MICRO * e.diff.sec + e.diff.usec =
           MICRO * (e.x.sec - e.ref.sec) + (e.x.usec - e.ref.usec)
=============================================================================
