-------------------------- MODULE LinuxNodeProofs ---------------------------
(***************************************************************************)
(* Proofs about LinuxNode, for any number of calls of wait_booted, of      *)
(* sessions and of connection attempts.                                    *)
(*                                                                         *)
(* Three arguments, each an inductive invariant of its own over the types: *)
(*   - who refers to an open connection, and that the last call to end     *)
(*     closes what the attribute still holds (OpenInv);                    *)
(*   - a call that started alone stays alone until the next setup, and no  *)
(*     one else touches the attribute (AloneInv);                          *)
(*   - teardown ends socat, so a connection made before it is never served *)
(*     again (ServedInv).                                                  *)
(***************************************************************************)
EXTENDS LinuxNode, TLAPS

(* No call has the number that stands for no connection, for a user's or     *)
(* for the login's.                                                          *)
LEMMA BootsAreCalls ==
  /\ Boots \subseteq Nat \ {0}
  /\ None \notin Boots /\ User \notin Boots /\ Login \notin Boots
  /\ None # User /\ None # Login /\ User # Login
BY BoundsAssumption DEF Boots, None, User, Login

(* Closing connections closes nothing else: those that stay open were open,  *)
(* and socat serves the same connection as before or none.                   *)
LEMMA ClosingShrinks ==
  ASSUME NEW C, CloseAll(C)
  PROVE  /\ open' \subseteq open
         /\ served' = served \/ served' = None
BY DEF CloseAll

(* __init__ makes a node of the right types. *)
LEMMA InitTypes == Init => TypeOK
<1>1. /\ 0 \in 0 .. MaxBoots
      /\ 0 \in 0 .. MaxSessions
      /\ Tries \in 1 .. Tries
  BY BoundsAssumption
<1> QED
  BY <1>1 DEF Init, TypeOK, Ended

(* The types of the attributes of the node, of each call of wait_booted      *)
(* (node_a8.py:93-114) and of the redirection: in particular socat, which    *)
(* serves one connection at a time, never listens while it serves one, and   *)
(* no call has used up its attempts while it still connects.                 *)
THEOREM Typing == Spec => []TypeOK
<1>1. Init => TypeOK
  BY InitTypes
<1>2. TypeOK /\ [Next]_vars => TypeOK'
  <2> SUFFICES ASSUME TypeOK, [Next]_vars PROVE TypeOK'
    OBVIOUS
  <2> USE BootsAreCalls DEF TypeOK, Ended
  <2>1. ASSUME NEW tty \in BOOLEAN, NEW debug \in BOOLEAN, setup(tty, debug)
        PROVE  TypeOK'
    <3>1. session' \in 0 .. MaxSessions
      BY <2>1, BoundsAssumption DEF setup
    <3>2. tty => boots + 1 \in Boots /\ boots + 1 \in 0 .. MaxBoots
      BY <2>1, BoundsAssumption DEF setup, Boots
    <3>3. CASE tty
      <4>1. /\ pc' = [pc EXCEPT ![boots + 1] = "connect"]
            /\ boots' = boots + 1
            /\ born' = [born EXCEPT ![boots + 1] = session']
            /\ overlap' \in {overlap, overlap \cup {boots + 1}}
        BY <2>1, <3>3 DEF setup, Start
      <4> QED
        BY <2>1, <3>1, <3>2, <3>3, <4>1 DEF setup
    <3>4. CASE ~tty
      BY <2>1, <3>1, <3>4 DEF setup, calls
    <3> QED
      BY <3>3, <3>4
  <2>2. CASE TeardownRedirection
    BY <2>2 DEF TeardownRedirection, calls
  <2>3. CASE TeardownClose
    BY <2>3 DEF TeardownClose, CloseAll, calls, Alive
  <2>4. ASSUME NEW t \in Boots, wait_booted(t) \/ ReadPrompt(t)
        PROVE  TypeOK'
    <3> USE DEF calls, line
    <3>1. CASE Connect(t)
      BY <3>1 DEF Connect
    <3>2. CASE Retry(t)
      <4>1. tries[t] - 1 \in 1 .. Tries
        BY <3>2, BoundsAssumption DEF Retry
      <4> QED
        BY <3>2, <4>1 DEF Retry
    <3>3. CASE ConnectRaises(t)
      BY <3>3 DEF ConnectRaises
    <3>4. CASE Assign(t)
      BY <3>4 DEF Assign, CloseAll
    <3>5. CASE CallExpect(t)
      BY <3>5 DEF CallExpect
    <3>6. CASE ReadRaises(t)
      BY <3>6 DEF ReadRaises
    <3>7. CASE Timeout(t)
      BY <3>7 DEF Timeout
    <3>8. CASE Finally(t)
      BY <3>8 DEF Finally, CloseAll
    <3>9. CASE ReadPrompt(t)
      BY <3>9 DEF ReadPrompt
    <3> QED
      BY <2>4, <3>1, <3>2, <3>3, <3>4, <3>5, <3>6, <3>7, <3>8, <3>9 DEF wait_booted
  <2>5. CASE BootWaited
    BY <2>5 DEF BootWaited, calls, line
  <2>6. CASE _get_ip_addr
    <3>1. CASE LoginConnect
      BY <3>1 DEF LoginConnect, calls
    <3>2. CASE LoginRaises
      BY <3>2 DEF LoginRaises, calls, line
    <3>3. CASE Address
      BY <3>3 DEF Address, calls
    <3> QED
      BY <2>6, <3>1, <3>2, <3>3 DEF _get_ip_addr
  <2>7. CASE Prompt
    BY <2>7 DEF Prompt, calls, line
  <2>8. CASE Redirection
    BY <2>8 DEF Redirection, SocatStarts, SocatExits, UserConnects, UserLeaves,
                Rest, calls
  <2>9. CASE UNCHANGED vars
    BY <2>9 DEF vars
  <2> QED
    BY <2>1, <2>2, <2>3, <2>4, <2>5, <2>6, <2>7, <2>8, <2>9 DEF Next, Finished
<1> QED
  BY <1>1, <1>2, PTL DEF Spec

-----------------------------------------------------------------------------
(* What the steps have in common. *)

(* The steps of the manager's thread, of socat and of its clients that touch *)
(* no call of wait_booted.                                                   *)
Quiet ==
  TeardownRedirection \/ BootWaited \/ _get_ip_addr \/ Prompt \/ Redirection

(* Such a step changes neither a call nor its connection; it neither begins  *)
(* nor ends a session; and it makes socat serve no call.                     *)
LEMMA QuietSteps ==
  ASSUME TypeOK, Quiet \/ UNCHANGED vars
  PROVE  /\ UNCHANGED <<session, open, expect, boots, pc, tries, target, match,
                        born, overlap, late, matched_in>>
         /\ main = "idle" <=> main' = "idle"
         /\ main = "closing" => main' = "closing"
         /\ served' \in {served, None, User, Login}
<1> USE DEF TypeOK, calls, line
<1>1. CASE TeardownRedirection
  BY <1>1 DEF TeardownRedirection
<1>2. CASE BootWaited
  BY <1>2 DEF BootWaited
<1>3. CASE LoginConnect
  BY <1>3 DEF LoginConnect
<1>4. CASE LoginRaises
  BY <1>4 DEF LoginRaises
<1>5. CASE Address
  BY <1>5 DEF Address
<1>6. CASE Prompt
  BY <1>6 DEF Prompt
<1>7. CASE Redirection
  BY <1>7 DEF Redirection, SocatStarts, SocatExits, UserConnects, UserLeaves, Rest
<1>8. CASE UNCHANGED vars
  BY <1>8 DEF vars
<1> QED
  BY <1>1, <1>2, <1>3, <1>4, <1>5, <1>6, <1>7, <1>8 DEF Quiet, _get_ip_addr

(* A step of the specification is a setup, the close of a teardown, a step   *)
(* of a call, or a quiet step.                                               *)
LEMMA StepKinds ==
  ASSUME [Next]_vars
  PROVE  \/ \E tty, debug \in BOOLEAN : setup(tty, debug)
         \/ TeardownClose
         \/ \E t \in Boots :
              \/ Connect(t) \/ Retry(t) \/ ConnectRaises(t) \/ Assign(t)
              \/ CallExpect(t) \/ ReadRaises(t) \/ Timeout(t) \/ ReadPrompt(t)
              \/ Finally(t)
         \/ Quiet \/ UNCHANGED vars
BY DEF Next, Finished, Quiet, wait_booted

(* setup starts at most one call, the next number, with the new session.     *)
LEMMA SetupStarts ==
  ASSUME NEW tty \in BOOLEAN, NEW debug \in BOOLEAN, TypeOK, setup(tty, debug)
  PROVE  /\ main = "idle" /\ main' \in {"boot", "up"}
         /\ session' = session + 1
         /\ UNCHANGED <<listening, served, open, expect, tries, target, match,
                        late, matched_in>>
         /\ \/ UNCHANGED <<boots, pc, born, overlap>>
            \/ /\ boots + 1 \in Boots
               /\ boots' = boots + 1
               /\ pc' = [pc EXCEPT ![boots + 1] = "connect"]
               /\ born' = [born EXCEPT ![boots + 1] = session']
               /\ overlap' = IF Alive # {} THEN overlap \cup {boots + 1} ELSE overlap
<1>1. tty => boots + 1 \in Boots
  BY BoundsAssumption DEF setup, Boots, TypeOK
<1>2. CASE tty
  BY <1>1, <1>2 DEF setup, Start
<1>3. CASE ~tty
  BY <1>3 DEF setup, calls
<1> QED
  BY <1>2, <1>3

-----------------------------------------------------------------------------
(* Every open connection has a holder. *)

(* The calls are numbered in the order they are made. *)
NumberInv == \A t \in Boots : pc[t] = "none" <=> t > boots

(* A call that still reads, or whose finally is yet to come, has a target. *)
TargetInv == \A t \in Boots : target[t] # None => pc[t] \in {"reading", "finally"}

(* An open connection is being constructed, is held by the attribute, or is  *)
(* read by a call.                                                           *)
HolderInv ==
  \A c \in open :
    \/ pc[c] = "connected"
    \/ c = expect
    \/ \E t \in Boots : target[t] = c

(* The attribute's connection stays open only while a call is left, whose    *)
(* finally will close what the attribute holds.                              *)
ExpectInv == expect \in open => Alive # {}

OpenInv == TypeOK /\ NumberInv /\ TargetInv /\ HolderInv /\ ExpectInv

(* The invariant is kept by setup, by teardown and by every step of the      *)
(* calls.                                                                    *)
LEMMA OpenInvariance == Spec => []OpenInv
<1>1. Init => OpenInv
  <2>1. Init => TargetInv /\ HolderInv /\ ExpectInv
    BY DEF Init, TargetInv, HolderInv, ExpectInv
  <2>2. Init => NumberInv
    BY BootsAreCalls DEF Init, NumberInv
  <2> QED
    BY <2>1, <2>2, InitTypes DEF OpenInv
<1>2. OpenInv /\ TypeOK' /\ [Next]_vars => OpenInv'
  <2> SUFFICES ASSUME OpenInv, TypeOK', [Next]_vars PROVE OpenInv'
    OBVIOUS
  <2> USE BootsAreCalls DEF OpenInv, TypeOK, NumberInv, TargetInv, HolderInv,
                            ExpectInv, Alive, Ended
  <2>1. ASSUME NEW tty \in BOOLEAN, NEW debug \in BOOLEAN, setup(tty, debug)
        PROVE  OpenInv'
    <3>1. CASE UNCHANGED <<boots, pc, born, overlap>>
      BY <2>1, <3>1, SetupStarts
    <3>2. CASE boots + 1 \in Boots /\ boots' = boots + 1
               /\ pc' = [pc EXCEPT ![boots + 1] = "connect"]
      <4>1. pc[boots + 1] = "none"
        BY <3>2
      <4>2. UNCHANGED <<open, expect, target>>
        BY <2>1, SetupStarts
      <4>3. NumberInv'
        BY <3>2
      <4>4. HolderInv' /\ TargetInv' /\ ExpectInv'
        BY <3>2, <4>1, <4>2
      <4> QED
        BY <4>3, <4>4
    <3> QED
      BY <2>1, <3>1, <3>2, SetupStarts
  <2>2. CASE TeardownClose
    BY <2>2, ClosingShrinks DEF TeardownClose, calls
  <2>3. ASSUME NEW t \in Boots,
               \/ Retry(t) \/ ConnectRaises(t)
               \/ ReadRaises(t) \/ Timeout(t) \/ ReadPrompt(t)
        PROVE  OpenInv'
    <3>1. /\ UNCHANGED <<boots, open, expect, target>>
          /\ pc' = pc \/ pc' = [pc EXCEPT ![t] = "finally"]
          /\ pc[t] \in {"connect", "reading"}
      BY <2>3 DEF Retry, ConnectRaises, ReadRaises, Timeout, ReadPrompt, calls, line
    <3>2. CASE pc' = pc
      BY <3>1, <3>2
    <3>3. CASE pc' = [pc EXCEPT ![t] = "finally"]
      BY <3>1, <3>3
    <3> QED
      BY <3>1, <3>2, <3>3
  <2>4. ASSUME NEW t \in Boots, Connect(t) PROVE OpenInv'
    BY <2>4 DEF Connect, calls
  <2>5. ASSUME NEW t \in Boots, Assign(t) PROVE OpenInv'
    <3>1. HolderInv'
      BY <2>5 DEF Assign, CloseAll, Dropped, calls
    <3>2. NumberInv' /\ TargetInv' /\ ExpectInv'
      BY <2>5 DEF Assign, calls
    <3> QED
      BY <3>1, <3>2
  <2>6. ASSUME NEW t \in Boots, CallExpect(t) PROVE OpenInv'
    BY <2>6 DEF CallExpect, calls, line
  <2>7. ASSUME NEW t \in Boots, Finally(t) PROVE OpenInv'
    <3>1. HolderInv'
      BY <2>7 DEF Finally, CloseAll, Dropped, calls
    <3>2. NumberInv' /\ TargetInv' /\ ExpectInv'
      BY <2>7 DEF Finally, CloseAll, calls
    <3> QED
      BY <3>1, <3>2
  <2>8. CASE Quiet \/ UNCHANGED vars
    BY <2>8, QuietSteps
  <2> QED
    BY <2>1, <2>2, <2>3, <2>4, <2>5, <2>6, <2>7, <2>8, StepKinds
<1> QED
  BY <1>1, <1>2, Typing, PTL DEF Spec

(* When every call of wait_booted has ended no connection of theirs is left  *)
(* open to lock users out of the port, although finally (node_a8.py:106-108) *)
(* closes what the attribute holds and not the call's own connection.        *)
THEOREM PortIsFreed == Spec => []NoConnectionLeft
<1>1. OpenInv => NoConnectionLeft
  <2> SUFFICES ASSUME OpenInv, Alive = {}, NEW c \in open
               PROVE  FALSE
    BY DEF NoConnectionLeft
  <2>1. \A t \in Boots : pc[t] \in {"none", "done"}
    BY DEF OpenInv, TypeOK, Alive, Ended
  <2>2. c \in Boots /\ c # None
    BY BootsAreCalls DEF OpenInv, TypeOK
  <2>3. c # expect
    BY DEF OpenInv, ExpectInv
  <2> QED
    BY <2>1, <2>2, <2>3 DEF OpenInv, TargetInv, HolderInv
<1> QED
  BY <1>1, OpenInvariance, PTL

-----------------------------------------------------------------------------
(* A call that starts alone stays alone. *)

(* Calls belong to sessions that have begun, overlaps to calls made. *)
BornInv ==
  /\ \A t \in Boots : born[t] =< session
  /\ \A t \in overlap : t =< boots

(* The call of the current session that found no older call running. *)
Sole(t) == t \in Alive /\ t \notin overlap /\ born[t] = session

(* No other call is left, because only setup makes calls and it begins a     *)
(* session.                                                                  *)
SoleInv == \A t \in Boots : Sole(t) => Alive = {t}

(* So nobody else assigns the attribute or closes what it holds. *)
WatchInv ==
  \A t \in Boots :
    Sole(t) /\ main # "idle" =>
      /\ pc[t] \in {"connected", "assigned", "reading"} /\ main # "closing"
           => t \in open
      /\ pc[t] \in {"assigned", "reading"} => expect = t
      /\ pc[t] = "reading" => target[t] = t

AloneInv == TypeOK /\ NumberInv /\ BornInv /\ SoleInv /\ WatchInv

(* The invariant is kept: setup begins a session, so that no earlier call is *)
(* of the current one, and every other step that counts is the call's own.   *)
LEMMA AloneInvariance == Spec => []AloneInv
<1>1. Init => AloneInv
  <2> SUFFICES ASSUME Init PROVE AloneInv
    OBVIOUS
  <2>1. NumberInv /\ BornInv
    BY BootsAreCalls DEF Init, NumberInv, BornInv
  <2>2. Alive = {}
    BY DEF Init, Alive, Ended
  <2> QED
    BY <2>1, <2>2, InitTypes DEF AloneInv, SoleInv, WatchInv, Sole
<1>2. AloneInv /\ TypeOK' /\ NumberInv' /\ [Next]_vars => AloneInv'
  <2> SUFFICES ASSUME AloneInv, TypeOK', NumberInv', [Next]_vars PROVE AloneInv'
    OBVIOUS
  <2> USE BootsAreCalls DEF AloneInv, TypeOK
  <2>1. ASSUME NEW tty \in BOOLEAN, NEW debug \in BOOLEAN, setup(tty, debug)
        PROVE  AloneInv'
    <3>0. \A u \in Boots : born[u] < session'
      BY <2>1, SetupStarts DEF BornInv
    <3>1. CASE UNCHANGED <<boots, pc, born, overlap>>
      <4>1. \A u \in Boots : ~Sole(u)'
        BY <3>0, <3>1 DEF Sole
      <4>2. BornInv'
        BY <3>0, <3>1 DEF BornInv
      <4> QED
        BY <4>1, <4>2 DEF SoleInv, WatchInv
    <3>2. CASE /\ boots + 1 \in Boots
               /\ boots' = boots + 1
               /\ pc' = [pc EXCEPT ![boots + 1] = "connect"]
               /\ born' = [born EXCEPT ![boots + 1] = session']
               /\ overlap' = IF Alive # {} THEN overlap \cup {boots + 1} ELSE overlap
      <4>1. \A u \in Boots : Sole(u)' => u = boots + 1
        BY <3>0, <3>2 DEF Sole
      <4>2. BornInv'
        <5>1. session' \in Nat /\ boots \in Nat
          BY <3>0, BoundsAssumption
        <5>2. ASSUME NEW u \in Boots PROVE born'[u] =< session'
          <6>1. born'[u] = session' \/ born'[u] = born[u]
            BY <3>2
          <6>2. born[u] \in Nat /\ born[u] < session'
            BY <3>0, BoundsAssumption
          <6> QED
            BY <5>1, <6>1, <6>2
        <5>3. \A u \in overlap' : u = boots + 1 \/ u \in overlap
          BY <3>2
        <5>4. \A u \in overlap : u \in Nat /\ u =< boots
          BY DEF BornInv
        <5>5. \A u \in overlap' : u =< boots'
          BY <3>2, <5>1, <5>3, <5>4
        <5> QED
          BY <5>2, <5>5 DEF BornInv
      <4>3. Alive' = Alive \cup {boots + 1}
        BY <3>2 DEF Alive, Ended, NumberInv
      <4>4. \A u \in Boots : Sole(u)' => Alive = {}
        BY <3>2, <4>1 DEF Sole
      <4>5. pc'[boots + 1] = "connect"
        BY <3>2
      <4>6. SoleInv'
        BY <4>1, <4>3, <4>4 DEF SoleInv
      <4>7. WatchInv'
        BY <4>1, <4>5 DEF WatchInv
      <4> QED
        BY <4>2, <4>6, <4>7
    <3> QED
      BY <2>1, <3>1, <3>2, SetupStarts
  <2>2. CASE TeardownClose
    <3>1. UNCHANGED <<session, boots, pc, born, overlap>> /\ main' = "idle"
      BY <2>2 DEF TeardownClose, calls
    <3> QED
      BY <3>1 DEF BornInv, SoleInv, WatchInv, Sole, Alive
  <2>3. CASE Quiet \/ UNCHANGED vars
    <3>1. /\ UNCHANGED <<session, boots, pc, born, overlap, open, expect, target>>
          /\ main' # "idle" => main # "idle"
          /\ main' # "closing" => main # "closing"
      BY <2>3, QuietSteps
    <3> QED
      BY <3>1 DEF BornInv, SoleInv, WatchInv, Sole, Alive
  <2>4. ASSUME NEW t \in Boots,
               \/ Connect(t) \/ Retry(t) \/ ConnectRaises(t) \/ Assign(t)
               \/ CallExpect(t) \/ ReadRaises(t) \/ Timeout(t) \/ ReadPrompt(t)
               \/ Finally(t)
        PROVE  AloneInv'
    <3>1. /\ UNCHANGED <<main, session, boots, born, overlap>>
          /\ pc' = [pc EXCEPT ![t] = pc'[t]]
          /\ t \in Alive
      BY <2>4 DEF Connect, Retry, ConnectRaises, Assign, CallExpect, ReadRaises,
                  Timeout, ReadPrompt, Finally, calls, Alive, Ended
    <3>2. Alive' \subseteq Alive
      BY <3>1 DEF Alive
    <3>3. \A u \in Boots : Sole(u)' => Sole(u) /\ u = t
      BY <3>1, <3>2 DEF Sole, SoleInv
    <3>4. BornInv' /\ SoleInv'
      <4>1. BornInv'
        BY <3>1 DEF BornInv
      <4>2. ASSUME Sole(t)' PROVE Alive' = {t}
        <5>1. Alive = {t}
          BY <3>3, <4>2 DEF SoleInv
        <5>2. t \in Alive'
          BY <4>2 DEF Sole
        <5> QED
          BY <3>2, <5>1, <5>2
      <4> QED
        BY <3>3, <4>1, <4>2 DEF SoleInv
    <3>5. ASSUME Sole(t)', Sole(t), main # "idle"
          PROVE  /\ pc'[t] \in {"connected", "assigned", "reading"}
                      /\ main # "closing" => t \in open'
                 /\ pc'[t] \in {"assigned", "reading"} => expect' = t
                 /\ pc'[t] = "reading" => target'[t] = t
      <4> USE <3>5 DEF WatchInv, calls, line
      <4>1. CASE Connect(t)
        BY <4>1 DEF Connect
      <4>2. CASE Retry(t)
        BY <4>2 DEF Retry
      <4>3. CASE Assign(t)
        BY <4>3 DEF Assign, CloseAll
      <4>4. CASE CallExpect(t)
        BY <4>4 DEF CallExpect
      <4>5. CASE ConnectRaises(t) \/ ReadRaises(t) \/ Timeout(t) \/ ReadPrompt(t)
        BY <4>5 DEF ConnectRaises, ReadRaises, Timeout, ReadPrompt
      <4>6. CASE Finally(t)
        BY <4>6 DEF Finally
      <4> QED
        BY <2>4, <4>1, <4>2, <4>3, <4>4, <4>5, <4>6
    <3>6. WatchInv'
      BY <3>1, <3>3, <3>5 DEF WatchInv
    <3> QED
      BY <3>4, <3>6
  <2> QED
    BY <2>1, <2>2, <2>3, <2>4, StepKinds
<1>3. OpenInv => TypeOK /\ NumberInv
  BY DEF OpenInv
<1> QED
  BY <1>1, <1>2, <1>3, OpenInvariance, PTL DEF Spec

(* A boot is watched undisturbed until its teardown unless an older call was *)
(* still running when it started: expect reads the call's own, open          *)
(* connection, although it reads the attribute again (node_a8.py:91-99).     *)
THEOREM WatchUndisturbed == Spec => []WatchedAlone
<1>1. AloneInv => WatchedAlone
  BY DEF AloneInv, TypeOK, WatchInv, WatchedAlone, Sole, Alive, Ended
<1> QED
  BY <1>1, AloneInvariance, PTL

-----------------------------------------------------------------------------
(* No connection outlives its socat. *)

(* Between sessions there is no socat. *)
DownInv == main \in {"idle", "closing"} => ~running /\ ~listening /\ served = None

(* A connection that is held or read has been made, so it is not one that a  *)
(* call is about to make.                                                    *)
MadeInv ==
  /\ \A t \in Boots : pc[t] = "none" => ~match[t]
  /\ expect # None => pc[expect] \notin {"none", "connect"}
  /\ \A t \in Boots :
       /\ pc[t] = "assigned" => expect # None
       /\ pc[t] = "reading" => target[t] # None
       /\ target[t] # None => pc[target[t]] \notin {"none", "connect"}

(* The session in which call t was made has been torn down. *)
Past(t) == born[t] # session \/ main = "idle"

(* A call that had not begun to read at its teardown is late. *)
LateInv ==
  \A t \in Boots :
    pc[t] \in {"connect", "connected", "assigned"} /\ Past(t) => t \in late

(* One that had, reads a connection that socat does not serve. *)
DeadInv ==
  \A t \in Boots :
    pc[t] = "reading" /\ Past(t) /\ t \notin late => served # target[t]

ServedInv ==
  /\ TypeOK /\ NumberInv
  /\ DownInv /\ MadeInv /\ LateInv /\ DeadInv /\ ForeignBootOnlyLate

(* The invariant is kept by every step, in particular by Connect, after      *)
(* which socat serves a connection that no call reads yet.                   *)
LEMMA ServedInvariance == Spec => []ServedInv
<1>1. Init => ServedInv
  <2> SUFFICES ASSUME Init PROVE ServedInv
    OBVIOUS
  <2>1. NumberInv
    BY BootsAreCalls DEF Init, NumberInv
  <2> QED
    BY <2>1, InitTypes DEF Init, ServedInv, DownInv, MadeInv, LateInv, DeadInv,
                           ForeignBootOnlyLate
<1>2. ServedInv /\ TypeOK' /\ NumberInv' /\ [Next]_vars => ServedInv'
  <2> SUFFICES ASSUME ServedInv, TypeOK', NumberInv', [Next]_vars PROVE ServedInv'
    OBVIOUS
  <2> USE BootsAreCalls DEF ServedInv, TypeOK
  <2>1. ASSUME NEW tty \in BOOLEAN, NEW debug \in BOOLEAN, setup(tty, debug)
        PROVE  ServedInv'
    <3>1. /\ main = "idle" /\ main' \in {"boot", "up"} /\ served' = None
          /\ UNCHANGED <<expect, target, match, late, matched_in>>
      BY <2>1, SetupStarts DEF DownInv
    <3>2. DownInv'
      BY <3>1 DEF DownInv
    <3>3. CASE UNCHANGED <<boots, pc, born, overlap>>
      BY <3>1, <3>2, <3>3 DEF MadeInv, LateInv, DeadInv, Past, ForeignBootOnlyLate
    <3>4. CASE /\ boots + 1 \in Boots
               /\ pc' = [pc EXCEPT ![boots + 1] = "connect"]
               /\ born' = [born EXCEPT ![boots + 1] = session']
      <4>1. pc[boots + 1] = "none"
        BY <3>4 DEF NumberInv
      <4>2. MadeInv'
        BY <3>1, <3>4, <4>1 DEF MadeInv
      <4>3. LateInv'
        BY <3>1, <3>4, <4>1 DEF LateInv, Past
      <4>4. DeadInv'
        BY <3>1, <3>4, <4>1 DEF DeadInv, MadeInv
      <4>5. ForeignBootOnlyLate'
        BY <3>1, <3>4, <4>1 DEF ForeignBootOnlyLate, MadeInv
      <4> QED
        BY <3>2, <4>2, <4>3, <4>4, <4>5
    <3> QED
      BY <2>1, <3>3, <3>4, SetupStarts
  <2>2. CASE TeardownClose
    <3>1. /\ main = "closing" /\ main' = "idle"
          /\ UNCHANGED <<session, running, listening, expect, pc, target, match,
                         matched_in, born>>
          /\ late' = late \cup {t \in Alive : pc[t] \in {"connect", "connected",
                                                        "assigned"}}
      BY <2>2 DEF TeardownClose, calls
    <3>2. served' = None
      BY <2>2, <3>1, ClosingShrinks DEF TeardownClose, DownInv
    <3>3. LateInv'
      BY <3>1 DEF LateInv, Alive, Ended
    <3> QED
      BY <3>1, <3>2, <3>3 DEF DownInv, MadeInv, DeadInv, ForeignBootOnlyLate
  <2>3. CASE Quiet \/ UNCHANGED vars
    <3>1. /\ UNCHANGED <<session, expect, pc, target, match, late, matched_in, born>>
          /\ main = "idle" <=> main' = "idle"
          /\ served' \in {served, None, User, Login}
      BY <2>3, QuietSteps
    <3>2. DownInv'
      BY <2>3 DEF Quiet, TeardownRedirection, BootWaited, _get_ip_addr, LoginConnect,
         LoginRaises, Address, Prompt, Redirection, SocatStarts, SocatExits,
         UserConnects, UserLeaves, Rest, vars, line, DownInv
    <3>3. DeadInv'
      BY <3>1 DEF DeadInv, Past, MadeInv
    <3> QED
      BY <3>1, <3>2, <3>3 DEF MadeInv, LateInv, Past, ForeignBootOnlyLate
  <2>4. ASSUME NEW t \in Boots, Connect(t) PROVE ServedInv'
    <3>1. /\ UNCHANGED <<main, session, running, expect, target, match, late,
                         matched_in, born>>
          /\ pc[t] = "connect" /\ pc' = [pc EXCEPT ![t] = "connected"]
          /\ listening /\ served' = t
      BY <2>4 DEF Connect, calls
    <3>2. \A u \in Boots : target[u] # t
      BY <3>1 DEF MadeInv
    <3>3. DeadInv' /\ DownInv'
      BY <3>1, <3>2 DEF DeadInv, DownInv
    <3> QED
      BY <3>1, <3>3 DEF MadeInv, LateInv, Past, ForeignBootOnlyLate
  <2>5. ASSUME NEW t \in Boots, Assign(t) PROVE ServedInv'
    <3>1. /\ UNCHANGED <<main, session, running, listening, target, match, late,
                         matched_in, born>>
          /\ pc[t] = "connected" /\ pc' = [pc EXCEPT ![t] = "assigned"]
          /\ expect' = t /\ served' \in {served, None}
      BY <2>5, ClosingShrinks DEF Assign, calls
    <3> QED
      BY <3>1 DEF DownInv, MadeInv, LateInv, DeadInv, Past, ForeignBootOnlyLate
  <2>6. ASSUME NEW t \in Boots, CallExpect(t) PROVE ServedInv'
    <3>1. /\ UNCHANGED <<main, session, running, listening, served, expect, match,
                         late, matched_in, born>>
          /\ pc[t] = "assigned" /\ pc' = [pc EXCEPT ![t] = "reading"]
          /\ target' = [target EXCEPT ![t] = expect]
      BY <2>6 DEF CallExpect, calls, line
    <3>2. MadeInv'
      BY <3>1 DEF MadeInv
    <3> QED
      BY <3>1, <3>2 DEF DownInv, LateInv, DeadInv, Past, ForeignBootOnlyLate
  <2>7. ASSUME NEW t \in Boots, ReadPrompt(t) PROVE ServedInv'
    <3>1. /\ UNCHANGED <<main, session, running, listening, served, expect, target,
                         late, born>>
          /\ pc[t] = "reading" /\ pc' = [pc EXCEPT ![t] = "finally"]
          /\ match' = [match EXCEPT ![t] = TRUE]
          /\ matched_in' = [matched_in EXCEPT ![t] = session]
          /\ served = target[t]
      BY <2>7 DEF ReadPrompt, Connected, calls, line
    <3>2. born[t] # session => t \in late
      BY <3>1 DEF DeadInv, Past
    <3>3. ForeignBootOnlyLate'
      BY <3>1, <3>2 DEF ForeignBootOnlyLate
    <3> QED
      BY <3>1, <3>3 DEF DownInv, MadeInv, LateInv, DeadInv, Past
  <2>8. ASSUME NEW t \in Boots,
               Retry(t) \/ ConnectRaises(t) \/ ReadRaises(t) \/ Timeout(t)
        PROVE  ServedInv'
    <3>1. /\ UNCHANGED <<main, session, running, listening, served, expect, target,
                         match, late, matched_in, born>>
          /\ pc[t] \in {"connect", "reading"}
          /\ pc' = pc \/ pc' = [pc EXCEPT ![t] = "finally"]
      BY <2>8 DEF Retry, ConnectRaises, ReadRaises, Timeout, calls, line
    <3>2. CASE pc' = pc
      BY <3>1, <3>2 DEF DownInv, MadeInv, LateInv, DeadInv, Past, ForeignBootOnlyLate
    <3>3. CASE pc' = [pc EXCEPT ![t] = "finally"]
      <4>1. MadeInv'
        BY <3>1, <3>3 DEF MadeInv
      <4> QED
        BY <3>1, <3>3, <4>1 DEF DownInv, LateInv, DeadInv, Past, ForeignBootOnlyLate
    <3> QED
      BY <3>1, <3>2, <3>3
  <2>9. ASSUME NEW t \in Boots, Finally(t) PROVE ServedInv'
    <3>1. /\ UNCHANGED <<main, session, running, listening, expect, match, late,
                         matched_in, born>>
          /\ pc[t] = "finally" /\ pc' = [pc EXCEPT ![t] = "done"]
          /\ target' = [target EXCEPT ![t] = None]
          /\ served' \in {served, None}
      BY <2>9, ClosingShrinks DEF Finally, calls
    <3> QED
      BY <3>1 DEF DownInv, MadeInv, LateInv, DeadInv, Past, ForeignBootOnlyLate
  <2> QED
    BY <2>1, <2>2, <2>3, <2>4, <2>5, <2>6, <2>7, <2>8, <2>9, StepKinds
<1>3. OpenInv => TypeOK /\ NumberInv
  BY DEF OpenInv
<1> QED
  BY <1>1, <1>2, <1>3, OpenInvariance, PTL DEF Spec

(* A call reports the boot of a later experiment as its own only if it had   *)
(* not begun to read when its teardown closed the connection (the window     *)
(* between node_a8.py:91 and 99).                                            *)
THEOREM ForeignBootsAreLate == Spec => []ForeignBootOnlyLate
<1>1. ServedInv => ForeignBootOnlyLate
  BY DEF ServedInv
<1> QED
  BY <1>1, ServedInvariance, PTL
=============================================================================
