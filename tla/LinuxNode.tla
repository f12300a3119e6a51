----------------------------- MODULE LinuxNode ------------------------------
(***************************************************************************)
(* The open nodes that run Linux (A8 and Raspberry Pi 3; their classes are *)
(* the same but for the name of the attribute, _a8_expect or _rpi3_expect, *)
(* here expect).  setup starts a daemon thread that watches the serial     *)
(* line for the login prompt through the redirection's TCP port, and       *)
(* nobody joins it: teardown only closes the connection that expect holds. *)
(* socat serves one connection at a time and exits with it; the            *)
(* redirection thread then starts it again.                                *)
(*                                                                         *)
(* The auto tests wait for the boot in the calling thread, then log in     *)
(* over the same port.  setup and teardown run under the manager's lock.   *)
(***************************************************************************)
EXTENDS Integers, FiniteSets

CONSTANTS
  MaxBoots,    \* bound on the calls of wait_booted
  MaxSessions, \* bound on the calls of setup
  Tries        \* connection attempts before try_connect raises (10)

ASSUME BoundsAssumption ==
  MaxBoots \in Nat /\ MaxSessions \in Nat /\ Tries \in Nat \ {0}

Boots == 1 .. MaxBoots

(* A connection is named by the call of wait_booted that opened it. *)
None == 0
User == -1     \* the experiment's user, or another client of the port
Login == -2    \* OpenLinuxConnection of the auto tests

VARIABLES
  main,        \* what the thread with the manager's lock does
  session,     \* number of calls of setup
  running,     \* the redirection has been started and not stopped
  listening,   \* socat waits for a connection
  served,      \* the connection socat serves
  open,        \* boot connections whose descriptor is not closed
  expect,      \* self._a8_expect: the connection it holds
  boots,       \* calls of wait_booted made so far
  pc,          \* where each of them is
  tries,       \* attempts each has left
  target,      \* the connection each one reads
  match,       \* whether it found the prompt
  born,        \* ghost: the session that made the call
  overlap,     \* ghost: calls made while an older one was still running
  late,        \* ghost: calls that did not read yet when teardown closed
  matched_in   \* ghost: the session in which the prompt was found

line == <<running, listening, served>>
calls == <<boots, born, overlap>>
vars == <<main, session, running, listening, served, open, expect, boots,
          pc, tries, target, match, born, overlap, late, matched_in>>

Ended == {"none", "done"}
Alive == {t \in Boots : pc[t] \notin Ended}

Init ==
  /\ main = "idle" /\ session = 0
  /\ running = FALSE /\ listening = FALSE /\ served = None
  /\ open = {} /\ expect = None
  /\ boots = 0
  /\ pc = [t \in Boots |-> "none"]
  /\ tries = [t \in Boots |-> Tries]
  /\ target = [t \in Boots |-> None]
  /\ match = [t \in Boots |-> FALSE]
  /\ born = [t \in Boots |-> 0]
  /\ overlap = {} /\ late = {}
  /\ matched_in = [t \in Boots |-> 0]

-----------------------------------------------------------------------------
(* Closing descriptors.  socat exits when its client closes. *)

CloseAll(C) ==
  /\ open' = open \ C
  /\ served' = IF served \in C THEN None ELSE served

(* Connections that no attribute, frame or constructor refers to any more:   *)
(* the interpreter closes them with their object.                            *)
Dropped(e, tg) ==
  {c \in open : c # e /\ pc[c] # "connected" /\ \A t \in Boots : tg[t] # c}

-----------------------------------------------------------------------------
(* wait_booted, by call t. *)

Start(t) ==
  /\ pc' = [pc EXCEPT ![t] = "connect"]
  /\ boots' = t
  /\ born' = [born EXCEPT ![t] = session']
  /\ overlap' = IF Alive # {} THEN overlap \cup {t} ELSE overlap

Connect(t) ==
  /\ pc[t] = "connect" /\ listening
  /\ listening' = FALSE /\ served' = t
  /\ open' = open \cup {t}
  /\ pc' = [pc EXCEPT ![t] = "connected"]
  /\ UNCHANGED <<main, session, running, expect, tries, target, match, late,
                 matched_in, calls>>

Retry(t) ==
  /\ pc[t] = "connect" /\ ~listening /\ tries[t] > 1
  /\ tries' = [tries EXCEPT ![t] = @ - 1]
  /\ UNCHANGED <<main, session, line, open, expect, pc, target, match, late,
                 matched_in, calls>>

(* The last attempt raises and wait_booted goes on with its finally. *)
ConnectRaises(t) ==
  /\ pc[t] = "connect" /\ ~listening /\ tries[t] = 1
  /\ pc' = [pc EXCEPT ![t] = "finally"]
  /\ UNCHANGED <<main, session, line, open, expect, tries, target, match,
                 late, matched_in, calls>>

(* Mutant: an expect object is only kept when there is none yet. *)
AssignOnce(t) ==
  /\ pc[t] = "connected"
  /\ pc' = [pc EXCEPT ![t] = "assigned"]
  /\ expect' = IF expect = None THEN t ELSE expect
  /\ CloseAll(Dropped(expect', target) \ {t})
  /\ UNCHANGED <<main, session, running, listening, tries, target, match,
                 late, matched_in, calls>>

(* The attribute is assigned, and read again to call expect: another call    *)
(* may assign it in between.                                                 *)
Assign(t) ==
  /\ pc[t] = "connected"
  /\ pc' = [pc EXCEPT ![t] = "assigned"]
  /\ expect' = t
  /\ CloseAll(Dropped(t, target) \ {t})
  /\ UNCHANGED <<main, session, running, listening, tries, target, match,
                 late, matched_in, calls>>

CallExpect(t) ==
  /\ pc[t] = "assigned"
  /\ pc' = [pc EXCEPT ![t] = "reading"]
  /\ target' = [target EXCEPT ![t] = expect]
  /\ UNCHANGED <<main, session, line, open, expect, tries, match, late,
                 matched_in, calls>>

(* expect's loop: the prompt, an error of read, or the end of the timeout,   *)
(* which is looked at whether data came or not.                              *)
Connected(t) == target[t] \in open /\ served = target[t]

ReadPrompt(t) ==
  /\ pc[t] = "reading" /\ Connected(t)
  /\ pc' = [pc EXCEPT ![t] = "finally"]
  /\ match' = [match EXCEPT ![t] = TRUE]
  /\ matched_in' = [matched_in EXCEPT ![t] = session]
  /\ UNCHANGED <<main, session, line, open, expect, tries, target, late,
                 calls>>

(* Mutant: expect connects again instead of returning. *)
ReadReconnects(t) ==
  /\ pc[t] = "reading" /\ ~Connected(t)
  /\ pc' = [pc EXCEPT ![t] = "connect"]
  /\ UNCHANGED <<main, session, line, open, expect, tries, target, match,
                 late, matched_in, calls>>

ReadRaises(t) ==
  /\ pc[t] = "reading" /\ ~Connected(t)
  /\ pc' = [pc EXCEPT ![t] = "finally"]
  /\ UNCHANGED <<main, session, line, open, expect, tries, target, match,
                 late, matched_in, calls>>

(* Mutant: the time is looked at only after a read error. *)
TimeoutAfterData(t) ==
  /\ pc[t] = "reading" /\ ~Connected(t)
  /\ pc' = [pc EXCEPT ![t] = "finally"]
  /\ UNCHANGED <<main, session, line, open, expect, tries, target, match,
                 late, matched_in, calls>>

Timeout(t) ==
  /\ pc[t] = "reading"
  /\ pc' = [pc EXCEPT ![t] = "finally"]
  /\ UNCHANGED <<main, session, line, open, expect, tries, target, match,
                 late, matched_in, calls>>

(* Mutant: the connection is closed only when the prompt was not found. *)
FinallyOnError(t) ==
  /\ pc[t] = "finally"
  /\ pc' = [pc EXCEPT ![t] = "done"]
  /\ target' = [target EXCEPT ![t] = None]
  /\ CloseAll((IF match[t] THEN {} ELSE {expect}) \cup Dropped(expect, target'))
  /\ UNCHANGED <<main, session, running, listening, expect, tries, match,
                 late, matched_in, calls>>

(* finally calls _debug_boot_stop: it closes what the attribute holds now.   *)
Finally(t) ==
  /\ pc[t] = "finally"
  /\ pc' = [pc EXCEPT ![t] = "done"]
  /\ target' = [target EXCEPT ![t] = None]
  /\ CloseAll({expect} \cup Dropped(expect, target'))
  /\ UNCHANGED <<main, session, running, listening, expect, tries, match,
                 late, matched_in, calls>>

-----------------------------------------------------------------------------
(* setup and teardown. *)

(* Without the tty setup fails, but the redirection is started.              *)
setup(tty, debug) ==
  /\ main = "idle" /\ session < MaxSessions
  /\ tty => boots < MaxBoots
  /\ session' = session + 1
  /\ running' = TRUE
  /\ main' = IF tty /\ ~debug THEN "boot" ELSE "up"
  /\ IF tty THEN Start(boots + 1) ELSE UNCHANGED <<pc, calls>>
  /\ UNCHANGED <<listening, served, open, expect, tries, target, match, late,
                 matched_in>>

(* Mutant: the process is killed but the loop's flag is left set. *)
TeardownKeepsLoop ==
  /\ main = "up"
  /\ main' = "closing"
  /\ listening' = TRUE /\ UNCHANGED <<running, served>>
  /\ UNCHANGED <<session, open, expect, pc, tries, target, match, late,
                 matched_in, calls>>

(* serial_redirection.stop ends socat. *)
TeardownRedirection ==
  /\ main = "up"
  /\ main' = "closing"
  /\ running' = FALSE /\ listening' = FALSE /\ served' = None
  /\ UNCHANGED <<session, open, expect, pc, tries, target, match, late,
                 matched_in, calls>>

(* _debug_boot_stop, in teardown. *)
TeardownClose ==
  /\ main = "closing"
  /\ main' = "idle"
  /\ CloseAll({expect})
  /\ late' = late \cup {t \in Alive : pc[t] \in {"connect", "connected",
                                                 "assigned"}}
  /\ UNCHANGED <<session, running, listening, expect, pc, tries, target,
                 match, matched_in, calls>>

-----------------------------------------------------------------------------
(* _setup_linux_open_node, after setup without the thread. *)

(* wait_booted returned; no match is an error and teardown comes next. *)
BootWaited ==
  /\ main = "boot" /\ pc[boots] = "done"
  /\ main' = IF match[boots] THEN "login" ELSE "up"
  /\ UNCHANGED <<session, line, open, expect, pc, tries, target, match, late,
                 matched_in, calls>>

(* _get_ip_addr connects, or raises after its attempts. *)
LoginConnect ==
  /\ main = "login" /\ listening
  /\ main' = "prompt"
  /\ listening' = FALSE /\ served' = Login
  /\ UNCHANGED <<session, running, open, expect, pc, tries, target, match,
                 late, matched_in, calls>>

LoginRaises ==
  /\ main = "login" /\ ~listening
  /\ main' = "up"
  /\ UNCHANGED <<session, line, open, expect, pc, tries, target, match, late,
                 matched_in, calls>>

(* expect('# ') has no timeout; a lost connection ends it too. *)
Prompt ==
  /\ main = "prompt"
  /\ main' = "address"
  /\ UNCHANGED <<session, line, open, expect, pc, tries, target, match, late,
                 matched_in, calls>>

(* The address arrives or its ten seconds pass: the connection is closed.    *)
Address ==
  /\ main = "address"
  /\ main' = "up"
  /\ served' = IF served = Login THEN None ELSE served
  /\ UNCHANGED <<session, running, listening, open, expect, pc, tries, target,
                 match, late, matched_in, calls>>

-----------------------------------------------------------------------------
(* The redirection thread and the clients of the port. *)

Rest == <<main, session, running, open, expect, pc, tries, target, match,
          late, matched_in, calls>>

SocatStarts ==
  /\ running /\ ~listening /\ served = None
  /\ listening' = TRUE
  /\ UNCHANGED <<served, Rest>>

(* The tty has an error or disappears, or cannot be opened. *)
SocatExits ==
  /\ listening \/ served # None
  /\ listening' = FALSE /\ served' = None
  /\ UNCHANGED Rest

UserConnects ==
  /\ listening
  /\ listening' = FALSE /\ served' = User
  /\ UNCHANGED Rest

UserLeaves ==
  /\ served = User
  /\ served' = None
  /\ UNCHANGED <<listening, Rest>>

-----------------------------------------------------------------------------
(* What a call does by itself; the prompt is up to the board. *)
wait_booted(t) ==
  \/ Connect(t) \/ Retry(t) \/ ConnectRaises(t) \/ Assign(t) \/ CallExpect(t)
  \/ ReadRaises(t) \/ Timeout(t) \/ Finally(t)

_get_ip_addr == LoginConnect \/ LoginRaises \/ Address

Redirection == SocatStarts \/ SocatExits \/ UserConnects \/ UserLeaves

(* The bound on the calls of setup is reached. *)
Finished == main = "idle" /\ session = MaxSessions /\ UNCHANGED vars

Next ==
  \/ \E tty, debug \in BOOLEAN : setup(tty, debug)
  \/ TeardownRedirection
  \/ TeardownClose
  \/ \E t \in Boots : wait_booted(t) \/ ReadPrompt(t)
  \/ BootWaited
  \/ _get_ip_addr
  \/ Prompt
  \/ Redirection
  \/ Finished

(* Threads are scheduled, and every wait of theirs has a timeout but the     *)
(* wait for a shell prompt; nothing makes the board or a client act.         *)
Spec ==
  /\ Init /\ [][Next]_vars
  /\ \A t \in Boots : WF_vars(wait_booted(t))
  /\ WF_vars(BootWaited) /\ WF_vars(_get_ip_addr)

-----------------------------------------------------------------------------
(* Properties. *)

TypeOK ==
  /\ main \in {"idle", "up", "closing", "boot", "login", "prompt", "address"}
  /\ session \in 0 .. MaxSessions
  /\ running \in BOOLEAN /\ listening \in BOOLEAN
  /\ served \in Boots \cup {None, User, Login}
  /\ open \subseteq Boots /\ expect \in Boots \cup {None}
  /\ boots \in 0 .. MaxBoots
  /\ pc \in [Boots -> Ended \cup {"connect", "connected", "assigned",
                                  "reading", "finally"}]
  /\ tries \in [Boots -> 1 .. Tries]
  /\ target \in [Boots -> Boots \cup {None}]
  /\ match \in [Boots -> BOOLEAN]
  /\ born \in [Boots -> 0 .. MaxSessions]
  /\ overlap \subseteq Boots /\ late \subseteq Boots
  /\ matched_in \in [Boots -> 0 .. MaxSessions]
  /\ ~(listening /\ served # None)

(* The port takes one client, so a connection left open would lock users     *)
(* out: once every call of wait_booted has ended, none of their connections  *)
(* is open, whichever call closed which (node_a8.py:106-108 closes what the  *)
(* shared attribute holds, not the call's own connection).                   *)
NoConnectionLeft == Alive = {} => open = {}

(* A boot is watched undisturbed until its teardown unless an older call was *)
(* still running when it started: only the finally of an older call          *)
(* (node_a8.py:108) takes the connection of a newer one away.                *)
WatchedAlone ==
  \A t \in Boots :
    pc[t] = "reading" /\ t \notin overlap
    /\ born[t] = session /\ main # "idle"
      => /\ target[t] = t /\ expect = t
         /\ main # "closing" => t \in open

(* A call reports the boot of a later experiment as its own only if it had   *)
(* not begun to read when its teardown closed the connection: the window     *)
(* between node_a8.py:91 and 99, in which teardown has nothing to close.     *)
ForeignBootOnlyLate ==
  \A t \in Boots : match[t] /\ matched_in[t] # born[t] => t \in late

(* Every call of wait_booted ends, and so does the set up of a Linux node    *)
(* for the auto tests, unless it waits for the shell prompt, for which       *)
(* expect has no timeout (open_linux_interface.py:66).                       *)
BootWaitEnds ==
  /\ \A t \in Boots : pc[t] = "connect" ~> pc[t] = "done"
  /\ main \in {"boot", "login", "address"} ~> main \in {"up", "prompt"}
=============================================================================
