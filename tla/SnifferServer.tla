---------------------------- MODULE SnifferServer ----------------------------
(***************************************************************************)
(* control_node_serial/src/sniffer_server.c: a thread accepts TCP clients, *)
(* and the serial reader sends every sniffed packet to the last of them.   *)
(* The two share active_connection and connect_fd without a lock; each     *)
(* access is a step.                                                       *)
(*                                                                         *)
(* Descriptors are numbers that the system reuses, the lowest free one     *)
(* first, so a stale number may come to name another client.               *)
(***************************************************************************)
EXTENDS Integers, FiniteSets, FiniteSetsExt

CONSTANT MaxFd   \* bound: the process may have descriptors 0..MaxFd open

ASSUME MaxFdAssumption == MaxFd \in Nat

Fds == 0..MaxFd
NoFd == -1

VARIABLES
  active_connection,  \* shared
  connect_fd,         \* shared
  conn,     \* what each descriptor is: closed, or a client that is there or gone
  server,   \* where sniffer_thread is
  new_fd,   \* its local connect_fd
  sender,   \* where send_packet is
  send_fd,  \* its local connect_fd
  reused    \* ghost: accept has returned send_fd since send_packet loaded it

vars == <<active_connection, connect_fd, conn, server, new_fd, sender, send_fd, reused>>

TypeOK ==
  /\ active_connection \in {0, 1}
  /\ connect_fd \in Fds \cup {NoFd}
  /\ conn \in [Fds -> {"closed", "client", "gone"}]
  /\ server \in {"accept", "close_old", "save", "activate"}
  /\ new_fd \in IF server = "accept" THEN {NoFd} ELSE Fds
  /\ sender \in {"idle", "clear", "load", "send", "close", "set"}
  /\ send_fd \in Fds \cup {NoFd}
  /\ reused \in BOOLEAN

(* sniffer_server_start *)
Init ==
  /\ active_connection = 0
  /\ connect_fd = NoFd
  /\ conn = [fd \in Fds |-> "closed"]
  /\ server = "accept"
  /\ new_fd = NoFd
  /\ sender = "idle"
  /\ send_fd = NoFd
  /\ reused = FALSE

Free == {fd \in Fds : conn[fd] = "closed"}

Close(fd) == [f \in Fds |-> IF f = fd THEN "closed" ELSE conn[f]]

-----------------------------------------------------------------------------
(* sniffer_thread *)

(* Mutant: the result of accept is not tested. *)
AcceptUnchecked ==
  /\ server = "accept"
  /\ new_fd' = IF Free = {} THEN NoFd ELSE Min(Free)
  /\ conn' = [fd \in Fds |-> IF fd = new_fd' THEN "client" ELSE conn[fd]]
  /\ server' = "close_old"
  /\ reused' = (reused \/ new_fd' = send_fd)
  /\ UNCHANGED <<active_connection, connect_fd, sender, send_fd>>

(* accept gives the new client the lowest free descriptor, and fails while  *)
(* there is none: the thread sleeps and tries again.                        *)
Accept ==
  /\ server = "accept"
  /\ Free # {}
  /\ new_fd' = Min(Free)
  /\ conn' = [conn EXCEPT ![Min(Free)] = "client"]
  /\ server' = "close_old"
  /\ reused' = (reused \/ new_fd' = send_fd)
  /\ UNCHANGED <<active_connection, connect_fd, sender, send_fd>>

(* if (0 > sniffer_state.connect_fd): the branch closes only what is not a  *)
(* descriptor, and no earlier client.                                       *)
CloseOld ==
  /\ server = "close_old"
  /\ conn' = IF 0 > connect_fd THEN Close(connect_fd) ELSE conn
  /\ server' = "save"
  /\ UNCHANGED <<active_connection, connect_fd, new_fd, sender, send_fd, reused>>

SaveFd ==
  /\ server = "save"
  /\ connect_fd' = new_fd
  /\ server' = "activate"
  /\ UNCHANGED <<active_connection, conn, new_fd, sender, send_fd, reused>>

Activate ==
  /\ server = "activate"
  /\ active_connection' = 1
  /\ server' = "accept"
  /\ new_fd' = NoFd
  /\ UNCHANGED <<connect_fd, conn, sender, send_fd, reused>>

-----------------------------------------------------------------------------
(* sniffer_server_send_packet *)

SendCheck ==
  /\ sender = "idle"
  /\ active_connection = 1
  /\ sender' = "clear"
  /\ UNCHANGED <<active_connection, connect_fd, conn, server, new_fd, send_fd, reused>>

SendClear ==
  /\ sender = "clear"
  /\ active_connection' = 0
  /\ sender' = "load"
  /\ UNCHANGED <<connect_fd, conn, server, new_fd, send_fd, reused>>

SendLoad ==
  /\ sender = "load"
  /\ send_fd' = connect_fd
  /\ sender' = "send"
  /\ reused' = FALSE
  /\ UNCHANGED <<active_connection, connect_fd, conn, server, new_fd>>

(* send works while the client is there, may still work after it has gone,  *)
(* and fails on a closed descriptor.                                        *)
Send ==
  /\ sender = "send"
  /\ \/ send_fd \in Fds /\ conn[send_fd] \in {"client", "gone"} /\ sender' = "set"
     \/ (send_fd \notin Fds \/ conn[send_fd] # "client") /\ sender' = "close"
  /\ UNCHANGED <<active_connection, connect_fd, conn, server, new_fd, send_fd, reused>>

(* Mutant: active_connection is cleared after the failed send. *)
SendClearsLate ==
  /\ sender = "close"
  /\ conn' = Close(send_fd)
  /\ active_connection' = 0
  /\ sender' = "idle"
  /\ send_fd' = NoFd
  /\ UNCHANGED <<connect_fd, server, new_fd, reused>>

(* Mutant: the shared descriptor is closed, not the one that send used. *)
CloseShared ==
  /\ sender = "close"
  /\ conn' = Close(connect_fd)
  /\ sender' = "idle"
  /\ send_fd' = NoFd
  /\ UNCHANGED <<active_connection, connect_fd, server, new_fd, reused>>

(* The send failed. *)
SendClose ==
  /\ sender = "close"
  /\ conn' = Close(send_fd)
  /\ sender' = "idle"
  /\ send_fd' = NoFd
  /\ UNCHANGED <<active_connection, connect_fd, server, new_fd, reused>>

(* The send worked. *)
SendSet ==
  /\ sender = "set"
  /\ active_connection' = 1
  /\ sender' = "idle"
  /\ send_fd' = NoFd
  /\ UNCHANGED <<connect_fd, conn, server, new_fd, reused>>

-----------------------------------------------------------------------------
ClientLeaves(fd) ==
  /\ conn[fd] = "client"
  /\ conn' = [conn EXCEPT ![fd] = "gone"]
  /\ UNCHANGED <<active_connection, connect_fd, server, new_fd, sender, send_fd, reused>>

Next ==
  \/ Accept \/ CloseOld \/ SaveFd \/ Activate
  \/ SendCheck \/ SendClear \/ SendLoad \/ Send \/ SendClose \/ SendSet
  \/ \E fd \in Fds : ClientLeaves(fd)

Spec == Init /\ [][Next]_vars

-----------------------------------------------------------------------------
(* Properties *)

(* "We want 'active_connection' to be always at 1 when there is a client":  *)
(* whenever neither side is in the middle of its protocol and the current   *)
(* descriptor is that of a client, packets are sent to it.  No order of the *)
(* lock-less steps loses a client that connects while a send fails.         *)
ActiveWhenClient ==
  /\ server = "accept"
  /\ sender = "idle"
  /\ connect_fd # NoFd
  /\ conn[connect_fd] = "client"
  => active_connection = 1

(* "Connection closed on client side, cleanup" (sniffer_server.c:188): the   *)
(* clean-up of send_packet closes a client that is still connected only if   *)
(* accept gave it the descriptor that send_packet had loaded for a client    *)
(* that was gone.                                                            *)
ClosesGoneOrReused ==
  [][\A fd \in Fds :
       sender = "close" /\ sender' = "idle"
         /\ conn[fd] = "client" /\ conn'[fd] = "closed"
       => fd = send_fd /\ reused]_vars

(* "Keep only one connection active" (sniffer_server.c:137): once the        *)
(* accepting thread has taken a client, no earlier one is still connected.   *)
(* The test of line 138 is the wrong way round, so the code does not do it.  *)
OnlyOneConnection ==
  server = "accept" =>
    \A fd \in Fds : conn[fd] = "client" => fd = connect_fd
=============================================================================
