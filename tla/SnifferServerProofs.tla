------------------------ MODULE SnifferServerProofs -------------------------
(***************************************************************************)
(* Proofs about SnifferServer, for any number of descriptors.              *)
(*                                                                         *)
(* The sender clears active_connection before it loads the descriptor, and *)
(* the accepting thread stores the descriptor before it sets the flag, so  *)
(* whoever finds the flag at 0 with a client connected has a step left     *)
(* that sets it.  The invariant says which step that is.                   *)
(***************************************************************************)
EXTENDS SnifferServer, WellFoundedInduction, TLAPS

(* accept returns a free descriptor (sniffer_server.c:126): the lowest one   *)
(* exists, because descriptors are natural numbers.                          *)
LEMMA LowestFree ==
  ASSUME Free # {}
  PROVE  Min(Free) \in Free
<1>1. Free \subseteq Nat
  BY MaxFdAssumption DEF Free, Fds
<1>2. \E x \in Free : \A y \in Free : ~(<<y, x>> \in OpToRel(<, Nat))
  BY <1>1, NatLessThanWellFounded, WFMin, Zenon
<1>3. PICK x \in Free : \A y \in Free : ~(<<y, x>> \in OpToRel(<, Nat))
  BY <1>2
<1>4. ASSUME NEW y \in Free PROVE x =< y
  <2>1. x \in Nat /\ y \in Nat
    BY <1>1
  <2>2. y < x => <<y, x>> \in OpToRel(<, Nat)
    BY <2>1 DEF OpToRel
  <2>3. ~(y < x)
    BY <1>3, <2>2
  <2> QED
    BY <2>1, <2>3
<1> QED
  BY <1>4 DEF Min

(* The types of the variables the two threads of sniffer_server.c share or   *)
(* keep: both only ever hold descriptors that accept returned, or -1.        *)
THEOREM Typing == Spec => []TypeOK
<1>1. Init => TypeOK
  BY DEF Init, TypeOK, Fds, NoFd
<1>2. TypeOK /\ [Next]_vars => TypeOK'
  <2> SUFFICES ASSUME TypeOK, [Next]_vars PROVE TypeOK'
    OBVIOUS
  <2> USE MaxFdAssumption DEF TypeOK
  <2>1. CASE Accept
    <3>1. Min(Free) \in Fds
      BY <2>1, LowestFree DEF Accept, Free
    <3> QED
      BY <2>1, <3>1 DEF Accept
  <2>2. CASE CloseOld
    BY <2>2 DEF CloseOld, Close
  <2>3. CASE SaveFd
    BY <2>3 DEF SaveFd
  <2>4. CASE Activate
    BY <2>4 DEF Activate
  <2>5. CASE SendCheck
    BY <2>5 DEF SendCheck
  <2>6. CASE SendClear
    BY <2>6 DEF SendClear
  <2>7. CASE SendLoad
    BY <2>7 DEF SendLoad
  <2>8. CASE Send
    BY <2>8 DEF Send
  <2>9. CASE SendClose
    BY <2>9 DEF SendClose, Close
  <2>10. CASE SendSet
    BY <2>10 DEF SendSet
  <2>11. ASSUME NEW fd \in Fds, ClientLeaves(fd) PROVE TypeOK'
    BY <2>11 DEF ClientLeaves
  <2>12. CASE UNCHANGED vars
    BY <2>12 DEF vars
  <2> QED
    BY <2>1, <2>2, <2>3, <2>4, <2>5, <2>6, <2>7, <2>8, <2>9, <2>10, <2>11, <2>12
       DEF Next
<1> QED
  BY <1>1, <1>2, PTL DEF Spec

-----------------------------------------------------------------------------
(* The inductive invariant. *)

CurrentClient == connect_fd # NoFd /\ conn[connect_fd] = "client"

(* A client with the flag at 0: the accepting thread will set the flag, or   *)
(* the sender is about to try this very client, or has just succeeded.       *)
FlagInv ==
  CurrentClient /\ active_connection = 0
    => \/ server # "accept"
       \/ sender \in {"load", "set"}
       \/ sender = "send" /\ send_fd = connect_fd

(* The sender tests and clears a flag that is set: only it clears the flag.  *)
ClearInv == sender = "clear" => active_connection = 1

(* The descriptor of a failed send names a client only if it was reused. *)
CloseInv ==
  sender = "close" /\ send_fd # NoFd /\ conn[send_fd] = "client" => reused

IInv == TypeOK /\ FlagInv /\ ClearInv /\ CloseInv

(* The invariant holds when the server starts and is kept by every step of   *)
(* sniffer_thread, of sniffer_server_send_packet and of the clients.         *)
THEOREM Invariance == Spec => []IInv
<1>1. Init => IInv
  BY DEF Init, IInv, TypeOK, FlagInv, ClearInv, CloseInv, CurrentClient, Fds, NoFd
<1>2. IInv /\ TypeOK' /\ [Next]_vars => IInv'
  <2> SUFFICES ASSUME IInv, TypeOK', [Next]_vars PROVE IInv'
    OBVIOUS
  <2>0. \A fd \in Fds : fd # NoFd
    BY MaxFdAssumption DEF Fds, NoFd
  <2> USE <2>0 DEF IInv, TypeOK, FlagInv, ClearInv, CloseInv, CurrentClient
  <2>1. CASE Accept
    <3>1. Min(Free) \in Fds
      BY <2>1, LowestFree DEF Accept, Free
    <3> QED
      BY <2>1, <3>1 DEF Accept
  <2>2. CASE CloseOld
    <3>1. conn' = conn
      <4>1. \A fd \in Fds : 0 > connect_fd => fd # connect_fd
        BY MaxFdAssumption DEF Fds
      <4> QED
        BY <2>2, <4>1 DEF CloseOld, Close
    <3> QED
      BY <2>2, <3>1 DEF CloseOld
  <2>3. CASE SaveFd
    BY <2>3 DEF SaveFd
  <2>4. CASE Activate
    BY <2>4 DEF Activate
  <2>5. CASE SendCheck
    BY <2>5 DEF SendCheck
  <2>6. CASE SendClear
    BY <2>6 DEF SendClear
  <2>7. CASE SendLoad
    BY <2>7 DEF SendLoad
  <2>8. CASE Send
    BY <2>8 DEF Send
  <2>9. CASE SendClose
    BY <2>9 DEF SendClose, Close
  <2>10. CASE SendSet
    BY <2>10 DEF SendSet
  <2>11. ASSUME NEW fd \in Fds, ClientLeaves(fd) PROVE IInv'
    BY <2>11 DEF ClientLeaves
  <2>12. CASE UNCHANGED vars
    BY <2>12 DEF vars
  <2> QED
    BY <2>1, <2>2, <2>3, <2>4, <2>5, <2>6, <2>7, <2>8, <2>9, <2>10, <2>11, <2>12
       DEF Next
<1> QED
  BY <1>1, <1>2, Typing, PTL DEF Spec

(* No order of the lock-less steps of sniffer_server.c:126-190 leaves a      *)
(* connected client with active_connection at 0 when both sides are done.    *)
THEOREM NoClientForgotten == Spec => []ActiveWhenClient
<1>1. IInv => ActiveWhenClient
  BY DEF IInv, TypeOK, FlagInv, CurrentClient, ActiveWhenClient
<1> QED
  BY <1>1, Invariance, PTL

(* The clean-up after a failed send (sniffer_server.c:188) closes a client   *)
(* that is still connected only if accept gave it the descriptor of one that *)
(* was gone.                                                                 *)
THEOREM OnlyReusedClosed == Spec => ClosesGoneOrReused
<1>1. IInv /\ [Next]_vars
        => [\A fd \in Fds :
              sender = "close" /\ sender' = "idle"
                /\ conn[fd] = "client" /\ conn'[fd] = "closed"
              => fd = send_fd /\ reused]_vars
  <2> SUFFICES ASSUME IInv, Next, NEW fd \in Fds,
                      sender = "close", sender' = "idle",
                      conn[fd] = "client", conn'[fd] = "closed"
               PROVE  fd = send_fd /\ reused
    OBVIOUS
  <2>0. fd >= 0 /\ fd # NoFd
    BY MaxFdAssumption DEF Fds, NoFd
  <2>1. CASE SendClose
    BY <2>0, <2>1 DEF SendClose, Close, IInv, CloseInv
  <2>2. CASE Accept \/ CloseOld \/ \E f \in Fds : ClientLeaves(f)
    BY <2>2 DEF Accept, CloseOld, ClientLeaves
  <2>3. CASE SaveFd \/ Activate \/ SendCheck \/ SendClear \/ SendLoad \/ Send \/ SendSet
    BY <2>3 DEF SaveFd, Activate, SendCheck, SendClear, SendLoad, Send, SendSet
  <2> QED
    BY <2>1, <2>2, <2>3 DEF Next
<1> QED
  BY <1>1, Invariance, PTL DEF Spec, ClosesGoneOrReused
=============================================================================
