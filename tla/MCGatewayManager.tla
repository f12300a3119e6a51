-------------------------- MODULE MCGatewayManager --------------------------
(***************************************************************************)
(* Instances of GatewayManager for TLC.                                    *)
(***************************************************************************)
EXTENDS GatewayManager, TLC

(* Threads and experiments are interchangeable (safety runs only). *)
Symmetry ==
  Permutations(Clients) \cup Permutations(Timers) \cup Permutations(Exps)

=============================================================================
