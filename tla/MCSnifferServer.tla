-------------------------- MODULE MCSnifferServer --------------------------
(***************************************************************************)
(* Instances of SnifferServer for TLC.                                     *)
(***************************************************************************)
EXTENDS SnifferServer

=============================================================================
