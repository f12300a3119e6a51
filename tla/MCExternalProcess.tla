------------------------- MODULE MCExternalProcess -------------------------
(***************************************************************************)
(* Instances of ExternalProcess for TLC.                                   *)
(***************************************************************************)
EXTENDS ExternalProcess

=============================================================================
