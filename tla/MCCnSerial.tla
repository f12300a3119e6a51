----------------------------- MODULE MCCnSerial -----------------------------
(***************************************************************************)
(* Instances of CnSerial for TLC.                                          *)
(***************************************************************************)
EXTENDS CnSerial

=============================================================================
