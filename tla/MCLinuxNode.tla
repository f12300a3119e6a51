---------------------------- MODULE MCLinuxNode -----------------------------
(* Two calls of wait_booted over three sessions: an old call beside a newer  *)
(* one, and a session after both; two attempts are one that fails and the   *)
(* last.                                                                    *)
EXTENDS LinuxNode
=============================================================================
