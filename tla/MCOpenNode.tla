----------------------------- MODULE MCOpenNode -----------------------------
(* Every class of open node, with one firmware of the gateway besides the   *)
(* idle one and two of users.                                               *)
EXTENDS OpenNode

MCKinds == {"openocd", "jlink", "dirty", "edbg", "zigduino", "leonardo",
            "firefly", "pycom", "lora_gw", "rtl_sdr", "no"}
=============================================================================
