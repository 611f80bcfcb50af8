------------------------------- MODULE MCLink -------------------------------
(***************************************************************************)
(* Small instances of the choice of the link: every value of the setting,  *)
(* one it must not have among them, and every fault of the modem.          *)
(***************************************************************************)
EXTENDS Connectivity

AllModes == 0..3
=============================================================================
