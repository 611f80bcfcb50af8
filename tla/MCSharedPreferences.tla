------------------------- MODULE MCSharedPreferences -------------------------
(***************************************************************************)
(* SharedPreferences for TLC. MaxTxn bounds the readings, MaxForms the     *)
(* forms submitted; the number of restarts is not bounded.                 *)
(***************************************************************************)
EXTENDS SharedPreferences

CONSTANTS MaxTxn, MaxForms

MCNext == Next /\ txnID' <= MaxTxn /\ submitted' <= MaxForms

MCSpec == Init /\ [][MCNext]_vars
=============================================================================
