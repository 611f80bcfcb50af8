--------------------------- MODULE MCOfflineStore ---------------------------
(***************************************************************************)
(* OfflineStore for TLC. MaxBacklog bounds the vector, which the code does *)
(* not: it is chosen above MaxConfigurations, so that a backlog OfflineLoad *)
(* refuses is among the states.                                            *)
(***************************************************************************)
EXTENDS OfflineStore

CONSTANT MaxBacklog

MCNext == Next /\ Len(entries') <= MaxBacklog

MCSpec == Init /\ [][MCNext]_vars
=============================================================================
