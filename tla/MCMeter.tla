------------------------------- MODULE MCMeter -------------------------------
(***************************************************************************)
(* Meter for TLC. MaxPolls bounds the number of polls; it is chosen above  *)
(* StaleAfter + 1, so that values grow older than the limit. The values    *)
(* themselves are decoded with every register of a small width.            *)
(***************************************************************************)
EXTENDS Meter, FloatDecode

CONSTANT MaxPolls

MCNext == Next /\ poll' <= MaxPolls

\* What the registers of an answer are shown as is what the meter measured
\* (ModbusMeter::dataformatter). It depends on no variable, and is looked at once.
ReadingsDecode == poll = 0 => DecodesRegisters

MCSpec == Init /\ [][MCNext]_vars
=============================================================================
