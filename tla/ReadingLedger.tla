---------------------------- MODULE ReadingLedger ----------------------------
(***************************************************************************)
(* What the uplink of the meter promises of its readings: every reading    *)
(* has an identity of its own, and as long as the power stays on the meter *)
(* keeps a reading until it is settled: the server has it or refused it,   *)
(* or a modem has it. What a power cut takes is lost for good, and a       *)
(* restart takes nothing.                                                  *)
(***************************************************************************)
VARIABLES
  taken,      \* the readings taken so far
  held,       \* those the meter has, or would find after a restart
  settled,    \* those the server has or refused, or a modem has
  up          \* does the meter have power?

vars == <<taken, held, settled, up>>

Init ==
  /\ taken = {}
  /\ held = {}
  /\ settled = {}
  /\ up = FALSE

Take ==
  /\ up
  /\ \E r \in taken' \ taken :
       /\ taken' = taken \cup {r}
       /\ held' = held \cup {r}
  /\ UNCHANGED <<settled, up>>

\* Also while the meter is off: the request may still be under way.
Settle ==
  /\ \E r \in taken : settled' = settled \cup {r}
  /\ UNCHANGED <<taken, held, up>>

Release ==
  /\ up
  /\ held' \subseteq held
  /\ held \ held' \subseteq settled
  /\ UNCHANGED <<taken, settled, up>>

PowerLoss ==
  /\ up
  /\ up' = FALSE
  /\ held' \subseteq held
  /\ UNCHANGED <<taken, settled>>

Restart ==
  /\ ~up
  /\ up' = TRUE
  /\ UNCHANGED <<taken, held, settled>>

Next == Take \/ Settle \/ Release \/ PowerLoss \/ Restart

Spec == Init /\ [][Next]_vars
=============================================================================
