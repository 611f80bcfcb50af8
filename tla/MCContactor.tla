----------------------------- MODULE MCContactor -----------------------------
(***************************************************************************)
(* Contactor with history variables for two properties that speak of what  *)
(* otherTask was doing: how many passes it completed while the contactor   *)
(* was closed against a fault, and where it was when the server task drove *)
(* the contactor last. The passes counted are bounded by MaxPasses.        *)
(***************************************************************************)
EXTENDS Contactor

CONSTANT MaxPasses

VARIABLES passes, overtaken

ClosedAgainstEmergency == relayStatus /\ pin /\ emergency

\* otherTask found relayStatus true and is on its way to close the contactor.
Closing == other \in {"close:pin", "close:emergency", "close:earthFault", "close"}

CountPasses ==
  IF ClosedAgainstEmergency /\ ClosedAgainstEmergency'
    THEN passes' = IF other # "delay" /\ other' = "delay" /\ passes < MaxPasses
                     THEN passes + 1 ELSE passes
    ELSE passes' = 0

MCInit ==
  /\ ContactorInit
  /\ passes = 0
  /\ overtaken = FALSE

MCNext ==
  /\ ContactorNext
  /\ CountPasses
  /\ overtaken' = IF Drive THEN Closing
                  ELSE overtaken /\ relayStatus' = relayStatus

MCSpec ==
  /\ MCInit
  /\ [][MCNext]_<<contactorVars, passes, overtaken>>
  /\ Fairness

\* The contactor never stays closed against a pressed emergency button over two
\* complete passes of otherTask: the pass that was under way when it became so
\* may miss it, the next one does not (SmEm.ino:100-109).
OpensWithinAPass == passes <= 1

\* An order to open fails in one case only: the server task overtakes otherTask
\* after that found relayStatus true and before it closes the contactor. Then it
\* is closed after the order, and stays closed (SmEm.ino:104 against 147-154).
OffFailsOnlyOvertaken ==
  server = "idle" /\ ~relayStatus /\ pin => overtaken
=============================================================================
