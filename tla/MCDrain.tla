------------------------------- MODULE MCDrain -------------------------------
(***************************************************************************)
(* Uplink for a liveness property about the length of the backlog, to      *)
(* which the identity of the readings is of no consequence: every reading  *)
(* gets the number 1. MaxBacklog bounds how long an outage lasts: no       *)
(* reading is stored beyond it.                                            *)
(*                                                                         *)
(* Fairness. FreeRTOS runs the task whenever it is ready, and both uploads *)
(* return within their timeouts, one way or the other. Requests that are   *)
(* not lost are answered. No fairness on power cuts and losses.            *)
(***************************************************************************)
EXTENDS Uplink

CONSTANT MaxBacklog

DrainNext == 
  /\ Compose(1) \/ Task \/ Network \/ PowerLoss
  /\ Len(entries') <= MaxBacklog

Fairness ==
  /\ WF_vars(Compose(1))
  /\ WF_vars(Boot)
  /\ WF_vars(Connect \/ NoNetwork)
  /\ WF_vars(Post \/ NoPrompt)
  /\ WF_vars(Sent \/ TimedOut)
  /\ WF_vars(LoadFirst)
  /\ WF_vars(Save)
  /\ WF_vars(\E m \in net : Receive(m) \/ Reject(m))

DrainSpec == Init /\ [][DrainNext]_vars /\ Fairness

\* Once uploads stop failing and the power stays on, the backlog is worked off
\* completely, one reading per cycle, and stays so; unless setup found no
\* network at the last restart (SmEm.ino:21-26 and 58-74).
DrainsAfterOutage ==
  <>[][~(PowerLoss \/ NoPrompt \/ TimedOut)]_vars
     => <>[](entries = << >> \/ task = "none")
=============================================================================
