------------------------------ MODULE Contactor ------------------------------
(***************************************************************************)
(* The contactor that switches the consumer on and off. Two tasks drive    *)
(* its pin: the task that talks to the server, when an answer orders       *)
(* another state (responseFromServer), and otherTask, which opens it while *)
(* the emergency button is pressed or an earth fault is signalled, and     *)
(* closes it again (SmEm.ino:100-109 and 129-157). They share relayStatus  *)
(* and the pin, and no lock.                                               *)
(*                                                                         *)
(* Both run on core 1. The server task has the higher priority: it may     *)
(* interrupt otherTask between any two of its reads and writes, so each of *)
(* them is a step here. otherTask runs in the middle of responseFromServer *)
(* only where that blocks, which is its output to the serial port.         *)
(***************************************************************************)
EXTENDS Naturals

VARIABLES
  relayStatus,  \* bool relayStatus: what the server ordered last
  pin,          \* the level of ContactorPIN: is the contactor closed?
  emergency,    \* EmergencyPressed
  earthFault,   \* EarthFault
  server,       \* where responseFromServer is; "idle" outside of it
  other         \* where otherTask is; "off" before setup created it

contactorVars == <<relayStatus, pin, emergency, earthFault, server, other>>

(***************************************************************************)
(* The two conditions of otherTask, operand by operand, in program order.  *)
(* "delay" is the end of a pass.                                           *)
(***************************************************************************)
OpenTests  == {"open:relay", "open:pin", "open:emergency", "open:earthFault"}
CloseTests == {"close:relay", "close:pin", "close:emergency", "close:earthFault"}

ContactorTypeOK ==
  /\ relayStatus \in BOOLEAN
  /\ pin \in BOOLEAN
  /\ emergency \in BOOLEAN
  /\ earthFault \in BOOLEAN
  /\ server \in {"idle", "drive"}
  /\ other \in OpenTests \cup CloseTests \cup {"off", "open", "close", "delay"}

\* relayStatus=false; the pin is low after pinMode. The inputs are what they are.
ContactorInit ==
  /\ relayStatus = FALSE
  /\ pin = FALSE
  /\ emergency \in BOOLEAN
  /\ earthFault \in BOOLEAN
  /\ server = "idle"
  /\ other = "off"

-----------------------------------------------------------------------------
(***************************************************************************)
(* responseFromServer. An answer that is no JSON changes nothing; one      *)
(* without desiredContactorState reads as false, like an order to open.    *)
(***************************************************************************)

Answers == {"on", "off", "noField", "noJson"}

Response(answer) ==
  /\ server = "idle"
  /\ answer # "noJson"
  /\ LET NewrelayStatus == answer = "on"
     IN  /\ NewrelayStatus # relayStatus
         /\ relayStatus' = NewrelayStatus
  /\ server' = "drive"
  /\ UNCHANGED <<pin, emergency, earthFault, other>>

\* Mutant: the branch that opens the contactor is missing.
DriveUp ==
  /\ server = "drive"
  /\ pin' = (pin \/ relayStatus)
  /\ server' = "idle"
  /\ UNCHANGED <<relayStatus, emergency, earthFault, other>>

\* After "Contactor ON" or "Contactor OFF" is printed. Whether a fault is
\* signalled is not asked.
Drive ==
  /\ server = "drive"
  /\ pin' = relayStatus
  /\ server' = "idle"
  /\ UNCHANGED <<relayStatus, emergency, earthFault, other>>

-----------------------------------------------------------------------------
(***************************************************************************)
(* otherTask                                                               *)
(***************************************************************************)

Goto(from, to) ==
  /\ other = from
  /\ other' = to
  /\ UNCHANGED <<relayStatus, emergency, earthFault, server>>

Test(from, operand, true, false) ==
  /\ Goto(from, IF operand THEN true ELSE false)
  /\ UNCHANGED pin

\* Mutant: the emergency button is not asked.
OpenTestEarthFault ==
  \/ Test("open:relay", relayStatus, "open:pin", "close:relay")
  \/ Test("open:pin", pin, "open:earthFault", "close:relay")
  \/ Test("open:earthFault", earthFault, "open", "close:relay")

\* Mutant: both faults are asked for.
OpenTestBoth ==
  \/ Test("open:relay", relayStatus, "open:pin", "close:relay")
  \/ Test("open:pin", pin, "open:emergency", "close:relay")
  \/ Test("open:emergency", emergency, "open:earthFault", "close:relay")
  \/ Test("open:earthFault", earthFault, "open", "close:relay")

OpenTest ==
  \/ Test("open:relay", relayStatus, "open:pin", "close:relay")
  \/ Test("open:pin", pin, "open:emergency", "close:relay")
  \/ Test("open:emergency", emergency, "open", "open:earthFault")
  \/ Test("open:earthFault", earthFault, "open", "close:relay")

Open ==
  /\ Goto("open", "delay")
  /\ pin' = FALSE

\* Mutant: the pin, not its negation.
CloseTestPin ==
  \/ Test("close:relay", relayStatus, "close:pin", "delay")
  \/ Test("close:pin", pin, "close:emergency", "delay")
  \/ Test("close:emergency", ~emergency, "close:earthFault", "delay")
  \/ Test("close:earthFault", ~earthFault, "close", "delay")

CloseTest ==
  \/ Test("close:relay", relayStatus, "close:pin", "delay")
  \/ Test("close:pin", ~pin, "close:emergency", "delay")
  \/ Test("close:emergency", ~emergency, "close:earthFault", "delay")
  \/ Test("close:earthFault", ~earthFault, "close", "delay")

Close ==
  /\ Goto("close", "delay")
  /\ pin' = TRUE

\* Mutant: the loop is missing, the task function returns.
BeginOnce ==
  /\ other \in {"off", "delay"}
  /\ Goto(other, IF other = "off" THEN "open:relay" ELSE "returned")
  /\ UNCHANGED pin

\* setup creates the task, or its delay is over.
Begin ==
  /\ other \in {"off", "delay"}
  /\ Goto(other, "open:relay")
  /\ UNCHANGED pin

OtherTask == Begin \/ OpenTest \/ Open \/ CloseTest \/ Close

-----------------------------------------------------------------------------
(***************************************************************************)
(* The inputs change at any time. A restart begins with the contactor open. *)
(***************************************************************************)

Inputs ==
  /\ \/ emergency' = ~emergency /\ UNCHANGED earthFault
     \/ earthFault' = ~earthFault /\ UNCHANGED emergency
  /\ UNCHANGED <<relayStatus, pin, server, other>>

Restart ==
  /\ relayStatus' = FALSE
  /\ pin' = FALSE
  /\ server' = "idle"
  /\ other' = "off"
  /\ UNCHANGED <<emergency, earthFault>>

-----------------------------------------------------------------------------

ContactorNext ==
  \/ \E answer \in Answers : Response(answer)
  \/ Drive
  \/ OtherTask
  \/ Inputs
  \/ Restart

\* otherTask has the lowest priority but every other task of the core sleeps
\* or waits most of the time, so it is run again and again. The same holds of
\* the server task while it is in the middle of responseFromServer.
Fairness == WF_contactorVars(OtherTask) /\ WF_contactorVars(Drive)

ContactorSpec == ContactorInit /\ [][ContactorNext]_contactorVars /\ Fairness

-----------------------------------------------------------------------------
(***************************************************************************)
(* Properties                                                              *)
(***************************************************************************)

\* While the contactor is ordered closed, a fault that stays opens it for good,
\* although the server task closes it without asking for faults and otherTask
\* may be about to close it when the fault occurs (SmEm.ino:103-104, 151-152).
\* Two faults that take turns are not covered: each may be gone when it is read.
FaultKeepsOpen ==
  (\/ <>[](relayStatus /\ emergency)
   \/ <>[](relayStatus /\ earthFault)) => <>[]~pin

\* While it is ordered closed and no fault is signalled any more, it is closed
\* again and stays so (SmEm.ino:104).
ClosesAfterFault ==
  <>[](relayStatus /\ ~emergency /\ ~earthFault) => <>[]pin

\* "Contactor OFF" was printed and responseFromServer is done: it is open.
OffIsOpen ==
  server = "idle" /\ ~relayStatus => ~pin
=============================================================================
