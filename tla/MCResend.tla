------------------------------ MODULE MCResend ------------------------------
(***************************************************************************)
(* Uplink with history variables that tell how often the meter hands a     *)
(* reading to the modem that it already handed to it. MaxReadings bounds   *)
(* the readings taken, and with them the backlog; power cuts are not       *)
(* bounded: they are counted against the repetitions, up to MaxCredit.     *)
(***************************************************************************)
EXTENDS Uplink, Integers

CONSTANTS MaxReadings, MaxCredit

ASSUME CreditAssumption == MaxCredit \in Nat \ {0}

VARIABLES
  handed, \* the readings handed over by GSM
  credit  \* power cuts that have not yet led to a repetition

ResendInit ==
  /\ Init
  /\ handed = {}
  /\ credit = 0

\* The data is printed to the modem: from here on the meter takes it for delivered.
Handover == link = "GSM" /\ task = "post" /\ task' = "await"

Repeats == Handover /\ cur.id \in handed

Cut == task # "off" /\ task' = "off" /\ credit < MaxCredit

ResendNext ==
  /\ Next
  /\ txn' <= MaxReadings
  /\ handed' = IF Handover THEN handed \cup {cur.id} ELSE handed
  /\ credit' = IF Repeats THEN credit - 1 ELSE IF Cut THEN credit + 1 ELSE credit

ResendSpec == ResendInit /\ [][ResendNext]_<<vars, handed, credit>>

\* Over GSM, where the meter takes a reading for delivered as soon as it is
\* handed over, readings are handed over a second time at most as often as the
\* power was cut, all readings together, however often one is posted over WiFi
\* in between (GSMComm.cpp:264-326 with Offlinedatasave.cpp:78-81).
RepeatsPerPowerCut == credit >= 0
=============================================================================
