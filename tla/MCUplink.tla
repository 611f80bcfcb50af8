------------------------------ MODULE MCUplink ------------------------------
(***************************************************************************)
(* Uplink for TLC. MaxTxn bounds the number of readings taken, which is    *)
(* also the length of the longest backlog. A history variable has the      *)
(* readings whose request the server answered without keeping them, or     *)
(* that were handed to the modem, which tells nothing of what became of    *)
(* them.                                                                   *)
(***************************************************************************)
EXTENDS Uplink

CONSTANT MaxTxn

VARIABLE gone

MCInit == Init /\ gone = {}

MCNext ==
  /\ Next
  /\ txn' <= MaxTxn
  /\ gone' = gone
       \cup (IF answered' /\ ~answered THEN {cur.id} \ rcvd' ELSE {})
       \cup (IF link = "GSM" /\ task = "post" /\ task' = "await" THEN {cur.id} ELSE {})

MCSpec == MCInit /\ [][MCNext]_<<vars, gone>>

\* The store the uplink works on is durable at rest, if nothing fails: what the
\* ledger rests on (Offlinedatasave.cpp:36-39, 78-81, 96-238 and 245-282).
AtRestIsDurable == Store!AtRestIsDurable

Ledger ==
  INSTANCE ReadingLedger WITH
    taken <- 1..txn,
    held <- Held,
    settled <- rcvd \cup gone,
    up <- task # "off"

\* The uplink keeps the promise of the ledger: with the power on, a reading leaves the
\* meter only when the server has it or answered its request with an error, which the
\* meter takes for success, or over GSM when the modem has it (WifiComm.cpp:569-585,
\* GSMComm.cpp:320-325, SmEm.ino:58-69, Offlinedatasave.cpp:78-81).
ImplementsReadingLedger == Ledger!Spec
=============================================================================
