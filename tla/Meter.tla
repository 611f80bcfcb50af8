-------------------------------- MODULE Meter --------------------------------
(***************************************************************************)
(* The Modbus energy meter (libraries/ModbusMeter): RS485Metertask polls   *)
(* it over a serial line and keeps the values of the last answer in global *)
(* variables; the uploading task reads them one by one for a reading       *)
(* (getdataSendToServer). An answer is known by the number of bytes that   *)
(* are there, 231, and its first three; there is no check of its checksum. *)
(*                                                                         *)
(* An answer is abstracted to its header and one byte for each kind of     *)
(* value that is treated in its own way: "phase" stands for the voltages,  *)
(* currents and powers of the phases, which read as zero once m polls      *)
(* failed, "total" for the totals, energies and power factors, which do    *)
(* not. A byte is the poll it answers and its position in the answer.      *)
(*                                                                         *)
(* RS485Metertask has the higher priority and never blocks while it stores *)
(* an answer. It sleeps after every step, and the reading task goes on: at *)
(* most one step of a poll falls between two steps of a reading.           *)
(***************************************************************************)
EXTENDS Naturals, Sequences, SequencesExt

CONSTANTS
  StaleAfter,  \* 200 in the code
  LineFaults   \* what may go wrong on the line:
               \*   "silent" a request is not answered
               \*   "lose"   a byte is lost
               \*   "late"   bytes arrive after the meter stopped waiting

ASSUME StaleAfterAssumption == StaleAfter \in Nat \ {0}
ASSUME LineFaultsAssumption == LineFaults \subseteq {"silent", "lose", "late"}

VARIABLES
  poller,    \* where RS485Metertask is
  poll,      \* observation: the number of the last request
  line,      \* the bytes under way to the meter
  rx,        \* the receive buffer of ModbusSerial
  values,    \* VN1, TP1, TotalKW, ...: the bytes they were made of
  m,         \* int m, the polls that failed in a row
  reader,    \* where getdataSendToServer is
  at,        \* the value it is about to read
  reading,   \* the values it read, and during which poll
  preempted, \* did a poll make a step since the last step of the reading?
  lost,      \* observation: was a byte ever lost?
  late       \* observation: did bytes ever arrive after a new request?

pollVars == <<poller, poll, rx, values, m, late>>
readVars == <<reader, at, reading>>
vars == <<poller, poll, line, rx, values, m, reader, at, reading, preempted, lost, late>>

-----------------------------------------------------------------------------

Frame == <<"header", "phase", "total">>

Fields == {"phase", "total"}

\* getdataSendToServer reads in this order; GetVoltagePhase, GetCurrentPhase
\* and GetPowerPhase look at m first.
ReadOrder == <<"phase", "total">>

LooksAtM == {"phase"}

Byte == [poll : Nat, pos : 0..Len(Frame)]

Zero == [poll |-> 0, pos |-> 0]

\* The document of a reading is a local variable, empty when it begins.
Nothing == [f \in Fields |-> [value |-> Zero, during |-> 0]]

Answer(n) == [i \in 1..Len(Frame) |-> [poll |-> n, pos |-> i]]

TypeOK ==
  /\ poller \in {"delay", "wait"}
  /\ poll \in Nat
  /\ line \in Seq(Byte)
  /\ rx \in Seq(Byte)
  /\ values \in [Fields -> Byte]
  /\ m \in Nat
  /\ reader \in {"idle", "test", "value"}
  /\ at \in 1..Len(ReadOrder)
  /\ reading \in [Fields -> [value : Byte, during : Nat]]
  /\ preempted \in BOOLEAN
  /\ lost \in BOOLEAN
  /\ late \in BOOLEAN

Init ==
  /\ poller = "delay"
  /\ poll = 0
  /\ line = << >>
  /\ rx = << >>
  /\ values = [f \in Fields |-> Zero]
  /\ m = 0
  /\ reader = "idle"
  /\ at = 1
  /\ reading = Nothing
  /\ preempted = FALSE
  /\ lost = FALSE
  /\ late = FALSE

-----------------------------------------------------------------------------
(***************************************************************************)
(* ModbusLOOP                                                              *)
(***************************************************************************)

Preempt ==
  /\ reader # "idle" => ~preempted
  /\ preempted' = (reader # "idle")

\* preTransmission empties the receive buffer; the request is written.
Request ==
  /\ poller = "delay"
  /\ Preempt
  /\ poll' = poll + 1
  /\ rx' = << >>
  /\ \/ line' = line \o Answer(poll + 1)
     \/ "silent" \in LineFaults /\ UNCHANGED line
  /\ late' = (late \/ line # << >>)
  /\ poller' = "wait"
  /\ UNCHANGED <<values, m, readVars, lost>>

\* Mutant: the first bytes are not compared.
CheckLengthOnly ==
  /\ poller = "wait"
  /\ Len(rx) = Len(Frame)
  /\ Preempt
  /\ rx' = << >>
  /\ values' = [f \in Fields |-> rx[CHOOSE i \in 1..Len(Frame) : Frame[i] = f]]
  /\ m' = 0
  /\ poller' = "delay"
  /\ UNCHANGED <<poll, line, readVars, lost, late>>

\* checkRecivingdataOnModbus, when exactly an answer's bytes are there: they
\* are taken out, and used if the first of them is a header.
Check ==
  /\ poller = "wait"
  /\ Len(rx) = Len(Frame)
  /\ Preempt
  /\ rx' = << >>
  /\ \/ /\ rx[1].pos = 1
        /\ values' = [f \in Fields |-> rx[CHOOSE i \in 1..Len(Frame) : Frame[i] = f]]
        /\ m' = 0
        /\ poller' = "delay"
     \/ /\ rx[1].pos # 1
        /\ UNCHANGED <<values, m, poller>>
  /\ UNCHANGED <<poll, line, readVars, lost, late>>

\* 700 ms are over, enough for an answer unless it is late.
Timeout ==
  /\ poller = "wait"
  /\ Len(rx) # Len(Frame)
  /\ line = << >> \/ "late" \in LineFaults
  /\ Preempt
  /\ m' = m + 1
  /\ poller' = "delay"
  /\ UNCHANGED <<poll, line, rx, values, readVars, lost, late>>

-----------------------------------------------------------------------------
(***************************************************************************)
(* The line                                                                *)
(***************************************************************************)

Arrive ==
  /\ line # << >>
  /\ line' = Tail(line)
  /\ \/ rx' = Append(rx, Head(line)) /\ UNCHANGED lost
     \/ "lose" \in LineFaults /\ lost' = TRUE /\ UNCHANGED rx
  /\ UNCHANGED <<poller, poll, values, m, readVars, preempted, late>>

-----------------------------------------------------------------------------
(***************************************************************************)
(* getdataSendToServer                                                     *)
(***************************************************************************)

Getter(i) == IF ReadOrder[i] \in LooksAtM THEN "test" ELSE "value"

BeginReading ==
  /\ reader = "idle"
  /\ at' = 1
  /\ reader' = Getter(1)
  /\ reading' = Nothing
  /\ preempted' = FALSE
  /\ UNCHANGED <<pollVars, line, lost>>

\* Mutant: the position is moved behind the last value too.
ReturnPastLast(v) ==
  /\ reading' = [reading EXCEPT ![ReadOrder[at]] = [value |-> v, during |-> poll]]
  /\ at' = at + 1
  /\ reader' = IF at < Len(ReadOrder) THEN Getter(at + 1) ELSE "idle"

Return(v) ==
  /\ reading' = [reading EXCEPT ![ReadOrder[at]] = [value |-> v, during |-> poll]]
  /\ IF at < Len(ReadOrder) THEN at' = at + 1 /\ reader' = Getter(at + 1)
                            ELSE reader' = "idle" /\ UNCHANGED at

\* Mutant: the limit is off by one.
TestMAbove ==
  /\ reader = "test"
  /\ \/ m > StaleAfter /\ Return(Zero)
     \/ m <= StaleAfter /\ reader' = "value" /\ UNCHANGED <<at, reading>>
  /\ preempted' = FALSE
  /\ UNCHANGED <<pollVars, line, lost>>

\* if (m >= 200) return 0;
TestM ==
  /\ reader = "test"
  /\ \/ m >= StaleAfter /\ Return(Zero)
     \/ m < StaleAfter /\ reader' = "value" /\ UNCHANGED <<at, reading>>
  /\ preempted' = FALSE
  /\ UNCHANGED <<pollVars, line, lost>>

ReadValue ==
  /\ reader = "value"
  /\ Return(values[ReadOrder[at]])
  /\ preempted' = FALSE
  /\ UNCHANGED <<pollVars, line, lost>>

-----------------------------------------------------------------------------

Next ==
  \/ Request \/ Check \/ Timeout
  \/ Arrive
  \/ BeginReading \/ TestM \/ ReadValue

Spec == Init /\ [][Next]_vars

-----------------------------------------------------------------------------
(***************************************************************************)
(* Properties                                                              *)
(***************************************************************************)

\* The values kept are those of one whole answer, each from its own place,
\* although answers are found by the number of bytes alone: unless bytes were
\* lost and others late, when a frame made of two answers passes for one
\* (ModbusMeter.cpp:73-134 and 304-307).
OfOneAnswer ==
  \/ lost /\ late
  \/ \A f \in Fields : values[f] = Zero
  \/ \E n \in 1..poll : \A f \in Fields :
       values[f].poll = n /\ Frame[values[f].pos] = f

\* If answers do not come late: no voltage, current or power of a reading is
\* from before the last StaleAfter polls, although a poll may fail between the
\* test of m and the access of the value (ModbusMeter.cpp:35-44, 141-154).
NotOlderThanLimit ==
  ~late => \A f \in LooksAtM :
    \/ reading[f].value = Zero
    \/ reading[f].during - reading[f].value.poll <= StaleAfter
=============================================================================
