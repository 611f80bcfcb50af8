----------------------------- MODULE MeterProofs -----------------------------
(***************************************************************************)
(* Theorems of Meter, for every limit, every fault of the line and any     *)
(* number of polls, and of FloatDecode, for all widths of the fields.      *)
(***************************************************************************)
EXTENDS MCMeter, SequenceTheorems, WellFoundedInduction, TLAPS

-----------------------------------------------------------------------------
(***************************************************************************)
(* The frame and its fields                                                *)
(***************************************************************************)
LEMMA Frames ==
  /\ Len(Frame) = 3 /\ Frame[1] = "header" /\ Frame[2] = "phase" /\ Frame[3] = "total"
  /\ Len(ReadOrder) = 2 /\ ReadOrder[1] = "phase" /\ ReadOrder[2] = "total"
BY DEF Frame, ReadOrder

LEMMA Getters == \A i \in 1..2 : Getter(i) \in {"test", "value"}
BY DEF Getter

LEMMA Places ==
  /\ (CHOOSE i \in 1..Len(Frame) : Frame[i] = "phase") = 2
  /\ (CHOOSE i \in 1..Len(Frame) : Frame[i] = "total") = 3
<1>1. \A i \in 1..3 : (Frame[i] = "phase" <=> i = 2) /\ (Frame[i] = "total" <=> i = 3)
  BY Frames
<1> QED
  BY <1>1, Frames

\* A byte is taken off the line and put into the buffer.
LEMMA Moved ==
  ASSUME NEW S, NEW q \in Seq(S), q # << >>, NEW r \in Seq(S)
  PROVE  /\ Tail(q) \in Seq(S) /\ Len(Tail(q)) = Len(q) - 1
         /\ Append(r, Head(q)) \in Seq(S) /\ Len(Append(r, Head(q))) = Len(r) + 1
         /\ \A i \in 1 .. Len(q) - 1 : Tail(q)[i] = q[i + 1]
         /\ \A i \in 1 .. Len(r) : Append(r, Head(q))[i] = r[i]
         /\ Append(r, Head(q))[Len(r) + 1] = q[1]
<1>1. Head(q) \in S /\ Head(q) = q[1]
  OBVIOUS
<1> QED
  BY <1>1

LEMMA ZeroByte == Zero \in Byte
BY Frames DEF Zero, Byte

LEMMA AnswerBytes ==
  ASSUME NEW n \in Nat
  PROVE  /\ Answer(n) \in Seq(Byte)
         /\ Len(Answer(n)) = 3
         /\ \A i \in 1..3 : Answer(n)[i] = [poll |-> n, pos |-> i]
<1>1. \A i \in 1..3 : [poll |-> n, pos |-> i] \in Byte
  BY Frames DEF Byte
<1> QED
  BY <1>1, Frames DEF Answer

-----------------------------------------------------------------------------
(***************************************************************************)
(* Type correctness                                                        *)
(***************************************************************************)
Flags == preempted \in BOOLEAN /\ lost \in BOOLEAN /\ late \in BOOLEAN

Typed ==
  /\ poller \in {"delay", "wait"}
  /\ poll \in Nat
  /\ line \in Seq(Byte)
  /\ rx \in Seq(Byte)
  /\ values \in [Fields -> Byte]
  /\ m \in Nat
  /\ reader \in {"idle", "test", "value"}
  /\ at \in 1..2
  /\ reading \in [Fields -> [value : Byte, during : Nat]]

LEMMA TypeParts == TypeOK <=> Typed /\ Flags
<1>1. 1..Len(ReadOrder) = 1..2
  BY Frames
<1> QED
  BY <1>1, Zenon DEF TypeOK, Typed, Flags

LEMMA FlagsStep == Flags /\ [Next]_vars => Flags'
<1> SUFFICES ASSUME Flags, [Next]_vars
             PROVE  Flags'
  OBVIOUS
<1> USE DEF Flags
<1>1. CASE Request \/ Check \/ Timeout
  BY <1>1 DEF Request, Check, Timeout, Preempt
<1>2. CASE Arrive
  <2>1. lost' = lost \/ lost' = TRUE
    BY <1>2 DEF Arrive
  <2>2. preempted' = preempted /\ late' = late
    BY <1>2 DEF Arrive
  <2> QED
    BY <2>1, <2>2, Zenon
<1>3. CASE BeginReading \/ TestM \/ ReadValue
  BY <1>3, Zenon DEF BeginReading, TestM, ReadValue, pollVars
<1>4. CASE UNCHANGED vars
  BY <1>4 DEF vars
<1> QED
  BY <1>1, <1>2, <1>3, <1>4 DEF Next

LEMMA ReturnTyped ==
  ASSUME Typed, NEW v \in Byte, Return(v)
  PROVE  /\ reader' \in {"idle", "test", "value"}
         /\ at' \in 1..2
         /\ reading' \in [Fields -> [value : Byte, during : Nat]]
<1>1. [value |-> v, during |-> poll] \in [value : Byte, during : Nat]
  BY DEF Typed
<1>2. reading' \in [Fields -> [value : Byte, during : Nat]]
  BY <1>1 DEF Typed, Return
<1>3. CASE at < 2
  BY <1>2, <1>3, Frames, Getters DEF Typed, Return
<1>4. CASE ~(at < 2)
  BY <1>2, <1>4, Frames DEF Typed, Return
<1> QED
  BY <1>3, <1>4

LEMMA TypedStep == Typed /\ [Next]_vars => Typed'
<1> SUFFICES ASSUME Typed, [Next]_vars
             PROVE  Typed'
  OBVIOUS
<1>0. /\ poller \in {"delay", "wait"} /\ poll \in Nat /\ m \in Nat
      /\ line \in Seq(Byte) /\ rx \in Seq(Byte)
      /\ values \in [Fields -> Byte]
      /\ reader \in {"idle", "test", "value"} /\ at \in 1..2
      /\ reading \in [Fields -> [value : Byte, during : Nat]]
  BY DEF Typed
<1>1. CASE Request
  <2>1. poll' \in Nat /\ Answer(poll + 1) \in Seq(Byte)
    <3>1. poll + 1 \in Nat
      BY <1>0
    <3>2. Answer(poll + 1) \in Seq(Byte)
      BY <3>1, AnswerBytes, Zenon
    <3> QED
      BY <1>1, <3>1, <3>2, Zenon DEF Request
  <2>2. line' \in Seq(Byte)
    <3>1. line' = line \o Answer(poll + 1) \/ line' = line
      BY <1>1 DEF Request
    <3>2. line \in Seq(Byte) /\ line \o Answer(poll + 1) \in Seq(Byte)
      BY <1>0, <2>1, ConcatProperties
    <3>3. CASE line' = line \o Answer(poll + 1)
      BY <3>2, <3>3
    <3>4. CASE line' = line
      BY <3>2, <3>4
    <3> QED
      BY <3>1, <3>3, <3>4
  <2>3. rx' \in Seq(Byte) /\ poller' = "wait"
    BY <1>1, EmptySeq DEF Request
  <2>4. UNCHANGED <<values, m, readVars>>
    BY <1>1 DEF Request
  <2> QED
    BY <1>0, <2>1, <2>2, <2>3, <2>4, Zenon DEF Typed, readVars
<1>2. CASE Check
  <2>1. rx' \in Seq(Byte)
    BY <1>2, EmptySeq DEF Check
  <2>2. values' \in [Fields -> Byte] /\ m' \in Nat /\ poller' \in {"delay", "wait"}
    <3>1. rx[2] \in Byte /\ rx[3] \in Byte
      <4>1. Len(rx) = 3
        BY <1>2, Frames DEF Check
      <4> QED
        BY <1>0, <4>1, ElementOfSeq
    <3>2. \A f \in Fields : rx[CHOOSE i \in 1..Len(Frame) : Frame[i] = f] \in Byte
      BY <3>1, Places DEF Fields
    <3>3. \/ /\ values' = [f \in Fields |-> rx[CHOOSE i \in 1..Len(Frame) : Frame[i] = f]]
             /\ m' = 0 /\ poller' = "delay"
          \/ values' = values /\ m' = m /\ poller' = poller
      BY <1>2 DEF Check
    <3>4. [f \in Fields |-> rx[CHOOSE i \in 1..Len(Frame) : Frame[i] = f]] \in [Fields -> Byte]
      BY <3>2, Zenon
    <3>5. CASE values' = values /\ m' = m /\ poller' = poller
      BY <1>0, <3>5
    <3>6. CASE /\ values' = [f \in Fields |-> rx[CHOOSE i \in 1..Len(Frame) : Frame[i] = f]]
               /\ m' = 0 /\ poller' = "delay"
      <4>1. values' \in [Fields -> Byte]
        BY <3>4, <3>6, Zenon
      <4> QED
        BY <3>6, <4>1
    <3> QED
      BY <3>3, <3>5, <3>6
  <2>3. UNCHANGED <<poll, line, readVars>>
    BY <1>2 DEF Check
  <2> QED
    BY <1>0, <2>1, <2>2, <2>3, Zenon DEF Typed, readVars
<1>3. CASE Timeout
  <2>1. m' \in Nat /\ poller' = "delay"
    BY <1>0, <1>3 DEF Timeout
  <2>2. UNCHANGED <<poll, line, rx, values, readVars>>
    BY <1>3 DEF Timeout
  <2> QED
    BY <1>0, <2>1, <2>2, Zenon DEF Typed, readVars
<1>4. CASE Arrive
  <2>1. /\ line # << >> /\ line' = Tail(line)
        /\ rx' = Append(rx, Head(line)) \/ rx' = rx
    BY <1>4 DEF Arrive
  <2>2. line' \in Seq(Byte) /\ rx' \in Seq(Byte)
    <3>1. Tail(line) \in Seq(Byte) /\ Append(rx, Head(line)) \in Seq(Byte) /\ rx \in Seq(Byte)
      BY <1>0, <2>1, Moved
    <3>2. CASE rx' = rx
      BY <2>1, <3>1, <3>2
    <3>3. CASE rx' = Append(rx, Head(line))
      BY <2>1, <3>1, <3>3
    <3> QED
      BY <2>1, <3>2, <3>3
  <2>3. UNCHANGED <<poller, poll, values, m, readVars>>
    BY <1>4 DEF Arrive
  <2> QED
    BY <1>0, <2>2, <2>3, Zenon DEF Typed, readVars
<1>5. CASE BeginReading
  <2>1. Nothing \in [Fields -> [value : Byte, during : Nat]]
    BY ZeroByte DEF Nothing
  <2>2. /\ reading' \in [Fields -> [value : Byte, during : Nat]]
        /\ at' \in 1..2 /\ reader' \in {"idle", "test", "value"}
    BY <1>5, <2>1, Getters DEF BeginReading
  <2>3. UNCHANGED <<pollVars, line>>
    BY <1>5 DEF BeginReading
  <2> QED
    BY <1>0, <2>2, <2>3, Zenon DEF Typed, pollVars
<1>6. CASE TestM
  <2>1. /\ reader' \in {"idle", "test", "value"}
        /\ at' \in 1..2
        /\ reading' \in [Fields -> [value : Byte, during : Nat]]
    <3>2. CASE m >= StaleAfter /\ Return(Zero)
      BY <3>2, ReturnTyped, ZeroByte, Zenon
    <3>3. CASE m < StaleAfter /\ reader' = "value" /\ UNCHANGED <<at, reading>>
      BY <1>0, <3>3
    <3> QED
      BY <1>6, <3>2, <3>3 DEF TestM
  <2>2. UNCHANGED <<pollVars, line>>
    BY <1>6 DEF TestM
  <2> QED
    BY <1>0, <2>1, <2>2, Zenon DEF Typed, pollVars
<1>7. CASE ReadValue
  <2>1. values[ReadOrder[at]] \in Byte
    <3>1. ReadOrder[at] \in Fields
      BY <1>0, Frames DEF Fields
    <3> QED
      BY <1>0, <3>1
  <2>2. /\ reader' \in {"idle", "test", "value"}
        /\ at' \in 1..2
        /\ reading' \in [Fields -> [value : Byte, during : Nat]]
    BY <1>7, <2>1, ReturnTyped DEF ReadValue
  <2>3. UNCHANGED <<pollVars, line>>
    BY <1>7 DEF ReadValue
  <2> QED
    BY <1>0, <2>2, <2>3, Zenon DEF Typed, pollVars
<1>8. CASE UNCHANGED vars
  BY <1>8, Zenon DEF vars, Typed
<1> QED
  BY <1>1, <1>2, <1>3, <1>4, <1>5, <1>6, <1>7, <1>8 DEF Next

LEMMA TypedAlways == Spec => [](Typed /\ Flags)
<1>1. Init => Typed
  BY ZeroByte DEF Init, Typed, Nothing
<1>2. Init => Flags
  BY DEF Init, Flags
<1> QED
  BY <1>1, <1>2, FlagsStep, TypedStep, PTL DEF Spec

\* Every variable has its type, whatever happens to the bytes on the line.
THEOREM TypeCorrect == Spec => []TypeOK
BY TypeParts, TypedAlways, PTL

-----------------------------------------------------------------------------
(***************************************************************************)
(* The age of the values                                                   *)
(***************************************************************************)
NotOlder(v, n, limit) == v = Zero \/ n - v.poll <= limit

\* Every byte that is under way, or has arrived, answers the last request.
Current ==
  /\ \A i \in 1..Len(line) : line[i].poll = poll
  /\ \A i \in 1..Len(rx) : rx[i].poll = poll

\* m counts the polls since the one the values are from, but the one under way.
Counted == NotOlder(values["phase"], poll, IF poller = "wait" THEN m + 1 ELSE m)

\* Between the test of m and the access of the value one step of a poll may fall: it is
\* the request, or the end, of a poll that fails.
Tested ==
  reader = "value" /\ at = 1 =>
    /\ NotOlder(values["phase"], poll, StaleAfter)
    /\ ~preempted => m < StaleAfter

Read == NotOlder(reading["phase"].value, reading["phase"].during, StaleAfter)

Fresh == ~late => Current /\ Counted /\ Tested /\ Read

LEMMA RequestFresh ==
  ASSUME Typed, Fresh, Request PROVE Fresh'
<1> SUFFICES ASSUME ~late'
             PROVE  Current' /\ Counted' /\ Tested' /\ Read'
  BY DEF Fresh
<1>1. ~late /\ line = << >>
  BY DEF Request
<1>2. Current /\ Counted /\ Tested /\ Read
  BY <1>1 DEF Fresh
<1>3. /\ poller = "delay" /\ poller' = "wait"
      /\ poll' = poll + 1 /\ poll \in Nat
      /\ rx' = << >>
      /\ UNCHANGED <<values, m, reader, at, reading>>
  BY DEF Request, Typed, readVars
<1>4. Current'
  <2>1. poll + 1 \in Nat
    BY <1>3
  <2>2. /\ Len(Answer(poll + 1)) = 3
        /\ \A i \in 1..3 : Answer(poll + 1)[i].poll = poll + 1
    <3>1. /\ Len(Answer(poll + 1)) = 3
          /\ \A i \in 1..3 : Answer(poll + 1)[i] = [poll |-> poll + 1, pos |-> i]
      BY <2>1, AnswerBytes, Zenon
    <3> QED
      BY <3>1
  <2>3. Answer(poll + 1) \in Seq(Byte)
    BY <2>1, AnswerBytes
  <2>4. line' = Answer(poll + 1) \/ line' = << >>
    <3>1. << >> \o Answer(poll + 1) = Answer(poll + 1)
      BY <2>3, ConcatEmptySeq
    <3>2. CASE line' = line \o Answer(poll + 1)
      BY <1>1, <3>1, <3>2
    <3>3. CASE line' = line
      BY <1>1, <3>3
    <3> QED
      BY <3>2, <3>3 DEF Request
  <2>5. CASE line' = Answer(poll + 1)
    BY <1>3, <2>2, <2>5 DEF Current
  <2>6. CASE line' = << >>
    BY <1>3, <2>6 DEF Current
  <2> QED
    BY <2>4, <2>5, <2>6
<1>5. m \in Nat /\ values["phase"].poll \in Nat
  BY DEF Typed, Fields, Byte
<1>6. Counted'
  BY <1>2, <1>3, <1>5 DEF Counted, NotOlder
<1>7. Tested'
  <2> SUFFICES ASSUME reader' = "value", at' = 1
               PROVE  NotOlder(values["phase"], poll', StaleAfter) /\ preempted'
    BY <1>3 DEF Tested
  <2>1. ~preempted /\ preempted'
    BY <1>3 DEF Request, Preempt
  <2>2. m < StaleAfter
    BY <1>2, <1>3, <2>1 DEF Tested
  <2> QED
    BY <1>2, <1>3, <1>5, <2>1, <2>2, StaleAfterAssumption DEF Counted, NotOlder
<1>8. Read'
  BY <1>2, <1>3 DEF Read
<1> QED
  BY <1>4, <1>6, <1>7, <1>8

LEMMA CheckFresh ==
  ASSUME Typed, Fresh, Check PROVE Fresh'
<1> SUFFICES ASSUME ~late'
             PROVE  Current' /\ Counted' /\ Tested' /\ Read'
  BY DEF Fresh
<1>1. ~late
  BY DEF Check
<1>2. Current /\ Counted /\ Tested /\ Read
  BY <1>1 DEF Fresh
<1>3. /\ poller = "wait" /\ Len(rx) = 3 /\ rx' = << >>
      /\ UNCHANGED <<poll, line, reader, at, reading>>
  BY Frames DEF Check, readVars
<1>4. Current'
  BY <1>2, <1>3 DEF Current
<1>5. poll \in Nat /\ m \in Nat /\ values["phase"].poll \in Nat
  BY DEF Typed, Fields, Byte
<1>6. Read'
  BY <1>2, <1>3 DEF Read
<1>7. reader # "idle" => ~preempted /\ preempted'
  BY DEF Check, Preempt
<1>8. CASE /\ values' = [f \in Fields |-> rx[CHOOSE i \in 1..Len(Frame) : Frame[i] = f]]
           /\ m' = 0 /\ poller' = "delay"
  <2>1. values'["phase"] = rx[2]
    BY <1>8, Places DEF Fields
  <2>2. rx[2].poll = poll
    BY <1>2, <1>3 DEF Current
  <2>3. Counted'
    BY <1>3, <1>5, <1>8, <2>1, <2>2 DEF Counted, NotOlder
  <2>4. Tested'
    BY <1>3, <1>5, <1>7, <2>1, <2>2, StaleAfterAssumption DEF Tested, NotOlder
  <2> QED
    BY <1>4, <1>6, <2>3, <2>4
<1>9. CASE UNCHANGED <<values, m, poller>>
  <2>1. Counted'
    BY <1>2, <1>3, <1>9 DEF Counted
  <2>2. Tested'
    BY <1>2, <1>3, <1>7, <1>9 DEF Tested
  <2> QED
    BY <1>4, <1>6, <2>1, <2>2
<1> QED
  BY <1>8, <1>9 DEF Check

LEMMA TimeoutFresh ==
  ASSUME Typed, Fresh, Timeout PROVE Fresh'
<1> SUFFICES ASSUME ~late'
             PROVE  Current' /\ Counted' /\ Tested' /\ Read'
  BY DEF Fresh
<1>1. ~late
  BY DEF Timeout
<1>2. Current /\ Counted /\ Tested /\ Read
  BY <1>1 DEF Fresh
<1>3. /\ poller = "wait" /\ poller' = "delay" /\ m' = m + 1
      /\ UNCHANGED <<poll, line, rx, values, reader, at, reading>>
  BY DEF Timeout, readVars
<1>4. reader # "idle" => preempted'
  BY DEF Timeout, Preempt
<1>5. Counted'
  BY <1>2, <1>3 DEF Counted
<1>6. Tested'
  BY <1>2, <1>3, <1>4 DEF Tested
<1> QED
  BY <1>2, <1>3, <1>5, <1>6 DEF Current, Read

LEMMA ArriveFresh ==
  ASSUME Typed, Fresh, Arrive PROVE Fresh'
<1> SUFFICES ASSUME ~late'
             PROVE  Current' /\ Counted' /\ Tested' /\ Read'
  BY DEF Fresh
<1>1. ~late
  BY DEF Arrive
<1>2. Current /\ Counted /\ Tested /\ Read
  BY <1>1 DEF Fresh
<1>3. /\ line # << >> /\ line' = Tail(line)
      /\ UNCHANGED <<poller, poll, values, m, reader, at, reading, preempted>>
  BY DEF Arrive, readVars
<1>4. line \in Seq(Byte) /\ rx \in Seq(Byte)
  BY DEF Typed
<1>5. /\ Len(line) \in Nat \ {0} /\ Len(rx) \in Nat
      /\ Len(line') = Len(line) - 1
      /\ \A i \in 1 .. Len(line) - 1 : line'[i] = line[i + 1]
      /\ Len(Append(rx, Head(line))) = Len(rx) + 1
      /\ \A i \in 1 .. Len(rx) : Append(rx, Head(line))[i] = rx[i]
      /\ Append(rx, Head(line))[Len(rx) + 1] = line[1]
  BY <1>3, <1>4, Moved, EmptySeq, LenProperties
<1>6. \A i \in 1..Len(line') : line'[i].poll = poll
  BY <1>2, <1>5 DEF Current
<1>7. \A i \in 1..Len(rx') : rx'[i].poll = poll
  <2>1. CASE rx' = rx
    BY <1>2, <2>1 DEF Current
  <2>2. CASE rx' = Append(rx, Head(line))
    BY <1>2, <1>5, <2>2 DEF Current
  <2> QED
    BY <2>1, <2>2 DEF Arrive
<1> QED
  BY <1>2, <1>3, <1>6, <1>7 DEF Current, Counted, Tested, Read

LEMMA BeginFresh ==
  ASSUME Typed, Fresh, BeginReading PROVE Fresh'
<1> SUFFICES ASSUME ~late'
             PROVE  Current' /\ Counted' /\ Tested' /\ Read'
  BY DEF Fresh
<1>1. UNCHANGED <<poller, poll, line, rx, values, m, late>>
  BY DEF BeginReading, pollVars
<1>2. Current /\ Counted
  BY <1>1 DEF Fresh
<1>3. reader' = "test"
  BY Frames DEF BeginReading, Getter, LooksAtM
<1>4. Read'
  BY DEF BeginReading, Nothing, Fields, Read, NotOlder
<1> QED
  BY <1>1, <1>2, <1>3, <1>4 DEF Current, Counted, Tested

\* The next value, or the end: no access of a voltage without its test.
LEMMA ReturnFresh ==
  ASSUME Typed, NEW v, Return(v), at = 1 => NotOlder(v, poll, StaleAfter), Read
  PROVE  Read' /\ (reader' = "value" => at' # 1)
<1>1. at \in 1..2
  BY DEF Typed
<1>2. CASE at = 1
  <2>1. reading' = [reading EXCEPT !["phase"] = [value |-> v, during |-> poll]]
    BY <1>2, Frames DEF Return
  <2>2. reading'["phase"] = [value |-> v, during |-> poll]
    BY <2>1 DEF Typed, Fields
  <2>3. at' = 2
    BY <1>2, Frames DEF Return
  <2> QED
    BY <1>2, <2>2, <2>3 DEF Read
<1>3. CASE at = 2
  <2>1. reading' = [reading EXCEPT !["total"] = [value |-> v, during |-> poll]]
    BY <1>3, Frames DEF Return
  <2>2. reading'["phase"] = reading["phase"]
    BY <2>1 DEF Typed, Fields
  <2>3. reader' = "idle"
    BY <1>3, Frames DEF Return
  <2> QED
    BY <2>2, <2>3 DEF Read
<1> QED
  BY <1>1, <1>2, <1>3

LEMMA TestMFresh ==
  ASSUME Typed, Fresh, TestM PROVE Fresh'
<1> SUFFICES ASSUME ~late'
             PROVE  Current' /\ Counted' /\ Tested' /\ Read'
  BY DEF Fresh
<1>1. UNCHANGED <<poller, poll, line, rx, values, m, late>>
  BY DEF TestM, pollVars
<1>2. Current /\ Counted /\ Tested /\ Read
  BY <1>1 DEF Fresh
<1>3. Current' /\ Counted'
  BY <1>1, <1>2 DEF Current, Counted
<1>4. CASE m >= StaleAfter /\ Return(Zero)
  BY <1>2, <1>3, <1>4, ReturnFresh DEF NotOlder, Tested
<1>5. CASE m < StaleAfter /\ reader' = "value" /\ UNCHANGED <<at, reading>>
  <2>1. poll \in Nat /\ m \in Nat /\ values["phase"].poll \in Nat
    BY DEF Typed, Fields, Byte
  <2>2. NotOlder(values["phase"], poll, StaleAfter)
    BY <1>2, <1>5, <2>1, StaleAfterAssumption DEF Counted, NotOlder
  <2>3. Tested'
    BY <1>1, <1>5, <2>2 DEF Tested
  <2>4. Read'
    BY <1>2, <1>5 DEF Read
  <2> QED
    BY <1>3, <2>3, <2>4
<1> QED
  BY <1>4, <1>5 DEF TestM

LEMMA ReadValueFresh ==
  ASSUME Typed, Fresh, ReadValue PROVE Fresh'
<1> SUFFICES ASSUME ~late'
             PROVE  Current' /\ Counted' /\ Tested' /\ Read'
  BY DEF Fresh
<1>1. UNCHANGED <<poller, poll, line, rx, values, m, late>> /\ reader = "value"
  BY DEF ReadValue, pollVars
<1>2. Current /\ Counted /\ Tested /\ Read
  BY <1>1 DEF Fresh
<1>3. Current' /\ Counted'
  BY <1>1, <1>2 DEF Current, Counted
<1>4. at = 1 => NotOlder(values[ReadOrder[at]], poll, StaleAfter)
  BY <1>1, <1>2, Frames DEF Tested
<1>5. Return(values[ReadOrder[at]])
  BY DEF ReadValue
<1>6. Read' /\ (reader' = "value" => at' # 1)
  BY <1>2, <1>4, <1>5, ReturnFresh
<1> QED
  BY <1>3, <1>6 DEF Tested

LEMMA FreshInvariant == Spec => []Fresh
<1>1. Init => Fresh
  BY DEF Init, Fresh, Current, Counted, Tested, Read, NotOlder, Nothing, Fields
<1>2. Typed /\ Fresh /\ [Next]_vars => Fresh'
  <2>1. ASSUME Fresh, UNCHANGED vars PROVE Fresh'
    BY <2>1 DEF vars, Fresh, Current, Counted, Tested, Read
  <2> QED
    BY <2>1, RequestFresh, CheckFresh, TimeoutFresh, ArriveFresh, BeginFresh, TestMFresh,
       ReadValueFresh DEF Next
<1> QED
  BY <1>1, <1>2, TypedAlways, PTL DEF Spec

\* If answers do not come late, no voltage, current or power of a reading is from before
\* the last StaleAfter polls, though a poll may fail between the test of m and the access
\* of the value.
THEOREM ValuesAreFresh == Spec => []NotOlderThanLimit
<1>1. Fresh => NotOlderThanLimit
  BY DEF Fresh, Read, NotOlder, NotOlderThanLimit, LooksAtM
<1> QED
  BY <1>1, FreshInvariant, PTL

-----------------------------------------------------------------------------
(***************************************************************************)
(* Frames of one answer. If no byte was lost, the bytes of an answer are   *)
(* all there and in a row; if none was late, they are of one answer, and   *)
(* as many as an answer has are all of it.                                 *)
(***************************************************************************)
Follows(a, b) ==
  /\ a.pos < 3 => b.poll = a.poll /\ b.pos = a.pos + 1
  /\ a.pos >= 3 => b.pos = 1

Past ==
  /\ \A i \in 1..Len(line) : line[i].poll \in 1..poll
  /\ \A i \in 1..Len(rx) : rx[i].poll \in 1..poll

InARow ==
  /\ \A i \in 1 .. Len(line) - 1 : Follows(line[i], line[i + 1])
  /\ \A i \in 1 .. Len(rx) - 1 : Follows(rx[i], rx[i + 1])
  /\ Len(rx) > 0 /\ Len(line) > 0 => Follows(rx[Len(rx)], line[1])
  /\ Len(line) > 0 => line[Len(line)].pos = 3

OfOne ==
  /\ Current
  /\ \A i, j \in 1..Len(line) : i < j => line[i].pos < line[j].pos
  /\ \A i, j \in 1..Len(rx) : i < j => rx[i].pos < rx[j].pos
  /\ \A i \in 1..Len(rx), j \in 1..Len(line) : rx[i].pos < line[j].pos

Framed == Past /\ (~lost => InARow) /\ (~late => OfOne)

\* What is taken for an answer is one.
LEMMA FullFrame ==
  ASSUME Typed, Framed, ~(lost /\ late), Len(rx) = 3, rx[1].pos = 1
  PROVE  /\ rx[2].poll \in 1..poll /\ rx[3].poll = rx[2].poll
         /\ rx[2].pos = 2 /\ rx[3].pos = 3
<1>1. /\ rx \in Seq(Byte) /\ poll \in Nat
  BY DEF Typed
<1>2. rx[1] \in Byte /\ rx[2] \in Byte /\ rx[3] \in Byte
  <2>1. 1 \in 1..Len(rx) /\ 2 \in 1..Len(rx) /\ 3 \in 1..Len(rx)
    OBVIOUS
  <2> QED
    BY <1>1, <2>1, ElementOfSeq, Zenon
<1>3. /\ rx[1].pos \in 0..3 /\ rx[2].pos \in 0..3 /\ rx[3].pos \in 0..3
      /\ rx[1].poll \in Nat /\ rx[2].poll \in Nat /\ rx[3].poll \in Nat
  BY <1>2, Frames DEF Byte
<1>4. rx[2].poll \in 1..poll
  BY DEF Framed, Past
<1>5. CASE ~lost
  <2>1. Follows(rx[1], rx[2]) /\ Follows(rx[2], rx[3])
    BY <1>5 DEF Framed, InARow
  <2> QED
    BY <1>3, <1>4, <2>1 DEF Follows
<1>6. CASE ~late
  <2>1. rx[1].pos < rx[2].pos /\ rx[2].pos < rx[3].pos
    BY <1>6 DEF Framed, OfOne
  <2>2. rx[2].poll = poll /\ rx[3].poll = poll
    BY <1>6 DEF Framed, OfOne, Current
  <2> QED
    BY <1>3, <1>4, <2>1, <2>2
<1> QED
  BY <1>5, <1>6

LEMMA RequestFramed ==
  ASSUME Typed, Framed, Request PROVE Framed'
<1>1. /\ poll \in Nat /\ line \in Seq(Byte)
  BY DEF Typed
<1>2. poll' = poll + 1 /\ rx' = << >> /\ lost' = lost
  BY DEF Request
<1>3. ~late' => ~late /\ line = << >>
  BY DEF Request
<1>4. CASE line' = line
  <2>1. Past'
    BY <1>1, <1>2, <1>4 DEF Framed, Past
  <2>2. ~lost' => InARow'
    BY <1>2, <1>4 DEF Framed, InARow
  <2>3. ~late' => OfOne'
    BY <1>2, <1>3, <1>4 DEF OfOne, Current
  <2> QED
    BY <2>1, <2>2, <2>3 DEF Framed
<1>5. CASE line' = line \o Answer(poll + 1)
  <2> DEFINE a == Answer(poll + 1)
             n == Len(line)
  <2>1. poll + 1 \in Nat
    BY <1>1
  <2>2. /\ a \in Seq(Byte) /\ Len(a) = 3
        /\ \A i \in 1..3 : a[i] = [poll |-> poll + 1, pos |-> i]
    BY <2>1, AnswerBytes, Zenon
  <2>3. /\ n \in Nat /\ Len(line \o a) = n + 3
        /\ \A i \in 1 .. n + 3 : (line \o a)[i] = IF i <= n THEN line[i] ELSE a[i - n]
    <3> HIDE DEF a
    <3>1. Len(line) \in Nat
      BY <1>1, LenProperties, Zenon
    <3>2. /\ Len(line \o a) = Len(line) + Len(a)
          /\ \A i \in 1 .. Len(line) + Len(a) :
               (line \o a)[i] = IF i <= Len(line) THEN line[i] ELSE a[i - Len(line)]
      BY <1>1, <2>2, ConcatProperties, Zenon
    <3> QED
      BY <2>2, <3>1, <3>2
  <2> HIDE DEF a, n
  <2>4. /\ Len(line') = n + 3
        /\ \A i \in 1..n : line'[i] = line[i]
        /\ \A i \in 1..3 : line'[n + i].poll = poll + 1 /\ line'[n + i].pos = i
    <3>1. line' = line \o a
      BY <1>5 DEF a
    <3>2. \A i \in 1..3 : line'[n + i] = a[i]
      BY <2>3, <3>1
    <3> QED
      BY <2>2, <2>3, <3>1, <3>2, SMTT(30)
  <2>5. \A i \in 1 .. n + 3 : i \in 1..n \/ \E j \in 1..3 : i = n + j
    <3> SUFFICES ASSUME NEW i \in 1 .. n + 3, i \notin 1..n
                 PROVE  i - n \in 1..3 /\ i = n + (i - n)
      OBVIOUS
    <3> QED
      BY <2>3
  <2>6. Past'
    <3>1. \A i \in 1..n : line[i].poll \in 1..poll
      BY DEF Framed, Past, n
    <3>2. \A i \in 1..Len(line') : line'[i].poll \in 1..poll'
      BY <1>1, <1>2, <2>3, <2>4, <2>5, <3>1, SMTT(30)
    <3> QED
      BY <1>2, <3>2 DEF Past
  <2>7. ~lost' => InARow'
    <3> SUFFICES ASSUME ~lost
                 PROVE  InARow'
      BY <1>2
    <3>1. /\ \A i \in 1 .. n - 1 : Follows(line[i], line[i + 1])
          /\ n > 0 => line[n].pos = 3
      BY DEF Framed, InARow, n
    <3>2. ASSUME NEW i \in 1 .. n + 2 PROVE Follows(line'[i], line'[i + 1])
      <4>1. CASE i \in 1 .. n - 1
        BY <2>3, <2>4, <3>1, <4>1
      <4>2. CASE i = n
        <5>1. line'[i].pos = 3 /\ line'[i + 1].pos = 1
          BY <2>3, <2>4, <3>1, <4>2
        <5> QED
          BY <5>1 DEF Follows
      <4>3. CASE i \in n + 1 .. n + 2
        <5>1. PICK j \in 1..2 : i = n + j
          <6>1. i - n \in 1..2 /\ i = n + (i - n)
            BY <2>3, <4>3
          <6> QED
            BY <6>1
        <5>2. /\ line'[n + j].poll = poll + 1 /\ line'[n + j].pos = j
              /\ line'[n + (j + 1)].poll = poll + 1 /\ line'[n + (j + 1)].pos = j + 1
          BY <2>4
        <5>3. n + (j + 1) = i + 1
          BY <2>3, <5>1
        <5> QED
          BY <5>1, <5>2, <5>3 DEF Follows
      <4> QED
        BY <2>3, <4>1, <4>2, <4>3
    <3>3. line'[n + 3].pos = 3
      BY <2>4
    <3> QED
      BY <1>2, <2>3, <2>4, <3>2, <3>3 DEF InARow
  <2>8. ~late' => OfOne'
    <3> SUFFICES ASSUME line = << >>
                 PROVE  OfOne'
      BY <1>3
    <3>1. n = 0
      BY DEF n
    <3>2. \A i \in 1..3 : line'[i].poll = poll + 1 /\ line'[i].pos = i
      BY <2>4, <3>1
    <3> QED
      BY <1>2, <2>4, <3>1, <3>2 DEF OfOne, Current
  <2> QED
    BY <2>6, <2>7, <2>8 DEF Framed
<1> QED
  BY <1>4, <1>5 DEF Request

LEMMA ArriveFramed ==
  ASSUME Typed, Framed, Arrive PROVE Framed'
<1>1. /\ line # << >> /\ line' = Tail(line)
      /\ poll' = poll /\ late' = late
  BY DEF Arrive
<1>2. line \in Seq(Byte) /\ rx \in Seq(Byte) /\ poll \in Nat
  BY DEF Typed
<1> DEFINE n == Len(line)
           k == Len(rx)
           r == Append(rx, Head(line))
<1>3. /\ n \in Nat \ {0} /\ k \in Nat
      /\ Len(line') = n - 1
      /\ \A i \in 1 .. n - 1 : line'[i] = line[i + 1]
      /\ Len(r) = k + 1
      /\ \A i \in 1..k : r[i] = rx[i]
      /\ r[k + 1] = line[1]
  BY <1>1, <1>2, Moved, EmptySeq, LenProperties
<1> HIDE DEF n, k, r
<1>4. /\ \A i \in 1..n : line[i].poll \in 1..poll
      /\ \A i \in 1..k : rx[i].poll \in 1..poll
  BY DEF Framed, Past, n, k
<1>5. ~late => /\ \A i \in 1..n : line[i].poll = poll
               /\ \A i \in 1..k : rx[i].poll = poll
               /\ \A i, j \in 1..n : i < j => line[i].pos < line[j].pos
               /\ \A i, j \in 1..k : i < j => rx[i].pos < rx[j].pos
               /\ \A i \in 1..k, j \in 1..n : rx[i].pos < line[j].pos
  BY DEF Framed, OfOne, Current, n, k
<1>6. CASE rx' = r /\ lost' = lost
  <2>1. \A i \in 1 .. k + 1 : i \in 1..k \/ i = k + 1
    BY <1>3
  <2>2. Past'
    BY <1>1, <1>3, <1>4, <1>6, <2>1 DEF Past
  <2>3. ~lost' => InARow'
    <3> SUFFICES ASSUME ~lost
                 PROVE  InARow'
      BY <1>6
    <3>1. /\ \A i \in 1 .. n - 1 : Follows(line[i], line[i + 1])
          /\ \A i \in 1 .. k - 1 : Follows(rx[i], rx[i + 1])
          /\ k > 0 => Follows(rx[k], line[1])
          /\ line[n].pos = 3
      BY <1>3 DEF Framed, InARow, n, k
    <3>2. \A i \in 1 .. n - 2 : Follows(line'[i], line'[i + 1])
      BY <1>3, <3>1
    <3>3. ASSUME NEW i \in 1..k PROVE Follows(rx'[i], rx'[i + 1])
      <4>1. CASE i < k
        BY <1>3, <1>6, <3>1, <4>1
      <4>2. CASE i = k
        BY <1>3, <1>6, <3>1, <4>2
      <4> QED
        BY <1>3, <4>1, <4>2
    <3>4. n - 1 > 0 => Follows(rx'[k + 1], line'[1]) /\ line'[n - 1].pos = 3
      BY <1>3, <1>6, <3>1
    <3> QED
      BY <1>3, <1>6, <3>2, <3>3, <3>4 DEF InARow
  <2>4. ~late' => OfOne'
    <3> SUFFICES ASSUME ~late
                 PROVE  OfOne'
      BY <1>1
    <3>1. Len(line') = n - 1 /\ Len(rx') = k + 1 /\ poll' = poll
      BY <1>1, <1>3, <1>6
    <3>2. /\ \A i \in 1 .. n - 1 : line'[i] = line[i + 1]
          /\ \A i \in 1..k : rx'[i] = rx[i]
          /\ rx'[k + 1] = line[1]
      BY <1>3, <1>6
    <3>3. Current'
      BY <1>3, <1>5, <2>1, <3>1, <3>2 DEF Current
    <3>4. \A i, j \in 1 .. n - 1 : i < j => line'[i].pos < line'[j].pos
      BY <1>3, <1>5, <3>2
    <3>5. ASSUME NEW i \in 1 .. k + 1, NEW j \in 1 .. k + 1, i < j
          PROVE  rx'[i].pos < rx'[j].pos
      <4>1. CASE j \in 1..k
        BY <1>3, <1>5, <3>2, <3>5, <4>1
      <4>2. CASE j = k + 1
        BY <1>3, <1>5, <3>2, <3>5, <4>2
      <4> QED
        BY <2>1, <4>1, <4>2
    <3>6. ASSUME NEW i \in 1 .. k + 1, NEW j \in 1 .. n - 1
          PROVE  rx'[i].pos < line'[j].pos
      <4>1. CASE i \in 1..k
        BY <1>3, <1>5, <3>2, <4>1
      <4>2. CASE i = k + 1
        BY <1>3, <1>5, <3>2, <4>2
      <4> QED
        BY <2>1, <4>1, <4>2
    <3> QED
      BY <3>1, <3>3, <3>4, <3>5, <3>6 DEF OfOne
  <2> QED
    BY <2>2, <2>3, <2>4 DEF Framed
<1>7. CASE rx' = rx /\ lost' = TRUE
  <2>1. Past'
    BY <1>1, <1>3, <1>4, <1>7 DEF Past, k
  <2>2. ~late' => OfOne'
    BY <1>1, <1>3, <1>5, <1>7 DEF OfOne, Current, k
  <2> QED
    BY <1>7, <2>1, <2>2 DEF Framed
<1> QED
  BY <1>6, <1>7 DEF Arrive, r

LEMMA CheckFramed ==
  ASSUME Typed, Framed, OfOneAnswer, Check PROVE Framed' /\ OfOneAnswer'
<1>1. Len(rx) = 3 /\ rx' = << >> /\ UNCHANGED <<poll, line, lost, late>>
  BY Frames DEF Check
<1>2. Framed'
  BY <1>1 DEF Framed, Past, InARow, OfOne, Current
<1>3. CASE UNCHANGED <<values, m, poller>>
  BY <1>1, <1>2, <1>3 DEF OfOneAnswer
<1>4. CASE /\ rx[1].pos = 1
           /\ values' = [f \in Fields |-> rx[CHOOSE i \in 1..Len(Frame) : Frame[i] = f]]
  <2> SUFFICES ASSUME ~(lost' /\ late')
               PROVE  OfOneAnswer'
    BY <1>2 DEF OfOneAnswer
  <2>1. /\ rx[2].poll \in 1..poll /\ rx[3].poll = rx[2].poll
        /\ rx[2].pos = 2 /\ rx[3].pos = 3
    BY <1>1, <1>4, FullFrame
  <2>2. values'["phase"] = rx[2] /\ values'["total"] = rx[3]
    BY <1>4, Places DEF Fields
  <2>3. \A f \in Fields : values'[f].poll = rx[2].poll /\ Frame[values'[f].pos] = f
    BY <2>1, <2>2, Frames DEF Fields
  <2> QED
    BY <1>1, <2>1, <2>3 DEF OfOneAnswer
<1> QED
  BY <1>2, <1>3, <1>4 DEF Check

LEMMA FramedInvariant == Spec => [](Framed /\ OfOneAnswer)
<1>1. Init => Framed /\ OfOneAnswer
  BY DEF Init, Framed, Past, InARow, OfOne, Current, OfOneAnswer
<1>2. Typed /\ Flags /\ Framed /\ OfOneAnswer /\ [Next]_vars => Framed' /\ OfOneAnswer'
  <2> SUFFICES ASSUME Typed, Flags, Framed, OfOneAnswer, [Next]_vars
               PROVE  Framed' /\ OfOneAnswer'
    OBVIOUS
  <2>1. CASE Request
    <3> USE <2>1
    <3>1. /\ values' = values /\ lost' = lost
          /\ poll' = poll + 1 /\ poll \in Nat
      BY DEF Request, Typed
    <3>2. late' = (late \/ line # << >>)
      BY Zenon DEF Request
    <3>3. Framed'
      BY RequestFramed
    <3>4. CASE lost /\ late
      <4>1. lost' /\ late'
        BY <3>1, <3>2, <3>4, Zenon
      <4> QED
        BY <3>3, <4>1, Zenon DEF OfOneAnswer
    <3>5. CASE \A f \in Fields : values[f] = Zero
      <4>1. \A f \in Fields : values'[f] = Zero
        BY <3>1, <3>5, Zenon
      <4> QED
        BY <3>3, <4>1, Zenon DEF OfOneAnswer
    <3>6. CASE \E n \in 1..poll : \A f \in Fields :
                 values[f].poll = n /\ Frame[values[f].pos] = f
      <4>1. PICK n \in 1..poll : \A f \in Fields :
              values[f].poll = n /\ Frame[values[f].pos] = f
        BY <3>6
      <4>2. n \in 1..poll'
        BY <3>1
      <4>3. \A f \in Fields : values'[f].poll = n /\ Frame[values'[f].pos] = f
        BY <3>1, <4>1, Zenon
      <4> QED
        BY <3>3, <4>2, <4>3, Zenon DEF OfOneAnswer
    <3> QED
      BY <3>4, <3>5, <3>6, Zenon DEF OfOneAnswer
  <2>2. CASE Check
    BY <2>2, CheckFramed
  <2>3. CASE Timeout
    <3>1. UNCHANGED <<poll, line, rx, values, lost, late>>
      BY <2>3 DEF Timeout
    <3> QED
      BY <3>1 DEF Framed, Past, InARow, OfOne, Current, OfOneAnswer
  <2>4. CASE Arrive
    <3>1. UNCHANGED <<poll, values, late>> /\ (lost => lost')
      BY <2>4 DEF Arrive
    <3>2. OfOneAnswer'
      BY <3>1 DEF OfOneAnswer
    <3> QED
      BY <2>4, <3>2, ArriveFramed
  <2>5. CASE BeginReading \/ TestM \/ ReadValue
    <3>1. UNCHANGED <<poll, line, rx, values, lost, late>>
      BY <2>5 DEF BeginReading, TestM, ReadValue, pollVars
    <3> QED
      BY <3>1 DEF Framed, Past, InARow, OfOne, Current, OfOneAnswer
  <2>6. CASE UNCHANGED vars
    BY <2>6 DEF vars, Framed, Past, InARow, OfOne, Current, OfOneAnswer
  <2> QED
    BY <2>1, <2>2, <2>3, <2>4, <2>5, <2>6 DEF Next
<1> QED
  BY <1>1, <1>2, TypedAlways, PTL DEF Spec

\* Although an answer is known by the number of its bytes and its first ones alone, the
\* values kept are those of one whole answer, unless bytes were lost and others late.
THEOREM ValuesOfOneAnswer == Spec => []OfOneAnswer
BY FramedInvariant, PTL

-----------------------------------------------------------------------------
(***************************************************************************)
(* Registers are decoded to floats. Induction has the form of a set of      *)
(* numbers, as the provers take no operator for an argument.                *)
(***************************************************************************)

LEMMA Least ==
  ASSUME NEW S \in SUBSET Nat, S # {}
  PROVE  \E x \in S : \A y \in S : x <= y
<1> DEFINE R == OpToRel(<, Nat)
<1>1. PICK x \in S : \A y \in S : ~ (<<y, x>> \in R)
  <2>1. IsWellFoundedOn(R, Nat)
    BY NatLessThanWellFounded
  <2> HIDE DEF R
  <2> QED
    BY <2>1, WFMin
<1>2. \A y, z \in Nat : <<y, z>> \in R <=> y < z
  BY DEF R, OpToRel
<1>3. ASSUME NEW y \in S PROVE x <= y
  <2> HIDE DEF R
  <2>1. x \in Nat /\ y \in Nat /\ ~ (y < x)
    BY <1>1, <1>2
  <2> QED
    BY <2>1
<1> QED
  BY <1>1, <1>3

LEMMA SetInduction ==
  ASSUME NEW S, 0 \in S, \A n \in Nat : n \in S => n + 1 \in S
  PROVE  Nat \subseteq S
<1> SUFFICES ASSUME Nat \ S # {} PROVE FALSE
  OBVIOUS
<1>1. PICK x \in Nat \ S : \A y \in Nat \ S : x <= y
  BY Least
<1>2. x - 1 \in Nat /\ x - 1 < x
  BY <1>1
<1> QED
  BY <1>1, <1>2

Computes(f, F, x, N) == f[0] = x /\ \A n \in 1..N : f[n] = F[n][f[n - 1]]

\* A loop that is written as a recursive function computes a value in every round.
LEMMA Rounds ==
  ASSUME NEW T, NEW N \in Nat, NEW F \in [1..N -> [T -> T]], NEW x \in T
  PROVE  \E f \in [0..N -> T] : Computes(f, F, x, N)
<1> DEFINE Is(f, j) == f \in [0..j -> T] /\ f[0] = x /\ \A n \in 1..j : f[n] = F[n][f[n - 1]]
           S == {j \in Nat : j <= N => \E f : Is(f, j)}
<1>1. 0 \in S
  <2>1. Is([n \in 0..0 |-> x], 0)
    OBVIOUS
  <2> QED
    BY <2>1
<1>2. ASSUME NEW j \in Nat, j \in S PROVE j + 1 \in S
  <2> SUFFICES ASSUME j + 1 <= N PROVE \E f : Is(f, j + 1)
    <3>1. j + 1 \in Nat
      OBVIOUS
    <3> HIDE DEF Is
    <3> QED
      BY <3>1, Zenon DEF S
  <2>1. PICK f : Is(f, j)
    BY <1>2
  <2> DEFINE g == [n \in 0..j + 1 |-> IF n = j + 1 THEN F[j + 1][f[j]] ELSE f[n]]
  <2>2. F[j + 1] \in [T -> T] /\ f[j] \in T
    BY <2>1
  <2>3. g \in [0..j + 1 -> T] /\ g[0] = x
    BY <2>1, <2>2
  <2>4. ASSUME NEW n \in 1..j + 1 PROVE g[n] = F[n][g[n - 1]]
    <3>1. n - 1 \in 0..j /\ n - 1 # j + 1 /\ g[n - 1] = f[n - 1]
      OBVIOUS
    <3>2. CASE n = j + 1
      BY <3>1, <3>2
    <3>3. CASE n \in 1..j
      BY <2>1, <3>1, <3>3
    <3> QED
      BY <3>2, <3>3
  <2>5. Is(g, j + 1)
    <3> HIDE DEF g
    <3> QED
      BY <2>3, <2>4 DEF Is
  <2> HIDE DEF Is, g
  <2> QED
    BY <2>5
<1> HIDE DEF Is
<1>3. Nat \subseteq S
  <2> HIDE DEF S
  <2> QED
    BY <1>1, <1>2, SetInduction
<1>4. \E f : Is(f, N)
  BY <1>3
<1> QED
  BY <1>4 DEF Is, Computes

LEMMA Powers ==
  /\ Pow2 \in [Nat -> Nat] /\ Pow2[0] = 1
  /\ \A n \in Nat : Pow2[n + 1] = 2 * Pow2[n] /\ Pow2[n] > 0
<1> DEFINE Is(f, w) == f \in [0..w -> Nat] /\ f[0] = 1 /\ \A n \in 1..w : f[n] = 2 * f[n - 1]
           some(n) == CHOOSE f : Is(f, n)
           p == [n \in Nat |-> some(n)[n]]
           Step(f) == f = [n \in Nat |-> IF n = 0 THEN 1 ELSE 2 * f[n - 1]]
<1>1. ASSUME NEW w \in Nat PROVE \E f : Is(f, w)
  <2> DEFINE F == [n \in 1..w |-> [y \in Nat |-> 2 * y]]
  <2>1. F \in [1..w -> [Nat -> Nat]]
    OBVIOUS
  <2>2. \A n \in 1..w, y \in Nat : F[n][y] = 2 * y
    OBVIOUS
  <2> HIDE DEF F
  <2>3. PICK f \in [0..w -> Nat] : Computes(f, F, 1, w)
    <3>1. 1 \in Nat
      OBVIOUS
    <3> QED
      BY <2>1, <3>1, Rounds
  <2>4. ASSUME NEW n \in 1..w PROVE f[n] = 2 * f[n - 1]
    <3>1. f[n - 1] \in Nat
      OBVIOUS
    <3> QED
      BY <2>2, <2>3, <3>1 DEF Computes
  <2> QED
    BY <2>3, <2>4 DEF Computes
<1>2. ASSUME NEW j \in Nat, NEW k \in Nat, NEW f, NEW g, Is(f, j), Is(g, k)
      PROVE  \A n \in Nat : n <= j /\ n <= k => f[n] = g[n]
  <2> DEFINE S == {n \in Nat : n <= j /\ n <= k => f[n] = g[n]}
  <2>1. 0 \in S
    BY <1>2
  <2>2. ASSUME NEW n \in Nat, n \in S PROVE n + 1 \in S
    <3>1. n + 1 <= j => f[n + 1] = 2 * f[n]
      BY <1>2
    <3>2. n + 1 <= k => g[n + 1] = 2 * g[n]
      BY <1>2
    <3> QED
      BY <2>2, <3>1, <3>2
  <2>3. Nat \subseteq S
    <3> HIDE DEF S
    <3> QED
      BY <2>1, <2>2, SetInduction
  <2> QED
    BY <2>3
<1>3. ASSUME NEW n \in Nat PROVE Is(some(n), n)
  <2> HIDE DEF Is
  <2> QED
    BY <1>1
<1> HIDE DEF some
<1>4. p \in [Nat -> Nat] /\ p[0] = 1
  <2>1. ASSUME NEW n \in Nat PROVE p[n] \in Nat
    BY <1>3
  <2>2. p[0] = 1
    BY <1>3
  <2> QED
    BY <2>1, <2>2
<1>5. ASSUME NEW n \in Nat PROVE p[n + 1] = 2 * p[n]
  <2> DEFINE f == some(n)
             g == some(n + 1)
  <2>1. Is(f, n) /\ Is(g, n + 1) /\ n + 1 \in Nat
    <3> HIDE DEF Is
    <3>1. n + 1 \in Nat
      OBVIOUS
    <3> QED
      BY <1>3, <3>1
  <2>2. p[n] = f[n] /\ p[n + 1] = g[n + 1]
    OBVIOUS
  <2> HIDE DEF f, g, p
  <2>3. g[n] = f[n]
    <3> HIDE DEF Is
    <3>1. \A k \in Nat : k <= n /\ k <= n + 1 => f[k] = g[k]
      BY <1>2, <2>1
    <3> QED
      BY <3>1
  <2>4. g[n + 1] = 2 * g[n]
    BY <2>1
  <2> QED
    BY <2>2, <2>3, <2>4
<1> HIDE DEF p
<1>6. Step(p)
  <2>1. ASSUME NEW n \in Nat PROVE p[n] = IF n = 0 THEN 1 ELSE 2 * p[n - 1]
    <3>1. CASE n = 0
      BY <1>4, <3>1
    <3>2. CASE n # 0
      <4>1. n - 1 \in Nat /\ n - 1 + 1 = n
        BY <3>2
      <4> QED
        BY <1>5, <3>2, <4>1
    <3> QED
      BY <3>1, <3>2
  <2> QED
    BY <1>4, <2>1
<1>7. Step(Pow2)
  <2>1. Pow2 = CHOOSE f : Step(f)
    BY DEF Pow2
  <2> HIDE DEF Step
  <2> QED
    BY <1>6, <2>1
<1>8. Pow2[0] = 1 /\ \A n \in Nat : Pow2[n + 1] = 2 * Pow2[n]
  <2>1. Pow2[0] = 1
    BY <1>7
  <2>2. ASSUME NEW n \in Nat PROVE Pow2[n + 1] = 2 * Pow2[n]
    <3>1. n + 1 \in Nat /\ n + 1 # 0 /\ n + 1 - 1 = n
      OBVIOUS
    <3> QED
      BY <1>7, <3>1
  <2> QED
    BY <2>1, <2>2
<1> DEFINE S == {n \in Nat : Pow2[n] \in Nat /\ Pow2[n] > 0}
<1>9. Nat \subseteq S
  <2>1. 0 \in S
    BY <1>8
  <2>2. ASSUME NEW n \in Nat, n \in S PROVE n + 1 \in S
    BY <1>8, <2>2
  <2> HIDE DEF S
  <2> QED
    BY <2>1, <2>2, SetInduction
<1>10. Pow2 \in [Nat -> Nat]
  <2>1. Pow2 = [n \in Nat |-> Pow2[n]]
    BY <1>7
  <2> QED
    BY <1>9, <2>1
<1> QED
  BY <1>8, <1>9, <1>10

LEMMA PowersAdd ==
  ASSUME NEW j \in Nat, NEW n \in Nat
  PROVE  Pow2[j + n] = Pow2[j] * Pow2[n]
<1> DEFINE S == {k \in Nat : Pow2[j + k] = Pow2[j] * Pow2[k]}
<1>1. \A k \in Nat : Pow2[k] \in Nat
  BY Powers
<1>2. 0 \in S
  BY Powers
<1>3. ASSUME NEW k \in Nat, k \in S PROVE k + 1 \in S
  <2> DEFINE a == Pow2[j]
             b == Pow2[k]
  <2>1. a \in Nat /\ b \in Nat /\ Pow2[j + k] = a * b
    BY <1>1, <1>3
  <2>2. Pow2[j + (k + 1)] = 2 * Pow2[j + k]
    <3>1. j + k \in Nat /\ j + k + 1 = j + (k + 1)
      OBVIOUS
    <3> QED
      BY <3>1, Powers
  <2>3. Pow2[k + 1] = 2 * b
    BY Powers
  <2> HIDE DEF a, b
  <2>4. 2 * (a * b) = a * (2 * b)
    BY <2>1
  <2> QED
    BY <2>1, <2>2, <2>3, <2>4 DEF a
<1>4. Nat \subseteq S
  <2> HIDE DEF S
  <2> QED
    BY <1>2, <1>3, SetInduction
<1> QED
  BY <1>4

LEMMA PowersGrow ==
  ASSUME NEW j \in Nat, NEW n \in Nat, j <= n
  PROVE  Pow2[j] <= Pow2[n]
<1> DEFINE k == n - j
<1>1. k \in Nat /\ j + k = n
  OBVIOUS
<1> HIDE DEF k
<1>2. Pow2[n] = Pow2[j] * Pow2[k]
  BY <1>1, PowersAdd
<1>3. Pow2[j] \in Nat /\ Pow2[k] \in Nat /\ Pow2[k] > 0
  BY <1>1, Powers
<1> DEFINE a == Pow2[j]
           b == Pow2[k]
<1>4. a \in Nat /\ b \in Nat /\ b > 0 /\ Pow2[n] = a * b
  BY <1>2, <1>3
<1> HIDE DEF a, b
<1>5. a * b >= a
  <2>1. a * (b - 1) = a * b - a /\ b - 1 \in Nat
    BY <1>4
  <2>2. a * (b - 1) >= 0
    BY <1>4, <2>1
  <2> QED
    BY <1>4, <2>1, <2>2
<1> QED
  BY <1>4, <1>5 DEF a

\* What remains of n when its last bits, whose weights are below p, are cut off.
LEMMA Halves ==
  ASSUME NEW r \in Nat, NEW p \in Nat, p > 0
  PROVE  /\ r \div p \in Nat /\ (r \div p) % 2 \in {0, 1}
         /\ r \div p = 2 * (r \div (2 * p)) + ((r \div p) % 2)
<1> DEFINE q == r \div p
           g == r \div (2 * p)
           b == q % 2
<1>1. q \in Nat
  OBVIOUS
<1>2. q \div 2 = g
  OBVIOUS
<1> HIDE DEF q, g
<1>3. b = q - 2 * (q \div 2) /\ b \in {0, 1} /\ q \div 2 \in Nat
  BY <1>1
<1> HIDE DEF b
<1>4. q = 2 * g + b
  BY <1>1, <1>2, <1>3
<1> QED
  BY <1>1, <1>3, <1>4, Zenon DEF q, g, b

LEMMA Division ==
  ASSUME NEW r \in Nat, NEW p \in Nat, p > 0
  PROVE  r \div p \in Nat /\ r % p \in 0..p - 1 /\ r % p = r - p * (r \div p)
<1>1. r \div p \in Nat /\ r % p = r - p * (r \div p)
  OBVIOUS
<1>2. r % p \in 0..p - 1
  OBVIOUS
<1> QED
  BY <1>1, <1>2

LEMMA DivisionIs ==
  ASSUME NEW r \in Nat, NEW p \in Nat, p > 0, NEW q \in Int, NEW s \in 0..p - 1, r = p * q + s
  PROVE  r \div p = q /\ r % p = s
OBVIOUS

-----------------------------------------------------------------------------
\* The bits of a register
Width == ExpBits + FracBits

\* The first i bits after the sign, and the sign.
Top(r, i) == r \div Pow2[Width - i]

LEMMA Widths == ExpBits \in Nat /\ FracBits \in Nat /\ Width \in Nat /\ ExpBits > 0 /\ FracBits > 0
BY WidthsAssumption DEF Width

LEMMA BitIs == ASSUME NEW r, NEW i \in 0..Width PROVE Bit(r, i) = Top(r, i) % 2
<1>1. ExpBits + FracBits - i = Width - i
  BY Widths DEF Width
<1> QED
  BY <1>1, Zenon DEF Bit, Top

LEMMA TopBits ==
  ASSUME NEW r \in Nat, NEW i \in 0..Width
  PROVE  /\ Top(r, i) \in Nat /\ Bit(r, i) \in {0, 1}
         /\ i > 0 => Top(r, i) = 2 * Top(r, i - 1) + Bit(r, i)
<1> DEFINE k == Width - i
           p == Pow2[k]
<1>1. k \in Nat /\ p \in Nat /\ p > 0
  BY Widths, Powers
<1>2. Top(r, i) = r \div p
  BY DEF Top
<1>4. Bit(r, i) = Top(r, i) % 2
  BY BitIs
<1>3. i > 0 => Top(r, i - 1) = r \div (2 * p)
  <2>1. Width - (i - 1) = k + 1
    BY Widths
  <2> HIDE DEF k
  <2>2. Pow2[k + 1] = 2 * p
    BY <1>1, Powers
  <2> QED
    BY <2>1, <2>2 DEF Top
<1> HIDE DEF k, p
<1>5. /\ r \div p \in Nat /\ (r \div p) % 2 \in {0, 1}
      /\ r \div p = 2 * (r \div (2 * p)) + ((r \div p) % 2)
  BY <1>1, Halves
<1> QED
  BY <1>2, <1>3, <1>4, <1>5, Zenon

\* The sum over the last n of the first b bits.
LEMMA SumOfBits ==
  ASSUME NEW r \in Nat, NEW b \in 0..Width, NEW n \in 0..b, NEW s,
         s[0] = 0, \A j \in 1..n : s[j] = s[j - 1] + Pow2[j - 1] * Bit(r, b + 1 - j)
  PROVE  s[n] = Top(r, b) - Pow2[n] * Top(r, b - n)
<1> DEFINE S == {j \in Nat : j <= n => s[j] = Top(r, b) - Pow2[j] * Top(r, b - j)}
<1>0. n \in Nat /\ b \in Nat /\ Width \in Nat
  BY Widths
<1>1. 0 \in S
  <2>1. b - 0 = b /\ Top(r, b) \in Nat
    BY <1>0, TopBits
  <2> QED
    BY <2>1, Powers
<1>2. ASSUME NEW j \in Nat, j \in S PROVE j + 1 \in S
  <2> SUFFICES ASSUME j + 1 <= n PROVE s[j + 1] = Top(r, b) - Pow2[j + 1] * Top(r, b - (j + 1))
    OBVIOUS
  <2> DEFINE a == Pow2[j]
             t == Top(r, b - j)
             u == Top(r, b - (j + 1))
             v == Bit(r, b - j)
             w == Top(r, b)
  <2>1. j + 1 \in 1..n /\ j + 1 - 1 = j /\ b + 1 - (j + 1) = b - j
    BY <1>0
  <2>2. b - j \in 0..Width /\ b - j > 0 /\ b - j - 1 = b - (j + 1) /\ b - (j + 1) \in 0..Width
    BY <1>0
  <2>3. s[j + 1] = s[j] + a * v
    BY <2>1
  <2>4. s[j] = w - a * t
    BY <1>0, <1>2
  <2>5. t \in Nat /\ u \in Nat /\ v \in Nat /\ w \in Nat /\ t = 2 * u + v
    <3>1. v \in {0, 1}
      BY <2>2, TopBits
    <3> HIDE DEF v
    <3>2. v \in Nat
      BY <3>1
    <3>3. t = 2 * u + v
      BY <2>2, TopBits DEF v
    <3> QED
      BY <2>2, <3>2, <3>3, TopBits
  <2>6. a \in Nat /\ Pow2[j + 1] = 2 * a
    BY Powers
  <2> HIDE DEF a, t, u, v, w
  <2>7. a * t = (2 * a) * u + a * v
    <3>1. a * (2 * u + v) = (2 * a) * u + a * v
      BY <2>5, <2>6
    <3> QED
      BY <2>5, <3>1
  <2>8. s[j + 1] = w - (2 * a) * u
    <3> DEFINE x == a * v
               y == (2 * a) * u
    <3>1. x \in Int /\ y \in Int
      BY <2>5, <2>6
    <3>2. s[j] = w - (y + x) /\ s[j + 1] = s[j] + x
      BY <2>3, <2>4, <2>7
    <3> HIDE DEF x, y
    <3>3. s[j + 1] = w - y
      BY <2>5, <3>1, <3>2
    <3> QED
      BY <3>3 DEF y
  <2> QED
    BY <2>6, <2>8 DEF u, w
<1>3. Nat \subseteq S
  <2> HIDE DEF S
  <2> QED
    BY <1>1, <1>2, SetInduction
<1>4. n \in S
  BY <1>3, <1>0
<1> QED
  BY <1>0, <1>4

LEMMA SumBounds ==
  ASSUME NEW r \in Nat, NEW b \in 0..Width, NEW n \in 0..b, NEW s,
         s[0] = 0, \A j \in 1..n : s[j] = s[j - 1] + Pow2[j - 1] * Bit(r, b + 1 - j)
  PROVE  s[n] \in 0..Pow2[n] - 1
<1> DEFINE S == {j \in Nat : j <= n => s[j] \in 0..Pow2[j] - 1}
<1>0. n \in Nat /\ b \in Nat /\ Width \in Nat
  BY Widths
<1>1. 0 \in S
  BY Powers
<1>2. ASSUME NEW j \in Nat, j \in S PROVE j + 1 \in S
  <2> SUFFICES ASSUME j + 1 <= n PROVE s[j + 1] \in 0..Pow2[j + 1] - 1
    OBVIOUS
  <2> DEFINE a == Pow2[j]
             v == Bit(r, b - j)
  <2>1. j + 1 \in 1..n /\ j + 1 - 1 = j /\ b + 1 - (j + 1) = b - j /\ b - j \in 0..Width
    BY <1>0
  <2>2. s[j + 1] = s[j] + a * v
    BY <2>1
  <2>3. v \in {0, 1}
    BY <2>1, TopBits
  <2>4. s[j] \in 0..a - 1
    BY <1>0, <1>2
  <2>5. a \in Nat /\ Pow2[j + 1] = 2 * a
    BY Powers
  <2> HIDE DEF a, v
  <2>6. a * v \in {0, a}
    BY <2>3, <2>5
  <2> QED
    BY <2>2, <2>4, <2>5, <2>6
<1>3. Nat \subseteq S
  <2> HIDE DEF S
  <2> QED
    BY <1>1, <1>2, SetInduction
<1>4. n \in S
  BY <1>3, <1>0
<1> QED
  BY <1>0, <1>4

\* The loop over the bits of the exponent does what it is meant to.
LEMMA ExponentialSteps ==
  ASSUME NEW r \in Nat
  PROVE  \E s : /\ Exponential(r) = s[ExpBits] /\ s[0] = 0
                /\ \A j \in 1..ExpBits : s[j] = s[j - 1] + Pow2[j - 1] * Bit(r, ExpBits + 1 - j)
<1> DEFINE Step(f) == f = [n \in 0..ExpBits |->
                             IF n = 0 THEN 0
                             ELSE f[n - 1] + Pow2[n - 1] * Bit(r, ExpBits + 1 - n)]
           s == CHOOSE f : Step(f)
           term(n) == Pow2[n - 1] * Bit(r, ExpBits + 1 - n)
           F == [n \in 1..ExpBits |-> [y \in Int |-> y + term(n)]]
<1>1. ASSUME NEW n \in 1..ExpBits PROVE term(n) \in Int
  <2>1. n - 1 \in Nat /\ ExpBits + 1 - n \in 0..Width
    BY Widths DEF Width
  <2>2. Pow2[n - 1] \in Nat /\ Bit(r, ExpBits + 1 - n) \in {0, 1}
    BY <2>1, Powers, TopBits
  <2> DEFINE a == Pow2[n - 1]
             v == Bit(r, ExpBits + 1 - n)
  <2>3. a \in Int /\ v \in Int
    BY <2>2
  <2> HIDE DEF a, v
  <2>4. a * v \in Int
    BY <2>3
  <2> QED
    BY <2>4 DEF a, v
<1> HIDE DEF term
<1>2. F \in [1..ExpBits -> [Int -> Int]] /\ \A n \in 1..ExpBits, y \in Int : F[n][y] = y + term(n)
  BY <1>1
<1> HIDE DEF F
<1>3. PICK f \in [0..ExpBits -> Int] : Computes(f, F, 0, ExpBits)
  <2>1. 0 \in Int
    OBVIOUS
  <2> QED
    BY <1>2, <2>1, Widths, Rounds
<1>4. ASSUME NEW n \in 1..ExpBits PROVE f[n] = f[n - 1] + term(n)
  <2>1. n - 1 \in 0..ExpBits
    BY Widths
  <2>2. f[n - 1] \in Int /\ f[n] = F[n][f[n - 1]]
    BY <1>3, <2>1 DEF Computes
  <2> QED
    BY <1>2, <2>2
<1>5. Step(f)
  <2>1. ASSUME NEW n \in 0..ExpBits
        PROVE  f[n] = IF n = 0 THEN 0 ELSE f[n - 1] + Pow2[n - 1] * Bit(r, ExpBits + 1 - n)
    <3>1. CASE n = 0
      BY <1>3, <3>1 DEF Computes
    <3>2. CASE n # 0
      <4>1. n \in 1..ExpBits
        BY <3>2, Widths
      <4> QED
        BY <1>4, <3>2, <4>1 DEF term
    <3> QED
      BY <3>1, <3>2
  <2> QED
    BY <2>1
<1>6. Step(s)
  <2> HIDE DEF Step
  <2> QED
    BY <1>5
<1>7. Exponential(r) = s[ExpBits]
  BY DEF Exponential
<1>8. s[0] = 0 /\ \A j \in 1..ExpBits : s[j] = s[j - 1] + Pow2[j - 1] * Bit(r, ExpBits + 1 - j)
  <2> HIDE DEF s
  <2>1. s[0] = 0
    BY <1>6, Widths
  <2>2. ASSUME NEW j \in 1..ExpBits PROVE s[j] = s[j - 1] + Pow2[j - 1] * Bit(r, ExpBits + 1 - j)
    <3>1. j \in 0..ExpBits /\ j # 0
      BY Widths
    <3> QED
      BY <1>6, <3>1
  <2> QED
    BY <2>1, <2>2
<1> QED
  BY <1>7, <1>8

\* A register is below twice the weight of its sign.
LEMMA SignIs ==
  ASSUME NEW r \in Registers
  PROVE  /\ r \in Nat /\ Top(r, 0) \in {0, 1} /\ Bit(r, 0) = Top(r, 0)
         /\ Top(r, 0) = 1 <=> r >= Pow2[ExpBits + FracBits]
<1> DEFINE p == Pow2[Width]
<1>1. p \in Nat /\ p > 0 /\ Pow2[Width + 1] = 2 * p
  BY Widths, Powers
<1>2. 1 + ExpBits + FracBits = Width + 1 /\ ExpBits + FracBits = Width /\ Width - 0 = Width
  BY Widths DEF Width
<1>3. r \in 0..2 * p - 1
  BY <1>1, <1>2 DEF Registers
<1>4. Top(r, 0) = r \div p
  BY <1>2 DEF Top
<1> HIDE DEF p
<1>5. CASE r < p
  <2>1. r = p * 0 + r /\ r \in 0..p - 1 /\ r \in Nat
    BY <1>1, <1>3, <1>5
  <2>2. r \div p = 0
    BY <1>1, <2>1, DivisionIs
  <2>3. Bit(r, 0) = 0
    <3>1. 0 \in 0..Width
      BY Widths
    <3>2. Bit(r, 0) = Top(r, 0) % 2
      BY <3>1, BitIs
    <3> QED
      BY <1>4, <2>2, <3>2
  <2> QED
    BY <1>1, <1>2, <1>4, <1>5, <2>1, <2>2, <2>3 DEF p
<1>6. CASE r >= p
  <2>1. r = p * 1 + (r - p) /\ r - p \in 0..p - 1 /\ r \in Nat
    BY <1>1, <1>3, <1>6
  <2>2. r \div p = 1
    BY <1>1, <2>1, DivisionIs
  <2>3. Bit(r, 0) = 1
    <3>1. 0 \in 0..Width
      BY Widths
    <3>2. Bit(r, 0) = Top(r, 0) % 2
      BY <3>1, BitIs
    <3> QED
      BY <1>4, <2>2, <3>2
  <2> QED
    BY <1>1, <1>2, <1>4, <1>6, <2>1, <2>2, <2>3 DEF p
<1> QED
  BY <1>1, <1>3, <1>5, <1>6

LEMMA ExponentialIs ==
  ASSUME NEW r \in Registers
  PROVE  /\ Exponential(r) = (r \div Pow2[FracBits]) % Pow2[ExpBits]
         /\ Exponential(r) \in 0..MaxExponential
<1>1. r \in Nat
  BY SignIs
<1>2. PICK s : /\ Exponential(r) = s[ExpBits] /\ s[0] = 0
               /\ \A j \in 1..ExpBits : s[j] = s[j - 1] + Pow2[j - 1] * Bit(r, ExpBits + 1 - j)
  BY <1>1, ExponentialSteps
<1>3. ExpBits \in 0..Width /\ ExpBits \in 0..ExpBits /\ 0 \in 0..Width
  BY Widths DEF Width
<1> DEFINE e == Exponential(r)
           p == Pow2[ExpBits]
           t == Top(r, ExpBits)
           u == Top(r, 0)
<1>4. s[ExpBits] = t - p * Top(r, ExpBits - ExpBits)
  BY <1>1, <1>2, <1>3, SumOfBits
<1>5. e = t - p * u
  <2>1. ExpBits - ExpBits = 0
    BY Widths
  <2> QED
    BY <1>2, <1>4, <2>1
<1>6. s[ExpBits] \in 0..p - 1
  BY <1>1, <1>2, <1>3, SumBounds
<1>7. t = r \div Pow2[FracBits]
  <2>1. Width - ExpBits = FracBits
    BY Widths DEF Width
  <2> QED
    BY <2>1 DEF Top
<1>8. t \in Nat /\ u \in Nat /\ p \in Nat /\ p > 0 /\ e \in 0..p - 1
  BY <1>1, <1>2, <1>3, <1>6, TopBits, Powers, Widths
<1> HIDE DEF e, p, t, u
<1>9. t = p * u + e
  <2> DEFINE x == p * u
  <2>1. x \in Int /\ e = t - x
    BY <1>5, <1>8
  <2> HIDE DEF x
  <2>2. t = x + e
    BY <1>8, <2>1
  <2> QED
    BY <2>2 DEF x
<1>10. t % p = e
  BY <1>8, <1>9, DivisionIs
<1> QED
  BY <1>7, <1>8, <1>10 DEF e, p, MaxExponential

Term(r, i) == Pow2[Exponential(r) + FracBits - i] * Mantisa(r, i)

LEMMA TermType ==
  ASSUME NEW r \in Registers, NEW i \in 0..FracBits
  PROVE  /\ Exponential(r) + FracBits - i \in Nat
         /\ Mantisa(r, i) \in {0, 1} /\ Term(r, i) \in Nat
<1> DEFINE k == Exponential(r) + FracBits - i
           a == Pow2[k]
           v == Mantisa(r, i)
<1>1. k \in Nat
  BY ExponentialIs, Widths, Powers DEF MaxExponential
<1>2. a \in Nat
  BY <1>1, Powers
<1>3. v \in {0, 1}
  <2>1. r \in Nat /\ ExpBits + i \in 0..Width
    BY SignIs, Widths DEF Width
  <2> QED
    BY <2>1, TopBits DEF Mantisa
<1> HIDE DEF a, v
<1>4. a * v \in Nat
  BY <1>2, <1>3
<1> QED
  BY <1>1, <1>3, <1>4 DEF a, v, Term

LEMMA ToFloatIs ==
  /\ Infinity \in Nat
  /\ \A v \in Int : /\ ToFloat(v) \in Int
                    /\ v >= Infinity => ToFloat(v) = Infinity
                    /\ v < Infinity => ToFloat(v) \in {v - 1, v, v + 1}
                    /\ v < Infinity /\ v % 2 = 0 => ToFloat(v) = v
<1>1. Infinity \in Nat
  <2>1. MaxExponential + FracBits \in Nat
    BY Widths, Powers DEF MaxExponential
  <2> QED
    BY <2>1, Powers DEF Infinity
<1>2. ASSUME NEW v \in Int, v >= Infinity PROVE ToFloat(v) = Infinity
  BY <1>1, <1>2 DEF ToFloat
<1>3. ASSUME NEW v \in Int, v < Infinity
      PROVE  /\ ToFloat(v) \in {v - 1, v, v + 1}
             /\ v % 2 = 0 => ToFloat(v) = v
  <2>1. ~ (v >= Infinity)
    BY <1>1, <1>3
  <2>2. CASE v % 4 = 1
    BY <1>1, <1>3, <2>1, <2>2 DEF ToFloat
  <2>3. CASE v % 4 = 3
    BY <1>1, <1>3, <2>1, <2>3 DEF ToFloat
  <2>4. CASE v % 4 # 1 /\ v % 4 # 3
    BY <1>1, <1>3, <2>1, <2>4 DEF ToFloat
  <2> QED
    BY <2>2, <2>3, <2>4
<1>4. ASSUME NEW v \in Int PROVE ToFloat(v) \in Int
  BY <1>1, <1>2, <1>3
<1> QED
  BY <1>1, <1>2, <1>3, <1>4

\* The loop over the bits of the mantissa.
LEMMA ValueSteps ==
  ASSUME NEW r \in Registers
  PROVE  /\ Value(r)[0] = ToFloat(Term(r, 0))
         /\ \A i \in 1..FracBits : Value(r)[i] = ToFloat(Value(r)[i - 1] + Term(r, i))
<1> DEFINE Step(f) == f = [i \in 0..FracBits |->
                             LET term == Pow2[Exponential(r) + FracBits - i] * Mantisa(r, i) IN
                             IF i = 0 THEN ToFloat(term) ELSE ToFloat(f[i - 1] + term)]
           Plain(f) == f = [i \in 0..FracBits |->
                              IF i = 0 THEN ToFloat(Term(r, i)) ELSE ToFloat(f[i - 1] + Term(r, i))]
           s == CHOOSE f : Step(f)
           F == [n \in 1..FracBits |-> [y \in Int |-> ToFloat(y + Term(r, n))]]
           x == ToFloat(Term(r, 0))
<1>0. \A f : Step(f) <=> Plain(f)
  BY DEF Term
<1>1. F \in [1..FracBits -> [Int -> Int]] /\ x \in Int
      /\ \A n \in 1..FracBits, y \in Int : F[n][y] = ToFloat(y + Term(r, n))
  <2>1. \A n \in 0..FracBits : Term(r, n) \in Int
    BY TermType
  <2>2. \A n \in 1..FracBits, y \in Int : y + Term(r, n) \in Int
    BY <2>1, Widths
  <2>3. x \in Int
    BY <2>1, ToFloatIs, Widths
  <2> QED
    BY <2>2, <2>3, ToFloatIs
<1> HIDE DEF F
<1>2. PICK f \in [0..FracBits -> Int] : Computes(f, F, x, FracBits)
  BY <1>1, Widths, Rounds
<1>3. ASSUME NEW n \in 1..FracBits PROVE f[n] = ToFloat(f[n - 1] + Term(r, n))
  <2>1. n - 1 \in 0..FracBits
    BY Widths
  <2>2. f[n - 1] \in Int /\ f[n] = F[n][f[n - 1]]
    BY <1>2, <2>1 DEF Computes
  <2> QED
    BY <1>1, <2>2
<1>4. Plain(f)
  <2>1. ASSUME NEW n \in 0..FracBits
        PROVE  f[n] = IF n = 0 THEN ToFloat(Term(r, n)) ELSE ToFloat(f[n - 1] + Term(r, n))
    <3>1. CASE n = 0
      BY <1>2, <3>1 DEF Computes
    <3>2. CASE n # 0
      <4>1. n \in 1..FracBits
        BY <3>2, Widths
      <4> QED
        BY <1>3, <3>2, <4>1
    <3> QED
      BY <3>1, <3>2
  <2> QED
    BY <2>1
<1>5. Plain(s)
  <2> HIDE DEF Step, Plain
  <2> QED
    BY <1>0, <1>4 DEF s
<1>6. Value(r) = s
  BY DEF Value
<1> HIDE DEF s
<1>7. s[0] = ToFloat(Term(r, 0))
  BY <1>5, Widths
<1>8. ASSUME NEW i \in 1..FracBits PROVE s[i] = ToFloat(s[i - 1] + Term(r, i))
  <2>1. i \in 0..FracBits /\ i # 0
    BY Widths
  <2> QED
    BY <1>5, <2>1
<1> QED
  BY <1>6, <1>7, <1>8

\* The 1 before the mantissa and its first i bits.
Lead(r, i) == Pow2[i] + (Top(r, ExpBits + i) - Pow2[i] * Top(r, ExpBits))

LEMMA LeadSteps ==
  ASSUME NEW r \in Registers
  PROVE  /\ Lead(r, 0) = 1
         /\ \A i \in 0..FracBits : Lead(r, i) \in Int
         /\ \A i \in 1..FracBits : Lead(r, i) = 2 * Lead(r, i - 1) + Mantisa(r, i)
<1>1. r \in Nat /\ ExpBits \in 0..Width
  BY SignIs, Widths DEF Width
<1> DEFINE u == Top(r, ExpBits)
<1>2. u \in Nat
  BY <1>1, TopBits
<1>3. Lead(r, 0) = 1
  <2>1. ExpBits + 0 = ExpBits
    BY Widths
  <2>2. Lead(r, 0) = 1 + (u - 1 * u)
    BY <2>1, Powers DEF Lead
  <2> HIDE DEF u
  <2> QED
    BY <1>2, <2>2
<1>4. ASSUME NEW i \in 0..FracBits PROVE Lead(r, i) \in Int /\ Top(r, ExpBits + i) \in Nat
  <2>1. ExpBits + i \in 0..Width
    BY Widths DEF Width
  <2> DEFINE t == Top(r, ExpBits + i)
             p == Pow2[i]
  <2>2. t \in Nat /\ p \in Nat
    BY <1>1, <2>1, TopBits, Powers
  <2>3. Lead(r, i) = p + (t - p * u)
    BY DEF Lead
  <2> HIDE DEF t, p, u
  <2>4. p * u \in Int
    BY <1>2, <2>2
  <2> QED
    BY <1>2, <2>2, <2>3, <2>4 DEF t
<1>5. ASSUME NEW i \in 1..FracBits PROVE Lead(r, i) = 2 * Lead(r, i - 1) + Mantisa(r, i)
  <2>1. /\ ExpBits + i \in 0..Width /\ ExpBits + i > 0 /\ ExpBits + i - 1 = ExpBits + (i - 1)
        /\ i - 1 \in 0..FracBits /\ i - 1 \in Nat /\ i - 1 + 1 = i /\ i # 0
    BY Widths DEF Width
  <2> DEFINE t == Top(r, ExpBits + i)
             q == Top(r, ExpBits + (i - 1))
             b == Mantisa(r, i)
             p == Pow2[i - 1]
  <2>2. t = 2 * q + b /\ t \in Nat /\ b \in {0, 1}
    BY <1>1, <2>1, TopBits DEF Mantisa
  <2>3. q \in Nat
    BY <1>4, <2>1
  <2>4. p \in Nat /\ Pow2[i] = 2 * p
    BY <2>1, Powers
  <2>5. Lead(r, i) = 2 * p + (t - (2 * p) * u) /\ Lead(r, i - 1) = p + (q - p * u)
    BY <2>4 DEF Lead
  <2> HIDE DEF t, q, b, p, u
  <2> DEFINE x == p * u
  <2>6. x \in Int /\ (2 * p) * u = 2 * x
    BY <1>2, <2>4
  <2> HIDE DEF x
  <2>7. Lead(r, i) = 2 * p + (t - 2 * x) /\ Lead(r, i - 1) = p + (q - x)
    BY <2>5, <2>6 DEF x
  <2>8. Lead(r, i) = 2 * Lead(r, i - 1) + b
    BY <2>2, <2>3, <2>4, <2>6, <2>7
  <2> QED
    BY <2>8 DEF b
<1> QED
  BY <1>3, <1>4, <1>5

LEMMA LeadBounds ==
  ASSUME NEW r \in Registers, NEW i \in 0..FracBits
  PROVE  Lead(r, i) >= Pow2[i] /\ Lead(r, i) <= 2 * Pow2[i] - 1
<1> DEFINE S == {j \in Nat : j <= FracBits => Lead(r, j) >= Pow2[j] /\ Lead(r, j) <= 2 * Pow2[j] - 1}
<1>1. 0 \in S
  BY LeadSteps, Powers
<1>2. ASSUME NEW j \in Nat, j \in S PROVE j + 1 \in S
  <2> SUFFICES ASSUME j + 1 <= FracBits
               PROVE Lead(r, j + 1) >= Pow2[j + 1] /\ Lead(r, j + 1) <= 2 * Pow2[j + 1] - 1
    OBVIOUS
  <2> DEFINE l == Lead(r, j)
             b == Mantisa(r, j + 1)
             p == Pow2[j]
  <2>1. j + 1 \in 1..FracBits /\ j + 1 - 1 = j /\ j \in 0..FracBits /\ j + 1 \in 0..FracBits
    BY Widths
  <2>2. Lead(r, j + 1) = 2 * l + b /\ l \in Int
    BY <2>1, LeadSteps
  <2>3. b \in {0, 1}
    BY <2>1, TermType
  <2>4. l >= p /\ l <= 2 * p - 1
    BY <1>2, <2>1
  <2>5. p \in Nat /\ Pow2[j + 1] = 2 * p
    BY Powers
  <2> HIDE DEF l, b, p
  <2> QED
    BY <2>2, <2>3, <2>4, <2>5
<1>3. Nat \subseteq S
  <2> HIDE DEF S
  <2> QED
    BY <1>1, <1>2, SetInduction
<1>4. i \in S
  BY <1>3, Widths
<1> QED
  BY <1>4, Widths

\* What value is after a round, if nothing is rounded.
Exact(r, i) == Pow2[Exponential(r) + FracBits - i] * Lead(r, i)

LEMMA ExactSteps ==
  ASSUME NEW r \in Registers
  PROVE  /\ Exact(r, 0) = Term(r, 0)
         /\ \A i \in 0..FracBits : Exact(r, i) \in Int
         /\ \A i \in 1..FracBits : Exact(r, i) = Exact(r, i - 1) + Term(r, i)
<1> DEFINE e == Exponential(r)
<1>1. e \in Nat
  BY ExponentialIs, Powers, Widths DEF MaxExponential
<1>2. Exact(r, 0) = Term(r, 0)
  BY LeadSteps DEF Exact, Term, Mantisa
<1>3. ASSUME NEW i \in 0..FracBits PROVE Exact(r, i) \in Int
  <2> DEFINE a == Pow2[e + FracBits - i]
             l == Lead(r, i)
  <2>1. a \in Int /\ l \in Int
    BY TermType, LeadSteps, Powers
  <2> HIDE DEF a, l
  <2>2. a * l \in Int
    BY <2>1
  <2> QED
    BY <2>2 DEF a, l, Exact
<1>4. ASSUME NEW i \in 1..FracBits PROVE Exact(r, i) = Exact(r, i - 1) + Term(r, i)
  <2> DEFINE k == e + FracBits - i
             a == Pow2[k]
             l == Lead(r, i - 1)
             b == Mantisa(r, i)
  <2>1. k \in Nat /\ i \in 0..FracBits /\ i - 1 \in 0..FracBits /\ e + FracBits - (i - 1) = k + 1
    BY <1>1, Widths
  <2>2. a \in Nat /\ Pow2[k + 1] = 2 * a
    BY <2>1, Powers
  <2>3. l \in Int /\ b \in {0, 1} /\ Lead(r, i) = 2 * l + b
    BY <2>1, LeadSteps, TermType
  <2>4. /\ Exact(r, i) = a * (2 * l + b) /\ Term(r, i) = a * b
        /\ Exact(r, i - 1) = (2 * a) * l
    <3>1. Exact(r, i) = a * (2 * l + b)
      BY <2>3 DEF Exact
    <3>2. Term(r, i) = a * b
      BY DEF Term
    <3>3. Exact(r, i - 1) = (2 * a) * l
      BY <2>1, <2>2 DEF Exact
    <3> QED
      BY <3>1, <3>2, <3>3
  <2> HIDE DEF k, a, l, b
  <2>5. a * (2 * l + b) = (2 * a) * l + a * b
    BY <2>2, <2>3
  <2> QED
    BY <2>4, <2>5
<1> QED
  BY <1>2, <1>3, <1>4

LEMMA ExactFits ==
  ASSUME NEW r \in Registers, Exponential(r) < MaxExponential, NEW i \in 0..FracBits
  PROVE  /\ Exact(r, i) < Infinity
         /\ Exponential(r) > 0 \/ i < FracBits => Exact(r, i) % 2 = 0
<1> DEFINE e == Exponential(r)
           k == e + FracBits - i
           a == Pow2[k]
           l == Lead(r, i)
           p == Pow2[i]
<1>1. e \in Nat /\ MaxExponential \in Nat /\ e + 1 <= MaxExponential /\ i \in Nat
  BY ExponentialIs, Powers, Widths DEF MaxExponential
<1>2. k \in Nat /\ a \in Nat /\ a > 0 /\ p \in Nat /\ l \in Int /\ l <= 2 * p - 1
  BY TermType, LeadSteps, LeadBounds, Powers, <1>1
<1>3. Exact(r, i) = a * l
  BY DEF Exact
<1>4. a * (2 * p) <= Infinity
  <2>1. Pow2[i + 1] = 2 * p /\ i + 1 \in Nat
    BY <1>1, Powers
  <2>2. k + (i + 1) = e + FracBits + 1 /\ e + FracBits + 1 \in Nat /\ MaxExponential + FracBits \in Nat
        /\ e + FracBits + 1 <= MaxExponential + FracBits
    BY <1>1, Widths
  <2>3. a * (2 * p) = Pow2[e + FracBits + 1]
    <3>1. Pow2[k + (i + 1)] = Pow2[k] * Pow2[i + 1]
      BY <1>2, <2>1, PowersAdd
    <3> HIDE DEF k, p
    <3> QED
      BY <2>1, <2>2, <3>1
  <2>4. Pow2[e + FracBits + 1] <= Pow2[MaxExponential + FracBits]
    BY <2>2, PowersGrow
  <2> QED
    BY <2>3, <2>4 DEF Infinity
<1>5. a * l < a * (2 * p)
  <2> HIDE DEF a, l, p, k
  <2> DEFINE c == 2 * p - l
  <2>1. c \in Nat /\ c > 0 /\ a * c = a * (2 * p) - a * l
    BY <1>2
  <2> HIDE DEF c
  <2>2. a * c > 0
    BY <1>2, <2>1
  <2>3. a * (2 * p) \in Int /\ a * l \in Int
    BY <1>2
  <2> QED
    BY <2>1, <2>2, <2>3
<1>6. ASSUME e > 0 \/ i < FracBits PROVE (a * l) % 2 = 0
  <2> DEFINE c == Pow2[k - 1]
  <2>1. k - 1 \in Nat /\ k - 1 + 1 = k
    BY <1>1, <1>6, Widths
  <2>2. c \in Nat /\ a = 2 * c
    BY <2>1, Powers
  <2> HIDE DEF a, l, c, k
  <2> DEFINE x == c * l
  <2>3. x \in Int /\ a * l = 2 * x
    BY <1>2, <2>2
  <2> HIDE DEF x
  <2> QED
    BY <2>3
<1>7. a * l < Infinity
  <2> HIDE DEF a, l, p, k
  <2>1. a * (2 * p) \in Int /\ a * l \in Int
    BY <1>2
  <2> QED
    BY <1>4, <1>5, <2>1, ToFloatIs
<1> QED
  BY <1>3, <1>6, <1>7

\* As long as nothing is below the smallest float, nothing is rounded.
LEMMA ValueIsExact ==
  ASSUME NEW r \in Registers, Exponential(r) < MaxExponential, NEW i \in 0..FracBits,
         Exponential(r) > 0 \/ i < FracBits
  PROVE  Value(r)[i] = Exact(r, i)
<1> DEFINE S == {j \in Nat : j <= i => Value(r)[j] = Exact(r, j)}
<1>1. ASSUME NEW j \in 0..i PROVE ToFloat(Exact(r, j)) = Exact(r, j)
  <2>1. j \in 0..FracBits /\ (Exponential(r) > 0 \/ j < FracBits)
    BY Widths
  <2>2. Exact(r, j) \in Int /\ Exact(r, j) < Infinity /\ Exact(r, j) % 2 = 0
    BY <2>1, ExactSteps, ExactFits
  <2> QED
    BY <2>2, ToFloatIs
<1>2. 0 \in S
  <2>1. 0 \in 0..i
    BY Widths
  <2> QED
    BY <1>1, <2>1, ValueSteps, ExactSteps
<1>3. ASSUME NEW j \in Nat, j \in S PROVE j + 1 \in S
  <2> SUFFICES ASSUME j + 1 <= i PROVE Value(r)[j + 1] = Exact(r, j + 1)
    OBVIOUS
  <2>1. j + 1 \in 1..FracBits /\ j + 1 - 1 = j /\ j <= i /\ j + 1 \in 0..i
    BY Widths
  <2>2. Value(r)[j + 1] = ToFloat(Exact(r, j) + Term(r, j + 1))
    BY <1>3, <2>1, ValueSteps
  <2>3. Exact(r, j + 1) = Exact(r, j) + Term(r, j + 1)
    BY <2>1, ExactSteps
  <2> QED
    BY <1>1, <2>1, <2>2, <2>3
<1>4. Nat \subseteq S
  <2> HIDE DEF S
  <2> QED
    BY <1>2, <1>3, SetInduction
<1>5. i \in S
  BY <1>4, Widths
<1> QED
  BY <1>5, Widths

LEMMA ValueIsInfinite ==
  ASSUME NEW r \in Registers, Exponential(r) = MaxExponential
  PROVE  Magnitude(r) = Infinity
<1> DEFINE S == {j \in Nat : j <= FracBits => Value(r)[j] = Infinity}
<1>1. 0 \in S
  <2>1. MaxExponential + FracBits - 0 = MaxExponential + FracBits
    BY Widths, Powers DEF MaxExponential
  <2>2. Term(r, 0) = Infinity * 1
    BY <2>1 DEF Term, Mantisa, Infinity
  <2>3. Term(r, 0) = Infinity
    BY <2>2, ToFloatIs
  <2> QED
    BY <2>3, ValueSteps, ToFloatIs
<1>2. ASSUME NEW j \in Nat, j \in S PROVE j + 1 \in S
  <2> SUFFICES ASSUME j + 1 <= FracBits PROVE Value(r)[j + 1] = Infinity
    OBVIOUS
  <2>1. j + 1 \in 1..FracBits /\ j + 1 - 1 = j /\ j <= FracBits /\ j + 1 \in 0..FracBits
    BY Widths
  <2>2. Value(r)[j + 1] = ToFloat(Infinity + Term(r, j + 1))
    BY <1>2, <2>1, ValueSteps
  <2>3. Term(r, j + 1) \in Nat
    BY <2>1, TermType
  <2>4. Infinity + Term(r, j + 1) \in Int /\ Infinity + Term(r, j + 1) >= Infinity
    BY <2>3, ToFloatIs
  <2> QED
    BY <2>2, <2>4, ToFloatIs
<1>3. Nat \subseteq S
  <2> HIDE DEF S
  <2> QED
    BY <1>1, <1>2, SetInduction
<1>4. FracBits \in S
  BY <1>3, Widths
<1> QED
  BY <1>4, Widths DEF Magnitude

LEMMA Fraction ==
  ASSUME NEW r \in Registers
  PROVE  /\ r % Pow2[FracBits] \in 0..Pow2[FracBits] - 1
         /\ Lead(r, FracBits) = Pow2[FracBits] + (r % Pow2[FracBits])
<1> DEFINE p == Pow2[FracBits]
<1>1. r \in Nat /\ p \in Nat /\ p > 0
  BY SignIs, Powers, Widths
<1>2. Top(r, ExpBits) = r \div p
  <2>1. Width - ExpBits = FracBits
    BY Widths DEF Width
  <2> QED
    BY <2>1 DEF Top
<1>3. Top(r, ExpBits + FracBits) = r
  <2>1. Width - (ExpBits + FracBits) = 0
    BY Widths DEF Width
  <2>2. Top(r, ExpBits + FracBits) = r \div 1
    BY <2>1, Powers DEF Top
  <2> QED
    BY <1>1, <2>2
<1>4. Lead(r, FracBits) = p + (r - p * (r \div p))
  BY <1>2, <1>3 DEF Lead
<1> HIDE DEF p
<1>5. r % p \in 0..p - 1 /\ r % p = r - p * (r \div p)
  BY <1>1, Division
<1>6. Lead(r, FracBits) = p + (r % p)
  BY <1>4, <1>5
<1> QED
  BY <1>5, <1>6 DEF p

\* What is decoded is infinite, exact, or below the smallest normal number.
LEMMA MagnitudeIs ==
  ASSUME NEW r \in Registers
  PROVE  LET e == Exponential(r)
             p == Pow2[FracBits]
             f == r % p IN
         /\ e = MaxExponential => Magnitude(r) = Infinity
         /\ e # MaxExponential /\ e # 0 => Magnitude(r) = (p + f) * Pow2[e]
         /\ e = 0 => Magnitude(r) \in (p + f) - 1 .. (p + f) + 1
<1> DEFINE e == Exponential(r)
           p == Pow2[FracBits]
           f == r % p
<1>1. e \in 0..MaxExponential /\ MaxExponential \in Nat /\ MaxExponential > 0
  <2>1. Pow2[ExpBits - 1 + 1] = 2 * Pow2[ExpBits - 1] /\ Pow2[ExpBits - 1] > 0 /\ Pow2[ExpBits - 1] \in Nat
    <3>1. ExpBits - 1 \in Nat
      BY Widths
    <3> QED
      BY <3>1, Powers
  <2>2. ExpBits - 1 + 1 = ExpBits
    BY Widths
  <2> QED
    BY <2>1, <2>2, ExponentialIs DEF MaxExponential
<1>2. p \in Nat /\ f \in 0..p - 1 /\ Lead(r, FracBits) = p + f
  BY Fraction, Powers, Widths
<1>3. e + FracBits - FracBits = e /\ FracBits \in 0..FracBits
  BY <1>1, Widths
<1>4. Exact(r, FracBits) = Pow2[e] * (p + f)
  BY <1>2, <1>3 DEF Exact
<1> DEFINE b == Pow2[e]
           l == p + f
<1>5. b \in Nat /\ l \in Nat
  BY <1>1, <1>2, Powers
<1>6. b * l = l * b
  <2> HIDE DEF b, l
  <2> QED
    BY <1>5
<1>7. e # MaxExponential /\ e # 0 => Magnitude(r) = l * b
  <2> SUFFICES ASSUME e # MaxExponential, e # 0 PROVE Magnitude(r) = l * b
    OBVIOUS
  <2>1. e < MaxExponential /\ e > 0
    BY <1>1
  <2>2. Value(r)[FracBits] = Exact(r, FracBits)
    BY <1>3, <2>1, ValueIsExact
  <2> QED
    BY <1>4, <1>6, <2>2 DEF Magnitude
<1>8. e = 0 => Magnitude(r) \in l - 1 .. l + 1
  <2> SUFFICES ASSUME e = 0 PROVE Magnitude(r) \in l - 1 .. l + 1
    OBVIOUS
  <2>1. e < MaxExponential /\ FracBits \in 1..FracBits /\ FracBits - 1 \in 0..FracBits /\ FracBits - 1 < FracBits
    BY <1>1, Widths
  <2>2. Value(r)[FracBits - 1] = Exact(r, FracBits - 1)
    BY <2>1, ValueIsExact
  <2>3. Value(r)[FracBits] = ToFloat(Exact(r, FracBits))
    BY <2>1, <2>2, ValueSteps, ExactSteps
  <2>4. Exact(r, FracBits) < Infinity
    BY <1>3, <2>1, ExactFits
  <2>5. Exact(r, FracBits) = l
    <3>1. Pow2[0] = 1
      BY Powers
    <3> HIDE DEF l
    <3>2. Exact(r, FracBits) = 1 * l
      BY <1>4, <3>1 DEF l
    <3> QED
      BY <1>5, <3>2
  <2> HIDE DEF l
  <2>6. ToFloat(l) \in {l - 1, l, l + 1}
    BY <1>5, <2>4, <2>5, ToFloatIs
  <2> QED
    BY <1>5, <2>3, <2>5, <2>6 DEF Magnitude
<1> QED
  BY <1>7, <1>8, ValueIsInfinite

\* Every register of every width of the fields, the 8 and 23 bits of the code among them,
\* is decoded to the value it has in IEEE 754: exactly, or, below the smallest normal
\* number, with an error of at most that number (ModbusMeter::dataformatter).
THEOREM FloatsAreDecoded == DecodesRegisters
<1> SUFFICES ASSUME NEW r \in Registers
             PROVE  LET error == Dataformatter(r) - IEEE(r)
                        least == Pow2[FracBits + 1]
                    IN IF IEEE(r) \in -(least - 1) .. least - 1
                       THEN error \in -least .. least
                       ELSE error = 0
  BY DEF DecodesRegisters
<1> DEFINE p == Pow2[FracBits]
           e == Exponential(r)
           f == r % p
           mag == Magnitude(r)
           size == CASE e = MaxExponential -> Infinity
                     [] e = 0 -> 2 * f
                     [] OTHER -> (p + f) * Pow2[e]
           least == Pow2[FracBits + 1]
<1>1. p \in Nat /\ p > 0 /\ least = 2 * p
  BY Powers, Widths
<1>2. f \in 0..p - 1
  BY Fraction
<1>3. e = (r \div Pow2[FracBits]) % Pow2[ExpBits] /\ e \in 0..MaxExponential /\ MaxExponential > 0
      /\ MaxExponential \in Nat
  <2>1. ExpBits - 1 \in Nat /\ ExpBits - 1 + 1 = ExpBits
    BY Widths
  <2>2. Pow2[ExpBits] = 2 * Pow2[ExpBits - 1] /\ Pow2[ExpBits - 1] > 0 /\ Pow2[ExpBits - 1] \in Nat
    BY <2>1, Powers
  <2> QED
    BY <2>2, ExponentialIs DEF MaxExponential
<1>4. IEEE(r) = IF r >= Pow2[ExpBits + FracBits] THEN -size ELSE size
  BY <1>3 DEF IEEE
<1>5. Dataformatter(r) = IF r >= Pow2[ExpBits + FracBits] THEN -mag ELSE mag
  BY SignIs DEF Dataformatter
<1>6. \/ mag = size /\ size \in Int
      \/ size \in 0..least - 2 /\ mag - size \in -least..least /\ mag \in Int
  <2>1. CASE e = MaxExponential
    <3>1. mag = Infinity /\ size = Infinity
      BY <1>3, <2>1, MagnitudeIs
    <3> QED
      BY <3>1, ToFloatIs
  <2>2. CASE e = 0
    <3>1. size = 2 * f
      BY <1>3, <2>2
    <3>2. mag \in (p + f) - 1 .. (p + f) + 1
      BY <2>2, MagnitudeIs
    <3> HIDE DEF size, f, p, mag, least
    <3> QED
      BY <1>1, <1>2, <3>1, <3>2
  <2>3. CASE e # MaxExponential /\ e # 0
    <3> DEFINE b == Pow2[e]
               l == p + f
    <3>1. size = l * b /\ mag = l * b
      BY <2>3, MagnitudeIs
    <3>2. l \in Int /\ b \in Int
      BY <1>1, <1>2, <1>3, Powers
    <3> HIDE DEF size, mag, l, b
    <3>3. l * b \in Int
      BY <3>2
    <3> QED
      BY <3>1, <3>3
  <2> QED
    BY <2>1, <2>2, <2>3
<1> HIDE DEF size, mag, least
<1>7. least \in Nat
  BY <1>1
<1>8. IF IEEE(r) \in -(least - 1) .. least - 1
      THEN Dataformatter(r) - IEEE(r) \in -least .. least
      ELSE Dataformatter(r) - IEEE(r) = 0
  BY <1>4, <1>5, <1>6, <1>7
<1> QED
  BY <1>8 DEF least

\* So what a reading shows is what the meter measured.
THEOREM ReadingsAreDecoded == Spec => []ReadingsDecode
<1>1. ReadingsDecode
  BY FloatsAreDecoded DEF ReadingsDecode
<1> QED
  BY <1>1, PTL
=============================================================================
