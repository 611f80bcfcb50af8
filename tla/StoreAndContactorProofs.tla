----------------------- MODULE StoreAndContactorProofs -----------------------
(***************************************************************************)
(* Theorems of two components that share nothing: the store of unsent      *)
(* readings (OfflineStore), for every set of packets, every value of       *)
(* MAX_CONFIGURATIONS and every combination of faults, and the contactor,  *)
(* with the history variables of MCContactor. What the contactor does      *)
(* under fairness is left to TLC.                                          *)
(***************************************************************************)
EXTENDS OfflineStore, MCContactor, TLAPS

(***************************************************************************)
(* The strengthening both safety properties need: OfflineSave removed the  *)
(* file before it opens it, so an open that fails leaves none behind.      *)
(***************************************************************************)
NoneWhileOpening == spc = "open" => file.st # "full"

\* What a save leaves behind is a file, and without packets unless complete.
LEMMA FileStates ==
  /\ \A f \in {Absent, Empty, Torn, Short} :
       f \in File /\ f.st # "full" /\ f.body = << >> /\ f.damaged = {}
  /\ \A q \in Seq(Packet) : \A d \in SUBSET DOMAIN q :
       /\ Full(q, d) \in File /\ Full(q, d).st = "full"
       /\ Full(q, d).body = q /\ Full(q, d).damaged = d
<1>1. << >> \in Seq(Packet)
  OBVIOUS
<1>2. \A q \in Seq(Packet) : DOMAIN q \subseteq Nat
  OBVIOUS
<1> QED
  BY <1>1, <1>2 DEF File, Absent, Empty, Torn, Short, Full, Incomplete

\* What the vector holds after it changed is a sequence, its damage is within.
LEMMA Appended ==
  ASSUME NEW q \in Seq(Packet), NEW d \in SUBSET DOMAIN q, NEW p \in Packet
  PROVE  /\ Append(q, p) \in Seq(Packet)
         /\ d \cup {Len(q) + 1} \subseteq DOMAIN Append(q, p)
OBVIOUS

LEMMA LoadsWithin ==
  ASSUME TypeOK, LoadPackets
  PROVE  /\ entries' = file.body /\ entries' \in Seq(Packet) /\ file' = file
         /\ file.damaged \subseteq damaged' /\ damaged' \subseteq DOMAIN entries'
BY DEF TypeOK, File, LoadPackets, LoadDamage

\* Every value has its type, in every reachable state.
THEOREM TypeCorrect == Spec => []TypeOK
<1>1. Init => TypeOK
  BY FileStates DEF Init, TypeOK
<1>2. TypeOK /\ [Next]_vars => TypeOK'
  <2> SUFFICES ASSUME TypeOK, [Next]_vars PROVE TypeOK'
    OBVIOUS
  <2>1. CASE \E p \in Packet : SaveDataInMemory(p)
    BY <2>1, Appended DEF TypeOK, SaveDataInMemory
  <2>2. CASE EraseFirst
    BY <2>2 DEF TypeOK, EraseFirst, DamagedInTail
  <2>3. CASE SaveRemove
    BY <2>3, FileStates DEF TypeOK, SaveRemove
  <2>4. CASE SaveOpen
    BY <2>4, FileStates DEF TypeOK, SaveOpen
  <2>5. CASE SavePrint
    BY <2>5, FileStates DEF TypeOK, SavePrint
  <2>6. CASE SaveClose
    BY <2>6, FileStates DEF TypeOK, SaveClose
  <2>7. CASE PowerLoss
    BY <2>7 DEF TypeOK, PowerLoss
  <2>8. CASE Boot
    <3>1. entries' \in Seq(Packet) /\ damaged' \subseteq DOMAIN entries'
      <4>1. << >> \in Seq(Packet)
        OBVIOUS
      <4>2. LoadPackets \/ LoadNothing
        BY <2>8 DEF Boot, LoadRefused, LoadMismatch
      <4> QED
        BY <4>1, <4>2, LoadsWithin DEF LoadNothing
    <3>2. file' \in {file, Absent}
      BY <2>8 DEF Boot, LoadPackets, LoadRefused, LoadMismatch
    <3> QED
      BY <2>8, <3>1, <3>2, FileStates DEF TypeOK, Boot
  <2>9. CASE UNCHANGED vars
    BY <2>9 DEF TypeOK, vars
  <2> QED
    BY <2>1, <2>2, <2>3, <2>4, <2>5, <2>6, <2>7, <2>8, <2>9 DEF Next, SaveStep
<1> QED
  BY <1>1, <1>2, PTL DEF Spec

\* While OfflineSave is about to open the file, there is none.
LEMMA OpensNoOldFile == Spec => []NoneWhileOpening
<1>1. Init => NoneWhileOpening
  BY DEF Init, NoneWhileOpening
<1>2. NoneWhileOpening /\ [Next]_vars => NoneWhileOpening'
  <2> SUFFICES ASSUME NoneWhileOpening, [Next]_vars PROVE NoneWhileOpening'
    OBVIOUS
  <2> USE DEF NoneWhileOpening
  <2>1. CASE \E p \in Packet : SaveDataInMemory(p)
    BY <2>1 DEF SaveDataInMemory
  <2>2. CASE EraseFirst
    BY <2>2 DEF EraseFirst
  <2>3. CASE SaveStep
    BY <2>3 DEF SaveStep, SaveRemove, SaveOpen, SavePrint, SaveClose, Absent, Incomplete
  <2>4. CASE PowerLoss
    BY <2>4 DEF PowerLoss
  <2>5. CASE Boot
    BY <2>5 DEF Boot
  <2>6. CASE UNCHANGED vars
    BY <2>6 DEF vars
  <2> QED
    BY <2>1, <2>2, <2>3, <2>4, <2>5, <2>6 DEF Next
<1> QED
  BY <1>1, <1>2, PTL DEF Spec

-----------------------------------------------------------------------------

\* Whatever fails: at rest the file never restores a part of the backlog, and no
\* reading that is damaged in the file passes for a whole one in the vector.
THEOREM RestoresAllOrNothing == Spec => []AllOrNothing
<1>1. Init => AllOrNothing
  BY DEF Init, AllOrNothing
<1>2. TypeOK /\ NoneWhileOpening /\ AllOrNothing /\ [Next]_vars => AllOrNothing'
  <2> SUFFICES ASSUME TypeOK, NoneWhileOpening, AllOrNothing, [Next]_vars
               PROVE AllOrNothing'
    OBVIOUS
  <2> USE DEF AllOrNothing, Restorable
  <2>1. CASE \E p \in Packet : SaveDataInMemory(p)
    BY <2>1 DEF SaveDataInMemory
  <2>2. CASE EraseFirst
    BY <2>2 DEF EraseFirst
  <2>3. CASE SaveRemove \/ SavePrint
    BY <2>3 DEF SaveRemove, SavePrint
  <2>4. CASE SaveOpen
    BY <2>4 DEF SaveOpen, NoneWhileOpening
  <2>5. CASE SaveClose
    BY <2>5 DEF SaveClose, Full, Torn, Short, Incomplete
  <2>6. CASE PowerLoss
    BY <2>6 DEF PowerLoss
  <2>7. CASE Boot
    BY <2>7, LoadsWithin DEF Boot, LoadRefused, LoadMismatch, LoadNothing
  <2>8. CASE UNCHANGED vars
    BY <2>8 DEF vars
  <2> QED
    BY <2>1, <2>2, <2>3, <2>4, <2>5, <2>6, <2>7, <2>8 DEF Next, SaveStep
<1> QED
  BY <1>1, <1>2, OpensNoOldFile, TypeCorrect, PTL DEF Spec

\* Without faults: at rest the file restores the whole vector, as long as it
\* is not longer than OfflineLoad allows.
THEOREM DurableAtRest ==
  ASSUME StoreFaults = {}
  PROVE  Spec => []AtRestIsDurable
<1>1. Init => AtRestIsDurable
  BY DEF Init, AtRestIsDurable
<1>2. TypeOK /\ AtRestIsDurable /\ [Next]_vars => AtRestIsDurable'
  <2> SUFFICES ASSUME TypeOK, AtRestIsDurable, [Next]_vars
               PROVE  AtRestIsDurable'
    OBVIOUS
  <2> USE DEF AtRestIsDurable, Restorable
  <2>1. CASE \E p \in Packet : SaveDataInMemory(p)
    BY <2>1 DEF SaveDataInMemory
  <2>2. CASE EraseFirst
    BY <2>2 DEF EraseFirst
  <2>3. CASE SaveRemove \/ SavePrint
    BY <2>3 DEF SaveRemove, SavePrint
  <2>4. CASE SaveOpen
    BY <2>4, StoreFaults = {} DEF SaveOpen
  <2>5. CASE SaveClose
    BY <2>5, StoreFaults = {} DEF SaveClose, Full
  <2>6. CASE PowerLoss
    BY <2>6 DEF PowerLoss
  <2>7. CASE Boot
    <3>1. Len(file.body) \in Nat
      BY DEF TypeOK, File
    <3> QED
      BY <2>7, <3>1, MaxConfigurationsAssumption, StoreFaults = {}
      DEF Boot, LoadPackets, LoadRefused, LoadMismatch, LoadNothing, Absent, Incomplete
  <2>8. CASE UNCHANGED vars
    BY <2>8 DEF vars
  <2> QED
    BY <2>1, <2>2, <2>3, <2>4, <2>5, <2>6, <2>7, <2>8 DEF Next, SaveStep
<1> QED
  BY <1>1, <1>2, TypeCorrect, PTL DEF Spec

-----------------------------------------------------------------------------

\* The store implements the durable queue, whatever fails.
THEOREM Implements == Spec => ImplementsDurableBacklog
<1> DEFINE Copy == [items |-> Restorable(file),
                    damaged |-> IF Restorable(file) = << >> THEN {} ELSE file.damaged]
           Queue == [items |-> entries, damaged |-> damaged]
<1>1. Init => Abstract!Init
  BY DEF Init, Restorable, Abstract!Init, Abstract!None, Absent, Incomplete
<1>2. file.st # "full" => Copy = Abstract!None
  BY DEF Restorable, Abstract!None
<1>3. file'.st # "full" => Copy' = Abstract!None
  BY DEF Restorable, Abstract!None
<1>4. TypeOK /\ NoneWhileOpening /\ [Next]_vars => [Abstract!Next]_Abstract!vars
  <2> SUFFICES ASSUME TypeOK, NoneWhileOpening, [Next]_vars
               PROVE  [Abstract!Next]_Abstract!vars
    OBVIOUS
  <2>1. CASE \E p \in Packet : SaveDataInMemory(p)
    <3>1. PICK p \in Packet : SaveDataInMemory(p)
      BY <2>1
    <3>2. \E d \in {{}, {Len(entries) + 1}} :
            /\ d # {} => "heap" \in StoreFaults
            /\ damaged' = damaged \cup d
      BY <3>1 DEF SaveDataInMemory
    <3>3. Abstract!Enqueue(p)
      BY <3>1, <3>2 DEF SaveDataInMemory, Restorable, Abstract!Enqueue
    <3> QED
      BY <3>3 DEF Abstract!Next
  <2>2. CASE EraseFirst
    <3>1. Abstract!Dequeue
      BY <2>2 DEF EraseFirst, DamagedInTail, Restorable, Abstract!Dequeue
    <3> QED
      BY <3>1 DEF Abstract!Next
  <2>3. CASE SaveRemove \/ SavePrint
    <3>1. file'.st # "full"
      BY <2>3 DEF SaveRemove, SavePrint, Absent, Torn, Incomplete
    <3>2. Abstract!GiveUp
      BY <1>3, <2>3, <3>1 DEF SaveRemove, SavePrint, Abstract!GiveUp
    <3> QED
      BY <3>2 DEF Abstract!Next
  <2>4. CASE SaveOpen
    <3>1. file.st # "full" /\ file'.st # "full"
      BY <2>4 DEF NoneWhileOpening, SaveOpen, Empty, Incomplete
    <3>2. Abstract!GiveUp \/ Abstract!Complete
      BY <1>2, <1>3, <2>4, <3>1 DEF SaveOpen, Abstract!GiveUp, Abstract!Complete
    <3> QED
      BY <3>2 DEF Abstract!Next
  <2>5. CASE SaveClose
    <3>1. Copy' \in {Queue, Abstract!None}
      <4>1. CASE file' = Full(entries, damaged)
        <5>1. entries = << >> => damaged = {}
          BY DEF TypeOK
        <5>2. Restorable(file') \in {entries, << >>} /\ file'.damaged = damaged
          BY <4>1 DEF Restorable, Full
        <5> QED
          BY <5>1, <5>2 DEF Restorable, Abstract!None
      <4>2. CASE file' \in {Torn, Short}
        BY <1>3, <4>2 DEF Torn, Short, Incomplete
      <4> QED
        BY <2>5, <4>1, <4>2 DEF SaveClose
    <3>2. Abstract!Complete
      BY <2>5, <3>1 DEF SaveClose, Abstract!Complete
    <3> QED
      BY <3>2 DEF Abstract!Next
  <2>6. CASE PowerLoss
    <3>1. Abstract!PowerLoss
      BY <2>6 DEF PowerLoss, Restorable, Abstract!PowerLoss, Abstract!None
    <3> QED
      BY <3>1 DEF Abstract!Next
  <2>7. CASE Boot
    <3>1. \/ Queue' = Abstract!None
          \/ \E d \in Abstract!Damaged(Copy) :
               Queue' = [items |-> Copy.items, damaged |-> Copy.damaged \cup d]
      <4>1. CASE LoadPackets
        <5>1. Restorable(file) = file.body /\ entries' = file.body
          BY <4>1 DEF LoadPackets, Restorable
        <5>2. PICK d \in LoadDamage : damaged' = file.damaged \cup d
          BY <4>1 DEF LoadPackets
        <5>3. Copy = [items |-> file.body, damaged |-> file.damaged]
          <6>1. file.body = << >> => file.damaged = {}
            BY DEF TypeOK
          <6> QED
            BY <5>1, <6>1
        <5>4. d \in Abstract!Damaged(Copy)
          BY <5>2, <5>3 DEF LoadDamage, Abstract!Damaged
        <5> QED
          BY <5>1, <5>2, <5>3, <5>4
      <4>2. CASE LoadNothing
        BY <4>2 DEF LoadNothing, Abstract!None
      <4> QED
        BY <2>7, <4>1, <4>2 DEF Boot, LoadRefused, LoadMismatch
    <3>2. Copy' \in {Copy, Abstract!None}
      BY <2>7, <1>3 DEF Boot, LoadPackets, LoadRefused, LoadMismatch, Absent, Incomplete
    <3>3. Abstract!Restart
      BY <2>7, <3>1, <3>2 DEF Boot, Abstract!Restart
    <3> QED
      BY <3>3 DEF Abstract!Next
  <2>8. CASE UNCHANGED vars
    BY <2>8 DEF vars, Restorable, Abstract!vars
  <2> QED
    BY <2>1, <2>2, <2>3, <2>4, <2>5, <2>6, <2>7, <2>8 DEF Next, SaveStep
<1> QED
  BY <1>1, <1>4, OpensNoOldFile, TypeCorrect, PTL
  DEF Spec, ImplementsDurableBacklog, Abstract!Spec

-----------------------------------------------------------------------------
(***************************************************************************)
(* The contactor.                                                          *)
(***************************************************************************)

historyVars == <<contactorVars, passes, overtaken>>

LEMMA ContactorTypeStep == ContactorTypeOK /\ [ContactorNext]_contactorVars => ContactorTypeOK'
<1> SUFFICES ASSUME ContactorTypeOK, [ContactorNext]_contactorVars PROVE ContactorTypeOK'
  OBVIOUS
<1> USE DEF ContactorTypeOK, OpenTests, CloseTests
<1>1. CASE \E answer \in Answers : Response(answer)
  BY <1>1 DEF Response
<1>2. CASE Drive
  BY <1>2 DEF Drive
<1>3. CASE Begin
  BY <1>3 DEF Begin, Goto
<1>4. CASE OpenTest
  BY <1>4 DEF OpenTest, Test, Goto
<1>5. CASE Open \/ Close
  BY <1>5 DEF Open, Close, Goto
<1>6. CASE CloseTest
  BY <1>6 DEF CloseTest, Test, Goto
<1>7. CASE Inputs
  BY <1>7 DEF Inputs
<1>8. CASE Restart
  BY <1>8 DEF Restart
<1>9. CASE UNCHANGED contactorVars
  BY <1>9 DEF contactorVars
<1> QED
  BY <1>1, <1>2, <1>3, <1>4, <1>5, <1>6, <1>7, <1>8, <1>9 DEF ContactorNext, OtherTask

\* Every value has its type, in every reachable state.
THEOREM ContactorTypes == MCSpec => []ContactorTypeOK
<1>1. MCInit => ContactorTypeOK
  BY DEF MCInit, ContactorInit, ContactorTypeOK
<1>2. ContactorTypeOK /\ [MCNext]_historyVars => ContactorTypeOK'
  BY ContactorTypeStep DEF MCNext, historyVars
<1> QED
  BY <1>1, <1>2, PTL DEF MCSpec, historyVars

-----------------------------------------------------------------------------
(***************************************************************************)
(* An order to open fails only if it overtakes otherTask. The invariant    *)
(* also speaks of the time before otherTask closes the contactor, when it  *)
(* is still open.                                                          *)
(***************************************************************************)

ClosedOrClosing ==
  server = "idle" /\ ~relayStatus /\ (pin \/ Closing) => overtaken

\* An order to open that did not overtake otherTask is carried out for good.
THEOREM OffFails == MCSpec => []OffFailsOnlyOvertaken
<1>1. MCInit => ClosedOrClosing
  BY DEF MCInit, ContactorInit, ClosedOrClosing, Closing
<1>2. ContactorTypeOK /\ ClosedOrClosing /\ [MCNext]_historyVars => ClosedOrClosing'
  <2> SUFFICES ASSUME ContactorTypeOK, ClosedOrClosing, [MCNext]_historyVars
               PROVE  ClosedOrClosing'
    OBVIOUS
  <2> USE DEF ClosedOrClosing, Closing
  <2>1. CASE ContactorNext /\ overtaken' = IF Drive THEN Closing
                                  ELSE overtaken /\ relayStatus' = relayStatus
    <3>1. CASE \E answer \in Answers : Response(answer)
      BY <3>1 DEF Response
    <3>2. CASE Drive
      BY <2>1, <3>2 DEF Drive, ContactorTypeOK
    <3>3. CASE Begin
      BY <2>1, <3>3 DEF Begin, Goto, Drive
    <3>4. CASE OpenTest
      BY <2>1, <3>4 DEF OpenTest, Test, Goto, Drive
    <3>5. CASE Open \/ Close
      BY <2>1, <3>5 DEF Open, Close, Goto, Drive
    <3>6. CASE CloseTest
      BY <2>1, <3>6 DEF CloseTest, Test, Goto, Drive
    <3>7. CASE Inputs
      BY <2>1, <3>7 DEF Inputs, Drive
    <3>8. CASE Restart
      BY <3>8 DEF Restart
    <3> QED
      BY <2>1, <3>1, <3>2, <3>3, <3>4, <3>5, <3>6, <3>7, <3>8 DEF ContactorNext, OtherTask
  <2>2. CASE UNCHANGED historyVars
    BY <2>2 DEF historyVars, contactorVars
  <2> QED
    BY <2>1, <2>2 DEF MCNext
<1>3. ClosedOrClosing => OffFailsOnlyOvertaken
  BY DEF ClosedOrClosing, OffFailsOnlyOvertaken
<1> QED
  BY <1>1, <1>2, <1>3, ContactorTypes, PTL DEF MCSpec, historyVars

-----------------------------------------------------------------------------
(***************************************************************************)
(* After one complete pass against the pressed button, otherTask is on its *)
(* way to find it pressed.                                                 *)
(***************************************************************************)

OnTheWay ==
  /\ passes \in {0, 1}
  /\ passes = 1 =>
       /\ ClosedAgainstEmergency
       /\ other \in {"delay", "open:relay", "open:pin", "open:emergency", "open"}

\* The contactor is not closed against a pressed button over two passes.
THEOREM OpensInTime == MCSpec => []OpensWithinAPass
<1>1. MCInit => OnTheWay
  BY DEF MCInit, OnTheWay
<1>2. ContactorTypeOK /\ OnTheWay /\ [MCNext]_historyVars => OnTheWay'
  <2> SUFFICES ASSUME ContactorTypeOK, OnTheWay, [MCNext]_historyVars PROVE OnTheWay'
    OBVIOUS
  <2> USE DEF OnTheWay, ClosedAgainstEmergency, CountPasses
  <2>1. CASE ContactorNext /\ CountPasses
    <3>1. CASE \E answer \in Answers : Response(answer)
      BY <2>1, <3>1 DEF Response
    <3>2. CASE Drive
      BY <2>1, <3>2 DEF Drive
    <3>3. CASE Begin
      BY <2>1, <3>3 DEF Begin, Goto
    <3>4. CASE OpenTest
      BY <2>1, <3>4 DEF OpenTest, Test, Goto
    <3>5. CASE Open \/ Close
      BY <2>1, <3>5 DEF Open, Close, Goto
    <3>6. CASE CloseTest
      BY <2>1, <3>6 DEF CloseTest, Test, Goto
    <3>7. CASE Inputs
      BY <2>1, <3>7 DEF Inputs
    <3>8. CASE Restart
      BY <2>1, <3>8 DEF Restart
    <3> QED
      BY <2>1, <3>1, <3>2, <3>3, <3>4, <3>5, <3>6, <3>7, <3>8 DEF ContactorNext, OtherTask
  <2>2. CASE UNCHANGED historyVars
    BY <2>2 DEF historyVars, contactorVars
  <2> QED
    BY <2>1, <2>2 DEF MCNext
<1>3. OnTheWay => OpensWithinAPass
  BY DEF OnTheWay, OpensWithinAPass
<1> QED
  BY <1>1, <1>2, <1>3, ContactorTypes, PTL DEF MCSpec, historyVars
=============================================================================
