---------------------------- MODULE OfflineStore ----------------------------
(***************************************************************************)
(* The offline store (libraries/AllCommonPart/Offlinedatasave.cpp): the    *)
(* readings the meter could not upload, kept in the vector entriesOffline  *)
(* and rewritten to the SPIFFS file /packets_data.txt after every change.  *)
(*                                                                         *)
(* A save removes the file, opens it anew, prints a header and a packet    *)
(* count, prints the packets, and closes it. Each of these is an action    *)
(* here, because the power can go between any two of them.                 *)
(*                                                                         *)
(* The characters of the file are abstracted to what OfflineLoad tells     *)
(* apart. Every proper prefix of a saved file is refused by OfflineLoad    *)
(* without a packet being read (too short, bad first line, no count, or    *)
(* IncompleteInput of the JSON parser), so all of them are one state.      *)
(*                                                                         *)
(* A String whose copy finds no heap is empty, and one that is serialized  *)
(* without heap misses pieces: a reading is damaged then. Which positions  *)
(* of the vector and of the file hold damaged readings is kept beside the  *)
(* readings they stand for.                                                *)
(***************************************************************************)
EXTENDS Naturals, Sequences

CONSTANTS
  Packet,             \* the readings that can be stored
  MaxConfigurations,  \* MAX_CONFIGURATIONS, 200 in the code
  StoreFaults         \* the failures of flash and heap that may happen:
                      \*   "open"   SPIFFS.open for writing fails
                      \*   "write"  the file system is full, prints are cut
                      \*   "heap"   an allocation for the packets, or for
                      \*            the text of one of them, fails
                      \*   "format" the mount fails and SPIFFS is formatted

ASSUME MaxConfigurationsAssumption == MaxConfigurations \in Nat
ASSUME StoreFaultsAssumption ==
  StoreFaults \subseteq {"open", "write", "heap", "format"}

VARIABLES
  entries,  \* std::vector<String> entriesOffline
  damaged,  \* the positions of entries whose text is not all of the reading
  file,     \* the file as OfflineLoad sees it
  spc       \* where setupForMemory or OfflineSave is; "idle" outside of them

vars == <<entries, damaged, file, spc>>

-----------------------------------------------------------------------------

Incomplete(st) == [st |-> st, body |-> << >>, damaged |-> {}]

Absent == Incomplete("absent")
Empty  == Incomplete("empty")   \* created, nothing flushed yet
Torn   == Incomplete("torn")    \* a proper prefix of a save, or no JSON
Short  == Incomplete("short")   \* valid JSON, not as many packets as counted

\* All of a save: the packets q, those at the positions d damaged.
Full(q, d) == [st |-> "full", body |-> q, damaged |-> d]

File == [st : {"absent", "empty", "torn", "short", "full"},
         body : Seq(Packet), damaged : SUBSET Nat]

\* The packets OfflineLoad takes from file f.
Restorable(f) ==
  IF f.st = "full" /\ Len(f.body) <= MaxConfigurations THEN f.body ELSE << >>

TypeOK ==
  /\ entries \in Seq(Packet)
  /\ damaged \subseteq DOMAIN entries
  /\ file \in File
  /\ file.damaged \subseteq DOMAIN file.body
  /\ file.st # "full" => file.body = << >>
  /\ spc \in {"off", "idle", "remove", "open", "print", "close"}

Init ==
  /\ entries = << >>
  /\ damaged = {}
  /\ file = Absent
  /\ spc = "off"

-----------------------------------------------------------------------------
(***************************************************************************)
(* The two callers of OfflineSave. Both ignore what it returns.            *)
(***************************************************************************)

\* Mutant: the newest reading is put in front.
SaveDataInFront(p) ==
  /\ spc = "idle"
  /\ entries' = <<p>> \o entries
  /\ damaged' = {i + 1 : i \in damaged}
  /\ spc' = "remove"
  /\ UNCHANGED file

\* The text is copied twice, into the parameter and into the vector.
SaveDataInMemory(p) ==
  /\ spc = "idle"
  /\ entries' = Append(entries, p)
  /\ \/ damaged' = damaged
     \/ "heap" \in StoreFaults /\ damaged' = damaged \cup {Len(entries) + 1}
  /\ spc' = "remove"
  /\ UNCHANGED file

DamagedInTail == {i \in DOMAIN Tail(entries) : i + 1 \in damaged}

\* Mutant: the vector is changed and not saved.
EraseFirstUnsaved ==
  /\ spc = "idle"
  /\ entries # << >>
  /\ entries' = Tail(entries)
  /\ damaged' = DamagedInTail
  /\ UNCHANGED <<file, spc>>

\* loadSendFirstData, once the first packet was sent.
EraseFirst ==
  /\ spc = "idle"
  /\ entries # << >>
  /\ entries' = Tail(entries)
  /\ damaged' = DamagedInTail
  /\ spc' = "remove"
  /\ UNCHANGED file

(***************************************************************************)
(* OfflineSave, step by step.                                              *)
(***************************************************************************)

\* Mutant: the file goes and its packets stay.
SaveRemoveByName ==
  /\ spc = "remove"
  /\ file' = [file EXCEPT !.st = "absent"]
  /\ spc' = "open"
  /\ UNCHANGED <<entries, damaged>>

SaveRemove ==
  /\ spc = "remove"
  /\ file' = Absent
  /\ spc' = "open"
  /\ UNCHANGED <<entries, damaged>>

SaveOpen ==
  /\ spc = "open"
  /\ \/ file' = Empty /\ spc' = "print"
     \/ "open" \in StoreFaults /\ spc' = "idle" /\ UNCHANGED file
  /\ UNCHANGED <<entries, damaged>>

\* The first line and the count reach the flash, the packets not yet.
SavePrint ==
  /\ spc = "print"
  /\ file' = Torn
  /\ spc' = "close"
  /\ UNCHANGED <<entries, damaged>>

\* Mutant: the loop over the packets ends one early.
SaveCloseOneShort ==
  /\ spc = "close"
  /\ file' = Full(SubSeq(entries, 1, Len(entries) - 1), damaged \cap 1..(Len(entries) - 1))
  /\ spc' = "idle"
  /\ UNCHANGED <<entries, damaged>>

\* The packets are printed and the file is closed. What print returns is not
\* looked at, so a cut file ends like a complete one. Without heap the String
\* that collects the packets misses some of them and of their separators, and
\* a damaged packet is printed as it is: the text may be no JSON, or JSON that
\* has not as many packets as counted.
SaveClose ==
  /\ spc = "close"
  /\ \/ file' = Full(entries, damaged)
     \/ StoreFaults \cap {"write", "heap"} # {} /\ file' = Torn
     \/ "heap" \in StoreFaults /\ entries # << >> /\ file' = Short
  /\ spc' = "idle"
  /\ UNCHANGED <<entries, damaged>>

SaveStep == SaveRemove \/ SaveOpen \/ SavePrint \/ SaveClose

-----------------------------------------------------------------------------
(***************************************************************************)
(* A power cut or a restart takes the vector, whatever was going on.       *)
(***************************************************************************)
PowerLoss ==
  /\ spc # "off"
  /\ entries' = << >>
  /\ damaged' = {}
  /\ spc' = "off"
  /\ UNCHANGED file

(***************************************************************************)
(* OfflineLoad, on the vector of a program that just started.              *)
(***************************************************************************)

LoadNothing == entries' = << >> /\ damaged' = {}

\* The packets are serialized again one by one, beside the document they were
\* parsed into. Without heap some come out damaged, and the load succeeds.
LoadDamage ==
  IF "heap" \in StoreFaults THEN SUBSET DOMAIN file.body ELSE {{}}

\* Mutant: the loop over the packets begins at 1.
LoadPacketsFromOne ==
  /\ file.st = "full"
  /\ Len(file.body) \in 1..MaxConfigurations
  /\ entries' = Tail(file.body)
  /\ damaged' = {i \in DOMAIN Tail(file.body) : i + 1 \in file.damaged}
  /\ UNCHANGED file

LoadPackets ==
  /\ file.st = "full"
  /\ Len(file.body) <= MaxConfigurations
  /\ entries' = file.body
  /\ \E d \in LoadDamage : damaged' = file.damaged \cup d
  /\ UNCHANGED file

\* The returns that leave the vector empty and the file in place. A file that
\* was never completed is refused, and so is one with too many packets or one
\* whose packets do not fit into the heap.
LoadRefused ==
  /\ \/ file.st \in {"absent", "empty", "torn"}
     \/ file.st = "full" /\ Len(file.body) > MaxConfigurations
     \/ file.st = "full" /\ "heap" \in StoreFaults
  /\ LoadNothing
  /\ UNCHANGED file

\* "offline data length mismatch": the file is deleted.
LoadMismatch ==
  /\ file.st = "short"
  /\ file' = Absent
  /\ LoadNothing

\* setupForMemory. SPIFFS.begin(true) formats a file system it cannot mount.
Boot ==
  /\ spc = "off"
  /\ \/ LoadPackets \/ LoadRefused \/ LoadMismatch
     \/ "format" \in StoreFaults /\ file' = Absent /\ LoadNothing
  /\ spc' = "idle"

-----------------------------------------------------------------------------

Next ==
  \/ \E p \in Packet : SaveDataInMemory(p)
  \/ EraseFirst
  \/ SaveStep
  \/ PowerLoss
  \/ Boot

Spec == Init /\ [][Next]_vars

-----------------------------------------------------------------------------
(***************************************************************************)
(* Properties                                                              *)
(***************************************************************************)

\* Whenever no save is under way, and with flash and heap that do not fail, a
\* power cut costs nothing of a backlog that OfflineLoad is willing to read:
\* what it would find in the file is the vector (Offlinedatasave.cpp:36-39,
\* 78-81 and 245-282 against 96-238).
AtRestIsDurable ==
  /\ spc = "idle"
  /\ Len(entries) <= MaxConfigurations
  => Restorable(file) = entries

\* With any failure of flash or heap: at rest the file never holds a part of
\* the backlog, or a mixture of two. Either it restores nothing; or the vector
\* is empty because the last load was refused; or it restores the vector,
\* reading by reading, and then every reading that is damaged in the file is so
\* in the vector. The converse is not promised: a load without heap damages
\* readings in the vector alone, until the next save brings that to the file
\* (Offlinedatasave.cpp:222-226 and 268-277).
AllOrNothing ==
  spc = "idle" => \/ Restorable(file) = << >>
                  \/ entries = << >>
                  \/ Restorable(file) = entries /\ file.damaged \subseteq damaged

\* What Offlinedatasave.cpp:280 reports as "Saved successfully" can be loaded.
SavedIsLoadable ==
  [][SaveClose => Restorable(file') = entries]_vars

\* The store keeps the promise of a durable queue, with what heap failures do to
\* its readings.
Abstract ==
  INSTANCE DurableBacklog WITH
    MayDamage <- "heap" \in StoreFaults,
    queue <- [items |-> entries, damaged |-> damaged],
    durable <- [items |-> Restorable(file),
                damaged |-> IF Restorable(file) = << >> THEN {} ELSE file.damaged],
    phase <- IF spc = "off" THEN "off"
             ELSE IF spc = "idle" THEN "clean" ELSE "dirty"

\* Every step of the store is a step of the durable queue, or none, whatever of
\* flash and heap fails (Offlinedatasave.cpp:36-39, 78-81, 96-238 and 245-282).
ImplementsDurableBacklog == Abstract!Spec
=============================================================================
