------------------------------- MODULE Uplink -------------------------------
(***************************************************************************)
(* The task that uploads readings, ServerComOverWifi or ServerComOverGSM   *)
(* of SmEm.ino, with the offline store it fills and drains, the network    *)
(* and the server.                                                         *)
(*                                                                         *)
(* A cycle takes a reading, posts it, and then either stores it (the post  *)
(* failed) or posts the oldest stored reading and, if that succeeds too,   *)
(* erases it from the store. A request may be lost, or reach the server    *)
(* after the meter stopped waiting for it. The power may go at any step.   *)
(*                                                                         *)
(* A reading is its txnId; what else it carries is of no consequence here, *)
(* but for one thing: a text that is made or copied without heap may lack  *)
(* pieces of the reading, or all of it, and is posted and stored as it is. *)
(***************************************************************************)
EXTENDS Naturals, Sequences, Functions

CONSTANTS
  MaxConfigurations,  \* of OfflineStore
  StoreFaults,        \* of OfflineStore
  Links,              \* the links InternetConnectivity may return
  NetFaults           \* what may go wrong outside of the store:
                      \*   "power"   a power cut, or a restart by handleReboot
                      \*   "network" no link is found during setup
                      \*   "lose"    a request is lost
                      \*   "reject"  a request is answered, but not accepted

ASSUME LimitAssumption == MaxConfigurations \in Nat
ASSUME LinksAssumption == Links # {} /\ Links \subseteq {"WiFi", "GSM"}
ASSUME NetFaultsAssumption ==
  NetFaults \subseteq {"power", "network", "lose", "reject"}

VARIABLES
  entries, damaged, file, spc, \* of OfflineStore
  task,      \* where setup or the task is
  link,      \* the link the task was created for
  cur,       \* the reading at hand, its liveStatus, and whether its text is whole
  answered,  \* has an answer to the request being posted come back?
  txn,       \* txnID, the number of the last reading
  net,       \* the requests under way
  rcvd,      \* observation: the readings the server accepted, whole
  acked      \* observation: the readings the meter took for delivered

Store == INSTANCE OfflineStore WITH Packet <- Nat

storeVars == <<entries, damaged, file, spc>>
envVars == <<net, rcvd>>
vars == <<entries, damaged, file, spc, task, link, cur, answered, txn, net, rcvd, acked>>

Request == [id : Nat, live : BOOLEAN, whole : BOOLEAN]
Nothing == [id |-> 0, live |-> FALSE, whole |-> TRUE]

\* What may come out when a text is made or copied: not more than there was.
Copies(whole) == IF "heap" \in StoreFaults THEN {whole, FALSE} ELSE {whole}

TypeOK ==
  /\ Store!TypeOK
  /\ task \in {"off", "connect", "none", "compose", "post", "await", "load", "save"}
  /\ link \in {"WiFi", "GSM"}
  /\ cur \in Request
  /\ answered \in BOOLEAN
  /\ txn \in Nat
  /\ net \subseteq Request
  /\ rcvd \subseteq Nat
  /\ acked \subseteq Nat

Init ==
  /\ Store!Init
  /\ task = "off"
  /\ link \in Links
  /\ cur = Nothing
  /\ answered = FALSE
  /\ txn = 0
  /\ net = {}
  /\ rcvd = {}
  /\ acked = {}

-----------------------------------------------------------------------------
(***************************************************************************)
(* setup: the store is loaded, then a link is looked for, once.            *)
(***************************************************************************)

Boot ==
  /\ task = "off"
  /\ Store!Boot
  /\ task' = "connect"
  /\ UNCHANGED <<link, cur, answered, txn, net, rcvd, acked>>

Connect ==
  /\ task = "connect"
  /\ link' \in Links
  /\ task' = "compose"
  /\ UNCHANGED <<storeVars, cur, answered, txn, net, rcvd, acked>>

\* Mutant: the task is created although there is no link.
NoNetworkAccepted ==
  /\ task = "connect"
  /\ "network" \in NetFaults
  /\ link' = "none"
  /\ task' = "compose"
  /\ UNCHANGED <<storeVars, cur, answered, txn, net, rcvd, acked>>

\* "No Network Found": the task is not created, until the next restart.
NoNetwork ==
  /\ task = "connect"
  /\ "network" \in NetFaults
  /\ task' = "none"
  /\ UNCHANGED <<storeVars, link, cur, answered, txn, net, rcvd, acked>>

-----------------------------------------------------------------------------
(***************************************************************************)
(* The loop of the task.                                                   *)
(***************************************************************************)

\* getdataSendToServer: the number is saved before the reading is used.
Compose(id) ==
  /\ task = "compose"
  /\ txn' = id
  /\ \E w \in Copies(TRUE) : cur' = [id |-> id, live |-> TRUE, whole |-> w]
  /\ task' = "post"
  /\ UNCHANGED <<storeVars, link, answered, net, rcvd, acked>>

\* The request leaves the meter. Over GSM this is the print of the data after
\* the modem prompted for it, over WiFi the request of HTTPClient. Both are
\* given a copy of the text, so that one kept for the store may be better.
Post ==
  /\ task = "post"
  /\ \E w \in Copies(cur.whole) : net' = net \cup {[cur EXCEPT !.whole = w]}
  /\ answered' = FALSE
  /\ task' = "await"
  /\ UNCHANGED <<storeVars, link, cur, txn, rcvd, acked>>

\* What the task does when the upload returned false: a reading just taken is
\* stored, a stored one stays where it is.
Failed ==
  \/ /\ cur.live
     /\ Store!SaveDataInMemory(cur.id)
     /\ ~cur.whole => Len(entries') \in damaged'
     /\ task' = "save"
  \/ /\ ~cur.live
     /\ task' = "compose"
     /\ UNCHANGED storeVars

\* dataSendToServerOverGSM returns false only before the data is handed over.
NoPrompt ==
  /\ task = "post"
  /\ link = "GSM"
  /\ Failed
  /\ UNCHANGED <<link, cur, answered, txn, net, rcvd, acked>>

\* Mutant: what was not sent is not stored.
TimedOutUnsaved ==
  /\ task = "await"
  /\ link = "WiFi"
  /\ task' = "compose"
  /\ UNCHANGED <<storeVars, link, cur, answered, txn, net, rcvd, acked>>

\* HTTPClient gave up waiting, or lost the connection: a code that is not > 0.
\* An answer may be on its way.
TimedOut ==
  /\ task = "await"
  /\ link = "WiFi"
  /\ Failed
  /\ UNCHANGED <<link, cur, answered, txn, net, rcvd, acked>>

\* Mutant: a stored reading that was sent is not erased.
SentAndKept ==
  /\ task = "await"
  /\ link = "WiFi" => answered
  /\ acked' = acked \cup {cur.id}
  /\ task' = IF cur.live THEN "load" ELSE "compose"
  /\ UNCHANGED <<storeVars, link, cur, answered, txn, net, rcvd>>

\* The upload returned true. Over WiFi a status line came back, whatever the
\* status; over GSM nothing needs to have come back.
Sent ==
  /\ task = "await"
  /\ link = "WiFi" => answered
  /\ acked' = acked \cup {cur.id}
  /\ \/ cur.live /\ task' = "load" /\ UNCHANGED storeVars
     \/ ~cur.live /\ Store!EraseFirst /\ task' = "save"
  /\ UNCHANGED <<link, cur, answered, txn, net, rcvd>>

\* Mutant: the newest stored reading is posted.
LoadLast ==
  /\ task = "load"
  /\ \/ entries = << >> /\ task' = "compose" /\ UNCHANGED cur
     \/ /\ entries # << >>
        /\ cur' = [id |-> entries[Len(entries)], live |-> FALSE, whole |-> TRUE]
        /\ task' = "post"
  /\ UNCHANGED <<storeVars, link, answered, txn, net, rcvd, acked>>

\* loadSendFirstData, up to its post of the oldest stored reading: it is parsed,
\* changed and serialized. An error of the parser is printed, and what is left
\* of the document is posted all the same.
LoadFirst ==
  /\ task = "load"
  /\ \/ entries = << >> /\ task' = "compose" /\ UNCHANGED cur
     \/ /\ entries # << >>
        /\ \E w \in Copies(1 \notin damaged) :
             cur' = [id |-> Head(entries), live |-> FALSE, whole |-> w]
        /\ task' = "post"
  /\ UNCHANGED <<storeVars, link, answered, txn, net, rcvd, acked>>

\* OfflineSave, then the delay at the end of the loop.
Save ==
  /\ task = "save"
  /\ Store!SaveStep
  /\ task' = IF spc' = "idle" THEN "compose" ELSE "save"
  /\ UNCHANGED <<link, cur, answered, txn, net, rcvd, acked>>

-----------------------------------------------------------------------------
(***************************************************************************)
(* The network, the server and the power.                                  *)
(***************************************************************************)

Answer(m) ==
  answered' = (answered \/ (task = "await" /\ m.id = cur.id /\ m.live = cur.live))

\* A remnant of a reading is answered as well, but it is not the reading.
Receive(m) ==
  /\ net' = net \ {m}
  /\ rcvd' = IF m.whole THEN rcvd \cup {m.id} ELSE rcvd
  /\ Answer(m)
  /\ UNCHANGED <<storeVars, task, link, cur, txn, acked>>

\* A server error or a gateway on the way answers, and the reading is not kept.
Reject(m) ==
  /\ "reject" \in NetFaults
  /\ net' = net \ {m}
  /\ Answer(m)
  /\ UNCHANGED <<storeVars, task, link, cur, txn, rcvd, acked>>

Lose(m) ==
  /\ "lose" \in NetFaults
  /\ net' = net \ {m}
  /\ UNCHANGED <<storeVars, task, link, cur, answered, txn, rcvd, acked>>

PowerLoss ==
  /\ "power" \in NetFaults
  /\ Store!PowerLoss
  /\ task' = "off"
  /\ cur' = Nothing
  /\ answered' = FALSE
  /\ UNCHANGED <<link, txn, net, rcvd, acked>>

-----------------------------------------------------------------------------

Task == Boot \/ Connect \/ NoNetwork \/ Post \/ NoPrompt \/ TimedOut \/ Sent
          \/ LoadFirst \/ Save

Network == \E m \in net : Receive(m) \/ Reject(m) \/ Lose(m)

Next == Compose(txn + 1) \/ Task \/ Network \/ PowerLoss

Spec == Init /\ [][Next]_vars

-----------------------------------------------------------------------------
(***************************************************************************)
(* Properties                                                              *)
(***************************************************************************)

Increasing(q) == \A i, j \in DOMAIN q : i < j => q[i] < q[j]

Posting == task \in {"post", "await"}

\* Whatever fails: the backlog is in the order the readings were taken, also
\* after any number of restarts, and the stored reading that is posted is older
\* than every other one (SmEm.ino:55-75, Offlinedatasave.cpp:36-42 and 222-226).
OldestFirst ==
  /\ Increasing(entries)
  /\ Posting /\ ~cur.live => /\ entries # << >>
                             /\ \A i \in DOMAIN entries : cur.id <= entries[i]

\* Whatever fails: of the readings the meter took for delivered, at most the
\* oldest is still in the vector or in the file. A power cut between a
\* successful post and the save that follows makes the meter repeat that one
\* reading, never two (Offlinedatasave.cpp:78-81).
RepeatsAtMostOne ==
  \A q \in {entries, file.body} :
    \A i \in DOMAIN q : i > 1 => q[i] \notin acked

InHand == IF Posting /\ cur.live THEN {cur.id} ELSE {}

\* The readings the meter has, or would find again after a power cut.
Held == Range(entries) \cup Range(Store!Restorable(file)) \cup InHand
=============================================================================
