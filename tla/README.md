# A verification project for the SmartMeter firmware

TLA+ models of the firmware in `src/SmEm`, `src/libraries/AllCommonPart` and
`src/libraries/ModbusMeter` (an ESP32 program that polls an energy meter, uploads its
readings to a server and switches the consumer's contactor) and of the two vendored libraries
its data passes through, the HTTP server and ArduinoJson. TLC checks the models on small
instances; TLAPS proves the main theorems for all values of the constants. Paths below are relative
to `src/libraries/AllCommonPart` unless they say otherwise.

## 1. Inventory

| Component | State it keeps | Operations | Interacts with |
|---|---|---|---|
| Offline store (`Offlinedatasave.cpp`) | vector `entriesOffline`, file `/packets_data.txt` | `setupForMemory`, `OfflineLoad`, `SaveDataInMemory`, `loadSendFirstData`, `OfflineSave` | called by setup and by the uploading task |
| Uploading task (`SmEm.ino:55-95`) | the reading at hand | one cycle: take a reading, post it, store it or replay one | Modbus meter, store, WiFi or GSM, contactor |
| Uploads (`WifiComm.cpp:562-586`, `GSMComm.cpp:264-326`) | the HTTP client, the modem | post a reading, hand the answer to `responseFromServer` | server, modem |
| Contactor control (`SmEm.ino:100-109`, `129-157`) | `relayStatus`, the pin | `responseFromServer`, `otherTask` | two tasks of different priority share both |
| Settings (`CommunicationConnectivity.cpp`, `WifiComm.cpp:293-319`, `516-523`) | the namespace `credentials` in flash, one global `Preferences` object, `txnID` | `getSavedTxnId`, `getTransectionId`, `InternetConnectivity`, `websocketSetupApp`, `handleSubmit` | three tasks share the object |
| Choice of the link (`SmEm.ino:14-36`, `InternetConnectivity`, `connectToWifi`, `startCommunicationOnGSM`) | mode, round, the task created | once or twice during setup | settings, modem, WiFi |
| GSM modem dialogue (`sendCommandWithAnswer`, `GSMComm.cpp`) | the receive buffer | command and answer with a timeout of 5 s, prompt and data | uploads, choice of the link |
| Modbus meter (`../ModbusMeter`) | 24 values, the counter `m` of unanswered polls | `ModbusLOOP`, `dataformatter`, getters, `getdataSendToServer` | polled by one task, read by another |
| Web page (`WifiComm.cpp`) | what it shows | `handleRoot`, `handleSubmit`, `handleReboot` | settings, HTTP server; restarts the program |
| HTTP server (`../WebServer`) | the client it serves, its request, the arguments of the last form | `handleClient`, `_parseRequest`, `_parseForm`, `_handleRequest` | called by AppConfigTask, calls the web page |
| JSON library (`../arduino_242813`) | pools of slots, counted strings, an overflow flag | variant, object and array operations, `deserializeJson`, `serializeJson` | makes and reads every reading, and the answers of the server |
| DNS server (`../DNSServer`) | none that changes | answers each question by itself | AppConfigTask |

All tasks run on core 1: the polling task with priority 3, the uploading task with 2,
`AppConfigTask`, `otherTask` and setup with 1, time-sliced. There is no lock anywhere in the
first-party code. setup runs in this order: load the store, start polling, start the web page,
look for a link, start the uploading task for that link (or none at all), start `otherTask`.

What is hard, and where it bites, is listed as `hazards` in `PROJECT.json`. In short:

- *Crashes.* The power can go, or `handleReboot` restart the program, between any two steps.
  `OfflineSave` removes the file before it writes the new one.
- *Delivery.* Requests are lost, time out and are answered late; success is judged differently
  over the two links (any status line over WiFi, nothing but the prompt over GSM).
- *Interleaving.* relayStatus, the pin and the Preferences object are read and written by several
  tasks without a lock; the Modbus values too.
- *Limits.* 200 packets per load, none per save; flash and heap that run out, mostly unnoticed; an allocation
  that fails anywhere in the making or the parsing of a JSON document, or of the text of a single reading.
- *Ordering of modem answers*, which come late, in pieces or not at all, and staleness of meter values.
- *Clients of the web page* that pause or go away in the middle of a request, while one task serves them all.

Properties that make each part correct: the store brings back every reading of the backlog in its place or
none, takes none that is damaged in the file for whole, and at rest has all of them; no reading disappears between meter and server, they are replayed in order, repeated
only after a power cut, and an outage is worked off in the end; a fault opens the contactor, an order
of the server is carried out; numbers of readings are unique over restarts and a form that was
answered is stored; a meter value is of one poll, not older than the limit, and what the registers mean; setup ends, an uploading task is created
only for a link that is up, commands to the modem and its answers fall back into step; a form is stored whole or not at all and
who asks at once is answered; JSON text that is read is all that it says, what was written is read back, and a use of a document changes what it names and nothing else.

## 2. Modules

```
DurableBacklog  <-- refines --  OfflineStore  <-- INSTANCE --  Uplink  -- refines -->  ReadingLedger
                                     |                          |
                               MCOfflineStore        MCUplink, MCResend, MCDrain
                                                     UplinkProofs (of MCUplink and MCResend)

Contactor <- MCContactor                        SharedPreferences <- MCSharedPreferences <- SharedPreferencesProofs

GSMComm <- Connectivity <- MCLink               Meter, FloatDecode <- MCMeter <- MeterProofs
                        <- ConnectivityProofs
JsonDocument <- JsonDeserializer <- JsonSerializer <- MCJson                          WebServer <- WebServerProofs
                                 <- JsonTree       <- MCJson        JsonTree -- refines --> OrderedTree
                                 <- JsonProofs <- JsonTreeProofs    (JsonTreeProofs also EXTENDS JsonTree)

StoreAndContactorProofs (of OfflineStore and MCContactor)
```

(`A <- B`: B EXTENDS A.)

**OfflineStore** models `Offlinedatasave.cpp`. `entries` is the vector, `file` the file as
`OfflineLoad` sees it, `spc` where `OfflineSave` is. remove, open, the first prints and the last
print with close are actions of their own (`SaveRemove`, `SaveOpen`, `SavePrint`, `SaveClose`),
with `PowerLoss` between any two. The characters of the file are abstracted to five states: absent,
empty, torn (any proper prefix of a save: each is refused by `OfflineLoad` without a packet being
read, by the length test, the first line, the missing count or IncompleteInput of the parser),
short (valid JSON, not as many packets as counted) and full. `StoreFaults` selects the failures:
an open that fails, a file system that is full, an allocation that fails, a mount that formats.
A failing heap does not only refuse things as a whole. Every reading is a String that is copied when it is stored, and
serialized again one by one when it is loaded (`Offlinedatasave.cpp:222-226`), beside the document that still holds all of them; a copy without heap is empty or
misses pieces, and nobody looks. `damaged` and `file.damaged` are the positions at which that has happened (`SaveDataInMemory`,
`LoadDamage`): the reading is still there, but its text is not all of it. If damage makes the file no JSON, the file is torn or short.

**DurableBacklog** is what the store promises: a queue with a copy that has, when no change is being
written, every reading of the queue or none, and from which a restart brings back every reading or none. Readings may be damaged when they enter and when a restart brings them back, if the
heap runs out, and at no other step; and damage stays where it is, it never spreads, moves or passes for whole.

**Uplink** models the loop of `ServerComOverWifi` and `ServerComOverGSM` with the two upload functions and
`loadSendFirstData`, and uses the operations of `OfflineStore` as they are. A reading is its `txnId`, and a request also says whether its text is `whole`:
without heap `Compose` and `Post` make texts with pieces missing, and `LoadFirst` posts what is left of a document that could not be parsed, as `loadSendFirstData` only
prints the error (`Offlinedatasave.cpp:48-57`). Such a remnant is answered, and the reading erased, like any other; only whole ones count as received (`rcvd`).
`Post` hands a request to the network, which delivers, loses, or answers without keeping it, at any
later time, also after the meter gave up (`TimedOut`) or lost power. `Sent` is a `true` of the upload function: over
WiFi it needs an answer (`httpResponseCode > 0`), over GSM it does not (`return true`, `GSMComm.cpp:324`).
`NoPrompt` stands for the four `return false` of the GSM upload. `rcvd` and `acked` only observe. It assumes that the number
of the last reading survives a restart, which is the subject of SharedPreferences.

**ReadingLedger** is what the uplink promises: what the meter holds leaves it only when the server has
it or answered with an error or, over GSM, when the modem took it; except by a power cut.

**Contactor** models `responseFromServer` and `otherTask`. The server task has the higher priority,
so it may come between any two operands of otherTask's conditions: each is a step, named after the
branch and the operand ("open:pin", "close:earthFault"). In the other direction otherTask runs only where
responseFromServer blocks, between the assignment of relayStatus and the writes of the pin.
The fault inputs change at any time. **MCContactor** adds two history variables: the passes otherTask completed
while the contactor was closed against the pressed button, and whether the last order overtook otherTask on its
way to close the contactor.

**SharedPreferences** models the global Preferences object. The library's `begin`, `end`, `get` and
`put` are modelled from what the code relies on: begin does nothing while a session is noted as open, otherwise it opens
the handle and then notes that; end closes the handle and then notes that; a put or get without both has no effect or returns the
default. The two steps of begin and of end (`SessionCall`) let two tasks both find the session closed, and both open it. Setup and AppConfigTask have the same priority, so their calls interleave one by one; getTransectionId
runs at a higher priority and is one step. The values of a form are the number of its submission. If the soft access
point cannot be started, websocketSetupApp returns before all that: AppConfigTask then takes no step.

**Meter** models `ModbusLOOP` with `checkRecivingdataOnModbus` (`Request`, `Check`, `Timeout`), the serial line (`Arrive`, with requests that stay
unanswered, bytes that are lost and bytes that come after the 700 ms) and `getdataSendToServer` value by value (`BeginReading`, `TestM`, `ReadValue`). An answer is its header
and one byte for each of the two kinds of value: those whose getter looks at `m` first and those whose getter does not; a byte knows the poll it answers and its position. That a
value inside an answer looks like a header is left out. Because every step of a poll ends in a sleep of 2 ms or more, at most one falls between two steps of a reading, which take
microseconds (`Preempt`).

**FloatDecode** is `dataformatter`: the float of four bytes, added up bit by bit and rounded to a float in every round, against the definition of IEEE 754.
The widths of exponent and mantissa are parameters. The code always puts a 1 before the mantissa, so zero is decoded as 2^-127, and a NaN as infinite.

**GSMComm** is the dialogue with the modem. A line is the command it answers, what it says, and whether that command is the last written (`fresh`);
`inbox`, `out` and `uart` are the ways of a command to the modem, of a line back, and the receive buffer. `Read` and `Timeout` are the two outcomes of a round of
`sendCommandWithAnswer`, `After` the order of the commands of `dataModeActivateonModule`, `startPPPOS` and `dataSendToServerOverGSM` with every return, `Flush` and `Response` what
follows the prompt. The modem is external: it executes commands in order and takes what follows its prompt for data. `ModemFaults` selects answers in pieces, late, missing, or refusing.
`GSMRestart` is a restart of the ESP32 at any step: either the modem loses its power too (`ModemLosesPower`), or it goes on where it was (`ModemGoesOn`), prompting if it was, with the
commands and answers that are on their way, of which the last write may be cut off and some lines come before the serial port is begun again. `unserved` remembers that a prompt was left without its data, `late`
also that something was left on its way.

**Connectivity** composes GSMComm with `setup` and `InternetConnectivity`: the setting Mode, the loop of automatic mode, `connectToWifi`, the second call that setup makes when the first did not
return 1, and the task created in the end. WiFi, once asked for, comes and goes (`WifiChanges`). `Restart` begins setup again, from anywhere and with any stored Mode: `handleReboot`, a watchdog or the power.

**WebServer** is the HTTP server under the clients of the configuration page. A request is the sequence of its lines and the two halves of its form (`Parts`), and a client may pause before
any of them or leave; each is read by an action of its own (`ReadRequest`, `ReadHeader`, `ReadBody`), with the timeouts of five seconds. The head ends at an empty line *or at a line that did not come in time*, as
in the code, and what then follows is taken for the form (`Arguments`). `args` outlives the request, as `_currentArgs` does. `reboot` closes everything.

**JsonDocument** is the memory of a document: slots of pools, their links, the list of freed slots, the reference counts of strings. An operation is a set of outcomes, because each
`allocate` and each growth of the array of pools may fail, also the one that shrinks a pool. Freed slots are a set: the order in which they are used again makes no difference. `Use` is every operation a program has;
what sets the root clears the document first, and a string added to an array is dropped once the document has overflowed, as in the code.
**JsonDeserializer** reads a text of tokens into such a document, with the recursion of the code as a stack: text after the root is invalid if the root is a number and ignored otherwise (`Ready`), and keys need no quotes
(`Keys`: a number or null is then a string, which one is left open). **JsonSerializer** writes one. **MCJson** compares both with trees: `Rendered` is the text of a tree, `ReadBack` the
tree a document holds. The last two use recursive operators and are for TLC only; what the first two iterate over (a list of slots, what hangs below a value, the elements added on the way to
an index) is written with functions on numbers of steps, so that JsonProofs can reason about it.

**OrderedTree** is what a document promises to its users: a tree whose nodes are values, with elements and members in the order they were added; an operation changes the node it is about and
nothing else, and stops on the way only when memory runs out, which the document then tells. **JsonTree** looks at a JsonDocument as such a tree (`TreeOf`: the slots in use, without the second slot of a
large number) and states that the document implements OrderedTree (`ImplementsTree`), that each use does to the tree what it is asked to (`UsesDoAsAsked`), and that no object has two members of one
name. `tree` is a variable of JsonTree that only observes: MCJson sets it to `TreeOf(doc)` in every step, and the theorems have that as the hypothesis `[]Observed`.

The operators marked *Mutant* change one definition the way a slip in the code would. The property they are paired with in
`PROJECT.json` is violated when they take its place: so each property depends on the code it is about.

## 3. Runs

| Run | Module, cfg | Checks | Bounds |
|---|---|---|---|
| `store_faults` | MCOfflineStore | `TypeOK`, `AllOrNothing`, `ImplementsDurableBacklog` | 2 packets, limit 3, backlog up to 4, all faults |
| `store_overflow` | MCOfflineStore, OfflineStoreOverflow | finds `SavedIsLoadable` violated | the same, no faults |
| `uplink_ledger` | MCUplink, UplinkLedger | `ImplementsReadingLedger`, `AtRestIsDurable` | 3 readings, limit 2, both links; power cuts, no network, losses, errors |
| `uplink_faults` | MCResend, UplinkFaults | `TypeOK`, `OldestFirst`, `RepeatsAtMostOne`, `RepeatsPerPowerCut` | 3 readings, limit 2, both links, all faults |
| `uplink_drain` | MCDrain, UplinkDrain | `DrainsAfterOutage` (liveness) | backlog up to 3, all links and faults of the network; open, print and heap fail |
| `contactor` | MCContactor | `ContactorTypeOK`, `OpensWithinAPass`, `OffFailsOnlyOvertaken`, `FaultKeepsOpen`, `ClosesAfterFault` (liveness) | the passes counted, up to 3 |
| `contactor_off` | MCContactor, ContactorOff | finds `OffIsOpen` violated | |
| `preferences_shared` | MCSharedPreferences | `TypeOK`, `ReusedOnlyIfShared`, `AnsweredFormsAreWhole` | 2 readings, 2 forms, any number of restarts |
| `meter` | MCMeter | `TypeOK`, `OfOneAnswer`, `NotOlderThanLimit`, `ReadingsDecode` | 4 polls, limit 2 instead of 200, all faults of the line; every register of 3 exponent and 5 mantissa bits |
| `link` | MCLink, Link | `TypeOK`, `AnswersInStep`, `StartedIsActive`, `DataIsReading`, `SetupEnds` (liveness) | modes 0 to 3, 2 rounds, 1 repetition of a timed loop, 1 answer late or left by a restart; answers in pieces, late, missing; any number of restarts |
| `json` | MCJson, Json | `TypeOK`, `SlotsHaveOnePlace`, `StringsAreCounted`, `OkIsTheText`, `ErrorsAreTrue`, `ReloadedIsSaved`, `NamesAreUnique`, `ImplementsTree` (refinement), `UsesDoAsAsked` (every use) | 4 pools of 2 slots, nesting 2, 2 uses in a row, the texts of 18 trees with every cut, every wrong character and something after the end, and 2 with a key without quotes |
| `web` | WebServer, MCWebServer | `TypeOK`, `FormsAreWhole`, `PromptIsAnswered` (liveness) | 2 clients |

*Why the bounds are enough.* The limit of the load lies below the longest backlog in every run of the store and the uplink, so that a file
that is refused for its size is among the states. Three readings give a backlog in which one is replayed, one is kept and one is at hand.
Two packets are enough to tell the order and the identity of what a file holds. Two readings and two forms let a number be given again after a restart and let a newer form meet an older one. Four polls are two more than the
limit of Meter, so that values grow too old, and enough for an answer made of two. The small widths of FloatDecode have every kind of exponent and
both directions of rounding. Two rounds are a first and a last one of the loop of automatic mode, and one answer that is late puts every later command out of step; "error" is
left out of the run because a refusal takes the way of an answer that is not the one wanted (the larger instance with it has 6.5 million states and no error). Pools of two slots are filled, left half full and grown by every
text; with 4 of them memory ends for want of slot numbers too, as the last id is `NULL_SLOT`. Two clients are one that holds up and one that is held up, or one whose arguments are left to the other.
The three readings of `uplink_faults`, which already has more than a million states, also let a fresh reading be handed over between two hand-overs of a stored one: the replay of one, the next reading, and the replay again after a power cut.
`Backlog` of `link` bounds the answers that are late and what a restart leaves on its way together; one is enough to put the next setup out of step before its first command.
The theorems have none of these bounds.

*Deadlock* is checked in the runs of the store, the contactor, the settings and the meter. The uplink may stop for good when setup found no network and the power
is never cut, and when the bound on readings is reached; setup of `link` is over without a task to upload; `json` ends when its bound on uses is reached; `web` when every client was served. Their cfgs switch the check off.

*Fairness.* `uplink_drain` assumes weak fairness of every step of the task, because FreeRTOS runs a ready task and both uploads return within their
timeouts, and of the answer to a request that is not lost; none of power cuts, losses and failures, which the
property bounds itself (`<>[][~...]_vars`). The contactor assumes weak fairness of otherTask, which runs every 10 ms when the
tasks of higher priority sleep, and of the end of responseFromServer. `link` assumes it of setup, every wait of which is bounded, and of the modem and the line as a whole: a modem that answers at all does so within five seconds, or its
answer counts as late. Nothing makes restarts end or happen: `SetupEnds` asks that setup ends unless the meter is restarted for ever. `web` assumes it of handleClient, which `loopConfig` calls every 10 ms, and nothing of the clients. In `MCDrain` every reading has the number 1: the property only speaks of the length of the backlog.

## 4. What the runs found

- `store_overflow`: a backlog of more than 200 readings is "Saved successfully" and cannot be loaded; the next save removes the file.
- `contactor_off`: an order to open that comes while otherTask is between its test of relayStatus and its write leaves
  the contactor closed. From then on nothing opens it but an order to close followed by one to open, because both branches of otherTask ask for relayStatus, and
  further orders to open are no change. `OffFailsOnlyOvertaken` shows that this is the only way.

Other properties name an exception, and the exception is the finding; each property shows that it is the only one:

- `ImplementsReadingLedger`: over GSM a request that is lost after the prompt loses the reading, because the upload returns true whatever came back; over WiFi an answer of
  500 does.
- `ReusedOnlyIfShared`, `AnsweredFormsAreWhole`: when two tasks use one session of the Preferences object, numbers are given twice, and a form is answered "OK" though its fields were dropped.
- `OfOneAnswer`, `NotOlderThanLimit`: with bytes both lost and late, 231 bytes of two answers pass for one, as no checksum is
  compared; with late answers alone, values of an older poll count as those of the last.
- `AllOrNothing`, `ImplementsDurableBacklog`: a load without heap for all packets succeeds with readings that are empty or have pieces missing, and the next save writes those over the
  file that still had them whole; a load that is refused for want of heap leaves an empty vector, with the same end. No reading vanishes or changes its place in the first case, and nothing else damages one that is stored.
- `AnswersInStep`, `DataIsReading`: one late answer puts all later commands and answers out of step, until a wait runs out with nothing under way; the modem may
  then take a command for a reading. So it does with the first AT of setup when the ESP32 restarts between the prompt and the data (`GSMComm.cpp:286-299`) and the modem does not. In automatic mode a first result of GSM followed by a second of WiFi ends in "No Network Found" (`Return`): no task is created, but never one without a link.
- `FormsAreWhole`: a pause of five seconds within the head of a submission stores a form with fields missing.
- `MCNext` of MCJson leaves out one case: after `shrinkToFit` the array of pools can grow past `maxPools`, and slot numbers begin again. With the sizes of the build that takes 65,535 slots, more than the memory of the ESP32, and the firmware never shrinks a document by hand.
  The theorems of JsonProofs name the same exception as a hypothesis (`PoolsFit`).

## 5. Proofs

All by TLAPS, without any assumption but those named in the modules.

- **StoreAndContactorProofs**, the store. `TypeCorrect`; `RestoresAllOrNothing` and `Implements` (the refinement of DurableBacklog) for every combination of
  faults, with what each leaves of the single readings; `DurableAtRest` under `StoreFaults = {}`. AllOrNothing is not inductive: an open that fails ends a save, and what the file holds then matters.
  The strengthening is `NoneWhileOpening`: the file was removed before.
  The contactor, which shares nothing with it: `ContactorTypes`, `OffFails` (strengthened to the time before otherTask writes) and `OpensInTime` (after one pass
  against the button, otherTask is on its way to find it pressed).
- **UplinkProofs.** `TypeCorrect`, `PostsOldestFirst`, `RepeatsOneReading`, for all links, faults and lengths. The inductive invariant `IInv`
  says of the vector and of the file that each is a `Backlog` (increasing, no number beyond the last given, none but its first taken for delivered);
  that at rest the file is the vector or one of them is empty (`Saved`); that the store works only where the task waits for it (`Scheduled`); and that a
  reading just taken is newer than all that is stored, a replayed one the first of it (`InFlight`). The lemmas on sequences (`AppendBacklog`,
  `HeadOfBacklog`, `NewerDone`, `NextReading`) carry the arithmetic, so that the proof of each action only combines them. `Saved` is what makes the erasure of a
  reading safe: its copy in the file is the first there too.
  `KeepsTheLedger` (the refinement of ReadingLedger) and `RestsDurable` are under `StoreFaults = {}`: with a mount that formats or a load that is refused for want
  of heap, a reading the file held is lost without a power cut, and the ledger does not hold. To `IInv` they add what the file restores in each phase of a save (`Durable`: at rest the vector,
  unless it is longer than the limit of the load; before it is removed, nothing that is neither in the vector nor settled; then nothing), and that the reading whose upload returns true is settled (`Traced`).
  `RepeatsAreCutShort` holds with every fault. Its invariant `Credited` says that of what is stored or at hand only the first of the vector or of the file can be one that was handed over,
  and that only with a power cut to its credit.
- **SharedPreferencesProofs.** `TypeCorrect`, `NumbersAreNew` and `FormsAreStored`, for any number of readings, forms and restarts. As long as no session was shared, a task that is between begin
  and end holds the object alone (`Exclusive`); flash then holds the last number given, or the next one (`Numbered`); and what a form has put so far is what its step says (`Stored`).
- **MeterProofs.** `TypeCorrect`, `ValuesAreFresh` and `ValuesOfOneAnswer`, for every limit and every combination of line faults. The age of the values is bounded by the counter `m` (`Counted`), also for a
  value that is about to be read after its test (`Tested`); the bytes in the buffer are in the order of their polls (`InARow`), so that a full buffer is one answer unless bytes were both lost and late (`OfOne`).
  `FloatsAreDecoded` and `ReadingsAreDecoded` hold for all widths of exponent and mantissa, so also for 8 and 23, of which TLC cannot try the registers. Each round of the two loops is a function of the
  one before (`Rounds`), so what they compute is shown by induction: the exponent is the field of its bits (`SumOfBits`), and `value` after a round is the first bits of the mantissa with their weight (`Exact`).
  That is even, so a float has it, until the last bit is added with the exponent 0; only there is it rounded, by one unit. With the highest exponent it is infinite from the first round on (`ValueIsInfinite`).
- **WebServerProofs.** `TypeCorrect` and `StoresWholeForms`, for any number of clients. A client takes part once: it is waited for, in the queue or served (`Waiting`); and how much has been read of a request tells
  what is known of it, as long as no line of its head was late (`Parsing`).
- **ConnectivityProofs.** `TypeCorrect`, `StaysInStep`, `TakesDataOnly` and `UploadsWhenActive`, for any number of rounds and repetitions, all modes and all faults of the modem (also refusals), and restarts at any step with and without the modem. The invariant `Dialogue` says what may
  be on its way to the modem, from it and in the receive buffer: while no answer was late or in pieces, a single message, which belongs to the command that is waited for (`InStep`); while none was late, nothing behind
  AT+HTTPACTION or its prompt before the data is written, and no other prompt than one that a restart left, until the first AT is answered (`Prompted`); and since a wait of `dataSendToServerOverGSM` ran out with nothing under way, only answers to the last command, of which the line looked for is the
  last (`Synchronous`): that line is why nothing is left to be taken for the answer to the next command. `Started` adds where setup is meanwhile.
- **JsonProofs.** `TypesAreRight`, `NoSlotIsLost` and `NoStringIsLost`, for every size of pools and of slot numbers, every set of texts and strings, any nesting, any sequence of texts and uses, and every
  allocation that fails; all under `[]PoolsFit` (section 4). A document alone does not show why a step is safe: that a value has one parent is a fact about all links at once. The invariant therefore says
  that *places* `g` exist for the document (`Good`): for each value in use the one whose link leads to it (`up`), the container it belongs to (`own`), what it is there (`role`), and a `rank` that grows
  along the links. `Forest` ties links and places together, so that nothing is reached twice and no link comes back to where it started; `Tails` and `Alternating` say what collections remember and that
  keys and values take turns; `Accounted` and `Counted` compare with the slots handed out and with the reference counts. While slots are being filled, `g.roots` holds those that no link leads to yet.
  Each operation has a lemma that gives the places after it from those before: taking a slot gives it a rank above all others (`Allocated`), linking it moves it out of `roots` (`Extended`, `Appended`),
  `Cleared` and `Freed` drop what is below a value, `CutOutGood` takes a value out of its list. They combine into lemmas for the operations of a program (`UseKeeps`) and for the steps of the parser
  (`VariantKeeps`, `MemberKeeps` and so on), for which `Parsing` says that the containers that are open have growing ranks and the value to be filled lies above them all and is null.
  What the iterations compute for documents of any depth is proved by induction in the form of a set of numbers (`SetInduction`, from the well-foundedness of the natural numbers): `Below` is the least set closed under links
  (`BelowClosed`, `BelowLeast`), and `Kids` lists what a collection owns (`KidsInTree`). `Grows` carries PoolsFit back from the document a step ends with to those within it.
- **JsonTreeProofs.** `TheMemoryIsATree` (the refinement of OrderedTree), `UsesDoWhatTheySay` and `NamesStayUnique`, for the same parameters as JsonProofs, under `[]PoolsFit` and `[]Observed`. JsonProofs knows
  which slots are linked; here the invariant `Mirror` adds what a reader sees in them: a set `D` of nodes, closed under what hangs below them, in which every key and value is *proper* and of which nothing is
  missing (`Seen`), so that the tree is `Shape(doc, D)`. `D` leaves out the second slots of large numbers and slots that are being filled and not linked yet; `ShapeIs` shows that it is the domain of `TreeOf`.
  While the parser runs, the containers it has open and the place it fills next are nodes of the tree (`Placed`). Each operation of the memory has a lemma that says what becomes of the tree, in the terms of
  OrderedTree: a value is written (`Assigned`), new nodes come last (`Sprung`, `Lengthened`), nodes go with all that is below them (`CutOff`, `ClearedTo`), or nothing shows and memory ran out (`RanOut`); the
  steps of a program (`AskedIs`) and of the parser (`VariantMirrored`, `MemberMirrored` and so on) combine them. A step of the parser on a member that is there already is the case that
  needs both: what is cleared is not above the container that is open, because ranks grow (`FoundMirrored`).
  `NamesStayUnique` is then proved of the abstract tree (`NamesStep`): every action of OrderedTree keeps the names of a tree apart in which each node has one place (`TreeLike`), which the tree of a document is.

Only model-checked: the liveness properties `DrainsAfterOutage`, `FaultKeepsOpen`, `ClosesAfterFault`, `SetupEnds` and `PromptIsAnswered` (TLAPS has no ENABLED here);
and `OkIsTheText`, `ErrorsAreTrue` and `ReloadedIsSaved`, whose trees need recursive operators.

## 6. Not modelled

- **DNS server**: every name has the same address; an answer depends on the question alone.
- **HTTP server**: uploads, raw bodies, authentication, middleware, regular expressions in paths and event streams: the page has no caller for them. Nor its headers and status texts, which are wording.
- **JSON library**: MsgPack, filters, converters between C++ types, adapters of string types and the compatibility layer: no caller, or no state (templates that pick an overload). Escapes and the digits of numbers are
  characters below the tokens; that a string written without heap may miss characters is the damage of OfflineStore and Uplink.
- **First-party code**: the page's HTML and scripts, serial output, pin modes; `dataGetFromServer`, `disableAppConfig` and the empty energy functions (no effect or no caller); the text of a reading beside its number.
- **Examples, tests and benchmarks of the vendored libraries**: not part of the firmware.

By far most lines of the repository are these: the model covers the code that changes state on the firmware's own ways.
