-------------------------- MODULE SharedPreferences --------------------------
(***************************************************************************)
(* The flash settings of the meter, and the one global object preferences  *)
(* through which three tasks reach them without a lock:                    *)
(*   - setup loads the number of the last reading and the credentials      *)
(*     (getSavedTxnId and InternetConnectivity);                           *)
(*   - the server task numbers every reading (getTransectionId);           *)
(*   - AppConfigTask loads what the web page shows (websocketSetupApp) and *)
(*     stores what is submitted (handleSubmit).                            *)
(*                                                                         *)
(* setup and AppConfigTask have the same priority and are time-sliced, so  *)
(* each of their calls of the library is a step, begin and end are two.    *)
(* The server task has a higher one and does not block on anything these   *)
(* two could use to run, so getTransectionId is one step, between any two  *)
(* of theirs.                                                              *)
(***************************************************************************)
EXTENDS Naturals, Sequences

VARIABLES
  session,   \* of the object: "closed", "opened", "open" or "closing", see SessionCall
  nvs,       \* the namespace "credentials" in flash; 0 is what was never put
  txnID,     \* int txnID
  setup,     \* the next call of InternetConnectivity
  round,     \* setup calls it once or twice
  serving,   \* has setup created the server task?
  app,       \* what AppConfigTask is doing
  call,      \* its next call
  submitted, \* the number of forms submitted
  answered,  \* the number of the last form answered "OK"
  issued,    \* observation: the numbers given to readings
  reused,    \* observation: was one given twice?
  shared     \* observation: did a begin find the session of another task?

vars == <<session, nvs, txnID, setup, round, serving, app, call, submitted,
          answered, issued, reused, shared>>

Fields == {"ssid", "password", "APNSIM", "Mode"}

(***************************************************************************)
(* The calls of each function, in program order; begin is "open", "start", *)
(* end is "close", "clear".                                                *)
(* What is read of the fields only reaches the log, the page and the       *)
(* modem, and is left out.                                                 *)
(***************************************************************************)
InternetConnectivity ==
  <<"open", "start", "TxnID", "close", "clear", "open", "start", "close", "clear">>

WebsocketSetupApp == <<"open", "start", "close", "clear">>

\* Mutant: begin is missing.
HandleSubmitUnopened ==
  <<"ssid", "password", "APNSIM", "Mode", "close", "clear", "send">>

HandleSubmit ==
  <<"open", "start", "ssid", "password", "APNSIM", "Mode", "close", "clear", "send">>

AppCalls ==
  CASE app = "setup"  -> WebsocketSetupApp
    [] app = "submit" -> HandleSubmit
    [] app = "loop"   -> << >>

TypeOK ==
  /\ session \in {"closed", "opened", "open", "closing"}
  /\ nvs \in [Fields \cup {"TxnID"} -> Nat]
  /\ txnID \in Nat
  /\ setup \in 1..(Len(InternetConnectivity) + 1)
  /\ round \in {1, 2}
  /\ serving \in BOOLEAN
  /\ app \in {"setup", "submit", "loop"}
  /\ call \in 1..(Len(AppCalls) + 1)
  /\ submitted \in Nat
  /\ answered \in 0..submitted
  /\ issued \subseteq Nat
  /\ reused \in BOOLEAN
  /\ shared \in BOOLEAN

Init ==
  /\ session = "closed"
  /\ nvs = [k \in Fields \cup {"TxnID"} |-> 0]
  /\ txnID = 0
  /\ setup = 1
  /\ round = 1
  /\ serving = FALSE
  /\ app = "setup"
  /\ call = 1
  /\ submitted = 0
  /\ answered = 0
  /\ issued = {}
  /\ reused = FALSE
  /\ shared = FALSE

-----------------------------------------------------------------------------
(***************************************************************************)
(* The Preferences library keeps a handle and the flag _started:           *)
(*   "closed"   no handle is open, and _started is false                   *)
(*   "opened"   a handle is open, and _started is still false              *)
(*   "open"     a handle is open, and _started is true                     *)
(*   "closing"  the handle is closed, and _started is still true           *)
(* begin does nothing if it finds _started; else it opens a handle         *)
(* ("open") and then sets _started ("start"). end does nothing if it does  *)
(* not find _started; else it closes the handle ("close") and then clears  *)
(* _started ("clear"). Other tasks may call either between the two steps.  *)
(* Unless the session is open, a put is dropped, and a get returns the     *)
(* default.                                                                *)
(***************************************************************************)
Started == session \in {"open", "closing"}

SessionCall(c) ==
  /\ c \in {"open", "start", "close", "clear"}
  /\ session' = CASE c = "open" /\ session = "closed" -> "opened"
                  [] c = "start" /\ session = "opened" -> "open"
                  [] c = "start" /\ session = "closed" -> "closing"
                  [] c = "close" /\ Started -> "closing"
                  [] c = "clear" /\ session = "open" -> "opened"
                  [] c = "clear" /\ session = "closing" -> "closed"
                  [] OTHER -> session
  /\ shared' = (shared \/ (c = "open" /\ session # "closed"))

Put(k, v) == nvs' = IF session = "open" THEN [nvs EXCEPT ![k] = v] ELSE nvs

Get(k) == IF session = "open" THEN nvs[k] ELSE 0

\* begin returns at once if _started is set, end if it is not.
After(at, c) ==
  IF (c = "open" /\ Started) \/ (c = "close" /\ ~Started) THEN at + 2 ELSE at + 1

-----------------------------------------------------------------------------
(***************************************************************************)
(* setup                                                                   *)
(***************************************************************************)

SetupCall ==
  /\ setup <= Len(InternetConnectivity)
  /\ LET c == InternetConnectivity[setup]
     IN  /\ \/ SessionCall(c) /\ UNCHANGED txnID
            \/ c = "TxnID" /\ txnID' = Get(c) /\ UNCHANGED <<session, shared>>
         /\ setup' = After(setup, c)
  /\ UNCHANGED <<nvs, round, serving, app, call, submitted, answered, issued, reused>>

\* Anything but WiFi makes setup call InternetConnectivity a second time.
SetupAgain ==
  /\ setup > Len(InternetConnectivity)
  /\ ~serving
  /\ round = 1
  /\ round' = 2
  /\ setup' = 1
  /\ UNCHANGED <<session, nvs, txnID, serving, app, call, submitted, answered,
                 issued, reused, shared>>

SetupDone ==
  /\ setup > Len(InternetConnectivity)
  /\ ~serving
  /\ serving' = TRUE
  /\ UNCHANGED <<session, nvs, txnID, setup, round, app, call, submitted, answered,
                 issued, reused, shared>>

-----------------------------------------------------------------------------
(***************************************************************************)
(* The server task: begin, putInt, end, and the reading has its number.    *)
(***************************************************************************)

\* Mutant: the number is stored before it is increased.
GetTransectionIdLate(id) ==
  /\ serving
  /\ txnID' = id
  /\ shared' = (shared \/ session # "closed")
  /\ nvs' = IF session = "closing" THEN nvs ELSE [nvs EXCEPT !["TxnID"] = txnID]
  /\ session' = "closed"
  /\ issued' = issued \cup {id}
  /\ reused' = (reused \/ id \in issued)
  /\ UNCHANGED <<setup, round, serving, app, call, submitted, answered>>

GetTransectionId(id) ==
  /\ serving
  /\ txnID' = id
  /\ shared' = (shared \/ session # "closed")
  /\ nvs' = IF session = "closing" THEN nvs ELSE [nvs EXCEPT !["TxnID"] = id]
  /\ session' = "closed"
  /\ issued' = issued \cup {id}
  /\ reused' = (reused \/ id \in issued)
  /\ UNCHANGED <<setup, round, serving, app, call, submitted, answered>>

-----------------------------------------------------------------------------
(***************************************************************************)
(* AppConfigTask. The values of a form are the number of its submission.   *)
(***************************************************************************)

AppCall ==
  /\ call <= Len(AppCalls)
  /\ LET c == AppCalls[call]
     IN  /\ \/ SessionCall(c) /\ UNCHANGED <<nvs, answered>>
            \/ c \in Fields /\ Put(c, submitted) /\ UNCHANGED <<session, shared, answered>>
            \/ c = "send" /\ answered' = submitted /\ UNCHANGED <<session, shared, nvs>>
         /\ call' = After(call, c)
  /\ UNCHANGED <<txnID, setup, round, serving, app, submitted, issued, reused>>

\* Mutant: the next function does not begin at its first call.
AppReturnInPlace ==
  /\ app # "loop"
  /\ call > Len(AppCalls)
  /\ app' = "loop"
  /\ UNCHANGED <<session, nvs, txnID, setup, round, serving, call, submitted,
                 answered, issued, reused, shared>>

AppReturn ==
  /\ app # "loop"
  /\ call > Len(AppCalls)
  /\ app' = "loop"
  /\ call' = 1
  /\ UNCHANGED <<session, nvs, txnID, setup, round, serving, submitted, answered,
                 issued, reused, shared>>

\* loopConfig finds a form.
Submit ==
  /\ app = "loop"
  /\ app' = "submit"
  /\ call' = 1
  /\ submitted' = submitted + 1
  /\ UNCHANGED <<session, nvs, txnID, setup, round, serving, answered, issued,
                 reused, shared>>

\* A power cut, or handleReboot.
Restart ==
  /\ session' = "closed"
  /\ txnID' = 0
  /\ setup' = 1
  /\ round' = 1
  /\ serving' = FALSE
  /\ app' = "setup"
  /\ call' = 1
  /\ UNCHANGED <<nvs, submitted, answered, issued, reused, shared>>

-----------------------------------------------------------------------------

Next ==
  \/ SetupCall \/ SetupAgain \/ SetupDone
  \/ GetTransectionId(txnID + 1)
  \/ AppCall \/ AppReturn \/ Submit
  \/ Restart

Spec == Init /\ [][Next]_vars

-----------------------------------------------------------------------------
(***************************************************************************)
(* Properties                                                              *)
(***************************************************************************)

\* A number is given to a second reading, over any number of restarts, only
\* after two tasks had used the same session: the number is in flash before the
\* reading that bears it is used (CommunicationConnectivity.cpp:65-79).
ReusedOnlyIfShared == reused => shared

\* What is in flash of a form that was answered is all of that form, unless
\* tasks shared a session or a newer form is being stored: numbering readings
\* and restarting leave it alone (WifiComm.cpp:293-319).
AnsweredFormsAreWhole ==
  ~shared /\ submitted = answered => \A f \in Fields : nvs[f] = answered
=============================================================================
