----------------------- MODULE SharedPreferencesProofs -----------------------
(***************************************************************************)
(* Theorems of SharedPreferences, for any number of readings, forms and    *)
(* restarts.                                                               *)
(*                                                                         *)
(* As long as no begin found the session of another task, the session is   *)
(* that of the one task that is between its begin and its end: Exclusive.  *)
(* The two properties follow from where the tasks are then, see Numbered   *)
(* and Stored.                                                             *)
(***************************************************************************)
EXTENDS SharedPreferences, TLAPS

-----------------------------------------------------------------------------
(***************************************************************************)
(* The calls of each function, one by one                                  *)
(***************************************************************************)
LEMMA Lengths ==
  /\ Len(InternetConnectivity) = 9
  /\ app = "setup" => Len(AppCalls) = 4
  /\ app = "submit" => Len(AppCalls) = 9
  /\ app = "loop" => Len(AppCalls) = 0
BY DEF InternetConnectivity, AppCalls, WebsocketSetupApp, HandleSubmit

-----------------------------------------------------------------------------
(***************************************************************************)
(* Type correctness                                                        *)
(***************************************************************************)
\* The flags of TypeOK, and the rest of it with the calls counted.
Flags == serving \in BOOLEAN /\ reused \in BOOLEAN /\ shared \in BOOLEAN

AfterLast == IF app = "setup" THEN 5 ELSE IF app = "submit" THEN 10 ELSE 1

Typed ==
  /\ session \in {"closed", "opened", "open", "closing"}
  /\ nvs \in [Fields \cup {"TxnID"} -> Nat]
  /\ txnID \in Nat
  /\ setup \in 1..10
  /\ round \in {1, 2}
  /\ app \in {"setup", "submit", "loop"}
  /\ call \in 1..AfterLast
  /\ submitted \in Nat
  /\ answered \in 0..submitted
  /\ issued \subseteq Nat

LEMMA Bounds ==
  /\ 1 .. (Len(InternetConnectivity) + 1) = 1..10
  /\ app \in {"setup", "submit", "loop"} => 1 .. (Len(AppCalls) + 1) = 1..AfterLast
<1>1. Len(InternetConnectivity) + 1 = 10
  BY Lengths
<1>2. app \in {"setup", "submit", "loop"} => Len(AppCalls) + 1 = AfterLast
  <2>1. ASSUME app = "setup" PROVE Len(AppCalls) + 1 = AfterLast
    <3>1. Len(AppCalls) = 4
      BY <2>1, Lengths
    <3>2. AfterLast = 5
      BY <2>1 DEF AfterLast
    <3> QED
      BY <3>1, <3>2
  <2>2. ASSUME app = "submit" PROVE Len(AppCalls) + 1 = AfterLast
    <3>1. Len(AppCalls) = 9
      BY <2>2, Lengths
    <3>2. AfterLast = 10
      BY <2>2 DEF AfterLast
    <3> QED
      BY <3>1, <3>2
  <2>3. ASSUME app = "loop" PROVE Len(AppCalls) + 1 = AfterLast
    <3>1. Len(AppCalls) = 0
      BY <2>3, Lengths
    <3>2. AfterLast = 1
      BY <2>3 DEF AfterLast
    <3> QED
      BY <3>1, <3>2
  <2> QED
    BY <2>1, <2>2, <2>3
<1> QED
  BY <1>1, <1>2

LEMMA TypeParts == TypeOK <=> Typed /\ Flags
BY Bounds, Zenon DEF TypeOK, Typed, Flags

LEMMA FlagsStep == Flags /\ [Next]_vars => Flags'
<1> SUFFICES ASSUME Flags, [Next]_vars
             PROVE  Flags'
  OBVIOUS
<1> USE DEF Flags
<1>1. CASE SetupCall
  BY <1>1 DEF SetupCall, SessionCall
<1>2. CASE SetupAgain \/ SetupDone
  BY <1>2 DEF SetupAgain, SetupDone
<1>3. CASE GetTransectionId(txnID + 1)
  BY <1>3 DEF GetTransectionId
<1>4. CASE AppCall
  BY <1>4 DEF AppCall, SessionCall
<1>5. CASE AppReturn \/ Submit \/ Restart
  BY <1>5 DEF AppReturn, Submit, Restart
<1>6. CASE UNCHANGED vars
  BY <1>6 DEF vars
<1> QED
  BY <1>1, <1>2, <1>3, <1>4, <1>5, <1>6 DEF Next

LEMMA TypedStep == Typed /\ [Next]_vars => Typed'
<1> SUFFICES ASSUME Typed, [Next]_vars
             PROVE  Typed'
  OBVIOUS
<1> USE DEF Typed, AfterLast
<1>1. CASE SetupCall
  <2>1. setup' \in 1..10
    <3>1. setup \in 1..9 /\ setup' = After(setup, InternetConnectivity[setup])
      BY <1>1, Lengths DEF SetupCall
    <3>2. setup = 9 => InternetConnectivity[setup] = "clear"
      BY DEF InternetConnectivity
    <3> QED
      BY <3>1, <3>2 DEF After
  <2>2. txnID' \in Nat
    BY <1>1 DEF SetupCall, Get
  <2>3. session' \in {"closed", "opened", "open", "closing"}
    BY <1>1 DEF SetupCall, SessionCall
  <2>4. UNCHANGED <<nvs, round, app, call, submitted, answered, issued>>
    BY <1>1 DEF SetupCall
  <2>5. call' \in 1..AfterLast'
    BY <2>4
  <2> QED
    BY <2>1, <2>2, <2>3, <2>4, <2>5, Zenon
<1>2. CASE SetupAgain \/ SetupDone
  <2>1. setup' \in 1..10 /\ round' \in {1, 2}
    BY <1>2 DEF SetupAgain, SetupDone
  <2>2. UNCHANGED <<session, nvs, txnID, app, call, submitted, answered, issued>>
    BY <1>2 DEF SetupAgain, SetupDone
  <2>3. call' \in 1..AfterLast'
    BY <2>2
  <2> QED
    BY <2>1, <2>2, <2>3, Zenon
<1>3. CASE GetTransectionId(txnID + 1)
  BY <1>3 DEF GetTransectionId
<1>4. CASE AppCall
  <2>1. call' \in 1..AfterLast
    <3>1. call \in 1 .. Len(AppCalls) /\ call' = After(call, AppCalls[call])
      BY <1>4, Lengths DEF AppCall
    <3>2. /\ app = "setup" /\ call = 4 => AppCalls[call] = "clear"
          /\ app = "submit" /\ call = 9 => AppCalls[call] = "send"
      BY DEF AppCalls, WebsocketSetupApp, HandleSubmit
    <3> QED
      BY <3>1, <3>2, Lengths DEF After
  <2>2. nvs' \in [Fields \cup {"TxnID"} -> Nat]
    BY <1>4 DEF AppCall, Put
  <2>3. session' \in {"closed", "opened", "open", "closing"}
    BY <1>4 DEF AppCall, SessionCall
  <2>4. answered' \in 0..submitted
    BY <1>4 DEF AppCall
  <2> QED
    BY <1>4, <2>1, <2>2, <2>3, <2>4 DEF AppCall
<1>5. CASE AppReturn
  BY <1>5 DEF AppReturn
<1>6. CASE Submit
  BY <1>6 DEF Submit
<1>7. CASE Restart
  BY <1>7 DEF Restart
<1>8. CASE UNCHANGED vars
  BY <1>8 DEF vars
<1> QED
  BY <1>1, <1>2, <1>3, <1>4, <1>5, <1>6, <1>7, <1>8 DEF Next

LEMMA TypedAlways == Spec => [](Typed /\ Flags)
<1>1. Init => Typed
  BY DEF Init, Typed, AfterLast
<1>2. Init => Flags
  BY DEF Init, Flags
<1> QED
  BY <1>1, <1>2, FlagsStep, TypedStep, PTL DEF Spec

\* Every variable has its type, whatever the tasks do to each other's sessions.
THEOREM TypeCorrect == Spec => []TypeOK
BY TypeParts, TypedAlways, PTL

-----------------------------------------------------------------------------
(***************************************************************************)
(* One session at a time                                                   *)
(***************************************************************************)
SetupSession ==
  CASE setup \in {2, 7} -> "opened"
    [] setup \in {3, 4, 8} -> "open"
    [] setup \in {5, 9} -> "closing"
    [] OTHER -> "closed"

AppSession ==
  CASE app \in {"setup", "submit"} /\ call = 2 -> "opened"
    [] (app = "setup" /\ call = 3) \/ (app = "submit" /\ call \in 3..7) -> "open"
    [] (app = "setup" /\ call = 4) \/ (app = "submit" /\ call = 8) -> "closing"
    [] OTHER -> "closed"

\* The session is that of setup or that of AppConfigTask.
Exclusive ==
  /\ SetupSession # "closed" => AppSession = "closed" /\ session = SetupSession
  /\ SetupSession = "closed" => session = AppSession
  /\ serving => setup = 10

\* The number in flash is that of the last reading, and txnID is loaded from it before
\* a reading is numbered.
Numbered ==
  /\ \A id \in issued : id <= nvs["TxnID"]
  /\ round = 2 \/ setup > 3 => txnID = nvs["TxnID"]
  /\ ~reused

\* handleSubmit has stored the fields before its next call; the form before it is whole.
Stored ==
  /\ app = "submit" /\ call < 10 => answered < submitted
  /\ app = "submit" /\ call > 6 => \A f \in Fields : nvs[f] = submitted
  /\ app = "submit" =>
       /\ call > 3 => nvs["ssid"] = submitted
       /\ call > 4 => nvs["password"] = submitted
       /\ call > 5 => nvs["APNSIM"] = submitted
       /\ call > 6 => nvs["Mode"] = submitted
  /\ answered = submitted => \A f \in Fields : nvs[f] = answered

Alone == ~shared => Exclusive /\ Numbered /\ Stored

LEMMA AloneInit == Init => Alone
BY DEF Init, Alone, Exclusive, Numbered, Stored, SetupSession, AppSession, Fields

LEMMA SessionSteps ==
  ASSUME NEW c, SessionCall(c), ~shared'
  PROVE  /\ c \in {"open", "start", "close", "clear"}
         /\ ~shared
         /\ c = "open" => session = "closed" /\ session' = "opened"
         /\ c = "start" /\ session = "opened" => session' = "open"
         /\ c = "close" /\ session = "open" => session' = "closing"
         /\ c = "clear" /\ session = "closing" => session' = "closed"
BY DEF SessionCall, Started

LEMMA SetupStep ==
  ASSUME Typed, Alone, SetupCall PROVE Alone'
<1> USE DEF Typed, AfterLast
<1> SUFFICES ASSUME ~shared'
             PROVE  Exclusive' /\ Numbered' /\ Stored'
  BY DEF Alone
<1>1. /\ setup \in 1..9
      /\ setup' = After(setup, InternetConnectivity[setup])
      /\ UNCHANGED <<nvs, round, serving, app, call, submitted, answered, issued, reused>>
  BY Lengths DEF SetupCall
<1>2. /\ InternetConnectivity[1] = "open" /\ InternetConnectivity[2] = "start"
      /\ InternetConnectivity[3] = "TxnID"
      /\ InternetConnectivity[4] = "close" /\ InternetConnectivity[5] = "clear"
      /\ InternetConnectivity[6] = "open" /\ InternetConnectivity[7] = "start"
      /\ InternetConnectivity[8] = "close" /\ InternetConnectivity[9] = "clear"
  BY DEF InternetConnectivity
<1>3. ~shared
  BY DEF SetupCall, SessionCall
<1>4. Exclusive /\ Numbered /\ Stored
  BY <1>3 DEF Alone
<1>5. Exclusive' /\ setup' = setup + 1
  <2> USE DEF Exclusive, SetupSession
  <2> DEFINE c == InternetConnectivity[setup]
  <2>1. AppSession' = AppSession
    BY <1>1 DEF AppSession
  <2>2. CASE setup \in {1, 6}
    <3>1. SessionCall("open")
      BY <1>2, <2>2 DEF SetupCall
    <3>2. session = "closed" /\ session' = "opened" /\ setup' = setup + 1
      BY <1>1, <1>2, <2>2, <3>1, SessionSteps DEF After, Started
    <3> QED
      BY <1>1, <1>4, <2>1, <2>2, <3>2
  <2>3. CASE setup \in {2, 7}
    <3>1. session = "opened" /\ AppSession = "closed"
      BY <1>4, <2>3
    <3>2. SessionCall("start")
      BY <1>2, <2>3 DEF SetupCall
    <3>3. session' = "open" /\ setup' = setup + 1
      BY <1>1, <1>2, <2>3, <3>1, <3>2, SessionSteps DEF After
    <3> QED
      BY <1>1, <1>4, <2>1, <2>3, <3>1, <3>3
  <2>4. CASE setup = 3
    <3>1. session' = session /\ setup' = setup + 1
      BY <1>1, <1>2, <2>4 DEF SetupCall, SessionCall, After
    <3> QED
      BY <1>1, <1>4, <2>1, <2>4, <3>1
  <2>5. CASE setup \in {4, 8}
    <3>1. session = "open" /\ AppSession = "closed"
      BY <1>4, <2>5
    <3>2. SessionCall("close")
      BY <1>2, <2>5 DEF SetupCall
    <3>3. session' = "closing" /\ setup' = setup + 1
      BY <1>1, <1>2, <2>5, <3>1, <3>2, SessionSteps DEF After, Started
    <3> QED
      BY <1>1, <1>4, <2>1, <2>5, <3>1, <3>3
  <2>6. CASE setup \in {5, 9}
    <3>1. session = "closing" /\ AppSession = "closed"
      BY <1>4, <2>6
    <3>2. SessionCall("clear")
      BY <1>2, <2>6 DEF SetupCall
    <3>3. session' = "closed" /\ setup' = setup + 1
      BY <1>1, <1>2, <2>6, <3>1, <3>2, SessionSteps DEF After
    <3> QED
      BY <1>1, <1>4, <2>1, <2>6, <3>1, <3>3
  <2> QED
    BY <1>1, <2>2, <2>3, <2>4, <2>5, <2>6
<1>6. setup = 3 => txnID' = nvs["TxnID"]
  BY <1>2, <1>4 DEF SetupCall, SessionCall, Get, Exclusive, SetupSession
<1>7. setup # 3 => txnID' = txnID
  BY <1>1, <1>2 DEF SetupCall
<1> QED
  BY <1>1, <1>4, <1>5, <1>6, <1>7 DEF Numbered, Stored

LEMMA GetTransectionIdStep ==
  ASSUME Typed, Alone, GetTransectionId(txnID + 1) PROVE Alone'
<1> USE DEF Typed, AfterLast, GetTransectionId
<1> SUFFICES ASSUME ~shared'
             PROVE  Exclusive' /\ Numbered' /\ Stored'
  BY DEF Alone
<1>1. ~shared /\ session = "closed" /\ session' = "closed"
  OBVIOUS
<1>2. Exclusive /\ Numbered /\ Stored
  BY <1>1 DEF Alone
<1>3. Exclusive'
  BY <1>1, <1>2 DEF Exclusive, SetupSession, AppSession
<1>4. Numbered'
  <2>1. setup = 10 /\ txnID = nvs["TxnID"] /\ nvs' = [nvs EXCEPT !["TxnID"] = txnID + 1]
    BY <1>1, <1>2 DEF Exclusive, Numbered
  <2>2. nvs'["TxnID"] = txnID + 1 /\ txnID' = txnID + 1
    BY <2>1
  <2>3. \A id \in issued' : id <= txnID + 1
    BY <1>2, <2>1 DEF Numbered
  <2>4. ~reused'
    <3>1. ~reused
      BY <1>2 DEF Numbered
    <3>2. txnID + 1 \notin issued
      BY <1>2, <2>1 DEF Numbered
    <3> QED
      BY <3>1, <3>2
  <2> QED
    BY <2>2, <2>3, <2>4 DEF Numbered
<1>5. Stored'
  <2>1. \A f \in Fields : nvs'[f] = nvs[f]
    BY <1>1 DEF Fields
  <2> QED
    BY <1>2, <2>1 DEF Stored, Fields
<1> QED
  BY <1>3, <1>4, <1>5

LEMMA AppCallStep ==
  ASSUME Typed, Alone, AppCall PROVE Alone'
<1> USE DEF Typed, AfterLast
<1> SUFFICES ASSUME ~shared'
             PROVE  Exclusive' /\ Numbered' /\ Stored'
  BY DEF Alone
<1>1. /\ call' = After(call, AppCalls[call])
      /\ UNCHANGED <<txnID, setup, round, serving, app, submitted, issued, reused>>
  BY DEF AppCall
<1>2. \/ app = "setup" /\ call \in 1..4
      \/ app = "submit" /\ call \in 1..9
  BY Lengths DEF AppCall
<1>3. /\ app = "setup" => /\ AppCalls[1] = "open"
                          /\ AppCalls[2] = "start"
                          /\ AppCalls[3] = "close"
                          /\ AppCalls[4] = "clear"
      /\ app = "submit" => /\ AppCalls[1] = "open"
                           /\ AppCalls[2] = "start"
                           /\ AppCalls[3] = "ssid"
                           /\ AppCalls[4] = "password"
                           /\ AppCalls[5] = "APNSIM"
                           /\ AppCalls[6] = "Mode"
                           /\ AppCalls[7] = "close"
                           /\ AppCalls[8] = "clear"
                           /\ AppCalls[9] = "send"
  BY DEF AppCalls, WebsocketSetupApp, HandleSubmit
<1>4. ~shared
  BY DEF AppCall, SessionCall
<1>5. Exclusive /\ Numbered /\ Stored
  BY <1>4 DEF Alone
<1> DEFINE c == AppCalls[call]
<1>6. CASE c \in {"open", "start", "close", "clear"}
  <2>1. SessionCall(c) /\ UNCHANGED <<nvs, answered>>
    BY <1>6 DEF AppCall, Fields
  <2>2. Exclusive' /\ call' = call + 1
    <3>1. CASE c = "open"
      <4>1. call = 1
        BY <1>2, <1>3, <3>1
      <4>2. session = "closed" /\ session' = "opened"
        BY <2>1, <3>1, SessionSteps
      <4>3. call' = call + 1
        BY <1>1, <3>1, <4>2 DEF After, Started
      <4>4. AppSession' = "opened" /\ SetupSession' = SetupSession
        BY <1>1, <1>2, <4>1, <4>3 DEF AppSession, SetupSession
      <4> QED
        BY <1>1, <1>5, <4>2, <4>3, <4>4 DEF Exclusive
    <3>2. CASE c = "start"
      <4>1. call = 2
        BY <1>2, <1>3, <3>2
      <4>2. AppSession = "opened"
        BY <1>2, <4>1 DEF AppSession
      <4>3. session = "opened" /\ SetupSession = "closed"
        BY <1>5, <4>2 DEF Exclusive
      <4>4. session' = "open" /\ call' = call + 1
        BY <1>1, <2>1, <3>2, <4>3, SessionSteps DEF After
      <4>5. AppSession' = "open" /\ SetupSession' = SetupSession
        BY <1>1, <1>2, <4>1, <4>4 DEF AppSession, SetupSession
      <4> QED
        BY <1>1, <1>5, <4>3, <4>4, <4>5 DEF Exclusive
    <3>3. CASE c = "close"
      <4>1. (app = "setup" /\ call = 3) \/ (app = "submit" /\ call = 7)
        <5>1. app = "setup" => call = 3
          BY <1>2, <1>3, <3>3
        <5>2. app = "submit" => call = 7
          BY <1>2, <1>3, <3>3
        <5> QED
          BY <1>2, <5>1, <5>2
      <4>2. AppSession = "open"
        BY <4>1 DEF AppSession
      <4>3. session = "open" /\ SetupSession = "closed"
        BY <1>5, <4>2 DEF Exclusive
      <4>4. session' = "closing" /\ call' = call + 1
        BY <1>1, <2>1, <3>3, <4>3, SessionSteps DEF After, Started
      <4>5. AppSession' = "closing" /\ SetupSession' = SetupSession
        BY <1>1, <4>1, <4>4 DEF AppSession, SetupSession
      <4> QED
        BY <1>1, <1>5, <4>3, <4>4, <4>5 DEF Exclusive
    <3>4. CASE c = "clear"
      <4>1. (app = "setup" /\ call = 4) \/ (app = "submit" /\ call = 8)
        <5>1. app = "setup" => call = 4
          BY <1>2, <1>3, <3>4
        <5>2. app = "submit" => call = 8
          BY <1>2, <1>3, <3>4
        <5> QED
          BY <1>2, <5>1, <5>2
      <4>2. AppSession = "closing"
        BY <4>1 DEF AppSession
      <4>3. session = "closing" /\ SetupSession = "closed"
        BY <1>5, <4>2 DEF Exclusive
      <4>4. session' = "closed" /\ call' = call + 1
        BY <1>1, <2>1, <3>4, <4>3, SessionSteps DEF After
      <4>5. AppSession' = "closed" /\ SetupSession' = SetupSession
        BY <1>1, <4>1, <4>4 DEF AppSession, SetupSession
      <4> QED
        BY <1>1, <1>5, <4>3, <4>4, <4>5 DEF Exclusive
    <3> QED
      BY <1>6, <3>1, <3>2, <3>3, <3>4
  <2>3. Numbered'
    BY <1>1, <1>5, <2>1 DEF Numbered
  <2>4. call \in {1, 2, 7, 8} \/ app # "submit"
    BY <1>2, <1>3, <1>6
  <2>5. Stored'
    BY <1>1, <1>2, <1>5, <2>1, <2>2, <2>4 DEF Stored, Fields
  <2> QED
    BY <2>2, <2>3, <2>5
<1>7. CASE c \in Fields
  <2>0. app = "submit" /\ call \in 3..6
    BY <1>2, <1>3, <1>7 DEF Fields
  <2>1. /\ app = "submit" /\ call \in 3..6
        /\ Put(c, submitted) /\ UNCHANGED <<session, shared, answered>>
    BY <1>7, <2>0, Zenon DEF AppCall, Fields, SessionCall
  <2>2. session = "open" /\ call' = call + 1
    BY <1>1, <1>5, <1>7, <2>1 DEF Exclusive, AppSession, SetupSession, After, Fields
  <2>3. nvs' = [nvs EXCEPT ![c] = submitted] /\ nvs'["TxnID"] = nvs["TxnID"]
    BY <1>7, <2>1, <2>2 DEF Put, Fields
  <2>4. Exclusive'
    BY <1>1, <1>5, <2>1, <2>2 DEF Exclusive, AppSession, SetupSession
  <2>5. Numbered'
    BY <1>1, <1>5, <2>3 DEF Numbered
  <2>6. Stored'
    <3>1. answered' < submitted'
      BY <1>1, <1>5, <2>1 DEF Stored
    <3> QED
      BY <1>1, <1>3, <1>5, <2>1, <2>2, <2>3, <3>1 DEF Stored, Fields
  <2> QED
    BY <2>4, <2>5, <2>6
<1>8. CASE c = "send"
  <2>1. /\ app = "submit" /\ call = 9 /\ call' = 10
        /\ answered' = submitted /\ UNCHANGED <<session, shared, nvs>>
    <3>1. app = "submit" /\ call = 9
      BY <1>2, <1>3, <1>8
    <3>2. call' = 10
      BY <1>1, <1>8, <3>1 DEF After
    <3>3. answered' = submitted /\ UNCHANGED <<session, shared, nvs>>
      BY <1>8, Zenon DEF AppCall, Fields, SessionCall
    <3> QED
      BY <3>1, <3>2, <3>3
  <2>2. Exclusive'
    BY <1>1, <1>5, <2>1 DEF Exclusive, AppSession, SetupSession
  <2> QED
    BY <1>1, <1>5, <2>1, <2>2 DEF Numbered, Stored
<1> QED
  BY <1>2, <1>3, <1>6, <1>7, <1>8 DEF Fields

LEMMA AloneStep == Typed /\ Alone /\ [Next]_vars => Alone'
<1> SUFFICES ASSUME Typed, Alone, [Next]_vars
             PROVE  Alone'
  OBVIOUS
<1> USE DEF Typed, AfterLast
<1>1. CASE SetupAgain
  BY <1>1, Lengths
  DEF SetupAgain, Alone, Exclusive, Numbered, Stored, SetupSession, AppSession
<1>2. CASE SetupDone
  BY <1>2, Lengths
  DEF SetupDone, Alone, Exclusive, Numbered, Stored, SetupSession, AppSession
<1>3. CASE AppReturn
  <2>1. /\ app' = "loop" /\ call' = 1 /\ AppSession = "closed"
        /\ UNCHANGED <<session, nvs, txnID, setup, round, serving, submitted, answered,
                       issued, reused, shared>>
    <3>1. (app = "setup" /\ call = 5) \/ (app = "submit" /\ call = 10)
      <4>1. ASSUME app = "setup" PROVE call = 5
        <5>1. Len(AppCalls) = 4 /\ AfterLast = 5
          BY <4>1, Lengths
        <5>2. call > Len(AppCalls) /\ call \in 1..AfterLast
          BY <1>3 DEF AppReturn
        <5> HIDE DEF AfterLast, Typed
        <5> QED
          BY <5>1, <5>2
      <4>2. ASSUME app = "submit" PROVE call = 10
        <5>1. Len(AppCalls) = 9 /\ AfterLast = 10
          BY <4>2, Lengths
        <5>2. call > Len(AppCalls) /\ call \in 1..AfterLast
          BY <1>3 DEF AppReturn
        <5> HIDE DEF AfterLast, Typed
        <5> QED
          BY <5>1, <5>2
      <4> QED
        BY <1>3, <4>1, <4>2 DEF AppReturn
    <3>2. AppSession = "closed"
      BY <3>1 DEF AppSession
    <3> QED
      BY <1>3, <3>2 DEF AppReturn
  <2>2. AppSession' = "closed" /\ SetupSession' = SetupSession
    BY <2>1 DEF AppSession, SetupSession
  <2>3. Exclusive => Exclusive'
    BY <2>1, <2>2, Zenon DEF Exclusive
  <2>4. Numbered => Numbered'
    BY <2>1 DEF Numbered
  <2>5. Stored => Stored'
    BY <2>1 DEF Stored
  <2> QED
    BY <2>1, <2>3, <2>4, <2>5, Zenon DEF Alone
<1>4. CASE Submit
  BY <1>4 DEF Submit, Alone, Exclusive, Numbered, Stored, SetupSession, AppSession
<1>5. CASE Restart
  BY <1>5 DEF Restart, Alone, Exclusive, Numbered, Stored, SetupSession, AppSession
<1>6. CASE UNCHANGED vars
  BY <1>6 DEF vars, Alone, Exclusive, Numbered, Stored, SetupSession, AppSession
<1> QED
  BY <1>1, <1>2, <1>3, <1>4, <1>5, <1>6,
     SetupStep, GetTransectionIdStep, AppCallStep DEF Next

LEMMA Invariant == Spec => []Alone
BY AloneInit, AloneStep, TypedAlways, PTL DEF Spec

-----------------------------------------------------------------------------
\* A number is given twice only after two tasks used one session of preferences, over
\* any number of restarts.
THEOREM NumbersAreNew == Spec => []ReusedOnlyIfShared
<1>1. Alone => ReusedOnlyIfShared
  BY DEF Alone, Numbered, ReusedOnlyIfShared
<1> QED
  BY <1>1, Invariant, PTL

\* A form that was answered is whole in flash, unless tasks used one session.
THEOREM FormsAreStored == Spec => []AnsweredFormsAreWhole
<1>1. Alone => AnsweredFormsAreWhole
  BY DEF Alone, Stored, AnsweredFormsAreWhole
<1> QED
  BY <1>1, Invariant, PTL
=============================================================================
