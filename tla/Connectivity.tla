---------------------------- MODULE Connectivity ----------------------------
(***************************************************************************)
(* Which link the meter uploads over: setup (SmEm.ino) asks                *)
(* InternetConnectivity (CommunicationConnectivity.cpp) once or twice,     *)
(* which tries WiFi (connectToWifi), the GSM modem, or in automatic mode   *)
(* one after the other, and creates the uploading task of the link found.  *)
(* otherTask, which opens the contactor in an emergency, is created last.  *)
(***************************************************************************)
EXTENDS GSMComm

CONSTANTS
  Rounds, \* how often automatic mode tries both links, 4 in the code
  Modes   \* values of the setting Mode: 1 WiFi, 2 GSM, 3 automatic, no link else

ASSUME RoundsAssumption == Rounds \in Nat \ {0}
ASSUME ModesAssumption == Modes \subseteq Nat

VARIABLES
  mode,    \* the setting, as every call reads it
  where,   \* where setup is
  round,   \* of the loop of automatic mode
  asked,   \* was WiFi.begin called?
  wifi,    \* WiFi.isConnected
  again,   \* is InternetConnectivity called the second time?
  uploader \* the uploading task that was created

setupVars == <<mode, where, round, asked, again, uploader>>
vars == <<modemVars, setupVars, wifi>>

TypeOK ==
  /\ GSMTypeOK
  /\ mode \in Modes
  /\ where \in {"call", "wifi", "gsm", "done"}
  /\ round \in 1..Rounds
  /\ {asked, wifi} \subseteq BOOLEAN
  /\ again \in BOOLEAN
  /\ uploader \in {"none", "ServerComOverWifi", "ServerComOverGSM"}

Init ==
  /\ GSMInit
  /\ mode \in Modes
  /\ where = "call"
  /\ round = 1
  /\ asked = FALSE
  /\ wifi = FALSE
  /\ again = FALSE
  /\ uploader = "none"

-----------------------------------------------------------------------------
(***************************************************************************)
(* setup and InternetConnectivity                                          *)
(***************************************************************************)

\* Mutant: the rounds begin at 0 again.
ReturnRoundless(r) ==
  /\ round' = 0
  /\ again' = TRUE
  /\ IF ~again /\ r # 1
     THEN where' = "call" /\ UNCHANGED uploader
     ELSE /\ where' = "done"
          /\ uploader' = CASE ~again -> "ServerComOverWifi"
                           [] again /\ r = 2 -> "ServerComOverGSM"
                           [] OTHER -> "none"
  /\ UNCHANGED <<mode, asked, wifi, modemVars>>

\* InternetConnectivity returns r to setup.
Return(r) ==
  /\ round' = 1
  /\ again' = TRUE
  /\ IF ~again /\ r # 1
     THEN where' = "call" /\ UNCHANGED uploader
     ELSE /\ where' = "done"
          /\ uploader' = CASE ~again -> "ServerComOverWifi"
                           [] again /\ r = 2 -> "ServerComOverGSM"
                           [] OTHER -> "none"
  /\ UNCHANGED <<mode, asked, wifi, modemVars>>

\* connectToWifi: a link that is up is used as it is.
ConnectToWifi(r) ==
  IF wifi
  THEN Return(1)
  ELSE /\ asked' = TRUE
       /\ where' = "wifi"
       /\ round' = r
       /\ UNCHANGED <<mode, again, uploader, wifi, modemVars>>

StartCommunicationOnGSM ==
  /\ Begin("AT")
  /\ where' = "gsm"
  /\ UNCHANGED <<mode, round, asked, again, uploader, wifi>>

Call ==
  /\ where = "call"
  /\ \/ mode \in {1, 3} /\ ConnectToWifi(1)
     \/ mode = 2 /\ StartCommunicationOnGSM
     \/ mode \notin 1..3 /\ Return(0)

\* The wait of 15 s in connectToWifi ends because the link is up, or runs out.
WifiFound == where = "wifi" /\ wifi /\ Return(1)

WifiFailed ==
  /\ where = "wifi"
  /\ ~wifi
  /\ \/ mode = 1 /\ Return(0)
     \/ mode = 3 /\ StartCommunicationOnGSM

GSMFound == where = "gsm" /\ step = "idle" /\ returned /\ Return(2)

\* Mutant: the rounds are not counted.
GSMFailedAgain ==
  /\ where = "gsm"
  /\ step = "idle"
  /\ ~returned
  /\ \/ mode = 2 /\ Return(0)
     \/ mode = 3 /\ ConnectToWifi(round)

GSMFailed ==
  /\ where = "gsm"
  /\ step = "idle"
  /\ ~returned
  /\ \/ (mode = 2 \/ round = Rounds) /\ Return(0)
     \/ mode = 3 /\ round < Rounds /\ ConnectToWifi(round + 1)

\* ServerComOverGSM calls dataSendToServerOverGSM, again and again.
DataSendToServerOverGSM ==
  /\ uploader = "ServerComOverGSM"
  /\ Begin("HTTPPARA")
  /\ UNCHANGED <<setupVars, wifi>>

Setup ==
  \/ Call \/ WifiFound \/ WifiFailed \/ GSMFound \/ GSMFailed
  \/ Caller /\ UNCHANGED <<setupVars, wifi>>

(***************************************************************************)
(* What happens by itself: once begun, WiFi connects when it can.          *)
(***************************************************************************)
WifiChanges ==
  /\ asked
  /\ where \in {"call", "wifi"} \/ (where = "gsm" /\ step = "idle")  \* else nobody looks at it
  /\ wifi' = ~wifi
  /\ UNCHANGED <<modemVars, setupVars>>

ModemStep == Modem /\ UNCHANGED <<setupVars, wifi>>

\* setup begins again, with the setting as it is stored by now.
Restart ==
  /\ GSMRestart
  /\ mode' \in Modes
  /\ where' = "call"
  /\ round' = 1
  /\ asked' = FALSE
  /\ wifi' = FALSE
  /\ again' = FALSE
  /\ uploader' = "none"

Next == Setup \/ DataSendToServerOverGSM \/ WifiChanges \/ ModemStep \/ Restart

\* setup is a task that is never blocked, and a modem that answers does so within 5 s.
Spec == Init /\ [][Next]_vars /\ WF_vars(Setup) /\ WF_vars(ModemStep)

-----------------------------------------------------------------------------
\* setup comes to its end and creates otherTask, whatever WiFi and the modem do, unless
\* the meter restarts for ever (the loops of connectToWifi, dataModeActivateonModule and
\* InternetConnectivity).
SetupEnds == []<><<Restart>>_vars \/ <>[](where = "done")

\* The meter uploads over GSM only after the modem accepted AT+CGACT, unless an answer
\* came in pieces or late, or was left under way by a restart: only then is an OK to an
\* earlier command taken for it.
StartedIsActive == uploader = "ServerComOverGSM" => active \/ cut \/ late
=============================================================================
