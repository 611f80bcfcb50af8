------------------------------- MODULE GSMComm -------------------------------
(***************************************************************************)
(* The dialogue with the GSM modem (GSMComm.cpp): commands are written to  *)
(* a serial line, and sendCommandWithAnswer looks for a line in whatever   *)
(* is in the receive buffer. It discards what it looked at, does not empty *)
(* the buffer before it writes, and returns as soon as the line is found:  *)
(* what the modem still has to say to a command stays on its way.          *)
(*                                                                         *)
(* A line is what it says and whether it answers the command written last. *)
(* Echoed commands match no answer and are left out.                       *)
(* The modem is modelled by what the code expects of it: it executes       *)
(* commands in order, and after its prompt takes whatever is written next  *)
(* for the data of the request. It has its own power: where the ESP32      *)
(* restarts alone, the modem goes on with what it was told before.         *)
(***************************************************************************)
EXTENDS Naturals, Sequences, SequencesExt

CONSTANTS
  Tries,      \* rounds of a loop bounded by time: 35 s for AT, 4 s for AT+CSQ
  Backlog,    \* commands the modem may be late with, or have left at a restart
  ModemFaults \* what may go wrong:
              \*   "apart"  an answer does not arrive in one piece, so that a
              \*            line, or a part of one, is read before the rest
              \*   "late"   an answer arrives after the 5 s it is waited for
              \*   "silent" a command is not answered
              \*   "error"  a command is refused

ASSUME TriesAssumption == Tries \in Nat \ {0}
ASSUME BacklogAssumption == Backlog \in Nat
ASSUME ModemFaultsAssumption == ModemFaults \subseteq {"apart", "late", "silent", "error"}

VARIABLES
  step,      \* the command that is waited for, or where else the caller is
  returned,  \* what the last startCommunicationOnGSM or dataSendToServerOverGSM returned
  tries,     \* rounds made of the loop that step is in
  inbox,     \* what the modem has not executed yet
  out,       \* lines it wrote that have not arrived
  uart,      \* the receive buffer of GSMuart
  prompting, \* does the modem take what comes next for data?
  active,    \* did it accept AT+CGACT?
  stale,     \* observation: was the answer just found one to an earlier command?
  synced,    \* observation: did a wait run out, with nothing left under way,
             \* since the modem was started and since an answer was late?
  cut,       \* observation: did an answer arrive in pieces since the restart?
  late,      \* observation: was an answer late, or left under way by the restart?
  unserved   \* observation: did the meter restart after the prompt that still lasts?

lineVars == <<inbox, out, uart, prompting, active, cut, unserved>>
modemVars == <<step, returned, tries, lineVars, stale, synced, late>>

-----------------------------------------------------------------------------
(***************************************************************************)
(* The commands, what the code looks for, and what the modem may answer.   *)
(***************************************************************************)

\* sendCommandWithAnswer(cmd): any line but OK will do. The last three are the
\* arguments of startPPPOS, ATI, AT+COPS? and AT+CREG?, in an order C++ leaves open.
Infos == {"CIMI", "CCID", "query1", "query2", "query3"}

\* sendCommandWithAnswer(cmd, ans). AT2 is the AT after the loop, NOSIM the second AT+CPIN?.
Wanted ==
  [AT |-> "OK", AT2 |-> "OK", IPRask |-> "115200", IPRset |-> "OK",
   CPIN |-> "READY", NOSIM |-> "NO SIM", CSQ |-> "99,99", CREG |-> "OK",
   CGDCONT |-> "OK", CGATT |-> "OK", CGACT |-> "OK",
   HTTPPARA |-> "OK", HTTPSETUP |-> "OK", HTTPACTION |-> ">", HTTPCLOSE |-> "OK"]

Commands == Infos \cup DOMAIN Wanted

\* Mutant: AT+HTTPACTION is expected to answer OK.
FoundNoPrompt(s, says) ==
  IF s \in Infos THEN says # "OK" ELSE says = [Wanted EXCEPT !["HTTPACTION"] = "OK"][s]

Found(s, says) == IF s \in Infos THEN says # "OK" ELSE says = Wanted[s]

Answers(c) ==
  CASE c = "IPRask" -> {<<"115200", "OK">>, <<"info", "OK">>}
    [] c \in {"CPIN", "NOSIM"} -> {<<"READY", "OK">>, <<"NO SIM", "OK">>}
    [] c = "CSQ" -> {<<"99,99", "OK">>, <<"info", "OK">>}
    [] c \in Infos -> {<<"info", "OK">>, <<"info", "info", "OK">>}
    [] c = "HTTPACTION" -> {<<">">>}
    [] OTHER -> {<<"OK">>}

Refusals ==
  (IF "error" \in ModemFaults THEN {<<"ERROR">>} ELSE {}) \cup
  (IF "silent" \in ModemFaults THEN {<< >>} ELSE {})

\* What the modem says to what it takes for data: the answer of the server, or none, and
\* nothing yet to a command, where that is shorter than the data it was announced.
Replies(c) == {<<"body", "OK">>, <<"OK">>} \cup (IF c = "data" THEN {} ELSE {<< >>})

(***************************************************************************)
(* Which step follows: dataModeActivateonModule, startPPPOS,               *)
(* dataSendToServerOverGSM. The steps "true" and "false" are returns.      *)
(***************************************************************************)
InOrder == <<"CREG", "CIMI", "CCID", "query1", "query2", "query3", "CGDCONT">>

\* Mutant: the next command is sent whatever was found.
OrFalseMissed(found, next) == {next}

OrFalse(found, next) == IF found THEN {next} ELSE {"false"}

After(s, found) ==
  CASE s = "AT" -> IF found THEN {"AT2"} ELSE {"AT", "AT2"}
    [] s = "AT2" -> OrFalse(found, "IPRask")
    [] s = "IPRask" -> IF found THEN {"CPIN"} ELSE {"IPRset"}
    [] s = "IPRset" -> {"CPIN"}
    [] s = "CPIN" -> IF found THEN {"CSQ"} ELSE {"NOSIM"}
    [] s = "NOSIM" -> {"false"}
    [] s = "CSQ" -> IF found THEN {"CSQ", "false"} ELSE {"CREG"}
    [] s \in ToSet(Front(InOrder)) ->
         {InOrder[i + 1] : i \in {j \in 1 .. Len(InOrder) - 1 : InOrder[j] = s}}
    [] s = "CGDCONT" -> OrFalse(found, "CGATT")
    [] s = "CGATT" -> OrFalse(found, "CGACT")
    [] s = "CGACT" -> OrFalse(found, "true")
    [] s = "HTTPPARA" -> OrFalse(found, "HTTPSETUP")
    [] s = "HTTPSETUP" -> OrFalse(found, "HTTPACTION")
    [] s = "HTTPACTION" -> OrFalse(found, "flush")
    [] s = "HTTPCLOSE" -> {"true"}

-----------------------------------------------------------------------------
Says == {Wanted[c] : c \in DOMAIN Wanted} \cup {"info", "body", "ERROR", "torn"}

Line == [says : Says, fresh : BOOLEAN]

GSMTypeOK ==
  /\ step \in Commands \cup {"idle", "flush", "response"}
  /\ returned \in BOOLEAN
  /\ tries \in 0..Tries
  /\ inbox \in Seq([of : Commands \cup {"data"}, fresh : BOOLEAN])
  /\ out \in Seq(Line)
  /\ uart \in Seq(Line)
  /\ {prompting, active, stale, synced, cut, late, unserved} \subseteq BOOLEAN

GSMInit ==
  /\ step = "idle"
  /\ returned = FALSE
  /\ tries = 0
  /\ inbox = << >>
  /\ out = << >>
  /\ uart = << >>
  /\ prompting = FALSE
  /\ active = FALSE
  /\ stale = FALSE
  /\ synced = FALSE
  /\ cut = FALSE
  /\ late = FALSE
  /\ unserved = FALSE

-----------------------------------------------------------------------------
(***************************************************************************)
(* The caller.                                                             *)
(***************************************************************************)
Pending == inbox # << >> \/ out # << >>

Older(q) == [i \in DOMAIN q |-> [q[i] EXCEPT !.fresh = FALSE]]

\* GSMuart.write or print. What is in the receive buffer stays there.
Write(c) ==
  /\ inbox' = Append(Older(inbox), [of |-> c, fresh |-> TRUE])
  /\ out' = Older(out)
  /\ UNCHANGED <<prompting, active, cut, unserved>>

Goto(next) ==
  \/ /\ next \in Commands
     /\ next = step => tries < Tries
     /\ tries' = IF next = step THEN tries + 1 ELSE 0
     /\ Write(next)
     /\ step' = next
     /\ UNCHANGED returned
  \/ /\ next = "flush"
     /\ step' = "flush"
     /\ tries' = 0
     /\ UNCHANGED <<returned, inbox, out, prompting, active, cut, unserved>>
  \/ /\ next \in {"true", "false"}
     /\ step' = "idle"
     /\ tries' = 0
     /\ returned' = (next = "true")
     /\ UNCHANGED <<inbox, out, prompting, active, cut, unserved>>

\* startCommunicationOnGSM begins with AT, dataSendToServerOverGSM with AT+HTTPPARA.
Begin(c) ==
  /\ step = "idle"
  /\ Goto(c)
  /\ uart' = Older(uart)
  /\ synced' = (synced /\ c # "AT")
  /\ UNCHANGED <<stale, late>>

\* One round of sendCommandWithAnswer: everything in the buffer is taken out of it, and
\* what follows the line that is found is lost.
Read ==
  LET hits == {i \in DOMAIN uart : Found(step, uart[i].says)} IN
  /\ step \in Commands
  /\ uart # << >>
  /\ uart' = << >>
  /\ IF hits = {}
     THEN UNCHANGED <<step, returned, tries, inbox, out, prompting, active, cut, unserved, stale>>
     ELSE /\ \E next \in After(step, TRUE) : Goto(next)
          /\ stale' = ~uart[Min(hits)].fresh
  /\ UNCHANGED <<synced, late>>

\* Five seconds are over. Only a late answer is still under way then.
Over ==
  /\ Pending => "late" \in ModemFaults /\ Len(inbox) + Len(out) <= Backlog
  /\ late' = (late \/ Pending)

Timeout ==
  /\ step \in Commands
  /\ uart = << >>
  /\ Over
  /\ \E next \in After(step, FALSE) : Goto(next)
  /\ synced' = (~Pending /\ step \in {"HTTPPARA", "HTTPSETUP", "HTTPACTION", "HTTPCLOSE"})
  /\ stale' = FALSE
  /\ UNCHANGED uart

\* 100 ms after the prompt: the receive buffer is emptied and the reading written.
Flush ==
  /\ step = "flush"
  /\ uart' = << >>
  /\ Write("data")
  /\ step' = "response"
  /\ UNCHANGED <<returned, tries, stale, synced, late>>

\* Mutant: the response is over as soon as something was received.
ResponseAtOnce ==
  /\ step = "response"
  /\ uart # << >>
  /\ uart' = << >>
  /\ Goto("HTTPCLOSE")
  /\ UNCHANGED <<stale, synced, late>>

\* All that arrives within five seconds is the response; responseFromServer gets it.
Response ==
  /\ step = "response"
  /\ Over
  /\ uart' = << >>
  /\ synced' = ~Pending
  /\ stale' = FALSE
  /\ Goto("HTTPCLOSE")

Caller == Read \/ Timeout \/ Flush \/ Response

-----------------------------------------------------------------------------
(***************************************************************************)
(* The modem and the line.                                                 *)
(***************************************************************************)
callerVars == <<step, returned, tries, stale, synced, late>>

\* The modem takes its next command, or the data it asked for.
Execute ==
  LET c == Head(inbox) IN
  /\ inbox # << >>
  /\ inbox' = Tail(inbox)
  /\ \E says \in Refusals \cup (IF prompting THEN Replies(c.of)
                               ELSE IF c.of = "data" THEN {<<"ERROR">>} ELSE Answers(c.of)) :
       /\ out' = out \o [i \in DOMAIN says |-> [says |-> says[i], fresh |-> c.fresh]]
       /\ prompting' = (says = <<">">> \/ (prompting /\ c.of # "data" /\ says = << >>))
       /\ active' = (active \/ (~prompting /\ c.of = "CGACT" /\ says = <<"OK">>))
  /\ unserved' = (unserved /\ prompting')
  /\ UNCHANGED <<uart, cut, callerVars>>

\* The rest of a line that was read in part does not complete it any more.
Deliver ==
  /\ out # << >>
  /\ uart # << >> => Last(uart).says # "torn"
  /\ uart' = uart \o out
  /\ out' = << >>
  /\ UNCHANGED <<inbox, prompting, active, cut, unserved, callerVars>>

DeliverLine ==
  /\ "apart" \in ModemFaults
  /\ Len(out) > 1
  /\ uart # << >> => Last(uart).says # "torn"
  /\ uart' = Append(uart, Head(out))
  /\ out' = Tail(out)
  /\ cut' = TRUE
  /\ UNCHANGED <<inbox, prompting, active, unserved, callerVars>>

\* A part of a line arrives and is read; neither it nor the rest is what is looked for.
DeliverTorn ==
  LET torn == [Head(out) EXCEPT !.says = "torn"] IN
  /\ "apart" \in ModemFaults
  /\ step \in Commands
  /\ out # << >>
  /\ Head(out).says \notin {">", "torn"}
  /\ uart' = Append(uart, torn)
  /\ out' = <<torn>> \o Tail(out)
  /\ cut' = TRUE
  /\ UNCHANGED <<inbox, prompting, active, unserved, callerVars>>

Modem == Execute \/ Deliver \/ DeliverLine \/ DeliverTorn

-----------------------------------------------------------------------------
(***************************************************************************)
(* The ESP32 restarts: handleReboot, a watchdog, or the power.             *)
(***************************************************************************)

\* The modem lost its power as well.
ModemLosesPower ==
  /\ inbox' = << >>
  /\ out' = << >>
  /\ prompting' = FALSE
  /\ active' = FALSE

\* The modem goes on. The last write may have been cut off, and what arrives before
\* GSMuart is begun again is lost.
ModemGoesOn ==
  /\ inbox' = Older(inbox) \/ (inbox # << >> /\ inbox' = Older(Front(inbox)))
  /\ \E i \in 0..Len(out) : out' = Older(SubSeq(out, i + 1, Len(out)))
  /\ Len(inbox') + Len(out') <= Backlog
  /\ UNCHANGED <<prompting, active>>

GSMRestart ==
  /\ ModemLosesPower \/ ModemGoesOn
  /\ step' = "idle"
  /\ returned' = FALSE
  /\ tries' = 0
  /\ uart' = << >>
  /\ stale' = FALSE
  /\ synced' = FALSE
  /\ cut' = FALSE
  /\ late' = Pending'
  /\ unserved' = prompting'

-----------------------------------------------------------------------------
(***************************************************************************)
(* Properties.                                                             *)
(***************************************************************************)

\* After a wait ran out with nothing under way, commands and answers stay in step
\* (sendCommandWithAnswer, dataSendToServerOverGSM): the line an answer is found in is
\* one to the command written last, until an answer is late again.
AnswersInStep == synced => ~stale

\* The modem takes a command for the data of a request only after an answer was late or
\* left under way by a restart, or where the meter restarted after the prompt, and then no
\* longer than that prompt lasts (dataSendToServerOverGSM: no other way from the prompt
\* leads past the data).
DataIsReading ==
  [][inbox # << >> /\ prompting /\ inbox' = Tail(inbox)
       => Head(inbox).of = "data" \/ late \/ unserved]_modemVars
=============================================================================
