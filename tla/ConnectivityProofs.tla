-------------------------- MODULE ConnectivityProofs --------------------------
(***************************************************************************)
(* Theorems of Connectivity and of the dialogue it conducts with the       *)
(* modem, for any number of rounds and any faults of the modem.            *)
(*                                                                         *)
(* The invariant of the dialogue has three parts, each under the           *)
(* observation that makes it true: InStep while no answer was late or came *)
(* in pieces, Prompted while none was late, and Synchronous since a wait   *)
(* of dataSendToServerOverGSM ran out with nothing under way. Each says    *)
(* what can be on its way to the modem, on its way back, and in the        *)
(* receive buffer. Started adds where setup is meanwhile.                  *)
(***************************************************************************)
EXTENDS Connectivity, SequenceTheorems, TLAPS

-----------------------------------------------------------------------------
(***************************************************************************)
(* The order of the commands                                               *)
(***************************************************************************)
Http == {"HTTPPARA", "HTTPSETUP", "HTTPACTION", "HTTPCLOSE"}

LEMMA WantedIs ==
  /\ DOMAIN Wanted = {"AT", "AT2", "IPRask", "IPRset", "CPIN", "NOSIM", "CSQ", "CREG", "CGDCONT",
                      "CGATT", "CGACT", "HTTPPARA", "HTTPSETUP", "HTTPACTION", "HTTPCLOSE"}
  /\ \A c \in DOMAIN Wanted : Wanted[c] \in {"OK", "115200", "READY", "NO SIM", "99,99", ">"}
  /\ \A c \in DOMAIN Wanted : Wanted[c] = ">" <=> c = "HTTPACTION"
  /\ Wanted["CGACT"] = "OK"
  /\ \A c \in Http : Wanted[c] = IF c = "HTTPACTION" THEN ">" ELSE "OK"
<1>1. DOMAIN Wanted = {"AT", "AT2", "IPRask", "IPRset", "CPIN", "NOSIM", "CSQ", "CREG", "CGDCONT",
                      "CGATT", "CGACT", "HTTPPARA", "HTTPSETUP", "HTTPACTION", "HTTPCLOSE"}
  BY DEF Wanted
<1>2. /\ Wanted["AT"] = "OK" /\ Wanted["AT2"] = "OK" /\ Wanted["IPRask"] = "115200"
      /\ Wanted["IPRset"] = "OK" /\ Wanted["CPIN"] = "READY" /\ Wanted["NOSIM"] = "NO SIM"
      /\ Wanted["CSQ"] = "99,99" /\ Wanted["CREG"] = "OK" /\ Wanted["CGDCONT"] = "OK"
      /\ Wanted["CGATT"] = "OK" /\ Wanted["CGACT"] = "OK"
  BY DEF Wanted
<1>3. /\ Wanted["HTTPPARA"] = "OK" /\ Wanted["HTTPSETUP"] = "OK"
      /\ Wanted["HTTPACTION"] = ">" /\ Wanted["HTTPCLOSE"] = "OK"
  BY DEF Wanted
<1> QED
  BY <1>1, <1>2, <1>3 DEF Http

LEMMA CommandsAre ==
  Commands = {"CIMI", "CCID", "query1", "query2", "query3", "AT", "AT2", "IPRask", "IPRset", "CPIN",
              "NOSIM", "CSQ", "CREG", "CGDCONT", "CGATT", "CGACT",
              "HTTPPARA", "HTTPSETUP", "HTTPACTION", "HTTPCLOSE"}
BY WantedIs DEF Commands, Infos

LEMMA InOrderIs ==
  /\ ToSet(Front(InOrder)) = {"CREG", "CIMI", "CCID", "query1", "query2", "query3"}
  /\ \A i \in 1 .. Len(InOrder) - 1 :
       InOrder[i + 1] \in {"CIMI", "CCID", "query1", "query2", "query3", "CGDCONT"}
<1>1. Len(InOrder) = 7 /\ InOrder = <<"CREG", "CIMI", "CCID", "query1", "query2", "query3", "CGDCONT">>
  BY DEF InOrder
<1>2. Front(InOrder) = [i \in 1..6 |-> InOrder[i]]
  BY <1>1 DEF Front
<1>3. \A i \in 1..6 : i \in {1, 2, 3, 4, 5, 6}
  OBVIOUS
<1>4. ToSet(Front(InOrder)) = {InOrder[i] : i \in {1, 2, 3, 4, 5, 6}}
  BY <1>2, <1>3 DEF ToSet
<1> QED
  BY <1>1, <1>3, <1>4

LEMMA AfterIs ==
  ASSUME NEW s \in Commands, NEW f \in BOOLEAN, NEW next \in After(s, f)
  PROVE  /\ next \in Commands \cup {"flush", "true", "false"}
         /\ next = "flush" <=> s = "HTTPACTION" /\ f
         /\ next = "true" => (s = "CGACT" /\ f) \/ s = "HTTPCLOSE"
         /\ s \in Http => next \in {"HTTPSETUP", "HTTPACTION", "flush", "true", "false"} \ {s}
         /\ s \in Http /\ ~f => next \in {"true", "false"}
         /\ s \notin Http => next \in (Commands \ Http) \cup {"true", "false"}
         /\ s = "AT" => next \in {"AT", "AT2"}
         /\ s = "AT2" /\ ~f => next = "false"
BY CommandsAre, InOrderIs DEF After, OrFalse, Http

-----------------------------------------------------------------------------
(***************************************************************************)
(* Type correctness                                                        *)
(***************************************************************************)
Entry == [of : Commands \cup {"data"}, fresh : BOOLEAN]

Steps == Commands \cup {"idle", "flush", "response"}

Nexts == Commands \cup {"flush", "true", "false"}

\* GSMTypeOK in the parts that the actions change.
LinesTyped ==
  /\ inbox \in Seq(Entry) /\ out \in Seq(Line) /\ uart \in Seq(Line)
  /\ prompting \in BOOLEAN /\ active \in BOOLEAN /\ cut \in BOOLEAN /\ unserved \in BOOLEAN

CallerTyped ==
  /\ step \in Steps /\ returned \in BOOLEAN /\ tries \in 0..Tries
  /\ stale \in BOOLEAN /\ synced \in BOOLEAN /\ late \in BOOLEAN

LEMMA GSMParts == GSMTypeOK <=> LinesTyped /\ CallerTyped
BY DEF GSMTypeOK, LinesTyped, CallerTyped, Entry, Steps

LEMMA OlderTyped ==
  /\ \A q \in Seq(Entry) :
       /\ Older(q) \in Seq(Entry) /\ Len(Older(q)) = Len(q)
       /\ \A i \in 1..Len(q) : Older(q)[i] \in Entry /\ Older(q)[i].of = q[i].of
  /\ \A q \in Seq(Line) :
       /\ Older(q) \in Seq(Line) /\ Len(Older(q)) = Len(q)
       /\ \A i \in 1..Len(q) : Older(q)[i] \in Line /\ Older(q)[i].says = q[i].says
<1>1. ASSUME NEW q \in Seq(Entry)
      PROVE  /\ Older(q) \in Seq(Entry) /\ Len(Older(q)) = Len(q)
             /\ \A i \in 1..Len(q) : Older(q)[i] \in Entry /\ Older(q)[i].of = q[i].of
  <2>1. \A e \in Entry : [e EXCEPT !.fresh = FALSE] \in Entry /\ [e EXCEPT !.fresh = FALSE].of = e.of
    BY DEF Entry
  <2>2. Older(q) = [i \in 1..Len(q) |-> [q[i] EXCEPT !.fresh = FALSE]] /\ \A i \in 1..Len(q) : q[i] \in Entry
    BY DEF Older
  <2>3. \A i \in 1..Len(q) : Older(q)[i] \in Entry /\ Older(q)[i].of = q[i].of
    BY <2>1, <2>2
  <2>4. Older(q) \in [1..Len(q) -> Entry] /\ Len(q) \in Nat
    BY <2>2, <2>3
  <2>5. Older(q) \in Seq(Entry) /\ Len(Older(q)) = Len(q)
    BY <2>4, SeqDef
  <2> QED
    BY <2>3, <2>5
<1>2. ASSUME NEW q \in Seq(Line)
      PROVE  /\ Older(q) \in Seq(Line) /\ Len(Older(q)) = Len(q)
             /\ \A i \in 1..Len(q) : Older(q)[i] \in Line /\ Older(q)[i].says = q[i].says
  <2>1. \A e \in Line : [e EXCEPT !.fresh = FALSE] \in Line /\ [e EXCEPT !.fresh = FALSE].says = e.says
    BY DEF Line
  <2>2. Older(q) = [i \in 1..Len(q) |-> [q[i] EXCEPT !.fresh = FALSE]] /\ \A i \in 1..Len(q) : q[i] \in Line
    BY DEF Older
  <2>3. \A i \in 1..Len(q) : Older(q)[i] \in Line /\ Older(q)[i].says = q[i].says
    BY <2>1, <2>2
  <2>4. Older(q) \in [1..Len(q) -> Line] /\ Len(q) \in Nat
    BY <2>2, <2>3
  <2>5. Older(q) \in Seq(Line) /\ Len(Older(q)) = Len(q)
    BY <2>4, SeqDef
  <2> QED
    BY <2>3, <2>5
<1> QED
  BY <1>1, <1>2

LEMMA FrontIs ==
  ASSUME NEW q \in Seq(Entry), q # << >>
  PROVE  Front(q) \in Seq(Entry)
<1>1. Front(q) = [i \in 1..(Len(q) - 1) |-> q[i]]
  BY DEF Front
<1>2. Len(q) - 1 \in Nat /\ \A i \in 1..(Len(q) - 1) : q[i] \in Entry
  BY EmptySeq
<1>3. Front(q) \in [1..(Len(q) - 1) -> Entry]
  BY <1>1, <1>2
<1> QED
  BY <1>2, <1>3, SeqDef

\* What a command that is written leaves in front of it.
LEMMA WriteIs ==
  ASSUME LinesTyped, NEW c \in Commands \cup {"data"}, Write(c)
  PROVE  /\ inbox' \in Seq(Entry) /\ Len(inbox') = Len(inbox) + 1
         /\ \A i \in 1..Len(inbox) : inbox'[i].of = inbox[i].of
         /\ inbox'[Len(inbox) + 1] = [of |-> c, fresh |-> TRUE]
         /\ out' \in Seq(Line) /\ Len(out') = Len(out)
         /\ \A i \in 1..Len(out) : out'[i].says = out[i].says
         /\ UNCHANGED <<prompting, active, cut, unserved>>
<1>1. /\ Older(inbox) \in Seq(Entry) /\ Len(Older(inbox)) = Len(inbox)
      /\ \A i \in 1..Len(inbox) : Older(inbox)[i].of = inbox[i].of
  BY OlderTyped DEF LinesTyped
<1>2. /\ Older(out) \in Seq(Line) /\ Len(Older(out)) = Len(out)
      /\ \A i \in 1..Len(out) : Older(out)[i].says = out[i].says
  BY OlderTyped DEF LinesTyped
<1> DEFINE e == [of |-> c, fresh |-> TRUE]
<1>3. e \in Entry
  BY DEF Entry
<1>4. /\ inbox' = Append(Older(inbox), e) /\ out' = Older(out)
      /\ UNCHANGED <<prompting, active, cut, unserved>>
  BY DEF Write
<1> HIDE DEF e
<1>5. /\ inbox' \in Seq(Entry) /\ Len(inbox') = Len(inbox) + 1 /\ inbox'[Len(inbox) + 1] = e
      /\ \A i \in 1..Len(inbox) : inbox'[i] = Older(inbox)[i]
  BY <1>1, <1>3, <1>4
<1> QED
  BY <1>1, <1>2, <1>4, <1>5 DEF e

\* Where Goto leads.
LEMMA GotoIs ==
  ASSUME CallerTyped, NEW next \in Nexts, Goto(next)
  PROVE  /\ step' \in Steps /\ returned' \in BOOLEAN /\ tries' \in 0..Tries
         /\ \/ next \in Commands /\ step' = next /\ Write(next) /\ UNCHANGED returned
            \/ next = "flush" /\ step' = next /\ UNCHANGED <<returned, inbox, out, prompting, active, cut, unserved>>
            \/ /\ next \in {"true", "false"} /\ step' = "idle" /\ (returned' <=> next = "true")
               /\ UNCHANGED <<inbox, out, prompting, active, cut, unserved>>
<1>1. "flush" \notin Commands /\ "true" \notin Commands /\ "false" \notin Commands
  BY CommandsAre
<1>2. CASE next \in Commands
  BY <1>1, <1>2, TriesAssumption DEF Goto, CallerTyped, Steps
<1>3. CASE next = "flush"
  BY <1>1, <1>3, TriesAssumption DEF Goto, CallerTyped, Steps
<1>4. CASE next \in {"true", "false"}
  <2>1. /\ step' = "idle" /\ tries' = 0 /\ returned' = (next = "true")
        /\ UNCHANGED <<inbox, out, prompting, active, cut, unserved>>
    BY <1>1, <1>4 DEF Goto
  <2>2. returned' \in BOOLEAN /\ (returned' <=> next = "true")
    BY <2>1
  <2>3. 0 \in 0..Tries /\ "idle" \in Steps
    BY TriesAssumption DEF Steps
  <2> QED
    BY <1>4, <2>1, <2>2, <2>3
<1> QED
  BY <1>2, <1>3, <1>4 DEF Nexts

-----------------------------------------------------------------------------
(***************************************************************************)
(* The invariant of the dialogue                                           *)
(***************************************************************************)
\* Nothing is under way to the modem, from it, or in the receive buffer.
Quiet == inbox = << >> /\ out = << >> /\ uart = << >>

\* As long as no answer was late or came in pieces, only one message is under way, and
\* it belongs to the command that is waited for.
InStep ==
  ~cut /\ ~late =>
    /\ inbox # << >> => Len(inbox) = 1 /\ out = << >> /\ uart = << >>
    /\ out # << >> => uart = << >>
    /\ step \in {"idle", "flush"} => Quiet
    /\ step \in Commands => \A i \in 1..Len(inbox) : inbox[i].of = step
    /\ step = "CGACT" =>
         /\ \A i \in 1..Len(out) : out[i].says = "OK" => active
         /\ \A i \in 1..Len(uart) : uart[i].says = "OK" => active

Prompts(q) == \E i \in 1..Len(q) : q[i].says = ">"

\* As long as no answer was late, nothing follows AT+HTTPACTION on its way, nor the
\* prompt, until the data is written. A prompt from before a restart lasts until the
\* modem answers the AT that setup begins with.
Prompted ==
  ~late =>
    /\ \A i \in 1..Len(inbox) : inbox[i].of = "HTTPACTION" => step = "HTTPACTION" /\ i = Len(inbox)
    /\ \A i \in 1..Len(out) : out[i].says = ">" => step = "HTTPACTION" /\ i = Len(out) /\ inbox = << >>
    /\ Prompts(uart) => step = "HTTPACTION" /\ inbox = << >> /\ out = << >>
    /\ prompting =>
         \/ step = "HTTPACTION" /\ inbox = << >> /\ (Prompts(out) \/ Prompts(uart))
         \/ step = "flush" /\ inbox = << >>
         \/ step = "response" /\ Len(inbox) = 1 /\ inbox[1].of = "data"
         \/ unserved
    /\ unserved => prompting /\ out = << >> /\ uart = << >> /\ step \in {"idle", "AT", "AT2"}

\* As long as commands and answers are in step, all that is under way answers the
\* command written last, and ends with the line that is looked for.
Synchronous ==
  synced =>
    /\ ~stale
    /\ step \in Http \cup {"idle", "flush", "response"}
    /\ step \in {"idle", "flush"} => Quiet
    /\ step \in Http =>
         /\ inbox # << >> => /\ Len(inbox) = 1 /\ inbox[1].of = step /\ inbox[1].fresh
                             /\ out = << >> /\ uart = << >>
         /\ \A i \in 1..Len(out) : out[i].fresh /\ (out[i].says = Wanted[step] => i = Len(out))
         /\ \A i \in 1..Len(uart) :
              uart[i].fresh /\ (uart[i].says = Wanted[step] => i = Len(uart) /\ out = << >>)

Dialogue == LinesTyped /\ CallerTyped /\ InStep /\ Prompted /\ Synchronous

\* A command that is written when nothing is under way is alone.
LEMMA WriteAlone ==
  ASSUME LinesTyped, NEW c \in Commands \cup {"data"}, Write(c), inbox = << >>, out = << >>
  PROVE  /\ inbox' \in Seq(Entry) /\ Len(inbox') = 1 /\ inbox' # << >>
         /\ inbox'[1].of = c /\ inbox'[1].fresh
         /\ out' = << >> /\ UNCHANGED <<prompting, active, cut, unserved>>
<1>1. Len(inbox) = 0 /\ Len(out) = 0
  OBVIOUS
<1>2. /\ inbox' \in Seq(Entry) /\ Len(inbox') = Len(inbox) + 1
      /\ inbox'[Len(inbox) + 1] = [of |-> c, fresh |-> TRUE]
      /\ out' \in Seq(Line) /\ Len(out') = Len(out)
      /\ UNCHANGED <<prompting, active, cut, unserved>>
  BY WriteIs
<1>3. inbox' \in Seq(Entry) /\ Len(inbox') = 1 /\ inbox'[1] = [of |-> c, fresh |-> TRUE]
  BY <1>1, <1>2
<1>4. inbox' # << >> /\ inbox'[1].of = c /\ inbox'[1].fresh
  <2>1. inbox' # << >>
    <3>1. Len(<< >>) = 0
      BY EmptySeq
    <3>2. Len(inbox') # Len(<< >>)
      BY <1>3, <3>1
    <3> QED
      BY <3>2, Zenon
  <2>2. [of |-> c, fresh |-> TRUE].of = c /\ [of |-> c, fresh |-> TRUE].fresh
    OBVIOUS
  <2>3. inbox'[1].of = c
    BY <1>3, <2>2
  <2>4. inbox'[1].fresh
    BY <1>3, <2>2, Zenon
  <2> QED
    BY <2>1, <2>3, <2>4
<1>5. out' = << >>
  BY <1>1, <1>2
<1> QED
  BY <1>2, <1>3, <1>4, <1>5

\* Whatever step follows a quiet one, nothing but its command is under way.
LEMMA GotoAlone ==
  ASSUME LinesTyped, CallerTyped, NEW next \in Nexts, Goto(next), uart' = << >>,
         inbox = << >>, out = << >>, late' \in BOOLEAN, next = "flush" => step = "HTTPACTION"
  PROVE  /\ LinesTyped' /\ InStep'
         /\ ~unserved /\ (prompting => next = "flush") => Prompted'
         /\ ~stale' /\ next \in Http \cup {"flush", "true", "false"} => Synchronous'
<1>1. /\ step' \in Steps /\ UNCHANGED <<prompting, active, cut, unserved>> /\ out' = << >> /\ uart' = << >>
      /\ \/ /\ next \in Commands /\ step' = next
            /\ inbox' \in Seq(Entry) /\ Len(inbox') = 1 /\ inbox' # << >>
            /\ inbox'[1].of = next /\ inbox'[1].fresh
         \/ next = "flush" /\ step' = "flush" /\ inbox' = << >>
         \/ next \in {"true", "false"} /\ step' = "idle" /\ inbox' = << >>
  <2>1. CASE next \in Commands
    <3>1. step' = next /\ Write(next) /\ step' \in Steps
      BY <2>1, GotoIs, CommandsAre
    <3> QED
      BY <2>1, <3>1, WriteAlone
  <2>2. CASE next \in {"flush", "true", "false"}
    BY <2>2, GotoIs, CommandsAre
  <2> QED
    BY <2>1, <2>2 DEF Nexts
<1>2. LinesTyped'
  BY <1>1 DEF LinesTyped
<1>3. Len(out') = 0 /\ Len(uart') = 0
  BY <1>1
<1>4. InStep'
  BY <1>1, <1>3, CommandsAre DEF InStep, Quiet
<1>5. ~Prompts(out)' /\ ~Prompts(uart)'
  BY <1>3 DEF Prompts
<1>6. ~unserved /\ (prompting => next = "flush") => Prompted'
  <2> SUFFICES ASSUME ~late', ~unserved, prompting => next = "flush"
               PROVE  /\ \A i \in 1..Len(inbox') :
                           inbox'[i].of = "HTTPACTION" => step' = "HTTPACTION" /\ i = Len(inbox')
                      /\ prompting' => step' = "flush" /\ inbox' = << >>
    BY <1>1, <1>3, <1>5 DEF Prompted
  <2>1. prompting' => next = "flush"
    BY <1>1
  <2>2. "flush" \notin Commands
    BY CommandsAre
  <2>3. CASE next \in Commands
    <3>1. Len(inbox') = 1 /\ inbox'[1].of = next /\ step' = next /\ ~prompting'
      BY <1>1, <2>1, <2>2, <2>3, CommandsAre
    <3> QED
      BY <3>1
  <2>4. CASE next \in {"flush", "true", "false"}
    <3>1. inbox' = << >> /\ Len(inbox') = 0 /\ (next = "flush" => step' = "flush")
      BY <1>1, <2>4, CommandsAre
    <3> QED
      BY <2>1, <3>1
  <2> QED
    BY <2>3, <2>4 DEF Nexts
<1>7. ~stale' /\ next \in Http \cup {"flush", "true", "false"} => Synchronous'
  BY <1>1, <1>3, CommandsAre DEF Synchronous, Quiet, Http
<1> QED
  BY <1>2, <1>4, <1>6, <1>7

-----------------------------------------------------------------------------
(***************************************************************************)
(* The caller                                                              *)
(***************************************************************************)
LEMMA GotoTyped ==
  ASSUME LinesTyped, CallerTyped, NEW next \in Nexts, Goto(next), uart' \in Seq(Line),
         stale' \in BOOLEAN, synced' \in BOOLEAN, late' \in BOOLEAN
  PROVE  LinesTyped' /\ CallerTyped'
<1>1. step' \in Steps /\ returned' \in BOOLEAN /\ tries' \in 0..Tries
  BY GotoIs
<1>2. CASE next \in Commands
  <2>1. Write(next)
    BY <1>2, GotoIs, CommandsAre
  <2>2. inbox' \in Seq(Entry) /\ out' \in Seq(Line) /\ UNCHANGED <<prompting, active, cut, unserved>>
    BY <1>2, <2>1, WriteIs
  <2> QED
    BY <1>1, <2>2 DEF LinesTyped, CallerTyped
<1>3. CASE next \notin Commands
  <2>1. UNCHANGED <<inbox, out, prompting, active, cut, unserved>>
    BY <1>3, GotoIs DEF Nexts
  <2> QED
    BY <1>1, <2>1 DEF LinesTyped, CallerTyped
<1> QED
  BY <1>2, <1>3

\* A step may be left while lines are under way; then there is no prompt among them.
LEMMA GotoPrompted ==
  ASSUME LinesTyped, CallerTyped, Prompted, NEW next \in Nexts, Goto(next), ~Prompts(uart)',
         step \in Commands \cup {"idle"}, step # "HTTPACTION", next # "flush", late' = late,
         ~unserved
  PROVE  Prompted'
<1> SUFFICES ASSUME ~late PROVE Prompted'
  BY DEF Prompted
<1>1. /\ ~prompting /\ ~Prompts(out)
      /\ \A i \in 1..Len(inbox) : inbox[i].of # "HTTPACTION"
      /\ \A i \in 1..Len(out) : out[i].says # ">"
  BY CommandsAre DEF Prompted, Prompts
<1>2. ~Prompts(uart)'
  OBVIOUS
<1>3. CASE next \in Commands
  <2>1. step' = next /\ Write(next)
    BY <1>3, GotoIs, CommandsAre
  <2>2. /\ inbox' \in Seq(Entry) /\ Len(inbox') = Len(inbox) + 1 /\ Len(inbox) \in Nat
        /\ \A i \in 1..Len(inbox) : inbox'[i].of = inbox[i].of
        /\ inbox'[Len(inbox) + 1] = [of |-> next, fresh |-> TRUE]
        /\ Len(out') = Len(out)
        /\ \A i \in 1..Len(out) : out'[i].says = out[i].says
        /\ UNCHANGED <<prompting, active, cut, unserved>>
    BY <1>3, <2>1, WriteIs DEF LinesTyped
  <2>3. \A i \in 1..Len(inbox') : inbox'[i].of = "HTTPACTION" => next = "HTTPACTION" /\ i = Len(inbox')
    BY <1>1, <2>2
  <2>4. \A i \in 1..Len(out') : out'[i].says # ">"
    BY <1>1, <2>2
  <2>5. ~prompting' /\ ~unserved'
    BY <1>1, <2>2
  <2> QED
    BY <1>2, <2>1, <2>3, <2>4, <2>5 DEF Prompted
<1>4. CASE next \notin Commands
  <2>1. UNCHANGED <<inbox, out, prompting, active, cut, unserved>>
    BY <1>4, GotoIs DEF Nexts
  <2> QED
    BY <1>1, <1>2, <2>1 DEF Prompted
<1> QED
  BY <1>3, <1>4

\* The prompt that the restart left lasts while AT is not answered.
LEMMA GotoUnserved ==
  ASSUME LinesTyped, CallerTyped, Prompted, ~late, unserved, NEW next \in {"AT", "AT2", "true", "false"},
         Goto(next), uart' = << >>
  PROVE  Prompted'
<1>1. /\ prompting /\ out = << >> /\ step # "HTTPACTION"
      /\ \A i \in 1..Len(inbox) : inbox[i].of # "HTTPACTION"
  BY DEF Prompted
<1>2. next \in Nexts
  BY CommandsAre DEF Nexts
<1>3. /\ prompting' /\ unserved' /\ out' = << >> /\ step' \in {"idle", "AT", "AT2"}
      /\ \A i \in 1..Len(inbox') : inbox'[i].of # "HTTPACTION"
  <2>1. CASE next \in Commands
    <3>1. step' = next /\ Write(next) /\ next \in {"AT", "AT2"}
      BY <1>2, <2>1, GotoIs, CommandsAre
    <3>2. /\ inbox' \in Seq(Entry) /\ Len(inbox') = Len(inbox) + 1 /\ Len(inbox) \in Nat
          /\ \A i \in 1..Len(inbox) : inbox'[i].of = inbox[i].of
          /\ inbox'[Len(inbox) + 1] = [of |-> next, fresh |-> TRUE]
          /\ out' \in Seq(Line) /\ Len(out') = Len(out)
          /\ UNCHANGED <<prompting, active, cut, unserved>>
      <4>1. Len(inbox) \in Nat
        BY DEF LinesTyped
      <4> QED
        BY <2>1, <3>1, <4>1, WriteIs
    <3>3. \A i \in 1..Len(inbox') : inbox'[i].of # "HTTPACTION"
      BY <1>1, <3>1, <3>2
    <3>4. out' = << >>
      BY <1>1, <3>2, EmptySeq
    <3> QED
      BY <1>1, <3>1, <3>2, <3>3, <3>4
  <2>2. CASE next \in {"true", "false"}
    <3>1. step' = "idle" /\ UNCHANGED <<inbox, out, prompting, active, cut, unserved>>
      BY <1>2, <2>2, GotoIs, CommandsAre
    <3> QED
      BY <1>1, <3>1
  <2> QED
    BY <2>1, <2>2, CommandsAre
<1>4. Len(out') = 0 /\ Len(uart') = 0
  BY <1>3
<1> QED
  BY <1>3, <1>4 DEF Prompted, Prompts

LEMMA FoundIs ==
  /\ \A says : Found("HTTPACTION", says) <=> says = ">"
  /\ \A s \in Http : \A says : Found(s, says) <=> says = Wanted[s]
  /\ \A says : Found("CGACT", says) <=> says = "OK"
BY WantedIs DEF Found, Infos, Http

LEMMA MinIs == \A n \in Nat : Min({n}) = n
BY DEF Min

LEMMA ReadStep ==
  ASSUME Dialogue, Read
  PROVE  Dialogue'
<1> USE DEF Dialogue
<1> DEFINE hits == {i \in DOMAIN uart : Found(step, uart[i].says)}
<1>1. /\ step \in Commands /\ uart # << >> /\ uart' = << >> /\ UNCHANGED <<synced, late>>
  BY DEF Read
<1>2. DOMAIN uart = 1..Len(uart) /\ Len(uart) \in Nat /\ uart' \in Seq(Line) /\ Len(uart') = 0
  BY <1>1 DEF LinesTyped
<1>3. step \notin {"idle", "flush", "response"}
  BY <1>1, CommandsAre
<1>4. CASE hits = {}
  <2>1. UNCHANGED <<step, returned, tries, inbox, out, prompting, active, cut, unserved, stale>>
    BY <1>4 DEF Read
  <2>2. LinesTyped' /\ CallerTyped'
    BY <1>1, <1>2, <2>1 DEF LinesTyped, CallerTyped
  <2>3. InStep'
    BY <1>1, <1>2, <1>3, <2>1 DEF InStep, Quiet
  <2>4. step = "HTTPACTION" => ~Prompts(uart)
    BY <1>2, <1>4, FoundIs DEF Prompts
  <2>5. ~Prompts(uart)' /\ (Prompts(out)' <=> Prompts(out))
    BY <1>2, <2>1 DEF Prompts
  <2>6. Prompted'
    BY <1>1, <2>1, <2>4, <2>5 DEF Prompted
  <2>7. Synchronous'
    <3> SUFFICES ASSUME synced PROVE Synchronous'
      BY <1>1 DEF Synchronous
    <3>1. /\ ~stale /\ step \in Http
          /\ inbox # << >> => /\ Len(inbox) = 1 /\ inbox[1].of = step /\ inbox[1].fresh
                              /\ out = << >>
          /\ \A i \in 1..Len(out) : out[i].fresh /\ (out[i].says = Wanted[step] => i = Len(out))
      BY <1>3 DEF Synchronous
    <3>2. UNCHANGED <<step, inbox, out, stale>> /\ uart' = << >> /\ Len(uart') = 0
      BY <1>1, <1>2, <2>1
    <3>3. step' \in Http /\ step' \notin {"idle", "flush"} /\ ~stale'
      BY <1>3, <3>1, <3>2
    <3>4. inbox' # << >> => /\ Len(inbox') = 1 /\ inbox'[1].of = step' /\ inbox'[1].fresh
                            /\ out' = << >> /\ uart' = << >>
      BY <3>1, <3>2
    <3>5. \A i \in 1..Len(out') :
            out'[i].fresh /\ (out'[i].says = Wanted[step'] => i = Len(out'))
      BY <3>1, <3>2
    <3> QED
      BY <3>2, <3>3, <3>4, <3>5 DEF Synchronous
  <2> QED
    BY <2>2, <2>3, <2>6, <2>7
<1>5. CASE hits # {}
  <2>1. PICK next \in After(step, TRUE) : Goto(next)
    BY <1>5 DEF Read
  <2>2. stale' = ~uart[Min(hits)].fresh
    BY <1>5 DEF Read
  <2>3. /\ next \in Nexts /\ (next = "flush" <=> step = "HTTPACTION")
        /\ step \in Http => next \in Http \cup {"flush", "true", "false"}
    BY <1>1, <2>1, AfterIs DEF Nexts, Http
  <2>4. LinesTyped' /\ CallerTyped'
    <3>1. stale' \in BOOLEAN /\ synced' \in BOOLEAN /\ late' \in BOOLEAN
      BY <1>1, <2>2 DEF CallerTyped
    <3> QED
      BY <1>2, <2>1, <2>3, <3>1, GotoTyped
  <2>5. ~late => ~unserved /\ (prompting => next = "flush")
    BY <1>1, <1>3, <2>3 DEF Prompted
  <2>6. late' \in BOOLEAN
    BY <1>1 DEF CallerTyped
  <2>7. inbox = << >> /\ out = << >>
        => /\ InStep' /\ (~late => Prompted')
           /\ ~stale' /\ step \in Http => Synchronous'
    BY <1>1, <2>1, <2>3, <2>5, <2>6, GotoAlone
  <2>8. InStep'
    <3>1. ~cut' /\ ~late' => ~cut /\ ~late
      BY <1>1, <2>1, <2>3, GotoIs, WriteIs DEF Nexts
    <3>2. ~cut /\ ~late => inbox = << >> /\ out = << >>
      BY <1>1 DEF InStep
    <3> QED
      BY <2>7, <3>1, <3>2 DEF InStep
  <2>9. Prompted'
    <3>1. CASE step # "HTTPACTION" /\ ~late
      <4>1. ~Prompts(uart)'
        BY <1>2 DEF Prompts
      <4> QED
        BY <1>1, <2>1, <2>3, <2>5, <3>1, <4>1, GotoPrompted
    <3>2. CASE step = "HTTPACTION" /\ ~late
      <4>1. Prompts(uart)
        BY <1>2, <1>5, <3>2, FoundIs DEF Prompts
      <4> QED
        BY <2>7, <3>2, <4>1 DEF Prompted
    <3>3. CASE late
      BY <1>1, <3>3 DEF Prompted
    <3> QED
      BY <3>1, <3>2, <3>3
  <2>10. Synchronous'
    <3>1. CASE synced
      <4>1. step \in Http
        BY <1>3, <3>1 DEF Synchronous
      <4>2. inbox = << >>
        BY <1>1, <3>1, <4>1 DEF Synchronous
      <4>3. \A i \in hits : i = Len(uart) /\ out = << >> /\ uart[i].fresh
        BY <1>2, <3>1, <4>1, FoundIs DEF Synchronous
      <4>4. hits = {Len(uart)} /\ out = << >>
        BY <1>5, <4>3
      <4>5. ~stale'
        BY <1>2, <2>2, <4>3, <4>4, MinIs
      <4> QED
        BY <2>7, <4>1, <4>2, <4>4, <4>5
    <3>2. CASE ~synced
      BY <1>1, <3>2 DEF Synchronous
    <3> QED
      BY <3>1, <3>2
  <2> QED
    BY <2>4, <2>8, <2>9, <2>10
<1> QED
  BY <1>4, <1>5

LEMMA TimeoutStep ==
  ASSUME Dialogue, Timeout
  PROVE  Dialogue'
<1> USE DEF Dialogue
<1>1. /\ step \in Commands /\ uart = << >> /\ uart' = << >> /\ ~stale'
      /\ (late' <=> late \/ Pending) /\ (synced' <=> ~Pending /\ step \in Http)
  BY DEF Timeout, Over, Http
<1>2. late' \in BOOLEAN /\ synced' \in BOOLEAN /\ stale' \in BOOLEAN
  BY DEF Timeout, Over, Pending, CallerTyped
<1>3. PICK next \in After(step, FALSE) : Goto(next)
  BY DEF Timeout
<1>4. next \in Nexts /\ next # "flush" /\ (step \in Http => next \in {"true", "false"})
  BY <1>1, <1>3, AfterIs DEF Nexts
<1>5. uart' \in Seq(Line) /\ Len(uart) = 0
  BY <1>1 DEF LinesTyped
<1>6. LinesTyped' /\ CallerTyped'
  BY <1>2, <1>3, <1>4, <1>5, GotoTyped
<1>7. ~late' => inbox = << >> /\ out = << >> /\ ~late /\ (prompting => unserved)
  <2> SUFFICES ASSUME ~late'
               PROVE  inbox = << >> /\ out = << >> /\ ~late /\ (prompting => unserved)
    OBVIOUS
  <2>1. ~late /\ inbox = << >> /\ out = << >>
    BY <1>1 DEF Pending
  <2>2. ~Prompts(out) /\ ~Prompts(uart)
    BY <1>5, <2>1 DEF Prompts
  <2> QED
    BY <1>1, <2>1, <2>2, CommandsAre DEF Prompted
<1>8. inbox = << >> /\ out = << >>
      => /\ InStep' /\ (step \in Http => Synchronous')
         /\ ~unserved /\ ~prompting => Prompted'
  BY <1>1, <1>2, <1>3, <1>4, GotoAlone
<1>9. InStep'
  BY <1>7, <1>8 DEF InStep
<1>11. Prompted'
  <2>1. CASE late'
    BY <2>1 DEF Prompted
  <2>2. CASE ~late' /\ unserved
    <3>1. ~late /\ step \in {"AT", "AT2"}
      BY <1>1, <1>7, <2>2, CommandsAre DEF Prompted
    <3>2. next \in {"AT", "AT2", "true", "false"}
      BY <1>1, <1>3, <3>1, AfterIs
    <3> QED
      BY <1>1, <1>3, <2>2, <3>1, <3>2, GotoUnserved
  <2>3. CASE ~late' /\ ~unserved
    BY <1>7, <1>8, <2>3
  <2> QED
    BY <2>1, <2>2, <2>3
<1>10. Synchronous'
  BY <1>1, <1>8 DEF Synchronous, Pending
<1> QED
  BY <1>6, <1>9, <1>10, <1>11

LEMMA FlushStep ==
  ASSUME Dialogue, Flush
  PROVE  Dialogue'
<1> USE DEF Dialogue
<1>1. /\ step = "flush" /\ step' = "response" /\ uart' = << >> /\ Write("data")
      /\ UNCHANGED <<returned, tries, stale, synced, late>>
  BY DEF Flush
<1>2. /\ inbox' \in Seq(Entry) /\ Len(inbox') = Len(inbox) + 1 /\ Len(inbox) \in Nat
      /\ \A i \in 1..Len(inbox) : inbox'[i].of = inbox[i].of
      /\ inbox'[Len(inbox) + 1] = [of |-> "data", fresh |-> TRUE]
      /\ out' \in Seq(Line) /\ Len(out') = Len(out)
      /\ \A i \in 1..Len(out) : out'[i].says = out[i].says
      /\ UNCHANGED <<prompting, active, cut, unserved>>
  BY <1>1, WriteIs DEF LinesTyped
<1>3. step' \notin Commands /\ step \notin Commands /\ step # "HTTPACTION"
  BY <1>1, CommandsAre
<1>4. LinesTyped' /\ CallerTyped' /\ Len(uart') = 0
  BY <1>1, <1>2 DEF LinesTyped, CallerTyped, Steps
<1>5. InStep'
  <2> SUFFICES ASSUME ~cut, ~late PROVE InStep'
    BY <1>1, <1>2 DEF InStep
  <2>1. inbox = << >> /\ out = << >>
    BY <1>1 DEF InStep, Quiet
  <2>2. Len(inbox') = 1 /\ out' = << >> /\ Len(out') = 0
    BY <1>1, <2>1, WriteAlone
  <2> QED
    BY <1>1, <1>3, <1>4, <2>2 DEF InStep
<1>6. Prompted'
  <2> SUFFICES ASSUME ~late PROVE Prompted'
    BY <1>1 DEF Prompted
  <2>1. /\ \A i \in 1..Len(inbox) : inbox[i].of # "HTTPACTION"
        /\ \A i \in 1..Len(out) : out[i].says # ">"
        /\ prompting => inbox = << >>
        /\ ~unserved
    BY <1>1, <1>3 DEF Prompted
  <2>2. \A i \in 1..Len(inbox') : inbox'[i].of # "HTTPACTION"
    BY <1>2, <2>1
  <2>3. \A i \in 1..Len(out') : out'[i].says # ">"
    BY <1>2, <2>1
  <2>4. (prompting' => Len(inbox') = 1 /\ inbox'[1].of = "data") /\ ~unserved'
    BY <1>2, <2>1
  <2>5. ~Prompts(uart)'
    BY <1>4 DEF Prompts
  <2> QED
    BY <1>1, <2>2, <2>3, <2>4, <2>5 DEF Prompted
<1>7. Synchronous'
  BY <1>1, CommandsAre DEF Synchronous, Http
<1> QED
  BY <1>4, <1>5, <1>6, <1>7

LEMMA ResponseStep ==
  ASSUME Dialogue, Response
  PROVE  Dialogue'
<1> USE DEF Dialogue
<1> DEFINE next == "HTTPCLOSE"
<1>1. /\ step = "response" /\ uart' = << >> /\ Goto(next) /\ ~stale'
      /\ (late' <=> late \/ Pending) /\ (synced' <=> ~Pending)
  BY DEF Response, Over
<1>2. /\ late' \in BOOLEAN /\ synced' \in BOOLEAN /\ stale' \in BOOLEAN
      /\ uart' \in Seq(Line)
  <2>1. late' \in BOOLEAN /\ synced' \in BOOLEAN /\ stale' \in BOOLEAN
    BY DEF Response, Over, Pending, CallerTyped
  <2> QED
    BY <1>1, <2>1
<1>3. next \in Nexts /\ next \in Http
  BY CommandsAre DEF Nexts, Http
<1> HIDE DEF next
<1>4. LinesTyped' /\ CallerTyped'
  BY <1>1, <1>2, <1>3, GotoTyped
<1>5. ~late' => inbox = << >> /\ out = << >> /\ ~prompting /\ ~unserved
  BY <1>1 DEF Pending, Prompted
<1>6. "flush" \notin Http
  BY DEF Http
<1>7. inbox = << >> /\ out = << >>
      => InStep' /\ (~prompting /\ ~unserved => Prompted') /\ Synchronous'
  BY <1>1, <1>2, <1>3, <1>6, GotoAlone
<1>8. InStep' /\ Prompted'
  BY <1>5, <1>7 DEF InStep, Prompted
<1>9. Synchronous'
  BY <1>1, <1>7 DEF Synchronous, Pending
<1> QED
  BY <1>4, <1>8, <1>9

LEMMA BeginStep ==
  ASSUME Dialogue, NEW c \in {"AT", "HTTPPARA"}, Begin(c), c = "AT" \/ late \/ ~unserved
  PROVE  Dialogue'
<1> USE DEF Dialogue
<1>1. /\ step = "idle" /\ Goto(c) /\ uart' = Older(uart) /\ UNCHANGED <<stale, late>>
      /\ (synced' <=> synced /\ c # "AT")
  BY DEF Begin
<1>2. c \in Nexts /\ c # "flush" /\ step \notin Commands /\ (c # "AT" => c \in Http)
  BY <1>1, CommandsAre DEF Nexts, Http
<1>3. /\ uart' \in Seq(Line) /\ Len(uart') = Len(uart)
      /\ \A i \in 1..Len(uart) : uart'[i].says = uart[i].says
  BY <1>1, OlderTyped DEF LinesTyped
<1>4. synced' \in BOOLEAN /\ stale' \in BOOLEAN /\ late' \in BOOLEAN
  BY <1>1 DEF Begin, CallerTyped
<1>5. LinesTyped' /\ CallerTyped'
  BY <1>1, <1>2, <1>3, <1>4, GotoTyped
<1>7. Quiet => InStep' /\ (~stale' /\ c \in Http => Synchronous')
  <2>1. ASSUME Quiet PROVE uart' = << >>
    BY <1>3, <2>1 DEF Quiet
  <2> QED
    BY <1>1, <1>2, <1>4, <2>1, GotoAlone DEF Quiet
<1>8. InStep'
  <2>1. ~cut' /\ ~late' => ~cut /\ ~late
    BY <1>1, <1>2, GotoIs, WriteIs DEF Nexts
  <2> QED
    BY <1>1, <1>7, <2>1 DEF InStep
<1>9. Prompted'
  <2>1. CASE late
    BY <1>1, <2>1 DEF Prompted
  <2>2. CASE ~late /\ ~unserved
    <3>1. ~Prompts(uart)
      BY <1>1, <2>2 DEF Prompted
    <3>2. ~Prompts(uart)'
      BY <1>3, <3>1 DEF Prompts
    <3> QED
      BY <1>1, <1>2, <2>2, <3>2, GotoPrompted
  <2>3. CASE ~late /\ unserved
    <3>1. uart = << >> /\ c = "AT"
      BY <2>3 DEF Prompted
    <3>2. uart' = << >>
      BY <1>3, <3>1, EmptySeq
    <3> QED
      BY <1>1, <2>3, <3>1, <3>2, GotoUnserved
  <2> QED
    BY <2>1, <2>2, <2>3
<1>10. Synchronous'
  <2>1. CASE ~synced'
    BY <2>1 DEF Synchronous
  <2>2. CASE synced'
    <3>1. synced /\ c \in Http
      BY <1>1, <1>2, <2>2
    <3>2. ~stale' /\ Quiet
      BY <1>1, <3>1 DEF Synchronous
    <3> QED
      BY <1>7, <3>1, <3>2
  <2> QED
    BY <2>1, <2>2
<1> QED
  BY <1>5, <1>8, <1>9, <1>10

-----------------------------------------------------------------------------
(***************************************************************************)
(* The modem and the line                                                  *)
(***************************************************************************)
Words == {"OK", "115200", "READY", "NO SIM", "99,99", ">", "info", "body", "ERROR"}

\* A prompt is all that the modem says then, and what an Http command waits for is said last.
LEMMA SaysIs ==
  ASSUME NEW c \in Commands \cup {"data"}, NEW p \in BOOLEAN,
         NEW says \in Refusals \cup (IF p THEN Replies(c)
                                    ELSE IF c = "data" THEN {<<"ERROR">>} ELSE Answers(c))
  PROVE  /\ says \in Seq(Says)
         /\ \A i \in 1..Len(says) : says[i] = ">" => says = <<">">>
         /\ says = <<">">> => ~p /\ c = "HTTPACTION" /\ Len(says) = 1
         /\ ~p /\ c = "CGACT" => \A i \in 1..Len(says) : says[i] = "OK" => says = <<"OK">>
         /\ c \in Http => \A i \in 1..Len(says) : says[i] = Wanted[c] => i = Len(says)
<1>1. \/ says \in {<< >>, <<"ERROR">>}
      \/ p /\ says \in Replies(c)
      \/ ~p /\ c \in Commands /\ says \in Answers(c)
  BY DEF Refusals
<1>2. \/ says = << >> \/ says = <<"ERROR">>
      \/ p /\ (says = <<"body", "OK">> \/ says = <<"OK">>)
      \/ ~p /\ c \notin Http \cup {"CGACT"}
         /\ says \in {<<"115200", "OK">>, <<"info", "OK">>, <<"READY", "OK">>, <<"NO SIM", "OK">>,
                     <<"99,99", "OK">>, <<"info", "info", "OK">>}
      \/ ~p /\ c = "HTTPACTION" /\ says = <<">">>
      \/ ~p /\ c # "HTTPACTION" /\ says = <<"OK">>
  <2>1. CASE p /\ says \in Replies(c)
    BY <2>1 DEF Replies
  <2>2. CASE ~p /\ c \in Commands /\ says \in Answers(c)
    <3>1. c \in {"IPRask", "CPIN", "NOSIM", "CSQ"} \cup Infos => c \notin Http \cup {"CGACT"}
      BY DEF Infos, Http
    <3>2. CASE c \in {"IPRask", "CPIN", "NOSIM", "CSQ"}
      BY <2>2, <3>1, <3>2 DEF Answers
    <3>3. CASE c \in Infos
      BY <2>2, <3>1, <3>3 DEF Answers, Infos
    <3>4. CASE c = "HTTPACTION"
      BY <2>2, <3>4 DEF Answers, Infos
    <3>5. CASE c \notin {"IPRask", "CPIN", "NOSIM", "CSQ", "HTTPACTION"} \cup Infos
      BY <2>2, <3>5 DEF Answers
    <3> QED
      BY <3>2, <3>3, <3>4, <3>5
  <2> QED
    BY <1>1, <2>1, <2>2
<1>3. /\ says \in Seq(Words)
      /\ \A i \in 1..Len(says) : says[i] = ">" => says = <<">">>
      /\ \A i \in 1..Len(says) : says[i] = "OK" => i = Len(says)
  <2>1. CASE says = << >>
    BY <2>1 DEF Words
  <2>2. CASE \E w \in Words : says = <<w>>
    <3>1. PICK w \in Words : says = <<w>>
      BY <2>2
    <3>2. Len(says) = 1 /\ says[1] = w /\ \A i \in 1..1 : i = 1
      BY <3>1
    <3> QED
      BY <3>1, <3>2
  <2>3. CASE \E w \in Words \ {">", "OK"} : says = <<w, "OK">>
    <3>1. PICK w \in Words \ {">", "OK"} : says = <<w, "OK">>
      BY <2>3
    <3>2. Len(says) = 2 /\ says[1] = w /\ says[2] = "OK" /\ \A i \in 1..2 : i = 1 \/ i = 2
      BY <3>1
    <3>3. "OK" \in Words
      BY DEF Words
    <3> QED
      BY <3>1, <3>2, <3>3
  <2>4. CASE says = <<"info", "info", "OK">>
    <3>1. /\ Len(says) = 3 /\ says[1] = "info" /\ says[2] = "info" /\ says[3] = "OK"
          /\ \A i \in 1..3 : i = 1 \/ i = 2 \/ i = 3
      BY <2>4
    <3>2. "OK" \in Words /\ "info" \in Words
      BY DEF Words
    <3> QED
      BY <2>4, <3>1, <3>2
  <2>5. /\ \A w \in {"OK", "ERROR", ">"} : w \in Words
        /\ \A w \in {"body", "115200", "info", "READY", "NO SIM", "99,99"} : w \in Words \ {">", "OK"}
    BY DEF Words
  <2> QED
    BY <1>2, <2>1, <2>2, <2>3, <2>4, <2>5
<1>4. Words \subseteq Says
  <2>1. /\ Wanted["AT"] = "OK" /\ Wanted["IPRask"] = "115200" /\ Wanted["CPIN"] = "READY"
        /\ Wanted["NOSIM"] = "NO SIM" /\ Wanted["CSQ"] = "99,99" /\ Wanted["HTTPACTION"] = ">"
    BY DEF Wanted
  <2>2. {"OK", "115200", "READY", "NO SIM", "99,99", ">"} \subseteq {Wanted[c1] : c1 \in DOMAIN Wanted}
    <3>1. {"AT", "IPRask", "CPIN", "NOSIM", "CSQ", "HTTPACTION"} \subseteq DOMAIN Wanted
      BY WantedIs
    <3> QED
      BY <2>1, <3>1
  <2> QED
    BY <2>2 DEF Says, Words
<1>5. says \in Seq(Says)
  BY <1>3, <1>4
<1>6. says = <<">">> => ~p /\ c = "HTTPACTION" /\ Len(says) = 1
  BY <1>2
<1>7. ~p /\ c = "CGACT" => \A i \in 1..Len(says) : says[i] = "OK" => says = <<"OK">>
  BY <1>2 DEF Http
<1>8. c \in Http => Wanted[c] \in {"OK", ">"}
  <2>1. \A h \in Http : Wanted[h] = "OK" \/ Wanted[h] = ">"
    BY WantedIs
  <2> QED
    BY <2>1
<1>9. ASSUME NEW i \in 1..Len(says), says[i] = ">"
      PROVE  i = Len(says)
  <2>1. Len(says) = 1
    BY <1>3, <1>6, <1>9
  <2> QED
    BY <2>1
<1> QED
  BY <1>3, <1>5, <1>6, <1>7, <1>8, <1>9

LEMMA ExecuteStep ==
  ASSUME Dialogue, Execute
  PROVE  Dialogue' /\ (Head(inbox).of = "data" \/ ~prompting \/ late \/ unserved)
<1> USE DEF Dialogue
<1> DEFINE c == Head(inbox)
<1>1. /\ inbox # << >> /\ inbox' = Tail(inbox)
      /\ UNCHANGED <<uart, cut, step, returned, tries, stale, synced, late>>
      /\ (unserved' <=> unserved /\ prompting') /\ unserved' \in BOOLEAN
  BY DEF Execute, callerVars
<1>2. PICK says \in Refusals \cup (IF prompting THEN Replies(c.of)
                                  ELSE IF c.of = "data" THEN {<<"ERROR">>} ELSE Answers(c.of)) :
        /\ out' = out \o [i \in DOMAIN says |-> [says |-> says[i], fresh |-> c.fresh]]
        /\ prompting' = (says = <<">">> \/ (prompting /\ c.of # "data" /\ says = << >>))
        /\ active' = (active \/ (~prompting /\ c.of = "CGACT" /\ says = <<"OK">>))
  BY DEF Execute
<1>3. /\ c = inbox[1] /\ c \in Entry /\ c.of \in Commands \cup {"data"} /\ c.fresh \in BOOLEAN
      /\ Len(inbox) \in Nat /\ Len(inbox) >= 1
      /\ inbox' \in Seq(Entry) /\ Len(inbox') = Len(inbox) - 1
      /\ \A i \in 1..Len(inbox') : inbox'[i] = inbox[i + 1]
      /\ (Len(inbox) = 1 => inbox' = << >>)
  <2>1. inbox \in Seq(Entry) /\ inbox # << >>
    BY <1>1 DEF LinesTyped
  <2>2. c = inbox[1] /\ Len(inbox) \in Nat /\ Len(inbox) >= 1 /\ inbox[1] \in Entry
    BY <2>1
  <2>3. c.of \in Commands \cup {"data"} /\ c.fresh \in BOOLEAN
    BY <2>2 DEF Entry
  <2>4. /\ inbox' \in Seq(Entry) /\ Len(inbox') = Len(inbox) - 1
        /\ \A i \in 1..Len(inbox') : inbox'[i] = inbox[i + 1]
    BY <1>1, <2>1
  <2>5. Len(inbox) = 1 => inbox' = << >>
    BY <2>4, EmptySeq
  <2> QED
    BY <2>2, <2>3, <2>4, <2>5
<1>4. prompting \in BOOLEAN /\ active \in BOOLEAN /\ unserved \in BOOLEAN
  BY DEF LinesTyped
<1> HIDE DEF c
<1>5. /\ says \in Seq(Says)
      /\ \A i \in 1..Len(says) : says[i] = ">" => says = <<">">>
      /\ says = <<">">> => ~prompting /\ c.of = "HTTPACTION" /\ Len(says) = 1
      /\ ~prompting /\ c.of = "CGACT" => \A i \in 1..Len(says) : says[i] = "OK" => says = <<"OK">>
      /\ c.of \in Http => \A i \in 1..Len(says) : says[i] = Wanted[c.of] => i = Len(says)
  BY <1>2, <1>3, <1>4, SaysIs
<1> DEFINE line(w) == [says |-> w, fresh |-> c.fresh]
           answer == [i \in DOMAIN says |-> line(says[i])]
<1>6. \A w \in Says : line(w) \in Line /\ line(w).says = w /\ (line(w).fresh <=> c.fresh)
  BY <1>3 DEF Line
<1>7. DOMAIN says = 1..Len(says) /\ Len(says) \in Nat /\ \A i \in 1..Len(says) : says[i] \in Says
  BY <1>5
<1>8. out' = out \o answer
  BY <1>2
<1> HIDE DEF line
<1>9. answer \in [1..Len(says) -> Line] /\ \A i \in 1..Len(says) : answer[i] = line(says[i])
  BY <1>6, <1>7
<1> HIDE DEF answer
<1>10. answer \in Seq(Line) /\ Len(answer) = Len(says)
  BY <1>7, <1>9, SeqDef
<1>11. /\ out \in Seq(Line) /\ out' \in Seq(Line) /\ Len(out') = Len(out) + Len(says)
       /\ Len(out) \in Nat
       /\ \A i \in 1..Len(out) : out'[i] = out[i]
       /\ \A i \in 1..Len(says) : out'[Len(out) + i] = line(says[i])
  <2>1. out \in Seq(Line) /\ Len(out) \in Nat
    BY DEF LinesTyped
  <2>2. /\ out' \in Seq(Line) /\ Len(out') = Len(out) + Len(answer)
        /\ \A i \in 1..Len(out) : out'[i] = out[i]
        /\ \A i \in 1..Len(answer) : out'[Len(out) + i] = answer[i]
    <3>1. answer \in Seq(Line)
      BY <1>10
    <3>2. \A q \in Seq(Line) :
            /\ out \o q \in Seq(Line) /\ Len(out \o q) = Len(out) + Len(q)
            /\ \A i \in 1..Len(out) : (out \o q)[i] = out[i]
            /\ \A i \in 1..Len(q) : (out \o q)[Len(out) + i] = q[i]
      BY <2>1, ConcatProperties
    <3> QED
      BY <1>8, <3>1, <3>2, Zenon
  <2> QED
    BY <1>9, <1>10, <2>1, <2>2
<1>12. \A i \in 1..Len(says) :
         LET k == Len(out) + i IN
         out'[k].says = says[i] /\ (out'[k].fresh <=> c.fresh)
  BY <1>6, <1>7, <1>11
<1>13. \A k \in 1..Len(out') : k \in 1..Len(out) \/ \E i \in 1..Len(says) : k = Len(out) + i
  <2> SUFFICES ASSUME NEW k \in 1..Len(out'), k \notin 1..Len(out)
               PROVE  \E i \in 1..Len(says) : k = Len(out) + i
    OBVIOUS
  <2>1. k - Len(out) \in 1..Len(says) /\ k = Len(out) + (k - Len(out))
    BY <1>7, <1>11
  <2> QED
    BY <2>1
<1>14. /\ (prompting' <=> says = <<">">> \/ (prompting /\ c.of # "data" /\ says = << >>))
       /\ prompting' \in BOOLEAN /\ active' \in BOOLEAN /\ unserved' \in BOOLEAN
       /\ (active' <=> active \/ (~prompting /\ c.of = "CGACT" /\ says = <<"OK">>))
  BY <1>1, <1>2, <1>4
<1>15. LinesTyped' /\ CallerTyped'
  BY <1>1, <1>3, <1>11, <1>14 DEF LinesTyped, CallerTyped
<1>16. prompting /\ ~late /\ ~unserved => c.of = "data"
  BY <1>1, <1>3 DEF Prompted
<1>17. InStep'
  <2> SUFFICES ASSUME ~cut, ~late PROVE InStep'
    BY <1>1 DEF InStep
  <2>1. /\ Len(inbox) = 1 /\ out = << >> /\ uart = << >> /\ step \notin {"idle", "flush"}
        /\ step \in Commands => c.of = step
    BY <1>1, <1>3 DEF InStep, Quiet
  <2>2. inbox' = << >> /\ Len(inbox') = 0 /\ uart' = << >> /\ Len(uart') = 0 /\ Len(out) = 0
    BY <1>1, <1>3, <2>1
  <2>3. step = "CGACT" => \A k \in 1..Len(out') : out'[k].says = "OK" => active'
    <3> SUFFICES ASSUME step = "CGACT", NEW k \in 1..Len(out'), out'[k].says = "OK"
                 PROVE  active'
      OBVIOUS
    <3>1. PICK i \in 1..Len(says) : k = Len(out) + i
      BY <1>13, <2>2
    <3>2. says[i] = "OK"
      BY <1>12, <3>1
    <3>3. c.of = "CGACT" /\ ~unserved
      BY <2>1, CommandsAre DEF Prompted
    <3>4. ~prompting
      BY <1>16, <3>3
    <3>5. says = <<"OK">>
      BY <1>5, <3>2, <3>3, <3>4
    <3> QED
      BY <1>14, <3>3, <3>4, <3>5
  <2>4. step' = step /\ step' \notin {"idle", "flush"}
    BY <1>1, <2>1
  <2> QED
    BY <2>2, <2>3, <2>4 DEF InStep
<1>18. Prompted'
  <2> SUFFICES ASSUME ~late PROVE Prompted'
    BY <1>1 DEF Prompted
  <2>1. /\ \A i \in 1..Len(inbox) : inbox[i].of = "HTTPACTION" => step = "HTTPACTION" /\ i = Len(inbox)
        /\ \A i \in 1..Len(out) : out[i].says # ">"
        /\ ~Prompts(uart)
        /\ unserved => prompting /\ out = << >> /\ uart = << >> /\ step \in {"idle", "AT", "AT2"}
    BY <1>1 DEF Prompted
  <2>2. \A i \in 1..Len(inbox') :
          inbox'[i].of = "HTTPACTION" => step' = "HTTPACTION" /\ i = Len(inbox')
    <3> SUFFICES ASSUME NEW i \in 1..Len(inbox'), inbox'[i].of = "HTTPACTION"
                 PROVE  step' = "HTTPACTION" /\ i = Len(inbox')
      OBVIOUS
    <3>1. i + 1 \in 1..Len(inbox) /\ inbox[i + 1].of = "HTTPACTION"
      BY <1>3
    <3>2. step = "HTTPACTION" /\ i + 1 = Len(inbox)
      BY <2>1, <3>1
    <3>3. step' = step
      BY <1>1
    <3>4. i = Len(inbox) - 1
      BY <1>3, <3>2
    <3> QED
      BY <1>3, <3>2, <3>3, <3>4
  <2>3. says = <<">">> => step' = "HTTPACTION" /\ inbox' = << >> /\ Len(says) = 1
    <3> SUFFICES ASSUME says = <<">">> PROVE step' = "HTTPACTION" /\ inbox' = << >> /\ Len(says) = 1
      OBVIOUS
    <3>1. inbox[1].of = "HTTPACTION" /\ 1 \in 1..Len(inbox) /\ Len(says) = 1
      BY <1>3, <1>5
    <3> QED
      BY <1>1, <1>3, <2>1, <3>1
  <2>4. ASSUME NEW k \in 1..Len(out'), out'[k].says = ">"
        PROVE  step' = "HTTPACTION" /\ k = Len(out') /\ inbox' = << >>
    <3>1. PICK i \in 1..Len(says) : k = Len(out) + i
      BY <1>11, <1>13, <2>1, <2>4
    <3>2. says = <<">">>
      BY <1>5, <1>12, <2>4, <3>1
    <3> QED
      BY <1>11, <2>3, <3>1, <3>2
  <2>5. ~Prompts(uart)'
    BY <1>1, <2>1 DEF Prompts
  <2>6. ASSUME prompting', ~unserved'
        PROVE  step' = "HTTPACTION" /\ inbox' = << >> /\ Prompts(out)'
    <3>1. says = <<">">> /\ Len(says) = 1
      BY <1>1, <1>14, <1>16, <2>3, <2>6
    <3>2. 1 \in 1..Len(says) /\ says[1] = ">"
      BY <3>1
    <3>3. Len(out) + 1 \in 1..Len(out') /\ out'[Len(out) + 1].says = ">"
      BY <1>11, <1>12, <3>1, <3>2
    <3> QED
      BY <2>3, <3>1, <3>3 DEF Prompts
  <2>7. unserved' => prompting' /\ out' = << >> /\ uart' = << >> /\ step' \in {"idle", "AT", "AT2"}
    <3> SUFFICES ASSUME unserved'
                 PROVE  prompting' /\ out' = << >> /\ uart' = << >> /\ step' \in {"idle", "AT", "AT2"}
      OBVIOUS
    <3>1. unserved /\ prompting /\ prompting'
      BY <1>1, <2>1
    <3>2. says = << >>
      BY <1>5, <1>14, <3>1
    <3>3. Len(out) = 0 /\ Len(says) = 0
      BY <2>1, <3>1, <3>2
    <3>4. out' = << >>
      BY <1>11, <3>3, EmptySeq
    <3> QED
      BY <1>1, <2>1, <3>1, <3>4
  <2> QED
    BY <2>2, <2>4, <2>5, <2>6, <2>7 DEF Prompted
<1>19. Synchronous'
  <2> SUFFICES ASSUME synced PROVE Synchronous'
    BY <1>1 DEF Synchronous
  <2>1. ~stale /\ step \in Http \cup {"response"}
    BY <1>1 DEF Synchronous, Quiet
  <2>2. CASE step \in Http
    <3>1. Len(inbox) = 1 /\ c.of = step /\ c.fresh /\ out = << >> /\ uart = << >>
      BY <1>1, <1>3, <2>2 DEF Synchronous
    <3>2. inbox' = << >> /\ uart' = << >> /\ Len(uart') = 0 /\ Len(out) = 0 /\ Len(out') = Len(says)
      BY <1>1, <1>3, <1>7, <1>11, <3>1
    <3>3. ASSUME NEW k \in 1..Len(out')
          PROVE  out'[k].fresh /\ (out'[k].says = Wanted[step'] => k = Len(out'))
      <4>1. k \in 1..Len(says) /\ Len(out) + k = k
        BY <1>7, <3>2
      <4>2. out'[k].fresh /\ out'[k].says = says[k]
        BY <1>12, <3>1, <4>1
      <4> QED
        BY <1>1, <1>5, <2>2, <3>1, <3>2, <4>1, <4>2
    <3>4. step' \in Http /\ step' \notin {"idle", "flush"} /\ ~stale'
      BY <1>1, <2>1, <2>2 DEF Http
    <3> QED
      BY <3>2, <3>3, <3>4 DEF Synchronous
  <2>3. CASE step = "response"
    BY <1>1, <2>1, <2>3 DEF Synchronous, Http
  <2> QED
    BY <2>1, <2>2, <2>3
<1> QED
  BY <1>15, <1>16, <1>17, <1>18, <1>19 DEF c

\* What a delivery finds under way.
LEMMA OutIs ==
  ASSUME Dialogue, out # << >>
  PROVE  /\ Len(out) \in Nat \ {0} /\ out[1] = Head(out)
         /\ ~late => /\ ~Prompts(uart)
                     /\ \A i \in 1..Len(out) :
                          out[i].says = ">" => step = "HTTPACTION" /\ i = Len(out) /\ inbox = << >>
                     /\ prompting /\ step = "HTTPACTION" => Prompts(out)
                     /\ ~unserved
         /\ ~late /\ ~cut =>
              /\ inbox = << >> /\ uart = << >> /\ step \notin {"idle", "flush"}
              /\ step = "CGACT" => \A i \in 1..Len(out) : out[i].says = "OK" => active
         /\ synced => /\ ~stale /\ step \in Http \cup {"response"}
                      /\ step \in Http =>
                           /\ inbox = << >>
                           /\ \A i \in 1..Len(uart) : uart[i].fresh /\ uart[i].says # Wanted[step]
                           /\ \A i \in 1..Len(out) :
                                out[i].fresh /\ (out[i].says = Wanted[step] => i = Len(out))
<1> USE DEF Dialogue
<1>1. Len(out) \in Nat \ {0} /\ out[1] = Head(out)
  BY DEF LinesTyped
<1>2. ASSUME ~late
      PROVE  /\ ~Prompts(uart)
             /\ \A i \in 1..Len(out) :
                  out[i].says = ">" => step = "HTTPACTION" /\ i = Len(out) /\ inbox = << >>
             /\ prompting /\ step = "HTTPACTION" => Prompts(out)
             /\ ~unserved
  BY <1>2, CommandsAre DEF Prompted
<1>3. ASSUME ~late, ~cut
      PROVE  /\ inbox = << >> /\ uart = << >> /\ step \notin {"idle", "flush"}
             /\ step = "CGACT" => \A i \in 1..Len(out) : out[i].says = "OK" => active
  BY <1>3 DEF InStep, Quiet
<1>4. ASSUME synced
      PROVE  /\ ~stale /\ step \in Http \cup {"response"}
             /\ step \in Http =>
                  /\ inbox = << >>
                  /\ \A i \in 1..Len(uart) : uart[i].fresh /\ uart[i].says # Wanted[step]
                  /\ \A i \in 1..Len(out) :
                       out[i].fresh /\ (out[i].says = Wanted[step] => i = Len(out))
  <2>1. ~stale /\ step \in Http \cup {"response"}
    BY <1>4 DEF Synchronous, Quiet
  <2>2. ASSUME step \in Http
        PROVE  /\ inbox = << >>
               /\ \A i \in 1..Len(uart) : uart[i].fresh /\ uart[i].says # Wanted[step]
               /\ \A i \in 1..Len(out) :
                    out[i].fresh /\ (out[i].says = Wanted[step] => i = Len(out))
    BY <1>4, <2>2 DEF Synchronous
  <2> QED
    BY <2>1, <2>2
<1> QED
  BY <1>1, <1>2, <1>3, <1>4

\* What a delivery has to keep, for the invariant to hold after it.
LEMMA Delivered ==
  ASSUME Dialogue, out # << >>, LinesTyped',
         UNCHANGED <<inbox, prompting, active, unserved, callerVars>>,
         ~late => \A i \in 1..Len(out') : out'[i].says = ">" => i = Len(out') /\ Prompts(out),
         ~late /\ Prompts(uart)' => Prompts(out) /\ out' = << >>,
         ~late /\ Prompts(out) => Prompts(out)' \/ Prompts(uart)',
         synced /\ step \in Http =>
           /\ \A i \in 1..Len(out') : out'[i].fresh /\ (out'[i].says = Wanted[step] => i = Len(out'))
           /\ \A i \in 1..Len(uart') :
                uart'[i].fresh /\ (uart'[i].says = Wanted[step] => i = Len(uart') /\ out' = << >>)
  PROVE  LinesTyped' /\ CallerTyped' /\ Prompted' /\ Synchronous'
<1>1. UNCHANGED <<step, returned, tries, stale, synced, late, inbox, prompting, active, unserved>>
  BY DEF callerVars
<1>2. CallerTyped'
  BY <1>1 DEF Dialogue, CallerTyped
<1>3. Prompted'
  <2> SUFFICES ASSUME ~late PROVE Prompted'
    BY <1>1 DEF Prompted
  <2>1. /\ \A i \in 1..Len(inbox) : inbox[i].of = "HTTPACTION" => step = "HTTPACTION" /\ i = Len(inbox)
        /\ prompting =>
             \/ step = "HTTPACTION" /\ inbox = << >> /\ (Prompts(out) \/ Prompts(uart))
             \/ step = "flush" /\ inbox = << >>
             \/ step = "response" /\ Len(inbox) = 1 /\ inbox[1].of = "data"
        /\ ~unserved
    BY OutIs DEF Dialogue, Prompted
  <2>2. ~Prompts(uart) /\ (Prompts(out) => step = "HTTPACTION" /\ inbox = << >>)
    BY OutIs DEF Prompts
  <2>3. \A i \in 1..Len(out') :
          out'[i].says = ">" => step' = "HTTPACTION" /\ i = Len(out') /\ inbox' = << >>
    BY <1>1, <2>2
  <2>4. Prompts(uart)' => step' = "HTTPACTION" /\ inbox' = << >> /\ out' = << >>
    BY <1>1, <2>2
  <2>5. prompting' =>
          \/ step' = "HTTPACTION" /\ inbox' = << >> /\ (Prompts(out)' \/ Prompts(uart)')
          \/ step' = "flush" /\ inbox' = << >>
          \/ step' = "response" /\ Len(inbox') = 1 /\ inbox'[1].of = "data"
    BY <1>1, <2>1, <2>2
  <2>7. ~unserved'
    BY <1>1, <2>1
  <2>6. \A i \in 1..Len(inbox') :
          inbox'[i].of = "HTTPACTION" => step' = "HTTPACTION" /\ i = Len(inbox')
    BY <1>1, <2>1
  <2> QED
    BY <2>3, <2>4, <2>5, <2>6, <2>7 DEF Prompted
<1>4. Synchronous'
  <2> SUFFICES ASSUME synced PROVE Synchronous'
    BY <1>1 DEF Synchronous
  <2>1. ~stale /\ step \in Http \cup {"response"} /\ (step \in Http => inbox = << >>)
    BY OutIs
  <2>2. step' \notin {"idle", "flush"} /\ step' \in Http \cup {"response"} /\ ~stale'
        /\ (step' \in Http => inbox' = << >>)
    BY <1>1, <2>1 DEF Http
  <2>3. step' \in Http =>
          /\ \A i \in 1..Len(out') :
               out'[i].fresh /\ (out'[i].says = Wanted[step'] => i = Len(out'))
          /\ \A i \in 1..Len(uart') :
               uart'[i].fresh /\ (uart'[i].says = Wanted[step'] => i = Len(uart') /\ out' = << >>)
    BY <1>1
  <2> QED
    BY <2>2, <2>3 DEF Synchronous
<1> QED
  BY <1>2, <1>3, <1>4

LEMMA DeliverStep ==
  ASSUME Dialogue, Deliver
  PROVE  Dialogue'
<1>1. /\ out # << >> /\ uart' = uart \o out /\ out' = << >>
      /\ UNCHANGED <<inbox, prompting, active, cut, unserved, callerVars>>
  BY DEF Deliver
<1>2. UNCHANGED <<step, late>>
  BY <1>1 DEF callerVars
<1>3. /\ out \in Seq(Line) /\ uart \in Seq(Line) /\ Len(out) \in Nat /\ Len(uart) \in Nat
      /\ prompting \in BOOLEAN /\ active \in BOOLEAN /\ cut \in BOOLEAN /\ inbox \in Seq(Entry)
      /\ unserved \in BOOLEAN
  BY DEF Dialogue, LinesTyped
<1>4. /\ uart' \in Seq(Line) /\ Len(uart') = Len(uart) + Len(out)
      /\ \A i \in 1..Len(uart) : uart'[i] = uart[i]
      /\ \A i \in 1..Len(out) : uart'[Len(uart) + i] = out[i]
  BY <1>1, <1>3, ConcatProperties
<1>5. \A k \in 1..Len(uart') : k \in 1..Len(uart) \/ \E i \in 1..Len(out) : k = Len(uart) + i
  <2> SUFFICES ASSUME NEW k \in 1..Len(uart'), k \notin 1..Len(uart)
               PROVE  \E i \in 1..Len(out) : k = Len(uart) + i
    OBVIOUS
  <2>1. k - Len(uart) \in 1..Len(out) /\ k = Len(uart) + (k - Len(uart))
    BY <1>3, <1>4
  <2> QED
    BY <2>1
<1>6. out' \in Seq(Line) /\ Len(out') = 0
  BY <1>1
<1>7. LinesTyped'
  BY <1>1, <1>3, <1>4, <1>6 DEF LinesTyped
<1>8. ~late /\ Prompts(uart)' => Prompts(out)
  <2> SUFFICES ASSUME ~late, NEW k \in 1..Len(uart'), uart'[k].says = ">"
               PROVE  Prompts(out)
    BY DEF Prompts
  <2>1. k \notin 1..Len(uart)
    BY <1>1, <1>4, OutIs DEF Prompts
  <2>2. PICK i \in 1..Len(out) : k = Len(uart) + i
    BY <1>5, <2>1
  <2>3. out[i].says = ">"
    BY <1>4, <2>2
  <2> QED
    BY <2>3 DEF Prompts
<1>9. Prompts(out) => Prompts(uart)'
  <2> SUFFICES ASSUME NEW i \in 1..Len(out), out[i].says = ">" PROVE Prompts(uart)'
    BY DEF Prompts
  <2>1. Len(uart) + i \in 1..Len(uart') /\ uart'[Len(uart) + i].says = ">"
    BY <1>3, <1>4
  <2> QED
    BY <2>1 DEF Prompts
<1>10. ASSUME synced, step \in Http, NEW k \in 1..Len(uart')
       PROVE  uart'[k].fresh /\ (uart'[k].says = Wanted[step] => k = Len(uart'))
  <2>1. CASE k \in 1..Len(uart)
    <3>1. uart[k].fresh /\ uart[k].says # Wanted[step]
      BY <1>1, <1>10, <2>1, OutIs
    <3> QED
      BY <1>4, <2>1, <3>1
  <2>2. CASE k \notin 1..Len(uart)
    <3>1. PICK i \in 1..Len(out) : k = Len(uart) + i
      BY <1>5, <2>2
    <3>2. out[i].fresh /\ (out[i].says = Wanted[step] => i = Len(out))
      BY <1>1, <1>10, OutIs
    <3> QED
      BY <1>4, <3>1, <3>2
  <2> QED
    BY <2>1, <2>2
<1>11. LinesTyped' /\ CallerTyped' /\ Prompted' /\ Synchronous'
  BY <1>1, <1>6, <1>7, <1>8, <1>9, <1>10, Delivered
<1>12. InStep'
  <2> SUFFICES ASSUME ~cut, ~late PROVE InStep'
    BY <1>1, <1>2 DEF InStep
  <2>1. /\ inbox = << >> /\ Len(uart) = 0 /\ step \notin {"idle", "flush"}
        /\ step = "CGACT" => \A i \in 1..Len(out) : out[i].says = "OK" => active
    BY <1>1, OutIs
  <2>2. inbox' = << >> /\ Len(inbox') = 0 /\ step' = step /\ (active' <=> active)
    BY <1>1, <1>2, <2>1
  <2>3. step = "CGACT" => \A i \in 1..Len(uart') : uart'[i].says = "OK" => active
    BY <1>3, <1>4, <2>1
  <2>4. step' = "CGACT" => \A i \in 1..Len(uart') : uart'[i].says = "OK" => active'
    BY <2>2, <2>3
  <2>5. step' \notin {"idle", "flush"}
    BY <2>1, <2>2
  <2> QED
    BY <1>1, <1>6, <2>2, <2>4, <2>5 DEF InStep
<1> QED
  BY <1>11, <1>12 DEF Dialogue

LEMMA DeliverLineStep ==
  ASSUME Dialogue, DeliverLine
  PROVE  Dialogue'
<1>1. /\ Len(out) > 1 /\ uart' = Append(uart, Head(out)) /\ out' = Tail(out) /\ cut'
      /\ UNCHANGED <<inbox, prompting, active, unserved, callerVars>>
  BY DEF DeliverLine
<1>2. /\ out \in Seq(Line) /\ uart \in Seq(Line) /\ Len(out) \in Nat /\ Len(uart) \in Nat
      /\ prompting \in BOOLEAN /\ active \in BOOLEAN /\ unserved \in BOOLEAN /\ inbox \in Seq(Entry)
  BY DEF Dialogue, LinesTyped
<1>3. out # << >> /\ Head(out) = out[1] /\ out[1] \in Line
  BY <1>1, <1>2
<1>4. /\ uart' \in Seq(Line) /\ Len(uart') = Len(uart) + 1
      /\ \A i \in 1..Len(uart) : uart'[i] = uart[i]
      /\ uart'[Len(uart) + 1] = out[1]
  BY <1>1, <1>2, <1>3
<1>5. /\ out' \in Seq(Line) /\ Len(out') = Len(out) - 1
      /\ \A i \in 1..Len(out') : out'[i] = out[i + 1]
  BY <1>1, <1>2, <1>3
<1>6. cut' \in BOOLEAN
  BY DEF DeliverLine
<1>7. LinesTyped'
  BY <1>1, <1>2, <1>4, <1>5, <1>6 DEF LinesTyped
<1>8. ASSUME ~late, NEW i \in 1..Len(out), out[i].says = ">"
      PROVE  i = Len(out)
  BY <1>3, <1>8, OutIs
<1>9. ~late => out[1].says # ">"
  BY <1>1, <1>2, <1>8
<1>10. ASSUME ~late, NEW i \in 1..Len(out'), out'[i].says = ">"
       PROVE  i = Len(out') /\ Prompts(out)
  <2>1. i + 1 \in 1..Len(out) /\ out[i + 1].says = ">"
    BY <1>2, <1>5, <1>10
  <2>2. i + 1 = Len(out)
    BY <1>8, <1>10, <2>1
  <2>3. i = Len(out) - 1
    BY <1>2, <2>2
  <2> QED
    BY <1>5, <2>1, <2>3 DEF Prompts
<1>11. ~late => ~Prompts(uart)'
  <2> SUFFICES ASSUME ~late, NEW k \in 1..Len(uart'), uart'[k].says = ">"
               PROVE  FALSE
    BY DEF Prompts
  <2>1. k \notin 1..Len(uart)
    BY <1>3, <1>4, OutIs DEF Prompts
  <2>2. k = Len(uart) + 1
    BY <1>2, <1>4, <2>1
  <2> QED
    BY <1>4, <1>9, <2>2
<1>12. ~late /\ Prompts(out) => Prompts(out)'
  <2> SUFFICES ASSUME ~late, NEW i \in 1..Len(out), out[i].says = ">" PROVE Prompts(out)'
    BY DEF Prompts
  <2>1. i = Len(out)
    BY <1>8
  <2>2. i - 1 \in 1..Len(out') /\ out'[i - 1] = out[i]
    BY <1>1, <1>2, <1>5, <2>1
  <2> QED
    BY <2>2 DEF Prompts
<1>13. ASSUME synced, step \in Http
       PROVE  /\ \A i \in 1..Len(out) :
                   out[i].fresh /\ (out[i].says = Wanted[step] => i = Len(out))
              /\ \A i \in 1..Len(uart) : uart[i].fresh /\ uart[i].says # Wanted[step]
  BY <1>3, <1>13, OutIs
<1>14. ASSUME synced, step \in Http, NEW i \in 1..Len(out')
       PROVE  out'[i].fresh /\ (out'[i].says = Wanted[step] => i = Len(out'))
  <2>1. i + 1 \in 1..Len(out)
    BY <1>2, <1>5
  <2>2. out[i + 1].fresh /\ (out[i + 1].says = Wanted[step] => i + 1 = Len(out))
    BY <1>13, <1>14, <2>1
  <2>3. i + 1 = Len(out) => i = Len(out')
    BY <1>2, <1>5
  <2> QED
    BY <1>5, <2>2, <2>3
<1>15. ASSUME synced, step \in Http, NEW k \in 1..Len(uart')
       PROVE  uart'[k].fresh /\ uart'[k].says # Wanted[step]
  <2>1. out[1].fresh /\ out[1].says # Wanted[step]
    BY <1>1, <1>2, <1>13, <1>15
  <2>2. k \in 1..Len(uart) \/ k = Len(uart) + 1
    BY <1>2, <1>4
  <2> QED
    BY <1>4, <1>13, <1>15, <2>1, <2>2
<1>16. LinesTyped' /\ CallerTyped' /\ Prompted' /\ Synchronous'
  BY <1>1, <1>3, <1>7, <1>10, <1>11, <1>12, <1>14, <1>15, Delivered
<1>17. InStep'
  BY <1>1 DEF InStep
<1> QED
  BY <1>16, <1>17 DEF Dialogue

LEMMA DeliverTornStep ==
  ASSUME Dialogue, DeliverTorn
  PROVE  Dialogue'
<1> DEFINE torn == [Head(out) EXCEPT !.says = "torn"]
<1>1. /\ out # << >> /\ Head(out).says # ">"
      /\ uart' = Append(uart, torn) /\ out' = <<torn>> \o Tail(out) /\ cut'
      /\ UNCHANGED <<inbox, prompting, active, unserved, callerVars>>
  BY DEF DeliverTorn
<1>2. /\ out \in Seq(Line) /\ uart \in Seq(Line) /\ Len(out) \in Nat /\ Len(uart) \in Nat
      /\ prompting \in BOOLEAN /\ active \in BOOLEAN /\ unserved \in BOOLEAN /\ inbox \in Seq(Entry)
  BY DEF Dialogue, LinesTyped
<1>3. Head(out) = out[1] /\ out[1] \in Line /\ Len(out) >= 1
  BY <1>1, <1>2
<1>4. torn \in Line /\ torn.says = "torn" /\ (torn.fresh <=> out[1].fresh)
  <2>1. "torn" \in Says
    BY DEF Says
  <2>2. torn = [says |-> "torn", fresh |-> out[1].fresh]
    BY <1>3 DEF Line
  <2> HIDE DEF torn
  <2> QED
    BY <1>3, <2>1, <2>2 DEF Line
<1> HIDE DEF torn
<1>5. /\ uart' \in Seq(Line) /\ Len(uart') = Len(uart) + 1
      /\ \A i \in 1..Len(uart) : uart'[i] = uart[i]
      /\ uart'[Len(uart) + 1] = torn
  BY <1>1, <1>2, <1>4
<1>6. /\ Tail(out) \in Seq(Line) /\ Len(Tail(out)) = Len(out) - 1
      /\ \A i \in 1..Len(Tail(out)) : Tail(out)[i] = out[i + 1]
  BY <1>1, <1>2
<1>7. <<torn>> \in Seq(Line) /\ Len(<<torn>>) = 1 /\ <<torn>>[1] = torn
  BY <1>4
<1>8. /\ out' \in Seq(Line) /\ Len(out') = Len(out) /\ out'[1] = torn
      /\ \A i \in 2..Len(out) : out'[i] = out[i]
  <2>1. out' \in Seq(Line) /\ Len(out') = 1 + (Len(out) - 1)
    BY <1>1, <1>6, <1>7, ConcatProperties
  <2>2. out'[1] = torn
    BY <1>1, <1>6, <1>7, ConcatProperties
  <2>3. ASSUME NEW i \in 2..Len(out) PROVE out'[i] = out[i]
    <3>1. i - 1 \in 1..Len(Tail(out)) /\ i = 1 + (i - 1) /\ (i - 1) + 1 = i
      BY <1>2, <1>6
    <3>2. out'[1 + (i - 1)] = Tail(out)[i - 1]
      BY <1>1, <1>6, <1>7, <3>1, ConcatProperties
    <3> QED
      BY <1>6, <3>1, <3>2
  <2> QED
    BY <1>2, <2>1, <2>2, <2>3
<1>9. cut' \in BOOLEAN
  BY DEF DeliverTorn
<1>10. LinesTyped'
  BY <1>1, <1>2, <1>5, <1>8, <1>9 DEF LinesTyped
<1>11. ASSUME NEW i \in 1..Len(out'), out'[i].says # "torn"
       PROVE  i \in 1..Len(out) /\ out'[i] = out[i]
  BY <1>2, <1>4, <1>8, <1>11
<1>12. ASSUME NEW k \in 1..Len(uart'), uart'[k].says # "torn"
       PROVE  k \in 1..Len(uart) /\ uart'[k] = uart[k]
  BY <1>2, <1>4, <1>5, <1>12
<1>13. ASSUME ~late, NEW i \in 1..Len(out'), out'[i].says = ">"
       PROVE  i = Len(out') /\ Prompts(out)
  <2>1. i \in 1..Len(out) /\ out[i].says = ">"
    BY <1>11, <1>13
  <2>2. i = Len(out)
    BY <1>1, <1>13, <2>1, OutIs
  <2> QED
    BY <1>8, <2>1, <2>2 DEF Prompts
<1>14. ~late => ~Prompts(uart)'
  <2> SUFFICES ASSUME ~late, NEW k \in 1..Len(uart'), uart'[k].says = ">"
               PROVE  FALSE
    BY DEF Prompts
  <2>1. k \in 1..Len(uart) /\ uart[k].says = ">"
    BY <1>12
  <2> QED
    BY <1>1, <2>1, OutIs DEF Prompts
<1>15. Prompts(out) => Prompts(out)'
  <2> SUFFICES ASSUME NEW i \in 1..Len(out), out[i].says = ">" PROVE Prompts(out)'
    BY DEF Prompts
  <2>1. i \in 2..Len(out)
    BY <1>1, <1>2, <1>3
  <2> QED
    BY <1>8, <2>1 DEF Prompts
<1>16. ASSUME synced, step \in Http
       PROVE  /\ \A i \in 1..Len(out) :
                   out[i].fresh /\ (out[i].says = Wanted[step] => i = Len(out))
              /\ \A i \in 1..Len(uart) : uart[i].fresh /\ uart[i].says # Wanted[step]
              /\ Wanted[step] # "torn"
  <2>1. Wanted[step] # "torn"
    BY <1>16, WantedIs DEF Http
  <2> QED
    BY <1>1, <1>16, <2>1, OutIs
<1>17. ASSUME synced, step \in Http, NEW i \in 1..Len(out')
       PROVE  out'[i].fresh /\ (out'[i].says = Wanted[step] => i = Len(out'))
  <2>1. CASE i = 1
    BY <1>3, <1>4, <1>8, <1>16, <1>17, <2>1
  <2>2. CASE i # 1
    <3>1. i \in 2..Len(out)
      BY <1>2, <1>8, <2>2
    <3> QED
      BY <1>8, <1>16, <1>17, <3>1
  <2> QED
    BY <2>1, <2>2
<1>18. ASSUME synced, step \in Http, NEW k \in 1..Len(uart')
       PROVE  uart'[k].fresh /\ uart'[k].says # Wanted[step]
  <2>1. k \in 1..Len(uart) \/ k = Len(uart) + 1
    BY <1>2, <1>5
  <2>2. 1 \in 1..Len(out)
    BY <1>2, <1>3
  <2> QED
    BY <1>4, <1>5, <1>16, <1>18, <2>1, <2>2
<1>19. LinesTyped' /\ CallerTyped' /\ Prompted' /\ Synchronous'
  BY <1>1, <1>10, <1>13, <1>14, <1>15, <1>17, <1>18, Delivered
<1>20. InStep'
  BY <1>1 DEF InStep
<1> QED
  BY <1>19, <1>20 DEF Dialogue

LEMMA ModemDialogue ==
  ASSUME Dialogue, Modem
  PROVE  /\ Dialogue' /\ UNCHANGED callerVars
         /\ (active => active') /\ (cut => cut') /\ (unserved' => unserved)
<1>1. Dialogue'
  BY ExecuteStep, DeliverStep, DeliverLineStep, DeliverTornStep DEF Modem
<1>2. UNCHANGED callerVars
  BY DEF Modem, Execute, Deliver, DeliverLine, DeliverTorn
<1>3. active => active'
  BY DEF Modem, Execute, Deliver, DeliverLine, DeliverTorn
<1>4. cut => cut'
  BY DEF Modem, Execute, Deliver, DeliverLine, DeliverTorn
<1>5. unserved' => unserved
  BY DEF Modem, Execute, Deliver, DeliverLine, DeliverTorn
<1> QED
  BY <1>1, <1>2, <1>3, <1>4, <1>5

\* A restart leaves nothing under way, or is observed as a late answer.
LEMMA RestartDialogue ==
  ASSUME Dialogue, GSMRestart
  PROVE  Dialogue' /\ step' = "idle" /\ returned' = FALSE
<1> USE DEF Dialogue
<1>1. /\ step' = "idle" /\ returned' = FALSE /\ tries' = 0 /\ uart' = << >> /\ stale' = FALSE
      /\ synced' = FALSE /\ cut' = FALSE
      /\ (late' <=> inbox' # << >> \/ out' # << >>) /\ late' \in BOOLEAN
      /\ unserved' = prompting'
  BY DEF GSMRestart, Pending
<1>2. inbox \in Seq(Entry) /\ out \in Seq(Line) /\ Len(out) \in Nat /\ uart' \in Seq(Line)
  BY <1>1 DEF LinesTyped
<1>3. /\ inbox' \in Seq(Entry) /\ out' \in Seq(Line)
      /\ prompting' \in BOOLEAN /\ active' \in BOOLEAN
  <2>1. CASE ModemLosesPower
    <3>1. inbox' = << >> /\ out' = << >> /\ prompting' = FALSE /\ active' = FALSE
      BY <2>1 DEF ModemLosesPower
    <3>2. << >> \in Seq(Entry) /\ << >> \in Seq(Line)
      OBVIOUS
    <3> QED
      BY <3>1, <3>2
  <2>2. CASE ModemGoesOn
    <3>1. Older(inbox) \in Seq(Entry)
      BY <1>2, OlderTyped
    <3>2. inbox # << >> => Older(Front(inbox)) \in Seq(Entry)
      <4> SUFFICES ASSUME inbox # << >> PROVE Older(Front(inbox)) \in Seq(Entry)
        OBVIOUS
      <4>1. Front(inbox) \in Seq(Entry)
        BY <1>2, FrontIs
      <4> QED
        BY <4>1, OlderTyped
    <3>3. inbox' \in Seq(Entry)
      BY <2>2, <3>1, <3>2 DEF ModemGoesOn
    <3>4. PICK i \in 0..Len(out) : out' = Older(SubSeq(out, i + 1, Len(out)))
      BY <2>2 DEF ModemGoesOn
    <3>5. \A k \in (i + 1)..Len(out) : out[k] \in Line
      BY <1>2
    <3>6. SubSeq(out, i + 1, Len(out)) \in Seq(Line)
      BY <1>2, <3>5, SubSeqProperties
    <3>7. out' \in Seq(Line)
      BY <3>4, <3>6, OlderTyped
    <3> QED
      BY <2>2, <3>3, <3>7 DEF ModemGoesOn, LinesTyped
  <2> QED
    BY <2>1, <2>2 DEF GSMRestart
<1>4. LinesTyped' /\ CallerTyped'
  <2>1. 0 \in 0..Tries /\ "idle" \in Steps
    BY TriesAssumption DEF Steps
  <2> QED
    BY <1>1, <1>2, <1>3, <2>1 DEF LinesTyped, CallerTyped
<1>5. InStep' /\ Prompted' /\ Synchronous'
  <2>1. Len(uart') = 0 /\ step' \notin Commands /\ step' # "CGACT" /\ ~synced'
    BY <1>1, CommandsAre
  <2>2. ~late' => inbox' = << >> /\ out' = << >> /\ Len(inbox') = 0 /\ Len(out') = 0
    BY <1>1
  <2> QED
    BY <1>1, <2>1, <2>2 DEF InStep, Quiet, Prompted, Prompts, Synchronous
<1> QED
  BY <1>1, <1>4, <1>5

LEMMA UnchangedDialogue ==
  ASSUME Dialogue, UNCHANGED modemVars
  PROVE  Dialogue'
<1>1. UNCHANGED <<step, returned, tries, inbox, out, uart, prompting, active, cut, unserved, stale, synced, late>>
  BY DEF modemVars, lineVars
<1>2. LinesTyped' /\ CallerTyped'
  BY <1>1 DEF Dialogue, LinesTyped, CallerTyped
<1>3. InStep' /\ Prompted' /\ Synchronous'
  BY <1>1 DEF Dialogue, InStep, Prompted, Prompts, Synchronous, Quiet
<1> QED
  BY <1>2, <1>3 DEF Dialogue

-----------------------------------------------------------------------------
(***************************************************************************)
(* setup                                                                   *)
(***************************************************************************)
SetupTyped ==
  /\ mode \in Modes /\ where \in {"call", "wifi", "gsm", "done"} /\ round \in 1..Rounds
  /\ asked \in BOOLEAN /\ wifi \in BOOLEAN /\ again \in BOOLEAN
  /\ uploader \in {"none", "ServerComOverWifi", "ServerComOverGSM"}

LEMMA TypeParts == TypeOK <=> LinesTyped /\ CallerTyped /\ SetupTyped
BY GSMParts DEF TypeOK, SetupTyped

\* That AT+CGACT was accepted, or what else an OK to it can be. A prompt from before a
\* restart is over by then.
Accepted == late \/ (~unserved /\ (active \/ cut))

\* Where setup is tells which commands are sent; GSM is found, and its uploading task
\* created, after AT+CGACT was accepted.
Started ==
  /\ where \in {"call", "wifi"} => step = "idle"
  /\ where = "gsm" => step \in (Commands \ Http) \cup {"idle"}
  /\ where = "gsm" /\ step = "idle" /\ returned => Accepted
  /\ uploader = "ServerComOverGSM" => where = "done" /\ Accepted

LEMMA GotoKeeps ==
  ASSUME LinesTyped, CallerTyped, NEW next \in Nexts, Goto(next)
  PROVE  UNCHANGED <<prompting, active, cut, unserved>>
BY GotoIs, WriteIs DEF Nexts

\* What becomes of setup's wait in a step of the dialogue.
LEMMA CallerProgress ==
  ASSUME Dialogue, Caller
  PROVE  /\ Dialogue' /\ step # "idle" /\ (Accepted => Accepted')
         /\ step \in Commands \ Http =>
              /\ step' \in (Commands \ Http) \cup {"idle"}
              /\ step' = "idle" /\ returned' => Accepted'
<1> USE DEF Dialogue
<1>1. Dialogue'
  BY ReadStep, TimeoutStep, FlushStep, ResponseStep DEF Caller
<1>2. ASSUME NEW f \in BOOLEAN, NEW next \in After(step, f), Goto(next), step \in Commands,
             f /\ step = "CGACT" => Accepted
      PROVE  /\ UNCHANGED <<active, cut, unserved>>
             /\ step \notin Http =>
                  /\ step' \in (Commands \ Http) \cup {"idle"}
                  /\ step' = "idle" /\ returned' => Accepted
  <2>1. /\ next = "true" => (step = "CGACT" /\ f) \/ step \in Http
        /\ step \notin Http => next \in (Commands \ Http) \cup {"true", "false"}
    BY <1>2, AfterIs DEF Nexts, Http
  <2>2. next \in Nexts
    BY <1>2, AfterIs DEF Nexts
  <2>3. UNCHANGED <<active, cut, unserved>>
    BY <1>2, <2>2, GotoKeeps
  <2>4. \/ next \in Commands /\ step' = next
        \/ next = "flush"
        \/ next \in {"true", "false"} /\ step' = "idle" /\ (returned' <=> next = "true")
    BY <1>2, <2>2, GotoIs
  <2>5. {"idle", "flush", "true", "false"} \cap Commands = {}
    BY CommandsAre
  <2>6. ASSUME step \notin Http
        PROVE  /\ step' \in (Commands \ Http) \cup {"idle"}
               /\ step' = "idle" /\ returned' => Accepted
    <3>1. CASE next \in Commands \ Http
      BY <2>4, <2>5, <3>1
    <3>2. CASE next \in {"true", "false"}
      BY <1>2, <2>1, <2>4, <2>5, <2>6, <3>2
    <3> QED
      BY <2>1, <2>6, <3>1, <3>2
  <2> QED
    BY <2>3, <2>6
<1>3. CASE Read
  <2> DEFINE hits == {i \in DOMAIN uart : Found(step, uart[i].says)}
  <2>1. step \in Commands /\ step # "idle" /\ UNCHANGED late
    BY <1>3, CommandsAre DEF Read
  <2>2. CASE hits = {}
    <3>1. UNCHANGED <<step, active, cut, unserved>>
      BY <1>3, <2>2 DEF Read
    <3> QED
      BY <1>1, <2>1, <3>1 DEF Accepted
  <2>3. CASE hits # {}
    <3>1. PICK next \in After(step, TRUE) : Goto(next)
      BY <1>3, <2>3 DEF Read
    <3>2. ASSUME step = "CGACT", ~late PROVE ~unserved /\ (active \/ cut)
      <4>1. PICK i \in DOMAIN uart : Found(step, uart[i].says)
        BY <2>3
      <4>2. i \in 1..Len(uart) /\ uart[i].says = "OK"
        BY <3>2, <4>1, FoundIs DEF LinesTyped
      <4>3. ~unserved
        BY <3>2 DEF Prompted
      <4> QED
        BY <2>1, <3>2, <4>2, <4>3 DEF InStep
    <3>3. step = "CGACT" => Accepted
      BY <3>2 DEF Accepted
    <3>4. /\ UNCHANGED <<active, cut, unserved>>
          /\ step \notin Http =>
               /\ step' \in (Commands \ Http) \cup {"idle"}
               /\ step' = "idle" /\ returned' => Accepted
      BY <1>2, <2>1, <3>1, <3>3
    <3> QED
      BY <1>1, <2>1, <3>4 DEF Accepted
  <2> QED
    BY <2>2, <2>3
<1>4. CASE Timeout
  <2>1. step \in Commands /\ step # "idle" /\ (late => late')
    BY <1>4, CommandsAre DEF Timeout, Over
  <2>2. PICK next \in After(step, FALSE) : Goto(next)
    BY <1>4 DEF Timeout
  <2>3. /\ UNCHANGED <<active, cut, unserved>>
        /\ step \notin Http =>
             /\ step' \in (Commands \ Http) \cup {"idle"}
             /\ step' = "idle" /\ returned' => Accepted
    BY <1>2, <2>1, <2>2
  <2> QED
    BY <1>1, <2>1, <2>3 DEF Accepted
<1>5. CASE Flush
  <2>1. step = "flush" /\ UNCHANGED <<active, cut, unserved, late>>
    BY <1>5 DEF Flush, Write
  <2> QED
    BY <1>1, <2>1, CommandsAre DEF Accepted
<1>6. CASE Response
  <2>1. step = "response" /\ Goto("HTTPCLOSE") /\ (late => late')
    BY <1>6 DEF Response, Over
  <2>2. UNCHANGED <<active, cut, unserved>>
    BY <2>1, GotoKeeps, CommandsAre DEF Nexts
  <2> QED
    BY <1>1, <2>1, <2>2, CommandsAre DEF Accepted
<1> QED
  BY <1>3, <1>4, <1>5, <1>6 DEF Caller

\* InternetConnectivity returns.
LEMMA ReturnStep ==
  ASSUME Dialogue, SetupTyped, Started, NEW r \in {0, 1, 2}, Return(r),
         step = "idle", where # "done", r = 2 => Accepted
  PROVE  Dialogue' /\ SetupTyped' /\ Started'
<1>1. /\ round' = 1 /\ again' = TRUE /\ UNCHANGED <<mode, asked, wifi, modemVars>>
      /\ \/ where' = "call" /\ UNCHANGED uploader
         \/ /\ where' = "done" /\ uploader' \in {"none", "ServerComOverWifi", "ServerComOverGSM"}
            /\ uploader' = "ServerComOverGSM" => r = 2
  <2>1. round' = 1 /\ again' = TRUE /\ UNCHANGED <<mode, asked, wifi, modemVars>>
    BY DEF Return
  <2>2. CASE ~again /\ r # 1
    BY <2>1, <2>2 DEF Return
  <2>3. CASE ~(~again /\ r # 1)
    <3>1. where' = "done" /\ uploader' = CASE ~again -> "ServerComOverWifi"
                                            [] again /\ r = 2 -> "ServerComOverGSM"
                                            [] OTHER -> "none"
      BY <2>3 DEF Return
    <3>2. CASE ~again
      BY <2>1, <3>1, <3>2
    <3>3. CASE again
      BY <2>1, <3>1, <3>3
    <3> QED
      BY <3>2, <3>3 DEF SetupTyped
  <2> QED
    BY <2>2, <2>3
<1>2. Dialogue'
  BY <1>1, UnchangedDialogue
<1>3. UNCHANGED <<step, active, cut, unserved, late>>
  BY <1>1 DEF modemVars, lineVars
<1>4. SetupTyped'
  BY <1>1, RoundsAssumption DEF SetupTyped
<1>5. Started'
  BY <1>1, <1>3 DEF Started, Accepted
<1> QED
  BY <1>2, <1>4, <1>5

LEMMA ConnectToWifiStep ==
  ASSUME Dialogue, SetupTyped, Started, NEW r \in 1..Rounds, ConnectToWifi(r),
         step = "idle", where # "done"
  PROVE  Dialogue' /\ SetupTyped' /\ Started'
<1>1. CASE wifi
  BY <1>1, ReturnStep DEF ConnectToWifi
<1>2. CASE ~wifi
  <2>1. /\ asked' = TRUE /\ where' = "wifi" /\ round' = r
        /\ UNCHANGED <<mode, again, uploader, wifi, modemVars>>
    BY <1>2 DEF ConnectToWifi
  <2>2. Dialogue' /\ UNCHANGED step
    BY <2>1, UnchangedDialogue DEF modemVars
  <2> QED
    BY <2>1, <2>2 DEF SetupTyped, Started
<1> QED
  BY <1>1, <1>2

LEMMA StartCommunicationStep ==
  ASSUME Dialogue, SetupTyped, Started, StartCommunicationOnGSM, where # "done"
  PROVE  Dialogue' /\ SetupTyped' /\ Started'
<1>1. Begin("AT") /\ where' = "gsm" /\ UNCHANGED <<mode, round, asked, again, uploader, wifi>>
  BY DEF StartCommunicationOnGSM
<1>2. Dialogue'
  BY <1>1, BeginStep
<1>3. step' = "AT" /\ "AT" \in Commands \ Http
  BY <1>1, GotoIs, CommandsAre DEF Begin, Dialogue, Nexts, Http
<1> QED
  BY <1>1, <1>2, <1>3 DEF SetupTyped, Started

LEMMA SetupStep ==
  ASSUME Dialogue, SetupTyped, Started,
         Call \/ WifiFound \/ WifiFailed \/ GSMFound \/ GSMFailed
  PROVE  Dialogue' /\ SetupTyped' /\ Started'
<1>1. 1 \in 1..Rounds /\ (round \in 1..Rounds /\ round < Rounds => round + 1 \in 1..Rounds)
  BY RoundsAssumption
<1>2. CASE Call
  <2>1. where = "call" /\ step = "idle"
    BY <1>2 DEF Call, Started
  <2>2. ConnectToWifi(1) \/ StartCommunicationOnGSM \/ Return(0)
    BY <1>2 DEF Call
  <2> QED
    BY <1>1, <2>1, <2>2, ConnectToWifiStep, StartCommunicationStep, ReturnStep
<1>3. CASE WifiFound
  <2>1. where = "wifi" /\ step = "idle" /\ Return(1)
    BY <1>3 DEF WifiFound, Started
  <2> QED
    BY <2>1, ReturnStep
<1>4. CASE WifiFailed
  <2>1. where = "wifi" /\ step = "idle" /\ (Return(0) \/ StartCommunicationOnGSM)
    BY <1>4 DEF WifiFailed, Started
  <2> QED
    BY <2>1, StartCommunicationStep, ReturnStep
<1>5. CASE GSMFound
  <2>1. where = "gsm" /\ step = "idle" /\ Accepted /\ Return(2)
    BY <1>5 DEF GSMFound, Started
  <2> QED
    BY <2>1, ReturnStep
<1>6. CASE GSMFailed
  <2>1. where = "gsm" /\ step = "idle"
    BY <1>6 DEF GSMFailed
  <2>2. Return(0) \/ (round < Rounds /\ ConnectToWifi(round + 1))
    BY <1>6 DEF GSMFailed
  <2>3. round \in 1..Rounds
    BY DEF SetupTyped
  <2> QED
    BY <1>1, <2>1, <2>2, <2>3, ConnectToWifiStep, ReturnStep
<1> QED
  BY <1>2, <1>3, <1>4, <1>5, <1>6

LEMMA Invariant == Spec => [](Dialogue /\ SetupTyped /\ Started)
<1>1. Init => Dialogue /\ SetupTyped /\ Started
  <2> SUFFICES ASSUME Init PROVE Dialogue /\ SetupTyped /\ Started
    OBVIOUS
  <2>1. /\ step = "idle" /\ returned = FALSE /\ tries = 0
        /\ inbox = << >> /\ out = << >> /\ uart = << >>
        /\ prompting = FALSE /\ active = FALSE /\ stale = FALSE /\ synced = FALSE
        /\ cut = FALSE /\ late = FALSE /\ unserved = FALSE
    BY DEF Init, GSMInit
  <2>2. LinesTyped /\ CallerTyped
    <3>1. << >> \in Seq(Entry) /\ << >> \in Seq(Line) /\ 0 \in 0..Tries
      BY TriesAssumption
    <3> QED
      BY <2>1, <3>1 DEF LinesTyped, CallerTyped, Steps
  <2>3. Len(inbox) = 0 /\ Len(out) = 0 /\ Len(uart) = 0 /\ step \notin Commands
    BY <2>1, CommandsAre
  <2>4. InStep /\ Prompted /\ Synchronous
    BY <2>1, <2>3 DEF InStep, Quiet, Prompted, Prompts, Synchronous
  <2>5. SetupTyped /\ Started
    <3>1. /\ mode \in Modes /\ where = "call" /\ round = 1 /\ asked = FALSE /\ wifi = FALSE
          /\ again = FALSE /\ uploader = "none"
      BY DEF Init
    <3>2. 1 \in 1..Rounds
      BY RoundsAssumption
    <3> QED
      BY <2>1, <3>1, <3>2 DEF SetupTyped, Started
  <2> QED
    BY <2>2, <2>4, <2>5 DEF Dialogue
<1>2. Dialogue /\ SetupTyped /\ Started /\ [Next]_vars => (Dialogue /\ SetupTyped /\ Started)'
  <2> SUFFICES ASSUME Dialogue, SetupTyped, Started, [Next]_vars
               PROVE  (Dialogue /\ SetupTyped /\ Started)'
    OBVIOUS
  <2>1. CASE Call \/ WifiFound \/ WifiFailed \/ GSMFound \/ GSMFailed
    BY <2>1, SetupStep
  <2>2. ASSUME UNCHANGED setupVars PROVE UNCHANGED <<mode, where, round, asked, again, uploader>>
    BY <2>2 DEF setupVars
  <2>3. CASE Caller /\ UNCHANGED <<setupVars, wifi>>
    <3>1. UNCHANGED <<mode, where, round, asked, again, uploader, wifi>>
      BY <2>2, <2>3
    <3>2. /\ Dialogue' /\ step # "idle" /\ (Accepted => Accepted')
          /\ step \in Commands \ Http =>
               /\ step' \in (Commands \ Http) \cup {"idle"}
               /\ step' = "idle" /\ returned' => Accepted'
      BY <2>3, CallerProgress
    <3>3. SetupTyped'
      BY <3>1 DEF SetupTyped
    <3>4. Started'
      BY <3>1, <3>2 DEF Started
    <3> QED
      BY <3>2, <3>3, <3>4
  <2>4. CASE DataSendToServerOverGSM
    <3>1. /\ uploader = "ServerComOverGSM" /\ Begin("HTTPPARA") /\ UNCHANGED <<setupVars, wifi>>
      BY <2>4 DEF DataSendToServerOverGSM
    <3>2. UNCHANGED <<mode, where, round, asked, again, uploader, wifi>>
      BY <2>2, <3>1
    <3>3. Dialogue' /\ where = "done" /\ Accepted
      <4>1. where = "done" /\ Accepted
        BY <3>1 DEF Started
      <4> QED
        BY <3>1, <4>1, BeginStep DEF Accepted
    <3>4. UNCHANGED <<active, cut, unserved, late>>
      BY <3>1, GotoKeeps, CommandsAre DEF Begin, Dialogue, Nexts
    <3>5. Accepted'
      BY <3>3, <3>4 DEF Accepted
    <3>6. SetupTyped' /\ Started'
      BY <3>2, <3>3, <3>5 DEF SetupTyped, Started
    <3> QED
      BY <3>3, <3>6
  <2>5. CASE WifiChanges
    <3>1. wifi' = ~wifi /\ UNCHANGED <<modemVars, setupVars>>
      BY <2>5 DEF WifiChanges
    <3>2. Dialogue' /\ UNCHANGED <<step, returned, active, cut, unserved, late>>
      BY <3>1, UnchangedDialogue DEF modemVars, lineVars
    <3>3. SetupTyped' /\ Started'
      BY <2>2, <3>1, <3>2 DEF SetupTyped, Started, Accepted
    <3> QED
      BY <3>2, <3>3
  <2>6. CASE ModemStep
    <3>1. Modem /\ UNCHANGED <<setupVars, wifi>>
      BY <2>6 DEF ModemStep
    <3>2. UNCHANGED <<mode, where, round, asked, again, uploader, wifi>>
      BY <2>2, <3>1
    <3>3. /\ Dialogue' /\ UNCHANGED callerVars
          /\ (active => active') /\ (cut => cut') /\ (unserved' => unserved)
      BY <3>1, ModemDialogue
    <3>4. UNCHANGED <<step, returned, late>>
      BY <3>3 DEF callerVars
    <3>5. SetupTyped' /\ Started'
      BY <3>2, <3>3, <3>4 DEF SetupTyped, Started, Accepted
    <3> QED
      BY <3>3, <3>5
  <2>7. CASE UNCHANGED vars
    <3>1. UNCHANGED <<modemVars, setupVars, wifi>>
      BY <2>7 DEF vars
    <3>2. Dialogue' /\ UNCHANGED <<step, returned, active, cut, unserved, late>>
      BY <3>1, UnchangedDialogue DEF modemVars, lineVars
    <3>3. SetupTyped' /\ Started'
      BY <2>2, <3>1, <3>2 DEF SetupTyped, Started, Accepted
    <3> QED
      BY <3>2, <3>3
  <2>8. CASE Restart
    <3>1. /\ GSMRestart /\ mode' \in Modes /\ where' = "call" /\ round' = 1 /\ asked' = FALSE
          /\ wifi' = FALSE /\ again' = FALSE /\ uploader' = "none"
      BY <2>8 DEF Restart
    <3>2. Dialogue' /\ step' = "idle"
      BY <3>1, RestartDialogue
    <3>3. 1 \in 1..Rounds
      BY RoundsAssumption
    <3> QED
      BY <3>1, <3>2, <3>3 DEF SetupTyped, Started
  <2> QED
    BY <2>1, <2>3, <2>4, <2>5, <2>6, <2>7, <2>8 DEF Next, Setup
<1> QED
  BY <1>1, <1>2, PTL DEF Spec

-----------------------------------------------------------------------------
\* The variables of setup and of the dialogue have their types.
THEOREM TypeCorrect == Spec => []TypeOK
<1>1. Dialogue /\ SetupTyped => TypeOK
  BY TypeParts DEF Dialogue
<1> QED
  BY <1>1, Invariant, PTL

\* Once a wait of dataSendToServerOverGSM ran out with nothing under way, each answer
\* found is one to the command written last, whatever the modem refuses or leaves
\* unanswered and however its lines arrive, until an answer is late again.
THEOREM StaysInStep == Spec => []AnswersInStep
<1>1. Dialogue => AnswersInStep
  BY DEF Dialogue, Synchronous, AnswersInStep
<1> QED
  BY <1>1, Invariant, PTL

\* ServerComOverGSM is created only after the modem accepted AT+CGACT, unless an answer
\* came in pieces or late, or was left under way by a restart of the meter.
THEOREM UploadsWhenActive == Spec => []StartedIsActive
<1>1. Started => StartedIsActive
  BY DEF Started, StartedIsActive, Accepted
<1> QED
  BY <1>1, Invariant, PTL

\* As long as no answer was late or left under way by a restart, what the modem takes for
\* the data of a request is what sendDataToServer writes after the prompt, never a command,
\* but for the commands after a restart between a prompt and its data, and these only
\* until the modem has answered one of them.
THEOREM TakesDataOnly == Spec => DataIsReading
<1>1. Dialogue => [inbox # << >> /\ prompting /\ inbox' = Tail(inbox)
                    => Head(inbox).of = "data" \/ late \/ unserved]_modemVars
  <2> SUFFICES ASSUME Dialogue, inbox # << >>, prompting, ~late, ~unserved
               PROVE  Head(inbox).of = "data"
    OBVIOUS
  <2>1. inbox[1].of = "data"
    BY DEF Dialogue, Prompted
  <2> QED
    BY <2>1
<1> QED
  BY <1>1, Invariant, PTL DEF DataIsReading
=============================================================================
