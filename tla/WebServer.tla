----------------------------- MODULE WebServer -----------------------------
(***************************************************************************)
(* The HTTP server of the configuration page. loopConfig calls             *)
(* handleClient over and over; it serves one client at a time, and reads   *)
(* its request with calls that wait for data, five seconds at most. The    *)
(* other clients wait in the backlog meanwhile. What a client sends is a   *)
(* sequence of parts: the lines of the head, and the halves of a form. It  *)
(* may pause before any of them for longer than that, or go away.          *)
(*                                                                         *)
(* Uploads, raw bodies, authentication, middleware and connections that    *)
(* are kept (SSE) are left out: the page uses none of them.                *)
(***************************************************************************)
EXTENDS Naturals, Sequences, SequencesExt

CONSTANTS Clients, None
ASSUME NoneAssumption == None \notin Clients \cup {"root", "submit", "reboot"}

VARIABLES
  clients,  \* what each of them has sent, and what it got
  queue,    \* the backlog of _server
  current,  \* _currentClient
  pc,       \* where handleClient is
  request,  \* what _parseRequest found so far
  handler,  \* _currentHandler
  args,     \* _currentArgs: fields, and the client whose form they are of
  stored    \* what handleSubmit stored last, and for whom

vars == <<clients, queue, current, pc, request, handler, args, stored>>

-----------------------------------------------------------------------------
(***************************************************************************)
(* Requests                                                                *)
(***************************************************************************)
Kinds == {"page", "probe", "submit", "reboot", "noise"}

Parts(kind) ==
  CASE kind \in {"page", "probe"} -> <<"request", "Host", "end">>
    [] kind = "submit" -> <<"request", "Content-Length", "Content-Type", "end", "half1", "half2">>
    [] kind = "reboot" -> <<"request", "Content-Length", "Content-Type", "end", "half1">>
    [] kind = "noise" -> <<"noise">>

\* A half of the form is longer than a line of the head that is taken for it.
Size(body) ==
  Len(body) + (IF "half1" \in ToSet(body) THEN 3 ELSE 0) + (IF "half2" \in ToSet(body) THEN 3 ELSE 0)
ContentLength(kind) ==
  CASE kind = "submit" -> Size(<<"half1", "half2">>) [] kind = "reboot" -> Size(<<"half1">>)
    [] OTHER -> 0

Fields == {"ssid", "password", "apn", "Carrier"}

\* _parseArguments. What comes before the form spoils the name of its first field.
Arguments(body, kind) ==
  IF kind # "submit" THEN {}
  ELSE (IF "half1" \in ToSet(body) THEN {"password"} ELSE {})
         \cup (IF body # << >> /\ body[1] = "half1" THEN {"ssid"} ELSE {})
         \cup (IF "half2" \in ToSet(body) THEN {"apn", "Carrier"} ELSE {})

\* The handlers that websocketSetupApp registers; for the rest, onNotFound(handleRoot).
HandlerOf(kind) ==
  CASE kind = "page" -> "root" [] kind \in {"submit", "reboot"} -> kind [] OTHER -> None

AnswerOf(h) == CASE h = "submit" -> "OK" [] h = "reboot" -> "Rebooting" [] OTHER -> "page"

NoRequest == [length |-> 0, encoded |-> FALSE, body |-> << >>, late |-> FALSE]

Away == [conn |-> "away", kind |-> "noise", sent |-> 0, read |-> 0, prompt |-> FALSE, answer |-> None]

Booted ==
  /\ queue = << >> /\ current = None /\ pc = "accept" /\ request = NoRequest
  /\ handler = None /\ args = {}

Init == clients = [c \in Clients |-> Away] /\ Booted /\ stored = [by |-> None, late |-> FALSE, args |-> {}]

-----------------------------------------------------------------------------
(***************************************************************************)
(* The clients. A prompt one sends its request at once, and waits.         *)
(***************************************************************************)
Connect(c, kind, prompt) ==
  /\ clients[c].conn = "away"
  /\ clients' = [clients EXCEPT ![c] = [Away EXCEPT !.conn = "open", !.kind = kind, !.prompt = prompt,
                                                    !.sent = IF prompt THEN Len(Parts(kind)) ELSE 0]]
  /\ queue' = Append(queue, c)
  /\ UNCHANGED <<current, pc, request, handler, args, stored>>

Send(c) ==
  /\ clients[c].conn = "open" /\ clients[c].sent < Len(Parts(clients[c].kind))
  /\ clients' = [clients EXCEPT ![c].sent = @ + 1]
  /\ UNCHANGED <<queue, current, pc, request, handler, args, stored>>

Leave(c) ==
  /\ clients[c].conn = "open" /\ ~clients[c].prompt
  /\ clients' = [clients EXCEPT ![c].conn = "left"]
  /\ UNCHANGED <<queue, current, pc, request, handler, args, stored>>

-----------------------------------------------------------------------------
(***************************************************************************)
(* handleClient                                                            *)
(***************************************************************************)
Kind == clients[current].kind
Available == clients[current].sent > clients[current].read
Part == Parts(Kind)[clients[current].read + 1]
Take(n) == clients' = [clients EXCEPT ![current].read = @ + n]

\* Mutant: the client stays in the backlog.
AcceptKeep ==
  /\ pc = "accept" /\ queue # << >>
  /\ current' = Head(queue) /\ UNCHANGED queue /\ pc' = "wait"
  /\ UNCHANGED <<clients, request, handler, args, stored>>

Accept ==
  /\ pc = "accept" /\ queue # << >>
  /\ current' = Head(queue) /\ queue' = Tail(queue) /\ pc' = "wait"
  /\ UNCHANGED <<clients, request, handler, args, stored>>

\* The client is given up, and the connection closed.
Release ==
  /\ clients' = [clients EXCEPT ![current].conn = "closed"]
  /\ current' = None /\ pc' = "accept" /\ request' = NoRequest
  /\ UNCHANGED <<queue, handler, args, stored>>

\* HC_WAIT_READ: it is not connected any more, or has sent nothing for HTTP_MAX_DATA_WAIT.
NothingCame == pc = "wait" /\ ~Available /\ Release

\* The first line of _parseRequest.
ReadRequest ==
  /\ pc = "wait" /\ Available
  /\ IF Part = "noise" THEN Release
     ELSE /\ Take(1) /\ pc' = "head" /\ handler' = HandlerOf(Kind)
          /\ UNCHANGED <<queue, current, request, args, stored>>

\* A line of the head; the empty one, also when no line came in time, ends it.
ReadHeader ==
  /\ pc = "head"
  /\ LET line == IF Available THEN Part ELSE "end" IN
     /\ Take(IF Available THEN 1 ELSE 0)
     /\ request' = [request EXCEPT !.late = @ \/ ~Available,
                                   !.length = IF line = "Content-Length" THEN ContentLength(Kind) ELSE @,
                                   !.encoded = @ \/ line = "Content-Type"]
     /\ pc' = IF line # "end" THEN "head" ELSE IF Kind \in {"submit", "reboot"} THEN "body" ELSE "handle"
     /\ args' = IF pc' = "handle" THEN {} ELSE args
     /\ UNCHANGED <<queue, current, handler, stored>>

\* readBytesWithTimeout takes all that is there, and gives up when nothing comes.
\* Mutant: it does not give up.
ReadBodyForever ==
  /\ pc = "body" /\ Size(request.body) < request.length
  /\ Available
  /\ LET n == clients[current].sent - clients[current].read IN
     /\ Take(n)
     /\ request' = [request EXCEPT !.body =
                      @ \o SubSeq(Parts(Kind), clients[current].read + 1, clients[current].read + n)]
     /\ UNCHANGED <<queue, current, pc, handler, args, stored>>

ReadBody ==
  /\ pc = "body" /\ Size(request.body) < request.length
  /\ LET n == clients[current].sent - clients[current].read IN
     IF n = 0 THEN Release
     ELSE /\ Take(n)
          /\ request' = [request EXCEPT !.body =
                           @ \o SubSeq(Parts(Kind), clients[current].read + 1, clients[current].read + n)]
          /\ UNCHANGED <<queue, current, pc, handler, args, stored>>

Form == IF request.encoded THEN Arguments(request.body, Kind) ELSE {}

\* Mutant: without a body, the arguments stay what they were.
ParseArgumentsIfAny ==
  /\ pc = "body" /\ Size(request.body) >= request.length
  /\ args' = IF request.length = 0 THEN args ELSE Form \X {current}
  /\ pc' = "handle"
  /\ UNCHANGED <<clients, queue, current, request, handler, stored>>

ParseArguments ==
  /\ pc = "body" /\ Size(request.body) >= request.length
  /\ args' = Form \X {current}
  /\ pc' = "handle"
  /\ UNCHANGED <<clients, queue, current, request, handler, stored>>

\* _handleRequest, and the handler it calls; handleReboot restarts the board.
HandleRequest ==
  /\ pc = "handle"
  /\ stored' = IF handler = "submit" THEN [by |-> current, late |-> request.late, args |-> args] ELSE stored
  /\ IF handler = "reboot"
     THEN /\ clients' = [c \in Clients |->
                           [clients[c] EXCEPT !.answer = IF c = current THEN AnswerOf(handler) ELSE @,
                                              !.conn = IF @ = "away" THEN @ ELSE "closed"]]
          /\ queue' = << >> /\ current' = None /\ pc' = "accept" /\ request' = NoRequest
          /\ handler' = None /\ args' = {}
     ELSE /\ clients' = [clients EXCEPT ![current].answer = AnswerOf(handler), ![current].conn = "closed"]
          /\ current' = None /\ pc' = "accept" /\ request' = NoRequest
          /\ UNCHANGED <<queue, handler, args>>

HandleClient ==
  Accept \/ NothingCame \/ ReadRequest \/ ReadHeader \/ ReadBody \/ ParseArguments \/ HandleRequest

Next ==
  \/ \E c \in Clients : \/ \E kind \in Kinds, prompt \in BOOLEAN : Connect(c, kind, prompt)
                        \/ Send(c) \/ Leave(c)
  \/ HandleClient

Spec == Init /\ [][Next]_vars /\ WF_vars(HandleClient)

-----------------------------------------------------------------------------
(***************************************************************************)
(* Properties                                                              *)
(***************************************************************************)
TypeOK ==
  /\ clients \in [Clients -> [conn : {"away", "open", "left", "closed"}, kind : Kinds, sent : Nat,
                            read : Nat, prompt : BOOLEAN, answer : {None, "page", "OK", "Rebooting"}]]
  /\ \A c \in Clients :
       clients[c].read <= clients[c].sent /\ clients[c].sent <= Len(Parts(clients[c].kind))
  /\ queue \in Seq(Clients) /\ IsInjective(queue)
  /\ current \in Clients \cup {None} /\ current \notin ToSet(queue)
  /\ (current = None <=> pc = "accept")
  /\ pc \in {"accept", "wait", "head", "body", "handle"}
  /\ request \in [length : Nat, encoded : BOOLEAN, body : Seq(UNION {ToSet(Parts(k)) : k \in Kinds}), late : BOOLEAN]
  /\ handler \in {None, "root", "submit", "reboot"}
  /\ args \subseteq Fields \X Clients
  /\ stored \in [by : Clients \cup {None}, late : BOOLEAN, args : SUBSET (Fields \X Clients)]

\* handleSubmit stores the whole form of the client it answers, never a part of it and
\* nothing of another client's, wherever a connection breaks; only a pause within the
\* head of the request can make it miss fields (_parseRequest, _parseArguments).
FormsAreWhole ==
  stored.by # None =>
    /\ stored.args \subseteq Fields \X {stored.by}
    /\ stored.late \/ stored.args = Fields \X {stored.by}

\* Whoever sent its request at once is answered, and by the handler of what it asked
\* for, however slow the clients before it are, unless the board is restarted
\* (handleClient, readBytesWithTimeout).
PromptIsAnswered ==
  \A c \in Clients :
    clients[c].prompt /\ clients[c].kind # "noise" ~>
      \/ clients[c].answer = AnswerOf(HandlerOf(clients[c].kind))
      \/ \E d \in Clients \ {c} : clients[d].answer = "Rebooting"
=============================================================================
