--------------------------- MODULE WebServerProofs ---------------------------
(***************************************************************************)
(* Theorems of WebServer, for any number of clients.                       *)
(*                                                                         *)
(* FormsAreWhole speaks of what was stored. The invariant Parsing says of  *)
(* every step of _parseRequest what it has read by then: as long as no     *)
(* line came late, how much it took of the request tells what it knows.    *)
(***************************************************************************)
EXTENDS WebServer, SequenceTheorems, TLAPS

-----------------------------------------------------------------------------
(***************************************************************************)
(* The requests                                                            *)
(***************************************************************************)
PartNames == {"request", "Host", "Content-Length", "Content-Type", "end", "half1", "half2", "noise"}

LEMMA PartsOf ==
  /\ Parts("page") = <<"request", "Host", "end">>
  /\ Parts("probe") = <<"request", "Host", "end">>
  /\ Parts("submit") = <<"request", "Content-Length", "Content-Type", "end", "half1", "half2">>
  /\ Parts("reboot") = <<"request", "Content-Length", "Content-Type", "end", "half1">>
  /\ Parts("noise") = <<"noise">>
BY DEF Parts

LEMMA PartsType == ASSUME NEW kind \in Kinds PROVE Parts(kind) \in Seq(PartNames)
<1>1. CASE kind \in {"page", "probe"}
  <2>1. <<"request", "Host", "end">> \in Seq(PartNames)
    BY DEF PartNames
  <2> QED
    BY <1>1, <2>1, PartsOf
<1>2. CASE kind = "submit"
  <2>1. <<"request", "Content-Length", "Content-Type", "end", "half1", "half2">> \in Seq(PartNames)
    BY DEF PartNames
  <2> QED
    BY <1>2, <2>1, PartsOf
<1>3. CASE kind = "reboot"
  <2>1. <<"request", "Content-Length", "Content-Type", "end", "half1">> \in Seq(PartNames)
    BY DEF PartNames
  <2> QED
    BY <1>3, <2>1, PartsOf
<1>4. CASE kind = "noise"
  <2>1. <<"noise">> \in Seq(PartNames)
    BY DEF PartNames
  <2> QED
    BY <1>4, <2>1, PartsOf
<1> QED
  BY <1>1, <1>2, <1>3, <1>4 DEF Kinds

LEMMA Sizes ==
  /\ Size(<< >>) = 0
  /\ Size(<<"half1">>) = 4
  /\ Size(<<"half1", "half2">>) = 8
  /\ ContentLength("submit") = 8
  /\ ContentLength("reboot") = 4
<1>1. Size(<< >>) = 0
  BY DEF Size, ToSet
<1>2. Size(<<"half1">>) = 4
  BY DEF Size, ToSet
<1>3. Size(<<"half1", "half2">>) = 8
  BY DEF Size, ToSet
<1> QED
  BY <1>1, <1>2, <1>3 DEF ContentLength

LEMMA SizeType == ASSUME NEW b \in Seq(PartNames) PROVE Size(b) \in Nat
<1> DEFINE more(h) == IF h \in ToSet(b) THEN 3 ELSE 0
<1>1. Len(b) \in Nat
  OBVIOUS
<1>2. more("half1") \in Nat /\ more("half2") \in Nat
  OBVIOUS
<1>3. Size(b) = Len(b) + more("half1") + more("half2")
  BY DEF Size
<1> HIDE DEF more
<1> QED
  BY <1>1, <1>2, <1>3

LEMMA LengthType == ASSUME NEW kind \in Kinds PROVE ContentLength(kind) \in Nat
BY Sizes DEF ContentLength, Kinds

LEMMA ArgumentsOf ==
  /\ \A b, kind : Arguments(b, kind) \subseteq Fields
  /\ Arguments(<<"half1", "half2">>, "submit") = Fields
<1>1. \A b, kind : Arguments(b, kind) \subseteq Fields
  BY DEF Arguments, Fields
<1>2. "half1" \in ToSet(<<"half1", "half2">>) /\ "half2" \in ToSet(<<"half1", "half2">>)
  BY DEF ToSet
<1> QED
  BY <1>1, <1>2 DEF Arguments, Fields

LEMMA Halves ==
  /\ SubSeq(Parts("submit"), 5, 4) = << >>
  /\ SubSeq(Parts("submit"), 5, 5) = <<"half1">>
  /\ SubSeq(Parts("submit"), 5, 6) = <<"half1", "half2">>
<1> DEFINE s == Parts("submit")
<1> DEFINE t(n) == SubSeq(s, 5, n)
<1>1. s \in Seq(PartNames) /\ Len(s) = 6 /\ s[5] = "half1" /\ s[6] = "half2"
  <2>1. "submit" \in Kinds
    BY DEF Kinds
  <2> QED
    BY <2>1, PartsOf, PartsType
<1> HIDE DEF s
<1>2. \A n \in {4, 5, 6} : \A i \in 5..n : s[i] \in PartNames
  BY <1>1 DEF PartNames
<1>3. \A n \in {4, 5, 6} :
        /\ t(n) \in Seq(PartNames)
        /\ Len(t(n)) = IF 5 <= n THEN n - 5 + 1 ELSE 0
        /\ \A i \in 1 .. n - 5 + 1 : t(n)[i] = s[5 + i - 1]
  BY <1>2, SubSeqProperties
<1> HIDE DEF t
<1>4. t(4) = << >>
  <2>1. t(4) \in Seq(PartNames) /\ Len(t(4)) = 0
    BY <1>3
  <2> QED
    BY <2>1
<1>5. t(5) = <<"half1">>
  <2>1. t(5) \in Seq(PartNames) /\ Len(t(5)) = 1 /\ t(5)[1] = s[5]
    BY <1>3
  <2> QED
    BY <2>1, <1>1
<1>6. t(6) = <<"half1", "half2">>
  <2>1. t(6) \in Seq(PartNames) /\ Len(t(6)) = 2 /\ t(6)[1] = s[5] /\ t(6)[2] = s[6]
    BY <1>3
  <2> QED
    BY <2>1, <1>1
<1> QED
  BY <1>4, <1>5, <1>6 DEF t, s

\* TypeOK says it in terms of the requests.
AllParts == UNION {ToSet(Parts(k)) : k \in Kinds}

LEMMA PartsInType ==
  ASSUME NEW kind \in Kinds
  PROVE  Parts(kind) \in Seq(AllParts)
<1>1. Parts(kind) \in Seq(PartNames)
  BY PartsType
<1> DEFINE s == Parts(kind)
<1>2. \A i \in 1..Len(s) : s[i] \in AllParts
  BY <1>1 DEF AllParts, ToSet
<1> HIDE DEF s
<1>3. s \in Seq(PartNames)
  BY <1>1 DEF s
<1>4. s \in [1..Len(s) -> AllParts] /\ Len(s) \in Nat
  BY <1>2, <1>3
<1> QED
  BY <1>4, SeqDef DEF s

LEMMA SubSeqType ==
  ASSUME NEW kind \in Kinds, NEW m \in Nat, NEW n \in Nat, m + n <= Len(Parts(kind))
  PROVE  /\ SubSeq(Parts(kind), m + 1, m + n) \in Seq(AllParts)
         /\ m < Len(Parts(kind)) => Parts(kind)[m + 1] \in AllParts
<1>1. Parts(kind) \in Seq(AllParts)
  BY PartsInType
<1>2. \A i \in m + 1 .. m + n : Parts(kind)[i] \in AllParts
  BY <1>1
<1>3. SubSeq(Parts(kind), m + 1, m + n) \in Seq(AllParts)
  BY <1>2, SubSeqProperties
<1> QED
  BY <1>1, <1>3

-----------------------------------------------------------------------------
(***************************************************************************)
(* The backlog                                                             *)
(***************************************************************************)
LEMMA AppendBacklog ==
  ASSUME NEW S, NEW q \in Seq(S), NEW c \in S, IsInjective(q), c \notin ToSet(q)
  PROVE  /\ Append(q, c) \in Seq(S) /\ IsInjective(Append(q, c))
         /\ ToSet(Append(q, c)) = ToSet(q) \cup {c}
<1>1. Append(q, c) \in Seq(S) /\ Len(Append(q, c)) = Len(q) + 1
  OBVIOUS
<1>2. \A i \in 1..Len(q) : Append(q, c)[i] = q[i] /\ q[i] # c
  BY DEF ToSet
<1>3. Append(q, c)[Len(q) + 1] = c
  OBVIOUS
<1>4. DOMAIN Append(q, c) = 1 .. Len(q) + 1 /\ DOMAIN q = 1..Len(q)
  BY <1>1
<1>5. IsInjective(Append(q, c))
  BY <1>2, <1>3, <1>4 DEF IsInjective
<1>6. ToSet(Append(q, c)) = ToSet(q) \cup {c}
  BY <1>2, <1>3, <1>4 DEF ToSet
<1> QED
  BY <1>1, <1>5, <1>6

LEMMA HeadOfBacklog ==
  ASSUME NEW S, NEW q \in Seq(S), IsInjective(q), q # << >>
  PROVE  /\ Head(q) \in ToSet(q) /\ Head(q) \in S
         /\ Tail(q) \in Seq(S) /\ IsInjective(Tail(q))
         /\ Head(q) \notin ToSet(Tail(q)) /\ ToSet(Tail(q)) \subseteq ToSet(q)
<1>1. Head(q) = q[1] /\ 1 \in DOMAIN q /\ Head(q) \in S
  OBVIOUS
<1>2. Tail(q) \in Seq(S) /\ DOMAIN Tail(q) = 1 .. Len(q) - 1
  OBVIOUS
<1>3. \A i \in 1 .. Len(q) - 1 : Tail(q)[i] = q[i + 1] /\ i + 1 \in DOMAIN q /\ i + 1 # 1
  OBVIOUS
<1>4. IsInjective(Tail(q))
  BY <1>2, <1>3 DEF IsInjective
<1>5. Head(q) \notin ToSet(Tail(q))
  BY <1>1, <1>2, <1>3 DEF IsInjective, ToSet
<1>6. ToSet(Tail(q)) \subseteq ToSet(q)
  BY <1>2, <1>3 DEF ToSet
<1> QED
  BY <1>1, <1>2, <1>4, <1>5, <1>6 DEF ToSet

-----------------------------------------------------------------------------
(***************************************************************************)
(* The invariant                                                           *)
(***************************************************************************)
\* A client takes part once, and nothing of its request is read while it waits.
Waiting ==
  /\ \A c \in ToSet(queue) : clients[c].conn # "away" /\ clients[c].read = 0
  /\ current # None => clients[current].conn # "away"

HasForm == Kind \in {"submit", "reboot"}

InHead ==
  /\ clients[current].read >= 1
  /\ request.body = << >>
  /\ HasForm =>
       /\ clients[current].read <= 3
       /\ request.length = IF clients[current].read >= 2 THEN ContentLength(Kind) ELSE 0
       /\ request.encoded <=> clients[current].read = 3

InBody ==
  /\ clients[current].read >= 4
  /\ request.length = ContentLength(Kind)
  /\ request.encoded
  /\ request.body = SubSeq(Parts(Kind), 5, clients[current].read)

Whole == Kind = "submit" => args = Fields \X {current}

\* What _parseRequest knows, from how much of the request it has read.
Parsing ==
  /\ pc \in {"accept", "wait"} => request = NoRequest
  /\ pc = "wait" => clients[current].read = 0
  /\ pc \in {"head", "body", "handle"} => Kind # "noise" /\ handler = HandlerOf(Kind)
  /\ pc = "head" => (~request.late => InHead)
  /\ pc = "body" => HasForm /\ (~request.late => InBody)
  /\ pc = "handle" => args \subseteq Fields \X {current} /\ (~request.late => Whole)

Served == Waiting /\ Parsing /\ FormsAreWhole

-----------------------------------------------------------------------------
(***************************************************************************)
(* Type correctness                                                        *)
(***************************************************************************)
Client == [conn : {"away", "open", "left", "closed"}, kind : Kinds, sent : Nat,
           read : Nat, prompt : BOOLEAN, answer : {None, "page", "OK", "Rebooting"}]

ClientsTyped ==
  /\ clients \in [Clients -> Client]
  /\ \A c \in Clients :
       clients[c].read <= clients[c].sent /\ clients[c].sent <= Len(Parts(clients[c].kind))

QueueTyped ==
  /\ queue \in Seq(Clients) /\ IsInjective(queue)
  /\ current \in Clients \cup {None} /\ current \notin ToSet(queue)
  /\ (current = None <=> pc = "accept")
  /\ pc \in {"accept", "wait", "head", "body", "handle"}

RequestTyped ==
  request \in [length : Nat, encoded : BOOLEAN, body : Seq(AllParts), late : BOOLEAN]

HandlerTyped ==
  /\ handler \in {None, "root", "submit", "reboot"}
  /\ args \subseteq Fields \X Clients
  /\ stored \in [by : Clients \cup {None}, late : BOOLEAN, args : SUBSET (Fields \X Clients)]

Typed == ClientsTyped /\ QueueTyped /\ RequestTyped /\ HandlerTyped

LEMMA TypeParts == TypeOK <=> Typed
BY DEF TypeOK, Typed, ClientsTyped, Client, QueueTyped, RequestTyped, HandlerTyped, AllParts

LEMMA AnswerType ==
  /\ \A h : AnswerOf(h) \in {None, "page", "OK", "Rebooting"}
  /\ \A kind \in Kinds : HandlerOf(kind) \in {None, "root", "submit", "reboot"}
BY DEF AnswerOf, HandlerOf, Kinds

LEMMA InitServed == Init => Typed /\ Served
<1> SUFFICES ASSUME Init PROVE Typed /\ Served
  OBVIOUS
<1>1. Len(Parts("noise")) = 1 /\ "noise" \in Kinds
  BY PartsOf DEF Kinds
<1>2. ClientsTyped
  BY <1>1 DEF Init, Away, ClientsTyped, Client
<1>3. QueueTyped
  BY NoneAssumption DEF Init, Booted, QueueTyped, IsInjective, ToSet
<1>4. << >> \in Seq(AllParts)
  OBVIOUS
<1>5. RequestTyped
  BY <1>4 DEF Init, Booted, NoRequest, RequestTyped
<1>6. HandlerTyped
  BY DEF Init, Booted, HandlerTyped
<1>7. Waiting
  BY DEF Init, Booted, Waiting, ToSet
<1>8. Parsing
  BY DEF Init, Booted, Parsing
<1>9. FormsAreWhole
  BY DEF Init, FormsAreWhole
<1> QED
  BY <1>2, <1>3, <1>5, <1>6, <1>7, <1>8, <1>9 DEF Typed, Served

-----------------------------------------------------------------------------
(***************************************************************************)
(* The clients                                                             *)
(***************************************************************************)
LEMMA NewClient ==
  ASSUME ClientsTyped, NEW c \in Clients, NEW new \in Client,
         clients' = [clients EXCEPT ![c] = new],
         new.read <= new.sent, new.sent <= Len(Parts(new.kind))
  PROVE  ClientsTyped' /\ clients'[c] = new /\ \A d \in Clients \ {c} : clients'[d] = clients[d]
BY DEF ClientsTyped

\* What the server knows depends on two fields of the client it serves.
LEMMA SameClient ==
  ASSUME Parsing, QueueTyped, UNCHANGED <<current, pc, request, handler, args>>,
         current # None => /\ clients'[current].kind = clients[current].kind
                           /\ clients'[current].read = clients[current].read
  PROVE  Parsing'
<1>1. CASE current = None
  <2>1. pc = "accept"
    BY <1>1 DEF QueueTyped
  <2> QED
    BY <2>1 DEF Parsing
<1>2. CASE current # None
  BY <1>2 DEF Parsing, InHead, InBody, HasForm, Whole, Kind
<1> QED
  BY <1>1, <1>2

LEMMA ConnectStep ==
  ASSUME Typed, Served, NEW c \in Clients, NEW kind \in Kinds, NEW prompt \in BOOLEAN,
         Connect(c, kind, prompt)
  PROVE  Typed' /\ Served'
<1> USE DEF Typed, Served
<1>1. Parts(kind) \in Seq(AllParts) /\ Len(Parts(kind)) \in Nat
  BY PartsInType
<1> DEFINE new == [Away EXCEPT !.conn = "open", !.kind = kind, !.prompt = prompt,
                               !.sent = IF prompt THEN Len(Parts(kind)) ELSE 0]
<1>2. new \in Client /\ new.read = 0 /\ new.kind = kind /\ new.sent <= Len(Parts(kind)) /\ new.sent >= 0
      /\ new.conn = "open"
  <2> DEFINE n == IF prompt THEN Len(Parts(kind)) ELSE 0
  <2>1. n \in Nat /\ n <= Len(Parts(kind))
    BY <1>1
  <2> HIDE DEF n
  <2>2. Away \in Client
    BY DEF Away, Client, Kinds
  <2>3. new = [Away EXCEPT !.conn = "open", !.kind = kind, !.prompt = prompt, !.sent = n]
    BY DEF n
  <2> HIDE DEF new
  <2>4. new \in Client
    BY <2>1, <2>2, <2>3 DEF Client
  <2>5. new.read = 0 /\ new.kind = kind /\ new.sent = n /\ new.conn = "open"
    BY <2>3 DEF Away
  <2> QED
    BY <2>1, <2>4, <2>5
<1>3. clients' = [clients EXCEPT ![c] = new]
  BY DEF Connect
<1> HIDE DEF new
<1>4. ClientsTyped'
  BY <1>2, <1>3, NewClient
<1>5. c \notin ToSet(queue) /\ c # current
  BY NoneAssumption DEF Waiting, Connect
<1>6. queue' \in Seq(Clients) /\ IsInjective(queue') /\ ToSet(queue') = ToSet(queue) \cup {c}
  BY <1>5, AppendBacklog DEF Connect, QueueTyped
<1>7. QueueTyped'
  BY <1>5, <1>6 DEF Connect, QueueTyped
<1>8. RequestTyped' /\ HandlerTyped'
  BY DEF Connect, RequestTyped, HandlerTyped
<1>9. ToSet(queue) \subseteq Clients
  BY DEF QueueTyped, ToSet
<1>10. \A d \in Clients \ {c} : clients'[d] = clients[d]
  BY <1>3 DEF ClientsTyped
<1>11. clients'[c] = new
  BY <1>3 DEF ClientsTyped
<1>12. current' = current /\ current \in Clients \cup {None}
  BY DEF Connect, QueueTyped
<1>13. Waiting'
  BY <1>2, <1>5, <1>6, <1>9, <1>10, <1>11, <1>12 DEF Waiting
<1>14. Parsing'
  BY <1>5, <1>10, <1>12, SameClient DEF Connect
<1>15. FormsAreWhole'
  BY DEF FormsAreWhole, Connect
<1> QED
  BY <1>4, <1>7, <1>8, <1>13, <1>14, <1>15

LEMMA SendLeaveStep ==
  ASSUME Typed, Served, NEW c \in Clients, Send(c) \/ Leave(c)
  PROVE  Typed' /\ Served'
<1> USE DEF Typed, Served
<1>1. clients[c] \in Client /\ Len(Parts(clients[c].kind)) \in Nat
  <2>1. clients[c] \in Client
    BY DEF ClientsTyped
  <2>2. clients[c].kind \in Kinds
    BY <2>1 DEF Client
  <2> QED
    BY <2>1, <2>2, PartsInType
<1>2. UNCHANGED <<queue, current, pc, request, handler, args, stored>>
  BY DEF Send, Leave
<1>3. \E new \in Client :
        /\ clients' = [clients EXCEPT ![c] = new]
        /\ new.kind = clients[c].kind /\ new.read = clients[c].read /\ new.conn # "away"
        /\ new.read <= new.sent /\ new.sent <= Len(Parts(new.kind))
  <2>1. clients[c].read <= clients[c].sent /\ clients[c].sent <= Len(Parts(clients[c].kind))
    BY DEF ClientsTyped
  <2>2. CASE Send(c)
    <3> DEFINE new == [clients[c] EXCEPT !.sent = @ + 1]
    <3>1. new \in Client /\ new.kind = clients[c].kind /\ new.read = clients[c].read
          /\ new.conn = clients[c].conn /\ new.sent = clients[c].sent + 1
      BY <1>1 DEF Client
    <3>2. clients[c].sent \in Nat /\ clients[c].read \in Nat
      BY <1>1 DEF Client
    <3>3. clients' = [clients EXCEPT ![c] = new] /\ clients[c].conn = "open"
          /\ clients[c].sent < Len(Parts(clients[c].kind))
      BY <2>2 DEF Send
    <3> HIDE DEF new
    <3>4. new.read <= new.sent /\ new.sent <= Len(Parts(new.kind))
      BY <1>1, <2>1, <3>1, <3>2, <3>3
    <3> QED
      BY <3>1, <3>3, <3>4
  <2>3. CASE Leave(c)
    <3> DEFINE new == [clients[c] EXCEPT !.conn = "left"]
    <3>1. new \in Client /\ new.kind = clients[c].kind /\ new.read = clients[c].read
          /\ new.conn = "left" /\ new.sent = clients[c].sent
      BY <1>1 DEF Client
    <3>2. clients' = [clients EXCEPT ![c] = new]
      BY <2>3 DEF Leave
    <3> HIDE DEF new
    <3> QED
      BY <2>1, <3>1, <3>2
  <2> QED
    BY <2>2, <2>3
<1>4. /\ ClientsTyped'
      /\ \A d \in Clients : /\ clients'[d].kind = clients[d].kind /\ clients'[d].read = clients[d].read
                            /\ clients[d].conn # "away" => clients'[d].conn # "away"
  BY <1>3, NewClient, ZenonT(40)
<1>5. ToSet(queue) \subseteq Clients
  BY DEF QueueTyped, ToSet
<1>6. current \in Clients \cup {None}
  BY DEF QueueTyped
<1>7. Waiting'
  <2>1. \A d \in ToSet(queue') : clients'[d].conn # "away" /\ clients'[d].read = 0
    BY <1>2, <1>4, <1>5 DEF Waiting
  <2>2. current' # None => clients'[current'].conn # "away"
    BY <1>2, <1>4, <1>6 DEF Waiting
  <2> QED
    BY <2>1, <2>2 DEF Waiting
<1>8. Parsing'
  <2>1. current # None => /\ clients'[current].kind = clients[current].kind
                          /\ clients'[current].read = clients[current].read
    BY <1>4, <1>6
  <2> QED
    BY <1>2, <2>1, SameClient
<1>9. QueueTyped' /\ RequestTyped' /\ HandlerTyped' /\ FormsAreWhole'
  BY <1>2 DEF QueueTyped, RequestTyped, HandlerTyped, FormsAreWhole
<1> QED
  BY <1>4, <1>7, <1>8, <1>9

-----------------------------------------------------------------------------
(***************************************************************************)
(* handleClient                                                            *)
(***************************************************************************)
LEMMA Serving ==
  ASSUME Typed, pc # "accept"
  PROVE  /\ current \in Clients /\ current # None
         /\ clients[current] \in Client /\ Kind \in Kinds
         /\ clients[current].read \in Nat /\ clients[current].sent \in Nat
         /\ clients[current].read <= clients[current].sent
         /\ clients[current].sent <= Len(Parts(Kind)) /\ Len(Parts(Kind)) \in Nat
<1>1. current \in Clients /\ current # None
  BY NoneAssumption DEF Typed, QueueTyped
<1>2. /\ clients[current] \in Client
      /\ clients[current].read <= clients[current].sent /\ clients[current].sent <= Len(Parts(Kind))
  BY <1>1 DEF Typed, ClientsTyped, Kind
<1>3. Kind \in Kinds /\ clients[current].read \in Nat /\ clients[current].sent \in Nat
  BY <1>2 DEF Client, Kind
<1>4. Len(Parts(Kind)) \in Nat
  BY <1>3, PartsInType
<1> QED
  BY <1>1, <1>2, <1>3, <1>4

\* The clients that wait are none of those that are served.
LEMMA OthersWait ==
  ASSUME Typed, Waiting, current \in Clients, UNCHANGED queue,
         current' = current \/ current' = None,
         clients'[current].conn # "away",
         \A d \in Clients \ {current} : clients'[d] = clients[d]
  PROVE  Waiting'
<1>1. ToSet(queue) \subseteq Clients \ {current}
  BY DEF Typed, QueueTyped, ToSet
<1> QED
  BY <1>1 DEF Waiting

LEMMA TakeStep ==
  ASSUME Typed, pc # "accept", NEW n \in Nat, Take(n),
         clients[current].read + n <= clients[current].sent
  PROVE  /\ ClientsTyped'
         /\ clients'[current].kind = clients[current].kind
         /\ clients'[current].conn = clients[current].conn
         /\ clients'[current].read = clients[current].read + n
         /\ \A d \in Clients \ {current} : clients'[d] = clients[d]
<1> DEFINE new == [clients[current] EXCEPT !.read = @ + n]
<1>1. current \in Clients /\ clients[current] \in Client /\ Len(Parts(Kind)) \in Nat
      /\ clients[current].sent <= Len(Parts(Kind))
  BY Serving
<1>2. clients[current].read \in Nat
  BY Serving
<1>3. /\ new \in Client /\ new.kind = clients[current].kind /\ new.conn = clients[current].conn
      /\ new.sent = clients[current].sent /\ new.read = clients[current].read + n
  BY <1>1, <1>2 DEF Client
<1>4. clients' = [clients EXCEPT ![current] = new]
  BY DEF Take
<1> HIDE DEF new
<1>5. ClientsTyped
  BY DEF Typed
<1>6. new.read <= new.sent /\ new.sent <= Len(Parts(new.kind))
  BY <1>1, <1>3 DEF Kind
<1>7. ClientsTyped' /\ clients'[current] = new /\ \A d \in Clients \ {current} : clients'[d] = clients[d]
  BY <1>1, <1>3, <1>4, <1>5, <1>6, NewClient
<1> QED
  BY <1>3, <1>7

LEMMA AcceptStep ==
  ASSUME Typed, Served, Accept
  PROVE  Typed' /\ Served'
<1>1. queue \in Seq(Clients) /\ IsInjective(queue) /\ queue # << >>
  BY DEF Accept, Typed, QueueTyped
<1>2. /\ Head(queue) \in ToSet(queue) /\ Head(queue) \in Clients
      /\ Tail(queue) \in Seq(Clients) /\ IsInjective(Tail(queue))
      /\ Head(queue) \notin ToSet(Tail(queue)) /\ ToSet(Tail(queue)) \subseteq ToSet(queue)
  BY <1>1, HeadOfBacklog
<1>3. /\ pc = "accept" /\ pc' = "wait" /\ current' = Head(queue) /\ queue' = Tail(queue)
      /\ UNCHANGED <<clients, request, handler, args, stored>>
  BY DEF Accept
<1>4. QueueTyped'
  BY <1>2, <1>3, NoneAssumption DEF QueueTyped
<1>5. ClientsTyped' /\ RequestTyped' /\ HandlerTyped'
  BY <1>3 DEF Typed, ClientsTyped, RequestTyped, HandlerTyped
<1>6. Waiting'
  BY <1>2, <1>3 DEF Served, Waiting
<1>7. Parsing'
  BY <1>2, <1>3 DEF Served, Waiting, Parsing
<1>8. FormsAreWhole'
  BY <1>3 DEF Served, FormsAreWhole
<1> QED
  BY <1>4, <1>5, <1>6, <1>7, <1>8 DEF Typed, Served

LEMMA NoRequestType == NoRequest \in [length : Nat, encoded : BOOLEAN, body : Seq(AllParts), late : BOOLEAN]
<1>1. << >> \in Seq(AllParts)
  OBVIOUS
<1> QED
  BY <1>1 DEF NoRequest

LEMMA ReleaseStep ==
  ASSUME Typed, Served, pc # "accept", Release
  PROVE  Typed' /\ Served'
<1> DEFINE new == [clients[current] EXCEPT !.conn = "closed"]
<1>1. current \in Clients /\ clients[current] \in Client
      /\ clients[current].read <= clients[current].sent /\ clients[current].sent <= Len(Parts(clients[current].kind))
  BY Serving DEF Kind
<1>2. /\ new \in Client /\ new.kind = clients[current].kind /\ new.conn = "closed"
      /\ new.sent = clients[current].sent /\ new.read = clients[current].read
  BY <1>1 DEF Client
<1>3. /\ clients' = [clients EXCEPT ![current] = new] /\ current' = None /\ pc' = "accept"
      /\ request' = NoRequest /\ UNCHANGED <<queue, handler, args, stored>>
  BY DEF Release
<1> HIDE DEF new
<1>4. ClientsTyped
  BY DEF Typed
<1>5. ClientsTyped' /\ clients'[current] = new /\ \A d \in Clients \ {current} : clients'[d] = clients[d]
  BY <1>1, <1>2, <1>3, <1>4, NewClient
<1>6. ToSet(queue) \subseteq Clients
  BY DEF Typed, QueueTyped, ToSet
<1>7. QueueTyped'
  BY <1>3, <1>6, NoneAssumption DEF Typed, QueueTyped
<1>8. RequestTyped' /\ HandlerTyped'
  BY <1>3, NoRequestType DEF Typed, RequestTyped, HandlerTyped
<1>9. Waiting'
  BY <1>1, <1>2, <1>3, <1>5, OthersWait DEF Served
<1>10. Parsing'
  BY <1>3 DEF Parsing
<1>11. FormsAreWhole'
  BY <1>3 DEF Served, FormsAreWhole
<1> QED
  BY <1>5, <1>7, <1>8, <1>9, <1>10, <1>11 DEF Typed, Served

LEMMA ReadRequestStep ==
  ASSUME Typed, Served, ReadRequest
  PROVE  Typed' /\ Served'
<1>1. CASE Part = "noise"
  BY <1>1, ReleaseStep DEF ReadRequest
<1>2. CASE Part # "noise"
  <2>1. /\ pc = "wait" /\ pc' = "head" /\ Take(1) /\ handler' = HandlerOf(Kind)
        /\ UNCHANGED <<queue, current, request, args, stored>>
        /\ clients[current].sent > clients[current].read
    BY <1>2 DEF ReadRequest, Available
  <2>2. /\ current \in Clients /\ current # None /\ Kind \in Kinds
        /\ clients[current].read \in Nat /\ clients[current].sent \in Nat
    BY <2>1, Serving
  <2>3. clients[current].read = 0 /\ request = NoRequest /\ clients[current].conn # "away"
    BY <2>1, <2>2 DEF Served, Parsing, Waiting
  <2>4. Kind # "noise"
    BY <1>2, <2>3, PartsOf DEF Part
  <2>5. /\ ClientsTyped'
        /\ clients'[current].kind = clients[current].kind
        /\ clients'[current].conn = clients[current].conn
        /\ clients'[current].read = 1
        /\ \A d \in Clients \ {current} : clients'[d] = clients[d]
    BY <2>1, <2>2, <2>3, TakeStep
  <2>6. Kind' = Kind
    BY <2>1, <2>5 DEF Kind
  <2>7. QueueTyped' /\ RequestTyped'
    BY <2>1, <2>2 DEF Typed, QueueTyped, RequestTyped
  <2>8. HandlerTyped'
    BY <2>1, <2>2, AnswerType DEF Typed, HandlerTyped
  <2>9. Waiting'
    BY <2>1, <2>2, <2>3, <2>5, OthersWait DEF Served
  <2>10. InHead'
    <3>1. request'.body = << >> /\ request'.length = 0 /\ ~request'.encoded
      BY <2>1, <2>3 DEF NoRequest
    <3>2. clients'[current'].read = 1
      BY <2>1, <2>5
    <3> QED
      BY <3>1, <3>2 DEF InHead
  <2>11. Parsing'
    BY <2>1, <2>4, <2>6, <2>10 DEF Parsing
  <2>12. FormsAreWhole'
    BY <2>1 DEF Served, FormsAreWhole
  <2> QED
    BY <2>5, <2>7, <2>8, <2>9, <2>11, <2>12 DEF Typed, Served
<1> QED
  BY <1>1, <1>2

\* What a line of the head is, while the request is not late.
LEMMA LineOf ==
  ASSUME Typed, Parsing, pc = "head", ~request.late, Available
  PROVE  HasForm =>
           /\ clients[current].read = 1 => Part = "Content-Length"
           /\ clients[current].read = 2 => Part = "Content-Type"
           /\ clients[current].read = 3 => Part = "end"
           /\ clients[current].read \in 1..3
<1>1. clients[current].read \in Nat /\ InHead
  BY Serving DEF Parsing
<1>2. HasForm => clients[current].read \in 1..3
  BY <1>1 DEF InHead
<1>3. /\ Parts("submit")[2] = "Content-Length" /\ Parts("submit")[3] = "Content-Type"
      /\ Parts("submit")[4] = "end"
      /\ Parts("reboot")[2] = "Content-Length" /\ Parts("reboot")[3] = "Content-Type"
      /\ Parts("reboot")[4] = "end"
  BY PartsOf
<1> QED
  BY <1>2, <1>3 DEF HasForm, Part

LEMMA ReadHeaderStep ==
  ASSUME Typed, Served, ReadHeader
  PROVE  Typed' /\ Served'
<1> DEFINE line == IF Available THEN Part ELSE "end"
<1> DEFINE n == IF Available THEN 1 ELSE 0
<1> DEFINE read == clients[current].read
<1>1. /\ pc = "head" /\ Take(n)
      /\ request' = [request EXCEPT !.late = @ \/ ~Available,
                                    !.length = IF line = "Content-Length" THEN ContentLength(Kind) ELSE @,
                                    !.encoded = @ \/ line = "Content-Type"]
      /\ pc' = IF line # "end" THEN "head" ELSE IF HasForm THEN "body" ELSE "handle"
      /\ args' = IF pc' = "handle" THEN {} ELSE args
      /\ UNCHANGED <<queue, current, handler, stored>>
  BY DEF ReadHeader, HasForm
<1>2. /\ current \in Clients /\ current # None /\ Kind \in Kinds
      /\ read \in Nat /\ clients[current].sent \in Nat /\ read <= clients[current].sent
  BY <1>1, Serving
<1>3. n \in Nat /\ read + n <= clients[current].sent
  BY <1>2 DEF Available
<1>4. /\ ClientsTyped'
      /\ clients'[current].kind = clients[current].kind
      /\ clients'[current].conn = clients[current].conn
      /\ clients'[current].read = read + n
      /\ \A d \in Clients \ {current} : clients'[d] = clients[d]
  <2> HIDE DEF n
  <2> QED
    BY <1>1, <1>3, TakeStep
<1>5. Kind' = Kind /\ HasForm' = HasForm
  BY <1>1, <1>4 DEF Kind, HasForm
<1>6. request \in [length : Nat, encoded : BOOLEAN, body : Seq(AllParts), late : BOOLEAN]
  BY DEF Typed, RequestTyped
<1>7. ContentLength(Kind) \in Nat
  BY <1>2, LengthType
<1> HIDE DEF line
<1>8. /\ request'.late <=> request.late \/ ~Available
      /\ request'.length = IF line = "Content-Length" THEN ContentLength(Kind) ELSE request.length
      /\ request'.encoded <=> request.encoded \/ line = "Content-Type"
      /\ request'.body = request.body
  BY <1>1, <1>6
<1>9. RequestTyped'
  BY <1>1, <1>6, <1>7 DEF RequestTyped
<1>10. QueueTyped'
  BY <1>1, <1>2 DEF Typed, QueueTyped
<1>11. HandlerTyped'
  BY <1>1 DEF Typed, HandlerTyped
<1>12. Waiting'
  <2>1. clients'[current].conn # "away"
    BY <1>2, <1>4 DEF Served, Waiting
  <2> QED
    BY <1>1, <1>2, <1>4, <2>1, OthersWait DEF Served
<1>13. Kind # "noise" /\ handler = HandlerOf(Kind)
  BY <1>1 DEF Served, Parsing
<1>14. ~request'.late => /\ ~request.late /\ Available /\ InHead /\ n = 1 /\ line = Part
  BY <1>1, <1>8 DEF Served, Parsing, line
<1>15. pc' = "head" /\ ~request'.late => InHead'
  <2> SUFFICES ASSUME pc' = "head", ~request'.late PROVE InHead'
    OBVIOUS
  <2>1. line # "end"
    BY <1>1
  <2>2. HasForm => /\ read = 1 => line = "Content-Length"
                   /\ read = 2 => line = "Content-Type"
                   /\ read \in 1..2
    BY <1>1, <1>14, <2>1, LineOf DEF Served
  <2>3. request'.body = << >> /\ clients'[current'].read = read + 1 /\ read >= 1
    BY <1>1, <1>4, <1>8, <1>14 DEF InHead
  <2>4. HasForm => /\ clients'[current'].read <= 3
                   /\ request'.length = ContentLength(Kind)
                   /\ request'.encoded <=> clients'[current'].read = 3
    <3> SUFFICES ASSUME HasForm
                 PROVE  /\ clients'[current'].read <= 3
                        /\ request'.length = ContentLength(Kind)
                        /\ request'.encoded <=> clients'[current'].read = 3
      OBVIOUS
    <3>1. ~request.encoded /\ (read = 2 => request.length = ContentLength(Kind))
      BY <1>14, <2>2 DEF InHead
    <3>2. CASE read = 1
      BY <1>8, <2>2, <2>3, <3>1, <3>2
    <3>3. CASE read = 2
      BY <1>8, <2>2, <2>3, <3>1, <3>3
    <3> QED
      BY <2>2, <3>2, <3>3
  <2> QED
    BY <1>2, <1>5, <2>2, <2>3, <2>4 DEF InHead
<1>16. pc' = "body" /\ ~request'.late => InBody'
  <2> SUFFICES ASSUME pc' = "body", ~request'.late PROVE InBody'
    OBVIOUS
  <2>1. HasForm /\ line = "end"
    BY <1>1
  <2>2. read = 3
    BY <1>1, <1>14, <2>1, LineOf DEF Served
  <2>3. /\ clients'[current'].read = 4
        /\ request'.length = ContentLength(Kind) /\ request'.encoded /\ request'.body = << >>
    <3>1. InHead /\ line = "end" /\ n = 1
      BY <1>14, <2>1
    <3>2. clients'[current'].read = 4
      BY <1>1, <1>4, <2>2, <3>1
    <3>3. request'.length = ContentLength(Kind) /\ request'.body = << >>
      BY <1>8, <2>1, <2>2, <3>1 DEF InHead
    <3>4. request.encoded
      BY <2>1, <2>2, <3>1 DEF InHead
    <3> QED
      BY <1>8, <3>2, <3>3, <3>4
  <2>4. SubSeq(Parts(Kind), 5, 4) = << >>
    BY SubSeqEmpty
  <2> QED
    BY <1>5, <2>3, <2>4 DEF InBody
<1>17. Parsing'
  <2>1. pc' = "body" => HasForm'
    BY <1>1, <1>5
  <2>2. pc' = "handle" => args' = {} /\ ~HasForm
    BY <1>1
  <2>3. pc' = "handle" => args' \subseteq Fields \X {current'} /\ Whole'
    BY <1>5, <2>2 DEF Whole, HasForm
  <2> QED
    BY <1>1, <1>5, <1>13, <1>15, <1>16, <2>1, <2>3 DEF Parsing
<1>18. FormsAreWhole'
  BY <1>1 DEF Served, FormsAreWhole
<1> QED
  BY <1>4, <1>9, <1>10, <1>11, <1>12, <1>17, <1>18 DEF Typed, Served

LEMMA NextHalves ==
  ASSUME NEW kind \in Kinds, NEW r \in Nat, NEW n \in Nat, r >= 4, r + n <= Len(Parts(kind))
  PROVE  SubSeq(Parts(kind), 5, r) \o SubSeq(Parts(kind), r + 1, r + n) = SubSeq(Parts(kind), 5, r + n)
<1> DEFINE s == Parts(kind)
<1> DEFINE a == SubSeq(s, 5, r)
<1> DEFINE b == SubSeq(s, r + 1, r + n)
<1> DEFINE c == SubSeq(s, 5, r + n)
<1>1. s \in Seq(AllParts) /\ r + n <= Len(s)
  BY PartsInType
<1> HIDE DEF s
<1>2. /\ \A i \in 5..r : s[i] \in AllParts
      /\ \A i \in r + 1 .. r + n : s[i] \in AllParts
      /\ \A i \in 5 .. r + n : s[i] \in AllParts
  BY <1>1
<1>3. a \in Seq(AllParts) /\ Len(a) = r - 4 /\ \A i \in 1 .. r - 4 : a[i] = s[i + 4]
  <2>1. /\ a \in Seq(AllParts) /\ Len(a) = IF 5 <= r THEN r - 5 + 1 ELSE 0
        /\ \A i \in 1 .. r - 5 + 1 : a[i] = s[5 + i - 1]
    BY <1>2, SubSeqProperties
  <2> HIDE DEF a
  <2> QED
    BY <2>1
<1>4. b \in Seq(AllParts) /\ Len(b) = n /\ \A i \in 1..n : b[i] = s[r + i]
  <2>1. /\ b \in Seq(AllParts) /\ Len(b) = IF r + 1 <= r + n THEN (r + n) - (r + 1) + 1 ELSE 0
        /\ \A i \in 1 .. (r + n) - (r + 1) + 1 : b[i] = s[(r + 1) + i - 1]
    BY <1>2, SubSeqProperties
  <2> HIDE DEF b
  <2> QED
    BY <2>1
<1>5. c \in Seq(AllParts) /\ Len(c) = r + n - 4 /\ \A i \in 1 .. r + n - 4 : c[i] = s[i + 4]
  <2>1. /\ c \in Seq(AllParts) /\ Len(c) = IF 5 <= r + n THEN (r + n) - 5 + 1 ELSE 0
        /\ \A i \in 1 .. (r + n) - 5 + 1 : c[i] = s[5 + i - 1]
    BY <1>2, SubSeqProperties
  <2> HIDE DEF c
  <2> QED
    BY <2>1
<1> HIDE DEF a, b, c
<1>6. a \o b \in Seq(AllParts) /\ Len(a \o b) = r + n - 4
  <2>1. a \o b \in Seq(AllParts) /\ Len(a \o b) = Len(a) + Len(b)
    BY <1>3, <1>4, ConcatProperties
  <2>2. (r - 4) + n = r + n - 4
    OBVIOUS
  <2> QED
    BY <1>3, <1>4, <2>1, <2>2
<1>7. ASSUME NEW i \in 1 .. r + n - 4 PROVE (a \o b)[i] = c[i]
  <2>1. CASE i <= r - 4
    BY <1>3, <1>4, <1>5, <2>1
  <2>2. CASE i > r - 4
    <3>1. (a \o b)[i] = b[i - (r - 4)]
      BY <1>3, <1>4, <2>2
    <3>2. i - (r - 4) \in 1..n /\ r + (i - (r - 4)) = i + 4
      BY <2>2
    <3> QED
      BY <1>4, <1>5, <3>1, <3>2
  <2>3. i <= r - 4 \/ i > r - 4
    OBVIOUS
  <2> QED
    BY <2>1, <2>2, <2>3
<1>8. a \o b = c
  BY <1>5, <1>6, <1>7, SeqEqual
<1> QED
  BY <1>8 DEF a, b, c, s

LEMMA ReadBodyStep ==
  ASSUME Typed, Served, ReadBody
  PROVE  Typed' /\ Served'
<1> DEFINE read == clients[current].read
<1> DEFINE n == clients[current].sent - read
<1> DEFINE more == SubSeq(Parts(Kind), read + 1, read + n)
<1>1. CASE n = 0
  BY <1>1, ReleaseStep DEF ReadBody
<1>2. CASE n # 0
  <2>1. /\ pc = "body" /\ Take(n) /\ request' = [request EXCEPT !.body = @ \o more]
        /\ UNCHANGED <<queue, current, pc, handler, args, stored>>
    BY <1>2 DEF ReadBody
  <2>2. /\ current \in Clients /\ current # None /\ Kind \in Kinds
        /\ read \in Nat /\ n \in Nat /\ read + n = clients[current].sent
        /\ read + n <= Len(Parts(Kind))
    BY <2>1, Serving
  <2> HIDE DEF n
  <2>3. /\ ClientsTyped'
        /\ clients'[current].kind = clients[current].kind
        /\ clients'[current].conn = clients[current].conn
        /\ clients'[current].read = read + n
        /\ \A d \in Clients \ {current} : clients'[d] = clients[d]
    BY <2>1, <2>2, TakeStep
  <2>4. Kind' = Kind /\ HasForm' = HasForm
    BY <2>1, <2>3 DEF Kind, HasForm
  <2>5. more \in Seq(AllParts)
    BY <2>2, SubSeqType
  <2> HIDE DEF more
  <2>6. request \in [length : Nat, encoded : BOOLEAN, body : Seq(AllParts), late : BOOLEAN]
    BY DEF Typed, RequestTyped
  <2>7. /\ request'.length = request.length /\ request'.body = request.body \o more
        /\ (request'.encoded <=> request.encoded) /\ (request'.late <=> request.late)
    BY <2>1, <2>6
  <2>8. RequestTyped'
    <3>1. request.body \o more \in Seq(AllParts)
      BY <2>5, <2>6
    <3> QED
      BY <2>1, <2>6, <3>1 DEF RequestTyped
  <2>9. QueueTyped' /\ HandlerTyped' /\ FormsAreWhole'
    BY <2>1 DEF Typed, QueueTyped, HandlerTyped, Served, FormsAreWhole
  <2>10. Waiting'
    <3>1. clients'[current].conn # "away"
      BY <2>2, <2>3 DEF Served, Waiting
    <3> QED
      BY <2>1, <2>2, <2>3, <3>1, OthersWait DEF Served
  <2>11. ~request'.late => InBody'
    <3> SUFFICES ASSUME ~request'.late PROVE InBody'
      OBVIOUS
    <3>1. InBody
      BY <2>1, <2>7 DEF Served, Parsing
    <3>2. read >= 4 /\ request.body = SubSeq(Parts(Kind), 5, read)
      BY <3>1 DEF InBody
    <3>3. request'.body = SubSeq(Parts(Kind), 5, read + n)
      BY <2>2, <2>7, <3>2, NextHalves DEF more
    <3>4. clients'[current'].read = read + n /\ read + n >= 4
      BY <2>1, <2>2, <2>3, <3>2
    <3>5. request'.length = ContentLength(Kind) /\ request'.encoded
      BY <2>7, <3>1 DEF InBody
    <3> QED
      BY <2>4, <3>3, <3>4, <3>5 DEF InBody
  <2>12. Parsing'
    BY <2>1, <2>4, <2>11 DEF Served, Parsing
  <2> QED
    BY <2>3, <2>8, <2>9, <2>10, <2>12 DEF Typed, Served
<1> QED
  BY <1>1, <1>2

LEMMA WholeForm ==
  ASSUME Typed, InBody, Kind = "submit", Size(request.body) >= request.length
  PROVE  pc = "body" => Form = Fields
<1> SUFFICES ASSUME pc = "body" PROVE Form = Fields
  OBVIOUS
<1>1. clients[current].read \in Nat /\ clients[current].read <= 6
  <2>1. Len(Parts("submit")) = 6
    BY PartsOf
  <2>2. /\ clients[current].read \in Nat /\ clients[current].sent \in Nat
        /\ clients[current].read <= clients[current].sent
    BY Serving
  <2>3. clients[current].sent <= Len(Parts(Kind))
    BY Serving
  <2>4. clients[current].sent <= 6
    BY <2>1, <2>3
  <2> QED
    BY <2>2, <2>4
<1>2. clients[current].read \in {4, 5, 6}
  BY <1>1 DEF InBody
<1>3. request.length = 8 /\ request.body = SubSeq(Parts("submit"), 5, clients[current].read)
  BY Sizes DEF InBody
<1>4. clients[current].read # 4 /\ clients[current].read # 5
  <2>1. clients[current].read = 4 => Size(request.body) = 0
    BY <1>3, Halves, Sizes
  <2>2. clients[current].read = 5 => Size(request.body) = 4
    BY <1>3, Halves, Sizes
  <2> QED
    BY <1>3, <2>1, <2>2
<1>5. request.body = <<"half1", "half2">>
  BY <1>2, <1>3, <1>4, Halves
<1> QED
  BY <1>5, ArgumentsOf DEF Form, InBody

LEMMA ParseArgumentsStep ==
  ASSUME Typed, Served, ParseArguments
  PROVE  Typed' /\ Served'
<1>1. /\ pc = "body" /\ Size(request.body) >= request.length
      /\ args' = Form \X {current} /\ pc' = "handle"
      /\ UNCHANGED <<clients, queue, current, request, handler, stored>>
  BY DEF ParseArguments
<1>2. current \in Clients /\ current # None
  BY <1>1, Serving
<1>3. Form \subseteq Fields
  BY ArgumentsOf DEF Form
<1>4. Kind' = Kind
  BY <1>1 DEF Kind
<1>5. ClientsTyped' /\ QueueTyped' /\ RequestTyped'
  BY <1>1, <1>2 DEF Typed, ClientsTyped, QueueTyped, RequestTyped
<1>6. HandlerTyped'
  BY <1>1, <1>2, <1>3 DEF Typed, HandlerTyped
<1>7. Waiting'
  BY <1>1 DEF Served, Waiting
<1>8. ~request'.late => Whole'
  <2>1. ~request.late /\ Kind = "submit" => Form = Fields
    BY <1>1, WholeForm DEF Served, Parsing
  <2> QED
    BY <1>1, <1>4, <2>1 DEF Whole
<1>9. args' \subseteq Fields \X {current'}
  BY <1>1, <1>3
<1>10. Kind' # "noise" /\ handler' = HandlerOf(Kind')
  BY <1>1, <1>4 DEF Served, Parsing
<1>11. Parsing'
  BY <1>1, <1>8, <1>9, <1>10 DEF Parsing
<1>12. FormsAreWhole'
  BY <1>1 DEF Served, FormsAreWhole
<1> QED
  BY <1>5, <1>6, <1>7, <1>11, <1>12 DEF Typed, Served

LEMMA RestartStep ==
  ASSUME Typed, pc = "handle", handler = "reboot", HandleRequest
  PROVE  Typed' /\ Waiting' /\ Parsing'
<1>1. /\ clients' = [c \in Clients |->
                        [clients[c] EXCEPT !.answer = IF c = current THEN AnswerOf(handler) ELSE @,
                                           !.conn = IF @ = "away" THEN @ ELSE "closed"]]
      /\ queue' = << >> /\ current' = None /\ pc' = "accept" /\ request' = NoRequest
      /\ handler' = None /\ args' = {} /\ stored' = stored
  BY DEF HandleRequest
<1>2. ASSUME NEW c \in Clients
      PROVE  /\ clients'[c] \in Client /\ clients'[c].kind = clients[c].kind
             /\ clients'[c].read = clients[c].read /\ clients'[c].sent = clients[c].sent
  <2> DEFINE answer == IF c = current THEN AnswerOf(handler) ELSE clients[c].answer
  <2> DEFINE conn == IF clients[c].conn = "away" THEN clients[c].conn ELSE "closed"
  <2>1. clients[c] \in Client
    BY DEF Typed, ClientsTyped
  <2>2. answer \in {None, "page", "OK", "Rebooting"} /\ conn \in {"away", "open", "left", "closed"}
    BY <2>1, AnswerType DEF Client
  <2>3. clients'[c] = [clients[c] EXCEPT !.answer = answer, !.conn = conn]
    BY <1>1
  <2> HIDE DEF answer, conn
  <2> QED
    BY <2>1, <2>2, <2>3 DEF Client
<1>3. ClientsTyped'
  <2>1. clients' \in [Clients -> Client]
    BY <1>1, <1>2
  <2>2. \A c \in Clients : clients[c].read <= clients[c].sent /\ clients[c].sent <= Len(Parts(clients[c].kind))
    BY DEF Typed, ClientsTyped
  <2> QED
    BY <1>2, <2>1, <2>2 DEF ClientsTyped
<1>4. QueueTyped'
  <2>1. << >> \in Seq(Clients) /\ IsInjective(<< >>) /\ ToSet(<< >>) = {}
    BY DEF IsInjective, ToSet
  <2> QED
    BY <1>1, <2>1 DEF QueueTyped
<1>5. RequestTyped' /\ HandlerTyped'
  BY <1>1, NoRequestType DEF Typed, RequestTyped, HandlerTyped
<1>6. Waiting' /\ Parsing'
  <2>1. ToSet(<< >>) = {}
    BY DEF ToSet
  <2>2. Waiting'
    BY <1>1, <2>1 DEF Waiting
  <2>3. Parsing'
    BY <1>1 DEF Parsing
  <2> QED
    BY <2>2, <2>3
<1> QED
  BY <1>3, <1>4, <1>5, <1>6 DEF Typed

LEMMA AnswerStep ==
  ASSUME Typed, Served, pc = "handle", handler # "reboot", HandleRequest
  PROVE  Typed' /\ Waiting' /\ Parsing'
<1> DEFINE new == [clients[current] EXCEPT !.answer = AnswerOf(handler), !.conn = "closed"]
<1>1. /\ clients' = [clients EXCEPT ![current] = new] /\ current' = None /\ pc' = "accept"
      /\ request' = NoRequest /\ UNCHANGED <<queue, handler, args>>
      /\ stored' = IF handler = "submit" THEN [by |-> current, late |-> request.late, args |-> args] ELSE stored
  BY DEF HandleRequest
<1>2. current \in Clients /\ clients[current] \in Client
      /\ clients[current].read <= clients[current].sent /\ clients[current].sent <= Len(Parts(clients[current].kind))
  BY Serving DEF Kind
<1>3. /\ new \in Client /\ new.kind = clients[current].kind /\ new.conn = "closed"
      /\ new.sent = clients[current].sent /\ new.read = clients[current].read
  BY <1>2, AnswerType DEF Client
<1> HIDE DEF new
<1>4. ClientsTyped
  BY DEF Typed
<1>5. ClientsTyped' /\ clients'[current] = new /\ \A d \in Clients \ {current} : clients'[d] = clients[d]
  BY <1>1, <1>2, <1>3, <1>4, NewClient
<1>6. ToSet(queue) \subseteq Clients
  BY DEF Typed, QueueTyped, ToSet
<1>7. QueueTyped'
  BY <1>1, <1>6, NoneAssumption DEF Typed, QueueTyped
<1>8. RequestTyped'
  BY <1>1, NoRequestType DEF RequestTyped
<1>9. request.late \in BOOLEAN /\ args \subseteq Fields \X Clients
  BY DEF Typed, RequestTyped, HandlerTyped
<1>10. HandlerTyped'
  BY <1>1, <1>2, <1>9 DEF Typed, HandlerTyped
<1>11. Waiting'
  BY <1>1, <1>2, <1>3, <1>5, OthersWait DEF Served
<1>12. Parsing'
  BY <1>1 DEF Parsing
<1> QED
  BY <1>5, <1>7, <1>8, <1>10, <1>11, <1>12 DEF Typed

LEMMA StoredForm ==
  ASSUME Typed, Served, HandleRequest
  PROVE  FormsAreWhole'
<1>1. CASE handler = "submit"
  <2>1. pc = "handle" /\ stored' = [by |-> current, late |-> request.late, args |-> args]
    BY <1>1 DEF HandleRequest
  <2>2. Kind = "submit"
    <3>1. handler = HandlerOf(Kind) /\ Kind \in Kinds
      BY <2>1, Serving DEF Served, Parsing
    <3> QED
      BY <1>1, <3>1, NoneAssumption DEF HandlerOf, Kinds
  <2>3. args \subseteq Fields \X {current} /\ (~request.late => args = Fields \X {current})
    BY <2>1, <2>2 DEF Served, Parsing, Whole
  <2>4. stored'.by = current /\ stored'.args = args /\ (stored'.late <=> request.late)
    BY <2>1
  <2> QED
    BY <2>3, <2>4 DEF FormsAreWhole
<1>2. CASE handler # "submit"
  BY <1>2 DEF HandleRequest, Served, FormsAreWhole
<1> QED
  BY <1>1, <1>2

LEMMA Invariant == Spec => [](Typed /\ Served)
<1>1. Typed /\ Served /\ [Next]_vars => Typed' /\ Served'
  <2> SUFFICES ASSUME Typed, Served, [Next]_vars PROVE Typed' /\ Served'
    OBVIOUS
  <2>1. CASE \E c \in Clients, kind \in Kinds, prompt \in BOOLEAN : Connect(c, kind, prompt)
    BY <2>1, ConnectStep
  <2>2. CASE \E c \in Clients : Send(c) \/ Leave(c)
    BY <2>2, SendLeaveStep
  <2>3. CASE Accept
    BY <2>3, AcceptStep
  <2>4. CASE NothingCame
    BY <2>4, ReleaseStep DEF NothingCame
  <2>5. CASE ReadRequest
    BY <2>5, ReadRequestStep
  <2>6. CASE ReadHeader
    BY <2>6, ReadHeaderStep
  <2>7. CASE ReadBody
    BY <2>7, ReadBodyStep
  <2>8. CASE ParseArguments
    BY <2>8, ParseArgumentsStep
  <2>9. CASE HandleRequest
    <3>1. pc = "handle"
      BY <2>9 DEF HandleRequest
    <3>2. Typed' /\ Waiting' /\ Parsing'
      BY <2>9, <3>1, RestartStep, AnswerStep
    <3> QED
      BY <2>9, <3>2, StoredForm DEF Served
  <2>10. CASE UNCHANGED vars
    <3>1. UNCHANGED <<clients, queue, current, pc, request, handler, args, stored>>
      BY <2>10 DEF vars
    <3>2. Typed'
      BY <3>1 DEF Typed, ClientsTyped, QueueTyped, RequestTyped, HandlerTyped
    <3>3. Waiting' /\ FormsAreWhole'
      BY <3>1 DEF Served, Waiting, FormsAreWhole
    <3>4. Parsing'
      BY <3>1, SameClient DEF Served, Typed
    <3> QED
      BY <3>2, <3>3, <3>4 DEF Served
  <2> QED
    BY <2>1, <2>2, <2>3, <2>4, <2>5, <2>6, <2>7, <2>8, <2>9, <2>10 DEF Next, HandleClient
<1> QED
  BY <1>1, InitServed, PTL DEF Spec

-----------------------------------------------------------------------------
\* The server's variables have their types: a client is served or waits, once, and is
\* never read past what it sent.
THEOREM TypeCorrect == Spec => []TypeOK
BY Invariant, TypeParts, PTL

\* However many clients there are and wherever they pause or leave, a form is stored
\* whole, and with the fields of the one client that is answered, unless a line of its
\* head came late.
THEOREM StoresWholeForms == Spec => []FormsAreWhole
<1>1. Served => FormsAreWhole
  BY DEF Served
<1> QED
  BY <1>1, Invariant, PTL
=============================================================================
