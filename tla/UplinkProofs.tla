---------------------------- MODULE UplinkProofs ----------------------------
(***************************************************************************)
(* Theorems of Uplink, for every set of links and faults, any number of    *)
(* readings and restarts, and any length of the backlog.                   *)
(*                                                                         *)
(* OldestFirst and RepeatsAtMostOne say too little to be inductive. That a *)
(* stored reading which is erased is the only one of the file that may be  *)
(* repeated depends on what the file holds while the store is at rest, and *)
(* that a reading which is stored goes to the end on its being newer than  *)
(* what the vector and the file hold: see IInv. The refinement of the      *)
(* ledger and the count of the repetitions build on it: see LInv and RInv. *)
(***************************************************************************)
EXTENDS MCUplink, MCResend, TLAPS

-----------------------------------------------------------------------------
(***************************************************************************)
(* Backlogs as sequences of numbers                                        *)
(***************************************************************************)

Older(q, id) == \A i \in DOMAIN q : q[i] < id

\* In the order taken, up to reading n, and none but the oldest is done.
Backlog(q, n, done) ==
  /\ Increasing(q)
  /\ \A i \in DOMAIN q : q[i] <= n
  /\ \A i \in DOMAIN q : i > 1 => q[i] \notin done

LEMMA EmptyBacklog ==
  /\ << >> \in Seq(Nat)
  /\ \A n, done : Backlog(<< >>, n, done)
  /\ \A id : Older(<< >>, id)
BY DEF Backlog, Older, Increasing

\* A newer reading, not done, can be put at the end.
LEMMA AppendBacklog ==
  ASSUME NEW q \in Seq(Nat), NEW n \in Nat, NEW done, Backlog(q, n, done),
         NEW id \in Nat, Older(q, id), id <= n, id \notin done
  PROVE  Append(q, id) \in Seq(Nat) /\ Backlog(Append(q, id), n, done)
<1> DEFINE r == Append(q, id)
<1>1. /\ r \in Seq(Nat)
      /\ DOMAIN r = 1..(Len(q) + 1)
      /\ DOMAIN q = 1..Len(q)
      /\ Len(q) \in Nat
  OBVIOUS
<1>2. /\ \A i \in DOMAIN q : r[i] = q[i] /\ q[i] \in Nat
      /\ r[Len(q) + 1] = id
  OBVIOUS
<1> HIDE DEF r
<1>3. \A i \in DOMAIN r : i \in DOMAIN q \/ i = Len(q) + 1
  BY <1>1
<1>4. Increasing(r)
  <2> SUFFICES ASSUME NEW i \in DOMAIN r, NEW j \in DOMAIN r, i < j
               PROVE  r[i] < r[j]
    BY DEF Increasing
  <2>1. i \in DOMAIN q
    BY <1>1
  <2>2. CASE j \in DOMAIN q
    BY <1>2, <2>1, <2>2 DEF Backlog, Increasing
  <2>3. CASE j = Len(q) + 1
    BY <1>2, <2>1, <2>3 DEF Older
  <2> QED
    BY <1>3, <2>2, <2>3
<1>5. \A i \in DOMAIN r : r[i] <= n
  BY <1>2, <1>3 DEF Backlog
<1>6. \A i \in DOMAIN r : i > 1 => r[i] \notin done
  BY <1>2, <1>3 DEF Backlog
<1> QED
  BY <1>1, <1>4, <1>5, <1>6 DEF Backlog, r

\* When the oldest reading is done, it may stay or go.
LEMMA HeadOfBacklog ==
  ASSUME NEW q \in Seq(Nat), NEW n \in Nat, NEW done, Backlog(q, n, done),
         q # << >>
  PROVE  /\ Head(q) \in Nat /\ Head(q) <= n
         /\ \A i \in DOMAIN q : Head(q) <= q[i]
         /\ Backlog(q, n, done \cup {Head(q)})
         /\ Tail(q) \in Seq(Nat)
         /\ Backlog(Tail(q), n, done \cup {Head(q)})
<1>1. /\ DOMAIN q = 1..Len(q) /\ Len(q) \in Nat /\ Len(q) >= 1
      /\ Head(q) = q[1]
      /\ \A i \in DOMAIN q : q[i] \in Nat
  OBVIOUS
<1>2. \A i \in DOMAIN q : i > 1 => q[1] < q[i]
  BY <1>1 DEF Backlog, Increasing
<1>3. \A i \in DOMAIN q : Head(q) <= q[i]
  BY <1>1, <1>2
<1>4. Backlog(q, n, done \cup {Head(q)})
  BY <1>1, <1>2 DEF Backlog
<1> DEFINE t == Tail(q)
<1>5. /\ t \in Seq(Nat)
      /\ \A i \in DOMAIN t : i \in Nat /\ i >= 1 /\ i + 1 \in DOMAIN q /\ t[i] = q[i + 1]
  BY <1>1
<1> HIDE DEF t
<1>6. Backlog(t, n, done \cup {Head(q)})
  <2>1. Increasing(t)
    BY <1>5 DEF Backlog, Increasing
  <2>2. \A i \in DOMAIN t : t[i] <= n
    BY <1>5 DEF Backlog
  <2>3. \A i \in DOMAIN t : i > 1 => t[i] \notin done \cup {Head(q)}
    <3> SUFFICES ASSUME NEW i \in DOMAIN t PROVE t[i] \notin done \cup {Head(q)}
      OBVIOUS
    <3>1. i + 1 \in DOMAIN q /\ i + 1 > 1 /\ t[i] = q[i + 1]
      BY <1>5
    <3>2. q[i + 1] \notin done \cup {Head(q)}
      BY <1>4, <3>1 DEF Backlog
    <3> QED
      BY <3>1, <3>2
  <2> QED
    BY <2>1, <2>2, <2>3 DEF Backlog
<1> QED
  BY <1>1, <1>3, <1>4, <1>5, <1>6 DEF Backlog, t

\* A reading newer than all of a backlog may be done.
LEMMA NewerDone ==
  ASSUME NEW q \in Seq(Nat), NEW n, NEW done, Backlog(q, n, done),
         NEW id \in Nat, Older(q, id)
  PROVE  Backlog(q, n, done \cup {id})
BY DEF Backlog, Older

\* The next reading is newer than all of a backlog.
LEMMA NextReading ==
  ASSUME NEW q \in Seq(Nat), NEW n \in Nat, NEW done, Backlog(q, n, done)
  PROVE  Backlog(q, n + 1, done) /\ Older(q, n + 1)
<1>1. \A i \in DOMAIN q : q[i] \in Nat
  OBVIOUS
<1> QED
  BY <1>1 DEF Backlog, Older

-----------------------------------------------------------------------------
(***************************************************************************)
(* What the operations of the store do, as far as the uplink is concerned  *)
(***************************************************************************)

\* The file at rest is the vector, unless one of them is empty; OfflineSave
\* opens no old file.
Saved ==
  /\ spc = "idle" => file.body \in {entries, << >>} \/ entries = << >>
  /\ spc = "open" => file.body = << >>

LEMMA StoreFiles ==
  /\ \A f \in {Store!Absent, Store!Empty, Store!Torn, Store!Short} :
       f \in Store!File /\ f.st # "full" /\ f.body = << >> /\ f.damaged = {}
  /\ \A q \in Seq(Nat) : \A d \in SUBSET DOMAIN q :
       /\ Store!Full(q, d) \in Store!File /\ Store!Full(q, d).st = "full"
       /\ Store!Full(q, d).body = q /\ Store!Full(q, d).damaged = d
<1>1. \A q \in Seq(Nat) : DOMAIN q \subseteq Nat
  OBVIOUS
<1> QED
  BY <1>1, EmptyBacklog
  DEF Store!File, Store!Absent, Store!Empty, Store!Torn, Store!Short, Store!Full,
      Store!Incomplete

\* The positions of damaged readings stay within the vector.
LEMMA DamageWithin ==
  ASSUME Store!TypeOK
  PROVE  /\ \A id \in Nat : damaged \cup {Len(entries) + 1} \subseteq DOMAIN Append(entries, id)
         /\ \A id \in Nat : damaged \subseteq DOMAIN Append(entries, id)
         /\ Store!LoadPackets => damaged' \subseteq DOMAIN file.body
         /\ Store!LoadNothing => damaged' \subseteq DOMAIN entries'
<1>1. entries \in Seq(Nat) /\ damaged \subseteq DOMAIN entries
  BY DEF Store!TypeOK
<1>2. \A id \in Nat : damaged \cup {Len(entries) + 1} \subseteq DOMAIN Append(entries, id)
  BY <1>1
<1> QED
  BY <1>2 DEF Store!TypeOK, Store!LoadPackets, Store!LoadDamage, Store!LoadNothing

LEMMA StoreInit == Store!Init => Store!TypeOK /\ Saved
BY StoreFiles, EmptyBacklog DEF Store!Init, Store!TypeOK, Saved

LEMMA StoreBoot ==
  ASSUME Store!TypeOK, Store!Boot
  PROVE  /\ Store!TypeOK' /\ Saved' /\ spc' = "idle"
         /\ entries' \in {file.body, << >>}
         /\ file'.body \in {file.body, << >>}
<1>1. file' \in {file, Store!Absent} /\ spc' = "idle"
  BY DEF Store!Boot, Store!LoadPackets, Store!LoadRefused, Store!LoadMismatch
<1>2. /\ entries' = << >> \/ (entries' = file.body /\ file' = file)
      /\ damaged' \subseteq DOMAIN entries'
  <2>1. Store!LoadPackets \/ Store!LoadNothing
    BY DEF Store!Boot, Store!LoadRefused, Store!LoadMismatch
  <2> QED
    BY <2>1, DamageWithin DEF Store!LoadPackets, Store!LoadNothing
<1>3. file.body \in Seq(Nat)
  BY DEF Store!TypeOK, Store!File
<1> QED
  BY <1>1, <1>2, <1>3, StoreFiles, EmptyBacklog DEF Store!TypeOK, Saved

LEMMA StoreSaveData ==
  ASSUME Store!TypeOK, NEW id \in Nat, Store!SaveDataInMemory(id)
  PROVE  /\ Store!TypeOK' /\ Saved' /\ spc' = "remove"
         /\ entries' = Append(entries, id)
         /\ file' = file
BY DamageWithin DEF Store!TypeOK, Store!SaveDataInMemory, Saved

LEMMA StoreEraseFirst ==
  ASSUME Store!TypeOK, Store!EraseFirst
  PROVE  /\ Store!TypeOK' /\ Saved' /\ spc' = "remove"
         /\ entries' = Tail(entries)
         /\ file' = file
BY DEF Store!TypeOK, Store!EraseFirst, Store!DamagedInTail, Saved

LEMMA StoreSaveStep ==
  ASSUME Store!TypeOK, Saved, Store!SaveStep
  PROVE  /\ Store!TypeOK' /\ Saved' /\ spc' \in {"open", "print", "close", "idle"}
         /\ entries' = entries
         /\ file'.body \in {entries, << >>}
<1>1. CASE Store!SaveRemove
  BY <1>1, StoreFiles DEF Store!SaveRemove, Store!TypeOK, Saved
<1>2. CASE Store!SaveOpen
  BY <1>2, StoreFiles DEF Store!SaveOpen, Store!TypeOK, Saved
<1>3. CASE Store!SavePrint
  BY <1>3, StoreFiles DEF Store!SavePrint, Store!TypeOK, Saved
<1>4. CASE Store!SaveClose
  BY <1>4, StoreFiles DEF Store!SaveClose, Store!TypeOK, Saved
<1> QED
  BY <1>1, <1>2, <1>3, <1>4 DEF Store!SaveStep

LEMMA StorePowerLoss ==
  ASSUME Store!TypeOK, Store!PowerLoss
  PROVE  /\ Store!TypeOK' /\ Saved' /\ spc' = "off"
         /\ entries' = << >>
         /\ file' = file
BY EmptyBacklog DEF Store!TypeOK, Store!PowerLoss, Saved

LEMMA StoreUnchanged ==
  ASSUME Store!TypeOK, Saved, UNCHANGED storeVars
  PROVE  Store!TypeOK' /\ Saved'
BY DEF storeVars, Store!TypeOK, Saved

-----------------------------------------------------------------------------
(***************************************************************************)
(* The inductive invariant                                                 *)
(***************************************************************************)

\* The store is at work only where the task waits for it.
Scheduled ==
  /\ task = "off" => spc = "off"
  /\ task = "save" => spc \in {"remove", "open", "print", "close"}
  /\ task \notin {"off", "save"} => spc = "idle"

\* A reading just taken is newer than all that is stored; one that is posted
\* from the store is the oldest there.
InFlight ==
  Posting =>
    /\ cur.live => /\ Older(entries, cur.id) /\ Older(file.body, cur.id)
                   /\ cur.id <= txn /\ cur.id \notin acked
    /\ ~cur.live => entries # << >> /\ cur.id = Head(entries)

IInv ==
  /\ TypeOK
  /\ Scheduled
  /\ Saved
  /\ Backlog(entries, txn, acked)
  /\ Backlog(file.body, txn, acked)
  /\ \A id \in acked : id <= txn
  /\ InFlight

\* The invariant implies the two properties.
LEMMA IInvImplies == IInv => OldestFirst /\ RepeatsAtMostOne
<1> SUFFICES ASSUME IInv PROVE OldestFirst /\ RepeatsAtMostOne
  OBVIOUS
<1>1. entries \in Seq(Nat)
  BY DEF IInv, TypeOK, Store!TypeOK
<1>2. entries # << >> => \A i \in DOMAIN entries : Head(entries) <= entries[i]
  BY <1>1, HeadOfBacklog DEF IInv, TypeOK
<1>3. OldestFirst
  BY <1>2 DEF IInv, InFlight, Backlog, OldestFirst
<1>4. RepeatsAtMostOne
  BY DEF IInv, Backlog, RepeatsAtMostOne
<1> QED
  BY <1>3, <1>4

LEMMA IInvInit == Init => IInv
<1> SUFFICES ASSUME Init PROVE IInv
  OBVIOUS
<1>1. Store!TypeOK /\ Saved
  BY StoreInit DEF Init
<1>2. entries = << >> /\ file.body = << >> /\ spc = "off"
  BY StoreFiles DEF Init, Store!Init
<1>3. TypeOK
  BY <1>1, LinksAssumption DEF Init, TypeOK, Nothing, Request
<1>4. Scheduled /\ InFlight
  BY <1>2 DEF Init, Scheduled, InFlight, Posting
<1> QED
  BY <1>1, <1>2, <1>3, <1>4, EmptyBacklog DEF Init, IInv

-----------------------------------------------------------------------------
(***************************************************************************)
(* The invariant is preserved, action by action.                           *)
(***************************************************************************)

\* Facts about a state in IInv that most steps need.
LEMMA IInvFacts ==
  ASSUME IInv
  PROVE  /\ Store!TypeOK /\ Saved
         /\ entries \in Seq(Nat) /\ file.body \in Seq(Nat)
         /\ txn \in Nat /\ cur \in Request /\ cur.id \in Nat /\ cur.live \in BOOLEAN
BY DEF IInv, TypeOK, Store!TypeOK, Store!File, Request

LEMMA CopiesAreTexts ==
  ASSUME NEW whole \in BOOLEAN PROVE Copies(whole) \subseteq BOOLEAN
BY DEF Copies

LEMMA BootStep == ASSUME IInv, Boot PROVE IInv'
<1>1. /\ Store!TypeOK' /\ Saved' /\ spc' = "idle"
      /\ entries' \in {file.body, << >>}
      /\ file'.body \in {file.body, << >>}
  BY IInvFacts, StoreBoot DEF Boot
<1>2. TypeOK' /\ Scheduled' /\ InFlight'
  BY <1>1 DEF IInv, Boot, TypeOK, Scheduled, InFlight, Posting
<1>3. Backlog(entries, txn, acked)' /\ Backlog(file.body, txn, acked)'
  BY <1>1, EmptyBacklog DEF IInv, Boot
<1> QED
  BY <1>1, <1>2, <1>3 DEF IInv, Boot

LEMMA ConnectStep == ASSUME IInv, Connect \/ NoNetwork PROVE IInv'
<1>1. Store!TypeOK' /\ Saved'
  BY IInvFacts, StoreUnchanged DEF Connect, NoNetwork
<1>2. TypeOK'
  BY <1>1, LinksAssumption DEF IInv, TypeOK, Connect, NoNetwork
<1>3. Scheduled' /\ InFlight'
  BY DEF IInv, Connect, NoNetwork, storeVars, Scheduled, InFlight, Posting
<1>4. Backlog(entries, txn, acked)' /\ Backlog(file.body, txn, acked)'
  BY DEF IInv, Connect, NoNetwork, storeVars
<1> QED
  BY <1>1, <1>2, <1>3, <1>4 DEF IInv, Connect, NoNetwork

LEMMA ComposeStep == ASSUME IInv, Compose(txn + 1) PROVE IInv'
<1>1. Store!TypeOK' /\ Saved'
  BY IInvFacts, StoreUnchanged DEF Compose
<1>2. TypeOK'
  <2>1. cur' \in Request
    <3>1. \A w \in BOOLEAN : [id |-> txn + 1, live |-> TRUE, whole |-> w] \in Request
      BY IInvFacts DEF Request
    <3> QED
      BY <3>1, CopiesAreTexts DEF Compose
  <2> QED
    BY <1>1, <2>1, IInvFacts DEF IInv, TypeOK, Compose
<1>3. UNCHANGED <<entries, file, spc, acked>> /\ txn' = txn + 1 /\ cur'.id = txn + 1 /\ cur'.live = TRUE
  BY DEF Compose, storeVars
<1>4. /\ Backlog(entries, txn + 1, acked) /\ Older(entries, txn + 1)
      /\ Backlog(file.body, txn + 1, acked) /\ Older(file.body, txn + 1)
  BY IInvFacts, NextReading DEF IInv
<1>5. \A id \in acked : id \in Nat /\ id <= txn
  BY DEF IInv, TypeOK
<1>6. txn + 1 \notin acked /\ (\A id \in acked : id <= txn + 1)
  BY <1>5, IInvFacts
<1>7. Scheduled' /\ InFlight'
  BY <1>3, <1>4, <1>6, IInvFacts DEF IInv, Compose, Scheduled, InFlight
<1> QED
  BY <1>1, <1>2, <1>3, <1>4, <1>6, <1>7 DEF IInv

LEMMA PostStep == ASSUME IInv, Post PROVE IInv'
<1>1. Store!TypeOK' /\ Saved'
  BY IInvFacts, StoreUnchanged DEF Post
<1>2. TypeOK'
  <2>1. net' \subseteq Request
    <3>1. \A w \in BOOLEAN : [cur EXCEPT !.whole = w] \in Request
      BY IInvFacts DEF Request
    <3>2. cur.whole \in BOOLEAN
      BY IInvFacts DEF Request
    <3> QED
      BY <3>1, <3>2, CopiesAreTexts DEF IInv, TypeOK, Post
  <2> QED
    BY <1>1, <2>1, IInvFacts DEF IInv, TypeOK, Post
<1>3. Scheduled' /\ InFlight'
  BY DEF IInv, Post, storeVars, Scheduled, InFlight, Posting
<1>4. Backlog(entries, txn, acked)' /\ Backlog(file.body, txn, acked)'
  BY DEF IInv, Post, storeVars
<1> QED
  BY <1>1, <1>2, <1>3, <1>4 DEF IInv, Post

\* A post that failed: the reading taken last goes to the end of the backlog.
LEMMA FailedStep == ASSUME IInv, NoPrompt \/ TimedOut PROVE IInv'
<1>1. Posting /\ Failed /\ UNCHANGED <<link, cur, answered, txn, net, rcvd, acked>>
  BY DEF NoPrompt, TimedOut, Posting
<1>2. CASE cur.live
  <2>1. Store!SaveDataInMemory(cur.id) /\ task' = "save"
    BY <1>1, <1>2 DEF Failed
  <2>2. /\ Store!TypeOK' /\ Saved' /\ spc' = "remove"
        /\ entries' = Append(entries, cur.id) /\ file' = file
    BY <2>1, IInvFacts, StoreSaveData
  <2>3. /\ Older(entries, cur.id) /\ cur.id <= txn /\ cur.id \notin acked
    BY <1>1, <1>2 DEF IInv, InFlight
  <2>4. Backlog(entries', txn, acked)
    BY <2>2, <2>3, IInvFacts, AppendBacklog DEF IInv
  <2>5. TypeOK' /\ Scheduled' /\ InFlight'
    BY <1>1, <2>1, <2>2 DEF IInv, TypeOK, Scheduled, InFlight, Posting
  <2> QED
    BY <1>1, <2>2, <2>4, <2>5 DEF IInv
<1>3. CASE ~cur.live
  <2>1. UNCHANGED storeVars /\ task' = "compose"
    BY <1>1, <1>3 DEF Failed
  <2>2. Store!TypeOK' /\ Saved'
    BY <2>1, IInvFacts, StoreUnchanged
  <2>3. TypeOK' /\ Scheduled' /\ InFlight'
    BY <1>1, <2>1, <2>2 DEF IInv, TypeOK, Scheduled, InFlight, Posting, storeVars
  <2> QED
    BY <1>1, <2>1, <2>2, <2>3 DEF IInv, storeVars
<1> QED
  BY <1>2, <1>3, IInvFacts

\* A post that succeeded: a stored reading was the oldest one and is erased; a
\* reading just taken is newer than all that is stored.
LEMMA SentStep == ASSUME IInv, Sent PROVE IInv'
<1>1. Posting /\ acked' = acked \cup {cur.id} /\ UNCHANGED <<link, cur, answered, txn, net, rcvd>>
  BY DEF Sent, Posting
<1>2. cur.id <= txn => \A id \in acked' : id <= txn
  BY <1>1 DEF IInv
<1>3. CASE cur.live
  <2>1. UNCHANGED storeVars /\ task' = "load"
    BY <1>3 DEF Sent
  <2>2. Store!TypeOK' /\ Saved'
    BY <2>1, IInvFacts, StoreUnchanged
  <2>3. Older(entries, cur.id) /\ Older(file.body, cur.id) /\ cur.id <= txn
    BY <1>1, <1>3 DEF IInv, InFlight
  <2>4. Backlog(entries, txn, acked') /\ Backlog(file.body, txn, acked')
    BY <1>1, <2>3, IInvFacts, NewerDone DEF IInv
  <2>5. TypeOK' /\ Scheduled' /\ InFlight'
    BY <1>1, <2>1, <2>2, IInvFacts
    DEF IInv, Sent, TypeOK, Scheduled, InFlight, Posting, storeVars
  <2> QED
    BY <1>1, <1>2, <2>1, <2>2, <2>3, <2>4, <2>5 DEF IInv, storeVars
<1>4. CASE ~cur.live
  <2>1. Store!EraseFirst /\ task' = "save"
    BY <1>4 DEF Sent
  <2>2. /\ Store!TypeOK' /\ Saved' /\ spc' = "remove"
        /\ entries' = Tail(entries) /\ file' = file
    BY <2>1, IInvFacts, StoreEraseFirst
  <2>3. entries # << >> /\ cur.id = Head(entries) /\ file.body \in {entries, << >>}
    <3>1. entries # << >> /\ cur.id = Head(entries)
      BY <1>1, <1>4 DEF IInv, InFlight
    <3>2. spc = "idle"
      BY <2>1 DEF Store!EraseFirst
    <3> QED
      BY <3>1, <3>2 DEF IInv, Saved
  <2>4. /\ cur.id <= txn
        /\ Backlog(entries, txn, acked') /\ Backlog(Tail(entries), txn, acked')
    BY <1>1, <2>3, IInvFacts, HeadOfBacklog DEF IInv
  <2>5. Backlog(file.body, txn, acked')
    BY <2>3, <2>4, EmptyBacklog
  <2>6. TypeOK' /\ Scheduled' /\ InFlight'
    BY <1>1, <2>1, <2>2, IInvFacts DEF IInv, Sent, TypeOK, Scheduled, InFlight, Posting
  <2> QED
    BY <1>1, <1>2, <2>2, <2>4, <2>5, <2>6 DEF IInv
<1> QED
  BY <1>3, <1>4, IInvFacts

LEMMA LoadFirstStep == ASSUME IInv, LoadFirst PROVE IInv'
<1>1. Store!TypeOK' /\ Saved'
  BY IInvFacts, StoreUnchanged DEF LoadFirst
<1>2. entries # << >> => Head(entries) \in Nat
  BY IInvFacts
<1>3. TypeOK'
  <2>1. cur' \in Request
    <3>1. \A id \in Nat, w \in BOOLEAN : [id |-> id, live |-> FALSE, whole |-> w] \in Request
      BY DEF Request
    <3> QED
      BY <1>2, <3>1, IInvFacts, CopiesAreTexts DEF LoadFirst
  <2>2. task' \in {"compose", "post"} /\ UNCHANGED <<link, answered, txn, net, rcvd, acked>>
    BY DEF LoadFirst
  <2> QED
    BY <1>1, <2>1, <2>2 DEF IInv, TypeOK
<1>4. Scheduled' /\ InFlight'
  BY <1>2 DEF IInv, LoadFirst, storeVars, Scheduled, InFlight, Posting
<1>5. Backlog(entries, txn, acked)' /\ Backlog(file.body, txn, acked)'
  BY DEF IInv, LoadFirst, storeVars
<1> QED
  BY <1>1, <1>3, <1>4, <1>5 DEF IInv, LoadFirst

LEMMA SaveStepKept == ASSUME IInv, Save PROVE IInv'
<1>1. /\ Store!TypeOK' /\ Saved' /\ spc' \in {"open", "print", "close", "idle"}
      /\ entries' = entries
      /\ file'.body \in {entries, << >>}
  BY IInvFacts, StoreSaveStep DEF Save
<1>2. TypeOK' /\ Scheduled' /\ InFlight'
  BY <1>1 DEF IInv, Save, TypeOK, Scheduled, InFlight, Posting
<1>3. Backlog(file.body, txn, acked)'
  BY <1>1, EmptyBacklog DEF IInv, Save
<1> QED
  BY <1>1, <1>2, <1>3 DEF IInv, Save

LEMMA NetworkStep == ASSUME IInv, Network PROVE IInv'
<1>1. UNCHANGED <<entries, damaged, file, spc, task, link, cur, txn, acked>>
  BY DEF Network, Receive, Reject, Lose, storeVars
<1>2. Store!TypeOK' /\ Saved'
  BY <1>1, IInvFacts, StoreUnchanged DEF storeVars
<1>3. PICK m \in net : Receive(m) \/ Reject(m) \/ Lose(m)
  BY DEF Network
<1>4. m \in Request /\ m.id \in Nat
  BY DEF IInv, TypeOK, Request
<1>5. net' \subseteq Request /\ rcvd' \subseteq Nat
  BY <1>3, <1>4 DEF Receive, Reject, Lose, IInv, TypeOK
<1>6. answered' \in BOOLEAN
  BY <1>3 DEF Receive, Reject, Lose, Answer, IInv, TypeOK
<1>7. TypeOK'
  BY <1>1, <1>2, <1>5, <1>6 DEF IInv, TypeOK
<1>8. Scheduled' /\ InFlight'
  BY <1>1 DEF IInv, Scheduled, InFlight, Posting
<1> QED
  BY <1>1, <1>2, <1>7, <1>8 DEF IInv

LEMMA PowerLossStep == ASSUME IInv, PowerLoss PROVE IInv'
<1>1. /\ Store!TypeOK' /\ Saved' /\ spc' = "off"
      /\ entries' = << >> /\ file' = file
  BY IInvFacts, StorePowerLoss DEF PowerLoss
<1>2. TypeOK' /\ Scheduled' /\ InFlight'
  BY <1>1 DEF IInv, PowerLoss, TypeOK, Nothing, Request, Scheduled, InFlight, Posting
<1> QED
  BY <1>1, <1>2, EmptyBacklog DEF IInv, PowerLoss

LEMMA StutterStep == ASSUME IInv, UNCHANGED vars PROVE IInv'
<1>1. Store!TypeOK' /\ Saved'
  BY IInvFacts, StoreUnchanged DEF vars, storeVars
<1>2. TypeOK' /\ Scheduled' /\ InFlight'
  BY <1>1 DEF IInv, vars, TypeOK, Scheduled, InFlight, Posting
<1> QED
  BY <1>1, <1>2 DEF IInv, vars

LEMMA NextKeepsIInv == ASSUME IInv, [Next]_vars PROVE IInv'
<1>1. CASE Compose(txn + 1)
  BY <1>1, ComposeStep
<1>2. CASE Boot
  BY <1>2, BootStep
<1>3. CASE Connect \/ NoNetwork
  BY <1>3, ConnectStep
<1>4. CASE Post
  BY <1>4, PostStep
<1>5. CASE NoPrompt \/ TimedOut
  BY <1>5, FailedStep
<1>6. CASE Sent
  BY <1>6, SentStep
<1>7. CASE LoadFirst
  BY <1>7, LoadFirstStep
<1>8. CASE Save
  BY <1>8, SaveStepKept
<1>9. CASE Network
  BY <1>9, NetworkStep
<1>10. CASE PowerLoss
  BY <1>10, PowerLossStep
<1>11. CASE UNCHANGED vars
  BY <1>11, StutterStep
<1> QED
  BY <1>1, <1>2, <1>3, <1>4, <1>5, <1>6, <1>7, <1>8, <1>9, <1>10, <1>11
  DEF Next, Task

LEMMA Invariant == Spec => []IInv
<1>1. IInv /\ [Next]_vars => IInv'
  BY NextKeepsIInv
<1> QED
  BY <1>1, IInvInit, PTL DEF Spec

-----------------------------------------------------------------------------

\* Every value has its type, in every reachable state.
THEOREM TypeCorrect == Spec => []TypeOK
<1>1. IInv => TypeOK
  BY DEF IInv
<1> QED
  BY <1>1, Invariant, PTL

\* Whatever fails, the backlog is in the order the readings were taken, and
\* what is posted from it is the oldest.
THEOREM PostsOldestFirst == Spec => []OldestFirst
<1>1. IInv => OldestFirst
  BY IInvImplies
<1> QED
  BY <1>1, Invariant, PTL

\* Whatever fails, at most one reading that was taken for delivered is still
\* in the vector, and at most one in the file.
THEOREM RepeatsOneReading == Spec => []RepeatsAtMostOne
<1>1. IInv => RepeatsAtMostOne
  BY IInvImplies
<1> QED
  BY <1>1, Invariant, PTL

-----------------------------------------------------------------------------
(***************************************************************************)
(* The uplink keeps the promise of ReadingLedger, and its store is durable *)
(* at rest: with flash and heap that do not fail. First, what is read back *)
(***************************************************************************)

\* What a restart would find.
Kept == Store!Restorable(file)

Fits(q) == IF Len(q) <= MaxConfigurations THEN q ELSE << >>

LEMMA RangeOf ==
  /\ Range(<< >>) = {}
  /\ \A q \in Seq(Nat) : \A id \in Nat : Range(Append(q, id)) = Range(q) \cup {id}
  /\ \A q \in Seq(Nat) : q # << >> => Range(q) = Range(Tail(q)) \cup {Head(q)}
<1>1. Range(<< >>) = {}
  BY DEF Range
<1>2. ASSUME NEW q \in Seq(Nat), NEW id \in Nat
      PROVE  Range(Append(q, id)) = Range(q) \cup {id}
  <2> DEFINE r == Append(q, id)
  <2>1. /\ DOMAIN r = 1..(Len(q) + 1) /\ DOMAIN q = 1..Len(q) /\ Len(q) \in Nat
        /\ \A i \in DOMAIN q : r[i] = q[i]
        /\ r[Len(q) + 1] = id
    OBVIOUS
  <2> HIDE DEF r
  <2>2. \A i \in DOMAIN r : i \in DOMAIN q \/ i = Len(q) + 1
    BY <2>1
  <2>3. \A i \in DOMAIN q : i \in DOMAIN r
    BY <2>1
  <2>4. Len(q) + 1 \in DOMAIN r
    BY <2>1
  <2>5. Range(r) = Range(q) \cup {id}
    BY <2>1, <2>2, <2>3, <2>4 DEF Range
  <2> QED
    BY <2>5 DEF r
<1>3. ASSUME NEW q \in Seq(Nat), q # << >>
      PROVE  Range(q) = Range(Tail(q)) \cup {Head(q)}
  <2> DEFINE t == Tail(q)
  <2>1. /\ DOMAIN q = 1..Len(q) /\ Len(q) \in Nat /\ Len(q) >= 1 /\ Head(q) = q[1]
        /\ DOMAIN t = 1..(Len(q) - 1)
        /\ \A i \in DOMAIN t : t[i] = q[i + 1]
    BY <1>3
  <2> HIDE DEF t
  <2>2. \A i \in DOMAIN q : i = 1 \/ (i - 1 \in DOMAIN t /\ t[i - 1] = q[i])
    BY <2>1
  <2>3. \A i \in DOMAIN t : i + 1 \in DOMAIN q /\ t[i] = q[i + 1]
    BY <2>1
  <2>4. 1 \in DOMAIN q
    BY <2>1
  <2>5. Range(q) = Range(t) \cup {Head(q)}
    BY <2>1, <2>2, <2>3, <2>4 DEF Range
  <2> QED
    BY <2>5 DEF t
<1> QED
  BY <1>1, <1>2, <1>3

\* A load without faults finds all that can be restored.
LEMMA LoadsKept ==
  ASSUME StoreFaults = {}, Store!TypeOK, Store!Boot
  PROVE  entries' = Kept /\ Kept' = Kept /\ Len(entries') <= MaxConfigurations /\ spc' = "idle"
<1>1. Len(file.body) \in Nat /\ Len(<< >>) = 0 /\ file.st \in {"absent", "empty", "torn", "short", "full"}
  BY DEF Store!TypeOK, Store!File
<1>2. CASE Store!LoadPackets
  BY <1>2 DEF Store!LoadPackets, Store!Boot, Store!Restorable, Kept
<1>3. CASE Store!LoadRefused
  BY <1>1, <1>3, StoreFaults = {}, LimitAssumption
  DEF Store!LoadRefused, Store!LoadNothing, Store!Boot, Store!Restorable, Kept
<1>4. CASE Store!LoadMismatch
  BY <1>1, <1>4, LimitAssumption
  DEF Store!LoadMismatch, Store!LoadNothing, Store!Boot, Store!Absent, Store!Incomplete,
      Store!Restorable, Kept
<1> QED
  BY <1>2, <1>3, <1>4, StoreFaults = {} DEF Store!Boot

\* A save without faults takes the file away and brings the vector.
LEMMA SavesKept ==
  ASSUME StoreFaults = {}, Store!TypeOK, Store!SaveStep
  PROVE  /\ entries' = entries
         /\ \/ /\ spc \in {"remove", "open", "print"} /\ spc' \in {"open", "print", "close"}
               /\ Kept' = << >>
            \/ spc = "close" /\ spc' = "idle" /\ Kept' = Fits(entries)
<1>1. \A f \in {Store!Absent, Store!Empty, Store!Torn} : Store!Restorable(f) = << >>
  BY StoreFiles DEF Store!Restorable
<1>2. \A q \in Seq(Nat) : \A d \in SUBSET DOMAIN q :
        Store!Restorable(Store!Full(q, d)) = Fits(q)
  BY StoreFiles DEF Store!Restorable, Fits
<1>3. entries \in Seq(Nat) /\ damaged \in SUBSET DOMAIN entries
  BY DEF Store!TypeOK
<1> QED
  BY <1>1, <1>2, <1>3, StoreFaults = {}
  DEF Store!SaveStep, Store!SaveRemove, Store!SaveOpen, Store!SavePrint, Store!SaveClose, Kept

-----------------------------------------------------------------------------
(***************************************************************************)
(* The inductive invariant                                                 *)
(***************************************************************************)

Settled == rcvd \cup gone

\* At rest the file restores the vector, if it is not too long. A save begins
\* with a file of which all is in the vector or settled, and takes it away.
Durable ==
  /\ spc = "off" => entries = << >>
  /\ spc = "idle" => Kept = Fits(entries)
  /\ spc = "remove" => Range(Kept) \subseteq Range(entries) \cup Settled
  /\ spc \in {"open", "print", "close"} => Kept = << >>

\* Every reading anywhere was taken, and the one whose upload returns true is
\* settled.
Traced ==
  /\ Range(entries) \cup Range(Kept) \subseteq 1..txn
  /\ Posting => cur.id \in 1..txn
  /\ \A m \in net : m.id \in 1..txn
  /\ task = "await" /\ (answered \/ link = "GSM") => cur.id \in Settled

LInv == IInv /\ Durable /\ Traced

LedgerStep == Ledger!Next \/ UNCHANGED Ledger!vars

Gone ==
  gone' = gone
    \cup (IF answered' /\ ~answered THEN {cur.id} \ rcvd' ELSE {})
    \cup (IF link = "GSM" /\ task = "post" /\ task' = "await" THEN {cur.id} ELSE {})

\* The readings held, before and after a step.
LEMMA HeldIs ==
  /\ Held = Range(entries) \cup Range(Kept) \cup InHand
  /\ Held' = Range(entries') \cup Range(Kept') \cup InHand'
BY DEF Held, Kept

LEMMA LInvFacts ==
  ASSUME LInv
  PROVE  /\ IInv /\ Durable /\ Traced /\ Store!TypeOK
         /\ entries \in Seq(Nat) /\ Kept \in Seq(Nat) /\ txn \in Nat /\ cur.id \in Nat
         /\ cur.live \in BOOLEAN /\ answered \in BOOLEAN /\ link \in {"WiFi", "GSM"}
<1>1. Kept \in {file.body, << >>}
  BY DEF Kept, Store!Restorable
<1> QED
  BY <1>1, IInvFacts, EmptyBacklog DEF LInv, IInv, TypeOK

-----------------------------------------------------------------------------
(***************************************************************************)
(* Every step of the uplink is one of the ledger, or none.                 *)
(***************************************************************************)

LEMMA BootLedger ==
  ASSUME StoreFaults = {}, LInv, Boot, Gone
  PROVE  LedgerStep /\ Durable' /\ Traced'
<1>1. /\ task = "off" /\ task' = "connect" /\ spc = "off"
      /\ UNCHANGED <<link, cur, answered, txn, net, rcvd>>
  BY DEF Boot, LInv, IInv, Scheduled
<1>2. entries = << >> /\ entries' = Kept /\ Kept' = Kept /\ Len(entries') <= MaxConfigurations
      /\ spc' = "idle"
  BY <1>1, LInvFacts, LoadsKept DEF Boot, Durable
<1>3. gone' = gone
  BY <1>1 DEF Gone
<1>4. Held' = Held
  BY <1>1, <1>2, HeldIs, RangeOf DEF InHand, Posting
<1>5. Ledger!Restart
  BY <1>1, <1>3, <1>4 DEF Ledger!Restart
<1>6. Durable'
  BY <1>2 DEF Durable, Fits
<1>7. Traced'
  BY <1>1, <1>2, LInvFacts DEF Traced, Posting
<1> QED
  BY <1>5, <1>6, <1>7 DEF LedgerStep, Ledger!Next

LEMMA ConnectLedger ==
  ASSUME LInv, Connect \/ NoNetwork, Gone
  PROVE  LedgerStep /\ Durable' /\ Traced'
<1>1. /\ task = "connect" /\ task' \in {"compose", "none"}
      /\ UNCHANGED <<entries, file, spc, cur, answered, txn, net, rcvd>>
  BY DEF Connect, NoNetwork, storeVars
<1>2. gone' = gone /\ Kept' = Kept
  BY <1>1 DEF Gone, Kept
<1>3. Held' = Held
  BY <1>1, <1>2, HeldIs DEF InHand, Posting
<1>4. UNCHANGED Ledger!vars
  BY <1>1, <1>2, <1>3 DEF Ledger!vars
<1>5. Durable' /\ Traced'
  BY <1>1, <1>2, LInvFacts DEF Durable, Traced, Settled, Posting
<1> QED
  BY <1>4, <1>5 DEF LedgerStep

LEMMA ComposeLedger ==
  ASSUME LInv, Compose(txn + 1), Gone
  PROVE  LedgerStep /\ Durable' /\ Traced'
<1>1. /\ task = "compose" /\ task' = "post" /\ txn' = txn + 1
      /\ cur'.id = txn + 1 /\ cur'.live = TRUE
      /\ UNCHANGED <<entries, file, spc, link, answered, net, rcvd>>
  BY DEF Compose, storeVars
<1>2. gone' = gone /\ Kept' = Kept
  BY <1>1 DEF Gone, Kept
<1>3. Held' = Held \cup {txn + 1}
  BY <1>1, <1>2, HeldIs DEF InHand, Posting
<1>4. 1..txn' = 1..txn \cup {txn + 1} /\ txn + 1 \in 1..txn' /\ txn + 1 \notin 1..txn
  BY <1>1, LInvFacts
<1>5. Ledger!Take
  BY <1>1, <1>2, <1>3, <1>4 DEF Ledger!Take
<1>6. Durable' /\ Traced'
  BY <1>1, <1>2, <1>4, LInvFacts DEF Durable, Traced, Settled, Posting
<1> QED
  BY <1>5, <1>6 DEF LedgerStep, Ledger!Next

\* Over GSM, the modem has the reading from here on.
LEMMA PostLedger ==
  ASSUME LInv, Post, Gone
  PROVE  LedgerStep /\ Durable' /\ Traced'
<1>1. /\ task = "post" /\ task' = "await" /\ answered' = FALSE
      /\ UNCHANGED <<entries, file, spc, link, cur, txn, rcvd>>
      /\ \A m \in net' : m \in net \/ m.id = cur.id
  <2>1. cur \in Request
    BY IInvFacts DEF LInv
  <2>2. \A w : [cur EXCEPT !.whole = w].id = cur.id
    BY <2>1 DEF Request
  <2> QED
    BY <2>2 DEF Post, storeVars
<1>2. Kept' = Kept /\ gone' = IF link = "GSM" THEN gone \cup {cur.id} ELSE gone
  BY <1>1 DEF Gone, Kept
<1>3. Held' = Held
  BY <1>1, <1>2, HeldIs DEF InHand, Posting
<1>4. cur.id \in 1..txn
  BY <1>1, LInvFacts DEF Traced, Posting
<1>5. Ledger!Settle \/ UNCHANGED Ledger!vars
  <2>1. CASE link = "GSM"
    <3>1. (rcvd \cup gone)' = (rcvd \cup gone) \cup {cur.id}
      BY <1>1, <1>2, <2>1
    <3> QED
      BY <1>1, <1>3, <1>4, <3>1 DEF Ledger!Settle
  <2>2. CASE link # "GSM"
    BY <1>1, <1>2, <1>3, <2>2 DEF Ledger!vars
  <2> QED
    BY <2>1, <2>2
<1>6. Durable' /\ Traced'
  BY <1>1, <1>2, <1>4, LInvFacts DEF Durable, Traced, Settled, Posting
<1> QED
  BY <1>5, <1>6 DEF LedgerStep, Ledger!Next

\* What was not sent goes from the hand into the vector, or stays in it.
LEMMA FailedLedger ==
  ASSUME LInv, NoPrompt \/ TimedOut, Gone
  PROVE  LedgerStep /\ Durable' /\ Traced'
<1>1. /\ Posting /\ Failed /\ task' \in {"save", "compose"}
      /\ UNCHANGED <<link, cur, answered, txn, net, rcvd>>
  BY DEF NoPrompt, TimedOut, Posting, Failed
<1>2. gone' = gone
  BY <1>1 DEF Gone
<1>3. cur.id \in 1..txn
  BY <1>1, LInvFacts DEF Traced
<1>4. CASE cur.live
  <2>1. Store!SaveDataInMemory(cur.id) /\ task' = "save"
    BY <1>1, <1>4 DEF Failed
  <2>2. /\ spc = "idle" /\ spc' = "remove" /\ Kept' = Kept
        /\ entries' = Append(entries, cur.id)
    BY <2>1 DEF Store!SaveDataInMemory, Kept
  <2>3. Range(entries') = Range(entries) \cup {cur.id}
    BY <2>2, LInvFacts, RangeOf
  <2>4. Held' = Held
    BY <1>1, <1>4, <2>1, <2>2, <2>3, HeldIs DEF InHand, Posting
  <2>5. Range(Kept) \subseteq Range(entries)
    BY <2>2, LInvFacts, RangeOf DEF Durable, Fits
  <2>6. Durable' /\ Traced'
    BY <1>1, <1>2, <1>3, <2>1, <2>2, <2>3, <2>5, LInvFacts DEF Durable, Traced, Settled, Posting
  <2>7. UNCHANGED Ledger!vars
    <3>1. task # "off"
      BY <1>1 DEF Posting
    <3> QED
      BY <1>1, <1>2, <2>1, <2>4, <3>1 DEF Ledger!vars
  <2> QED
    BY <2>6, <2>7 DEF LedgerStep
<1>5. CASE ~cur.live
  <2>1. UNCHANGED <<entries, file, spc>> /\ task' = "compose" /\ Kept' = Kept
    BY <1>1, <1>5 DEF Failed, storeVars, Kept
  <2>2. Held' = Held
    BY <1>1, <1>5, <2>1, HeldIs DEF InHand, Posting
  <2>3. Durable' /\ Traced'
    BY <1>1, <1>2, <2>1, LInvFacts DEF Durable, Traced, Settled, Posting
  <2>4. UNCHANGED Ledger!vars
    <3>1. task # "off"
      BY <1>1 DEF Posting
    <3> QED
      BY <1>1, <1>2, <2>1, <2>2, <3>1 DEF Ledger!vars
  <2> QED
    BY <2>3, <2>4 DEF LedgerStep
<1> QED
  BY <1>4, <1>5

\* What was sent leaves the hand or the vector, and is settled.
LEMMA SentLedger ==
  ASSUME LInv, Sent, Gone
  PROVE  LedgerStep /\ Durable' /\ Traced'
<1>1. /\ task = "await" /\ Posting /\ task' \in {"load", "save"}
      /\ link = "GSM" \/ answered
      /\ UNCHANGED <<link, cur, answered, txn, net, rcvd>>
  BY LInvFacts DEF Sent, Posting
<1>2. gone' = gone
  BY <1>1 DEF Gone
<1>3. cur.id \in rcvd \cup gone
  BY <1>1, LInvFacts DEF Traced, Settled
<1>4. CASE cur.live
  <2>1. UNCHANGED <<entries, file, spc>> /\ task' = "load" /\ Kept' = Kept
    BY <1>4 DEF Sent, storeVars, Kept
  <2>2. Held' \subseteq Held /\ Held \ Held' \subseteq {cur.id}
    BY <1>1, <2>1, HeldIs DEF InHand, Posting
  <2>3. Ledger!Release
    BY <1>1, <1>2, <1>3, <2>1, <2>2 DEF Ledger!Release
  <2>4. Durable' /\ Traced'
    BY <1>1, <1>2, <2>1, LInvFacts DEF Durable, Traced, Settled, Posting
  <2> QED
    BY <2>3, <2>4 DEF LedgerStep, Ledger!Next
<1>5. CASE ~cur.live
  <2>1. Store!EraseFirst /\ task' = "save"
    BY <1>5 DEF Sent
  <2>2. /\ spc = "idle" /\ spc' = "remove" /\ Kept' = Kept
        /\ entries # << >> /\ entries' = Tail(entries) /\ cur.id = Head(entries)
    BY <1>1, <1>5, <2>1, LInvFacts DEF Store!EraseFirst, Kept, IInv, InFlight
  <2>3. Range(entries) = Range(entries') \cup {cur.id}
    BY <2>2, LInvFacts, RangeOf
  <2>4. Held' \subseteq Held /\ Held \ Held' \subseteq {cur.id}
    BY <1>1, <1>5, <2>2, <2>3, HeldIs DEF InHand, Posting
  <2>5. Ledger!Release
    BY <1>1, <1>2, <1>3, <2>1, <2>4 DEF Ledger!Release
  <2>6. Range(Kept) \subseteq Range(entries)
    BY <2>2, LInvFacts, RangeOf DEF Durable, Fits
  <2>7. Durable' /\ Traced'
    BY <1>1, <1>2, <1>3, <2>1, <2>2, <2>3, <2>6, LInvFacts
    DEF Durable, Traced, Settled, Posting
  <2> QED
    BY <2>5, <2>7 DEF LedgerStep, Ledger!Next
<1> QED
  BY <1>4, <1>5

LEMMA LoadFirstLedger ==
  ASSUME LInv, LoadFirst, Gone
  PROVE  LedgerStep /\ Durable' /\ Traced'
<1>1. /\ task = "load" /\ task' \in {"compose", "post"}
      /\ UNCHANGED <<entries, file, spc, link, answered, txn, net, rcvd>>
  BY DEF LoadFirst, storeVars
<1>2. gone' = gone /\ Kept' = Kept
  BY <1>1 DEF Gone, Kept
<1>3. task' = "post" => cur'.live = FALSE /\ entries # << >> /\ cur'.id = Head(entries)
  BY DEF LoadFirst
<1>4. task' = "post" => cur'.id \in 1..txn
  BY <1>3, LInvFacts, RangeOf DEF Traced
<1>5. Held' = Held
  BY <1>1, <1>2, <1>3, HeldIs DEF InHand, Posting
<1>6. UNCHANGED Ledger!vars
  BY <1>1, <1>2, <1>5 DEF Ledger!vars
<1>7. Durable' /\ Traced'
  BY <1>1, <1>2, <1>4, LInvFacts DEF Durable, Traced, Settled, Posting
<1> QED
  BY <1>6, <1>7 DEF LedgerStep

\* The file that goes holds nothing that is neither in the vector nor settled.
LEMMA SaveLedger ==
  ASSUME StoreFaults = {}, LInv, Save, Gone
  PROVE  LedgerStep /\ Durable' /\ Traced'
<1>1. /\ task = "save" /\ task' \in {"save", "compose"} /\ Store!SaveStep
      /\ UNCHANGED <<link, cur, answered, txn, net, rcvd>>
  BY DEF Save
<1>2. gone' = gone
  BY <1>1 DEF Gone
<1>3. /\ entries' = entries
      /\ \/ /\ spc \in {"remove", "open", "print"} /\ spc' \in {"open", "print", "close"}
            /\ Kept' = << >>
         \/ spc = "close" /\ spc' = "idle" /\ Kept' = Fits(entries)
  BY <1>1, LInvFacts, SavesKept
<1>4. /\ Range(Kept') \subseteq Range(entries)
      /\ Range(Kept) \subseteq Range(entries) \cup rcvd \cup gone
  BY <1>3, LInvFacts, RangeOf DEF Durable, Settled, Fits
<1>5. Held' \subseteq Held /\ Held \ Held' \subseteq rcvd \cup gone
  BY <1>1, <1>3, <1>4, HeldIs DEF InHand, Posting
<1>6. Ledger!Release
  BY <1>1, <1>2, <1>5 DEF Ledger!Release
<1>7. Durable' /\ Traced'
  BY <1>1, <1>2, <1>3, <1>4, LInvFacts DEF Durable, Traced, Settled, Posting
<1> QED
  BY <1>6, <1>7 DEF LedgerStep, Ledger!Next

LEMMA NetworkLedger ==
  ASSUME LInv, Network, Gone
  PROVE  LedgerStep /\ Durable' /\ Traced'
<1>1. UNCHANGED <<entries, file, spc, task, link, cur, txn>>
  BY DEF Network, Receive, Reject, Lose, storeVars
<1>2. PICK m \in net : Receive(m) \/ Reject(m) \/ Lose(m)
  BY DEF Network
<1>3. /\ m.id \in 1..txn /\ net' \subseteq net
      /\ rcvd' = rcvd \cup {m.id} \/ rcvd' = rcvd
      /\ answered' /\ ~answered => m.id = cur.id
  BY <1>2, LInvFacts DEF Traced, Receive, Reject, Lose, Answer
<1>4. gone' = IF answered' /\ ~answered THEN gone \cup ({m.id} \ rcvd') ELSE gone
  BY <1>1, <1>3 DEF Gone
<1>5. (rcvd \cup gone)' \in {rcvd \cup gone, (rcvd \cup gone) \cup {m.id}}
  BY <1>3, <1>4
<1>6. Kept' = Kept /\ Held' = Held
  BY <1>1, HeldIs DEF Kept, InHand, Posting
<1>7. Ledger!Settle \/ UNCHANGED Ledger!vars
  BY <1>1, <1>3, <1>5, <1>6 DEF Ledger!Settle, Ledger!vars
<1>8. Durable'
  BY <1>1, <1>5, <1>6, LInvFacts DEF Durable, Settled
<1>9. answered' /\ ~answered => cur.id \in (rcvd \cup gone)'
  BY <1>3, <1>4
<1>10. Traced'
  BY <1>1, <1>3, <1>5, <1>6, <1>9, LInvFacts DEF Traced, Settled, Posting
<1> QED
  BY <1>7, <1>8, <1>10 DEF LedgerStep, Ledger!Next

LEMMA PowerLossLedger ==
  ASSUME LInv, PowerLoss, Gone
  PROVE  LedgerStep /\ Durable' /\ Traced'
<1>1. /\ task' = "off" /\ spc # "off" /\ spc' = "off" /\ entries' = << >> /\ answered' = FALSE
      /\ UNCHANGED <<file, link, txn, net, rcvd>>
  BY DEF PowerLoss, Store!PowerLoss
<1>2. gone' = gone /\ Kept' = Kept /\ task # "off"
  BY <1>1, LInvFacts DEF Gone, Kept, IInv, Scheduled
<1>3. Held' \subseteq Held
  BY <1>1, <1>2, HeldIs, RangeOf DEF InHand, Posting
<1>4. Ledger!PowerLoss
  BY <1>1, <1>2, <1>3 DEF Ledger!PowerLoss
<1>5. Durable' /\ Traced'
  BY <1>1, <1>2, LInvFacts, RangeOf DEF Durable, Traced, Posting
<1> QED
  BY <1>4, <1>5 DEF LedgerStep, Ledger!Next

LEMMA StutterLedger ==
  ASSUME LInv, UNCHANGED <<vars, gone>>
  PROVE  LedgerStep /\ Durable' /\ Traced'
<1>1. UNCHANGED <<entries, file, spc, task, link, cur, answered, txn, net, rcvd, gone>>
  BY DEF vars
<1>2. Kept' = Kept /\ Held' = Held
  BY <1>1, HeldIs DEF Kept, InHand, Posting
<1>3. UNCHANGED Ledger!vars
  BY <1>1, <1>2 DEF Ledger!vars
<1>4. Durable' /\ Traced'
  BY <1>1, <1>2, LInvFacts DEF Durable, Traced, Settled, Posting
<1> QED
  BY <1>3, <1>4 DEF LedgerStep

-----------------------------------------------------------------------------

LEMMA LedgerInit == MCInit => Ledger!Init /\ Durable /\ Traced
<1> SUFFICES ASSUME MCInit PROVE Ledger!Init /\ Durable /\ Traced
  OBVIOUS
<1>1. /\ entries = << >> /\ spc = "off" /\ task = "off" /\ txn = 0 /\ net = {} /\ rcvd = {}
      /\ gone = {} /\ Kept = << >>
  BY StoreFiles DEF MCInit, Init, Store!Init, Kept, Store!Restorable
<1>2. Held = {} /\ 1..txn = {}
  BY <1>1, HeldIs, RangeOf DEF InHand, Posting
<1>3. Ledger!Init
  BY <1>1, <1>2 DEF Ledger!Init
<1>4. Durable /\ Traced
  BY <1>1, RangeOf DEF Durable, Traced, Posting
<1> QED
  BY <1>3, <1>4

LEMMA LedgerNext ==
  ASSUME StoreFaults = {}, LInv, [MCNext]_<<vars, gone>>
  PROVE  LedgerStep /\ Durable' /\ Traced'
<1>1. CASE UNCHANGED <<vars, gone>>
  BY <1>1, StutterLedger
<1>2. CASE MCNext
  <2>1. Next /\ Gone
    BY <1>2 DEF MCNext, Gone
  <2> QED
    BY <2>1, BootLedger, ConnectLedger, ComposeLedger, PostLedger, FailedLedger, SentLedger,
       LoadFirstLedger, SaveLedger, NetworkLedger, PowerLossLedger
    DEF Next, Task
<1> QED
  BY <1>1, <1>2

\* The history variable forbids no step of the uplink that it allows.
LEMMA MCImplies == MCSpec => Spec
<1>1. MCInit => Init
  BY DEF MCInit
<1>2. [MCNext]_<<vars, gone>> => [Next]_vars
  BY DEF MCNext
<1> QED
  BY <1>1, <1>2, PTL DEF MCSpec, Spec

LEMMA LedgerInvariant == ASSUME StoreFaults = {} PROVE MCSpec => []LInv
<1>1. MCSpec => []IInv
  BY MCImplies, Invariant, PTL
<1>2. MCInit => Durable /\ Traced
  BY LedgerInit
<1>3. IInv /\ (Durable /\ Traced) /\ [MCNext]_<<vars, gone>> => (Durable /\ Traced)'
  BY LedgerNext DEF LInv
<1>4. MCSpec => [](Durable /\ Traced)
  BY <1>1, <1>2, <1>3, PTL DEF MCSpec
<1>5. IInv /\ (Durable /\ Traced) => LInv
  BY DEF LInv
<1> QED
  BY <1>1, <1>4, <1>5, PTL

\* Without faults of flash and heap the uplink keeps the promise of the ledger
\* (WifiComm.cpp:569-585, GSMComm.cpp:320-325, SmEm.ino:58-69).
THEOREM KeepsTheLedger == ASSUME StoreFaults = {} PROVE MCSpec => ImplementsReadingLedger
<1>1. MCInit => Ledger!Init
  BY LedgerInit
<1>2. LInv /\ [MCNext]_<<vars, gone>> => [Ledger!Next]_Ledger!vars
  BY LedgerNext DEF LedgerStep
<1> QED
  BY <1>1, <1>2, LedgerInvariant, PTL DEF MCSpec, ImplementsReadingLedger, Ledger!Spec

\* Without faults of flash and heap, what a restart finds while the store is at
\* rest is the vector (Offlinedatasave.cpp:245-282 against 96-238).
THEOREM RestsDurable == ASSUME StoreFaults = {} PROVE MCSpec => []AtRestIsDurable
<1>1. LInv => AtRestIsDurable
  BY DEF LInv, Durable, Fits, Kept, AtRestIsDurable, Store!AtRestIsDurable
<1> QED
  BY <1>1, LedgerInvariant, PTL

-----------------------------------------------------------------------------
(***************************************************************************)
(* Repetitions over GSM. What can be handed over again is the first of the *)
(* vector, and it takes a power cut to bring it back there.                *)
(***************************************************************************)

FirstHanded(q) == q # << >> /\ Head(q) \in handed

OthersNot(q) == \A i \in DOMAIN q : i > 1 => q[i] \notin handed

Credited ==
  /\ credit \in 0..MaxCredit
  /\ \A id \in handed : id \in Nat /\ id <= txn
  /\ OthersNot(entries) /\ OthersNot(file.body)
  /\ Posting /\ cur.live /\ (task = "post" \/ link # "GSM") => cur.id \notin handed
  /\ task = "off" /\ FirstHanded(file.body) => credit >= 1
  /\ task # "off" /\ FirstHanded(entries) =>
       credit >= 1 \/ (task = "await" /\ link = "GSM" /\ ~cur.live)

RInv == IInv /\ Credited

\* What becomes of the history variables in a step.
Counted ==
  /\ handed' = IF Handover THEN handed \cup {cur.id} ELSE handed
  /\ credit' = IF Repeats THEN credit - 1 ELSE IF Cut THEN credit + 1 ELSE credit

LEMMA RInvFacts ==
  ASSUME RInv
  PROVE  /\ IInv /\ Credited
         /\ entries \in Seq(Nat) /\ file.body \in Seq(Nat) /\ txn \in Nat
         /\ cur.id \in Nat /\ cur.live \in BOOLEAN /\ link \in {"WiFi", "GSM"}
         /\ credit \in Nat /\ credit <= MaxCredit /\ MaxCredit \in Nat
BY IInvFacts, CreditAssumption DEF RInv, IInv, TypeOK, Credited

\* A step in which nothing is handed over and the power stays.
LEMMA Uncounted ==
  ASSUME Counted, task # "post" \/ task' # "await" \/ link # "GSM", task' # "off" \/ task = "off"
  PROVE  handed' = handed /\ credit' = credit
BY DEF Counted, Handover, Repeats, Cut

LEMMA FirstAndOthers ==
  /\ ~FirstHanded(<< >>) /\ OthersNot(<< >>)
  /\ \A q \in Seq(Nat) : OthersNot(q) => ~FirstHanded(Tail(q)) /\ OthersNot(Tail(q))
  /\ \A q \in Seq(Nat), id \in Nat :
       OthersNot(q) /\ id \notin handed =>
         OthersNot(Append(q, id)) /\ (FirstHanded(Append(q, id)) => FirstHanded(q))
<1>1. ~FirstHanded(<< >>) /\ OthersNot(<< >>)
  BY DEF FirstHanded, OthersNot
<1>2. ASSUME NEW q \in Seq(Nat), OthersNot(q)
      PROVE  ~FirstHanded(Tail(q)) /\ OthersNot(Tail(q))
  <2>1. CASE q = << >>
    BY <1>1, <2>1
  <2>2. CASE q # << >>
    <3> DEFINE t == Tail(q)
    <3>1. /\ t # << >> => Head(t) = t[1] /\ 1 \in DOMAIN t
          /\ \A i \in DOMAIN t : i \in Nat /\ i >= 1 /\ i + 1 \in DOMAIN q /\ t[i] = q[i + 1]
      BY <2>2
    <3>2. \A i \in DOMAIN t : t[i] \notin handed
      BY <1>2, <3>1 DEF OthersNot
    <3> HIDE DEF t
    <3>3. ~FirstHanded(t) /\ OthersNot(t)
      BY <3>1, <3>2 DEF FirstHanded, OthersNot
    <3> QED
      BY <3>3 DEF t
  <2> QED
    BY <2>1, <2>2
<1>3. ASSUME NEW q \in Seq(Nat), NEW id \in Nat, OthersNot(q), id \notin handed
      PROVE  OthersNot(Append(q, id)) /\ (FirstHanded(Append(q, id)) => FirstHanded(q))
  <2> DEFINE r == Append(q, id)
  <2>1. /\ DOMAIN r = 1..(Len(q) + 1) /\ DOMAIN q = 1..Len(q) /\ Len(q) \in Nat
        /\ \A i \in DOMAIN q : r[i] = q[i]
        /\ r[Len(q) + 1] = id /\ Head(r) = r[1]
        /\ q # << >> => Len(q) >= 1 /\ Head(q) = q[1]
    OBVIOUS
  <2> HIDE DEF r
  <2>2. OthersNot(r)
    <3>1. \A i \in DOMAIN r : i \in DOMAIN q \/ i = Len(q) + 1
      BY <2>1
    <3> QED
      BY <1>3, <2>1, <3>1 DEF OthersNot
  <2>3. FirstHanded(r) => FirstHanded(q)
    <3>1. CASE q = << >>
      BY <1>3, <2>1, <3>1 DEF FirstHanded
    <3>2. CASE q # << >>
      BY <2>1, <3>2 DEF FirstHanded
    <3> QED
      BY <3>1, <3>2
  <2> QED
    BY <2>2, <2>3 DEF r
<1> QED
  BY <1>1, <1>2, <1>3

LEMMA BootCredit == ASSUME RInv, Boot, Counted PROVE Credited'
<1>1. entries' \in {file.body, << >>} /\ file'.body \in {file.body, << >>}
  BY RInvFacts, IInvFacts, StoreBoot DEF Boot
<1>2. task = "off" /\ task' = "connect" /\ txn' = txn
  BY DEF Boot
<1>3. handed' = handed /\ credit' = credit
  BY <1>2, Uncounted
<1>4. (OthersNot(entries) /\ OthersNot(file.body))'
  BY <1>1, <1>3, RInvFacts, FirstAndOthers DEF Credited, OthersNot
<1>5. FirstHanded(entries)' => credit >= 1
  BY <1>1, <1>2, <1>3, RInvFacts, FirstAndOthers DEF Credited, FirstHanded
<1> QED
  BY <1>2, <1>3, <1>4, <1>5, RInvFacts DEF Credited, Posting

LEMMA ComposeCredit == ASSUME RInv, Compose(txn + 1), Counted PROVE Credited'
<1>1. /\ UNCHANGED <<entries, file, link>> /\ task = "compose" /\ task' = "post"
      /\ txn' = txn + 1 /\ cur'.id = txn + 1 /\ cur'.live = TRUE
  BY DEF Compose, storeVars
<1>2. handed' = handed /\ credit' = credit
  BY <1>1, Uncounted
<1>3. txn + 1 \notin handed /\ \A id \in handed : id <= txn + 1
  BY RInvFacts DEF Credited
<1> QED
  BY <1>1, <1>2, <1>3, RInvFacts DEF Credited, OthersNot, FirstHanded, Posting

\* The one step that hands a reading over: again only if it is the first of the vector.
LEMMA PostCredit == ASSUME RInv, Post, Counted PROVE Credited'
<1>1. /\ UNCHANGED <<entries, file, cur, link, txn>> /\ task = "post" /\ task' = "await"
  BY DEF Post, storeVars
<1>2. CASE link = "WiFi"
  <2>1. handed' = handed /\ credit' = credit
    BY <1>1, <1>2, Uncounted
  <2> QED
    BY <1>1, <1>2, <2>1, RInvFacts DEF Credited, OthersNot, FirstHanded, Posting
<1>3. CASE link = "GSM"
  <2>1. handed' = handed \cup {cur.id} /\ credit' = IF cur.id \in handed THEN credit - 1 ELSE credit
    BY <1>1, <1>3 DEF Counted, Handover, Repeats, Cut
  <2>2. CASE cur.live
    <3>1. /\ cur.id \notin handed /\ cur.id <= txn
          /\ Older(entries, cur.id) /\ Older(file.body, cur.id)
      BY <1>1, <2>2, RInvFacts DEF Credited, IInv, InFlight, Posting
    <3>2. \A q \in {entries, file.body} : \A i \in DOMAIN q : q[i] # cur.id
      BY <3>1, RInvFacts DEF Older
    <3>3. \A q \in {entries, file.body} : OthersNot(q)' /\ (FirstHanded(q)' => FirstHanded(q))
      <4>1. \A q \in {entries, file.body} : q # << >> => Head(q) = q[1] /\ 1 \in DOMAIN q
        BY RInvFacts
      <4> QED
        BY <1>1, <2>1, <3>2, <4>1, RInvFacts DEF Credited, OthersNot, FirstHanded
    <3>4. credit' = credit /\ (FirstHanded(entries) => credit >= 1)
      BY <1>1, <2>1, <3>1, RInvFacts DEF Credited
    <3> QED
      BY <1>1, <1>3, <2>1, <3>1, <3>3, <3>4, RInvFacts DEF Credited, Posting
  <2>3. CASE ~cur.live
    <3>1. entries # << >> /\ cur.id = Head(entries) /\ file.body \in {entries, << >>}
      BY <1>1, <2>3, RInvFacts DEF IInv, InFlight, Posting, Saved, Scheduled
    <3>2. cur.id \in handed => credit >= 1
      BY <1>1, <3>1, RInvFacts DEF Credited, FirstHanded
    <3>3. cur.id <= txn /\ cur.id = entries[1]
      BY <3>1, RInvFacts DEF IInv, Backlog
    <3>4. \A i \in DOMAIN entries : i > 1 => entries[i] # cur.id
      BY <3>3, RInvFacts DEF IInv, Backlog, Increasing
    <3>5. OthersNot(entries)'
      BY <1>1, <2>1, <3>4, RInvFacts DEF Credited, OthersNot
    <3>6. OthersNot(file.body)'
      BY <1>1, <3>1, <3>5 DEF OthersNot
    <3> QED
      BY <1>1, <1>3, <2>1, <2>3, <3>2, <3>3, <3>5, <3>6, RInvFacts DEF Credited, Posting
  <2> QED
    BY <2>2, <2>3, RInvFacts
<1> QED
  BY <1>2, <1>3, RInvFacts

LEMMA FailedCredit == ASSUME RInv, NoPrompt \/ TimedOut, Counted PROVE Credited'
<1>1. /\ Posting /\ Failed /\ task' \in {"save", "compose"} /\ UNCHANGED <<cur, txn, link>>
      /\ task = "post" \/ link # "GSM"
  BY DEF NoPrompt, TimedOut, Posting, Failed
<1>2. handed' = handed /\ credit' = credit
  BY <1>1, Uncounted
<1>3. CASE cur.live
  <2>1. /\ entries' = Append(entries, cur.id) /\ file' = file /\ cur.id \notin handed
    BY <1>1, <1>3, RInvFacts DEF Failed, Store!SaveDataInMemory, Credited
  <2>2. OthersNot(entries') /\ (FirstHanded(entries') => FirstHanded(entries))
    BY <2>1, RInvFacts, FirstAndOthers DEF Credited
  <2> QED
    BY <1>1, <1>2, <1>3, <2>1, <2>2, RInvFacts DEF Credited, OthersNot, FirstHanded, Posting
<1>4. CASE ~cur.live
  <2>1. UNCHANGED <<entries, file>>
    BY <1>1, <1>4 DEF Failed, storeVars
  <2> QED
    BY <1>1, <1>2, <2>1, RInvFacts DEF Credited, OthersNot, FirstHanded, Posting
<1> QED
  BY <1>3, <1>4, RInvFacts

LEMMA SentCredit == ASSUME RInv, Sent, Counted PROVE Credited'
<1>1. /\ task = "await" /\ Posting /\ task' \in {"load", "save"} /\ UNCHANGED <<cur, txn, link>>
  BY DEF Sent, Posting
<1>2. handed' = handed /\ credit' = credit
  BY <1>1, Uncounted
<1>3. CASE cur.live
  <2>1. UNCHANGED <<entries, file>>
    BY <1>3 DEF Sent, storeVars
  <2> QED
    BY <1>1, <1>2, <1>3, <2>1, RInvFacts DEF Credited, OthersNot, FirstHanded, Posting
<1>4. CASE ~cur.live
  <2>1. entries' = Tail(entries) /\ file' = file
    BY <1>4 DEF Sent, Store!EraseFirst
  <2>2. OthersNot(entries') /\ ~FirstHanded(entries')
    BY <2>1, RInvFacts, FirstAndOthers DEF Credited
  <2> QED
    BY <1>1, <1>2, <2>1, <2>2, RInvFacts DEF Credited, OthersNot, FirstHanded, Posting
<1> QED
  BY <1>3, <1>4, RInvFacts

LEMMA LoadFirstCredit == ASSUME RInv, LoadFirst, Counted PROVE Credited'
<1>1. /\ UNCHANGED <<entries, file, link, txn>> /\ task = "load" /\ task' \in {"compose", "post"}
      /\ task' = "post" => cur'.live = FALSE
  BY DEF LoadFirst, storeVars
<1>2. handed' = handed /\ credit' = credit
  BY <1>1, Uncounted
<1> QED
  BY <1>1, <1>2, RInvFacts DEF Credited, OthersNot, FirstHanded, Posting

LEMMA SaveCredit == ASSUME RInv, Save, Counted PROVE Credited'
<1>1. entries' = entries /\ file'.body \in {entries, << >>}
  BY RInvFacts, IInvFacts, StoreSaveStep DEF Save
<1>2. task = "save" /\ task' \in {"compose", "save"} /\ UNCHANGED <<link, cur, txn>>
  BY DEF Save
<1>3. handed' = handed /\ credit' = credit
  BY <1>2, Uncounted
<1>4. (OthersNot(entries) /\ OthersNot(file.body))'
  BY <1>1, <1>3, RInvFacts, FirstAndOthers DEF Credited, OthersNot
<1> QED
  BY <1>1, <1>2, <1>3, <1>4, RInvFacts DEF Credited, FirstHanded, Posting

\* Connect, the network and no step at all.
LEMMA OtherCredit ==
  ASSUME RInv, Connect \/ NoNetwork \/ Network \/ UNCHANGED <<vars, handed, credit>>,
         Counted \/ UNCHANGED <<vars, handed, credit>>
  PROVE  Credited'
<1>1. /\ UNCHANGED <<entries, file, cur, txn>>
      /\ \/ UNCHANGED <<task, link>>
         \/ task = "connect" /\ task' \in {"compose", "none"}
  BY DEF Connect, NoNetwork, Network, Receive, Reject, Lose, vars, storeVars
<1>2. handed' = handed /\ credit' = credit
  BY <1>1, Uncounted
<1> QED
  BY <1>1, <1>2, RInvFacts DEF Credited, OthersNot, FirstHanded, Posting

\* A cut is counted, or as many are as can be.
LEMMA PowerLossCredit == ASSUME RInv, PowerLoss, Counted PROVE Credited'
<1>1. /\ task # "off" /\ task' = "off" /\ entries' = << >> /\ UNCHANGED <<file, txn>>
  BY RInvFacts DEF PowerLoss, Store!PowerLoss, IInv, Scheduled
<1>2. handed' = handed /\ credit' = IF credit < MaxCredit THEN credit + 1 ELSE credit
  BY <1>1 DEF Counted, Handover, Repeats, Cut
<1>3. credit' \in 0..MaxCredit /\ credit' >= 1
  BY <1>2, RInvFacts, CreditAssumption
<1> QED
  BY <1>1, <1>2, <1>3, RInvFacts, FirstAndOthers DEF Credited, OthersNot, FirstHanded, Posting

LEMMA ResendInvariant == ResendSpec => []RInv
<1>1. ResendInit => RInv
  <2>1. Init => entries = << >> /\ file.body = << >> /\ task = "off"
    BY StoreFiles DEF Init, Store!Init
  <2> QED
    BY <2>1, IInvInit, FirstAndOthers, CreditAssumption DEF ResendInit, RInv, Credited, Posting
<1>2. RInv /\ [ResendNext]_<<vars, handed, credit>> => RInv'
  <2> SUFFICES ASSUME RInv, [ResendNext]_<<vars, handed, credit>> PROVE RInv'
    OBVIOUS
  <2>1. IInv'
    <3>1. IInv /\ [Next]_vars
      BY DEF RInv, ResendNext
    <3> QED
      BY <3>1, NextKeepsIInv
  <2>2. CASE UNCHANGED <<vars, handed, credit>>
    BY <2>1, <2>2, OtherCredit DEF RInv
  <2>3. CASE ResendNext
    <3>1. Next /\ Counted
      BY <2>3 DEF ResendNext, Counted
    <3>2. Credited'
      BY <3>1, BootCredit, ComposeCredit, PostCredit, FailedCredit, SentCredit, LoadFirstCredit,
         SaveCredit, OtherCredit, PowerLossCredit
      DEF Next, Task
    <3> QED
      BY <2>1, <3>2 DEF RInv
  <2> QED
    BY <2>2, <2>3
<1> QED
  BY <1>1, <1>2, PTL DEF ResendSpec

\* Over GSM readings are handed over a second time at most as often as the power was
\* cut, whatever fails (GSMComm.cpp:264-326, Offlinedatasave.cpp:78-81).
THEOREM RepeatsAreCutShort == ResendSpec => []RepeatsPerPowerCut
<1>1. RInv => RepeatsPerPowerCut
  BY RInvFacts DEF RepeatsPerPowerCut
<1> QED
  BY <1>1, ResendInvariant, PTL
=============================================================================
