--------------------------- MODULE DurableBacklog ---------------------------
(***************************************************************************)
(* What the offline store of the meter promises to the task that uploads   *)
(* readings: a queue, of which a copy survives a power cut.                *)
(*                                                                         *)
(* The copy is nothing, or a value the whole queue had when a change of it *)
(* was completed: a restart brings back every reading of that value in its *)
(* place, or none. The copy is given up while a change is being written,   *)
(* and when the store is opened after a restart; never at rest.            *)
(*                                                                         *)
(* A reading may be damaged when it enters the queue and when a restart    *)
(* brings it back, if the heap runs out; nowhere else. A reading that is   *)
(* damaged in the queue or in the copy never becomes whole again.          *)
(***************************************************************************)
EXTENDS Naturals, Sequences

CONSTANTS
  Packet,           \* the readings that can be queued
  MayDamage         \* may memory be short?

VARIABLES
  queue,            \* the backlog the uploading task works on
  durable,          \* the backlog a restart would find
  phase             \* is the store off, at rest, or writing a change?

vars == <<queue, durable, phase>>

\* Readings, and the positions of those that are damaged.
Backlog == [items : Seq(Packet), damaged : SUBSET Nat]

None == [items |-> << >>, damaged |-> {}]

TypeOK ==
  /\ queue \in Backlog
  /\ durable \in Backlog
  /\ phase \in {"off", "clean", "dirty"}

Init ==
  /\ queue = None
  /\ durable = None
  /\ phase = "off"

Enqueue(p) ==
  /\ phase = "clean"
  /\ \E d \in {{}, {Len(queue.items) + 1}} :
       /\ d # {} => MayDamage
       /\ queue' = [items |-> Append(queue.items, p), damaged |-> queue.damaged \cup d]
  /\ phase' = "dirty"
  /\ UNCHANGED durable

Dequeue ==
  /\ phase = "clean"
  /\ queue.items # << >>
  /\ queue' = [items |-> Tail(queue.items),
               damaged |-> {i \in DOMAIN Tail(queue.items) : i + 1 \in queue.damaged}]
  /\ phase' = "dirty"
  /\ UNCHANGED durable

\* The old copy is dropped before the new one is complete.
GiveUp ==
  /\ phase = "dirty"
  /\ durable' = None
  /\ UNCHANGED <<queue, phase>>

\* The change is written out; the copy is the whole queue, or it is unusable.
Complete ==
  /\ phase = "dirty"
  /\ durable' \in {queue, None}
  /\ phase' = "clean"
  /\ UNCHANGED queue

PowerLoss ==
  /\ phase # "off"
  /\ queue' = None
  /\ phase' = "off"
  /\ UNCHANGED durable

Damaged(copy) ==
  IF MayDamage THEN SUBSET DOMAIN copy.items ELSE {{}}

Restart ==
  /\ phase = "off"
  /\ \/ queue' = None
     \/ \E d \in Damaged(durable) :
          queue' = [items |-> durable.items, damaged |-> durable.damaged \cup d]
  /\ durable' \in {durable, None}
  /\ phase' = "clean"

Next ==
  \/ \E p \in Packet : Enqueue(p)
  \/ Dequeue
  \/ GiveUp
  \/ Complete
  \/ PowerLoss
  \/ Restart

Spec == Init /\ [][Next]_vars
=============================================================================
