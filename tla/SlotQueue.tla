------------------------------ MODULE SlotQueue ------------------------------
(***************************************************************************)
(* What a pool promises, without controllers, caches and calls: its slots  *)
(* are handed out to its tasks in the order of their arrival, and a task   *)
(* is only let through when there is a slot for it and for every task      *)
(* before it.  AgentPool implements this (RefinesQueue there).             *)
(***************************************************************************)
EXTENDS Integers, FiniteSets

CONSTANTS
  Tasks,   \* names of tasks
  Pools    \* names of pools

VARIABLES
  place,    \* place[p][t]: where task t is with respect to pool p
  arrival,  \* arrival[t]: when task t arrived
  slots     \* slots[p]: how many tasks of pool p may work at a time

queueVars == <<place, arrival, slots>>

Places == {"absent", "queued", "admitted", "working", "ended"}

QueueTypeOK ==
  /\ place \in [Pools -> [Tasks -> Places]]
  /\ arrival \in [Tasks -> Nat]
  /\ slots \in [Pools -> Nat]

At(p, where) == {t \in Tasks : place[p][t] \in where}

(* The tasks that are before t, and t itself.                              *)
Ahead(p, t) == {u \in At(p, {"queued", "admitted"}) : arrival[u] <= arrival[t]}

(* There is a slot for t and for every task before it.                     *)
HasSlot(p, t) ==
  Cardinality(At(p, {"working"})) + Cardinality(Ahead(p, t)) <= slots[p]

QueueInit ==
  /\ place = [p \in Pools |-> [t \in Tasks |-> "absent"]]
  /\ arrival = [t \in Tasks |-> 0]
  /\ slots \in [Pools -> Nat]

Goes(p, t, to) == place' = [place EXCEPT ![p][t] = to]

(* A task arrives, after all that are there.                               *)
Arrive(p, t) ==
  /\ \A q \in Pools : place[q][t] = "absent"
  /\ arrival' \in [Tasks -> Nat]
  /\ \A u \in Tasks \ {t} : arrival'[u] = arrival[u] /\ arrival[u] < arrival'[t]
  /\ Goes(p, t, "queued")
  /\ UNCHANGED slots

Grant(p, t) ==
  /\ place[p][t] = "queued"
  /\ HasSlot(p, t)
  /\ Goes(p, t, "admitted")
  /\ UNCHANGED <<arrival, slots>>

Start(p, t) ==
  /\ place[p][t] = "admitted"
  /\ Goes(p, t, "working")
  /\ UNCHANGED <<arrival, slots>>

(* A task comes to its end, with or without having worked.                 *)
Finish(p, t) ==
  /\ place[p][t] \in {"queued", "admitted", "working"}
  /\ Goes(p, t, "ended")
  /\ UNCHANGED <<arrival, slots>>

(* A task is removed, at any time.                                         *)
Leave(p, t) ==
  /\ place[p][t] # "absent"
  /\ Goes(p, t, "absent")
  /\ arrival' = [arrival EXCEPT ![t] = 0]
  /\ UNCHANGED slots

QueueNext ==
  \E p \in Pools, t \in Tasks :
    Arrive(p, t) \/ Grant(p, t) \/ Start(p, t) \/ Finish(p, t) \/ Leave(p, t)

QueueSpec == QueueInit /\ [][QueueNext]_queueVars

-----------------------------------------------------------------------------
(* What follows from it; AgentPool has the last two in its own terms.      *)

(* A task belongs to one pool, and of any tasks one came last.             *)
OneQueueEach ==
  \A t \in Tasks : \A p, q \in Pools :
    place[p][t] # "absent" /\ place[q][t] # "absent" => p = q

HasLast ==
  \A S \in SUBSET Tasks :
    S # {} => \E t \in S : \A u \in S : arrival[u] <= arrival[t]

(* No more tasks work than there are slots.                                *)
WorkFits == \A p \in Pools : Cardinality(At(p, {"working"})) <= slots[p]

(* No task has been let through without a slot for it and for the tasks    *)
(* before it.                                                              *)
InOrder ==
  \A p \in Pools, t \in Tasks : place[p][t] = "admitted" => HasSlot(p, t)

(* Never are there more tasks working and let through than slots.          *)
NotOverbooked ==
  \A p \in Pools : Cardinality(At(p, {"working", "admitted"})) <= slots[p]

QueueInv == QueueTypeOK /\ OneQueueEach /\ HasLast /\ WorkFits /\ InOrder
=============================================================================
