--------------------------- MODULE SlotQueueProofs ---------------------------
(***************************************************************************)
(* What the queue of a pool guarantees, for any finite set of tasks, any   *)
(* number of pools and of slots.                                           *)
(***************************************************************************)
EXTENDS SlotQueue, FiniteSetTheorems, TLAPS

(* Sets of tasks have cardinalities, and a subset has no larger one.       *)
LEMMA TaskCards ==
  ASSUME IsFiniteSet(Tasks), NEW S \in SUBSET Tasks
  PROVE  /\ IsFiniteSet(S) /\ Cardinality(S) \in Nat
         /\ \A T \in SUBSET S : Cardinality(T) \in Nat /\ Cardinality(T) <= Cardinality(S)
  <1>1. IsFiniteSet(S)
    BY FS_Subset
  <1>2. \A T \in SUBSET S : IsFiniteSet(T) /\ Cardinality(T) <= Cardinality(S)
    BY <1>1, FS_Subset
  <1> QED  BY <1>1, <1>2, FS_CardinalityType

(* A task more is one more.                                                *)
LEMMA OneMore ==
  ASSUME IsFiniteSet(Tasks), NEW S \in SUBSET Tasks, NEW t \in Tasks, t \notin S
  PROVE  Cardinality(S \union {t}) = Cardinality(S) + 1
  BY TaskCards, FS_AddElement

(* The union is no larger than the sum.                                    *)
LEMMA UnionCard ==
  ASSUME IsFiniteSet(Tasks), NEW S \in SUBSET Tasks, NEW T \in SUBSET Tasks
  PROVE  Cardinality(S \union T) <= Cardinality(S) + Cardinality(T)
  <1>1. IsFiniteSet(S) /\ IsFiniteSet(T) /\ IsFiniteSet(S \cap T)
    BY TaskCards
  <1>2. Cardinality(S \union T) =
          Cardinality(S) + Cardinality(T) - Cardinality(S \cap T)
    BY <1>1, FS_Union
  <1>3. Cardinality(S) \in Nat /\ Cardinality(T) \in Nat /\ Cardinality(S \cap T) \in Nat
    BY TaskCards
  <1> QED  BY <1>2, <1>3

-----------------------------------------------------------------------------
(* The invariant is inductive.                                             *)

LEMMA InitInv == ASSUME IsFiniteSet(Tasks) PROVE QueueInit => QueueInv
  <1> SUFFICES ASSUME QueueInit PROVE QueueInv
    OBVIOUS
  <1> USE DEF QueueInit
  <1>1. QueueTypeOK
    BY DEF QueueTypeOK, Places
  <1>2. \A p \in Pools : At(p, {"working"}) = {}
    BY DEF At
  <1>3. WorkFits
    BY <1>2, FS_EmptySet DEF WorkFits
  <1>4. OneQueueEach /\ HasLast /\ InOrder
    BY DEF OneQueueEach, HasLast, InOrder
  <1> QED  BY <1>1, <1>3, <1>4 DEF QueueInv

(* The slots and the arrivals of other tasks stay, and places change only  *)
(* by the steps below.                                                     *)
LEMMA TypeStep ==
  ASSUME QueueTypeOK, [QueueNext]_queueVars
  PROVE  QueueTypeOK'
  <1> USE DEF QueueTypeOK, Goes, Places
  <1>1. ASSUME NEW p \in Pools, NEW t \in Tasks, Arrive(p, t) PROVE QueueTypeOK'
    BY <1>1 DEF Arrive
  <1>2. ASSUME NEW p \in Pools, NEW t \in Tasks, Grant(p, t) PROVE QueueTypeOK'
    BY <1>2 DEF Grant
  <1>3. ASSUME NEW p \in Pools, NEW t \in Tasks, Start(p, t) PROVE QueueTypeOK'
    BY <1>3 DEF Start
  <1>4. ASSUME NEW p \in Pools, NEW t \in Tasks, Finish(p, t) PROVE QueueTypeOK'
    BY <1>4 DEF Finish
  <1>5. ASSUME NEW p \in Pools, NEW t \in Tasks, Leave(p, t) PROVE QueueTypeOK'
    BY <1>5 DEF Leave
  <1>6. CASE UNCHANGED queueVars
    BY <1>6 DEF queueVars
  <1> QED  BY <1>1, <1>2, <1>3, <1>4, <1>5, <1>6 DEF QueueNext

(* Only a task that is in no queue arrives.                                *)
LEMMA OneQueueStep ==
  ASSUME QueueTypeOK, OneQueueEach, [QueueNext]_queueVars
  PROVE  OneQueueEach'
  <1> USE DEF QueueTypeOK, Goes, OneQueueEach
  <1>1. ASSUME NEW p \in Pools, NEW t \in Tasks, Arrive(p, t) PROVE OneQueueEach'
    BY <1>1 DEF Arrive
  <1>2. ASSUME NEW p \in Pools, NEW t \in Tasks, Grant(p, t) PROVE OneQueueEach'
    BY <1>2 DEF Grant
  <1>3. ASSUME NEW p \in Pools, NEW t \in Tasks, Start(p, t) PROVE OneQueueEach'
    BY <1>3 DEF Start
  <1>4. ASSUME NEW p \in Pools, NEW t \in Tasks, Finish(p, t) PROVE OneQueueEach'
    BY <1>4 DEF Finish
  <1>5. ASSUME NEW p \in Pools, NEW t \in Tasks, Leave(p, t) PROVE OneQueueEach'
    BY <1>5 DEF Leave
  <1>6. CASE UNCHANGED queueVars
    BY <1>6 DEF queueVars
  <1> QED  BY <1>1, <1>2, <1>3, <1>4, <1>5, <1>6 DEF QueueNext

(* A task arrives after all others, and one that leaves counts as first:   *)
(* of any tasks one came last, before the step and after it.               *)
LEMMA HasLastStep ==
  ASSUME QueueTypeOK, HasLast, [QueueNext]_queueVars
  PROVE  HasLast'
  <1>1. ASSUME NEW p \in Pools, NEW t \in Tasks, Arrive(p, t) PROVE HasLast'
    <2> SUFFICES ASSUME NEW S \in SUBSET Tasks, S # {}
                 PROVE  \E x \in S : \A u \in S : arrival'[u] <= arrival'[x]
      BY DEF HasLast
    <2>1. arrival' \in [Tasks -> Nat] /\ arrival \in [Tasks -> Nat]
      BY <1>1 DEF Arrive, QueueTypeOK
    <2>2. \A u \in Tasks \ {t} : arrival'[u] = arrival[u] /\ arrival[u] < arrival'[t]
      BY <1>1 DEF Arrive
    <2>3. CASE t \in S
      <3>1. \A u \in S : arrival'[u] <= arrival'[t]
        BY <2>1, <2>2
      <3> QED  BY <3>1, <2>3
    <2>4. CASE t \notin S
      <3>1. PICK x \in S : \A u \in S : arrival[u] <= arrival[x]
        BY DEF HasLast
      <3> QED  BY <3>1, <2>2, <2>4
    <2> QED  BY <2>3, <2>4
  <1>2. ASSUME NEW p \in Pools, NEW t \in Tasks, Leave(p, t) PROVE HasLast'
    <2> SUFFICES ASSUME NEW S \in SUBSET Tasks, S # {}
                 PROVE  \E x \in S : \A u \in S : arrival'[u] <= arrival'[x]
      BY DEF HasLast
    <2>1. /\ arrival \in [Tasks -> Nat] /\ arrival'[t] = 0
          /\ \A u \in Tasks \ {t} : arrival'[u] = arrival[u]
      BY <1>2 DEF Leave, QueueTypeOK
    <2>2. CASE S = {t}
      BY <2>1, <2>2
    <2>3. CASE S # {t}
      <3>1. S \ {t} \in SUBSET Tasks /\ S \ {t} # {}
        BY <2>3
      <3>2. PICK x \in S \ {t} : \A u \in S \ {t} : arrival[u] <= arrival[x]
        BY <3>1 DEF HasLast
      <3>3. \A u \in S : arrival'[u] <= arrival'[x]
        BY <3>2, <2>1
      <3> QED  BY <3>2, <3>3
    <2> QED  BY <2>2, <2>3
  <1>3. CASE UNCHANGED arrival
    BY <1>3 DEF HasLast
  <1> QED
    BY <1>1, <1>2, <1>3 DEF QueueNext, queueVars, Grant, Start, Finish

(* What the sets of a pool are, and that a let-through task counts itself. *)
LEMMA Sets ==
  ASSUME NEW p \in Pools
  PROVE  /\ \A W : At(p, W) \in SUBSET Tasks
         /\ \A t \in Tasks : Ahead(p, t) \in SUBSET Tasks
  BY DEF At, Ahead

(* A task that does not join the working ones, nor the queue before t, and *)
(* takes nothing from t, leaves t its slot.                                *)
LEMMA SlotKept ==
  ASSUME IsFiniteSet(Tasks), QueueTypeOK, QueueTypeOK', slots' = slots,
         NEW p \in Pools, NEW t \in Tasks, HasSlot(p, t),
         At(p, {"working"})' \subseteq At(p, {"working"}),
         Ahead(p, t)' \subseteq Ahead(p, t)
  PROVE  HasSlot(p, t)'
  <1>1. /\ Cardinality(At(p, {"working"})') <= Cardinality(At(p, {"working"}))
        /\ Cardinality(Ahead(p, t)') <= Cardinality(Ahead(p, t))
        /\ Cardinality(At(p, {"working"})) \in Nat /\ Cardinality(Ahead(p, t)) \in Nat
        /\ Cardinality(At(p, {"working"})') \in Nat /\ Cardinality(Ahead(p, t)') \in Nat
    BY Sets, TaskCards
  <1>2. slots[p] \in Nat
    BY DEF QueueTypeOK
  <1> QED  BY <1>1, <1>2 DEF HasSlot

(* A step that starts no task takes no slot from a waiting task.           *)
LEMMA OthersKeep ==
  ASSUME IsFiniteSet(Tasks), QueueTypeOK, OneQueueEach, QueueTypeOK',
         NEW p \in Pools, NEW t \in Tasks,
         Arrive(p, t) \/ Grant(p, t) \/ Finish(p, t) \/ Leave(p, t),
         NEW q \in Pools, NEW u \in Tasks, HasSlot(q, u),
         place[q][u] \in {"queued", "admitted"}, place'[q][u] \in {"queued", "admitted"}
  PROVE  HasSlot(q, u)'
  <1> USE DEF QueueTypeOK, Goes
  <1>2. slots' = slots
    BY DEF Arrive, Grant, Finish, Leave
  <1>3. At(q, {"working"})' \subseteq At(q, {"working"})
    BY DEF At, Arrive, Grant, Finish, Leave
  <1>4. Ahead(q, u)' \subseteq Ahead(q, u)
    <2>1. CASE Arrive(p, t)
      <3>1. t # u /\ arrival'[u] = arrival[u] /\ arrival[u] < arrival'[t]
        BY <2>1 DEF Arrive
      <3>2. arrival' \in [Tasks -> Nat] /\ \A x \in Tasks \ {t} : arrival'[x] = arrival[x]
        BY <2>1 DEF Arrive
      <3>3. t \notin Ahead(q, u)'
        BY <3>1, <3>2 DEF Ahead, At
      <3>4. \A x \in Tasks \ {t} : place'[q][x] = place[q][x]
        BY <2>1 DEF Arrive
      <3> QED  BY <3>1, <3>2, <3>3, <3>4 DEF Ahead, At
    <2>2. CASE Grant(p, t)
      BY <2>2 DEF Grant, Ahead, At
    <2>3. CASE Finish(p, t)
      BY <2>3 DEF Finish, Ahead, At
    <2>4. CASE Leave(p, t)
      <3>1. t # u /\ arrival'[u] = arrival[u]
        <4>1. CASE q = p
          BY <2>4, <4>1 DEF Leave
        <4>2. CASE q # p
          BY <2>4, <4>2 DEF Leave, OneQueueEach
        <4> QED  BY <4>1, <4>2, <2>4 DEF Leave
      <3>2. place'[q][t] \notin {"queued", "admitted"}
        BY <2>4 DEF Leave, OneQueueEach
      <3>3. \A x \in Tasks \ {t} : place'[q][x] = place[q][x] /\ arrival'[x] = arrival[x]
        BY <2>4 DEF Leave
      <3> QED  BY <3>1, <3>2, <3>3 DEF Ahead, At
    <2> QED  BY <2>1, <2>2, <2>3, <2>4
  <1> QED  BY <1>2, <1>3, <1>4, SlotKept

(* A task that starts had a slot, counted with those before it: a task     *)
(* before it keeps its own, and so does one that counted it.               *)
LEMMA StartKeeps ==
  ASSUME IsFiniteSet(Tasks), QueueTypeOK, InOrder, QueueTypeOK',
         NEW p \in Pools, NEW t \in Tasks, Start(p, t),
         NEW u \in Tasks \ {t}, HasSlot(p, u)
  PROVE  HasSlot(p, u)'
  <1> DEFINE W == At(p, {"working"})
  <1> USE DEF QueueTypeOK, Goes
  <1>1. /\ At(p, {"working"})' = W \union {t} /\ t \notin W
        /\ Ahead(p, u)' = Ahead(p, u) \ {t}
        /\ place[p][t] = "admitted" /\ slots' = slots /\ slots[p] \in Nat
    BY DEF Start, At, Ahead
  <1>2. Cardinality(W \union {t}) = Cardinality(W) + 1
    BY <1>1, Sets, OneMore
  <1>3. /\ Cardinality(W) \in Nat /\ Cardinality(Ahead(p, u)) \in Nat
        /\ Cardinality(Ahead(p, t)) \in Nat /\ Cardinality(Ahead(p, u) \ {t}) \in Nat
    BY Sets, TaskCards
  <1>4. /\ Cardinality(W) + Cardinality(Ahead(p, u)) <= slots[p]
        /\ Cardinality(W) + Cardinality(Ahead(p, t)) <= slots[p]
    BY <1>1 DEF InOrder, HasSlot
  <1>5. Cardinality(Ahead(p, u) \ {t}) + 1 <= slots[p] - Cardinality(W)
    <2>1. CASE t \in Ahead(p, u)
      <3>1. (Ahead(p, u) \ {t}) \union {t} = Ahead(p, u)
        BY <2>1
      <3>2. Cardinality(Ahead(p, u) \ {t}) + 1 = Cardinality(Ahead(p, u))
        <4>1. Ahead(p, u) \ {t} \in SUBSET Tasks
          BY Sets
        <4> QED  BY <3>1, <4>1, OneMore
      <3> QED  BY <3>2, <1>3, <1>4
    <2>2. CASE t \notin Ahead(p, u)
      <3>1. (Ahead(p, u) \ {t}) \union {t} \subseteq Ahead(p, t)
        BY <2>2, <1>1 DEF Ahead, At
      <3>2. Cardinality((Ahead(p, u) \ {t}) \union {t}) = Cardinality(Ahead(p, u) \ {t}) + 1
        <4>1. Ahead(p, u) \ {t} \in SUBSET Tasks
          BY Sets
        <4> QED  BY <4>1, OneMore
      <3>3. Cardinality((Ahead(p, u) \ {t}) \union {t}) <= Cardinality(Ahead(p, t))
        BY <3>1, Sets, TaskCards
      <3> QED  BY <3>2, <3>3, <1>3, <1>4
    <2> QED  BY <2>1, <2>2
  <1>6. Cardinality(W \union {t}) + Cardinality(Ahead(p, u) \ {t}) <= slots[p]
    BY <1>1, <1>2, <1>3, <1>5
  <1>7. /\ Cardinality(At(p, {"working"})') = Cardinality(W \union {t})
        /\ Cardinality(Ahead(p, u)') = Cardinality(Ahead(p, u) \ {t})
    BY <1>1
  <1> HIDE DEF W
  <1> QED  BY <1>1, <1>6, <1>7 DEF HasSlot

(* There being a slot for a task and for all before it is stable: whatever  *)
(* happens to the others, until the task itself starts or goes.            *)
LEMMA SlotStays ==
  ASSUME IsFiniteSet(Tasks), QueueInv, QueueTypeOK', [QueueNext]_queueVars,
         NEW q \in Pools, NEW u \in Tasks, HasSlot(q, u),
         place[q][u] \in {"queued", "admitted"}, place'[q][u] \in {"queued", "admitted"}
  PROVE  HasSlot(q, u)'
  <1> USE DEF QueueInv
  <1>1. ASSUME NEW p \in Pools, NEW t \in Tasks, Start(p, t) PROVE HasSlot(q, u)'
    <2>1. ~(q = p /\ u = t)
      BY <1>1 DEF Start, Goes, QueueTypeOK
    <2>2. CASE q = p
      BY <1>1, <2>1, <2>2, StartKeeps
    <2>3. CASE q # p
      <3>1. /\ slots' = slots
            /\ At(q, {"working"})' \subseteq At(q, {"working"})
            /\ Ahead(q, u)' \subseteq Ahead(q, u)
        BY <1>1, <2>3 DEF Start, Goes, QueueTypeOK, At, Ahead
      <3> QED  BY <3>1, SlotKept
    <2> QED  BY <2>2, <2>3
  <1>2. ASSUME NEW p \in Pools, NEW t \in Tasks,
               Arrive(p, t) \/ Grant(p, t) \/ Finish(p, t) \/ Leave(p, t)
        PROVE  HasSlot(q, u)'
    BY <1>2, OthersKeep
  <1>3. CASE UNCHANGED queueVars
    BY <1>3 DEF queueVars, HasSlot, At, Ahead
  <1> QED  BY <1>1, <1>2, <1>3 DEF QueueNext

(* A granted task had its slot when it was granted, and keeps it until it  *)
(* starts.                                                                 *)
LEMMA InOrderStep ==
  ASSUME IsFiniteSet(Tasks), QueueInv, QueueTypeOK', [QueueNext]_queueVars
  PROVE  InOrder'
  <1> SUFFICES ASSUME NEW q \in Pools, NEW u \in Tasks, place'[q][u] = "admitted"
               PROVE  HasSlot(q, u)'
    BY DEF InOrder
  <1>1. CASE place[q][u] = "admitted"
    <2>1. HasSlot(q, u)
      BY <1>1 DEF QueueInv, InOrder
    <2> QED  BY <1>1, <2>1, SlotStays
  <1>2. CASE place[q][u] # "admitted"
    <2>1. Grant(q, u)
      BY <1>2 DEF QueueNext, queueVars, Arrive, Grant, Start, Finish, Leave, Goes,
                  QueueInv, QueueTypeOK
    <2>2. HasSlot(q, u) /\ place[q][u] = "queued"
      BY <2>1 DEF Grant
    <2> QED  BY <2>2, SlotStays
  <1> QED  BY <1>1, <1>2

(* A task that starts had a slot, and counted itself.                      *)
LEMMA WorkFitsStep ==
  ASSUME IsFiniteSet(Tasks), QueueInv, QueueTypeOK', [QueueNext]_queueVars
  PROVE  WorkFits'
  <1> USE DEF QueueInv
  <1> SUFFICES ASSUME NEW q \in Pools
               PROVE  Cardinality(At(q, {"working"})') <= slots'[q]
    BY DEF WorkFits
  <1> DEFINE W == At(q, {"working"})
  <1>1. /\ W \in SUBSET Tasks /\ Cardinality(W) \in Nat /\ slots[q] \in Nat
        /\ Cardinality(W) <= slots[q]
    BY Sets, TaskCards DEF WorkFits, QueueTypeOK
  <1>2. CASE slots' = slots /\ At(q, {"working"})' \subseteq W
    <2>1. Cardinality(At(q, {"working"})') \in Nat /\ Cardinality(At(q, {"working"})') <= Cardinality(W)
      BY <1>1, <1>2, TaskCards
    <2> QED  BY <1>1, <1>2, <2>1
  <1>3. ASSUME NEW t \in Tasks, Start(q, t)
        PROVE  Cardinality(At(q, {"working"})') <= slots'[q]
    <2>1. /\ At(q, {"working"})' = W \union {t} /\ t \notin W
          /\ place[q][t] = "admitted" /\ slots' = slots
      BY <1>3 DEF Start, Goes, At, QueueTypeOK
    <2>2. {t} \subseteq Ahead(q, t) /\ Ahead(q, t) \in SUBSET Tasks
      BY <2>1 DEF Ahead, At, QueueTypeOK
    <2>3. Cardinality(Ahead(q, t)) >= 1 /\ Cardinality(Ahead(q, t)) \in Nat
      <3>1. Cardinality({t}) = 1
        BY FS_Singleton
      <3>2. Cardinality({t}) <= Cardinality(Ahead(q, t))
        BY <2>2, TaskCards
      <3>3. Cardinality(Ahead(q, t)) \in Nat
        BY <2>2, TaskCards
      <3> QED  BY <3>1, <3>2, <3>3
    <2>4. Cardinality(W) + Cardinality(Ahead(q, t)) <= slots[q]
      BY <2>1 DEF InOrder, HasSlot
    <2>5. Cardinality(W \union {t}) = Cardinality(W) + 1
      BY <2>1, <1>1, OneMore
    <2> QED  BY <2>1, <2>3, <2>4, <2>5, <1>1
  <1>4. ASSUME NEW p \in Pools, NEW t \in Tasks,
               \/ Arrive(p, t) \/ Grant(p, t) \/ Finish(p, t) \/ Leave(p, t)
               \/ Start(p, t) /\ p # q
        PROVE  slots' = slots /\ At(q, {"working"})' \subseteq W
    BY <1>4 DEF Arrive, Grant, Finish, Leave, Start, Goes, At, QueueTypeOK
  <1>5. CASE UNCHANGED queueVars
    BY <1>2, <1>5 DEF queueVars, At
  <1> QED  BY <1>2, <1>3, <1>4, <1>5 DEF QueueNext

(* With the last of the tasks let through there was a slot for all of them. *)
LEMMA InvImpliesNotOverbooked ==
  ASSUME IsFiniteSet(Tasks), QueueInv
  PROVE  NotOverbooked
  <1> SUFFICES ASSUME NEW p \in Pools
               PROVE  Cardinality(At(p, {"working", "admitted"})) <= slots[p]
    BY DEF NotOverbooked
  <1> DEFINE W == At(p, {"working"})
             A == At(p, {"admitted"})
  <1>1. /\ At(p, {"working", "admitted"}) = W \union A
        /\ W \in SUBSET Tasks /\ A \in SUBSET Tasks
    BY DEF At
  <1>2. slots[p] \in Nat /\ Cardinality(W) <= slots[p]
    BY DEF QueueInv, QueueTypeOK, WorkFits
  <1>3. CASE A = {}
    BY <1>1, <1>2, <1>3
  <1>4. CASE A # {}
    <2>1. PICK t \in A : \A u \in A : arrival[u] <= arrival[t]
      BY <1>1, <1>4 DEF QueueInv, HasLast
    <2>2. A \subseteq Ahead(p, t) /\ Ahead(p, t) \in SUBSET Tasks
      BY <2>1 DEF At, Ahead
    <2>3. Cardinality(W) + Cardinality(Ahead(p, t)) <= slots[p]
      BY <2>1 DEF QueueInv, InOrder, HasSlot, At
    <2>4. Cardinality(W \union A) <= Cardinality(W) + Cardinality(A)
      BY <1>1, UnionCard
    <2>5. /\ Cardinality(A) <= Cardinality(Ahead(p, t))
          /\ Cardinality(A) \in Nat /\ Cardinality(Ahead(p, t)) \in Nat
          /\ Cardinality(W) \in Nat /\ Cardinality(W \union A) \in Nat
      BY <1>1, <2>2, TaskCards
    <2>6. Cardinality(W \union A) <= slots[p]
      BY <1>2, <2>3, <2>4, <2>5
    <2> QED  BY <1>1, <2>6
  <1> QED  BY <1>3, <1>4

(* Each part of the invariant is kept.                                     *)
LEMMA InvStep ==
  ASSUME IsFiniteSet(Tasks), QueueInv, [QueueNext]_queueVars
  PROVE  QueueInv'
  <1>1. QueueTypeOK'
    BY TypeStep DEF QueueInv
  <1> QED
    BY <1>1, OneQueueStep, HasLastStep, InOrderStep, WorkFitsStep DEF QueueInv

-----------------------------------------------------------------------------

(* The queue keeps its invariant: whoever was let through has a slot that  *)
(* neither an older nor a younger task can take from it.                   *)
THEOREM QueueKeepsOrder == ASSUME IsFiniteSet(Tasks) PROVE QueueSpec => []QueueInv
  <1>1. QueueInit => QueueInv
    BY InitInv
  <1>2. QueueInv /\ [QueueNext]_queueVars => QueueInv'
    BY InvStep
  <1> QED  BY <1>1, <1>2, PTL DEF QueueSpec

(* maxConcurrency holds of every queue that grants in order, for the tasks *)
(* let through as well as for those at work, which is why the controller   *)
(* may leave granted tasks that are still pending out of its count.        *)
THEOREM QueueNeverOverbooked ==
  ASSUME IsFiniteSet(Tasks) PROVE QueueSpec => []NotOverbooked
  <1>1. QueueInv => NotOverbooked
    BY InvImpliesNotOverbooked
  <1> QED  BY <1>1, QueueKeepsOrder, PTL
=============================================================================
