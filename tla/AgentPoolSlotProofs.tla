------------------------- MODULE AgentPoolSlotProofs -------------------------
(***************************************************************************)
(* The reconciler of AgentPool hands out slots as SlotQueue promises, for   *)
(* any tasks, pools and slots, however many calls fail, however often the   *)
(* operator dies and however far its caches are behind.                    *)
(***************************************************************************)
EXTENDS AgentPoolProofs

(* How pools are meant to be used: a task that has the label of a pool      *)
(* names that pool and no other, tasks are not submitted in the same second *)
(* and neither they nor the pools are edited.  Without the first, a task    *)
(* works without a slot (Admit) or in two pools; without the second, ties   *)
(* are broken anew in each call; after an edit, slots handed out before it  *)
(* are too many.                                                           *)
OrderlyUse ==
  /\ \A m \in Memberships : m.labels \subseteq {m.poolRef}
  /\ 0 \notin Gaps
  /\ FaultKinds \cap {"relabel", "resize"} = {}

-----------------------------------------------------------------------------
(* One version v of the tasks.                                             *)

Works(p, v) == InPhases(Listed(p, v), v, Active)
Pends(p, v) == InPhases(Listed(p, v), v, {"Pending"})

(* The pending tasks that are before t, and t itself.                      *)
Front(p, v, t) == {u \in Pends(p, v) : v[u].created <= v[t].created}

(* Of n slots, there is one for t and for every task before it.            *)
Slot(n, p, v, t) ==
  t \in Pends(p, v) /\ Cardinality(Works(p, v) \union Front(p, v, t)) <= n

(* The tasks that work or may start to.                                    *)
Occupants(p, v) == Works(p, v) \union {t \in Pends(p, v) : v[t].granted}

(* After m submissions, in second s: of any tasks one came last; no two     *)
(* came together; and no more work than there is room for.                 *)
Sound(room, m, s, v) ==
  /\ \A t \in Tasks :
       /\ v[t].uid <= m /\ v[t].created <= s
       /\ v[t].member.labels \subseteq {v[t].member.poolRef}
  /\ \A t, u \in Tasks :
       v[t].exists /\ v[u].exists /\ v[t].created = v[u].created => t = u
  /\ \A S \in SUBSET Tasks :
       S # {} => \E t \in S : \A u \in S : v[u].created <= v[t].created
  /\ \A p \in Pools : Cardinality(Works(p, v)) <= room[p]

-----------------------------------------------------------------------------
(* Two versions: w is v or comes after it.                                 *)

(* The task of that name is the same one in v and in w.                    *)
Same(t, v, w) == v[t].exists /\ w[t].exists /\ v[t].uid = w[t].uid

(* A task that was not there in v is younger than all that were; one that   *)
(* was is where it was, and pending only if it was; and whoever works or    *)
(* may start to in w, already worked in v or had a slot by then.           *)
Sequel(room, v, w) ==
  /\ \A t \in Tasks : w[t].exists =>
       IF Same(t, v, w)
       THEN w[t].member = v[t].member /\ w[t].created = v[t].created
       ELSE \A u \in Tasks : v[u].exists => v[u].created < w[t].created
  /\ \A t \in Tasks : Same(t, v, w) /\ w[t].phase = "Pending" => v[t].phase = "Pending"
  /\ \A p \in Pools : \A t \in Occupants(p, w) :
       Same(t, v, w) /\ (t \in Works(p, v) \/ Slot(room[p], p, v, t))

-----------------------------------------------------------------------------
(* The inductive invariant.                                                *)

VersionsSound == \A v \in Versions(tasks) : Sound(Rooms, submitted, now, v)

VersionsOrdered == \A d \in Pairs(tasks) : Sequel(Rooms, d[1], d[2])

(* A name does not come back to the task it once was.                      *)
NoReturn ==
  \A d \in Pairs(tasks), t \in Tasks : Same(t, d[1], Newest) => Same(t, d[2], Newest)

SpecsFixed == \A p \in Pools : \A o \in Versions(pool[p]) : o.spec = NewestPool(p).spec

(* Task g.task is still the pending task that the call read.               *)
StillDue(g) ==
  /\ Newest[g.task].exists /\ Newest[g.task].uid = g.read.uid
  /\ Newest[g.task].phase = "Pending"

(* Whatever the call has still to grant had its slot in every version that  *)
(* the next call may read.                                                 *)
CallSound ==
  /\ call.pc # "idle" => call.obj.spec.max = Rooms[call.pool]
  /\ \A g \in call.todo :
       /\ g.read.exists /\ g.read.uid <= submitted
       /\ StillDue(g) =>
            \A v \in Versions(tasks) :
              Same(g.task, v, Newest) /\ Slot(Rooms[call.pool], call.pool, v, g.task)

SlotInv ==
  /\ TypeOK /\ GrantSound
  /\ VersionsSound /\ VersionsOrdered /\ NoReturn /\ SpecsFixed /\ CallSound

-----------------------------------------------------------------------------
(* Sets of tasks.                                                          *)

LEMMA Cards ==
  ASSUME NEW S \in SUBSET Tasks
  PROVE  /\ IsFiniteSet(S) /\ Cardinality(S) \in Nat
         /\ \A T \in SUBSET S : Cardinality(T) \in Nat /\ Cardinality(T) <= Cardinality(S)
  <1>1. IsFiniteSet(S)
    BY ConstantsAssumption, FS_Subset
  <1>2. \A T \in SUBSET S : IsFiniteSet(T) /\ Cardinality(T) <= Cardinality(S)
    BY <1>1, FS_Subset
  <1> QED  BY <1>1, <1>2, FS_CardinalityType

LEMMA VersionSets ==
  ASSUME NEW p, NEW v
  PROVE  /\ Works(p, v) \in SUBSET Tasks /\ Pends(p, v) \in SUBSET Tasks
         /\ Occupants(p, v) \in SUBSET Tasks
         /\ \A t : Front(p, v, t) \in SUBSET Tasks
         /\ Works(p, v) \cap Pends(p, v) = {}
  BY DEF Works, Pends, Front, Occupants, InPhases, Listed, Active

(* Membership in those sets.                                               *)
LEMMA InSets ==
  ASSUME NEW p, NEW v, NEW t \in Tasks
  PROVE  /\ t \in Works(p, v) <=> /\ v[t].exists /\ p \in v[t].member.labels
                                  /\ v[t].phase \in Active
         /\ t \in Pends(p, v) <=> /\ v[t].exists /\ p \in v[t].member.labels
                                  /\ v[t].phase = "Pending"
         /\ t \in Occupants(p, v) <=> \/ t \in Works(p, v)
                                      \/ t \in Pends(p, v) /\ v[t].granted
  BY DEF Works, Pends, Occupants, InPhases, Listed

(* Of tasks that have their slots the last one has a slot for all.         *)
LEMMA SlotForAll ==
  ASSUME NEW room, NEW m, NEW s, NEW v, Sound(room, m, s, v), NEW p \in Pools,
         NEW E \in SUBSET Tasks, E # {}, \A x \in E : Slot(room[p], p, v, x)
  PROVE  \E y \in E : Slot(room[p], p, v, y) /\ E \subseteq Front(p, v, y)
  <1>1. PICK y \in E : \A x \in E : v[x].created <= v[y].created
    BY DEF Sound
  <1> QED  BY <1>1 DEF Slot, Front

-----------------------------------------------------------------------------
(* From a version to one after it.                                         *)

(* A task that works in w and did not in v had a slot in v.                *)
LEMMA NewWorkers ==
  ASSUME NEW room, NEW v, NEW w, Sequel(room, v, w), NEW p \in Pools,
         NEW x \in Works(p, w), x \notin Works(p, v)
  PROVE  Slot(room[p], p, v, x)
  BY DEF Sequel, Occupants

(* The tasks that are before t in w were before t in v.                    *)
LEMMA FrontShrinks ==
  ASSUME NEW room, NEW v \in Tables, NEW w \in Tables, Sequel(room, v, w), NEW p \in Pools,
         NEW t \in Tasks, Same(t, v, w)
  PROVE  Front(p, w, t) \subseteq Front(p, v, t)
  <1> SUFFICES ASSUME NEW x \in Front(p, w, t) PROVE x \in Front(p, v, t)
    OBVIOUS
  <1>1. /\ x \in Tasks /\ w[x].exists /\ p \in w[x].member.labels /\ w[x].phase = "Pending"
        /\ w[x].created <= w[t].created
    BY VersionSets, InSets DEF Front
  <1>2. v[t].exists /\ w[t].created = v[t].created
    BY DEF Sequel, Same
  <1>3. w[x].created \in Nat /\ v[t].created \in Nat
    BY <1>1 DEF Tables, TaskObject
  <1>4. Same(x, v, w)
    <2>1. CASE ~Same(x, v, w)
      <3>1. v[t].created < w[x].created
        BY <1>1, <1>2, <2>1 DEF Sequel
      <3> QED  BY <1>1, <1>2, <1>3, <3>1
    <2> QED  BY <2>1
  <1>5. w[x].member = v[x].member /\ w[x].created = v[x].created /\ v[x].phase = "Pending"
    BY <1>1, <1>4 DEF Sequel
  <1>6. x \in Pends(p, v) /\ v[x].created <= v[t].created
    BY <1>1, <1>2, <1>4, <1>5, InSets DEF Same
  <1> QED  BY <1>6 DEF Front

(* Whatever the others do, a task keeps its slot until it starts or ends:   *)
(* those that started in between had slots themselves, and with the last   *)
(* of them there is one for all.                                           *)
LEMMA SlotLasts ==
  ASSUME NEW room \in [Pools -> Nat], NEW v \in Tables, NEW w \in Tables,
         NEW m, NEW s, Sound(room, m, s, v), Sequel(room, v, w), NEW p \in Pools, NEW t \in Tasks,
         Slot(room[p], p, v, t), Same(t, v, w), t \in Pends(p, w)
  PROVE  Slot(room[p], p, w, t)
  <1> DEFINE E == (Works(p, w) \ Works(p, v)) \union {t}
  <1>1. E \in SUBSET Tasks /\ E # {} /\ \A x \in E : Slot(room[p], p, v, x)
    BY VersionSets, NewWorkers
  <1> HIDE DEF E
  <1>2. PICK y \in E : Slot(room[p], p, v, y) /\ E \subseteq Front(p, v, y)
    BY <1>1, SlotForAll
  <1> USE DEF E
  <1>3. t \in Front(p, v, y) /\ Works(p, w) \subseteq Works(p, v) \union Front(p, v, y)
    BY <1>2
  <1>4. y \in Tasks /\ v[t].created \in Nat /\ v[y].created \in Nat
        /\ \A x \in Tasks : v[x].created \in Nat
    BY <1>1 DEF Tables, TaskObject
  <1>5. Front(p, v, t) \subseteq Front(p, v, y)
    <2>1. v[t].created <= v[y].created
      BY <1>3 DEF Front
    <2> SUFFICES ASSUME NEW x \in Front(p, v, t) PROVE x \in Front(p, v, y)
      OBVIOUS
    <2>2. x \in Tasks /\ x \in Pends(p, v) /\ v[x].created <= v[t].created
      BY VersionSets DEF Front
    <2>3. v[x].created <= v[y].created
      BY <1>4, <2>1, <2>2
    <2> QED  BY <2>2, <2>3 DEF Front
  <1> DEFINE A == Works(p, w) \union Front(p, w, t)
             B == Works(p, v) \union Front(p, v, y)
  <1>6. A \subseteq B /\ A \in SUBSET Tasks /\ B \in SUBSET Tasks
    BY <1>3, <1>5, FrontShrinks, VersionSets
  <1> HIDE DEF A, B, E
  <1>7. Cardinality(A) \in Nat /\ Cardinality(B) \in Nat /\ Cardinality(A) <= Cardinality(B)
    BY <1>6, Cards
  <1>8. Cardinality(B) <= room[p] /\ room[p] \in Nat
    BY <1>2 DEF Slot, B
  <1>9. Cardinality(A) <= room[p]
    BY <1>7, <1>8
  <1> QED  BY <1>9 DEF Slot, A

(* No more tasks work than there are slots.                                *)
LEMMA WorkFits ==
  ASSUME NEW room \in [Pools -> Nat], NEW v \in Tables, NEW w \in Tables,
         NEW m, NEW s, Sound(room, m, s, v), Sequel(room, v, w), NEW p \in Pools
  PROVE  Cardinality(Works(p, w)) <= room[p]
  <1> DEFINE E == Works(p, w) \ Works(p, v)
  <1>1. \A x \in E : Slot(room[p], p, v, x)
    BY NewWorkers
  <1>2. PICK B \in SUBSET Tasks : Works(p, w) \subseteq B /\ Cardinality(B) <= room[p]
    <2>1. CASE E = {}
      <3>1. Works(p, v) \in SUBSET Tasks /\ Cardinality(Works(p, v)) <= room[p]
        BY VersionSets DEF Sound
      <3> QED  BY <2>1, <3>1
    <2>2. CASE E # {}
      <3>1. E \in SUBSET Tasks
        BY VersionSets
      <3> HIDE DEF E
      <3>2. PICK y \in E : Slot(room[p], p, v, y) /\ E \subseteq Front(p, v, y)
        BY <1>1, <2>2, <3>1, SlotForAll
      <3>3. Works(p, v) \union Front(p, v, y) \in SUBSET Tasks
        BY VersionSets
      <3> USE DEF E
      <3>4. Works(p, w) \subseteq Works(p, v) \union Front(p, v, y)
        BY <3>2
      <3> QED  BY <3>2, <3>3, <3>4 DEF Slot
    <2> QED  BY <2>1, <2>2
  <1>3. Cardinality(Works(p, w)) \in Nat /\ Cardinality(B) \in Nat
        /\ Cardinality(Works(p, w)) <= Cardinality(B)
    BY <1>2, Cards
  <1> QED  BY <1>2, <1>3

-----------------------------------------------------------------------------
(* A write of one task.                                                    *)

(* Version x differs from n in task t only.                                *)
Differs(t, n, x) == \A u \in Tasks \ {t} : x[u] = n[u]

(* Task t of version x is as it may be after v.                            *)
Follows(room, t, v, x) ==
  /\ x[t].exists =>
       IF Same(t, v, x)
       THEN x[t].member = v[t].member /\ x[t].created = v[t].created
       ELSE \A u \in Tasks : v[u].exists => v[u].created < x[t].created
  /\ Same(t, v, x) /\ x[t].phase = "Pending" => v[t].phase = "Pending"
  /\ \A p \in Pools : t \in Occupants(p, x) =>
       Same(t, v, x) /\ (t \in Works(p, v) \/ Slot(room[p], p, v, t))

(* A version after v that is changed in t only is after v if t is.         *)
LEMMA SequelOfWrite ==
  ASSUME NEW room, NEW v, NEW n, NEW x, NEW t \in Tasks, Sequel(room, v, n), Differs(t, n, x),
         Follows(room, t, v, x)
  PROVE  Sequel(room, v, x)
  <1>1. \A u \in Tasks \ {t} : Same(u, v, x) <=> Same(u, v, n)
    BY DEF Differs, Same
  <1>2. \A p \in Pools : \A u \in Tasks \ {t} : u \in Occupants(p, x) => u \in Occupants(p, n)
    BY InSets DEF Differs
  <1>3. ASSUME NEW u \in Tasks, x[u].exists
        PROVE  IF Same(u, v, x)
               THEN x[u].member = v[u].member /\ x[u].created = v[u].created
               ELSE \A y \in Tasks : v[y].exists => v[y].created < x[u].created
    <2>1. CASE u = t
      BY <1>3, <2>1 DEF Follows
    <2>2. CASE u # t
      <3>1. x[u] = n[u] /\ (Same(u, v, x) <=> Same(u, v, n))
        BY <1>1, <2>2 DEF Differs
      <3> QED  BY <1>3, <3>1 DEF Sequel
    <2> QED  BY <2>1, <2>2
  <1>4. ASSUME NEW u \in Tasks, Same(u, v, x), x[u].phase = "Pending"
        PROVE  v[u].phase = "Pending"
    <2>1. CASE u = t
      BY <1>4, <2>1 DEF Follows
    <2>2. CASE u # t
      BY <1>1, <1>4, <2>2 DEF Sequel, Differs
    <2> QED  BY <2>1, <2>2
  <1>5. ASSUME NEW p \in Pools, NEW u \in Occupants(p, x)
        PROVE  Same(u, v, x) /\ (u \in Works(p, v) \/ Slot(room[p], p, v, u))
    <2>1. u \in Tasks
      BY VersionSets
    <2>2. CASE u = t
      BY <1>5, <2>2 DEF Follows
    <2>3. CASE u # t
      BY <1>1, <1>2, <1>5, <2>1, <2>3 DEF Sequel
    <2> QED  BY <2>2, <2>3
  <1> QED  BY <1>3, <1>4, <1>5 DEF Sequel

(* A version that comes after one where all is sound comes after itself.   *)
LEMMA SequelOfItself ==
  ASSUME NEW room \in [Pools -> Nat], NEW n \in Tables, NEW x \in Tables,
         NEW m, NEW s, Sound(room, m, s, n), Sequel(room, n, x)
  PROVE  Sequel(room, x, x)
  <1>1. ASSUME NEW p \in Pools, NEW t \in Occupants(p, x)
        PROVE  Same(t, x, x) /\ (t \in Works(p, x) \/ Slot(room[p], p, x, t))
    <2>0. t \in Tasks
      BY VersionSets
    <2>1. Same(t, n, x) /\ (t \in Works(p, n) \/ Slot(room[p], p, n, t))
      BY DEF Sequel
    <2>2. CASE t \in Works(p, x)
      BY <2>1, <2>2 DEF Same
    <2>3. CASE t \in Pends(p, x)
      <3>1. n[t].phase = "Pending"
        BY <2>0, <2>1, <2>3, InSets DEF Sequel
      <3>2. t \notin Works(p, n)
        BY <2>0, <3>1, InSets DEF Active
      <3>3. Slot(room[p], p, x, t)
        BY <2>0, <2>1, <2>3, <3>2, SlotLasts
      <3> QED  BY <2>1, <3>3 DEF Same
    <2> QED  BY <2>0, <2>2, <2>3, InSets
  <1>2. \A t \in Tasks : x[t].exists => Same(t, x, x)
    BY DEF Same
  <1> QED  BY <1>1, <1>2 DEF Sequel

(* What a write of t may not do, so that the new version is sound and its   *)
(* tasks of other names, or of the same name, come in order.               *)
NewestFits(t, n, x) ==
  /\ x[t].uid <= submitted' /\ x[t].created <= now'
  /\ x[t].member.labels \subseteq {x[t].member.poolRef}
  /\ \/ x[t].created = 0 /\ ~x[t].exists
     \/ x[t].created = n[t].created /\ (x[t].exists => n[t].exists)
     \/ \A u \in Tasks \ {t} : n[u].created < x[t].created

LEMMA SoundWrite ==
  ASSUME TypeOK, submitted' \in Nat, now' \in Nat, submitted <= submitted', now <= now',
         NEW room \in [Pools -> Nat], NEW n \in Tables, NEW x \in Tables, NEW t \in Tasks,
         Sound(room, submitted, now, n), Sequel(room, n, x), Differs(t, n, x),
         NewestFits(t, n, x)
  PROVE  Sound(room, submitted', now', x)
  <1>0. \A u \in Tasks : /\ n[u].created \in Nat /\ x[u].created \in Nat
                         /\ n[u].uid \in Nat /\ x[u].uid \in Nat
                         /\ u # t => x[u] = n[u]
    BY DEF Tables, TaskObject, Differs
  <1>1. ASSUME NEW u \in Tasks
        PROVE  /\ x[u].uid <= submitted' /\ x[u].created <= now'
               /\ x[u].member.labels \subseteq {x[u].member.poolRef}
    <2>1. CASE u = t
      BY <1>1, <2>1 DEF NewestFits
    <2>2. CASE u # t
      <3>1. /\ n[u].uid <= submitted /\ n[u].created <= now
            /\ n[u].member.labels \subseteq {n[u].member.poolRef}
        BY <1>0, <1>1, <2>2 DEF Sound
      <3>2. submitted \in Nat /\ now \in Nat
        BY DEF TypeOK
      <3> QED  BY <1>0, <2>2, <3>1, <3>2
    <2> QED  BY <2>1, <2>2
  <1>2. ASSUME NEW u \in Tasks, NEW y \in Tasks, x[u].exists, x[y].exists,
               x[u].created = x[y].created
        PROVE  u = y
    <2>1. \A a, b \in Tasks :
            n[a].exists /\ n[b].exists /\ n[a].created = n[b].created => a = b
      BY DEF Sound
    <2>2. CASE u # t /\ y # t
      BY <1>0, <1>2, <2>1, <2>2
    <2>3. ASSUME NEW z \in Tasks, z # t, x[t].exists, x[z].exists, x[z].created = x[t].created
          PROVE  FALSE
      BY <1>0, <2>1, <2>3 DEF NewestFits
    <2> QED  BY <1>2, <2>2, <2>3
  <1>3. ASSUME NEW S \in SUBSET Tasks, S # {}
        PROVE  \E u \in S : \A y \in S : x[y].created <= x[u].created
    <2>0. \A T \in SUBSET Tasks :
            T # {} => \E u \in T : \A y \in T : n[y].created <= n[u].created
      BY DEF Sound
    <2>1. CASE t \notin S \/ x[t].created = n[t].created
      <3>1. PICK u \in S : \A y \in S : n[y].created <= n[u].created
        BY <1>3, <2>0
      <3>2. \A y \in S : x[y].created = n[y].created
        BY <1>0, <2>1
      <3> QED  BY <3>1, <3>2
    <2>2. CASE t \in S /\ x[t].created = 0
      <3>1. CASE S = {t}
        BY <1>0, <3>1
      <3>2. CASE S # {t}
        <4>1. S \ {t} \in SUBSET Tasks /\ S \ {t} # {}
          BY <1>3, <3>2
        <4>2. PICK u \in S \ {t} : \A y \in S \ {t} : n[y].created <= n[u].created
          BY <2>0, <4>1
        <4>3. \A y \in S : x[y].created <= x[u].created
          BY <1>0, <2>2, <4>2
        <4> QED  BY <4>2, <4>3
      <3> QED  BY <3>1, <3>2
    <2>3. CASE t \in S /\ (\A u \in Tasks \ {t} : n[u].created < x[t].created)
      <3>1. \A y \in S : x[y].created <= x[t].created
        BY <1>0, <2>3
      <3> QED  BY <2>3, <3>1
    <2> QED  BY <2>1, <2>2, <2>3 DEF NewestFits
  <1>4. \A p \in Pools : Cardinality(Works(p, x)) <= room[p]
    BY WorkFits
  <1> QED  BY <1>1, <1>2, <1>3, <1>4 DEF Sound

-----------------------------------------------------------------------------
(* The invariant is kept.                                                  *)

LEMMA RoomsType == ASSUME TypeOK PROVE Rooms \in [Pools -> Nat]
  BY NewestTypes DEF Rooms, PoolObject, PoolSpec

(* What the windows of a well-typed state are.                             *)
LEMMA TaskWindow ==
  ASSUME TypeOK
  PROVE  /\ tasks \in Seq(Tables) \ {<<>>} /\ Newest \in Tables
         /\ Versions(tasks) \subseteq Tables /\ Newest \in Versions(tasks)
         /\ \A v \in Versions(tasks) : <<v, Newest>> \in Pairs(tasks)
  BY NewestTypes, WindowVersions, WindowPairs DEF TypeOK, Tables, Newest

(* The call keeps its pool and its spec and gets nothing new to grant.     *)
CallGoesOn ==
  /\ call'.pool = call.pool /\ call'.obj = call.obj
  /\ call'.todo \subseteq call.todo
  /\ call'.pc # "idle" => call.pc # "idle"

(* What the call still has to grant keeps its slot in every version.       *)
LEMMA CallKeeps ==
  ASSUME SlotInv, TypeOK', Rooms' = Rooms, submitted <= submitted', CallGoesOn,
         \A v \in Versions(tasks)' :
           v \in Versions(tasks) \/ v = Newest',
         \A t \in Tasks :
           Newest'[t].exists /\ Newest'[t].uid <= submitted => Same(t, Newest, Newest'),
         Newest' \in Tables, Sequel(Rooms, Newest, Newest')
  PROVE  CallSound'
  <1> USE DEF SlotInv, CallGoesOn
  <1>1. call'.pc # "idle" => call'.obj.spec.max = Rooms'[call'.pool]
    BY DEF CallSound
  <1>2. ASSUME NEW g \in call'.todo
        PROVE  /\ g.read.exists /\ g.read.uid <= submitted'
               /\ StillDue(g)' =>
                    \A v \in Versions(tasks)' :
                      Same(g.task, v, Newest') /\ Slot(Rooms'[call'.pool], call'.pool, v, g.task)
    <2> DEFINE t == g.task
               p == call.pool
    <2>1. /\ g \in call.todo /\ t \in Tasks /\ p \in Pools /\ g.read \in TaskObject
          /\ g.read.exists /\ g.read.uid <= submitted
      BY NewestTypes DEF CallSound
    <2>2. g.read.uid <= submitted'
      <3>1. g.read.uid \in Nat /\ submitted \in Nat /\ submitted' \in Nat
        BY <2>1 DEF TaskObject, TypeOK
      <3> QED  BY <2>1, <3>1
    <2>3. ASSUME StillDue(g)', NEW v \in Versions(tasks)'
          PROVE  Same(t, v, Newest') /\ Slot(Rooms[p], p, v, t)
      <3>1. Newest'[t].exists /\ Newest'[t].uid = g.read.uid /\ Newest'[t].phase = "Pending"
        BY <2>3 DEF StillDue
      <3>2. Same(t, Newest, Newest')
        BY <2>1, <3>1
      <3>3. Newest[t].phase = "Pending" /\ Newest'[t].member = Newest[t].member
        BY <2>1, <3>1, <3>2 DEF Sequel
      <3>4. StillDue(g)
        BY <3>1, <3>2, <3>3 DEF StillDue, Same
      <3>5. \A x \in Versions(tasks) : Same(t, x, Newest) /\ Slot(Rooms[p], p, x, t)
        BY <2>1, <3>4 DEF CallSound
      <3>6. CASE v \in Versions(tasks)
        BY <3>2, <3>5, <3>6 DEF Same
      <3>7. CASE v = Newest'
        <4>1. Newest \in Tables /\ v \in Tables /\ Newest \in Versions(tasks)
              /\ Rooms \in [Pools -> Nat]
          BY <3>7, TaskWindow, RoomsType
        <4>2. Sound(Rooms, submitted, now, Newest) /\ Slot(Rooms[p], p, Newest, t)
          BY <3>5, <4>1 DEF VersionsSound
        <4>3. t \in Pends(p, v)
          <5>1. p \in Newest[t].member.labels
            BY <2>1, <4>2, InSets DEF Slot
          <5> QED  BY <2>1, <3>1, <3>3, <3>7, <5>1, InSets
        <4>4. Slot(Rooms[p], p, v, t)
          BY <2>1, <3>2, <3>7, <4>1, <4>2, <4>3, SlotLasts
        <4> QED  BY <3>1, <3>7, <4>4 DEF Same
      <3> QED  BY <3>6, <3>7
    <2> QED  BY <2>1, <2>2, <2>3
  <1> QED  BY <1>1, <1>2 DEF CallSound

(* A write of task t keeps the invariant if the new version comes after     *)
(* each one in the window, and a new task has a new uid.                   *)
LEMMA WriteKeeps ==
  ASSUME SlotInv, TypeOK', GrantSound', NEW t \in Tasks, NEW o \in TaskObject, StoreTask(t, o),
         UNCHANGED pool, CallGoesOn, submitted <= submitted', now <= now',
         \A v \in Versions(tasks) : Follows(Rooms, t, v, Newest'),
         NewestFits(t, Newest, Newest'),
         o.exists => Same(t, Newest, Newest') \/ o.uid > submitted
  PROVE  SlotInv'
  <1> USE DEF SlotInv
  <1> DEFINE n == Newest
             x == Newest'
  <1>0. Rooms' = Rooms /\ Rooms \in [Pools -> Nat]
    BY RoomsType DEF Rooms, NewestPool
  <1>1. /\ x = [n EXCEPT ![t] = o] /\ n \in Tables /\ x \in Tables
        /\ tasks' = Stored(tasks, x) /\ tasks \in Seq(Tables) \ {<<>>}
    <2>1. x = [n EXCEPT ![t] = o] /\ tasks' = Stored(tasks, [n EXCEPT ![t] = o])
      BY StoreTaskType DEF StoreTask
    <2> QED  BY <2>1, TaskWindow DEF Tables
  <1>2. /\ Differs(t, n, x) /\ x[t] = o
        /\ \A u \in Tasks : x[u].exists => Same(u, n, x) \/ (u = t /\ x[t].uid > submitted)
    <2>1. Differs(t, n, x) /\ x[t] = o
      BY <1>1 DEF Differs, Tables
    <2> QED  BY <2>1 DEF Differs, Same
  <1> HIDE DEF n, x
  <1>3. /\ \A v \in Versions(tasks)' : v \in Versions(tasks) \/ v = x
        /\ \A d \in Pairs(tasks)' :
             d \in Pairs(tasks) \/ (\E v \in Versions(tasks) : d = <<v, x>>) \/ d = <<x, x>>
        /\ n \in Versions(tasks) /\ Versions(tasks) \subseteq Tables
        /\ \A v \in Versions(tasks) : <<v, n>> \in Pairs(tasks)
    <2>0. tasks \in Seq(Tables) \ {<<>>} /\ x \in Tables
      BY <1>1
    <2>1. \A v \in Versions(Stored(tasks, x)) : v = x \/ v \in Versions(tasks)
      BY <2>0, WindowVersions
    <2>2. \A d \in Pairs(Stored(tasks, x)) :
            d \in Pairs(tasks) \/ (\E v \in Versions(tasks) : d = <<v, x>>) \/ d = <<x, x>>
      BY <2>0, WindowPairs
    <2>3. Versions(tasks)' = Versions(Stored(tasks, x)) /\ Pairs(tasks)' = Pairs(Stored(tasks, x))
      BY <1>1
    <2> QED  BY <2>1, <2>2, <2>3, TaskWindow DEF n
  <1>4. ASSUME NEW v \in Versions(tasks) PROVE Sequel(Rooms, v, x)
    <2>1. Sequel(Rooms, v, n)
      <3>1. <<v, n>> \in Pairs(tasks) /\ <<v, n>>[1] = v /\ <<v, n>>[2] = n
        BY <1>3
      <3> QED  BY <3>1 DEF VersionsOrdered
    <2>2. Follows(Rooms, t, v, x)
      BY DEF x
    <2> QED  BY <1>2, <2>1, <2>2, SequelOfWrite
  <1>5. Sound(Rooms, submitted, now, n) /\ Sequel(Rooms, n, x)
    BY <1>3, <1>4 DEF VersionsSound
  <1>6. VersionsSound'
    <2>1. submitted' \in Nat /\ now' \in Nat /\ submitted \in Nat /\ now \in Nat
      BY DEF TypeOK
    <2>2. NewestFits(t, n, x)
      BY DEF n, x
    <2>3. ASSUME NEW v \in Versions(tasks)' PROVE Sound(Rooms, submitted', now', v)
      <3>1. CASE v = x
        <4>1. submitted <= submitted' /\ now <= now'
          OBVIOUS
        <4> QED  BY <1>0, <1>1, <1>2, <1>5, <2>1, <2>2, <3>1, <4>1, SoundWrite
      <3>2. CASE v \in Versions(tasks)
        <4>1. Sound(Rooms, submitted, now, v) /\ v \in Tables
          BY <1>3, <3>2 DEF VersionsSound
        <4>2. \A u \in Tasks : v[u].uid \in Nat /\ v[u].created \in Nat
          BY <4>1 DEF Tables, TaskObject
        <4>3. \A u \in Tasks : v[u].uid <= submitted' /\ v[u].created <= now'
          BY <2>1, <4>1, <4>2 DEF Sound
        <4> QED  BY <4>1, <4>3 DEF Sound
      <3> QED  BY <1>3, <3>1, <3>2
    <2>4. \A v \in Versions(tasks)' : Sound(Rooms', submitted', now', v)
      BY <1>0, <2>3
    <2> QED  BY <2>4 DEF VersionsSound
  <1>7. VersionsOrdered'
    <2>1. Sequel(Rooms, x, x)
      BY <1>0, <1>1, <1>5, SequelOfItself
    <2>2. ASSUME NEW d \in Pairs(tasks)' PROVE Sequel(Rooms, d[1], d[2])
      <3>1. CASE d \in Pairs(tasks)
        BY <3>1 DEF VersionsOrdered
      <3>2. ASSUME NEW v \in Versions(tasks), d = <<v, x>> PROVE Sequel(Rooms, d[1], d[2])
        BY <1>4, <3>2
      <3>3. CASE d = <<x, x>>
        BY <2>1, <3>3
      <3> QED  BY <1>3, <3>1, <3>2, <3>3
    <2>3. \A d \in Pairs(tasks)' : Sequel(Rooms', d[1], d[2])
      BY <1>0, <2>2
    <2> QED  BY <2>3 DEF VersionsOrdered, Sequel
  <1>8. NoReturn'
    <2> SUFFICES ASSUME NEW d \in Pairs(tasks)', NEW u \in Tasks, Same(u, d[1], x)
                 PROVE  Same(u, d[2], x)
      BY DEF NoReturn, x
    <2>1. CASE d \in Pairs(tasks)
      <3>1. d[1] \in Versions(tasks) /\ d[2] \in Versions(tasks)
        BY <1>1, <2>1, WindowPairs
      <3>2. Same(u, d[1], n) => Same(u, d[2], n)
        BY <2>1 DEF NoReturn, n
      <3>3. CASE Same(u, n, x)
        BY <3>2, <3>3 DEF Same
      <3>4. CASE ~Same(u, n, x)
        <4>1. u = t /\ x[t].uid > submitted
          BY <1>2, <3>4 DEF Same
        <4>2. d[1][t].uid <= submitted /\ d[1][t].uid = x[t].uid
          BY <3>1, <4>1 DEF VersionsSound, Sound, Same
        <4>3. submitted \in Nat /\ x[t].uid \in Nat
          BY <1>1 DEF TypeOK, Tables, TaskObject
        <4> QED  BY <4>1, <4>2, <4>3
      <3> QED  BY <3>3, <3>4
    <2>2. ASSUME NEW v \in Versions(tasks), d = <<v, x>> PROVE Same(u, d[2], x)
      BY <2>2 DEF Same
    <2>3. CASE d = <<x, x>>
      BY <2>3 DEF Same
    <2> QED  BY <1>3, <2>1, <2>2, <2>3
  <1>9. SpecsFixed'
    BY DEF SpecsFixed, NewestPool
  <1>10. CallSound'
    <2>1. \A u \in Tasks : x[u].exists /\ x[u].uid <= submitted => Same(u, n, x)
      <3> SUFFICES ASSUME NEW u \in Tasks, x[u].exists, x[u].uid <= submitted
                   PROVE  Same(u, n, x)
        OBVIOUS
      <3>1. submitted \in Nat /\ x[u].uid \in Nat
        BY <1>1 DEF TypeOK, Tables, TaskObject
      <3> QED  BY <1>2, <3>1
    <2> USE DEF n, x
    <2> QED  BY <1>0, <1>1, <1>3, <1>5, <2>1, CallKeeps
  <1> QED  BY <1>6, <1>7, <1>8, <1>9, <1>10

(* A step that writes no task: the window may have lost old versions.      *)
LEMMA QuietKeeps ==
  ASSUME SlotInv, TypeOK', GrantSound', Newest' = Newest, Rooms' = Rooms,
         Versions(tasks)' \subseteq Versions(tasks), Pairs(tasks)' \subseteq Pairs(tasks),
         UNCHANGED <<now, submitted>>, SpecsFixed',
         CallGoesOn \/ CallSound'
  PROVE  SlotInv'
  <1> USE DEF SlotInv
  <1>1. VersionsSound'
    <2>1. \A v \in Versions(tasks)' : Sound(Rooms', submitted', now', v)
      BY DEF VersionsSound
    <2> QED  BY <2>1 DEF VersionsSound
  <1>2. VersionsOrdered'
    <2>1. \A d \in Pairs(tasks)' : Sequel(Rooms', d[1], d[2])
      BY DEF VersionsOrdered
    <2> QED  BY <2>1 DEF VersionsOrdered
  <1>3. NoReturn'
    BY DEF NoReturn
  <1>4. CASE CallGoesOn
    <2>1. Newest \in Versions(tasks) /\ Newest \in Tables /\ <<Newest, Newest>> \in Pairs(tasks)
      BY TaskWindow
    <2>2. Sequel(Rooms, Newest, Newest)
      <3>1. <<Newest, Newest>>[1] = Newest /\ <<Newest, Newest>>[2] = Newest
        OBVIOUS
      <3> QED  BY <2>1, <3>1 DEF VersionsOrdered
    <2>3. \A t \in Tasks :
            Newest'[t].exists /\ Newest'[t].uid <= submitted => Same(t, Newest, Newest')
      BY DEF Same
    <2>4. submitted <= submitted'
      BY DEF TypeOK
    <2>5. CallSound'
      BY <1>4, <2>1, <2>2, <2>3, <2>4, CallKeeps
    <2> QED  BY <1>1, <1>2, <1>3, <2>5
  <1> QED  BY <1>1, <1>2, <1>3, <1>4

(* A task that stays where it is, and becomes an occupant only with a slot. *)
LEMMA ChangeKeeps ==
  ASSUME SlotInv, TypeOK', GrantSound', NEW t \in Tasks, NEW o \in TaskObject, StoreTask(t, o),
         UNCHANGED <<pool, now, submitted>>, CallGoesOn,
         Newest[t].exists, o.exists, o.uid = Newest[t].uid, o.member = Newest[t].member,
         o.created = Newest[t].created, o.phase = "Pending" => Newest[t].phase = "Pending",
         \A v \in Versions(tasks), p \in Pools :
           t \in Occupants(p, Newest') =>
             t \in Occupants(p, Newest) \/ (Same(t, v, Newest) /\ Slot(Rooms[p], p, v, t))
  PROVE  SlotInv'
  <1> USE DEF SlotInv
  <1>1. Newest'[t] = o /\ Newest'[t] \in TaskObject
    <2>1. Newest' = [Newest EXCEPT ![t] = o]
      BY StoreTaskType
    <2> QED  BY <2>1, TaskWindow DEF Tables
  <1>2. ASSUME NEW v \in Versions(tasks) PROVE Follows(Rooms, t, v, Newest')
    <2>1. Sequel(Rooms, v, Newest)
      <3>1. <<v, Newest>> \in Pairs(tasks) /\ <<v, Newest>>[1] = v /\ <<v, Newest>>[2] = Newest
        BY TaskWindow
      <3> QED  BY <3>1 DEF VersionsOrdered
    <2>2. Same(t, v, Newest') <=> Same(t, v, Newest)
      BY <1>1 DEF Same
    <2>3. IF Same(t, v, Newest')
          THEN Newest'[t].member = v[t].member /\ Newest'[t].created = v[t].created
          ELSE \A u \in Tasks : v[u].exists => v[u].created < Newest'[t].created
      BY <1>1, <2>1, <2>2 DEF Sequel
    <2>4. Same(t, v, Newest') /\ Newest'[t].phase = "Pending" => v[t].phase = "Pending"
      BY <1>1, <2>1, <2>2 DEF Sequel
    <2>5. ASSUME NEW p \in Pools, t \in Occupants(p, Newest')
          PROVE  Same(t, v, Newest') /\ (t \in Works(p, v) \/ Slot(Rooms[p], p, v, t))
      <3>1. CASE t \in Occupants(p, Newest)
        BY <2>1, <2>2, <3>1 DEF Sequel
      <3>2. CASE Same(t, v, Newest) /\ Slot(Rooms[p], p, v, t)
        BY <2>2, <3>2
      <3> QED  BY <2>5, <3>1, <3>2
    <2> QED  BY <2>3, <2>4, <2>5 DEF Follows
  <1>3. NewestFits(t, Newest, Newest')
    <2>1. Sound(Rooms, submitted, now, Newest)
      BY TaskWindow DEF VersionsSound
    <2> QED  BY <1>1, <2>1 DEF Sound, NewestFits
  <1>4. o.exists => Same(t, Newest, Newest') \/ o.uid > submitted
    BY <1>1 DEF Same
  <1>5. submitted <= submitted' /\ now <= now'
    BY DEF TypeOK
  <1> QED  BY <1>2, <1>3, <1>4, <1>5, WriteKeeps

LEMMA GrantKeeps ==
  ASSUME OrderlyUse, SlotInv, TypeOK', GrantSound', NEW g \in call.todo, grantSlot(g)
  PROVE  SlotInv'
  <1> USE DEF SlotInv
  <1> DEFINE t == g.task
  <1>1. /\ call \in Call /\ t \in Tasks /\ g.read \in TaskObject /\ call.pool \in Pools
        /\ Newest \in Tables /\ Newest[t] \in TaskObject
    BY NewestTypes DEF TypeOK, Tables
  <1>2. CallGoesOn /\ UNCHANGED <<pool, now, submitted>>
    BY <1>1 DEF CallGoesOn, grantSlot, Call, clock
  <1>3. CASE UNCHANGED tasks
    <2>1. /\ Newest' = Newest /\ Rooms' = Rooms /\ SpecsFixed'
          /\ Versions(tasks)' = Versions(tasks) /\ Pairs(tasks)' = Pairs(tasks)
      BY <1>2, <1>3 DEF Newest, Rooms, NewestPool, SpecsFixed
    <2> QED  BY <1>2, <2>1, QuietKeeps
  <1>4. CASE Fresh(g) /\ StoreTask(t, [Newest[t] EXCEPT !.granted = TRUE])
    <2> DEFINE o == [Newest[t] EXCEPT !.granted = TRUE]
    <2>1. /\ o \in TaskObject /\ o.exists = Newest[t].exists /\ o.uid = Newest[t].uid
          /\ o.member = Newest[t].member /\ o.created = Newest[t].created
          /\ o.phase = Newest[t].phase
      BY <1>1 DEF TaskObject
    <2>2. /\ Newest[t].exists /\ Newest[t].phase = "Pending"
          /\ call.pool \in Newest[t].member.labels /\ StillDue(g)
      BY <1>4 DEF Fresh, GrantSound, CallSound, StillDue
    <2>3. Newest'[t] = o
      <3>1. Newest' = [Newest EXCEPT ![t] = o]
        BY <1>1, <1>4, <2>1, StoreTaskType
      <3> QED  BY <1>1, <3>1 DEF Tables
    <2> HIDE DEF o
    <2>4. ASSUME NEW v \in Versions(tasks), NEW p \in Pools, t \in Occupants(p, Newest')
          PROVE  Same(t, v, Newest) /\ Slot(Rooms[p], p, v, t)
      <3>1. p \in Newest[t].member.labels
        BY <1>1, <2>1, <2>3, <2>4, InSets
      <3>2. Newest[t].member.labels \subseteq {Newest[t].member.poolRef}
        BY <1>1, TaskWindow DEF VersionsSound, Sound
      <3>3. p = call.pool
        BY <2>2, <3>1, <3>2
      <3> QED  BY <2>2, <3>3 DEF CallSound
    <2>5. StoreTask(t, o)
      BY <1>4 DEF o
    <2> HIDE DEF t
    <2> QED  BY <1>1, <1>2, <2>1, <2>2, <2>4, <2>5, ChangeKeeps
  <1> QED  BY <1>3, <1>4 DEF grantSlot

(* Only a task that was granted its slot starts, and only it counts.       *)
LEMMA MovesKeep ==
  ASSUME OrderlyUse, SlotInv, TypeOK', GrantSound', NEW t \in Tasks,
         Admit(t) \/ Advance(t) \/ Refuse(t)
  PROVE  SlotInv'
  <1> USE DEF SlotInv
  <1>1. Newest \in Tables /\ Newest[t] \in TaskObject /\ Sound(Rooms, submitted, now, Newest)
    BY TaskWindow DEF Tables, VersionsSound
  <1>2. PICK to \in Phases :
          /\ Moves(t, to) /\ to # "Pending"
          /\ \/ to \notin Active
             \/ Newest[t].phase \in Active
             \/ /\ Newest[t].phase = "Pending"
                /\ Newest[t].member.poolRef = NoPool \/ Newest[t].granted
    BY ConstantsAssumption DEF Admit, Advance, Refuse, Phases, Terminal, Active
  <1> DEFINE o == [Newest[t] EXCEPT !.phase = to]
  <1>3. /\ o \in TaskObject /\ o.exists = Newest[t].exists /\ o.uid = Newest[t].uid
        /\ o.member = Newest[t].member /\ o.created = Newest[t].created /\ o.phase = to
    BY <1>1 DEF TaskObject
  <1>4. /\ StoreTask(t, o) /\ Newest[t].exists
        /\ UNCHANGED <<pool, now, submitted, call>>
    BY <1>2 DEF Moves, clock
  <1>5. CallGoesOn
    BY <1>4 DEF CallGoesOn
  <1>6. Newest'[t] = o
    <2>1. Newest' = [Newest EXCEPT ![t] = o]
      BY <1>3, <1>4, StoreTaskType
    <2> QED  BY <1>1, <2>1 DEF Tables
  <1> HIDE DEF o
  <1>7. ASSUME NEW p \in Pools, t \in Occupants(p, Newest') PROVE t \in Occupants(p, Newest)
    <2>1. p \in Newest[t].member.labels /\ to \in Active
      BY <1>2, <1>3, <1>6, <1>7, InSets
    <2>2. Newest[t].member.poolRef # NoPool
      <3>1. p = Newest[t].member.poolRef
        BY <1>1, <2>1 DEF Sound
      <3> QED  BY <3>1, ConstantsAssumption
    <2> QED  BY <1>2, <1>4, <2>1, <2>2, InSets
  <1> QED  BY <1>2, <1>3, <1>4, <1>5, <1>7, ChangeKeeps

(* A new task comes after all others, and has no slot yet.                 *)
LEMMA SubmitKeeps ==
  ASSUME OrderlyUse, SlotInv, TypeOK', GrantSound', NEW t \in Tasks, Submit(t)
  PROVE  SlotInv'
  <1> USE DEF SlotInv
  <1>1. PICK g \in Gaps, m \in Memberships :
          /\ now' = now + g
          /\ StoreTask(t, [NoTask EXCEPT !.uid = submitted', !.exists = TRUE,
                                         !.member = m, !.created = now'])
    BY DEF Submit
  <1> DEFINE o == [NoTask EXCEPT !.uid = submitted', !.exists = TRUE,
                                 !.member = m, !.created = now']
  <1>2. /\ now \in Nat /\ now' \in Nat /\ now < now'
        /\ submitted \in Nat /\ submitted' \in Nat /\ submitted < submitted'
    <2>1. g \in Nat /\ g # 0
      BY ConstantsAssumption DEF OrderlyUse
    <2> QED  BY <1>1, <2>1 DEF TypeOK, Submit
  <1>3. /\ o \in TaskObject /\ o.exists /\ o.uid = submitted' /\ o.created = now'
        /\ o.member = m /\ ~o.granted /\ o.phase = "Pending"
    <2>1. m \in Membership
      BY ConstantsAssumption
    <2> QED  BY <1>2, <2>1, ConstantTypes DEF TaskObject, NoTask
  <1>4. StoreTask(t, o) /\ UNCHANGED <<pool, call>> /\ CallGoesOn
    BY <1>1 DEF Submit, CallGoesOn
  <1>5. Newest'[t] = o
    <2>1. Newest' = [Newest EXCEPT ![t] = o]
      BY <1>3, <1>4, StoreTaskType
    <2> QED  BY <2>1, TaskWindow DEF Tables
  <1> HIDE DEF o
  <1>6. ASSUME NEW v \in Versions(tasks) PROVE Follows(Rooms, t, v, Newest')
    <2>1. v \in Tables /\ Sound(Rooms, submitted, now, v)
      BY TaskWindow DEF VersionsSound
    <2>2. \A u \in Tasks : /\ v[u].uid \in Nat /\ v[u].created \in Nat
                           /\ v[u].uid <= submitted /\ v[u].created <= now
      BY <2>1 DEF Tables, TaskObject, Sound
    <2>3. ~Same(t, v, Newest')
      BY <1>2, <1>3, <1>5, <2>2 DEF Same
    <2>4. \A u \in Tasks : v[u].created < Newest'[t].created
      BY <1>2, <1>3, <1>5, <2>2
    <2>5. \A p \in Pools : t \notin Occupants(p, Newest')
      BY <1>3, <1>5, InSets DEF Active
    <2> QED  BY <2>3, <2>4, <2>5 DEF Follows
  <1>7. NewestFits(t, Newest, Newest')
    <2>1. Newest \in Tables /\ Sound(Rooms, submitted, now, Newest)
      BY TaskWindow DEF VersionsSound
    <2>2. \A u \in Tasks : Newest[u].created \in Nat /\ Newest[u].created <= now
      BY <2>1 DEF Tables, TaskObject, Sound
    <2>3. \A u \in Tasks : Newest[u].created < Newest'[t].created
      BY <1>2, <1>3, <1>5, <2>2
    <2>4. m.labels \subseteq {m.poolRef}
      BY DEF OrderlyUse
    <2> QED  BY <1>2, <1>3, <1>5, <2>3, <2>4 DEF NewestFits
  <1>8. o.uid > submitted /\ submitted <= submitted' /\ now <= now'
    BY <1>2, <1>3
  <1> QED  BY <1>3, <1>4, <1>6, <1>7, <1>8, WriteKeeps

LEMMA RemoveKeeps ==
  ASSUME SlotInv, TypeOK', GrantSound', NEW t \in Tasks, Remove(t)
  PROVE  SlotInv'
  <1> USE DEF SlotInv
  <1>1. /\ StoreTask(t, NoTask) /\ NoTask \in TaskObject
        /\ UNCHANGED <<pool, call, now, submitted>> /\ CallGoesOn
    BY ConstantTypes DEF Remove, CallGoesOn, clock
  <1>2. Newest'[t] = NoTask
    <2>1. Newest' = [Newest EXCEPT ![t] = NoTask]
      BY <1>1, StoreTaskType
    <2> QED  BY <2>1, TaskWindow DEF Tables
  <1>3. ~NoTask.exists /\ NoTask.uid = 0 /\ NoTask.created = 0 /\ NoTask.member.labels = {}
    BY DEF NoTask
  <1>4. \A v \in Versions(tasks) : Follows(Rooms, t, v, Newest')
    <2>1. \A p \in Pools : t \notin Occupants(p, Newest')
      BY <1>2, <1>3, InSets
    <2> QED  BY <1>2, <1>3, <2>1 DEF Follows, Same
  <1>5. submitted \in Nat /\ now \in Nat /\ submitted <= submitted' /\ now <= now'
    BY <1>1 DEF TypeOK
  <1>6. NewestFits(t, Newest, Newest')
    BY <1>1, <1>2, <1>3, <1>5 DEF NewestFits
  <1> QED  BY <1>1, <1>3, <1>4, <1>5, <1>6, WriteKeeps

(* A write of a pool that leaves its spec alone.                           *)
LEMMA PoolWrite ==
  ASSUME TypeOK, SpecsFixed, NEW p \in Pools, NEW o \in PoolObject, StorePool(p, o),
         o.spec = NewestPool(p).spec
  PROVE  Rooms' = Rooms /\ SpecsFixed'
  <1> DEFINE w == pool[p]
  <1>1. /\ w \in Seq(PoolObject) \ {<<>>}
        /\ pool' = [pool EXCEPT ![p] = Stored(w, o)] /\ pool \in [Pools -> Seq(PoolObject) \ {<<>>}]
    BY DEF TypeOK, StorePool
  <1> HIDE DEF w
  <1>2. /\ Current(Stored(w, o)) = o
        /\ \A x \in Versions(Stored(w, o)) : x = o \/ x \in Versions(w)
    BY <1>1, WindowVersions
  <1>3. \A q \in Pools : NewestPool(q)' = IF q = p THEN o ELSE NewestPool(q)
    BY <1>1, <1>2 DEF NewestPool
  <1>4. \A q \in Pools : NewestPool(q)'.spec = NewestPool(q).spec
    BY <1>3
  <1>5. Rooms' = Rooms
    BY <1>4 DEF Rooms
  <1>6. ASSUME NEW q \in Pools, NEW x \in Versions(pool'[q])
        PROVE  x.spec = NewestPool(q)'.spec
    <2>1. CASE q = p
      <3>1. x = o \/ x \in Versions(pool[p])
        BY <1>1, <1>2, <2>1 DEF w
      <3> QED  BY <1>4, <2>1, <3>1 DEF SpecsFixed
    <2>2. CASE q # p
      BY <1>1, <1>4, <2>2 DEF SpecsFixed
    <2> QED  BY <2>1, <2>2
  <1>7. SpecsFixed'
    BY <1>6 DEF SpecsFixed
  <1> QED  BY <1>5, <1>7

(* The informers and a restart: windows lose their old versions.           *)
LEMMA PoolWindows ==
  ASSUME TypeOK, SpecsFixed, pool' \in [Pools -> Seq(PoolObject) \ {<<>>}],
         \A p \in Pools : \/ pool'[p] = pool[p]
                          \/ Lagging(pool[p]) /\ pool'[p] = Delivered(pool[p])
                          \/ pool'[p] = Relisted(pool[p])
  PROVE  Rooms' = Rooms /\ SpecsFixed'
  <1>1. ASSUME NEW p \in Pools
        PROVE  Current(pool'[p]) = Current(pool[p]) /\ Versions(pool'[p]) \subseteq Versions(pool[p])
    <2>1. pool[p] \in Seq(PoolObject) \ {<<>>} /\ Current(pool[p]) \in PoolObject
      BY WindowEnds DEF TypeOK
    <2> QED  BY <2>1, WindowVersions
  <1>2. \A p \in Pools : NewestPool(p)' = NewestPool(p)
    BY <1>1 DEF NewestPool
  <1>3. Rooms' = Rooms
    BY <1>2 DEF Rooms
  <1>4. SpecsFixed'
    BY <1>1, <1>2 DEF SpecsFixed
  <1> QED  BY <1>3, <1>4

LEMMA ReconcileKeeps ==
  ASSUME SlotInv, TypeOK', GrantSound', NEW p \in Pools, Reconcile(p)
  PROVE  SlotInv'
  <1> USE DEF SlotInv
  <1>1. UNCHANGED <<tasks, pool, now, submitted>>
    BY DEF Reconcile, clock
  <1>2. /\ Newest' = Newest /\ Rooms' = Rooms /\ SpecsFixed'
        /\ Versions(tasks)' = Versions(tasks) /\ Pairs(tasks)' = Pairs(tasks)
    BY <1>1 DEF Newest, Rooms, NewestPool, SpecsFixed
  <1>3. call'.todo = {}
    BY DEF Reconcile, Idle
  <1>4. call'.pc # "idle" => call'.obj.spec.max = Rooms'[call'.pool]
    <2>1. CASE call' = Idle
      BY <2>1 DEF Idle
    <2>2. CASE call' = [Idle EXCEPT !.pc = "list", !.pool = p, !.obj = Cached(pool[p])]
      <3>1. call'.pool = p /\ call'.obj = Cached(pool[p])
        BY <2>2 DEF Idle
      <3>2. Cached(pool[p]) \in Versions(pool[p])
        <4>1. pool[p] \in Seq(PoolObject) \ {<<>>} /\ Cached(pool[p]) \in PoolObject
          BY NewestTypes DEF TypeOK
        <4> QED  BY <4>1, WindowVersions
      <3> QED  BY <1>2, <3>1, <3>2 DEF SpecsFixed, Rooms
    <2> QED  BY <2>1, <2>2 DEF Reconcile
  <1>5. CallSound'
    BY <1>3, <1>4 DEF CallSound
  <1> QED  BY <1>1, <1>2, <1>5, QuietKeeps

(* The first k pending tasks by creation time, and what works, fit.        *)
LEMMA PrefixHasSlots ==
  ASSUME NEW n \in Nat, NEW m, NEW s, NEW room, NEW v \in Tables, Sound(room, m, s, v),
         NEW p \in Pools,
         NEW G \in FifoPrefix(Pends(p, v), v,
                             ToGrant(SlotsAvailable(n, Cardinality(Works(p, v))),
                                     Cardinality(Pends(p, v)))),
         NEW t \in G
  PROVE  Slot(n, p, v, t)
  <1> DEFINE W == Works(p, v)
             a == Cardinality(W)
             k == ToGrant(SlotsAvailable(n, a), Cardinality(Pends(p, v)))
  <1>1. /\ G \in SUBSET Pends(p, v) /\ Cardinality(G) = k
        /\ \A x \in G, y \in Pends(p, v) \ G : v[x].created <= v[y].created
    BY DEF FifoPrefix
  <1>2. /\ G \in SUBSET Tasks /\ W \in SUBSET Tasks /\ W \cap G = {}
        /\ IsFiniteSet(G) /\ IsFiniteSet(W) /\ a \in Nat /\ Cardinality(Pends(p, v)) \in Nat
    BY <1>1, VersionSets, Cards
  <1>3. Cardinality(G) # 0
    BY <1>2, FS_EmptySet
  <1>4. a + k <= n /\ k \in Nat
    BY <1>1, <1>2, <1>3 DEF ToGrant, SlotsAvailable
  <1>5. Front(p, v, t) \subseteq G
    <2> SUFFICES ASSUME NEW x \in Front(p, v, t), x \notin G PROVE FALSE
      OBVIOUS
    <2>1. x \in Pends(p, v) /\ x \in Tasks /\ v[x].created <= v[t].created
      BY VersionSets DEF Front
    <2>2. v[t].created <= v[x].created
      BY <1>1, <2>1
    <2>3. v[x].created = v[t].created
      <3>1. v[x].created \in Nat /\ v[t].created \in Nat
        BY <1>2, <2>1 DEF Tables, TaskObject
      <3> QED  BY <2>1, <2>2, <3>1
    <2>4. v[x].exists /\ v[t].exists /\ t \in Tasks
      BY <1>1, <1>2, <2>1, InSets
    <2> QED  BY <2>1, <2>3, <2>4 DEF Sound
  <1>6. Cardinality(W \union G) = a + k
    <2>1. Cardinality(W \union G) = Cardinality(W) + Cardinality(G) - Cardinality(W \cap G)
      BY <1>2, FS_Union
    <2>2. Cardinality(W \cap G) = 0
      BY <1>2, FS_EmptySet
    <2> QED  BY <1>1, <1>2, <1>4, <2>1, <2>2
  <1>7. Cardinality(W \union Front(p, v, t)) <= Cardinality(W \union G)
        /\ Cardinality(W \union Front(p, v, t)) \in Nat
    <2>1. W \union G \in SUBSET Tasks /\ W \union Front(p, v, t) \in SUBSET (W \union G)
      BY <1>2, <1>5
    <2> QED  BY <2>1, Cards
  <1>8. Cardinality(W \union Front(p, v, t)) <= n
    BY <1>2, <1>4, <1>6, <1>7
  <1> QED  BY <1>1, <1>8 DEF Slot

(* The list is that of some earlier version; the tasks chosen in it that    *)
(* are still due have their slots in every later version too.              *)
LEMMA ListKeeps ==
  ASSUME SlotInv, TypeOK', GrantSound', listPoolTasks
  PROVE  SlotInv'
  <1> USE DEF SlotInv
  <1> DEFINE p == call.pool
             seen == Cached(tasks)
  <1>1. /\ UNCHANGED <<tasks, pool, now, submitted>> /\ call.pc = "list" /\ call \in Call
        /\ p \in Pools /\ Rooms \in [Pools -> Nat]
    BY NewestTypes, RoomsType DEF listPoolTasks, clock, TypeOK
  <1>2. /\ Newest' = Newest /\ Rooms' = Rooms /\ SpecsFixed'
        /\ Versions(tasks)' = Versions(tasks) /\ Pairs(tasks)' = Pairs(tasks)
    BY <1>1 DEF Newest, Rooms, NewestPool, SpecsFixed
  <1>3. CASE call' = Idle
    <2>1. CallSound'
      BY <1>3 DEF CallSound, Idle
    <2> QED  BY <1>1, <1>2, <2>1, QuietKeeps
  <1>4. CASE call' # Idle
    <2>1. call'.pool = p /\ call'.obj = call.obj
      BY <1>1, <1>4 DEF listPoolTasks, Return, Call
    <2>2. call'.obj.spec.max = Rooms'[call'.pool] /\ call.obj.spec.max = Rooms[p]
      BY <1>1, <1>2, <2>1 DEF CallSound
    <2>3. /\ seen \in Tables /\ seen \in Versions(tasks) /\ Sound(Rooms, submitted, now, seen)
          /\ \A v \in Versions(tasks) : /\ v \in Tables /\ Sequel(Rooms, seen, v)
                                       /\ Sequel(Rooms, v, Newest)
                                       /\ \A t \in Tasks : Same(t, seen, Newest) => Same(t, v, Newest)
      <3>1. tasks \in Seq(Tables) \ {<<>>} /\ seen \in Tables
        BY NewestTypes, TaskWindow
      <3>2. /\ seen \in Versions(tasks)
            /\ \A v \in Versions(tasks) : <<seen, v>> \in Pairs(tasks) /\ <<v, Newest>> \in Pairs(tasks)
        BY <3>1, WindowVersions, WindowPairs, TaskWindow
      <3>3. \A v, w : <<v, w>>[1] = v /\ <<v, w>>[2] = w
        OBVIOUS
      <3>4. \A v, w : <<v, w>> \in Pairs(tasks) => Sequel(Rooms, v, w)
        BY <3>3 DEF VersionsOrdered
      <3>5. \A v, w : <<v, w>> \in Pairs(tasks) =>
              \A t \in Tasks : Same(t, v, Newest) => Same(t, w, Newest)
        BY <3>3 DEF NoReturn
      <3> QED  BY <3>1, <3>2, <3>4, <3>5, TaskWindow DEF VersionsSound
    <2>4. ASSUME NEW g \in call'.todo
          PROVE  /\ g.read.exists /\ g.read.uid <= submitted'
                 /\ StillDue(g)' =>
                      \A v \in Versions(tasks)' :
                        Same(g.task, v, Newest') /\ Slot(Rooms'[call'.pool], call'.pool, v, g.task)
      <3>1. PICK G \in FifoPrefix(Pends(p, seen), seen,
                               ToGrant(SlotsAvailable(call.obj.spec.max, Cardinality(Works(p, seen))),
                                       Cardinality(Pends(p, seen)))) :
              call'.todo = {[task |-> t, read |-> seen[t]] : t \in G}
        BY ListGives DEF Works, Pends, Counted
      <3>2. PICK t \in G : g = [task |-> t, read |-> seen[t]]
        BY <3>1
      <3>3. /\ t \in Pends(p, seen) /\ t \in Tasks /\ g.task = t /\ g.read = seen[t]
        BY <3>2, VersionSets DEF FifoPrefix
      <3>4. Slot(Rooms[p], p, seen, t)
        BY <1>1, <2>2, <2>3, <3>1, PrefixHasSlots
      <3>5. g.read.exists /\ p \in seen[t].member.labels
        BY <3>3, InSets
      <3>6. g.read.uid <= submitted'
        BY <1>1, <2>3, <3>3 DEF Sound
      <3>7. ASSUME StillDue(g), NEW v \in Versions(tasks)
            PROVE  Same(t, v, Newest) /\ Slot(Rooms[p], p, v, t)
        <4>1. Same(t, seen, Newest) /\ Newest[t].phase = "Pending"
          BY <3>3, <3>5, <3>7 DEF StillDue, Same
        <4>2. Same(t, v, Newest) /\ Same(t, seen, v)
          BY <2>3, <3>3, <4>1 DEF Same
        <4>3. v[t].phase = "Pending" /\ v[t].member = seen[t].member /\ v[t].exists
          BY <2>3, <3>3, <4>1, <4>2 DEF Sequel, Same
        <4>4. t \in Pends(p, v)
          BY <3>3, <3>5, <4>3, InSets
        <4> HIDE DEF p, seen
        <4>5. Slot(Rooms[p], p, v, t)
          BY <1>1, <2>3, <3>3, <3>4, <4>2, <4>4, SlotLasts
        <4> QED  BY <4>2, <4>5
      <3>8. StillDue(g)' => StillDue(g)
        BY <1>2 DEF StillDue
      <3> QED  BY <1>2, <2>1, <3>3, <3>5, <3>6, <3>7, <3>8
    <2>5. CallSound'
      BY <2>2, <2>4 DEF CallSound
    <2> QED  BY <1>1, <1>2, <2>5, QuietKeeps
  <1> QED  BY <1>3, <1>4

LEMMA StatusKeeps ==
  ASSUME SlotInv, TypeOK', GrantSound', updateStatus \/ apiCallFails
  PROVE  SlotInv'
  <1> USE DEF SlotInv
  <1>1. UNCHANGED <<tasks, now, submitted>> /\ call' = Idle
    BY DEF updateStatus, apiCallFails, Return, clock
  <1>2. CallSound'
    BY <1>1 DEF CallSound, Idle
  <1>3. Rooms' = Rooms /\ SpecsFixed'
    <2>1. CASE UNCHANGED pool
      BY <2>1 DEF Rooms, NewestPool, SpecsFixed
    <2>2. CASE /\ call.obj = NewestPool(call.pool)
               /\ StorePool(call.pool, [call.obj EXCEPT !.status = call.status])
      <3>1. /\ call.pool \in Pools
            /\ [call.obj EXCEPT !.status = call.status] \in PoolObject
            /\ [call.obj EXCEPT !.status = call.status].spec = NewestPool(call.pool).spec
        BY <2>2, NewestTypes DEF PoolObject
      <3> QED  BY <2>2, <3>1, PoolWrite
    <2> QED  BY <2>1, <2>2 DEF updateStatus, apiCallFails
  <1>4. Newest' = Newest /\ Versions(tasks)' = Versions(tasks) /\ Pairs(tasks)' = Pairs(tasks)
    BY <1>1 DEF Newest
  <1> QED  BY <1>1, <1>2, <1>3, <1>4, QuietKeeps

LEMMA InformersKeep ==
  ASSUME SlotInv, TypeOK', GrantSound', SyncTasks \/ (\E p \in Pools : SyncPool(p)) \/ Crash
  PROVE  SlotInv'
  <1> USE DEF SlotInv
  <1>1. /\ tasks \in Seq(Tables) \ {<<>>} /\ Newest \in Tables
        /\ pool \in [Pools -> Seq(PoolObject) \ {<<>>}] /\ pool' \in [Pools -> Seq(PoolObject) \ {<<>>}]
    BY TaskWindow DEF TypeOK
  <1>2. \/ tasks' = tasks
        \/ Lagging(tasks) /\ tasks' = Delivered(tasks)
        \/ tasks' = Relisted(tasks)
    BY DEF SyncTasks, SyncPool, Crash
  <1>3. /\ Newest' = Newest
        /\ Versions(tasks') \subseteq Versions(tasks) /\ Pairs(tasks') \subseteq Pairs(tasks)
    BY <1>1, <1>2, WindowVersions, WindowPairs DEF Newest
  <1>4. \A p \in Pools : \/ pool'[p] = pool[p]
                         \/ Lagging(pool[p]) /\ pool'[p] = Delivered(pool[p])
                         \/ pool'[p] = Relisted(pool[p])
    <2>1. CASE SyncTasks
      BY <2>1 DEF SyncTasks
    <2>2. ASSUME NEW q \in Pools, SyncPool(q)
          PROVE  \A p \in Pools : \/ pool'[p] = pool[p]
                                  \/ Lagging(pool[p]) /\ pool'[p] = Delivered(pool[p])
      BY <1>1, <2>2 DEF SyncPool
    <2>3. CASE Crash
      BY <2>3 DEF Crash
    <2> QED  BY <2>1, <2>2, <2>3
  <1>5. Rooms' = Rooms /\ SpecsFixed'
    BY <1>1, <1>4, PoolWindows
  <1>6. UNCHANGED <<now, submitted>> /\ (CallGoesOn \/ call' = Idle)
    BY DEF SyncTasks, SyncPool, Crash, clock, CallGoesOn
  <1>7. CallGoesOn \/ CallSound'
    BY <1>6 DEF CallSound, Idle
  <1>8. Versions(tasks)' \subseteq Versions(tasks) /\ Pairs(tasks)' \subseteq Pairs(tasks)
    BY <1>3
  <1> QED  BY <1>3, <1>5, <1>6, <1>7, <1>8, QuietKeeps

(* A pool that is deleted keeps the spec it had.                           *)
LEMMA DropKeeps ==
  ASSUME SlotInv, TypeOK', GrantSound', NEW p \in Pools, Drop(p)
  PROVE  SlotInv'
  <1> USE DEF SlotInv
  <1>1. /\ UNCHANGED <<tasks, now, submitted, call>>
        /\ StorePool(p, [NewestPool(p) EXCEPT !.exists = FALSE])
    BY DEF Drop, clock
  <1>2. /\ [NewestPool(p) EXCEPT !.exists = FALSE] \in PoolObject
        /\ [NewestPool(p) EXCEPT !.exists = FALSE].spec = NewestPool(p).spec
    BY NewestTypes DEF PoolObject
  <1>3. Rooms' = Rooms /\ SpecsFixed'
    BY <1>1, <1>2, PoolWrite
  <1>4. /\ Newest' = Newest /\ Versions(tasks)' = Versions(tasks) /\ Pairs(tasks)' = Pairs(tasks)
        /\ CallGoesOn
    BY <1>1 DEF Newest, CallGoesOn
  <1> QED  BY <1>1, <1>3, <1>4, QuietKeeps

LEMMA SlotInvStep == ASSUME OrderlyUse PROVE SlotInv /\ [Next]_vars => SlotInv'
  <1> SUFFICES ASSUME SlotInv, [Next]_vars PROVE SlotInv'
    OBVIOUS
  <1>1. TypeOK' /\ GrantSound'
    BY TypeStep, GrantSoundStep DEF SlotInv
  <1>2. CASE UNCHANGED vars
    <2>1. UNCHANGED <<tasks, pool, call, now, submitted>>
      BY <1>2 DEF vars, clock
    <2>2. /\ Newest' = Newest /\ Rooms' = Rooms /\ SpecsFixed' /\ CallGoesOn
          /\ Versions(tasks)' = Versions(tasks) /\ Pairs(tasks)' = Pairs(tasks)
      BY <2>1 DEF Newest, Rooms, NewestPool, SpecsFixed, SlotInv, CallGoesOn
    <2> QED  BY <1>1, <2>1, <2>2, QuietKeeps
  <1>3. ASSUME NEW p \in Pools, Reconcile(p) PROVE SlotInv'
    BY <1>1, <1>3, ReconcileKeeps
  <1>4. CASE listPoolTasks
    BY <1>1, <1>4, ListKeeps
  <1>5. ASSUME NEW g \in call.todo, grantSlot(g) PROVE SlotInv'
    BY <1>1, <1>5, GrantKeeps
  <1>6. CASE updateStatus \/ apiCallFails
    BY <1>1, <1>6, StatusKeeps
  <1>7. CASE SyncTasks \/ (\E p \in Pools : SyncPool(p)) \/ Crash
    BY <1>1, <1>7, InformersKeep
  <1>8. ASSUME NEW t \in Tasks, Submit(t) PROVE SlotInv'
    BY <1>1, <1>8, SubmitKeeps
  <1>9. ASSUME NEW t \in Tasks, Remove(t) PROVE SlotInv'
    BY <1>1, <1>9, RemoveKeeps
  <1>10. ASSUME NEW t \in Tasks, Admit(t) \/ Advance(t) \/ Refuse(t) PROVE SlotInv'
    BY <1>1, <1>10, MovesKeep
  <1>11. ASSUME NEW p \in Pools, Drop(p) PROVE SlotInv'
    BY <1>1, <1>11, DropKeeps
  <1>12. /\ \A t \in Tasks : ~Relabel(t)
         /\ \A p \in Pools : ~Resize(p)
    BY DEF OrderlyUse, Relabel, Resize, Fault
  <1> QED
    BY <1>2, <1>3, <1>4, <1>5, <1>6, <1>7, <1>8, <1>9, <1>10, <1>11, <1>12
    DEF Next, ReconcileStep, Environment

LEMMA SlotInvInit == Init => SlotInv
  <1> SUFFICES ASSUME Init PROVE SlotInv
    OBVIOUS
  <1> DEFINE none == [t \in Tasks |-> NoTask]
  <1>1. TypeOK /\ tasks = <<none>> /\ none \in Tables /\ now = 0 /\ submitted = 0 /\ call = Idle
    BY TypeInit, ConstantTypes DEF Init, Tables
  <1>2. Newest = none /\ Versions(tasks) = {none} /\ \A d \in Pairs(tasks) : d = <<none, none>>
    BY <1>1 DEF Newest, Current, Versions, Pairs
  <1>3. /\ ~NoTask.exists /\ NoTask.uid = 0 /\ NoTask.created = 0 /\ NoTask.member.labels = {}
        /\ \A t \in Tasks : none[t] = NoTask
    BY DEF NoTask
  <1> HIDE DEF none
  <1>4. \A p : Works(p, none) = {} /\ Occupants(p, none) = {}
    BY <1>3, VersionSets, InSets
  <1>5. Sound(Rooms, submitted, now, none)
    <2>1. \A p \in Pools : Cardinality(Works(p, none)) <= Rooms[p]
      <3>1. \A p \in Pools : Rooms[p] \in Nat
        BY <1>1, RoomsType
      <3> QED  BY <1>4, <3>1, FS_EmptySet
    <2>2. \A S \in SUBSET Tasks :
            S # {} => \E t \in S : \A u \in S : none[u].created <= none[t].created
      BY <1>3
    <2> QED  BY <1>1, <1>3, <2>1, <2>2 DEF Sound
  <1>6. Sequel(Rooms, none, none)
    BY <1>3, <1>4 DEF Sequel, Same
  <1>7. VersionsSound /\ VersionsOrdered
    BY <1>2, <1>5, <1>6 DEF VersionsSound, VersionsOrdered
  <1>8. NoReturn
    BY <1>2, <1>3 DEF NoReturn, Same
  <1>9. SpecsFixed
    <2>1. PICK s \in [Pools -> PoolSpecs] :
            pool = [p \in Pools |-> <<[exists |-> TRUE, spec |-> s[p], status |-> NewStatus]>>]
      BY DEF Init
    <2>2. \A p \in Pools : \A o \in Versions(pool[p]) : o = NewestPool(p)
      BY <2>1 DEF Versions, NewestPool, Current
    <2> QED  BY <2>2 DEF SpecsFixed
  <1>10. GrantSound /\ CallSound
    BY <1>1 DEF GrantSound, CallSound, Idle
  <1> QED  BY <1>1, <1>7, <1>8, <1>9, <1>10 DEF SlotInv

-----------------------------------------------------------------------------
(* What follows.                                                           *)

(* The window may end in any version: also the newest has given slots only  *)
(* to tasks for which, and for all before which, there are slots.          *)
LEMMA NewestSlots ==
  ASSUME SlotInv
  PROVE  /\ Rooms \in [Pools -> Nat] /\ Newest \in Tables
         /\ Sound(Rooms, submitted, now, Newest)
         /\ \A p \in Pools : \A t \in Occupants(p, Newest) :
              t \in Works(p, Newest) \/ Slot(Rooms[p], p, Newest, t)
  <1>1. Newest \in Versions(tasks) /\ <<Newest, Newest>> \in Pairs(tasks)
    BY TaskWindow DEF SlotInv
  <1>2. Sequel(Rooms, Newest, Newest)
    <2>1. <<Newest, Newest>>[1] = Newest /\ <<Newest, Newest>>[2] = Newest
      OBVIOUS
    <2> QED  BY <1>1, <2>1 DEF SlotInv, VersionsOrdered
  <1>3. \A p \in Pools : \A t \in Occupants(p, Newest) :
          t \in Works(p, Newest) \/ Slot(Rooms[p], p, Newest, t)
    BY <1>2 DEF Sequel
  <1> QED  BY <1>1, <1>3, TaskWindow, RoomsType DEF SlotInv, VersionsSound

LEMMA SlotsNotOverbooked == SlotInv => NoOverbooking
  <1> SUFFICES ASSUME SlotInv, NEW p \in Pools
               PROVE  Cardinality(Working(p) \union Admitted(p)) <= NewestPool(p).spec.max
    BY DEF NoOverbooking
  <1> DEFINE W == Works(p, Newest)
             A == {t \in Pends(p, Newest) : Newest[t].granted}
  <1>1. Working(p) = W /\ Admitted(p) = A /\ NewestPool(p).spec.max = Rooms[p]
    BY DEF Working, Admitted, Works, Pends, Rooms
  <1>2. W \in SUBSET Tasks /\ A \in SUBSET Tasks
    BY VersionSets
  <1>3. CASE A = {}
    BY <1>1, <1>3, NewestSlots DEF Sound
  <1>4. CASE A # {}
    <2>1. \A t \in A : Slot(Rooms[p], p, Newest, t)
      <3>1. \A t \in A : t \in Occupants(p, Newest) /\ t \notin Works(p, Newest)
        BY VersionSets DEF Occupants
      <3> QED  BY <3>1, NewestSlots
    <2> HIDE DEF A, W
    <2>2. PICK y \in A : Slot(Rooms[p], p, Newest, y) /\ A \subseteq Front(p, Newest, y)
      BY <1>2, <1>4, <2>1, SlotForAll, NewestSlots
    <2> DEFINE B == Works(p, Newest) \union Front(p, Newest, y)
    <2>3. B \in SUBSET Tasks /\ W \union A \in SUBSET B
      BY <2>2, VersionSets DEF W
    <2>4. /\ Cardinality(B) \in Nat /\ Cardinality(W \union A) \in Nat
          /\ Cardinality(W \union A) <= Cardinality(B)
      BY <2>3, Cards
    <2>5. Cardinality(B) <= Rooms[p] /\ Rooms[p] \in Nat
      BY <2>2, NewestSlots DEF Slot
    <2>6. Cardinality(W \union A) <= Rooms[p]
      BY <2>4, <2>5
    <2> QED  BY <1>1, <2>6
  <1> QED  BY <1>3, <1>4

(* Those that work and those that are before a waiting task are disjoint.  *)
LEMMA SlotSum ==
  ASSUME NEW p, NEW v, NEW t, NEW n, Slot(n, p, v, t)
  PROVE  Cardinality(Works(p, v)) + Cardinality(Front(p, v, t)) <= n
  <1> DEFINE W == Works(p, v)
             F == Front(p, v, t)
  <1>1. /\ W \in SUBSET Tasks /\ F \in SUBSET Tasks /\ W \cap F = {}
        /\ IsFiniteSet(W) /\ IsFiniteSet(F)
    BY VersionSets, Cards DEF Front
  <1>2. Cardinality(W) \in Nat /\ Cardinality(F) \in Nat
    BY <1>1, Cards
  <1>3. Cardinality(W \union F) = Cardinality(W) + Cardinality(F) - Cardinality(W \cap F)
    BY <1>1, FS_Union
  <1>4. Cardinality(W \cap F) = 0
    BY <1>1, FS_EmptySet
  <1>5. Cardinality(W \union F) <= n
    BY DEF Slot
  <1> QED  BY <1>2, <1>3, <1>4, <1>5

LEMMA SlotsInOrder == SlotInv => NoOvertaking
  <1> SUFFICES ASSUME SlotInv, NEW p \in Pools, NEW t \in Admitted(p)
               PROVE  LET pending == InPhases(Listed(p, Newest), Newest, {"Pending"})
                          ahead   == {u \in pending : Newest[u].created <= Newest[t].created}
                      IN  NewestPool(p).exists
                          => Cardinality(Working(p)) + Cardinality(ahead) <= NewestPool(p).spec.max
    BY DEF NoOvertaking
  <1>1. t \in Occupants(p, Newest) /\ t \notin Works(p, Newest)
    BY VersionSets DEF Admitted, Occupants, Pends
  <1>2. Slot(Rooms[p], p, Newest, t)
    BY <1>1, NewestSlots
  <1>3. Cardinality(Works(p, Newest)) + Cardinality(Front(p, Newest, t)) <= Rooms[p]
    BY <1>2, SlotSum
  <1> QED  BY <1>3 DEF Works, Front, Pends, Working, Rooms

LEMMA SlotInvHolds == ASSUME OrderlyUse PROVE Spec => []SlotInv
  <1>1. SlotInv /\ [Next]_vars => SlotInv'
    BY SlotInvStep
  <1> QED  BY <1>1, SlotInvInit, PTL DEF Spec

(* Slots are never overbooked, however stale the lists are on which the     *)
(* calls decide, whatever fails and whenever the operator dies: no pool     *)
(* ever has more members working, or let through to work, than             *)
(* maxConcurrency.                                                         *)
THEOREM NeverOverbooked == ASSUME OrderlyUse PROVE Spec => []NoOverbooking
  BY SlotInvHolds, SlotsNotOverbooked, PTL

(* First in, first out: a task is let through before an older one only     *)
(* when there is a slot for that one too.                                  *)
THEOREM NeverOvertaken == ASSUME OrderlyUse PROVE Spec => []NoOvertaking
  BY SlotInvHolds, SlotsInOrder, PTL

-----------------------------------------------------------------------------
(* AgentPool implements SlotQueue.                                         *)

(* A task that belongs to no pool would arrive in no queue.                *)
NoOutsiders == \A m \in Memberships : m.labels # {}

Belonging == \A t \in Tasks : Newest[t].exists => Newest[t].member.labels # {}

(* The queue's sets are those of the newest version.                       *)
LEMMA QueueSets ==
  ASSUME NEW p \in Pools
  PROVE  /\ Queue!At(p, {"working"}) = Works(p, Newest)
         /\ \A t \in Tasks : Queue!Ahead(p, t) = Front(p, Newest, t)
  <1>1. \A u \in Tasks : Standing[p][u] = PlaceOf(p, Newest[u]) /\ Arrivals[u] = Newest[u].created
    BY DEF Standing, Arrivals
  <1>2. \A u \in Tasks :
          /\ PlaceOf(p, Newest[u]) = "working" <=> u \in Works(p, Newest)
          /\ PlaceOf(p, Newest[u]) \in {"queued", "admitted"} <=> u \in Pends(p, Newest)
    BY InSets DEF PlaceOf, Active
  <1> DEFINE W == Works(p, Newest)
             Q == Pends(p, Newest)
  <1>0. W \in SUBSET Tasks /\ Q \in SUBSET Tasks
    BY VersionSets
  <1>3. Queue!At(p, {"working"}) = W
    <2>1. \A u \in Tasks : Standing[p][u] \in {"working"} <=> u \in W
      BY <1>1, <1>2
    <2> HIDE DEF W
    <2> QED  BY <1>0, <2>1 DEF Queue!At
  <1>4. Queue!At(p, {"queued", "admitted"}) = Q
    <2>1. \A u \in Tasks : Standing[p][u] \in {"queued", "admitted"} <=> u \in Q
      BY <1>1, <1>2
    <2> HIDE DEF Q
    <2> QED  BY <1>0, <2>1 DEF Queue!At
  <1>5. \A t \in Tasks : Queue!Ahead(p, t) = Front(p, Newest, t)
    BY <1>1, <1>4, VersionSets DEF Queue!Ahead, Front
  <1> QED  BY <1>3, <1>5

(* The count of the library is the same count in the instance.             *)
LEMMA SameCount == ASSUME NEW S PROVE Queue!Cardinality(S) = Cardinality(S)
  BY Zenon DEF Queue!Cardinality, Cardinality

(* A write of a task, and how the queue shows it.                          *)
Writes(t, o) == Newest' = [Newest EXCEPT ![t] = o]

Shows(p, t, to, at) ==
  /\ Standing' = [Standing EXCEPT ![p][t] = to]
  /\ Arrivals' = [Arrivals EXCEPT ![t] = at]

(* A write of a task is a step in the queue of the one pool it belongs to.  *)
LEMMA WriteMoves ==
  ASSUME Newest \in Tables, NEW t \in Tasks, NEW o, Writes(t, o),
         NEW p \in Pools, \A q \in Pools \ {p} : PlaceOf(q, o) = PlaceOf(q, Newest[t])
  PROVE  Shows(p, t, PlaceOf(p, o), o.created) /\ Standing[p][t] = PlaceOf(p, Newest[t])
  <1>1. Newest'[t] = o /\ \A u \in Tasks \ {t} : Newest'[u] = Newest[u]
    BY DEF Tables, Writes
  <1>2. Arrivals' = [u \in Tasks |-> Newest'[u].created]
    BY DEF Arrivals
  <1>3. Standing' = [q \in Pools |-> [u \in Tasks |-> PlaceOf(q, Newest'[u])]]
    BY DEF Standing
  <1>4. /\ Arrivals = [u \in Tasks |-> Newest[u].created]
        /\ Standing = [q \in Pools |-> [u \in Tasks |-> PlaceOf(q, Newest[u])]]
    BY DEF Arrivals, Standing
  <1> DEFINE n == Newest
             x == Newest'
  <1>5. /\ x[t] = o /\ \A u \in Tasks \ {t} : x[u] = n[u]
        /\ Arrivals' = [u \in Tasks |-> x[u].created] /\ Arrivals = [u \in Tasks |-> n[u].created]
        /\ Standing' = [q \in Pools |-> [u \in Tasks |-> PlaceOf(q, x[u])]]
        /\ Standing = [q \in Pools |-> [u \in Tasks |-> PlaceOf(q, n[u])]]
        /\ \A q \in Pools \ {p} : PlaceOf(q, o) = PlaceOf(q, n[t])
    BY <1>1, <1>2, <1>3, <1>4
  <1> HIDE DEF n, x
  <1>6. Arrivals' = [Arrivals EXCEPT ![t] = o.created]
    BY <1>5
  <1>7. Standing' = [Standing EXCEPT ![p][t] = PlaceOf(p, o)]
    BY <1>5
  <1> QED  BY <1>4, <1>6, <1>7 DEF Shows

LEMMA RoomsStay ==
  ASSUME OrderlyUse, SlotInv, [Next]_vars
  PROVE  Rooms' = Rooms
  <1> USE DEF SlotInv
  <1>1. CASE UNCHANGED pool
    BY <1>1 DEF Rooms, NewestPool
  <1>2. CASE updateStatus /\ ~UNCHANGED pool
    <2>1. /\ call.pool \in Pools /\ StorePool(call.pool, [call.obj EXCEPT !.status = call.status])
          /\ [call.obj EXCEPT !.status = call.status] \in PoolObject
          /\ [call.obj EXCEPT !.status = call.status].spec = NewestPool(call.pool).spec
      BY <1>2, NewestTypes DEF updateStatus, PoolObject
    <2> QED  BY <2>1, PoolWrite
  <1>3. ASSUME NEW p \in Pools, Drop(p) PROVE Rooms' = Rooms
    <2>1. /\ StorePool(p, [NewestPool(p) EXCEPT !.exists = FALSE])
          /\ [NewestPool(p) EXCEPT !.exists = FALSE] \in PoolObject
          /\ [NewestPool(p) EXCEPT !.exists = FALSE].spec = NewestPool(p).spec
      BY <1>3, NewestTypes DEF Drop, PoolObject
    <2> QED  BY <2>1, PoolWrite
  <1>4. CASE (\E p \in Pools : SyncPool(p)) \/ Crash
    <2>1. /\ pool \in [Pools -> Seq(PoolObject) \ {<<>>}]
          /\ pool' \in [Pools -> Seq(PoolObject) \ {<<>>}]
      BY TypeStep DEF TypeOK
    <2>2. \A p \in Pools : \/ pool'[p] = pool[p]
                           \/ Lagging(pool[p]) /\ pool'[p] = Delivered(pool[p])
                           \/ pool'[p] = Relisted(pool[p])
      BY <1>4, <2>1 DEF SyncPool, Crash
    <2> QED  BY <2>1, <2>2, PoolWindows
  <1>5. \A p \in Pools : ~Resize(p)
    BY DEF OrderlyUse, Resize, Fault
  <1> QED
    BY <1>1, <1>2, <1>3, <1>4, <1>5
    DEF Next, vars, ReconcileStep, Environment, Reconcile, listPoolTasks, grantSlot,
        apiCallFails, SyncTasks, Submit, Remove, Relabel, Admit, Advance, Refuse, Moves

(* Every step writes one task or none.                                     *)
LEMMA StepWrites ==
  ASSUME OrderlyUse, SlotInv, [Next]_vars
  PROVE  \/ Newest' = Newest
         \/ \E g \in call.todo :
              /\ Fresh(g) /\ ~g.read.granted
              /\ Newest' = [Newest EXCEPT ![g.task] = [Newest[g.task] EXCEPT !.granted = TRUE]]
         \/ \E t \in Tasks, m \in Memberships :
              /\ ~Newest[t].exists /\ now < now'
              /\ Newest' = [Newest EXCEPT ![t] =
                    [NoTask EXCEPT !.uid = submitted', !.exists = TRUE,
                                   !.member = m, !.created = now']]
         \/ \E t \in Tasks : Newest[t].exists /\ Newest' = [Newest EXCEPT ![t] = NoTask]
         \/ \E t \in Tasks, to \in Active \union Terminal :
              /\ Newest[t].exists
              /\ \/ Newest[t].phase = "Pending" /\ to \in Terminal
                 \/ Newest[t].phase = "Pending" /\ (Newest[t].member.poolRef = NoPool \/ Newest[t].granted)
                 \/ Newest[t].phase \in Active
              /\ Newest' = [Newest EXCEPT ![t] = [Newest[t] EXCEPT !.phase = to]]
  <1> USE DEF SlotInv
  <1>0. TypeOK /\ Newest \in Tables /\ tasks \in Seq(Tables) \ {<<>>}
    BY TaskWindow
  <1>1. CASE UNCHANGED tasks
    BY <1>1 DEF Newest
  <1>2. CASE SyncTasks \/ Crash
    <2>1. Newest' = Newest
      BY <1>0, <1>2, WindowVersions DEF SyncTasks, Crash, Newest
    <2> QED  BY <2>1
  <1>3. ASSUME NEW g \in call.todo, grantSlot(g), ~UNCHANGED tasks
        PROVE  /\ Fresh(g) /\ ~g.read.granted
               /\ Newest' = [Newest EXCEPT ![g.task] = [Newest[g.task] EXCEPT !.granted = TRUE]]
    <2>1. /\ Fresh(g) /\ ~g.read.granted
          /\ StoreTask(g.task, [Newest[g.task] EXCEPT !.granted = TRUE])
      BY <1>3 DEF grantSlot
    <2>2. g.task \in Tasks /\ [Newest[g.task] EXCEPT !.granted = TRUE] \in TaskObject
      BY <1>0, NewestTypes DEF Tables, TaskObject
    <2> QED  BY <1>0, <2>1, <2>2, StoreTaskType
  <1>4. ASSUME NEW t \in Tasks, Submit(t)
        PROVE  \E m \in Memberships :
                 /\ ~Newest[t].exists /\ now < now'
                 /\ Newest' = [Newest EXCEPT ![t] =
                       [NoTask EXCEPT !.uid = submitted', !.exists = TRUE,
                                      !.member = m, !.created = now']]
    <2>1. PICK g \in Gaps, m \in Memberships :
            /\ now' = now + g
            /\ StoreTask(t, [NoTask EXCEPT !.uid = submitted', !.exists = TRUE,
                                           !.member = m, !.created = now'])
      BY <1>4 DEF Submit
    <2>2. now \in Nat /\ now' \in Nat /\ now < now' /\ submitted' \in Nat /\ m \in Membership
      <3>1. g \in Nat /\ g # 0 /\ m \in Membership
        BY ConstantsAssumption DEF OrderlyUse
      <3> QED  BY <1>4, <2>1, <3>1 DEF TypeOK, Submit
    <2>3. [NoTask EXCEPT !.uid = submitted', !.exists = TRUE,
                         !.member = m, !.created = now'] \in TaskObject
      BY <2>2, ConstantTypes DEF TaskObject, NoTask
    <2> QED  BY <1>0, <1>4, <2>1, <2>2, <2>3, StoreTaskType DEF Submit
  <1>5. ASSUME NEW t \in Tasks, Remove(t)
        PROVE  Newest[t].exists /\ Newest' = [Newest EXCEPT ![t] = NoTask]
    BY <1>0, <1>5, ConstantTypes, StoreTaskType DEF Remove
  <1>6. ASSUME NEW t \in Tasks, Admit(t) \/ Advance(t) \/ Refuse(t)
        PROVE  \E to \in Active \union Terminal :
                 /\ Newest[t].exists
                 /\ \/ Newest[t].phase = "Pending" /\ to \in Terminal
                    \/ Newest[t].phase = "Pending" /\ (Newest[t].member.poolRef = NoPool \/ Newest[t].granted)
                    \/ Newest[t].phase \in Active
                 /\ Newest' = [Newest EXCEPT ![t] = [Newest[t] EXCEPT !.phase = to]]
    <2>1. PICK to \in Active \union Terminal :
            /\ Moves(t, to)
            /\ \/ Newest[t].phase = "Pending" /\ to \in Terminal
               \/ Newest[t].phase = "Pending" /\ (Newest[t].member.poolRef = NoPool \/ Newest[t].granted)
               \/ Newest[t].phase \in Active
      BY <1>6, ConstantsAssumption DEF Admit, Advance, Refuse, Terminal
    <2>2. [Newest[t] EXCEPT !.phase = to] \in TaskObject
      BY <1>0 DEF Tables, TaskObject, Phases
    <2>3. Newest[t].exists /\ StoreTask(t, [Newest[t] EXCEPT !.phase = to])
      BY <2>1 DEF Moves
    <2> QED  BY <1>0, <2>1, <2>2, <2>3, StoreTaskType
  <1>7. \A t \in Tasks : ~Relabel(t)
    BY DEF OrderlyUse, Relabel, Fault
  <1> QED
    BY <1>1, <1>2, <1>3, <1>4, <1>5, <1>6, <1>7
    DEF Next, vars, ReconcileStep, Environment, Reconcile, listPoolTasks, updateStatus,
        apiCallFails, SyncPool, Resize, Drop

LEMMA BelongingStep ==
  ASSUME OrderlyUse, NoOutsiders, SlotInv, Belonging, [Next]_vars
  PROVE  Belonging'
  <1>1. Newest \in Tables /\ \A t \in Tasks : Newest[t] \in TaskObject
    BY TaskWindow DEF SlotInv, Tables
  <1>2. ASSUME NEW t \in Tasks, NEW o, Newest' = [Newest EXCEPT ![t] = o],
               o.exists => o.member.labels # {}
        PROVE  Belonging'
    BY <1>1, <1>2 DEF Belonging, Tables
  <1>3. CASE Newest' = Newest
    BY <1>3 DEF Belonging
  <1>4. ASSUME NEW g \in call.todo,
               Newest' = [Newest EXCEPT ![g.task] = [Newest[g.task] EXCEPT !.granted = TRUE]]
        PROVE  Belonging'
    <2>1. g.task \in Tasks
      BY NewestTypes DEF SlotInv
    <2>2. [Newest[g.task] EXCEPT !.granted = TRUE].exists
            => [Newest[g.task] EXCEPT !.granted = TRUE].member.labels # {}
      BY <1>1, <2>1 DEF Belonging, TaskObject
    <2> QED  BY <1>2, <1>4, <2>1, <2>2
  <1>5. ASSUME NEW t \in Tasks, NEW m \in Memberships,
               Newest' = [Newest EXCEPT ![t] =
                 [NoTask EXCEPT !.uid = submitted', !.exists = TRUE,
                                !.member = m, !.created = now']]
        PROVE  Belonging'
    <2>1. [NoTask EXCEPT !.uid = submitted', !.exists = TRUE,
                         !.member = m, !.created = now'].member.labels # {}
      BY DEF NoTask, NoOutsiders
    <2> QED  BY <1>2, <1>5, <2>1
  <1>6. ASSUME NEW t \in Tasks, Newest' = [Newest EXCEPT ![t] = NoTask] PROVE Belonging'
    BY <1>2, <1>6 DEF NoTask
  <1>7. ASSUME NEW t \in Tasks, NEW to, Newest' = [Newest EXCEPT ![t] = [Newest[t] EXCEPT !.phase = to]]
        PROVE  Belonging'
    <2>1. [Newest[t] EXCEPT !.phase = to].exists => [Newest[t] EXCEPT !.phase = to].member.labels # {}
      BY <1>1 DEF Belonging, TaskObject
    <2> QED  BY <1>2, <1>7, <2>1
  <1> QED  BY <1>3, <1>4, <1>5, <1>6, <1>7, StepWrites

(* The one pool a task belongs to.                                         *)
LEMMA PoolOfTask ==
  ASSUME SlotInv, Belonging, NEW t \in Tasks, Newest[t].exists
  PROVE  \E p \in Pools : /\ Newest[t].member.labels = {p} /\ Newest[t].member.poolRef = p
                          /\ \A q \in Pools \ {p} : PlaceOf(q, Newest[t]) = "absent"
  <1>1. /\ Newest[t].member.labels \subseteq {Newest[t].member.poolRef}
        /\ Newest[t].member.labels # {} /\ Newest[t].member.labels \subseteq Pools
    BY NewestSlots DEF Sound, Belonging, Tables, TaskObject, Membership
  <1>2. PICK p \in Pools : Newest[t].member.labels = {p} /\ Newest[t].member.poolRef = p
    BY <1>1
  <1> QED  BY <1>2 DEF PlaceOf

(* The grant of a slot, which the task still has.                          *)
LEMMA GrantMoves ==
  ASSUME SlotInv, Belonging, Rooms' = Rooms, NEW g \in call.todo, Fresh(g), ~g.read.granted,
         Newest' = [Newest EXCEPT ![g.task] = [Newest[g.task] EXCEPT !.granted = TRUE]]
  PROVE  \E p \in Pools, t \in Tasks : Queue!Grant(p, t)
  <1> DEFINE t == g.task
             o == [Newest[t] EXCEPT !.granted = TRUE]
             p == call.pool
  <1>1. t \in Tasks /\ p \in Pools /\ Newest \in Tables /\ Newest[t] \in TaskObject
    BY NewestTypes DEF SlotInv, Tables
  <1>2. /\ Newest[t].exists /\ Newest[t].phase = "Pending" /\ ~Newest[t].granted
        /\ p \in Newest[t].member.labels
        /\ StillDue(g)
    BY DEF SlotInv, Fresh, GrantSound, CallSound, StillDue
  <1>3. /\ o.exists /\ o.phase = "Pending" /\ o.granted
        /\ o.member = Newest[t].member /\ o.created = Newest[t].created
    BY <1>1, <1>2 DEF TaskObject
  <1>4. Newest[t].member.labels = {p} /\ \A q \in Pools \ {p} : PlaceOf(q, Newest[t]) = "absent"
    BY <1>1, <1>2, PoolOfTask
  <1>5. Writes(t, o)
    BY DEF Writes
  <1> HIDE DEF o
  <1>6. PlaceOf(p, o) = "admitted" /\ PlaceOf(p, Newest[t]) = "queued"
        /\ \A q \in Pools \ {p} : PlaceOf(q, o) = PlaceOf(q, Newest[t])
    BY <1>2, <1>3, <1>4 DEF PlaceOf
  <1>7. Shows(p, t, "admitted", o.created) /\ Standing[p][t] = "queued"
    <2>1. Shows(p, t, PlaceOf(p, o), o.created) /\ Standing[p][t] = PlaceOf(p, Newest[t])
      BY <1>1, <1>5, <1>6, WriteMoves
    <2> QED  BY <1>6, <2>1
  <1>8. Arrivals' = Arrivals
    BY <1>1, <1>3, <1>7 DEF Arrivals, Shows
  <1>9. Queue!HasSlot(p, t)
    <2>1. Slot(Rooms[p], p, Newest, t)
      BY <1>2, TaskWindow DEF SlotInv, CallSound
    <2>2. Cardinality(Works(p, Newest)) + Cardinality(Front(p, Newest, t)) <= Rooms[p]
      BY <2>1, SlotSum
    <2>3. /\ Queue!Cardinality(Queue!At(p, {"working"})) = Cardinality(Works(p, Newest))
          /\ Queue!Cardinality(Queue!Ahead(p, t)) = Cardinality(Front(p, Newest, t))
      BY <1>1, QueueSets, SameCount
    <2> HIDE DEF t, p
    <2> QED  BY <2>2, <2>3 DEF Queue!HasSlot
  <1>10. Queue!Grant(p, t)
    BY <1>7, <1>8, <1>9 DEF Queue!Grant, Queue!Goes, Shows
  <1> QED  BY <1>1, <1>10

LEMMA SubmitMoves ==
  ASSUME OrderlyUse, NoOutsiders, SlotInv, TypeOK', Rooms' = Rooms,
         NEW t \in Tasks, NEW m \in Memberships, ~Newest[t].exists, now < now',
         Newest' = [Newest EXCEPT ![t] =
           [NoTask EXCEPT !.uid = submitted', !.exists = TRUE, !.member = m, !.created = now']]
  PROVE  \E p \in Pools : Queue!Arrive(p, t)
  <1> DEFINE o == [NoTask EXCEPT !.uid = submitted', !.exists = TRUE,
                                 !.member = m, !.created = now']
  <1>1. PICK p \in Pools : m.labels = {p}
    <2>1. m.labels # {} /\ m.labels \subseteq {m.poolRef} /\ m.labels \subseteq Pools
      BY ConstantsAssumption DEF OrderlyUse, NoOutsiders, Membership
    <2> QED  BY <2>1
  <1>2. /\ o.exists /\ o.phase = "Pending" /\ ~o.granted /\ o.member = m /\ o.created = now'
    BY DEF NoTask
  <1>3. Writes(t, o) /\ Newest \in Tables
    BY NewestSlots DEF Writes
  <1> HIDE DEF o
  <1>4. /\ \A q \in Pools : PlaceOf(q, Newest[t]) = "absent"
        /\ \A q \in Pools \ {p} : PlaceOf(q, o) = "absent"
        /\ PlaceOf(p, o) = "queued"
    BY <1>1, <1>2 DEF PlaceOf
  <1>5. Shows(p, t, "queued", now')
    <2>1. Shows(p, t, PlaceOf(p, o), o.created)
      BY <1>3, <1>4, WriteMoves
    <2> QED  BY <1>2, <1>4, <2>1
  <1>6. \A q \in Pools : Standing[q][t] = "absent"
    BY <1>4 DEF Standing
  <1>7. /\ Arrivals \in [Tasks -> Nat] /\ now' \in Nat
        /\ \A u \in Tasks : Arrivals[u] < now'
    <2>1. \A u \in Tasks : Newest[u].created \in Nat /\ Newest[u].created <= now
      BY NewestSlots DEF Sound, Tables, TaskObject
    <2>2. now \in Nat /\ now' \in Nat
      BY DEF SlotInv, TypeOK
    <2>3. \A u \in Tasks : Newest[u].created < now'
      BY <2>1, <2>2
    <2> QED  BY <2>1, <2>2, <2>3 DEF Arrivals
  <1>8. /\ Arrivals' \in [Tasks -> Nat]
        /\ \A u \in Tasks \ {t} : Arrivals'[u] = Arrivals[u] /\ Arrivals[u] < Arrivals'[t]
    BY <1>5, <1>7 DEF Shows
  <1>9. Queue!Arrive(p, t)
    BY <1>5, <1>6, <1>8 DEF Queue!Arrive, Queue!Goes, Shows
  <1> QED  BY <1>9

LEMMA RemoveMoves ==
  ASSUME SlotInv, Belonging, Rooms' = Rooms, NEW t \in Tasks, Newest[t].exists,
         Newest' = [Newest EXCEPT ![t] = NoTask]
  PROVE  \E p \in Pools : Queue!Leave(p, t)
  <1>1. PICK p \in Pools : /\ Newest[t].member.labels = {p}
                          /\ \A q \in Pools \ {p} : PlaceOf(q, Newest[t]) = "absent"
    BY PoolOfTask
  <1>2. /\ \A q \in Pools : PlaceOf(q, NoTask) = "absent"
        /\ PlaceOf(p, Newest[t]) # "absent" /\ NoTask.created = 0
    BY <1>1 DEF PlaceOf, NoTask
  <1>3. Shows(p, t, "absent", 0) /\ Standing[p][t] # "absent"
    <2>1. Newest \in Tables /\ Writes(t, NoTask)
      BY NewestSlots DEF Writes
    <2>2. Shows(p, t, PlaceOf(p, NoTask), NoTask.created) /\ Standing[p][t] = PlaceOf(p, Newest[t])
      BY <1>1, <1>2, <2>1, WriteMoves
    <2> QED  BY <1>2, <2>2
  <1> QED  BY <1>3 DEF Queue!Leave, Queue!Goes, Shows

(* A task that the task controller moves: it starts, it ends, or it goes    *)
(* on as it did.                                                           *)
LEMMA PhaseMoves ==
  ASSUME SlotInv, Belonging, Rooms' = Rooms, NEW t \in Tasks, NEW to \in Active \union Terminal,
         Newest[t].exists,
         \/ Newest[t].phase = "Pending" /\ to \in Terminal
         \/ Newest[t].phase = "Pending" /\ (Newest[t].member.poolRef = NoPool \/ Newest[t].granted)
         \/ Newest[t].phase \in Active,
         Newest' = [Newest EXCEPT ![t] = [Newest[t] EXCEPT !.phase = to]]
  PROVE  UNCHANGED <<Standing, Arrivals>> \/ \E p \in Pools : Queue!Start(p, t) \/ Queue!Finish(p, t)
  <1> DEFINE o == [Newest[t] EXCEPT !.phase = to]
  <1>1. Newest \in Tables /\ Newest[t] \in TaskObject
    BY NewestSlots DEF Tables
  <1>2. PICK p \in Pools : /\ Newest[t].member.labels = {p} /\ Newest[t].member.poolRef = p
                          /\ \A q \in Pools \ {p} : PlaceOf(q, Newest[t]) = "absent"
    BY PoolOfTask
  <1>3. /\ o.exists /\ o.phase = to /\ o.granted = Newest[t].granted
        /\ o.member = Newest[t].member /\ o.created = Newest[t].created
    BY <1>1 DEF TaskObject
  <1>4. Writes(t, o) /\ Newest[t].member.poolRef # NoPool
    BY <1>2, ConstantsAssumption DEF Writes
  <1> HIDE DEF o
  <1>5. /\ \A q \in Pools \ {p} : PlaceOf(q, o) = PlaceOf(q, Newest[t])
        /\ \/ PlaceOf(p, o) = PlaceOf(p, Newest[t])
           \/ PlaceOf(p, Newest[t]) = "admitted" /\ PlaceOf(p, o) = "working"
           \/ PlaceOf(p, Newest[t]) \in {"queued", "admitted", "working"} /\ PlaceOf(p, o) = "ended"
    BY <1>2, <1>3, <1>4 DEF PlaceOf, Active, Terminal
  <1>6. Shows(p, t, PlaceOf(p, o), o.created) /\ Standing[p][t] = PlaceOf(p, Newest[t])
    BY <1>1, <1>4, <1>5, WriteMoves
  <1>7. Arrivals' = Arrivals
    BY <1>1, <1>3, <1>6 DEF Arrivals, Shows
  <1>8. CASE PlaceOf(p, o) = PlaceOf(p, Newest[t])
    <2>1. Standing' = Standing
      <3> DEFINE S == Standing
      <3>1. S \in [Pools -> [Tasks -> {"absent", "queued", "admitted", "working", "ended"}]]
        BY DEF Standing, PlaceOf
      <3>2. Standing' = [S EXCEPT ![p][t] = S[p][t]]
        BY <1>6, <1>8 DEF Shows
      <3> HIDE DEF S
      <3>3. Standing' = S
        BY <3>1, <3>2
      <3> QED  BY <3>3 DEF S
    <2> QED  BY <1>7, <2>1
  <1>9. CASE PlaceOf(p, Newest[t]) = "admitted" /\ PlaceOf(p, o) = "working"
    <2>1. Queue!Start(p, t)
      BY <1>6, <1>7, <1>9 DEF Queue!Start, Queue!Goes, Shows
    <2> QED  BY <2>1
  <1>10. CASE PlaceOf(p, Newest[t]) \in {"queued", "admitted", "working"} /\ PlaceOf(p, o) = "ended"
    <2>1. Queue!Finish(p, t)
      BY <1>6, <1>7, <1>10 DEF Queue!Finish, Queue!Goes, Shows
    <2> QED  BY <2>1
  <1> QED  BY <1>5, <1>8, <1>9, <1>10

LEMMA QueueStep ==
  ASSUME OrderlyUse, NoOutsiders, SlotInv, Belonging, [Next]_vars
  PROVE  [Queue!QueueNext]_Queue!queueVars
  <1>1. Rooms' = Rooms /\ TypeOK'
    BY RoomsStay, TypeStep DEF SlotInv
  <1>2. CASE Newest' = Newest
    BY <1>1, <1>2 DEF Queue!queueVars, Standing, Arrivals
  <1>3. ASSUME NEW g \in call.todo, Fresh(g), ~g.read.granted,
               Newest' = [Newest EXCEPT ![g.task] = [Newest[g.task] EXCEPT !.granted = TRUE]]
        PROVE  Queue!QueueNext
    BY <1>1, <1>3, GrantMoves DEF Queue!QueueNext
  <1>4. ASSUME NEW t \in Tasks, NEW m \in Memberships, ~Newest[t].exists, now < now',
               Newest' = [Newest EXCEPT ![t] =
                 [NoTask EXCEPT !.uid = submitted', !.exists = TRUE,
                                !.member = m, !.created = now']]
        PROVE  Queue!QueueNext
    BY <1>1, <1>4, SubmitMoves DEF Queue!QueueNext
  <1>5. ASSUME NEW t \in Tasks, Newest[t].exists, Newest' = [Newest EXCEPT ![t] = NoTask]
        PROVE  Queue!QueueNext
    BY <1>1, <1>5, RemoveMoves DEF Queue!QueueNext
  <1>6. ASSUME NEW t \in Tasks, NEW to \in Active \union Terminal, Newest[t].exists,
               \/ Newest[t].phase = "Pending" /\ to \in Terminal
               \/ Newest[t].phase = "Pending" /\ (Newest[t].member.poolRef = NoPool \/ Newest[t].granted)
               \/ Newest[t].phase \in Active,
               Newest' = [Newest EXCEPT ![t] = [Newest[t] EXCEPT !.phase = to]]
        PROVE  Queue!QueueNext \/ UNCHANGED <<Standing, Arrivals, Rooms>>
    BY <1>1, <1>6, PhaseMoves DEF Queue!QueueNext
  <1>7. Queue!QueueNext \/ UNCHANGED <<Standing, Arrivals, Rooms>>
    <2>1. CASE Newest' = Newest
      BY <1>1, <2>1 DEF Standing, Arrivals
    <2> QED  BY <1>3, <1>4, <1>5, <1>6, <2>1, StepWrites
  <1> QED  BY <1>7 DEF Queue!queueVars

LEMMA QueueStart == Init => Queue!QueueInit /\ Belonging
  <1> SUFFICES ASSUME Init PROVE Queue!QueueInit /\ Belonging
    OBVIOUS
  <1>1. Newest = [t \in Tasks |-> NoTask] /\ TypeOK
    BY TypeInit DEF Init, Newest, Current
  <1>2. ~NoTask.exists /\ NoTask.created = 0 /\ \A p : PlaceOf(p, NoTask) = "absent"
    BY DEF NoTask, PlaceOf
  <1>3. /\ Standing = [p \in Pools |-> [t \in Tasks |-> "absent"]]
        /\ Arrivals = [t \in Tasks |-> 0]
    BY <1>1, <1>2 DEF Standing, Arrivals
  <1>4. Rooms \in [Pools -> Nat]
    BY <1>1, RoomsType
  <1>5. Belonging
    BY <1>1, <1>2 DEF Belonging
  <1> QED  BY <1>3, <1>4, <1>5 DEF Queue!QueueInit

(* The reconciler, with its stale lists, refused updates and restarts, is   *)
(* the queue of SlotQueue: whatever it grants is a slot there is for the   *)
(* task and for all before it at the moment of the grant.                  *)
THEOREM ImplementsQueue == ASSUME OrderlyUse, NoOutsiders PROVE Spec => RefinesQueue
  <1>1. SlotInv /\ Belonging /\ [Next]_vars => Belonging' /\ [Queue!QueueNext]_Queue!queueVars
    BY BelongingStep, QueueStep
  <1> QED  BY <1>1, QueueStart, SlotInvHolds, PTL DEF Spec, RefinesQueue, Queue!QueueSpec
=============================================================================
