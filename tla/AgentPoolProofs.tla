--------------------------- MODULE AgentPoolProofs ---------------------------
(***************************************************************************)
(* What is proved about AgentPool for every set of tasks, any number of    *)
(* pools, submissions and faults and any lag of the caches.                *)
(***************************************************************************)
EXTENDS AgentPool, WatchedStoreProofs, FiniteSetTheorems, TLAPS

-----------------------------------------------------------------------------
(* Type correctness: the pieces the actions are made of.                   *)

Tables == [Tasks -> TaskObject]

(* The objects and the call that the model starts from have their types.   *)
LEMMA ConstantTypes ==
  NewStatus \in AgentPoolStatus /\ NoTask \in TaskObject /\ Idle \in Call
  <1>1. NewStatus \in AgentPoolStatus
    BY DEF NewStatus, AgentPoolStatus
  <1>2. NoTask \in TaskObject
    BY DEF NoTask, TaskObject, Membership, Phases
  <1>3. (CHOOSE p \in Pools : TRUE) \in Pools
    BY ConstantsAssumption
  <1>4. Idle \in Call
    BY <1>1, <1>3 DEF Idle, Call, PoolObject, PoolSpec
  <1> QED  BY <1>1, <1>2, <1>4

(* What the API server, the caches and the call hold have their types.     *)
LEMMA NewestTypes ==
  ASSUME TypeOK
  PROVE  /\ Newest \in Tables /\ Cached(tasks) \in Tables
         /\ \A p \in Pools : NewestPool(p) \in PoolObject /\ Cached(pool[p]) \in PoolObject
         /\ call.pool \in Pools /\ call.obj \in PoolObject
         /\ call.todo \subseteq [task : Tasks, read : TaskObject]
         /\ call.status \in AgentPoolStatus /\ call.pending \in BOOLEAN
  <1>1. Newest \in Tables /\ Cached(tasks) \in Tables
    BY WindowEnds DEF TypeOK, Newest, Tables
  <1>2. ASSUME NEW p \in Pools
        PROVE  NewestPool(p) \in PoolObject /\ Cached(pool[p]) \in PoolObject
    BY WindowEnds DEF TypeOK, NewestPool
  <1> QED  BY <1>1, <1>2 DEF TypeOK, Call

(* A write of a task keeps the window of the collection well typed and     *)
(* changes nothing but the newest version of that task.                    *)
LEMMA StoreTaskType ==
  ASSUME TypeOK, NEW t \in Tasks, NEW o \in TaskObject, StoreTask(t, o)
  PROVE  /\ tasks' \in Seq(Tables) \ {<<>>}
         /\ Newest' = [Newest EXCEPT ![t] = o]
         /\ \A v \in Versions(tasks') : v = Newest' \/ v \in Versions(tasks)
  <1> DEFINE v == [Newest EXCEPT ![t] = o]
  <1>1. v \in Tables
    BY NewestTypes DEF Tables
  <1>2. tasks' = Stored(tasks, v) /\ tasks \in Seq(Tables) \ {<<>>}
    BY DEF StoreTask, TypeOK, Tables
  <1> HIDE DEF v
  <1>3. Current(tasks') = v
    BY <1>1, <1>2, WindowVersions
  <1>4. tasks' \in Seq(Tables) \ {<<>>} /\ \A x \in Versions(tasks') : x = v \/ x \in Versions(tasks)
    BY <1>1, <1>2, WindowSteps, WindowVersions
  <1> QED  BY <1>3, <1>4 DEF v, Newest

LEMMA StorePoolType ==
  ASSUME TypeOK, NEW p \in Pools, NEW o \in PoolObject, StorePool(p, o)
  PROVE  pool' \in [Pools -> Seq(PoolObject) \ {<<>>}]
  <1>1. Stored(pool[p], o) \in Seq(PoolObject) \ {<<>>}
    BY WindowSteps DEF TypeOK
  <1> QED  BY <1>1 DEF TypeOK, StorePool

(* The end of a call keeps call and work queue well typed.                 *)
LEMMA ReturnType ==
  ASSUME TypeOK, NEW requeue, Return(requeue)
  PROVE  call' \in Call /\ queue' \subseteq Pools
  BY ConstantTypes, NewestTypes DEF TypeOK, Return

LEMMA FaultType == ASSUME TypeOK, NEW k, Fault(k) PROVE faults' \in 0..MaxFaults
  BY ConstantsAssumption DEF TypeOK, Fault

(* Only names of pools are queued.                                         *)
LEMMA MapType == ASSUME NEW o \in TaskObject PROVE mapTaskToPool(o) \subseteq Pools
  BY DEF mapTaskToPool, TaskObject, Membership

(* The tasks a call finds in its list, and the status it makes of them.    *)
LEMMA StatusType ==
  ASSUME NEW p \in Pools, NEW seen \in Tables
  PROVE  StatusOf(p, seen) \in AgentPoolStatus
  <1>1. \A phases : InPhases(Listed(p, seen), seen, phases) \in SUBSET Tasks
    BY DEF InPhases, Listed
  <1>2. \A S \in SUBSET Tasks : Cardinality(S) \in Nat
    BY ConstantsAssumption, FS_Subset, FS_CardinalityType
  <1>3. \A phases : Cardinality(InPhases(Listed(p, seen), seen, phases)) \in Nat
    BY <1>1, <1>2
  <1> QED  BY <1>1, <1>3 DEF StatusOf, AgentPoolStatus

-----------------------------------------------------------------------------
(* Type correctness, action by action.                                     *)

LEMMA TypeInit == Init => TypeOK
  <1> SUFFICES ASSUME Init PROVE TypeOK
    OBVIOUS
  <1> USE DEF Init
  <1>1. tasks \in Seq(Tables) \ {<<>>}
    BY ConstantTypes DEF Tables
  <1>2. pool \in [Pools -> Seq(PoolObject) \ {<<>>}]
    <2>1. PICK s \in [Pools -> PoolSpecs] :
            pool = [p \in Pools |-> <<[exists |-> TRUE, spec |-> s[p], status |-> NewStatus]>>]
      OBVIOUS
    <2>2. \A p \in Pools : s[p] \in PoolSpec
      BY ConstantsAssumption
    <2>3. \A p \in Pools : [exists |-> TRUE, spec |-> s[p], status |-> NewStatus] \in PoolObject
      BY <2>2, ConstantTypes DEF PoolObject
    <2> QED  BY <2>1, <2>3
  <1>3. call \in Call
    BY ConstantTypes
  <1>4. now \in Nat /\ submitted \in 0..MaxSubmissions /\ faults \in 0..MaxFaults
    BY ConstantsAssumption
  <1> QED  BY <1>1, <1>2, <1>3, <1>4 DEF TypeOK, Tables

LEMMA TypeReconcile ==
  ASSUME TypeOK, NEW p \in Pools, Reconcile(p)
  PROVE  TypeOK'
  <1>1. /\ queue' = queue \ {p}
        /\ UNCHANGED <<tasks, pool, now, submitted, faults>>
    BY DEF Reconcile, clock
  <1>2. call' \in Call
    <2>1. CASE call' = Idle
      BY <2>1, ConstantTypes
    <2>2. CASE call' = [Idle EXCEPT !.pc = "list", !.pool = p, !.obj = Cached(pool[p])]
      BY <2>2, ConstantTypes, NewestTypes DEF Call, Idle
    <2> QED  BY <2>1, <2>2 DEF Reconcile
  <1> QED  BY <1>1, <1>2 DEF TypeOK

LEMMA TypeList ==
  ASSUME TypeOK, listPoolTasks
  PROVE  TypeOK'
  <1> DEFINE seen == Cached(tasks)
             pending == InPhases(Listed(call.pool, seen), seen, {"Pending"})
             k == ToGrant(SlotsAvailable(call.obj.spec.max,
                                         Cardinality(InPhases(Listed(call.pool, seen), seen, Counted))),
                          Cardinality(pending))
  <1>1. UNCHANGED <<tasks, pool, now, submitted, faults>>
    BY DEF listPoolTasks, clock
  <1>2. CASE Return(TRUE)
    BY <1>1, <1>2, ReturnType DEF TypeOK
  <1>3. CASE /\ UNCHANGED queue
             /\ \E G \in FifoPrefix(pending, seen, k) :
                  call' = [call EXCEPT !.pc = IF G = {} THEN "status" ELSE "grant",
                                       !.todo = {[task |-> t, read |-> seen[t]] : t \in G},
                                       !.status = StatusOf(call.pool, seen),
                                       !.pending = pending # {}]
    <2>1. PICK G \in FifoPrefix(pending, seen, k) :
            call' = [call EXCEPT !.pc = IF G = {} THEN "status" ELSE "grant",
                                 !.todo = {[task |-> t, read |-> seen[t]] : t \in G},
                                 !.status = StatusOf(call.pool, seen),
                                 !.pending = pending # {}]
      BY <1>3
    <2>2. seen \in Tables /\ G \subseteq Tasks
      BY NewestTypes DEF FifoPrefix, InPhases, Listed
    <2>3. {[task |-> t, read |-> seen[t]] : t \in G} \in SUBSET [task : Tasks, read : TaskObject]
      BY <2>2 DEF Tables
    <2>4. StatusOf(call.pool, seen) \in AgentPoolStatus
      BY <2>2, StatusType, NewestTypes
    <2>5. (IF G = {} THEN "status" ELSE "grant") \in {"idle", "list", "grant", "status"}
      OBVIOUS
    <2> HIDE DEF seen, pending, k
    <2>6. call' \in Call
      BY <2>1, <2>3, <2>4, <2>5 DEF TypeOK, Call
    <2> QED  BY <1>1, <1>3, <2>6 DEF TypeOK
  <1> QED  BY <1>2, <1>3 DEF listPoolTasks

LEMMA TypeGrant ==
  ASSUME TypeOK, NEW g \in call.todo, grantSlot(g)
  PROVE  TypeOK'
  <1>1. g.task \in Tasks /\ UNCHANGED <<pool, queue, now, submitted>>
    BY NewestTypes DEF grantSlot, clock
  <1>2. call' \in Call
    <2>1. (IF call.todo = {g} THEN "status" ELSE "grant") \in {"idle", "list", "grant", "status"}
      OBVIOUS
    <2>2. call.todo \ {g} \in SUBSET [task : Tasks, read : TaskObject]
      BY NewestTypes
    <2> QED  BY <2>1, <2>2 DEF grantSlot, TypeOK, Call
  <1>3. tasks' \in Seq(Tables) \ {<<>>}
    <2>1. CASE StoreTask(g.task, [Newest[g.task] EXCEPT !.granted = TRUE])
      <3>1. \A t \in Tasks : [Newest[t] EXCEPT !.granted = TRUE] \in TaskObject
        BY NewestTypes DEF Tables, TaskObject
      <3> QED  BY <1>1, <2>1, <3>1, StoreTaskType
    <2>2. CASE UNCHANGED tasks
      BY <2>2 DEF TypeOK, Tables
    <2> QED  BY <2>1, <2>2 DEF grantSlot
  <1>4. faults' \in 0..MaxFaults
    BY FaultType DEF grantSlot, TypeOK
  <1> QED  BY <1>1, <1>2, <1>3, <1>4 DEF TypeOK, Tables

LEMMA TypeUpdateStatus ==
  ASSUME TypeOK, updateStatus \/ apiCallFails
  PROVE  TypeOK'
  <1> DEFINE p == call.pool
  <1>1. UNCHANGED <<tasks, now, submitted>> /\ p \in Pools
    BY NewestTypes DEF updateStatus, apiCallFails, clock
  <1>2. call' \in Call /\ queue' \subseteq Pools
    BY ReturnType DEF updateStatus, apiCallFails
  <1>3. pool' \in [Pools -> Seq(PoolObject) \ {<<>>}]
    <2>1. CASE StorePool(p, [call.obj EXCEPT !.status = call.status])
      <3>1. [call.obj EXCEPT !.status = call.status] \in PoolObject
        BY NewestTypes DEF PoolObject
      <3> QED  BY <1>1, <2>1, <3>1, StorePoolType
    <2>2. CASE UNCHANGED pool
      BY <2>2 DEF TypeOK
    <2> QED  BY <2>1, <2>2 DEF updateStatus, apiCallFails
  <1>4. faults' \in 0..MaxFaults
    BY FaultType DEF updateStatus, apiCallFails, TypeOK
  <1> QED  BY <1>1, <1>2, <1>3, <1>4 DEF TypeOK

(* The informers and a restart: versions are dropped, pools are queued.    *)
LEMMA TypeInformers ==
  ASSUME TypeOK, SyncTasks \/ (\E p \in Pools : SyncPool(p)) \/ Crash
  PROVE  TypeOK'
  <1>1. CASE SyncTasks
    <2>1. UNCHANGED <<pool, call, now, submitted, faults>>
      BY <1>1 DEF SyncTasks, clock
    <2>2. tasks' \in Seq(Tables) \ {<<>>}
      BY <1>1, NewestTypes, WindowSteps DEF SyncTasks, TypeOK, Tables
    <2>3. tasks[1] \in Tables /\ tasks[2] \in Tables
      <3>1. 1 \in DOMAIN tasks /\ 2 \in DOMAIN tasks /\ tasks \in Seq(Tables)
        BY <1>1 DEF SyncTasks, Lagging, TypeOK, Tables
      <3> QED  BY <3>1
    <2>4. \A t \in Tasks : mapTaskToPool(tasks[1][t]) \union mapTaskToPool(tasks[2][t]) \subseteq Pools
      BY <2>3, MapType DEF Tables
    <2>5. queue' \subseteq Pools
      <3> SUFFICES ASSUME NEW x \in queue', x \notin queue PROVE x \in Pools
        BY DEF TypeOK
      <3>1. PICK t \in Tasks : x \in mapTaskToPool(tasks[1][t]) \union mapTaskToPool(tasks[2][t])
        BY <1>1 DEF SyncTasks
      <3> QED  BY <2>4, <3>1
    <2> QED  BY <2>1, <2>2, <2>5 DEF TypeOK, Tables
  <1>2. ASSUME NEW p \in Pools, SyncPool(p) PROVE TypeOK'
    <2>1. UNCHANGED <<tasks, call, now, submitted, faults>> /\ queue' = queue \union {p}
      BY <1>2 DEF SyncPool, clock
    <2>2. Delivered(pool[p]) \in Seq(PoolObject) \ {<<>>}
      BY <1>2, NewestTypes, WindowSteps DEF SyncPool, TypeOK
    <2>3. pool' \in [Pools -> Seq(PoolObject) \ {<<>>}]
      BY <1>2, <2>2 DEF SyncPool, TypeOK
    <2> QED  BY <2>1, <2>3 DEF TypeOK
  <1>3. CASE Crash
    <2>1. UNCHANGED <<now, submitted>> /\ call' \in Call /\ faults' \in 0..MaxFaults
      BY <1>3, ConstantTypes, FaultType DEF Crash, clock
    <2>2. tasks' \in Seq(Tables) \ {<<>>}
      BY <1>3, NewestTypes, WindowSteps DEF Crash, TypeOK, Tables
    <2>3. \A p \in Pools : Relisted(pool[p]) \in Seq(PoolObject) \ {<<>>}
      BY NewestTypes, WindowSteps DEF TypeOK
    <2>4. pool' \in [Pools -> Seq(PoolObject) \ {<<>>}]
      BY <1>3, <2>3 DEF Crash
    <2>5. \A t \in Tasks : mapTaskToPool(Newest[t]) \subseteq Pools
      BY NewestTypes, MapType DEF Tables
    <2>6. queue' \subseteq Pools
      <3> SUFFICES ASSUME NEW x \in queue', x \notin {p \in Pools : NewestPool(p).exists}
                   PROVE  x \in Pools
        OBVIOUS
      <3>1. PICK t \in Tasks : x \in mapTaskToPool(Newest[t])
        BY <1>3 DEF Crash
      <3> QED  BY <2>5, <3>1
    <2> QED  BY <2>1, <2>2, <2>4, <2>6 DEF TypeOK, Tables
  <1> QED  BY <1>1, <1>2, <1>3

(* A write of a task by its user or its controller, which may use up a     *)
(* fault or a submission.                                                  *)
LEMMA WriteType ==
  ASSUME TypeOK, NEW t \in Tasks, NEW o \in TaskObject, StoreTask(t, o),
         UNCHANGED <<pool, queue, call>>, now' \in Nat,
         submitted' \in 0..MaxSubmissions, faults' \in 0..MaxFaults
  PROVE  TypeOK'
  BY StoreTaskType DEF TypeOK, Tables

LEMMA TypeEnvironment ==
  ASSUME TypeOK, Environment
  PROVE  TypeOK'
  <1>0. now \in Nat /\ submitted \in 0..MaxSubmissions /\ faults \in 0..MaxFaults
    BY DEF TypeOK
  <1>1. ASSUME NEW t \in Tasks, Submit(t) PROVE TypeOK'
    <2>1. PICK g \in Gaps, m \in Memberships :
            /\ now' = now + g
            /\ StoreTask(t, [NoTask EXCEPT !.uid = submitted', !.exists = TRUE,
                                           !.member = m, !.created = now'])
      BY <1>1 DEF Submit
    <2>2. submitted' \in 0..MaxSubmissions /\ now' \in Nat
      BY <1>0, <1>1, <2>1, ConstantsAssumption DEF Submit
    <2>3. [NoTask EXCEPT !.uid = submitted', !.exists = TRUE,
                         !.member = m, !.created = now'] \in TaskObject
      <3>1. submitted' \in Nat /\ now' \in Nat /\ m \in Membership
        BY <2>2, ConstantsAssumption
      <3> QED  BY <3>1, ConstantTypes DEF TaskObject, NoTask
    <2>4. UNCHANGED <<pool, queue, call, faults>>
      BY <1>1 DEF Submit
    <2> QED  BY <1>0, <2>1, <2>2, <2>3, <2>4, WriteType
  <1>2. ASSUME NEW t \in Tasks, Remove(t) PROVE TypeOK'
    BY <1>0, <1>2, ConstantTypes, WriteType DEF Remove, clock
  <1>3. ASSUME NEW t \in Tasks, Relabel(t) PROVE TypeOK'
    <2>1. PICK m \in Memberships : StoreTask(t, [Newest[t] EXCEPT !.member = m])
      BY <1>3 DEF Relabel
    <2>2. [Newest[t] EXCEPT !.member = m] \in TaskObject
      BY NewestTypes, ConstantsAssumption DEF Tables, TaskObject
    <2>3. faults' \in 0..MaxFaults
      BY <1>3, FaultType DEF Relabel
    <2> QED  BY <1>0, <1>3, <2>1, <2>2, <2>3, WriteType DEF Relabel, clock
  <1>4. ASSUME NEW t \in Tasks, NEW to \in Phases, Moves(t, to) PROVE TypeOK'
    <2>1. [Newest[t] EXCEPT !.phase = to] \in TaskObject
      BY NewestTypes DEF Tables, TaskObject
    <2> QED  BY <1>0, <1>4, <2>1, WriteType DEF Moves, clock
  <1>5. ASSUME NEW t \in Tasks, Admit(t) \/ Advance(t) \/ Refuse(t) PROVE TypeOK'
    <2>1. PICK to \in Phases : Moves(t, to)
      BY <1>5, ConstantsAssumption DEF Admit, Advance, Refuse, Phases, Terminal
    <2> QED  BY <1>4, <2>1
  <1>6. ASSUME NEW p \in Pools, Resize(p) \/ Drop(p) PROVE TypeOK'
    <2>1. PICK o \in PoolObject : StorePool(p, o)
      <3>1. CASE Resize(p)
        <4>1. PICK s \in PoolSpecs : StorePool(p, [NewestPool(p) EXCEPT !.spec = s])
          BY <3>1 DEF Resize
        <4>2. [NewestPool(p) EXCEPT !.spec = s] \in PoolObject
          BY NewestTypes, ConstantsAssumption DEF PoolObject
        <4> QED  BY <4>1, <4>2
      <3>2. CASE Drop(p)
        <4>1. [NewestPool(p) EXCEPT !.exists = FALSE] \in PoolObject
          BY NewestTypes DEF PoolObject
        <4> QED  BY <3>2, <4>1 DEF Drop
      <3> QED  BY <1>6, <3>1, <3>2
    <2>2. UNCHANGED <<tasks, queue, call, now, submitted>> /\ faults' \in 0..MaxFaults
      BY <1>6, FaultType DEF Resize, Drop, clock
    <2>3. pool' \in [Pools -> Seq(PoolObject) \ {<<>>}]
      BY <2>1, StorePoolType
    <2> QED  BY <2>2, <2>3 DEF TypeOK
  <1> QED  BY <1>1, <1>2, <1>3, <1>5, <1>6 DEF Environment

LEMMA TypeStep == TypeOK /\ [Next]_vars => TypeOK'
  <1> SUFFICES ASSUME TypeOK, [Next]_vars PROVE TypeOK'
    OBVIOUS
  <1>1. CASE UNCHANGED vars
    BY <1>1 DEF vars, clock, TypeOK
  <1>2. CASE Next
    BY <1>2, TypeReconcile, TypeList, TypeGrant, TypeUpdateStatus, TypeInformers,
       TypeEnvironment DEF Next, ReconcileStep
  <1> QED  BY <1>1, <1>2

(* Every variable keeps its type: whatever users edit and whenever the     *)
(* operator dies, only names of pools are in the controller's work queue.  *)
THEOREM TypeCorrect == Spec => []TypeOK
  BY TypeInit, TypeStep, PTL DEF Spec

-----------------------------------------------------------------------------
(* Grants.                                                                 *)

(* The tasks a call has still to grant were pending members of its pool     *)
(* when it read them, and it reads each task once.                         *)
GrantSound ==
  \A g \in call.todo : g.read.phase = "Pending" /\ call.pool \in g.read.member.labels

(* Only the list gives a call tasks to grant; until its end it keeps its    *)
(* pool, and drops them one by one.                                        *)
LEMMA TodoSteps ==
  ASSUME TypeOK, [Next]_vars
  PROVE  \/ call'.todo = {}
         \/ call'.pool = call.pool /\ call'.todo \subseteq call.todo
         \/ call'.pool = call.pool /\ listPoolTasks /\ UNCHANGED <<tasks, pool, clock>>
  <1>0. call \in Call /\ Idle.todo = {}
    BY DEF TypeOK, Idle
  <1>1. CASE UNCHANGED call
    BY <1>1
  <1>2. ASSUME NEW p \in Pools, Reconcile(p) PROVE call'.todo = {}
    BY <1>2 DEF Reconcile, Idle
  <1>3. CASE listPoolTasks
    <2>1. CASE Return(TRUE)
      BY <1>0, <2>1 DEF Return
    <2>2. CASE ~Return(TRUE)
      <3>1. call'.pool = call.pool
        BY <1>0, <1>3, <2>2 DEF listPoolTasks, Call
      <3> QED  BY <1>3, <3>1 DEF listPoolTasks
    <2> QED  BY <2>1, <2>2
  <1>4. ASSUME NEW g \in call.todo, grantSlot(g)
        PROVE  call'.pool = call.pool /\ call'.todo \subseteq call.todo
    BY <1>0, <1>4 DEF grantSlot, Call
  <1>5. CASE updateStatus \/ apiCallFails \/ Crash
    BY <1>0, <1>5 DEF updateStatus, apiCallFails, Crash, Return
  <1> QED
    BY <1>1, <1>2, <1>3, <1>4, <1>5
    DEF Next, ReconcileStep, vars, clock, SyncTasks, SyncPool, Environment, Submit, Remove,
        Relabel, Admit, Advance, Refuse, Moves, Resize, Drop

(* What the list gives a call to grant.                                    *)
LEMMA ListGives ==
  ASSUME TypeOK, listPoolTasks, call'.todo # {}
  PROVE  \E G \in FifoPrefix(InPhases(Listed(call.pool, Cached(tasks)), Cached(tasks), {"Pending"}),
                             Cached(tasks),
                             ToGrant(SlotsAvailable(call.obj.spec.max,
                                       Cardinality(InPhases(Listed(call.pool, Cached(tasks)),
                                                            Cached(tasks), Counted))),
                                     Cardinality(InPhases(Listed(call.pool, Cached(tasks)),
                                                          Cached(tasks), {"Pending"})))) :
           call'.todo = {[task |-> t, read |-> Cached(tasks)[t]] : t \in G}
  <1>1. ~Return(TRUE)
    BY DEF Return, Idle
  <1>2. call \in Call
    BY DEF TypeOK
  <1> QED  BY <1>1, <1>2 DEF listPoolTasks, Call

LEMMA GrantSoundStep ==
  ASSUME TypeOK, GrantSound, [Next]_vars
  PROVE  GrantSound'
  <1>1. CASE call'.todo = {}
    BY <1>1 DEF GrantSound
  <1>2. CASE call'.pool = call.pool /\ call'.todo \subseteq call.todo
    BY <1>2 DEF GrantSound
  <1>3. CASE call'.pool = call.pool /\ listPoolTasks /\ call'.todo # {}
    <2> DEFINE seen == Cached(tasks)
               pending == InPhases(Listed(call.pool, seen), seen, {"Pending"})
    <2>1. PICK G \in SUBSET pending : call'.todo = {[task |-> t, read |-> seen[t]] : t \in G}
      BY <1>3, ListGives DEF FifoPrefix
    <2>2. \A t \in G : seen[t].phase = "Pending" /\ call.pool \in seen[t].member.labels
      BY DEF InPhases, Listed
    <2> HIDE DEF seen, pending
    <2> QED  BY <1>3, <2>1, <2>2 DEF GrantSound
  <1> QED  BY <1>1, <1>2, <1>3, TodoSteps

(* The informers and a restart change nothing the API server holds, and    *)
(* only grantSlot turns an ungranted task into a granted one.              *)
LEMMA OnlyGrants ==
  ASSUME TypeOK, [Next]_vars, NEW t \in Tasks, ~Newest[t].granted, Newest'[t].granted
  PROVE  \E g \in call.todo : g.task = t /\ Fresh(g)
  <1>0. Newest \in Tables /\ tasks \in Seq(Tables) \ {<<>>}
    BY NewestTypes DEF TypeOK, Tables
  <1>1. Newest' # Newest
    OBVIOUS
  <1>2. ASSUME UNCHANGED tasks PROVE FALSE
    BY <1>1, <1>2 DEF Newest
  <1>3. ASSUME SyncTasks \/ Crash PROVE FALSE
    <2>1. Newest' = Newest
      BY <1>0, <1>3, WindowVersions DEF SyncTasks, Crash, Newest
    <2> QED  BY <1>1, <2>1
  <1>4. ASSUME NEW u \in Tasks, NEW o \in TaskObject, StoreTask(u, o),
               o.granted => Newest[u].granted
        PROVE  FALSE
    <2>1. Newest' = [Newest EXCEPT ![u] = o]
      BY <1>4, StoreTaskType
    <2> QED  BY <1>0, <1>4, <2>1 DEF Tables
  <1>5. ASSUME NEW u \in Tasks, Submit(u) PROVE FALSE
    <2>1. PICK g \in Gaps, m \in Memberships :
            StoreTask(u, [NoTask EXCEPT !.uid = submitted', !.exists = TRUE,
                                        !.member = m, !.created = now'])
          /\ now' = now + g
      BY <1>5 DEF Submit
    <2>2. [NoTask EXCEPT !.uid = submitted', !.exists = TRUE,
                         !.member = m, !.created = now'] \in TaskObject
      <3>1. submitted' \in Nat /\ now' \in Nat /\ m \in Membership
        BY <1>5, <2>1, ConstantsAssumption DEF TypeOK, Submit
      <3> QED  BY <3>1, ConstantTypes DEF TaskObject, NoTask
    <2>3. ~[NoTask EXCEPT !.uid = submitted', !.exists = TRUE,
                          !.member = m, !.created = now'].granted
      BY DEF NoTask
    <2> QED  BY <1>4, <2>1, <2>2, <2>3
  <1>6. ASSUME NEW u \in Tasks, Remove(u) PROVE FALSE
    BY <1>4, <1>6, ConstantTypes DEF Remove, NoTask
  <1>7. ASSUME NEW u \in Tasks, Relabel(u) PROVE FALSE
    <2>1. PICK m \in Memberships : StoreTask(u, [Newest[u] EXCEPT !.member = m])
      BY <1>7 DEF Relabel
    <2>2. [Newest[u] EXCEPT !.member = m] \in TaskObject
          /\ ([Newest[u] EXCEPT !.member = m].granted => Newest[u].granted)
      BY <1>0, ConstantsAssumption DEF Tables, TaskObject
    <2> QED  BY <1>4, <2>1, <2>2
  <1>8. ASSUME NEW u \in Tasks, NEW to \in Phases, Moves(u, to) PROVE FALSE
    <2>1. [Newest[u] EXCEPT !.phase = to] \in TaskObject
          /\ ([Newest[u] EXCEPT !.phase = to].granted => Newest[u].granted)
      BY <1>0 DEF Tables, TaskObject
    <2> QED  BY <1>4, <1>8, <2>1 DEF Moves
  <1>9. ASSUME NEW u \in Tasks, Admit(u) \/ Advance(u) \/ Refuse(u) PROVE FALSE
    <2>1. PICK to \in Phases : Moves(u, to)
      BY <1>9, ConstantsAssumption DEF Admit, Advance, Refuse, Phases, Terminal
    <2> QED  BY <1>8, <2>1
  <1>10. PICK g \in call.todo : grantSlot(g)
    BY <1>2, <1>3, <1>5, <1>6, <1>7, <1>9
    DEF Next, ReconcileStep, vars, SyncPool, Environment, Resize, Drop, Reconcile,
        listPoolTasks, updateStatus, apiCallFails
  <1>11. Fresh(g) /\ StoreTask(g.task, [Newest[g.task] EXCEPT !.granted = TRUE])
    BY <1>2, <1>10 DEF grantSlot
  <1>12. g.task = t
    <2>1. g.task \in Tasks /\ [Newest[g.task] EXCEPT !.granted = TRUE] \in TaskObject
      BY <1>0, NewestTypes DEF Tables, TaskObject
    <2>2. Newest' = [Newest EXCEPT ![g.task] = [Newest[g.task] EXCEPT !.granted = TRUE]]
      BY <1>11, <2>1, StoreTaskType
    <2> QED  BY <1>0, <2>2 DEF Tables
  <1> QED  BY <1>11, <1>12

(* An update is accepted only for the version that was read, and what a     *)
(* call read was pending and a member of its pool: however old the list,   *)
(* however the task was edited in between, no other task gets a slot.      *)
THEOREM OnlyMembersGranted == Spec => GrantsAreDue
  <1>1. Init => TypeOK /\ GrantSound
    <2>1. Init => call.todo = {}
      BY DEF Init, Idle
    <2> QED  BY <2>1, TypeInit DEF GrantSound
  <1>2. TypeOK /\ GrantSound /\ [Next]_vars => (TypeOK /\ GrantSound)'
    BY TypeStep, GrantSoundStep
  <1>3. TypeOK /\ GrantSound /\ [Next]_vars
        => [\A t \in Tasks :
              ~Newest[t].granted /\ Newest[t].granted'
              => Newest[t].phase = "Pending" /\ call.pool \in Newest[t].member.labels]_vars
    <2> SUFFICES ASSUME TypeOK, GrantSound, [Next]_vars,
                        NEW t \in Tasks, ~Newest[t].granted, Newest'[t].granted
                 PROVE  Newest[t].phase = "Pending" /\ call.pool \in Newest[t].member.labels
      OBVIOUS
    <2>1. PICK g \in call.todo : g.task = t /\ Fresh(g)
      BY OnlyGrants
    <2> QED  BY <2>1 DEF GrantSound, Fresh
  <1> QED  BY <1>1, <1>2, <1>3, PTL DEF Spec, GrantsAreDue
=============================================================================
