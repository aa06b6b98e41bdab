------------------------------ MODULE AgentPool ------------------------------
(***************************************************************************)
(* AgentPoolReconciler (internal/controller/agentpool_controller.go): the  *)
(* controller that lets at most maxConcurrency tasks of a pool work at a   *)
(* time, by annotating pending tasks in the order of their creation.       *)
(*                                                                         *)
(* Pools and tasks are read from informer caches (WatchedStore).  All the  *)
(* tasks come through one watch, in the order in which they were written,  *)
(* so what is versioned here is the collection of all tasks.  The tasks    *)
(* are moved by their own controller, as TaskLifecycle allows.             *)
(***************************************************************************)
EXTENDS WatchedStore, FiniteSets

CONSTANTS
  Tasks,        \* names of AgentTasks
  Pools,        \* names of AgentPools
  NoPool,       \* the empty poolRef
  PoolSpecs,    \* the pool specs users apply, a subset of PoolSpec
  Memberships,  \* the memberships users give tasks, a subset of Membership
  Stages,       \* the active phases that tasks are seen in
  Gaps,         \* whole seconds that may pass between two submissions
  MaxSubmissions,  \* how many tasks are submitted
  StatusFields, \* the fields of pool statuses that are kept
  FaultKinds,   \* which faults happen, a subset of AllFaults
  MaxFaults,    \* how many faults happen in one behaviour
  MaxLag        \* how many versions a cache is behind at most

VARIABLES
  tasks,    \* window of versions of the collection of all AgentTask objects
  pool,     \* pool[p]: window of versions of the AgentPool object p
  queue,    \* pools waiting in the controller's work queue
  call,     \* the Reconcile call under way
  now,      \* the second of the latest submission
  submitted,  \* tasks submitted so far
  faults    \* faults so far

clock == <<now, submitted>>

vars == <<tasks, pool, queue, call, clock, faults>>

AllFaults == {"apiError", "crash", "relabel", "resize", "drop"}

AllStatusFields == {"active", "queued", "completed", "failed"}

Terminal == {"Succeeded", "Failed"}
Active   == {"Initializing", "Running", "PushingBranch", "CreatingMR"}
Phases   == {"Pending"} \union Active \union Terminal

Rank == [p \in Phases |->
  CASE p = "Pending"      -> 0
    [] p = "Initializing" -> 1
    [] p = "Running"      -> 2
    [] p = "PushingBranch" -> 3
    [] p = "CreatingMR"   -> 4
    [] p \in Terminal     -> 5]

(* What the reconciler distinguishes in an AgentPoolSpec: maxConcurrency,   *)
(* and whether there is a label selector whose matchLabels can be parsed.  *)
PoolSpec == [max: Nat \ {0}, selector: BOOLEAN]

(* spec.poolRef of a task, and the pools whose matchLabels its labels have  *)
(* (matchExpressions are ignored).                                         *)
Membership == [poolRef: Pools \union {NoPool}, labels: SUBSET Pools]

ASSUME ConstantsAssumption ==
  /\ IsFiniteSet(Tasks) /\ Pools # {} /\ NoPool \notin Pools
  /\ PoolSpecs \subseteq PoolSpec
  /\ Memberships \subseteq Membership /\ Memberships # {}
  /\ Stages \subseteq Active
  /\ Gaps \subseteq Nat
  /\ MaxSubmissions \in Nat /\ MaxFaults \in Nat /\ MaxLag \in Nat
  /\ StatusFields \subseteq AllStatusFields
  /\ FaultKinds \subseteq AllFaults

(* An AgentTask as the pool controller sees it; uid tells apart the tasks  *)
(* that had one name, created is the creationTimestamp, which the API      *)
(* server rounds to seconds.  The resourceVersion is the content: every    *)
(* write changes it.                                                       *)
TaskObject ==
  [uid: Nat, exists: BOOLEAN, member: Membership, created: Nat, phase: Phases,
   granted: BOOLEAN]

NoTask ==
  [uid |-> 0, exists |-> FALSE, member |-> [poolRef |-> NoPool, labels |-> {}],
   created |-> 0, phase |-> "Pending", granted |-> FALSE]

(* AgentPoolStatus; activeAgents is the size of active, which stands for    *)
(* activeTaskNames.                                                        *)
AgentPoolStatus ==
  [active: SUBSET Tasks, queued: Nat, completed: Nat, failed: Nat]

PoolObject == [exists: BOOLEAN, spec: PoolSpec, status: AgentPoolStatus]

NewStatus == [active |-> {}, queued |-> 0, completed |-> 0, failed |-> 0]

(* The Reconcile call: for which pool, the pool object it read, the tasks  *)
(* it has still to grant a slot to as it read them, the status it is going *)
(* to write and whether there are pending tasks.                           *)
Call ==
  [pc: {"idle", "list", "grant", "status"}, pool: Pools, obj: PoolObject,
   todo: SUBSET [task: Tasks, read: TaskObject], status: AgentPoolStatus,
   pending: BOOLEAN]

Idle ==
  [pc |-> "idle", pool |-> CHOOSE p \in Pools : TRUE,
   obj |-> [exists |-> FALSE, spec |-> [max |-> 1, selector |-> FALSE],
            status |-> NewStatus],
   todo |-> {}, status |-> NewStatus, pending |-> FALSE]

(* Every variable has its type: in particular, whatever users edit, only   *)
(* names of pools are queued (mapTaskToPool).                              *)
TypeOK ==
  /\ tasks \in Seq([Tasks -> TaskObject]) \ {<<>>}
  /\ pool \in [Pools -> Seq(PoolObject) \ {<<>>}]
  /\ queue \subseteq Pools
  /\ call \in Call
  /\ now \in Nat
  /\ submitted \in 0..MaxSubmissions
  /\ faults \in 0..MaxFaults

(* Users have applied the pools; their tasks are yet to come.              *)
Init ==
  /\ tasks = <<[t \in Tasks |-> NoTask]>>
  /\ \E s \in [Pools -> PoolSpecs] :
       pool = [p \in Pools |-> <<[exists |-> TRUE, spec |-> s[p], status |-> NewStatus]>>]
  /\ queue = Pools
  /\ call = Idle
  /\ now = 0
  /\ submitted = 0
  /\ faults = 0

-----------------------------------------------------------------------------
(* The two stores, and how a Reconcile call ends.                          *)

Newest        == Current(tasks)
NewestPool(p) == Current(pool[p])

Fault(k) ==
  /\ k \in FaultKinds
  /\ faults < MaxFaults
  /\ faults' = faults + 1

(* The API server stores a new version o of task t.                        *)
StoreTask(t, o) ==
  /\ Len(tasks) <= MaxLag
  /\ tasks' = Stored(tasks, [Newest EXCEPT ![t] = o])

StorePool(p, o) ==
  /\ Len(pool[p]) <= MaxLag
  /\ pool' = [pool EXCEPT ![p] = Stored(@, o)]

(* The call returns, with an error or a RequeueAfter if requeue is set.     *)
Return(requeue) ==
  /\ call' = Idle
  /\ queue' = IF requeue THEN queue \union {call.pool} ELSE queue

(* Mutant: a task that is creating its merge request is not counted.       *)
CountedTwoPhases == {"Initializing", "Running"}

(* The phases that take up a slot.                                         *)
Counted == Active

-----------------------------------------------------------------------------
(* Reconcile.                                                              *)

Reconcile(p) ==
  /\ call.pc = "idle"
  /\ p \in queue
  /\ queue' = queue \ {p}
  /\ call' = IF Cached(pool[p]).exists
             THEN [Idle EXCEPT !.pc = "list", !.pool = p, !.obj = Cached(pool[p])]
             ELSE Idle
  /\ UNCHANGED <<tasks, pool, clock, faults>>

(* The tasks of pool p among those read: the ones its selector matches.    *)
Listed(p, seen) == {t \in Tasks : seen[t].exists /\ p \in seen[t].member.labels}

InPhases(S, seen, phases) == {t \in S : seen[t].phase \in phases}

(* Mutant: newest first.                                                   *)
LifoPrefix(S, seen, k) ==
  {G \in SUBSET S : /\ Cardinality(G) = k
                    /\ \A x \in G, y \in S \ G : seen[x].created >= seen[y].created}

(* The first k of S by creation time: sort.Slice is not stable and the     *)
(* list of the cache comes in any order, so ties fall either way.          *)
FifoPrefix(S, seen, k) ==
  {G \in SUBSET S : /\ Cardinality(G) = k
                    /\ \A x \in G, y \in S \ G : seen[x].created <= seen[y].created}

(* Mutant: a slot more.                                                    *)
SlotsAvailableOffByOne(max, active) == IF active <= max THEN max - active + 1 ELSE 0

SlotsAvailable(max, active) == IF active < max THEN max - active ELSE 0

(* How many pending tasks are to get a slot.                               *)
ToGrant(slots, pending) == IF slots > pending THEN pending ELSE slots

(* The tasks of pool p that were read, by category: the status that the    *)
(* call will write, in which the grants it makes itself do not show.       *)
StatusOf(p, seen) ==
  LET Of(phases)       == InPhases(Listed(p, seen), seen, phases)
      Count(f, phases) == IF f \in StatusFields THEN Cardinality(Of(phases)) ELSE 0
  IN [active    |-> IF "active" \in StatusFields THEN Of(Counted) ELSE {},
      queued    |-> Count("queued", {"Pending"}),
      completed |-> Count("completed", {"Succeeded"}),
      failed    |-> Count("failed", {"Failed"})]

(* listPoolTasks, the categories and the choice of whom to grant a slot.    *)
(* A selector that cannot be parsed is an error.  Without one the list     *)
(* asks for an index on spec.poolRef, which the manager never sets up, and *)
(* the client returns an error.                                            *)
listPoolTasks ==
  LET seen    == Cached(tasks)
      mine    == Listed(call.pool, seen)
      pending == InPhases(mine, seen, {"Pending"})
      active  == InPhases(mine, seen, Counted)
      k       == ToGrant(SlotsAvailable(call.obj.spec.max, Cardinality(active)),
                         Cardinality(pending))
  IN
  /\ call.pc = "list"
  /\ \/ ~call.obj.spec.selector /\ Return(TRUE)
     \/ /\ call.obj.spec.selector
        /\ \E G \in FifoPrefix(pending, seen, k) :
             call' = [call EXCEPT !.pc = IF G = {} THEN "status" ELSE "grant",
                                  !.todo = {[task |-> t, read |-> seen[t]] : t \in G},
                                  !.status = StatusOf(call.pool, seen),
                                  !.pending = pending # {}]
        /\ UNCHANGED queue
  /\ UNCHANGED <<tasks, pool, clock, faults>>

(* Mutant: a patch, without the resourceVersion of what was read.          *)
FreshIgnored(g) == TRUE

(* The API server accepts an update of the version that was read.          *)
Fresh(g) == g.read = Newest[g.task]

(* One turn of the loop: r.Update of the oldest task left, which changes   *)
(* nothing if it has its slot, and is passed over if it fails.             *)
grantSlot(g) ==
  LET t == g.task IN
  /\ call.pc = "grant"
  /\ g \in call.todo
  /\ \A h \in call.todo : g.read.created <= h.read.created
  /\ \/ /\ Fresh(g) /\ ~g.read.granted
        /\ StoreTask(t, [Newest[t] EXCEPT !.granted = TRUE])
        /\ UNCHANGED faults
     \/ /\ ~Fresh(g) \/ g.read.granted
        /\ UNCHANGED <<tasks, faults>>
     \/ /\ Fault("apiError")
        /\ UNCHANGED tasks
  /\ call' = [call EXCEPT !.pc = IF call.todo = {g} THEN "status" ELSE "grant",
                          !.todo = @ \ {g}]
  /\ UNCHANGED <<pool, queue, clock>>

(* Mutant: without the requeue after 10 seconds.                           *)
RequeuesNever == FALSE

(* The call asks to be called again after 10 seconds.                      *)
Requeues == call.pending

(* r.Status().Update, which stores nothing when nothing changed, and the   *)
(* requeue while tasks are pending; or a conflict, which is an error.      *)
updateStatus ==
  LET p == call.pool IN
  /\ call.pc = "status"
  /\ \/ /\ call.obj = NewestPool(p)
        /\ IF call.status = call.obj.status
           THEN UNCHANGED pool
           ELSE StorePool(p, [call.obj EXCEPT !.status = call.status])
        /\ Return(Requeues)
     \/ /\ call.obj # NewestPool(p)
        /\ Return(TRUE)
        /\ UNCHANGED pool
  /\ UNCHANGED <<tasks, clock, faults>>

(* Mutant: the error is logged and Reconcile returns nil.                  *)
apiCallFailsSilently ==
  /\ call.pc = "status"
  /\ Fault("apiError")
  /\ Return(FALSE)
  /\ UNCHANGED <<tasks, pool, clock>>

(* The status update fails before it has any effect.                       *)
apiCallFails ==
  /\ call.pc = "status"
  /\ Fault("apiError")
  /\ Return(TRUE)
  /\ UNCHANGED <<tasks, pool, clock>>

ReconcileStep == listPoolTasks \/ (\E g \in call.todo : grantSlot(g)) \/ updateStatus

-----------------------------------------------------------------------------
(* The informers and the life of the operator process.                     *)

(* Mutant: a task without a poolRef is mapped like the others.             *)
mapTaskToPoolEmpty(o) == IF o.exists THEN {o.member.poolRef} ELSE {}

(* The pool an event of the task o is mapped to: the one it names.         *)
mapTaskToPool(o) == IF o.exists THEN {o.member.poolRef} \ {NoPool} ELSE {}

(* A version of a task reaches the cache and queues the pools that its old *)
(* and its new version are mapped to (Watches).                            *)
SyncTasks ==
  /\ Lagging(tasks)
  /\ tasks' = Delivered(tasks)
  /\ queue' = queue \union
       UNION {mapTaskToPool(tasks[1][t]) \union mapTaskToPool(tasks[2][t]) :
                t \in {u \in Tasks : tasks[1][u] # tasks[2][u]}}
  /\ UNCHANGED <<pool, call, clock, faults>>

(* A version of a pool reaches the cache and queues it (For).              *)
SyncPool(p) ==
  /\ Lagging(pool[p])
  /\ pool' = [pool EXCEPT ![p] = Delivered(@)]
  /\ queue' = queue \union {p}
  /\ UNCHANGED <<tasks, call, clock, faults>>

(* The operator dies and comes back: the call is forgotten, the caches are *)
(* filled anew, and every pool and every task brings an event.             *)
Crash ==
  /\ Fault("crash")
  /\ tasks' = Relisted(tasks)
  /\ pool' = [p \in Pools |-> Relisted(pool[p])]
  /\ queue' = {p \in Pools : NewestPool(p).exists}
               \union UNION {mapTaskToPool(Newest[t]) : t \in Tasks}
  /\ call' = Idle
  /\ UNCHANGED <<clock>>

-----------------------------------------------------------------------------
(* Users and the task controller.                                          *)

Submit(t) ==
  /\ ~Newest[t].exists
  /\ submitted < MaxSubmissions
  /\ submitted' = submitted + 1
  /\ \E g \in Gaps, m \in Memberships :
       /\ now' = now + g
       /\ StoreTask(t, [NoTask EXCEPT !.uid = submitted', !.exists = TRUE,
                                      !.member = m, !.created = now'])
  /\ UNCHANGED <<pool, queue, call, faults>>

(* A task is gone (handleDeletion removed its finalizer).                  *)
Remove(t) ==
  /\ Newest[t].exists
  /\ StoreTask(t, NoTask)
  /\ UNCHANGED <<pool, queue, call, clock, faults>>

(* A user edits the poolRef or the labels of a task.                       *)
Relabel(t) ==
  /\ Newest[t].exists
  /\ Fault("relabel")
  /\ \E m \in Memberships : StoreTask(t, [Newest[t] EXCEPT !.member = m])
  /\ UNCHANGED <<pool, queue, call, clock>>

(* The task controller moves t to another phase.                           *)
Moves(t, to) ==
  /\ Newest[t].exists
  /\ StoreTask(t, [Newest[t] EXCEPT !.phase = to])
  /\ UNCHANGED <<pool, queue, call, clock, faults>>

(* handlePending: a task that names a pool needs the annotation.           *)
Admit(t) ==
  /\ Newest[t].phase = "Pending"
  /\ Newest[t].member.poolRef = NoPool \/ Newest[t].granted
  /\ \E to \in Stages : Moves(t, to)

(* On to a later phase, and in the end to one of the last two.             *)
Advance(t) ==
  /\ Newest[t].phase \in Active
  /\ \E to \in Stages \union Terminal :
       Rank[Newest[t].phase] < Rank[to] /\ Moves(t, to)

(* handlePending refuses the task.                                         *)
Refuse(t) == Newest[t].phase = "Pending" /\ Moves(t, "Failed")

(* A user edits the spec of a pool.                                        *)
Resize(p) ==
  /\ NewestPool(p).exists
  /\ Fault("resize")
  /\ \E s \in PoolSpecs : StorePool(p, [NewestPool(p) EXCEPT !.spec = s])
  /\ UNCHANGED <<tasks, queue, call, clock>>

Drop(p) ==
  /\ NewestPool(p).exists
  /\ Fault("drop")
  /\ StorePool(p, [NewestPool(p) EXCEPT !.exists = FALSE])
  /\ UNCHANGED <<tasks, queue, call, clock>>

Environment ==
  \/ \E t \in Tasks : Submit(t) \/ Remove(t) \/ Relabel(t) \/ Admit(t) \/ Advance(t) \/ Refuse(t)
  \/ \E p \in Pools : Resize(p) \/ Drop(p)

Next ==
  \/ \E p \in Pools : Reconcile(p) \/ SyncPool(p)
  \/ ReconcileStep \/ apiCallFails \/ SyncTasks \/ Crash \/ Environment

Spec == Init /\ [][Next]_vars

(* The worker takes what is queued and finishes its calls, and the         *)
(* informers deliver.  A task that has its slot starts and works on, as    *)
(* TaskTerminates of AgentTask says, but for the exception made there: one *)
(* that is Running need never end, since it may have lost its start time   *)
(* (in a crash, or by a failing status update) and with it its timeout.    *)
FairSpec ==
  /\ Spec
  /\ \A p \in Pools : SF_vars(Reconcile(p)) /\ WF_vars(SyncPool(p))
  /\ WF_vars(ReconcileStep) /\ WF_vars(SyncTasks)
  /\ \A t \in Tasks :
       SF_vars(Admit(t)) /\ SF_vars(Newest[t].phase # "Running" /\ Advance(t))

-----------------------------------------------------------------------------
(* Properties.                                                             *)

(* The members of pool p that work, and those that may start to.           *)
Working(p)  == InPhases(Listed(p, Newest), Newest, Active)
Admitted(p) == {t \in InPhases(Listed(p, Newest), Newest, {"Pending"}) : Newest[t].granted}

(* "MaxConcurrency is the maximum number of concurrent agent tasks": no     *)
(* more members of a pool work at a time.                                  *)
MaxConcurrencyHeld ==
  \A p \in Pools :
    NewestPool(p).exists => Cardinality(Working(p)) <= NewestPool(p).spec.max

(* Slots are never overbooked: although a task that was granted a slot may *)
(* still be pending, and the tasks a call read may have moved on, a pool   *)
(* has never more working and admitted members than slots (Reconcile).     *)
NoOverbooking ==
  \A p \in Pools :
    NewestPool(p).exists
    => Cardinality(Working(p) \union Admitted(p)) <= NewestPool(p).spec.max

(* First in, first out: a pending task is overtaken by a younger one only  *)
(* when there is a slot left for it too (its own grant failed and is to be *)
(* tried again).                                                           *)
NoOvertaking ==
  \A p \in Pools : \A t \in Admitted(p) :
    LET pending == InPhases(Listed(p, Newest), Newest, {"Pending"})
        ahead   == {u \in pending : Newest[u].created <= Newest[t].created}
    IN  NewestPool(p).exists
        => Cardinality(Working(p)) + Cardinality(ahead) <= NewestPool(p).spec.max

(* The queue that a pool is to its tasks: in place of objects, caches and  *)
(* calls, where each task is.                                              *)
PlaceOf(p, o) ==
  IF ~o.exists \/ p \notin o.member.labels THEN "absent"
  ELSE IF o.phase = "Pending" THEN IF o.granted THEN "admitted" ELSE "queued"
  ELSE IF o.phase \in Active THEN "working" ELSE "ended"

Standing == [p \in Pools |-> [t \in Tasks |-> PlaceOf(p, Newest[t])]]
Arrivals == [t \in Tasks |-> Newest[t].created]
Rooms    == [p \in Pools |-> NewestPool(p).spec.max]

Queue == INSTANCE SlotQueue WITH place <- Standing, arrival <- Arrivals, slots <- Rooms

(* The reconciler, with its stale lists, failing updates and restarts, is  *)
(* such a queue: every step grants a slot that is there for the task and   *)
(* for all before it, starts, ends or removes a task, or does nothing.     *)
RefinesQueue == Queue!QueueSpec

(* A slot is granted only to a task that is, at that moment, pending and a *)
(* member of the pool, however old the list is the grant is based on.      *)
GrantsAreDue ==
  [][\A t \in Tasks :
       ~Newest[t].granted /\ Newest[t].granted'
       => Newest[t].phase = "Pending" /\ call.pool \in Newest[t].member.labels]_vars

(* Task t waits for a slot of pool p, which it names and belongs to; a pool *)
(* without a selector serves nobody (listPoolTasks).                       *)
Waiting(p, t) ==
  /\ NewestPool(p).exists /\ Newest[t].exists
  /\ Newest[t].member.poolRef = p
  /\ NewestPool(p).spec.selector /\ p \in Newest[t].member.labels
  /\ Newest[t].phase = "Pending" /\ ~Newest[t].granted

(* Every slot of pool p is taken by a task that is Running.                *)
HeldUp(p) ==
  Cardinality(InPhases(Listed(p, Newest), Newest, {"Running"})) >= NewestPool(p).spec.max

(* No task waits for ever, but for one thing: tasks that are Running for   *)
(* ever take all the slots of the pool.  A slot that becomes free, or is   *)
(* not the one of such a task, reaches the tasks that are waiting, through *)
(* the events of tasks and the requeue after 10 seconds.                   *)
EveryTaskServed ==
  \A p \in Pools, t \in Tasks : <>[]Waiting(p, t) => <>[]HeldUp(p)

(* "ActiveAgents is the number of currently running agents", and so on:     *)
(* whenever tasks come to rest, the status of a pool catches up with them. *)
StatusCatchesUp ==
  \A p \in Pools :
    []<>(NewestPool(p).exists => NewestPool(p).status = StatusOf(p, Newest))
=============================================================================
