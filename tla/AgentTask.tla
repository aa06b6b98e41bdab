------------------------------ MODULE AgentTask ------------------------------
(***************************************************************************)
(* AgentTaskReconciler (internal/controller/agenttask_controller.go): the  *)
(* controller that carries an AgentTask from submission through its agent  *)
(* pod to a merge request, and cleans up when the task is deleted.         *)
(*                                                                         *)
(* One worker reconciles one task at a time; every action of the           *)
(* reconciler below runs up to and including one call of the API server or *)
(* of the git platform, and users, the pool controller, the kubelet, the   *)
(* garbage collector and the informers act between any two of them.  Reads *)
(* come from informer caches (WatchedStore); writes carry the              *)
(* resourceVersion of the object that was read and conflict when it is no  *)
(* longer the newest.                                                      *)
(***************************************************************************)
EXTENDS WatchedStore

CONSTANTS
  Tasks,            \* names of AgentTasks
  Branches,         \* names of git branches
  Specs,            \* the specs users submit, a subset of TaskSpec
  MaxIncarnations,  \* how often a task of one name is created
  FaultKinds,       \* which faults happen, a subset of AllFaults
  MaxFaults,        \* how many faults happen in one behaviour
  MaxLag            \* how many versions a cache is behind at most

VARIABLES
  task,     \* task[t]: window of versions of the AgentTask object named t
  pod,      \* pod[t]: window of versions of the Pod object agent-t
  queue,    \* tasks waiting in the controller's work queue
  rec,      \* rec[t]: the Reconcile call under way for t
  mrs,      \* merge requests open on the git platform
  pushed,   \* branches present in the git repository
  overdue,  \* overdue[t]: the uids of t whose pod runs longer than spec.timeout
  faults,   \* faults so far
  hist      \* hist[t]: history of this incarnation of t; no guard reads it

vars == <<task, pod, queue, rec, mrs, pushed, overdue, faults, hist>>

NoBranch == ""

AllFaults == {"apiError", "crash", "edit", "podDelete", "secret", "platform"}

(* What the reconciler distinguishes in an AgentTaskSpec: the required     *)
(* fields are nonempty; poolRef is set; the model is in the cloud and has  *)
(* an API key secret; gitCredentialsSecretRef is set; CreatePullRequest    *)
(* supports the platform; the work branch, given or generated.             *)
TaskSpec ==
  [valid: BOOLEAN, pooled: BOOLEAN, apiKeyRef: BOOLEAN, gitRef: BOOLEAN,
   supported: BOOLEAN, branch: Branches]

ASSUME ConstantsAssumption ==
  /\ NoBranch \notin Branches /\ Branches # {}
  /\ Specs \subseteq TaskSpec
  /\ MaxIncarnations \in Nat
  /\ FaultKinds \subseteq AllFaults
  /\ MaxFaults \in Nat
  /\ MaxLag \in Nat

Terminal == {"Succeeded", "Failed"}
Phases   == {"Pending", "Initializing", "Running", "CreatingMR"} \union Terminal

(* Status messages, one for every reason a phase was entered.              *)
Messages ==
  {"", "validated", "podCreated", "podRunning", "agentCompleted", "mrCreated",
   "invalidSpec", "apiKeyNotFound", "noPodName", "podDeleted", "podFailed",
   "timedOut", "gitCredentials", "mrFailed"}

(* AgentTaskStatus; for the fields of which only presence matters, whether *)
(* they are set.                                                           *)
AgentTaskStatus ==
  [phase: Phases, podName: BOOLEAN, branchName: Branches \union {NoBranch},
   mergeRequestURL: BOOLEAN, startTime: BOOLEAN, endTime: BOOLEAN,
   message: Messages]

(* A version of an AgentTask object.  uid numbers the incarnations of a    *)
(* name; a version that does not exist is the event of its removal.        *)
AgentTaskObject ==
  [rv: Nat, uid: Nat, exists: BOOLEAN, finalizer: BOOLEAN, deleting: BOOLEAN,
   granted: BOOLEAN, spec: TaskSpec, status: AgentTaskStatus]

(* A merge request: for which incarnation of which task, from which branch.*)
MergeRequest == [task: Tasks, uid: Nat, branch: Branches]

PodPhases == {"Pending", "Running", "Succeeded", "Failed"}

(* A version of the agent pod: owner is the uid of the task in its         *)
(* controller reference, branch the work branch it was built for.          *)
PodObject ==
  [exists: BOOLEAN, owner: Nat, branch: Branches, phase: PodPhases,
   terminating: BOOLEAN]

NewStatus ==
  [phase |-> "Pending", podName |-> FALSE, branchName |-> NoBranch,
   mergeRequestURL |-> FALSE, startTime |-> FALSE, endTime |-> FALSE,
   message |-> ""]

(* Any member of TaskSpec; the spec of a version that does not exist.      *)
NoSpec == CHOOSE s \in TaskSpec : TRUE

NoPod ==
  [exists |-> FALSE, owner |-> 0, branch |-> NoSpec.branch, phase |-> "Pending",
   terminating |-> FALSE]

NoTask(rv, uid) ==
  [rv |-> rv, uid |-> uid, exists |-> FALSE, finalizer |-> FALSE,
   deleting |-> FALSE, granted |-> FALSE, spec |-> NoSpec,
   status |-> NewStatus]

(* Where a Reconcile call stands, and the object and the status it holds.  *)
Steps ==
  {"idle", "finalizer", "pending", "initializing", "createPod", "running",
   "timeout", "creatingMR", "deletion", "removeFinalizer", "updateStatus"}

ReconcileCall == [pc: Steps, obj: AgentTaskObject, status: AgentTaskStatus]

Idle == [pc |-> "idle", obj |-> NoTask(0, 0), status |-> NewStatus]

(* Pods made for this very task and evicted, and whether one succeeded.     *)
History == [made: Nat, evicted: Nat, succeeded: BOOLEAN]

NewHist == [made |-> 0, evicted |-> 0, succeeded |-> FALSE]

(* Every variable has its type: in particular no handler ever writes a phase *)
(* the API does not declare.                                               *)
TypeOK ==
  /\ task \in [Tasks -> Seq(AgentTaskObject) \ {<<>>}]
  /\ pod \in [Tasks -> Seq(PodObject) \ {<<>>}]
  /\ queue \subseteq Tasks
  /\ rec \in [Tasks -> ReconcileCall]
  /\ mrs \subseteq MergeRequest
  /\ pushed \subseteq Branches
  /\ overdue \in [Tasks -> SUBSET Nat]
  /\ faults \in 0..MaxFaults
  /\ hist \in [Tasks -> History]

Init ==
  /\ task = [t \in Tasks |-> <<NoTask(0, 0)>>]
  /\ pod = [t \in Tasks |-> <<NoPod>>]
  /\ queue = {}
  /\ rec = [t \in Tasks |-> Idle]
  /\ mrs = {}
  /\ pushed = {}
  /\ overdue = [t \in Tasks |-> {}]
  /\ faults = 0
  /\ hist = [t \in Tasks |-> NewHist]

-----------------------------------------------------------------------------
(* The reconciler's view of its objects, and how a Reconcile call goes on. *)

NewestTask(t) == Current(task[t])
NewestPod(t)  == Current(pod[t])

(* The API server accepts a write of the object the call read.             *)
Fresh(t) == rec[t].obj.rv = NewestTask(t).rv

(* A fault of kind k happens in this step.                                 *)
Fault(k) ==
  /\ k \in FaultKinds
  /\ faults < MaxFaults
  /\ faults' = faults + 1

(* The API server stores a new version o of the task, on the next rv.      *)
StoreTask(t, o) ==
  /\ Len(task[t]) <= MaxLag
  /\ task' = [task EXCEPT ![t] = Stored(@, [o EXCEPT !.rv = @ + 1])]

StorePod(t, p) ==
  /\ Len(pod[t]) <= MaxLag
  /\ pod' = [pod EXCEPT ![t] = Stored(@, p)]

(* The call for t goes on at step s with the object it holds.              *)
Goto(t, s) == rec' = [rec EXCEPT ![t].pc = s]

(* The call for t returns; with requeue it asks to be called again, at     *)
(* once, after a delay, or after the back-off that an error brings.        *)
Return(t, requeue) ==
  /\ rec' = [rec EXCEPT ![t] = Idle]
  /\ queue' = IF requeue THEN queue \union {t} ELSE queue

(* r.Delete(ctx, pod): by name; the pod is gone once the kubelet stopped   *)
(* it.  What it returns is ignored by both callers.                        *)
DeletePod(t) ==
  IF NewestPod(t).exists /\ ~NewestPod(t).terminating
  THEN StorePod(t, [NewestPod(t) EXCEPT !.terminating = TRUE])
  ELSE UNCHANGED pod

(* setPhase up to its status update: the status the call wants to write.   *)
setPhase(t, s, phase, message) ==
  rec' = [rec EXCEPT ![t].pc = "updateStatus",
                     ![t].status = [s EXCEPT !.phase = phase, !.message = message]]

(* Mutant: a phase that the API declares and no handler knows.             *)
setFailedUnknownPhase(t, s, message) ==
  setPhase(t, [s EXCEPT !.endTime = TRUE], "PushingBranch", message)

setFailed(t, s, message) ==
  setPhase(t, [s EXCEPT !.endTime = TRUE], "Failed", message)

(* The switch over the phase at the end of Reconcile; o was just read or   *)
(* returned by an update.                                                  *)
HandlerOf == [p \in Phases \ Terminal |->
  CASE p = "Pending"      -> "pending"
    [] p = "Initializing" -> "initializing"
    [] p = "Running"      -> "running"
    [] p = "CreatingMR"   -> "creatingMR"]

(* Mutant: a failed task is tried again.                                   *)
DispatchRetries(t, o) ==
  rec' = [rec EXCEPT ![t] =
            IF o.status.phase = "Succeeded"
            THEN Idle
            ELSE [pc |-> IF o.status.phase = "Failed" THEN "initializing"
                         ELSE HandlerOf[o.status.phase],
                  obj |-> o, status |-> o.status]]

Dispatch(t, o) ==
  rec' = [rec EXCEPT ![t] =
            IF o.status.phase \in Terminal
            THEN Idle
            ELSE [pc |-> HandlerOf[o.status.phase], obj |-> o, status |-> o.status]]

-----------------------------------------------------------------------------
(* Reconcile and its handlers.                                             *)

Reconcile(t) ==
  /\ t \in queue
  /\ \A u \in Tasks : rec[u].pc = "idle"
  /\ queue' = queue \ {t}
  /\ LET o == Cached(task[t])
         At(s) == rec' = [rec EXCEPT ![t] =
                            [pc |-> s, obj |-> o, status |-> o.status]]
     IN \/ ~o.exists /\ UNCHANGED rec
        \/ o.exists /\ o.deleting /\ At("deletion")
        \/ o.exists /\ ~o.deleting /\ ~o.finalizer /\ At("finalizer")
        \/ o.exists /\ ~o.deleting /\ o.finalizer /\ Dispatch(t, o)
  /\ UNCHANGED <<task, pod, mrs, pushed, overdue, faults, hist>>

(* AddFinalizer and r.Update; the call goes on with the object the API     *)
(* server returned.                                                        *)
ensureFinalizer(t) ==
  /\ rec[t].pc = "finalizer"
  /\ \/ /\ Fresh(t)
        /\ LET o == [NewestTask(t) EXCEPT !.finalizer = TRUE]
           IN StoreTask(t, o) /\ Dispatch(t, [o EXCEPT !.rv = @ + 1])
        /\ UNCHANGED queue
     \/ ~Fresh(t) /\ Return(t, TRUE) /\ UNCHANGED task
  /\ UNCHANGED <<pod, mrs, pushed, overdue, faults, hist>>

(* Mutant: the slot is not checked.                                        *)
HasSlotIgnored(o) == TRUE

(* A task that names a pool waits for the pool controller's annotation.     *)
HasSlot(o) == o.spec.pooled => o.granted

handlePending(t) ==
  LET o == rec[t].obj IN
  /\ rec[t].pc = "pending"
  /\ \/ /\ ~o.spec.valid
        /\ setFailed(t, o.status, "invalidSpec")
        /\ UNCHANGED <<queue, faults>>
     \/ /\ o.spec.valid /\ ~HasSlot(o)
        /\ Return(t, TRUE)
        /\ UNCHANGED faults
     \/ /\ o.spec.valid /\ HasSlot(o)
        /\ setPhase(t, o.status, "Initializing", "validated")
        /\ UNCHANGED <<queue, faults>>
     \/ /\ o.spec.valid /\ HasSlot(o) /\ o.spec.apiKeyRef
        /\ Fault("secret")
        /\ setFailed(t, o.status, "apiKeyNotFound")
        /\ UNCHANGED queue
  /\ UNCHANGED <<task, pod, mrs, pushed, overdue, hist>>

(* Mutant: an existing pod is not recorded in the status.                  *)
handleInitializingUnnamed(t) ==
  /\ rec[t].pc = "initializing"
  /\ IF Cached(pod[t]).exists
     THEN setPhase(t, rec[t].obj.status, "Running", "podRunning")
     ELSE Goto(t, "createPod")
  /\ UNCHANGED <<task, pod, queue, mrs, pushed, overdue, faults, hist>>

(* The pod exists according to the cache: on to Running; if not, build it. *)
handleInitializing(t) ==
  /\ rec[t].pc = "initializing"
  /\ IF Cached(pod[t]).exists
     THEN setPhase(t, [rec[t].obj.status EXCEPT !.podName = TRUE],
                   "Running", "podRunning")
     ELSE Goto(t, "createPod")
  /\ UNCHANGED <<task, pod, queue, mrs, pushed, overdue, faults, hist>>

(* Mutant: no controller reference is set.                                 *)
BuiltPodUnowned(o) ==
  [exists |-> TRUE, owner |-> 0, branch |-> o.spec.branch,
   phase |-> "Pending", terminating |-> FALSE]

(* The pod of the builder, with the task as its controller.                *)
BuiltPod(o) ==
  [exists |-> TRUE, owner |-> o.uid, branch |-> o.spec.branch,
   phase |-> "Pending", terminating |-> FALSE]

(* Mutant: every pod gets a name of its own (generateName).                *)
PodNameFree(t) == FALSE

(* The API server has a pod agent-t.                                       *)
PodNameTaken(t) == NewestPod(t).exists

(* r.Create(ctx, pod): created, already there, or created while the answer *)
(* is lost.                                                                *)
createPod(t) ==
  LET o == rec[t].obj
      make == /\ ~PodNameTaken(t)
              /\ StorePod(t, BuiltPod(o))
              /\ overdue' = [overdue EXCEPT ![t] = @ \ {o.uid}]
              /\ hist' = [hist EXCEPT ![t].made =
                            IF o.uid = NewestTask(t).uid THEN @ + 1 ELSE @]
  IN
  /\ rec[t].pc = "createPod"
  /\ \/ /\ make
        /\ setPhase(t, [o.status EXCEPT !.podName = TRUE, !.startTime = TRUE,
                                        !.branchName = o.spec.branch],
                    "Running", "podCreated")
        /\ UNCHANGED <<queue, faults>>
     \/ /\ make
        /\ Fault("apiError")
        /\ Return(t, TRUE)
     \/ /\ PodNameTaken(t)
        /\ setPhase(t, [o.status EXCEPT !.podName = TRUE], "Running", "podRunning")
        /\ UNCHANGED <<pod, hist, queue, overdue, faults>>
  /\ UNCHANGED <<task, mrs, pushed>>

(* Mutant: the timeout is not looked at.                                   *)
TimedOutNever(t) == FALSE

(* time.Since(StartTime) > timeout; StartTime may be missing.              *)
TimedOut(t) == rec[t].obj.status.startTime /\ rec[t].obj.uid \in overdue[t]

(* Mutant: any end of the pod counts as success.                           *)
AgentEnded(p) == p.phase \in {"Succeeded", "Failed"}

AgentSucceeded(p) == p.phase = "Succeeded"

handleRunning(t) ==
  LET s == rec[t].obj.status
      p == Cached(pod[t])
      atWork == s.podName /\ p.exists /\ p.phase \in {"Pending", "Running"}
  IN
  /\ rec[t].pc = "running"
  /\ \/ /\ ~s.podName \/ ~p.exists
        /\ setFailed(t, s, IF s.podName THEN "podDeleted" ELSE "noPodName")
        /\ UNCHANGED queue
     \/ /\ s.podName /\ p.exists /\ AgentSucceeded(p)
        /\ setPhase(t, s, "CreatingMR", "agentCompleted")
        /\ UNCHANGED queue
     \/ /\ s.podName /\ p.exists /\ p.phase = "Failed"
        /\ setFailed(t, s, "podFailed")
        /\ UNCHANGED queue
     \/ /\ atWork /\ TimedOut(t)
        /\ Goto(t, "timeout")
        /\ UNCHANGED queue
     \/ /\ atWork /\ ~TimedOut(t)
        /\ Return(t, TRUE)
  /\ UNCHANGED <<task, pod, mrs, pushed, overdue, faults, hist>>

(* The timed-out task's pod is deleted, or is not and nobody notices.      *)
deleteTimedOutPod(t) ==
  /\ rec[t].pc = "timeout"
  /\ \/ DeletePod(t) /\ UNCHANGED faults
     \/ Fault("apiError") /\ UNCHANGED pod
  /\ setFailed(t, rec[t].obj.status, "timedOut")
  /\ UNCHANGED <<task, queue, mrs, pushed, overdue, hist>>

(* The branch the merge request is asked for.                              *)
SourceBranch(o) ==
  IF o.status.branchName # NoBranch THEN o.status.branchName ELSE o.spec.branch

(* The platform opens a merge request only for a branch the repository has *)
(* and that has none open.                                                 *)
PlatformAccepts(branch) ==
  branch \in pushed /\ \A m \in mrs : m.branch # branch

(* Resolve the git token and POST the merge request; the answer may get    *)
(* lost after the platform opened it.                                      *)
handleCreatingMR(t) ==
  LET o == rec[t].obj
      branch == SourceBranch(o)
      posts == o.spec.gitRef /\ o.spec.supported
      open == mrs' = mrs \union {[task |-> t, uid |-> o.uid, branch |-> branch]}
  IN
  /\ rec[t].pc = "creatingMR"
  /\ \/ /\ posts /\ PlatformAccepts(branch) /\ open
        /\ setPhase(t, [o.status EXCEPT !.mergeRequestURL = TRUE, !.endTime = TRUE],
                    "Succeeded", "mrCreated")
        /\ UNCHANGED faults
     \/ /\ posts /\ PlatformAccepts(branch) /\ open
        /\ Fault("platform")
        /\ setFailed(t, o.status, "mrFailed")
     \/ /\ posts /\ Fault("platform")
        /\ setFailed(t, o.status, "mrFailed")
        /\ UNCHANGED mrs
     \/ /\ o.spec.gitRef /\ ~(o.spec.supported /\ PlatformAccepts(branch))
        /\ setFailed(t, o.status, "mrFailed")
        /\ UNCHANGED <<mrs, faults>>
     \/ /\ o.spec.gitRef /\ Fault("secret")
        /\ setFailed(t, o.status, "gitCredentials")
        /\ UNCHANGED mrs
     \/ /\ ~o.spec.gitRef
        /\ setFailed(t, o.status, "gitCredentials")
        /\ UNCHANGED <<mrs, faults>>
  /\ UNCHANGED <<task, pod, queue, pushed, overdue, hist>>

(* The pod is deleted if the status names it and the cache knows it.       *)
handleDeletion(t) ==
  /\ rec[t].pc = "deletion"
  /\ \/ /\ IF rec[t].obj.status.podName /\ Cached(pod[t]).exists
           THEN DeletePod(t)
           ELSE UNCHANGED pod
        /\ UNCHANGED faults
     \/ /\ rec[t].obj.status.podName /\ Cached(pod[t]).exists
        /\ Fault("apiError")
        /\ UNCHANGED pod
  /\ Goto(t, "removeFinalizer")
  /\ UNCHANGED <<task, queue, mrs, pushed, overdue, hist>>

(* RemoveFinalizer and r.Update: with its last finalizer the object goes.  *)
removeFinalizer(t) ==
  /\ rec[t].pc = "removeFinalizer"
  /\ \/ /\ Fresh(t)
        /\ StoreTask(t, NoTask(NewestTask(t).rv, NewestTask(t).uid))
        /\ Return(t, FALSE)
     \/ ~Fresh(t) /\ Return(t, TRUE) /\ UNCHANGED task
  /\ UNCHANGED <<pod, mrs, pushed, overdue, faults, hist>>

(* The end of setPhase: r.Status().Update, then requeue unless the task    *)
(* has reached its end.                                                    *)
updateStatus(t) ==
  /\ rec[t].pc = "updateStatus"
  /\ \/ /\ Fresh(t)
        /\ StoreTask(t, [NewestTask(t) EXCEPT !.status = rec[t].status])
        /\ Return(t, rec[t].status.phase \notin Terminal)
     \/ ~Fresh(t) /\ Return(t, TRUE) /\ UNCHANGED task
  /\ UNCHANGED <<pod, mrs, pushed, overdue, faults, hist>>

(* Mutant: the error is logged and Reconcile returns nil.                  *)
apiCallFailsSilently(t) ==
  /\ rec[t].pc \in {"finalizer", "initializing", "createPod", "running",
                    "removeFinalizer", "updateStatus"}
  /\ Fault("apiError")
  /\ Return(t, FALSE)
  /\ UNCHANGED <<task, pod, mrs, pushed, overdue, hist>>

(* A call of the API server fails before it has any effect, and Reconcile  *)
(* returns the error.                                                      *)
apiCallFails(t) ==
  /\ \/ rec[t].pc \in {"finalizer", "initializing", "createPod", "running",
                       "removeFinalizer", "updateStatus"}
     \/ /\ rec[t].pc = "pending" /\ rec[t].obj.spec.valid
        /\ HasSlot(rec[t].obj) /\ rec[t].obj.spec.apiKeyRef
  /\ Fault("apiError")
  /\ Return(t, TRUE)
  /\ UNCHANGED <<task, pod, mrs, pushed, overdue, hist>>

ReconcileStep(t) ==
  \/ ensureFinalizer(t) \/ handlePending(t) \/ handleInitializing(t)
  \/ createPod(t) \/ handleRunning(t) \/ deleteTimedOutPod(t)
  \/ handleCreatingMR(t) \/ handleDeletion(t) \/ removeFinalizer(t)
  \/ updateStatus(t)

-----------------------------------------------------------------------------
(* The informers and the life of the operator process.                     *)

(* A version of the task reaches the cache and queues it (For).            *)
SyncTask(t) ==
  /\ Lagging(task[t])
  /\ task' = [task EXCEPT ![t] = Delivered(@)]
  /\ queue' = queue \union {t}
  /\ UNCHANGED <<pod, rec, mrs, pushed, overdue, faults, hist>>

(* A version of the pod reaches the cache and queues its owner (Owns).     *)
SyncPod(t) ==
  /\ Lagging(pod[t])
  /\ pod' = [pod EXCEPT ![t] = Delivered(@)]
  /\ queue' = queue \union {t}
  /\ UNCHANGED <<task, rec, mrs, pushed, overdue, faults, hist>>

(* The operator dies and comes back: calls under way are forgotten, caches *)
(* are filled anew and every task that exists is queued.                   *)
Crash ==
  /\ Fault("crash")
  /\ task' = [t \in Tasks |-> Relisted(task[t])]
  /\ pod' = [t \in Tasks |-> Relisted(pod[t])]
  /\ queue' = {t \in Tasks : NewestTask(t).exists}
  /\ rec' = [t \in Tasks |-> Idle]
  /\ UNCHANGED <<mrs, pushed, overdue, hist>>

-----------------------------------------------------------------------------
(* Users, the pool controller, the kubelet and the garbage collector.      *)

CreateTask(t) ==
  /\ ~NewestTask(t).exists
  /\ NewestTask(t).uid < MaxIncarnations
  /\ \E s \in Specs :
       StoreTask(t, [NoTask(NewestTask(t).rv, NewestTask(t).uid + 1)
                       EXCEPT !.exists = TRUE, !.spec = s])
  /\ hist' = [hist EXCEPT ![t] = NewHist]
  /\ UNCHANGED <<pod, queue, rec, mrs, pushed, overdue, faults>>

(* kubectl delete: the object stays, marked, while it has a finalizer.     *)
DeleteTask(t) ==
  /\ NewestTask(t).exists /\ ~NewestTask(t).deleting
  /\ StoreTask(t, IF NewestTask(t).finalizer
                  THEN [NewestTask(t) EXCEPT !.deleting = TRUE]
                  ELSE NoTask(NewestTask(t).rv, NewestTask(t).uid))
  /\ UNCHANGED <<pod, queue, rec, mrs, pushed, overdue, faults, hist>>

(* A user edits the spec, or anything else that makes a new version.       *)
EditTask(t) ==
  /\ NewestTask(t).exists
  /\ Fault("edit")
  /\ \E s \in Specs : StoreTask(t, [NewestTask(t) EXCEPT !.spec = s])
  /\ UNCHANGED <<pod, queue, rec, mrs, pushed, overdue, hist>>

(* AgentPoolReconciler annotates a pending task.                           *)
GrantSlot(t) ==
  /\ NewestTask(t).exists
  /\ NewestTask(t).status.phase = "Pending"
  /\ ~NewestTask(t).granted
  /\ StoreTask(t, [NewestTask(t) EXCEPT !.granted = TRUE])
  /\ UNCHANGED <<pod, queue, rec, mrs, pushed, overdue, faults, hist>>

(* The kubelet reports phase p for the pod.                                *)
PodReports(t, p) ==
  /\ NewestPod(t).exists
  /\ StorePod(t, [NewestPod(t) EXCEPT !.phase = p])
  /\ UNCHANGED <<task, queue, rec, mrs, overdue, faults>>

PodStarts(t) ==
  /\ NewestPod(t).phase = "Pending" /\ ~NewestPod(t).terminating
  /\ PodReports(t, "Running")
  /\ UNCHANGED <<pushed, hist>>

(* The agent ran to its end; it pushed its branch unless it found nothing  *)
(* to commit.                                                              *)
PodSucceeds(t) ==
  /\ NewestPod(t).phase = "Running"
  /\ PodReports(t, "Succeeded")
  /\ pushed' \in {pushed, pushed \union {NewestPod(t).branch}}
  /\ hist' = [hist EXCEPT ![t].succeeded =
                @ \/ NewestPod(t).owner = NewestTask(t).uid]

(* An init container or the agent failed, perhaps after the push.          *)
PodFails(t) ==
  /\ NewestPod(t).phase \in {"Pending", "Running"}
  /\ PodReports(t, "Failed")
  /\ \/ UNCHANGED pushed
     \/ /\ NewestPod(t).phase = "Running"
        /\ pushed' = pushed \union {NewestPod(t).branch}
  /\ UNCHANGED hist

PodRemoved(t) ==
  /\ NewestPod(t).exists /\ NewestPod(t).terminating
  /\ StorePod(t, NoPod)
  /\ UNCHANGED <<task, queue, rec, mrs, pushed, overdue, faults, hist>>

(* The owner of the pod is gone: the garbage collector deletes it.         *)
CollectPod(t) ==
  /\ NewestPod(t).exists /\ ~NewestPod(t).terminating
  /\ ~(NewestTask(t).exists /\ NewestTask(t).uid = NewestPod(t).owner)
  /\ NewestPod(t).owner # 0
  /\ DeletePod(t)
  /\ UNCHANGED <<task, queue, rec, mrs, pushed, overdue, faults, hist>>

(* Someone else deletes the pod: a drained node, an evicting kubelet.      *)
EvictPod(t) ==
  /\ NewestPod(t).exists /\ ~NewestPod(t).terminating
  /\ Fault("podDelete")
  /\ DeletePod(t)
  /\ hist' = [hist EXCEPT ![t].evicted =
                IF NewestPod(t).owner = NewestTask(t).uid THEN @ + 1 ELSE @]
  /\ UNCHANGED <<task, queue, rec, mrs, pushed, overdue>>

(* spec.timeout has passed since the agent pod was created.                *)
Expire(t) ==
  /\ NewestPod(t).exists
  /\ NewestPod(t).owner \notin overdue[t]
  /\ overdue' = [overdue EXCEPT ![t] = @ \union {NewestPod(t).owner}]
  /\ UNCHANGED <<task, pod, queue, rec, mrs, pushed, faults, hist>>

Environment(t) ==
  \/ CreateTask(t) \/ DeleteTask(t) \/ EditTask(t) \/ GrantSlot(t)
  \/ PodStarts(t) \/ PodSucceeds(t) \/ PodFails(t) \/ PodRemoved(t)
  \/ CollectPod(t) \/ EvictPod(t) \/ Expire(t)

Next ==
  \/ \E t \in Tasks :
       \/ Reconcile(t) \/ ReconcileStep(t) \/ apiCallFails(t)
       \/ SyncTask(t) \/ SyncPod(t) \/ Environment(t)
  \/ Crash

Spec == Init /\ [][Next]_vars

(* The worker takes what is queued (the work queue is first in, first out,  *)
(* so no task is passed over for ever) and finishes its calls; informers    *)
(* deliver, deleted pods stop, the garbage collector collects and time      *)
(* passes.  Users, the pool and the progress of the agent are not fair.     *)
FairSpec ==
  /\ Spec
  /\ \A t \in Tasks :
       /\ SF_vars(Reconcile(t)) /\ WF_vars(ReconcileStep(t))
       /\ WF_vars(SyncTask(t)) /\ WF_vars(SyncPod(t))
       /\ WF_vars(PodRemoved(t)) /\ WF_vars(CollectPod(t))
       /\ WF_vars(Expire(t))

-----------------------------------------------------------------------------
(* Properties.                                                             *)

Exists(t) == NewestTask(t).exists
Phase(t)  == NewestTask(t).status.phase

(* The git platform has a merge request for incarnation uid of t.          *)
OpenedFor(t, uid) == \E m \in mrs : m.task = t /\ m.uid = uid

Opened(t) == OpenedFor(t, NewestTask(t).uid)

(* What the abstract life cycle sees of t.                                  *)
PhaseOf(t)   == IF Exists(t) THEN Phase(t) ELSE "Absent"
PooledOf(t)  == Exists(t) /\ NewestTask(t).spec.pooled
GrantedOf(t) == Exists(t) /\ NewestTask(t).granted
OpenedOf(t)  == Exists(t) /\ Opened(t)

Lifecycle == INSTANCE TaskLifecycle WITH
  phase   <- [t \in Tasks |-> PhaseOf(t)],
  pooled  <- [t \in Tasks |-> PooledOf(t)],
  granted <- [t \in Tasks |-> GrantedOf(t)],
  opened  <- [t \in Tasks |-> OpenedOf(t)]

(* Whatever the caches, conflicts and crashes, the task's status moves only *)
(* along the phase diagram, past the pool's gate, and reaches Succeeded     *)
(* only after its merge request was opened (handle* and setPhase).          *)
RefinesLifecycle == Lifecycle!LifecycleSpec

(* "Terminal states, no further reconciliation": once a task is Succeeded   *)
(* or Failed no call still under way, and none on an older cached version,  *)
(* changes anything in its status (updateStatus).                           *)
TerminalIsFinal ==
  [][\A t \in Tasks :
       Exists(t) /\ Phase(t) \in Terminal /\ Exists(t)'
       => NewestTask(t).status' = NewestTask(t).status]_vars

(* The fields of status s fit its phase, and the merge request it claims   *)
(* for incarnation uid of t is there.                                      *)
Consistent(s) ==
  /\ s.phase \in {"Running", "CreatingMR", "Succeeded"} => s.podName
  /\ s.endTime <=> s.phase \in Terminal
  /\ s.mergeRequestURL <=> s.phase = "Succeeded"

Truthful(t, uid, s) ==
  /\ Consistent(s)
  /\ s.phase = "Succeeded" => OpenedFor(t, uid)

(* A task past Initializing names its pod, so that handleRunning and        *)
(* handleDeletion find it; only a task at its end has an end time; a        *)
(* Succeeded one has a URL, of a merge request that the platform opened for *)
(* this very incarnation.                                                   *)
StatusTruthful ==
  \A t \in Tasks : Truthful(t, NewestTask(t).uid, NewestTask(t).status)

(* The agent of one task runs once: stale caches, lost answers and crashes  *)
(* around handleInitializing never make a second pod for it, unless someone *)
(* else deleted the first one.                                              *)
AtMostOneAgentRun ==
  \A t \in Tasks : hist[t].made <= 1 + hist[t].evicted

(* "Running --> CreatingMR : pod succeeded": a task goes on to its merge    *)
(* request only after a pod made for this very task has succeeded.          *)
MRNeedsOwnAgentRun ==
  \A t \in Tasks :
    Exists(t) /\ Phase(t) \in {"CreatingMR", "Succeeded"} => hist[t].succeeded

(* The message of handleRunning, "agent pod was deleted": the pod of the    *)
(* task is not there, or at least is on its way out.                        *)
PodDeletedIsTrue ==
  \A t \in Tasks :
    Exists(t) /\ NewestTask(t).status.message = "podDeleted"
    => ~( /\ NewestPod(t).exists /\ ~NewestPod(t).terminating
          /\ NewestPod(t).owner = NewestTask(t).uid )

(* "CreatingMR --> Succeeded : PR/MR created": a task whose merge request   *)
(* is open has not Failed.                                                  *)
OpenedIsNotFailed ==
  \A t \in Tasks : ~(Exists(t) /\ Opened(t) /\ Phase(t) = "Failed")

(* A task that has its slot (or needs none) comes to an end by itself,      *)
(* whatever its pod does, whichever call fails: handleRunning polls until  *)
(* the timeout.  The only way out is a Running task whose start time was   *)
(* lost (TimeoutEnforced).                                                 *)
TaskTerminates ==
  \A t \in Tasks :
    Exists(t) /\ HasSlot(NewestTask(t))
    ~> \/ ~Exists(t) \/ Phase(t) \in Terminal
       \/ Phase(t) = "Running" /\ ~NewestTask(t).status.startTime

(* "Monitor pod status, enforce timeout": a Running task whose agent has    *)
(* worked for longer than spec.timeout leaves Running.                      *)
TimeoutEnforced ==
  \A t \in Tasks :
    Exists(t) /\ Phase(t) = "Running" /\ NewestTask(t).uid \in overdue[t]
    ~> ~Exists(t) \/ Phase(t) # "Running"

(* A deleted task goes away: errors, conflicts and crashes in               *)
(* handleDeletion never leave it behind with its finalizer.                 *)
DeletionCompletes ==
  \A t \in Tasks : Exists(t) /\ NewestTask(t).deleting ~> ~Exists(t)

(* "Owner references on pods enable automatic cleanup": the pod of a task   *)
(* that is gone goes away too, even when handleDeletion did not know it     *)
(* (no podName yet) or failed to delete it.                                 *)
PodReclaimed ==
  \A t \in Tasks : \A u \in 0..MaxIncarnations :
    /\ NewestPod(t).exists /\ NewestPod(t).owner = u
    /\ ~(Exists(t) /\ NewestTask(t).uid = u)
    ~> ~(NewestPod(t).exists /\ NewestPod(t).owner = u)

-----------------------------------------------------------------------------
(* Why the properties of the status hold.                                  *)

Rank == [p \in Phases |->
  CASE p = "Pending"      -> 0
    [] p = "Initializing" -> 1
    [] p = "Running"      -> 2
    [] p = "CreatingMR"   -> 3
    [] p \in Terminal     -> 4]

(* Version a is older than version b, or is version b; in the life of one  *)
(* incarnation phases only go forward.                                     *)
NotAfter(a, b) ==
  /\ a.rv <= b.rv /\ (a.rv = b.rv => a = b)
  /\ a.uid <= b.uid
  /\ a.uid = b.uid /\ a.exists /\ b.exists
     => Rank[a.status.phase] <= Rank[b.status.phase]

(* The status updates the handlers ask for, as edges of the phase diagram.  *)
Edge(o, to) ==
  \/ o.status.phase = "Pending" /\ to = "Initializing" /\ HasSlot(o)
  \/ o.status.phase = "Initializing" /\ to = "Running"
  \/ o.status.phase = "Running" /\ to = "CreatingMR"
  \/ o.status.phase = "CreatingMR" /\ to = "Succeeded"
  \/ o.status.phase \notin Terminal /\ to = "Failed"

(* The phase of the object a call holds, at the steps of its handlers.     *)
PhaseAt == [pc \in Steps |->
  CASE pc = "pending" -> {"Pending"}
    [] pc \in {"initializing", "createPod"} -> {"Initializing"}
    [] pc \in {"running", "timeout"} -> {"Running"}
    [] pc = "creatingMR" -> {"CreatingMR"}
    [] OTHER -> Phases]

(* Every version on its way to the cache is older than the newest and true. *)
VersionsSound(t) ==
  \A v \in Versions(task[t]) :
    NotAfter(v, NewestTask(t)) /\ Truthful(t, v.uid, v.status)

(* A call works on a version that was the newest once, and the status it is *)
(* about to write follows from it along an edge of the diagram.             *)
CallSound(t) ==
  LET c == rec[t] IN
  c.pc # "idle" =>
    /\ c.obj.exists /\ NotAfter(c.obj, NewestTask(t))
    /\ c.obj.status.phase \in PhaseAt[c.pc]
    /\ Truthful(t, c.obj.uid, c.obj.status)
    /\ c.pc = "updateStatus" =>
         Edge(c.obj, c.status.phase) /\ Truthful(t, c.obj.uid, c.status)

(* Merge requests are of incarnations that there are or have been.         *)
RequestsSound(t) == \A m \in mrs : m.task = t => m.uid <= NewestTask(t).uid

SafetyInvariant ==
  TypeOK /\ \A t \in Tasks : VersionsSound(t) /\ CallSound(t) /\ RequestsSound(t)
=============================================================================
