--------------------------- MODULE AgentTaskProofs ---------------------------
(***************************************************************************)
(* What is proved about AgentTask for every set of tasks, branches and     *)
(* specs, any number of incarnations and faults and any lag of the caches. *)
(***************************************************************************)
EXTENDS AgentTask, WatchedStoreProofs, TLAPS

-----------------------------------------------------------------------------
(* Type correctness: the pieces the actions are made of.                   *)

(* The objects the model starts from, and those it puts where there is     *)
(* nothing, have their types.                                              *)
LEMMA ConstantTypes ==
  /\ NoSpec \in TaskSpec
  /\ NewStatus \in AgentTaskStatus
  /\ NoPod \in PodObject
  /\ \A rv, uid \in Nat : NoTask(rv, uid) \in AgentTaskObject
  <1>1. NoSpec \in TaskSpec
    <2>1. PICK b \in Branches : TRUE
      BY ConstantsAssumption
    <2>2. [valid |-> TRUE, pooled |-> TRUE, apiKeyRef |-> TRUE, gitRef |-> TRUE,
           supported |-> TRUE, branch |-> b] \in TaskSpec
      BY <2>1 DEF TaskSpec
    <2> QED  BY <2>2 DEF NoSpec
  <1>2. NewStatus \in AgentTaskStatus
    BY DEF NewStatus, AgentTaskStatus, Phases, Terminal, Messages
  <1>3. NoPod \in PodObject
    BY <1>1 DEF NoPod, PodObject, PodPhases, TaskSpec
  <1>4. \A rv, uid \in Nat : NoTask(rv, uid) \in AgentTaskObject
    BY <1>1, <1>2 DEF NoTask, AgentTaskObject
  <1> QED  BY <1>1, <1>2, <1>3, <1>4

(* What the API server, the caches and the calls hold has the type of its  *)
(* kind.                                                                   *)
LEMMA NewestTypes ==
  ASSUME TypeOK, NEW t \in Tasks
  PROVE  /\ NewestTask(t) \in AgentTaskObject
         /\ NewestPod(t) \in PodObject
         /\ Cached(task[t]) \in AgentTaskObject
         /\ Cached(pod[t]) \in PodObject
         /\ rec[t].obj \in AgentTaskObject
         /\ rec[t].status \in AgentTaskStatus
  BY WindowEnds DEF TypeOK, NewestTask, NewestPod, ReconcileCall

(* A write of a task (r.Update, r.Status().Update, a user's edit) keeps    *)
(* its window well typed.                                                  *)
LEMMA StoreTaskType ==
  ASSUME TypeOK, NEW t \in Tasks, NEW o \in AgentTaskObject, StoreTask(t, o)
  PROVE  task' \in [Tasks -> Seq(AgentTaskObject) \ {<<>>}]
  <1> DEFINE v == [o EXCEPT !.rv = @ + 1]
  <1>1. v \in AgentTaskObject
    BY DEF AgentTaskObject
  <1>2. Stored(task[t], v) \in Seq(AgentTaskObject) \ {<<>>}
    BY <1>1, WindowSteps DEF TypeOK
  <1>3. task' = [task EXCEPT ![t] = Stored(task[t], v)]
    BY DEF StoreTask
  <1> HIDE DEF v
  <1> QED  BY <1>2, <1>3 DEF TypeOK

(* A write of a pod (r.Create, a report of the kubelet) keeps its window   *)
(* well typed.                                                             *)
LEMMA StorePodType ==
  ASSUME TypeOK, NEW t \in Tasks, NEW p \in PodObject, StorePod(t, p)
  PROVE  pod' \in [Tasks -> Seq(PodObject) \ {<<>>}]
  <1>1. Stored(pod[t], p) \in Seq(PodObject) \ {<<>>}
    BY WindowSteps DEF TypeOK
  <1> QED  BY <1>1 DEF TypeOK, StorePod

(* r.Delete of a pod, which marks it, keeps its window well typed.         *)
LEMMA DeletePodType ==
  ASSUME TypeOK, NEW t \in Tasks, DeletePod(t)
  PROVE  pod' \in [Tasks -> Seq(PodObject) \ {<<>>}]
  <1>1. [NewestPod(t) EXCEPT !.terminating = TRUE] \in PodObject
    BY NewestTypes DEF PodObject
  <1>2. CASE UNCHANGED pod
    BY <1>2 DEF TypeOK
  <1>3. CASE StorePod(t, [NewestPod(t) EXCEPT !.terminating = TRUE])
    BY <1>1, <1>3, StorePodType
  <1> QED  BY <1>2, <1>3 DEF DeletePod

(* The end of a Reconcile call keeps the calls and the work queue well     *)
(* typed.                                                                  *)
LEMMA ReturnType ==
  ASSUME TypeOK, NEW t \in Tasks, NEW requeue \in BOOLEAN, Return(t, requeue)
  PROVE  rec' \in [Tasks -> ReconcileCall] /\ queue' \subseteq Tasks
  <1>1. Idle \in ReconcileCall
    BY ConstantTypes DEF Idle, ReconcileCall, Steps
  <1> QED  BY <1>1 DEF TypeOK, Return

(* Going on to the next API call keeps the calls well typed.               *)
LEMMA GotoType ==
  ASSUME TypeOK, NEW t \in Tasks, NEW s \in Steps, Goto(t, s)
  PROVE  rec' \in [Tasks -> ReconcileCall]
  BY DEF TypeOK, Goto, ReconcileCall

(* setPhase keeps the calls well typed: the status it is about to write is *)
(* an AgentTaskStatus.                                                     *)
LEMMA SetPhaseType ==
  ASSUME TypeOK, NEW t \in Tasks, NEW s \in AgentTaskStatus,
         NEW phase \in Phases, NEW message \in Messages,
         setPhase(t, s, phase, message)
  PROVE  rec' \in [Tasks -> ReconcileCall]
  <1> DEFINE v == [s EXCEPT !.phase = phase, !.message = message]
  <1>1. v \in AgentTaskStatus
    BY DEF AgentTaskStatus
  <1>2. rec' = [rec EXCEPT ![t].pc = "updateStatus", ![t].status = v]
    BY DEF setPhase
  <1> HIDE DEF v
  <1> QED  BY <1>1, <1>2 DEF TypeOK, ReconcileCall, Steps

(* So does setFailed, which writes the declared phase Failed.              *)
LEMMA SetFailedType ==
  ASSUME TypeOK, NEW t \in Tasks, NEW s \in AgentTaskStatus,
         NEW message \in Messages, setFailed(t, s, message)
  PROVE  rec' \in [Tasks -> ReconcileCall]
  <1>1. [s EXCEPT !.endTime = TRUE] \in AgentTaskStatus
    BY DEF AgentTaskStatus
  <1>2. "Failed" \in Phases
    BY DEF Phases, Terminal
  <1> QED  BY <1>1, <1>2, SetPhaseType DEF setFailed

(* Each of the three things noted in the history keeps it well typed.      *)
LEMMA HistoryType ==
  ASSUME TypeOK, NEW t \in Tasks, NEW own \in BOOLEAN,
         \/ hist' = [hist EXCEPT ![t].made = IF own THEN @ + 1 ELSE @]
         \/ hist' = [hist EXCEPT ![t].evicted = IF own THEN @ + 1 ELSE @]
         \/ hist' = [hist EXCEPT ![t].succeeded = @ \/ own]
  PROVE  hist' \in [Tasks -> History]
  <1> DEFINE h == hist[t]
  <1>1. h \in History
    BY DEF TypeOK
  <1>2. /\ [h EXCEPT !.made = IF own THEN @ + 1 ELSE @] \in History
        /\ [h EXCEPT !.evicted = IF own THEN @ + 1 ELSE @] \in History
        /\ [h EXCEPT !.succeeded = @ \/ own] \in History
    <2> HIDE DEF h
    <2> QED  BY <1>1 DEF History
  <1>3. PICK v \in History : hist' = [hist EXCEPT ![t] = v]
    BY <1>2
  <1> QED  BY <1>3 DEF TypeOK

(* The switch at the end of Reconcile sends every phase that is not        *)
(* terminal to a handler.                                                  *)
LEMMA DispatchType ==
  ASSUME TypeOK, NEW t \in Tasks, NEW o \in AgentTaskObject, Dispatch(t, o)
  PROVE  rec' \in [Tasks -> ReconcileCall]
  <1>1. Idle \in ReconcileCall
    BY ConstantTypes DEF Idle, ReconcileCall, Steps
  <1>2. ASSUME o.status.phase \notin Terminal
        PROVE  HandlerOf[o.status.phase] \in Steps
    BY <1>2 DEF HandlerOf, Phases, Terminal, Steps, AgentTaskObject, AgentTaskStatus
  <1>3. o.status \in AgentTaskStatus
    BY DEF AgentTaskObject
  <1> QED  BY <1>1, <1>2, <1>3 DEF TypeOK, Dispatch, ReconcileCall

(* The cluster before the first task is created is well typed.             *)
LEMMA TypeInit == Init => TypeOK
  <1>1. ASSUME Init PROVE TypeOK
    <2>1. NoTask(0, 0) \in AgentTaskObject /\ NoPod \in PodObject
      BY ConstantTypes
    <2>2. <<NoTask(0, 0)>> \in Seq(AgentTaskObject) \ {<<>>}
      BY <2>1
    <2>3. <<NoPod>> \in Seq(PodObject) \ {<<>>}
      BY <2>1
    <2>4. Idle \in ReconcileCall
      BY ConstantTypes DEF Idle, ReconcileCall, Steps
    <2>5. NewHist \in History
      BY DEF NewHist, History
    <2> QED
      BY <1>1, <2>2, <2>3, <2>4, <2>5, ConstantsAssumption DEF Init, TypeOK
  <1> QED  BY <1>1

(* The reconciler's own actions.                                           *)
LEMMA TypeReconcile ==
  ASSUME TypeOK, NEW t \in Tasks, Reconcile(t) \/ ReconcileStep(t) \/ apiCallFails(t)
  PROVE  TypeOK'
  <1> DEFINE o == rec[t].obj
             s == rec[t].obj.status
  <1>0. /\ o \in AgentTaskObject /\ s \in AgentTaskStatus
        /\ o.spec \in TaskSpec /\ o.uid \in Nat /\ rec[t].status \in AgentTaskStatus
    BY NewestTypes DEF AgentTaskObject
  <1>f. ASSUME NEW k, Fault(k) PROVE faults' \in 0..MaxFaults
    BY <1>f, ConstantsAssumption DEF Fault, TypeOK
  <1>1. CASE Reconcile(t)
    <2> DEFINE c == Cached(task[t])
    <2>1. c \in AgentTaskObject /\ c.status \in AgentTaskStatus
      BY NewestTypes DEF AgentTaskObject
    <2>2. ASSUME NEW st \in {"deletion", "finalizer"},
                 rec' = [rec EXCEPT ![t] = [pc |-> st, obj |-> c, status |-> c.status]]
          PROVE  rec' \in [Tasks -> ReconcileCall]
      BY <2>1, <2>2 DEF TypeOK, ReconcileCall, Steps
    <2>3. rec' \in [Tasks -> ReconcileCall]
      BY <1>1, <2>1, <2>2, DispatchType DEF Reconcile, TypeOK
    <2> QED  BY <1>1, <2>3 DEF Reconcile, TypeOK
  <1>2. CASE ensureFinalizer(t)
    <2> DEFINE n == [NewestTask(t) EXCEPT !.finalizer = TRUE]
    <2>a. n \in AgentTaskObject
      BY NewestTypes DEF AgentTaskObject
    <2>b. [n EXCEPT !.rv = @ + 1] \in AgentTaskObject
      <3> HIDE DEF n
      <3> QED  BY <2>a DEF AgentTaskObject
    <2>1. n \in AgentTaskObject /\ [n EXCEPT !.rv = @ + 1] \in AgentTaskObject
      BY <2>a, <2>b
    <2>2. CASE StoreTask(t, n) /\ Dispatch(t, [n EXCEPT !.rv = @ + 1]) /\ UNCHANGED queue
      BY <1>2, <2>1, <2>2, StoreTaskType, DispatchType DEF ensureFinalizer, TypeOK
    <2>3. CASE Return(t, TRUE) /\ UNCHANGED task
      BY <1>2, <2>3, ReturnType DEF ensureFinalizer, TypeOK
    <2> QED  BY <1>2, <2>2, <2>3 DEF ensureFinalizer
  <1>3. CASE handlePending(t)
    <2>1. {"invalidSpec", "apiKeyNotFound", "validated"} \subseteq Messages
          /\ "Initializing" \in Phases
      BY DEF Messages, Phases
    <2>2. CASE setFailed(t, s, "invalidSpec") /\ UNCHANGED <<queue, faults>>
      BY <1>3, <1>0, <2>1, <2>2, SetFailedType DEF handlePending, TypeOK
    <2>3. CASE Return(t, TRUE) /\ UNCHANGED faults
      BY <1>3, <2>3, ReturnType DEF handlePending, TypeOK
    <2>4. CASE setPhase(t, s, "Initializing", "validated") /\ UNCHANGED <<queue, faults>>
      BY <1>3, <1>0, <2>1, <2>4, SetPhaseType DEF handlePending, TypeOK
    <2>5. CASE Fault("secret") /\ setFailed(t, s, "apiKeyNotFound") /\ UNCHANGED queue
      BY <1>3, <1>0, <1>f, <2>1, <2>5, SetFailedType DEF handlePending, TypeOK
    <2> QED  BY <1>3, <2>2, <2>3, <2>4, <2>5 DEF handlePending
  <1>4. CASE handleInitializing(t)
    <2>1. "podRunning" \in Messages /\ "Running" \in Phases /\ "createPod" \in Steps
      BY DEF Messages, Phases, Steps
    <2>2. [s EXCEPT !.podName = TRUE] \in AgentTaskStatus
      BY <1>0 DEF AgentTaskStatus
    <2>3. rec' \in [Tasks -> ReconcileCall]
      BY <1>4, <2>1, <2>2, SetPhaseType, GotoType DEF handleInitializing
    <2> QED  BY <1>4, <2>3 DEF handleInitializing, TypeOK
  <1>5. CASE createPod(t)
    <2>1. {"podCreated", "podRunning"} \subseteq Messages /\ "Running" \in Phases
      BY DEF Messages, Phases
    <2>2. /\ [s EXCEPT !.podName = TRUE] \in AgentTaskStatus
          /\ [s EXCEPT !.podName = TRUE, !.startTime = TRUE, !.branchName = o.spec.branch]
                \in AgentTaskStatus
      BY <1>0 DEF AgentTaskStatus, TaskSpec
    <2>3. BuiltPod(o) \in PodObject
      BY <1>0 DEF BuiltPod, PodObject, PodPhases, TaskSpec
    <2>4. rec' \in [Tasks -> ReconcileCall] /\ queue' \subseteq Tasks /\ faults' \in 0..MaxFaults
      BY <1>5, <1>f, <2>1, <2>2, SetPhaseType, ReturnType DEF createPod, TypeOK
    <2>5. /\ pod' \in [Tasks -> Seq(PodObject) \ {<<>>}]
          /\ overdue' \in [Tasks -> SUBSET Nat] /\ hist' \in [Tasks -> History]
      <3>1. CASE UNCHANGED <<pod, overdue, hist>>
        BY <3>1 DEF TypeOK
      <3>2. CASE /\ StorePod(t, BuiltPod(o))
                 /\ overdue' = [overdue EXCEPT ![t] = @ \ {o.uid}]
                 /\ hist' = [hist EXCEPT ![t].made =
                               IF o.uid = NewestTask(t).uid THEN @ + 1 ELSE @]
        <4>1. pod' \in [Tasks -> Seq(PodObject) \ {<<>>}]
          BY <3>2, <2>3, StorePodType
        <4>2. overdue' \in [Tasks -> SUBSET Nat]
          BY <3>2 DEF TypeOK
        <4>3. hist' \in [Tasks -> History]
          BY <3>2, HistoryType
        <4> QED  BY <4>1, <4>2, <4>3
      <3> QED  BY <1>5, <3>1, <3>2 DEF createPod
    <2> QED  BY <1>5, <2>4, <2>5 DEF createPod, TypeOK
  <1>6. CASE handleRunning(t)
    <2>1. /\ {"podDeleted", "noPodName", "agentCompleted", "podFailed"} \subseteq Messages
          /\ "CreatingMR" \in Phases /\ "timeout" \in Steps
      BY DEF Messages, Phases, Steps
    <2>2. rec' \in [Tasks -> ReconcileCall] /\ queue' \subseteq Tasks
      BY <1>6, <1>0, <2>1, SetFailedType, SetPhaseType, GotoType, ReturnType
      DEF handleRunning, TypeOK
    <2> QED  BY <1>6, <2>2 DEF handleRunning, TypeOK
  <1>7. CASE deleteTimedOutPod(t)
    <2>1. "timedOut" \in Messages
      BY DEF Messages
    <2>2. rec' \in [Tasks -> ReconcileCall]
      BY <1>7, <1>0, <2>1, SetFailedType DEF deleteTimedOutPod
    <2>3. pod' \in [Tasks -> Seq(PodObject) \ {<<>>}] /\ faults' \in 0..MaxFaults
      BY <1>7, <1>f, DeletePodType DEF deleteTimedOutPod, TypeOK
    <2> QED  BY <1>7, <2>2, <2>3 DEF deleteTimedOutPod, TypeOK
  <1>8. CASE handleCreatingMR(t)
    <2>1. {"mrCreated", "mrFailed", "gitCredentials"} \subseteq Messages /\ "Succeeded" \in Phases
      BY DEF Messages, Phases, Terminal
    <2>2. [s EXCEPT !.mergeRequestURL = TRUE, !.endTime = TRUE] \in AgentTaskStatus
      BY <1>0 DEF AgentTaskStatus
    <2>3. SourceBranch(o) \in Branches
      BY <1>0 DEF SourceBranch, TaskSpec, AgentTaskStatus
    <2>4. rec' \in [Tasks -> ReconcileCall]
      BY <1>8, <1>0, <2>1, <2>2, SetFailedType, SetPhaseType DEF handleCreatingMR
    <2>5. mrs' \subseteq MergeRequest
      BY <1>8, <1>0, <2>3 DEF handleCreatingMR, TypeOK, MergeRequest
    <2>6. faults' \in 0..MaxFaults
      BY <1>8, <1>f DEF handleCreatingMR, TypeOK
    <2> QED  BY <1>8, <2>4, <2>5, <2>6 DEF handleCreatingMR, TypeOK
  <1>9. CASE handleDeletion(t)
    <2>1. "removeFinalizer" \in Steps
      BY DEF Steps
    <2>2. pod' \in [Tasks -> Seq(PodObject) \ {<<>>}] /\ faults' \in 0..MaxFaults
      BY <1>9, <1>f, DeletePodType DEF handleDeletion, TypeOK
    <2>3. rec' \in [Tasks -> ReconcileCall]
      BY <1>9, <2>1, GotoType DEF handleDeletion
    <2> QED  BY <1>9, <2>2, <2>3 DEF handleDeletion, TypeOK
  <1>10. CASE removeFinalizer(t)
    <2>1. NoTask(NewestTask(t).rv, NewestTask(t).uid) \in AgentTaskObject
      BY NewestTypes, ConstantTypes DEF AgentTaskObject
    <2>2. task' \in [Tasks -> Seq(AgentTaskObject) \ {<<>>}]
      BY <1>10, <2>1, StoreTaskType DEF removeFinalizer, TypeOK
    <2>3. rec' \in [Tasks -> ReconcileCall] /\ queue' \subseteq Tasks
      BY <1>10, ReturnType DEF removeFinalizer
    <2> QED  BY <1>10, <2>2, <2>3 DEF removeFinalizer, TypeOK
  <1>11. CASE updateStatus(t)
    <2>1. [NewestTask(t) EXCEPT !.status = rec[t].status] \in AgentTaskObject
      BY NewestTypes DEF AgentTaskObject
    <2>2. task' \in [Tasks -> Seq(AgentTaskObject) \ {<<>>}]
      BY <1>11, <2>1, StoreTaskType DEF updateStatus, TypeOK
    <2>3. rec' \in [Tasks -> ReconcileCall] /\ queue' \subseteq Tasks
      BY <1>11, ReturnType DEF updateStatus
    <2> QED  BY <1>11, <2>2, <2>3 DEF updateStatus, TypeOK
  <1>12. CASE apiCallFails(t)
    <2>1. rec' \in [Tasks -> ReconcileCall] /\ queue' \subseteq Tasks /\ faults' \in 0..MaxFaults
      BY <1>12, <1>f, ReturnType DEF apiCallFails
    <2> QED  BY <1>12, <2>1 DEF apiCallFails, TypeOK
  <1> QED
    BY <1>1, <1>2, <1>3, <1>4, <1>5, <1>6, <1>7, <1>8, <1>9, <1>10, <1>11, <1>12
    DEF ReconcileStep

(* The informers, a crash, and everybody else.                             *)
LEMMA TypeEnvironment ==
  ASSUME TypeOK, NEW t \in Tasks, SyncTask(t) \/ SyncPod(t) \/ Environment(t)
  PROVE  TypeOK'
  <1> DEFINE n == NewestTask(t)
             p == NewestPod(t)
             TaskTyped == task' \in [Tasks -> Seq(AgentTaskObject) \ {<<>>}]
             PodTyped  == pod' \in [Tasks -> Seq(PodObject) \ {<<>>}]
  <1>0. n \in AgentTaskObject /\ p \in PodObject
    BY NewestTypes
  <1>f. ASSUME NEW k, Fault(k) PROVE faults' \in 0..MaxFaults
    BY <1>f, ConstantsAssumption DEF Fault, TypeOK
  <1>1. CASE SyncTask(t)
    <2>1. Delivered(task[t]) \in Seq(AgentTaskObject) \ {<<>>}
      BY <1>1, <1>0, WindowSteps DEF SyncTask, TypeOK
    <2> QED  BY <1>1, <2>1 DEF SyncTask, TypeOK
  <1>2. CASE SyncPod(t)
    <2>1. Delivered(pod[t]) \in Seq(PodObject) \ {<<>>}
      BY <1>2, <1>0, WindowSteps DEF SyncPod, TypeOK
    <2> QED  BY <1>2, <2>1 DEF SyncPod, TypeOK
  <1>3. CASE CreateTask(t)
    <2> DEFINE g == NoTask(n.rv, n.uid + 1)
    <2>1. PICK s \in Specs : StoreTask(t, [g EXCEPT !.exists = TRUE, !.spec = s])
      BY <1>3 DEF CreateTask
    <2>2. [g EXCEPT !.exists = TRUE, !.spec = s] \in AgentTaskObject
      <3>1. g \in AgentTaskObject
        <4>1. n.rv \in Nat /\ n.uid + 1 \in Nat
          BY <1>0 DEF AgentTaskObject
        <4> QED  BY <4>1, ConstantTypes
      <3> HIDE DEF g
      <3> QED  BY <3>1, ConstantsAssumption DEF AgentTaskObject
    <2>3. TaskTyped
      BY <2>1, <2>2, StoreTaskType
    <2>4. hist' \in [Tasks -> History]
      BY <1>3 DEF CreateTask, TypeOK, NewHist, History
    <2> QED  BY <1>3, <2>3, <2>4 DEF CreateTask, TypeOK
  <1>4. CASE DeleteTask(t)
    <2>1. [n EXCEPT !.deleting = TRUE] \in AgentTaskObject
      BY <1>0 DEF AgentTaskObject
    <2>2. NoTask(n.rv, n.uid) \in AgentTaskObject
      BY <1>0, ConstantTypes DEF AgentTaskObject
    <2>3. TaskTyped
      BY <1>4, <2>1, <2>2, StoreTaskType DEF DeleteTask
    <2> QED  BY <1>4, <2>3 DEF DeleteTask, TypeOK
  <1>5. CASE EditTask(t)
    <2>1. PICK s \in Specs : StoreTask(t, [n EXCEPT !.spec = s])
      BY <1>5 DEF EditTask
    <2>2. [n EXCEPT !.spec = s] \in AgentTaskObject
      BY <1>0, ConstantsAssumption DEF AgentTaskObject
    <2>3. TaskTyped /\ faults' \in 0..MaxFaults
      BY <1>5, <1>f, <2>1, <2>2, StoreTaskType DEF EditTask
    <2> QED  BY <1>5, <2>3 DEF EditTask, TypeOK
  <1>6. CASE GrantSlot(t)
    <2>1. [n EXCEPT !.granted = TRUE] \in AgentTaskObject
      BY <1>0 DEF AgentTaskObject
    <2>2. TaskTyped
      BY <1>6, <2>1, StoreTaskType DEF GrantSlot
    <2> QED  BY <1>6, <2>2 DEF GrantSlot, TypeOK
  <1>7. ASSUME NEW ph \in PodPhases, PodReports(t, ph)
        PROVE  PodTyped
    <2>1. [p EXCEPT !.phase = ph] \in PodObject
      BY <1>0 DEF PodObject
    <2> QED  BY <1>7, <2>1, StorePodType DEF PodReports
  <1>8. CASE PodStarts(t)
    <2>1. PodTyped
      BY <1>8, <1>7 DEF PodStarts, PodPhases
    <2> QED  BY <1>8, <2>1 DEF PodStarts, PodReports, TypeOK
  <1>b. p.branch \in Branches
    BY <1>0 DEF PodObject
  <1>9. CASE PodSucceeds(t)
    <2>1. PodTyped
      BY <1>9, <1>7 DEF PodSucceeds, PodPhases
    <2>2. hist' \in [Tasks -> History]
      BY <1>9, HistoryType DEF PodSucceeds
    <2> QED  BY <1>9, <1>b, <2>1, <2>2 DEF PodSucceeds, PodReports, TypeOK
  <1>10. CASE PodFails(t)
    <2>1. PodTyped
      BY <1>10, <1>7 DEF PodFails, PodPhases
    <2> QED  BY <1>10, <1>b, <2>1 DEF PodFails, PodReports, TypeOK
  <1>11. CASE PodRemoved(t)
    <2>1. PodTyped
      BY <1>11, ConstantTypes, StorePodType DEF PodRemoved
    <2> QED  BY <1>11, <2>1 DEF PodRemoved, TypeOK
  <1>12. CASE CollectPod(t)
    <2>1. PodTyped
      BY <1>12, DeletePodType DEF CollectPod
    <2> QED  BY <1>12, <2>1 DEF CollectPod, TypeOK
  <1>13. CASE EvictPod(t)
    <2>1. PodTyped /\ faults' \in 0..MaxFaults
      BY <1>13, <1>f, DeletePodType DEF EvictPod
    <2>2. hist' \in [Tasks -> History]
      BY <1>13, HistoryType DEF EvictPod
    <2> QED  BY <1>13, <2>1, <2>2 DEF EvictPod, TypeOK
  <1>14. CASE Expire(t)
    <2>1. p.owner \in Nat
      BY <1>0 DEF PodObject
    <2> QED  BY <1>14, <2>1 DEF Expire, TypeOK
  <1> QED
    BY <1>1, <1>2, <1>3, <1>4, <1>5, <1>6, <1>8, <1>9, <1>10, <1>11, <1>12, <1>13, <1>14
    DEF Environment

(* A restart of the operator keeps the types: relisted caches hold         *)
(* versions the API server has.                                            *)
LEMMA TypeCrash ==
  ASSUME TypeOK, Crash
  PROVE  TypeOK'
  <1>1. faults' \in 0..MaxFaults
    BY ConstantsAssumption DEF Crash, Fault, TypeOK
  <1>2. Idle \in ReconcileCall
    BY ConstantTypes DEF Idle, ReconcileCall, Steps
  <1>3. ASSUME NEW t \in Tasks
        PROVE  /\ Relisted(task[t]) \in Seq(AgentTaskObject) \ {<<>>}
               /\ Relisted(pod[t]) \in Seq(PodObject) \ {<<>>}
    BY NewestTypes, WindowSteps DEF TypeOK
  <1> QED  BY <1>1, <1>2, <1>3 DEF Crash, TypeOK

(* Every variable keeps its type, in every behaviour of the reconciler and *)
(* its environment.                                                        *)
THEOREM TypeCorrect == Spec => []TypeOK
  <1>1. Init => TypeOK
    BY TypeInit
  <1>2. TypeOK /\ [Next]_vars => TypeOK'
    <2>1. ASSUME TypeOK, UNCHANGED vars PROVE TypeOK'
      BY <2>1 DEF vars, TypeOK
    <2> QED  BY <2>1, TypeReconcile, TypeEnvironment, TypeCrash DEF Next
  <1> QED  BY <1>1, <1>2, PTL DEF Spec

-----------------------------------------------------------------------------
(* The safety invariant.                                                   *)

(* What is true of a version stays true: merge requests are never closed.  *)
LEMMA TruthfulStays ==
  ASSUME mrs \subseteq mrs', NEW t, NEW uid, NEW s, Truthful(t, uid, s)
  PROVE  Truthful(t, uid, s)'
  BY DEF Truthful, OpenedFor

(* The status of a task that no handler has touched claims nothing.        *)
LEMMA NewStatusTruthful ==
  ASSUME NEW t, NEW uid
  PROVE  Truthful(t, uid, NewStatus)
  <1>1. /\ NewStatus.phase = "Pending" /\ NewStatus.endTime = FALSE
        /\ NewStatus.mergeRequestURL = FALSE
    BY DEF NewStatus
  <1>2. /\ "Pending" \notin Terminal /\ "Pending" # "Succeeded"
        /\ "Pending" \notin {"Running", "CreatingMR", "Succeeded"}
    BY DEF Terminal
  <1>3. NewStatus.endTime <=> NewStatus.phase \in Terminal
    BY <1>1, <1>2
  <1>4. NewStatus.mergeRequestURL <=> NewStatus.phase = "Succeeded"
    BY <1>1, <1>2
  <1>5. /\ NewStatus.phase \notin {"Running", "CreatingMR", "Succeeded"}
        /\ NewStatus.phase # "Succeeded"
    BY <1>1, <1>2
  <1> QED  BY <1>3, <1>4, <1>5 DEF Truthful, Consistent

(* The ranks of phases are numbers.                                        *)
LEMMA RankType == Rank \in [Phases -> 0..4]
  BY DEF Rank, Phases, Terminal

(* What the next version m of a task may be after version n: it is of a    *)
(* later incarnation, or a removal, or does not go back in the phases.     *)
MayFollow(n, m) ==
  /\ n.uid <= m.uid
  /\ m.uid = n.uid /\ m.exists
     => n.exists /\ Rank[n.status.phase] <= Rank[m.status.phase]

(* Versions stay behind the newest one as it moves on.                     *)
LEMMA NotAfterStays ==
  ASSUME NEW a \in AgentTaskObject, NEW n \in AgentTaskObject,
         NEW m \in AgentTaskObject,
         NotAfter(a, n), n = m \/ (m.rv = n.rv + 1 /\ MayFollow(n, m))
  PROVE  NotAfter(a, m)
  <1>1. CASE n = m
    BY <1>1
  <1>2. CASE m.rv = n.rv + 1 /\ MayFollow(n, m)
    <2>1. /\ a.rv \in Nat /\ n.rv \in Nat /\ a.uid \in Nat /\ n.uid \in Nat /\ m.uid \in Nat
      BY DEF AgentTaskObject
    <2>2. a.status.phase \in Phases /\ n.status.phase \in Phases /\ m.status.phase \in Phases
      BY DEF AgentTaskObject, AgentTaskStatus
    <2> DEFINE ra == Rank[a.status.phase]
               rn == Rank[n.status.phase]
               rm == Rank[m.status.phase]
    <2>3. ra \in 0..4 /\ rn \in 0..4 /\ rm \in 0..4
      BY <2>2, RankType
    <2>4. a.rv <= m.rv /\ a.rv # m.rv /\ a.uid <= m.uid
      BY <1>2, <2>1 DEF NotAfter, MayFollow
    <2>5. ASSUME a.uid = m.uid, a.exists, m.exists PROVE ra <= rm
      <3>1. n.uid = m.uid /\ a.uid = n.uid
        BY <1>2, <2>1, <2>5 DEF NotAfter, MayFollow
      <3>2. ra <= rn /\ rn <= rm
        BY <1>2, <2>5, <3>1 DEF NotAfter, MayFollow
      <3> HIDE DEF ra, rn, rm
      <3> QED  BY <2>3, <3>2
    <2> QED  BY <2>4, <2>5 DEF NotAfter
  <1> QED  BY <1>1, <1>2

(* Every version is as old as itself.                                      *)
LEMMA NotAfterItself ==
  ASSUME NEW a \in AgentTaskObject
  PROVE  NotAfter(a, a)
  <1>1. a.rv \in Nat /\ a.uid \in Nat /\ Rank[a.status.phase] \in 0..4
    BY RankType DEF AgentTaskObject, AgentTaskStatus
  <1> QED  BY <1>1 DEF NotAfter

(* The newest version of every task stays or is followed by another one.   *)
Advances(t) ==
  \/ NewestTask(t)' = NewestTask(t)
  \/ NewestTask(t)'.rv = NewestTask(t).rv + 1 /\ MayFollow(NewestTask(t), NewestTask(t)')

(* A step that leaves the windows of tasks as they are.                    *)
LEMMA SameVersions ==
  ASSUME SafetyInvariant, UNCHANGED task, mrs \subseteq mrs', NEW t \in Tasks
  PROVE  VersionsSound(t)' /\ Advances(t)
  BY TruthfulStays DEF SafetyInvariant, VersionsSound, NewestTask, Advances

(* A step that only shortens windows.                                      *)
LEMMA FewerVersions ==
  ASSUME SafetyInvariant, UNCHANGED mrs, NEW t \in Tasks,
         \/ task'[t] = task[t]
         \/ Lagging(task[t]) /\ task'[t] = Delivered(task[t])
         \/ task'[t] = Relisted(task[t])
  PROVE  VersionsSound(t)' /\ Advances(t)
  <1>1. task[t] \in Seq(AgentTaskObject) \ {<<>>} /\ Current(task[t]) \in AgentTaskObject
    BY WindowEnds DEF SafetyInvariant, TypeOK
  <1>2. Current(task'[t]) = Current(task[t]) /\ Versions(task'[t]) \subseteq Versions(task[t])
    BY <1>1, WindowVersions
  <1>3. \A v \in Versions(task'[t]) : Truthful(t, v.uid, v.status)'
    BY <1>2, TruthfulStays DEF SafetyInvariant, VersionsSound
  <1> QED  BY <1>2, <1>3 DEF SafetyInvariant, VersionsSound, NewestTask, Advances

(* A step that writes a new version of t.                                  *)
LEMMA NewVersion ==
  ASSUME SafetyInvariant, UNCHANGED mrs, NEW t \in Tasks, NEW o \in AgentTaskObject,
         StoreTask(t, o), o.rv = NewestTask(t).rv, MayFollow(NewestTask(t), o),
         Truthful(t, o.uid, o.status)
  PROVE  /\ NewestTask(t)' = [o EXCEPT !.rv = @ + 1]
         /\ \A u \in Tasks : VersionsSound(u)' /\ Advances(u)
  <1> DEFINE v == [o EXCEPT !.rv = @ + 1]
             w == task[t]
             n == NewestTask(t)
  <1>1. /\ v \in AgentTaskObject /\ v.rv = n.rv + 1 /\ v.uid = o.uid /\ v.status = o.status
        /\ w \in Seq(AgentTaskObject) \ {<<>>} /\ n \in AgentTaskObject
    <2>1. w \in Seq(AgentTaskObject) \ {<<>>} /\ n \in AgentTaskObject
      BY NewestTypes DEF SafetyInvariant, TypeOK
    <2>2. v \in AgentTaskObject /\ v.rv = o.rv + 1 /\ v.uid = o.uid /\ v.status = o.status
      BY DEF AgentTaskObject
    <2> QED  BY <2>1, <2>2
  <1>2. task' = [task EXCEPT ![t] = Stored(w, v)]
    BY DEF StoreTask
  <1>3. task'[t] = Stored(w, v) /\ \A u \in Tasks : u # t => task'[u] = task[u]
    BY <1>2 DEF SafetyInvariant, TypeOK
  <1>4. NewestTask(t)' = v
    BY <1>1, <1>3, WindowVersions DEF NewestTask
  <1>5. Versions(w) \subseteq AgentTaskObject
    BY <1>1, WindowVersions
  <1>f. MayFollow(n, v)
    <2>1. v.exists = o.exists /\ MayFollow(n, o)
      BY DEF AgentTaskObject
    <2> HIDE DEF n, v
    <2> QED  BY <1>1, <2>1 DEF MayFollow
  <1>6. VersionsSound(t)'
    <2> SUFFICES ASSUME NEW x \in Versions(task'[t])
                 PROVE  NotAfter(x, v) /\ Truthful(t, x.uid, x.status)'
      BY <1>4 DEF VersionsSound
    <2>1. x = v \/ x \in Versions(w)
      BY <1>1, <1>3, WindowVersions
    <2>2. CASE x = v
      <3>1. NotAfter(x, v)
        BY <1>1, <2>2, NotAfterItself
      <3>2. Truthful(t, x.uid, x.status)
        BY <1>1, <2>2
      <3> QED  BY <3>1, <3>2, TruthfulStays
    <2>3. CASE x \in Versions(w)
      <3>1. NotAfter(x, n) /\ Truthful(t, x.uid, x.status) /\ x \in AgentTaskObject
        BY <2>3, <1>5 DEF SafetyInvariant, VersionsSound
      <3> HIDE DEF v, n
      <3> QED  BY <1>1, <1>f, <3>1, NotAfterStays, TruthfulStays
    <2> QED  BY <2>1, <2>2, <2>3
  <1>7. ASSUME NEW u \in Tasks, u # t PROVE VersionsSound(u)' /\ Advances(u)
    BY <1>3, <1>7, FewerVersions
  <1>8. Advances(t)
    BY <1>1, <1>4, <1>f DEF Advances
  <1> QED  BY <1>4, <1>6, <1>7, <1>8

(* The call under way for t, after each of the things an action does to it. *)
LEMMA CallStays ==
  ASSUME SafetyInvariant, TypeOK', mrs \subseteq mrs', NEW t \in Tasks,
         Advances(t), rec'[t] = rec[t]
  PROVE  CallSound(t)'
  <1>1. /\ rec[t].obj \in AgentTaskObject /\ NewestTask(t) \in AgentTaskObject
        /\ NewestTask(t)' \in AgentTaskObject
    BY NewestTypes, WindowEnds DEF SafetyInvariant, TypeOK, NewestTask
  <1>2. CallSound(t)
    BY DEF SafetyInvariant
  <1>3. NotAfter(rec[t].obj, NewestTask(t)) => NotAfter(rec[t].obj, NewestTask(t)')
    BY <1>1, NotAfterStays DEF Advances
  <1> QED  BY <1>2, <1>3, TruthfulStays DEF CallSound

(* A call that returned writes nothing any more.                           *)
LEMMA IdleSound ==
  ASSUME SafetyInvariant, NEW t \in Tasks, rec' = [rec EXCEPT ![t] = Idle]
  PROVE  CallSound(t)'
  BY DEF SafetyInvariant, TypeOK, CallSound, Idle

(* A call that goes on in a step of the same handler still works on a      *)
(* version that was the newest once, even when the newest has moved on.    *)
LEMMA GotoSound ==
  ASSUME SafetyInvariant, TypeOK', mrs \subseteq mrs', NEW t \in Tasks,
         Advances(t), NEW s \in Steps, Goto(t, s), rec[t].pc # "idle",
         s # "updateStatus", PhaseAt[rec[t].pc] \subseteq PhaseAt[s]
  PROVE  CallSound(t)'
  <1>1. /\ rec[t].obj \in AgentTaskObject /\ NewestTask(t) \in AgentTaskObject
        /\ NewestTask(t)' \in AgentTaskObject
    BY NewestTypes, WindowEnds DEF SafetyInvariant, TypeOK, NewestTask
  <1>2. CallSound(t)
    BY DEF SafetyInvariant
  <1>3. NotAfter(rec[t].obj, NewestTask(t)')
    BY <1>1, <1>2, NotAfterStays DEF Advances, CallSound
  <1>4. rec'[t].obj = rec[t].obj /\ rec'[t].pc = s
    BY DEF Goto, SafetyInvariant, TypeOK, ReconcileCall
  <1> QED  BY <1>2, <1>3, <1>4, TruthfulStays DEF CallSound

(* A call about to write a status with an edge of the phase diagram and    *)
(* fields that fit the new phase is sound.                                 *)
LEMMA SetPhaseSound ==
  ASSUME SafetyInvariant, TypeOK', mrs \subseteq mrs', NEW t \in Tasks, Advances(t),
         NEW s, NEW phase, NEW message, setPhase(t, s, phase, message),
         rec[t].pc # "idle", Edge(rec[t].obj, phase),
         s \in AgentTaskStatus,
         Consistent([s EXCEPT !.phase = phase, !.message = message]),
         phase = "Succeeded" => \E m \in mrs' : m.task = t /\ m.uid = rec[t].obj.uid
  PROVE  CallSound(t)'
  <1> DEFINE v == [s EXCEPT !.phase = phase, !.message = message]
  <1>1. /\ rec[t].obj \in AgentTaskObject /\ NewestTask(t) \in AgentTaskObject
        /\ NewestTask(t)' \in AgentTaskObject
    BY NewestTypes, WindowEnds DEF SafetyInvariant, TypeOK, NewestTask
  <1>2. CallSound(t)
    BY DEF SafetyInvariant
  <1>3. NotAfter(rec[t].obj, NewestTask(t)')
    BY <1>1, <1>2, NotAfterStays DEF Advances, CallSound
  <1>4. rec'[t].obj = rec[t].obj /\ rec'[t].pc = "updateStatus" /\ rec'[t].status = v
    BY DEF setPhase, SafetyInvariant, TypeOK, ReconcileCall
  <1>5. v.phase = phase
    BY DEF AgentTaskStatus
  <1>6. rec[t].obj.status.phase \in PhaseAt["updateStatus"]
    BY <1>1 DEF PhaseAt, Steps, AgentTaskObject, AgentTaskStatus
  <1>7. Consistent(v) /\ (phase = "Succeeded" =>
                            \E m \in mrs' : m.task = t /\ m.uid = rec'[t].obj.uid)
    BY <1>4
  <1> HIDE DEF v
  <1>8. Truthful(t, rec[t].obj.uid, rec[t].status)'
    BY <1>4, <1>5, <1>7 DEF Truthful, Consistent, OpenedFor
  <1>9. Truthful(t, rec[t].obj.uid, rec[t].obj.status)'
    BY <1>2, <1>4, TruthfulStays DEF CallSound
  <1>10. Edge(rec[t].obj, rec[t].status.phase)'
    BY <1>4, <1>5 DEF Edge, HasSlot
  <1> QED  BY <1>2, <1>3, <1>4, <1>6, <1>8, <1>9, <1>10 DEF CallSound

(* setFailed from any phase that is not terminal is such a write.          *)
LEMMA SetFailedSound ==
  ASSUME SafetyInvariant, TypeOK', mrs \subseteq mrs', NEW t \in Tasks, Advances(t),
         NEW message, setFailed(t, rec[t].obj.status, message),
         rec[t].pc # "idle", rec[t].obj.status.phase \notin Terminal
  PROVE  CallSound(t)'
  <1> DEFINE s == [rec[t].obj.status EXCEPT !.endTime = TRUE]
  <1>1. rec[t].obj.status \in AgentTaskStatus
    BY NewestTypes DEF SafetyInvariant, AgentTaskObject
  <1>2. rec[t].obj.status.mergeRequestURL = FALSE
    BY DEF SafetyInvariant, CallSound, Truthful, Consistent, Terminal
  <1>3. s \in AgentTaskStatus /\ s.endTime = TRUE /\ s.mergeRequestURL = FALSE
    BY <1>1, <1>2 DEF AgentTaskStatus
  <1>4. Consistent([s EXCEPT !.phase = "Failed", !.message = message])
    <2> HIDE DEF s
    <2> QED  BY <1>3 DEF Consistent, AgentTaskStatus, Terminal
  <1>5. Edge(rec[t].obj, "Failed")
    BY DEF Edge
  <1>6. setPhase(t, s, "Failed", message)
    BY DEF setFailed
  <1> HIDE DEF s
  <1> QED  BY <1>3, <1>4, <1>5, <1>6, SetPhaseSound

(* The handler that the switch in Reconcile chooses fits the phase of the  *)
(* object read.                                                            *)
LEMMA DispatchSound ==
  ASSUME SafetyInvariant, TypeOK', NEW t \in Tasks, NEW o \in AgentTaskObject,
         Dispatch(t, o), o.exists, NotAfter(o, NewestTask(t)'),
         mrs \subseteq mrs', Truthful(t, o.uid, o.status)
  PROVE  CallSound(t)'
  <1>1. CASE o.status.phase \in Terminal
    BY <1>1, IdleSound DEF Dispatch
  <1>2. CASE o.status.phase \notin Terminal
    <2> DEFINE h == HandlerOf[o.status.phase]
    <2>1. o.status.phase \in PhaseAt[h] /\ h # "updateStatus"
      BY <1>2 DEF HandlerOf, PhaseAt, Steps, Phases, Terminal, AgentTaskObject,
                  AgentTaskStatus
    <2>2. rec'[t] = [pc |-> h, obj |-> o, status |-> o.status]
      BY <1>2 DEF Dispatch, SafetyInvariant, TypeOK
    <2> HIDE DEF h
    <2>3. Truthful(t, rec[t].obj.uid, rec[t].obj.status)'
      BY <2>2 DEF Truthful, OpenedFor, Consistent
    <2> QED  BY <2>1, <2>2, <2>3 DEF CallSound
  <1> QED  BY <1>1, <1>2

(* What a step for one task has to show.                                   *)
Kept(t) ==
  /\ mrs \subseteq mrs'
  /\ \A m \in mrs' \ mrs : m.task = t /\ m.uid <= NewestTask(t).uid
  /\ \A u \in Tasks : VersionsSound(u)' /\ Advances(u)
  /\ \A u \in Tasks : u # t => rec'[u] = rec[u]
  /\ CallSound(t)'

(* A step for t that keeps Kept(t) keeps the safety invariant.             *)
LEMMA KeptSuffices ==
  ASSUME SafetyInvariant, TypeOK', NEW t \in Tasks, Kept(t)
  PROVE  SafetyInvariant'
  <1>1. ASSUME NEW u \in Tasks, u # t PROVE CallSound(u)'
    BY <1>1, CallStays DEF Kept
  <1>2. ASSUME NEW u \in Tasks PROVE RequestsSound(u)'
    <2>1. NewestTask(u).uid \in Nat /\ NewestTask(u)'.uid \in Nat
      BY NewestTypes, WindowEnds DEF SafetyInvariant, TypeOK, NewestTask, AgentTaskObject
    <2>2. NewestTask(u).uid <= NewestTask(u)'.uid
      BY <2>1 DEF Kept, Advances, MayFollow
    <2>3. \A m \in mrs' : m.task = u => m.uid \in Nat /\ m.uid <= NewestTask(u).uid
      BY DEF Kept, SafetyInvariant, RequestsSound, TypeOK, MergeRequest
    <2> QED  BY <2>1, <2>2, <2>3 DEF RequestsSound
  <1> QED  BY <1>1, <1>2 DEF Kept, SafetyInvariant

(* Only the call of t changes, and it ends up sound.                       *)
LEMMA CallOnly ==
  ASSUME SafetyInvariant, TypeOK', NEW t \in Tasks, UNCHANGED task, mrs \subseteq mrs',
         \A m \in mrs' \ mrs : m.task = t /\ m.uid <= NewestTask(t).uid,
         \A u \in Tasks : u # t => rec'[u] = rec[u], CallSound(t)'
  PROVE  Kept(t)
  BY SameVersions DEF Kept

(* Every step of the reconciler keeps the safety invariant; one named step *)
(* for each handler.                                                       *)
LEMMA SafeReconcile ==
  ASSUME SafetyInvariant, TypeOK', NEW t \in Tasks,
         Reconcile(t) \/ ReconcileStep(t) \/ apiCallFails(t)
  PROVE  Kept(t)
  <1> DEFINE o == rec[t].obj
             n == NewestTask(t)
  <1>0. /\ TypeOK /\ VersionsSound(t) /\ CallSound(t)
        /\ o \in AgentTaskObject /\ n \in AgentTaskObject
        /\ o.status \in AgentTaskStatus /\ rec[t].status \in AgentTaskStatus
    BY NewestTypes DEF SafetyInvariant, AgentTaskObject
  <1>u. ASSUME \E c : rec' = [rec EXCEPT ![t] = c]
        PROVE  \A u \in Tasks : u # t => rec'[u] = rec[u]
    BY <1>u, <1>0 DEF TypeOK
  <1>o. \A u \in Tasks : u # t => rec'[u] = rec[u]
    BY <1>0 DEF Reconcile, ReconcileStep, apiCallFails, ensureFinalizer, handlePending,
                handleInitializing, createPod, handleRunning, deleteTimedOutPod,
                handleCreatingMR, handleDeletion, removeFinalizer, updateStatus,
                Return, Goto, setPhase, setFailed, Dispatch, TypeOK
  <1>a. UNCHANGED task /\ mrs \subseteq mrs' => Advances(t)
    BY SameVersions
  <1>r. ASSUME NEW requeue, Return(t, requeue) PROVE CallSound(t)'
    BY <1>r, IdleSound DEF Return
  <1>1. CASE Reconcile(t)
    <2> DEFINE c == Cached(task[t])
    <2>1. /\ c \in AgentTaskObject /\ c.status \in AgentTaskStatus
          /\ NotAfter(c, n) /\ Truthful(t, c.uid, c.status)
      <3>1. c \in Versions(task[t]) /\ c \in AgentTaskObject
        BY <1>0, NewestTypes, ConstantTypes, WindowVersions DEF TypeOK
      <3> QED  BY <3>1, <1>0 DEF VersionsSound, AgentTaskObject
    <2>2. UNCHANGED <<task, mrs>> /\ n' = n
      BY <1>1 DEF Reconcile, NewestTask
    <2>3. CASE UNCHANGED rec
      BY <1>a, <2>2, <2>3, CallStays, CallOnly
    <2>4. ASSUME NEW st \in {"deletion", "finalizer"}, c.exists,
                 rec' = [rec EXCEPT ![t] = [pc |-> st, obj |-> c, status |-> c.status]]
          PROVE  CallSound(t)'
      <3>1. rec'[t] = [pc |-> st, obj |-> c, status |-> c.status]
        BY <1>0, <2>4 DEF TypeOK
      <3>2. c.status.phase \in PhaseAt[st]
        BY <2>1 DEF PhaseAt, Steps, AgentTaskStatus
      <3> HIDE DEF c
      <3>3. Truthful(t, rec[t].obj.uid, rec[t].obj.status)'
        BY <2>1, <2>2, <3>1 DEF Truthful, OpenedFor, Consistent
      <3> QED  BY <2>1, <2>2, <2>4, <3>1, <3>2, <3>3 DEF CallSound
    <2>5. ASSUME c.exists, Dispatch(t, c) PROVE CallSound(t)'
      BY <2>1, <2>2, <2>5, DispatchSound
    <2>6. \/ UNCHANGED rec
          \/ c.exists /\ Dispatch(t, c)
          \/ /\ c.exists
             /\ \E st \in {"deletion", "finalizer"} :
                  rec' = [rec EXCEPT ![t] = [pc |-> st, obj |-> c, status |-> c.status]]
      BY <1>1 DEF Reconcile
    <2> HIDE DEF c
    <2>7. UNCHANGED rec \/ CallSound(t)'
      BY <2>4, <2>5, <2>6
    <2> QED  BY <1>o, <2>2, <2>3, <2>7, CallOnly
  <1>2. CASE ensureFinalizer(t)
    <2> DEFINE f == [n EXCEPT !.finalizer = TRUE]
               v == [f EXCEPT !.rv = @ + 1]
    <2>1. UNCHANGED mrs
      BY <1>2 DEF ensureFinalizer
    <2>2. CASE Return(t, TRUE) /\ UNCHANGED task
      BY <1>o, <1>r, <2>1, <2>2, CallOnly
    <2>3. CASE Fresh(t) /\ StoreTask(t, f) /\ Dispatch(t, v)
      <3>1. n = o /\ n.exists /\ Truthful(t, n.uid, n.status)
        BY <1>0, <1>2, <2>3 DEF Fresh, ensureFinalizer, CallSound, NotAfter
      <3>2. /\ f \in AgentTaskObject /\ f.rv = n.rv /\ f.exists
            /\ f.uid = n.uid /\ f.status = n.status
        BY <1>0, <3>1 DEF AgentTaskObject
      <3> HIDE DEF f
      <3>3. /\ v \in AgentTaskObject /\ v.exists /\ v.uid = f.uid /\ v.status = f.status
        BY <3>2 DEF AgentTaskObject
      <3>m. MayFollow(n, f)
        BY <1>0, <3>1, <3>2, NotAfterItself DEF MayFollow, NotAfter
      <3>4. n' = v /\ \A u \in Tasks : VersionsSound(u)' /\ Advances(u)
        BY <2>1, <2>3, <3>1, <3>2, <3>m, NewVersion
      <3>5. NotAfter(v, NewestTask(t)')
        BY <3>3, <3>4, NotAfterItself
      <3> HIDE DEF v
      <3>6. Truthful(t, v.uid, v.status)
        BY <3>1, <3>2, <3>3
      <3>7. CallSound(t)'
        BY <2>1, <2>3, <3>3, <3>5, <3>6, DispatchSound
      <3> QED  BY <1>o, <2>1, <3>4, <3>7 DEF Kept
    <2> QED  BY <1>2, <2>2, <2>3 DEF ensureFinalizer
  <1>3. CASE handlePending(t)
    <2>1. UNCHANGED <<task, mrs>> /\ rec[t].pc = "pending"
      BY <1>3 DEF handlePending
    <2>2. o.status.phase = "Pending" /\ Consistent(o.status)
      BY <1>0, <2>1 DEF CallSound, PhaseAt, Steps, Truthful
    <2>3. \A m : setFailed(t, o.status, m) => CallSound(t)'
      BY <1>a, <2>1, <2>2, SetFailedSound DEF Terminal
    <2>4. ASSUME HasSlot(o), setPhase(t, o.status, "Initializing", "validated")
          PROVE  CallSound(t)'
      <3>1. Edge(o, "Initializing")
        BY <2>2, <2>4 DEF Edge
      <3> DEFINE s == o.status
      <3>2. s \in AgentTaskStatus /\ s.phase = o.status.phase /\ Consistent(s)
        BY <1>0, <2>2
      <3>3. setPhase(t, s, "Initializing", "validated")
        BY <2>4
      <3> HIDE DEF s
      <3>4. Consistent([s EXCEPT !.phase = "Initializing", !.message = "validated"])
        BY <2>2, <3>2 DEF Consistent, AgentTaskStatus, Terminal
      <3> QED  BY <1>a, <2>1, <3>1, <3>2, <3>3, <3>4, SetPhaseSound
    <2>5. CallSound(t)'
      BY <1>3, <1>r, <2>3, <2>4 DEF handlePending
    <2> QED  BY <1>o, <2>1, <2>5, CallOnly
  <1>p. ASSUME o.status.phase = "Initializing", rec[t].pc # "idle", UNCHANGED <<task, mrs>>,
               NEW s \in AgentTaskStatus, NEW m, Consistent(o.status),
               s.phase = o.status.phase, s.endTime = o.status.endTime,
               s.mergeRequestURL = o.status.mergeRequestURL, s.podName,
               setPhase(t, s, "Running", m)
        PROVE  CallSound(t)'
    <2>1. Edge(o, "Running")
      BY <1>p DEF Edge
    <2>2. Consistent([s EXCEPT !.phase = "Running", !.message = m])
      BY <1>p DEF Consistent, AgentTaskStatus, Terminal
    <2> QED  BY <1>p, <1>a, <2>1, <2>2, SetPhaseSound
  <1>4. CASE handleInitializing(t)
    <2>1. UNCHANGED <<task, mrs>> /\ rec[t].pc = "initializing"
      BY <1>4 DEF handleInitializing
    <2>2. o.status.phase = "Initializing" /\ Consistent(o.status)
      BY <1>0, <2>1 DEF CallSound, PhaseAt, Steps, Truthful
    <2> DEFINE s == [o.status EXCEPT !.podName = TRUE]
    <2>3. /\ s \in AgentTaskStatus /\ s.podName /\ s.phase = o.status.phase
          /\ s.endTime = o.status.endTime /\ s.mergeRequestURL = o.status.mergeRequestURL
      BY <1>0 DEF AgentTaskStatus
    <2>4. setPhase(t, s, "Running", "podRunning") \/ Goto(t, "createPod")
      BY <1>4 DEF handleInitializing
    <2> HIDE DEF s
    <2>5. CASE setPhase(t, s, "Running", "podRunning")
      BY <1>o, <1>p, <2>1, <2>2, <2>3, <2>5, CallOnly
    <2>6. CASE Goto(t, "createPod")
      <3>1. "createPod" \in Steps /\ PhaseAt["initializing"] \subseteq PhaseAt["createPod"]
        BY DEF Steps, PhaseAt
      <3> QED  BY <1>o, <1>a, <2>1, <2>6, <3>1, GotoSound, CallOnly
    <2> QED  BY <2>4, <2>5, <2>6
  <1>5. CASE createPod(t)
    <2>1. UNCHANGED <<task, mrs>> /\ rec[t].pc = "createPod"
      BY <1>5 DEF createPod
    <2>2. o.status.phase = "Initializing" /\ Consistent(o.status)
      BY <1>0, <2>1 DEF CallSound, PhaseAt, Steps, Truthful
    <2> DEFINE s == [o.status EXCEPT !.podName = TRUE]
               z == [o.status EXCEPT !.podName = TRUE, !.startTime = TRUE,
                                     !.branchName = o.spec.branch]
    <2>3. /\ s \in AgentTaskStatus /\ s.podName /\ s.phase = o.status.phase
          /\ s.endTime = o.status.endTime /\ s.mergeRequestURL = o.status.mergeRequestURL
      BY <1>0 DEF AgentTaskStatus
    <2>4. /\ z \in AgentTaskStatus /\ z.podName /\ z.phase = o.status.phase
          /\ z.endTime = o.status.endTime /\ z.mergeRequestURL = o.status.mergeRequestURL
      BY <1>0 DEF AgentTaskStatus, AgentTaskObject, TaskSpec
    <2>5. \/ setPhase(t, s, "Running", "podRunning")
          \/ setPhase(t, z, "Running", "podCreated")
          \/ Return(t, TRUE)
      BY <1>5 DEF createPod
    <2> HIDE DEF s, z
    <2>6. CallSound(t)'
      BY <1>p, <1>r, <2>1, <2>2, <2>3, <2>4, <2>5
    <2> QED  BY <1>o, <2>1, <2>6, CallOnly
  <1>6. CASE handleRunning(t)
    <2>1. UNCHANGED <<task, mrs>> /\ rec[t].pc = "running"
      BY <1>6 DEF handleRunning
    <2>2. o.status.phase = "Running" /\ Consistent(o.status)
      BY <1>0, <2>1 DEF CallSound, PhaseAt, Steps, Truthful
    <2>3. \A m : setFailed(t, o.status, m) => CallSound(t)'
      BY <1>a, <2>1, <2>2, SetFailedSound DEF Terminal
    <2>4. ASSUME setPhase(t, o.status, "CreatingMR", "agentCompleted")
          PROVE  CallSound(t)'
      <3>1. Edge(o, "CreatingMR")
        BY <2>2 DEF Edge
      <3> DEFINE s == o.status
      <3>2. s \in AgentTaskStatus /\ s.phase = o.status.phase /\ Consistent(s)
        BY <1>0, <2>2
      <3>3. setPhase(t, s, "CreatingMR", "agentCompleted")
        BY <2>4
      <3> HIDE DEF s
      <3>4. Consistent([s EXCEPT !.phase = "CreatingMR", !.message = "agentCompleted"])
        BY <2>2, <3>2 DEF Consistent, AgentTaskStatus, Terminal
      <3> QED  BY <1>a, <2>1, <3>1, <3>2, <3>3, <3>4, SetPhaseSound
    <2>5. ASSUME Goto(t, "timeout") PROVE CallSound(t)'
      <3>1. "timeout" \in Steps /\ PhaseAt["running"] \subseteq PhaseAt["timeout"]
        BY DEF Steps, PhaseAt
      <3> QED  BY <1>a, <2>1, <2>5, <3>1, GotoSound
    <2>6. CallSound(t)'
      BY <1>6, <1>r, <2>3, <2>4, <2>5 DEF handleRunning
    <2> QED  BY <1>o, <2>1, <2>6, CallOnly
  <1>7. CASE deleteTimedOutPod(t)
    <2>1. UNCHANGED <<task, mrs>> /\ rec[t].pc = "timeout"
      BY <1>7 DEF deleteTimedOutPod
    <2>2. o.status.phase = "Running"
      BY <1>0, <2>1 DEF CallSound, PhaseAt, Steps
    <2>3. CallSound(t)'
      BY <1>7, <1>a, <2>1, <2>2, SetFailedSound DEF Terminal, deleteTimedOutPod
    <2> QED  BY <1>o, <2>1, <2>3, CallOnly
  <1>8. CASE handleCreatingMR(t)
    <2>m. o.uid <= n.uid /\ rec[t].pc = "creatingMR"
      BY <1>0, <1>8 DEF handleCreatingMR, CallSound, NotAfter
    <2>1. /\ UNCHANGED task /\ mrs \subseteq mrs' /\ rec[t].pc = "creatingMR"
          /\ \A m \in mrs' \ mrs : m.task = t /\ m.uid <= n.uid
      BY <1>8, <2>m DEF handleCreatingMR
    <2>2. o.status.phase = "CreatingMR" /\ Consistent(o.status)
      BY <1>0, <2>1 DEF CallSound, PhaseAt, Steps, Truthful
    <2>3. \A m : setFailed(t, o.status, m) => CallSound(t)'
      BY <1>a, <2>1, <2>2, SetFailedSound DEF Terminal
    <2> DEFINE s == [o.status EXCEPT !.mergeRequestURL = TRUE, !.endTime = TRUE]
    <2>4. ASSUME setPhase(t, s, "Succeeded", "mrCreated"),
                 \E m \in mrs' : m.task = t /\ m.uid = o.uid
          PROVE  CallSound(t)'
      <3>1. Edge(o, "Succeeded")
        BY <2>2 DEF Edge
      <3>2. /\ s \in AgentTaskStatus /\ s.mergeRequestURL /\ s.endTime
            /\ s.podName = o.status.podName
        BY <1>0 DEF AgentTaskStatus
      <3> HIDE DEF s
      <3>3. Consistent([s EXCEPT !.phase = "Succeeded", !.message = "mrCreated"])
        BY <2>2, <3>2 DEF Consistent, AgentTaskStatus, Terminal
      <3> QED  BY <1>a, <2>1, <2>4, <3>1, <3>2, <3>3, SetPhaseSound
    <2>5. \/ /\ setPhase(t, s, "Succeeded", "mrCreated")
             /\ \E b : mrs' = mrs \union {[task |-> t, uid |-> o.uid, branch |-> b]}
          \/ \E m : setFailed(t, o.status, m)
      BY <1>8 DEF handleCreatingMR
    <2> HIDE DEF s
    <2>6. CASE \E m : setFailed(t, o.status, m)
      BY <1>o, <2>1, <2>3, <2>6, CallOnly
    <2>7. CASE /\ setPhase(t, s, "Succeeded", "mrCreated")
               /\ \E b : mrs' = mrs \union {[task |-> t, uid |-> o.uid, branch |-> b]}
      <3>1. \E m \in mrs' : m.task = t /\ m.uid = o.uid
        <4>1. PICK b : mrs' = mrs \union {[task |-> t, uid |-> o.uid, branch |-> b]}
          BY <2>7
        <4>2. [task |-> t, uid |-> o.uid, branch |-> b] \in mrs'
          BY <4>1
        <4> QED  BY <4>2
      <3>2. CallSound(t)'
        BY <2>4, <2>7, <3>1
      <3> QED  BY <1>o, <2>1, <3>2, CallOnly
    <2> QED  BY <2>5, <2>6, <2>7
  <1>9. CASE handleDeletion(t)
    <2>1. UNCHANGED <<task, mrs>> /\ rec[t].pc = "deletion" /\ Goto(t, "removeFinalizer")
      BY <1>9 DEF handleDeletion
    <2>2. "removeFinalizer" \in Steps /\ PhaseAt["deletion"] \subseteq PhaseAt["removeFinalizer"]
      BY DEF Steps, PhaseAt
    <2>3. CallSound(t)'
      BY <1>a, <2>1, <2>2, GotoSound
    <2> QED  BY <1>o, <2>1, <2>3, CallOnly
  <1>10. CASE removeFinalizer(t)
    <2> DEFINE g == NoTask(n.rv, n.uid)
    <2>1. UNCHANGED mrs /\ CallSound(t)'
      BY <1>10, <1>r DEF removeFinalizer
    <2>2. CASE UNCHANGED task
      BY <1>o, <2>1, <2>2, CallOnly
    <2>3. CASE StoreTask(t, g)
      <3>a. g \in AgentTaskObject
        BY <1>0, ConstantTypes DEF AgentTaskObject
      <3>b. g.rv = n.rv /\ g.status = NewStatus
        BY DEF NoTask
      <3>c. Truthful(t, g.uid, NewStatus)
        BY NewStatusTruthful
      <3>d. MayFollow(n, g)
        BY <1>0 DEF NoTask, MayFollow, AgentTaskObject
      <3>1. g \in AgentTaskObject /\ g.rv = n.rv /\ Truthful(t, g.uid, g.status)
        BY <3>a, <3>b, <3>c
      <3> HIDE DEF g
      <3> QED  BY <1>o, <2>1, <2>3, <3>d, <3>1, NewVersion DEF Kept
    <2> QED  BY <1>10, <2>2, <2>3 DEF removeFinalizer
  <1>11. CASE updateStatus(t)
    <2> DEFINE g == [n EXCEPT !.status = rec[t].status]
    <2>1. UNCHANGED mrs /\ CallSound(t)'
      BY <1>11, <1>r DEF updateStatus
    <2>2. CASE UNCHANGED task
      BY <1>o, <2>1, <2>2, CallOnly
    <2>3. CASE Fresh(t) /\ StoreTask(t, g)
      <3>1. /\ n = o /\ Truthful(t, n.uid, rec[t].status) /\ n.exists
            /\ Edge(n, rec[t].status.phase)
        BY <1>0, <1>11, <2>3 DEF Fresh, updateStatus, CallSound, NotAfter
      <3>2. g \in AgentTaskObject /\ g.rv = n.rv /\ g.uid = n.uid /\ g.status = rec[t].status
        BY <1>0 DEF AgentTaskObject
      <3>3. Truthful(t, g.uid, g.status)
        BY <3>1, <3>2
      <3>4. MayFollow(n, g)
        <4>1. n.status.phase \in Phases /\ n.uid \in Nat
          BY <1>0 DEF AgentTaskObject, AgentTaskStatus
        <4>2. Rank[n.status.phase] <= Rank[rec[t].status.phase]
          BY <3>1, <4>1 DEF Edge, Rank, Phases, Terminal
        <4> HIDE DEF n, g
        <4> QED  BY <3>1, <3>2, <4>1, <4>2 DEF MayFollow
      <3> HIDE DEF g
      <3> QED  BY <1>o, <2>1, <2>3, <3>2, <3>3, <3>4, NewVersion DEF Kept
    <2> QED  BY <1>11, <2>2, <2>3 DEF updateStatus
  <1>12. CASE apiCallFails(t)
    BY <1>12, <1>o, <1>r, CallOnly DEF apiCallFails
  <1> QED
    BY <1>1, <1>2, <1>3, <1>4, <1>5, <1>6, <1>7, <1>8, <1>9, <1>10, <1>11, <1>12
    DEF ReconcileStep

(* So does every step of the informers, the users, the pool controller,    *)
(* the kubelet and the garbage collector.                                  *)
LEMMA SafeEnvironment ==
  ASSUME SafetyInvariant, TypeOK', NEW t \in Tasks,
         SyncTask(t) \/ SyncPod(t) \/ Environment(t)
  PROVE  SafetyInvariant'
  <1> DEFINE n == NewestTask(t)
  <1>0. /\ TypeOK /\ n \in AgentTaskObject
        /\ VersionsSound(t) /\ n \in Versions(task[t])
    BY NewestTypes, WindowVersions DEF SafetyInvariant, TypeOK, NewestTask
  <1>1. UNCHANGED <<rec, mrs>>
    BY DEF SyncTask, SyncPod, Environment, CreateTask, DeleteTask, EditTask, GrantSlot,
           PodStarts, PodSucceeds, PodFails, PodReports, PodRemoved, CollectPod, EvictPod,
           Expire
  <1>2. Truthful(t, n.uid, n.status)
    BY <1>0 DEF VersionsSound
  <1>3. (\A u \in Tasks : VersionsSound(u)' /\ Advances(u)) => SafetyInvariant'
    <2> SUFFICES ASSUME \A u \in Tasks : VersionsSound(u)' /\ Advances(u)
                 PROVE  SafetyInvariant'
      OBVIOUS
    <2>1. CallSound(t)'
      BY <1>1, CallStays
    <2> QED  BY <1>1, <2>1, KeptSuffices DEF Kept
  <1>4. CASE UNCHANGED task
    BY <1>1, <1>3, <1>4, SameVersions
  <1>5. CASE SyncTask(t)
    BY <1>0, <1>1, <1>3, <1>5, FewerVersions DEF SyncTask, TypeOK
  <1>6. ASSUME NEW o \in AgentTaskObject, StoreTask(t, o), o.rv = n.rv, MayFollow(n, o),
               Truthful(t, o.uid, o.status)
        PROVE  SafetyInvariant'
    BY <1>1, <1>3, <1>6, NewVersion
  <1>s. ASSUME NEW o \in AgentTaskObject, StoreTask(t, o), o.rv = n.rv, n.exists,
               o.uid = n.uid, o.status = n.status
        PROVE  SafetyInvariant'
    <2>1. MayFollow(n, o)
      BY <1>0, <1>s, NotAfterItself DEF MayFollow, NotAfter
    <2> QED  BY <1>2, <1>6, <1>s, <2>1
  <1>g. ASSUME StoreTask(t, NoTask(n.rv, n.uid)) PROVE SafetyInvariant'
    <2> DEFINE g == NoTask(n.rv, n.uid)
    <2>1. g \in AgentTaskObject
      BY <1>0, ConstantTypes DEF AgentTaskObject
    <2>2. g.rv = n.rv /\ g.status = NewStatus
      BY DEF NoTask
    <2>3. MayFollow(n, g)
      BY <1>0 DEF NoTask, MayFollow, AgentTaskObject
    <2>4. StoreTask(t, g)
      BY <1>g
    <2> HIDE DEF g
    <2> QED  BY <1>6, <2>1, <2>2, <2>3, <2>4, NewStatusTruthful
  <1>7. CASE CreateTask(t)
    <2> DEFINE g == NoTask(n.rv, n.uid + 1)
    <2>1. PICK s \in Specs : StoreTask(t, [g EXCEPT !.exists = TRUE, !.spec = s])
      BY <1>7 DEF CreateTask
    <2>a. n.rv \in Nat /\ n.uid + 1 \in Nat
      BY <1>0 DEF AgentTaskObject
    <2>b. g.rv = n.rv /\ g.status = NewStatus
      BY DEF NoTask
    <2>2. g \in AgentTaskObject /\ g.rv = n.rv /\ g.status = NewStatus
      BY <2>a, <2>b, ConstantTypes
    <2> DEFINE o == [g EXCEPT !.exists = TRUE, !.spec = s]
    <2>3. o \in AgentTaskObject /\ o.rv = n.rv /\ o.status = NewStatus
      <3> HIDE DEF g
      <3> QED  BY <2>2, ConstantsAssumption DEF AgentTaskObject
    <2>4. StoreTask(t, o)
      BY <2>1
    <2>5. MayFollow(n, o)
      BY <1>0 DEF NoTask, MayFollow, AgentTaskObject
    <2> HIDE DEF o
    <2> QED  BY <1>6, <2>3, <2>4, <2>5, NewStatusTruthful
  <1>8. CASE DeleteTask(t)
    <2> DEFINE d == [n EXCEPT !.deleting = TRUE]
    <2>1. d \in AgentTaskObject /\ d.rv = n.rv /\ d.uid = n.uid /\ d.status = n.status
      BY <1>0 DEF AgentTaskObject
    <2>2. n.exists /\ (StoreTask(t, d) \/ StoreTask(t, NoTask(n.rv, n.uid)))
      BY <1>8 DEF DeleteTask
    <2> HIDE DEF d
    <2> QED  BY <1>s, <1>g, <2>1, <2>2
  <1>9. CASE EditTask(t)
    <2>1. n.exists /\ \E s \in Specs : StoreTask(t, [n EXCEPT !.spec = s])
      BY <1>9 DEF EditTask
    <2> PICK s \in Specs : StoreTask(t, [n EXCEPT !.spec = s])
      BY <2>1
    <2> DEFINE o == [n EXCEPT !.spec = s]
    <2>2. o \in AgentTaskObject /\ o.rv = n.rv /\ o.uid = n.uid /\ o.status = n.status
      BY <1>0, ConstantsAssumption DEF AgentTaskObject
    <2>3. StoreTask(t, o)
      OBVIOUS
    <2> HIDE DEF o
    <2> QED  BY <1>s, <2>1, <2>2, <2>3
  <1>10. CASE GrantSlot(t)
    <2> DEFINE o == [n EXCEPT !.granted = TRUE]
    <2>1. o \in AgentTaskObject /\ o.rv = n.rv /\ o.uid = n.uid /\ o.status = n.status
      BY <1>0 DEF AgentTaskObject
    <2>2. n.exists /\ StoreTask(t, o)
      BY <1>10 DEF GrantSlot
    <2> HIDE DEF o
    <2> QED  BY <1>s, <2>1, <2>2
  <1> QED
    BY <1>4, <1>5, <1>7, <1>8, <1>9, <1>10
    DEF Environment, SyncPod, PodStarts, PodSucceeds, PodFails, PodReports, PodRemoved,
        CollectPod, EvictPod, Expire

(* So does a crash of the operator with its restart.                       *)
LEMMA SafeCrash ==
  ASSUME SafetyInvariant, TypeOK', Crash
  PROVE  SafetyInvariant'
  <1>1. UNCHANGED mrs /\ \A t \in Tasks : task'[t] = Relisted(task[t]) /\ rec'[t] = Idle
    BY DEF Crash
  <1>2. \A t \in Tasks : VersionsSound(t)'
    BY <1>1, FewerVersions
  <1>3. \A t \in Tasks : CallSound(t)'
    BY <1>1 DEF CallSound, Idle
  <1>4. \A t \in Tasks : RequestsSound(t)'
    <2> TAKE t \in Tasks
    <2>1. NewestTask(t)' = NewestTask(t)
      BY <1>1, WindowVersions, NewestTypes DEF NewestTask, SafetyInvariant, TypeOK
    <2> QED  BY <1>1, <2>1 DEF SafetyInvariant, RequestsSound
  <1> QED  BY <1>2, <1>3, <1>4 DEF SafetyInvariant

(* The safety invariant holds in a cluster without tasks.                  *)
LEMMA SafeInit == Init => SafetyInvariant
  <1> SUFFICES ASSUME Init PROVE SafetyInvariant
    OBVIOUS
  <1> DEFINE n == NoTask(0, 0)
  <1>1. TypeOK /\ n \in AgentTaskObject /\ n.status = NewStatus
    BY TypeInit, ConstantTypes DEF NoTask
  <1>2. ASSUME NEW t \in Tasks
        PROVE  VersionsSound(t) /\ CallSound(t) /\ RequestsSound(t)
    <2>1. task[t] = <<n>> /\ rec[t].pc = "idle" /\ mrs = {}
      BY DEF Init, Idle
    <2> HIDE DEF n
    <2>2. NewestTask(t) = n /\ Versions(task[t]) = {n}
      BY <2>1 DEF NewestTask, Current, Versions
    <2>3. NotAfter(n, n) /\ Truthful(t, n.uid, n.status)
      BY <1>1, NotAfterItself, NewStatusTruthful
    <2> QED  BY <2>1, <2>2, <2>3 DEF VersionsSound, CallSound, RequestsSound
  <1> QED  BY <1>1, <1>2 DEF SafetyInvariant

(* The safety invariant is inductive, given the types.                     *)
LEMMA SafeStep == SafetyInvariant /\ TypeOK' /\ [Next]_vars => SafetyInvariant'
  <1> SUFFICES ASSUME SafetyInvariant, TypeOK', [Next]_vars
               PROVE  SafetyInvariant'
    OBVIOUS
  <1>1. CASE UNCHANGED vars
    BY <1>1 DEF vars, SafetyInvariant, TypeOK, VersionsSound, CallSound, RequestsSound,
                NewestTask, Truthful, OpenedFor
  <1>2. CASE Next
    BY <1>2, SafeReconcile, KeptSuffices, SafeEnvironment, SafeCrash DEF Next
  <1> QED  BY <1>1, <1>2

(* The versions on their way to a cache are old and true, and every call   *)
(* under way writes a status that follows from such a version:             *)
(* SafetyInvariant, the inductive invariant behind the theorems below.     *)
THEOREM SafetyHolds == Spec => []SafetyInvariant
  BY SafeInit, SafeStep, TypeCorrect, PTL DEF Spec

(* The status of a task tells the truth: StatusTruthful.                   *)
THEOREM StatusIsTruthful == Spec => []StatusTruthful
  <1>1. SafetyInvariant => StatusTruthful
    <2> SUFFICES ASSUME SafetyInvariant, NEW t \in Tasks
                 PROVE  Truthful(t, NewestTask(t).uid, NewestTask(t).status)
      BY DEF StatusTruthful
    <2>1. NewestTask(t) \in Versions(task[t])
      BY ConstantTypes, NewestTypes, WindowVersions DEF SafetyInvariant, TypeOK, NewestTask
    <2> QED  BY <2>1 DEF SafetyInvariant, VersionsSound
  <1> QED  BY <1>1, SafetyHolds, PTL

-----------------------------------------------------------------------------
(* What a step may do to the newest version of a task.                     *)

(* Nothing that the life cycle shows.                                      *)
Unseen(t) ==
  LET n == NewestTask(t)  m == NewestTask(t)' IN
  /\ UNCHANGED mrs
  /\ m.exists = n.exists /\ m.uid = n.uid /\ m.status = n.status
  /\ m.spec = n.spec /\ m.granted = n.granted

Requested(t) ==
  /\ NewestTask(t)' = NewestTask(t)
  /\ \E uid \in Nat, b \in Branches :
       /\ mrs' = mrs \union {[task |-> t, uid |-> uid, branch |-> b]}
       /\ uid = NewestTask(t).uid /\ Exists(t)
          => Phase(t) \in {"CreatingMR"} \union Terminal

Removed(t) == UNCHANGED mrs /\ Exists(t) /\ ~NewestTask(t)'.exists

Created(t) ==
  LET n == NewestTask(t)  m == NewestTask(t)' IN
  /\ UNCHANGED mrs
  /\ ~n.exists /\ m.exists /\ m.uid = n.uid + 1
  /\ m.status = NewStatus /\ ~m.granted

Written(t) ==
  LET n == NewestTask(t)  m == NewestTask(t)' IN
  /\ UNCHANGED mrs
  /\ n.exists /\ m.exists /\ m.uid = n.uid /\ m.spec = n.spec /\ m.granted = n.granted
  /\ Edge(n, m.status.phase)
  /\ m.status.phase = "Succeeded" => Opened(t)

Edited(t) ==
  LET n == NewestTask(t)  m == NewestTask(t)' IN
  /\ UNCHANGED mrs
  /\ n.exists /\ m.exists /\ m.uid = n.uid /\ m.status = n.status /\ m.granted = n.granted

Granted(t) ==
  LET n == NewestTask(t)  m == NewestTask(t)' IN
  /\ UNCHANGED mrs
  /\ n.exists /\ m.exists /\ m.uid = n.uid /\ m.status = n.status /\ m.spec = n.spec
  /\ n.status.phase = "Pending" /\ m.granted = TRUE

Change(t) ==
  \/ Unseen(t) \/ Requested(t) \/ Removed(t) \/ Created(t)
  \/ Written(t) \/ Edited(t) \/ Granted(t)

(* A stored version is the newest one of its task and leaves the other     *)
(* tasks alone.                                                            *)
LEMMA StoredIsNewest ==
  ASSUME TypeOK, NEW t \in Tasks, NEW o \in AgentTaskObject, StoreTask(t, o)
  PROVE  /\ NewestTask(t)' = [o EXCEPT !.rv = @ + 1]
         /\ \A u \in Tasks \ {t} : NewestTask(u)' = NewestTask(u)
  <1> DEFINE v == [o EXCEPT !.rv = @ + 1]
  <1>a. v \in AgentTaskObject
    BY DEF AgentTaskObject
  <1>1. v \in AgentTaskObject /\ task[t] \in Seq(AgentTaskObject) \ {<<>>}
    BY <1>a DEF TypeOK
  <1>2. task' = [task EXCEPT ![t] = Stored(task[t], v)]
    BY DEF StoreTask
  <1> HIDE DEF v
  <1>3. NewestTask(t)' = v
    BY <1>1, <1>2, WindowVersions DEF TypeOK, NewestTask
  <1>4. \A u \in Tasks \ {t} : NewestTask(u)' = NewestTask(u)
    BY <1>2 DEF TypeOK, NewestTask
  <1> QED  BY <1>3, <1>4 DEF v

(* The fields of the next version are those of what was stored.            *)
LEMMA StoredFields ==
  ASSUME NEW o \in AgentTaskObject
  PROVE  LET v == [o EXCEPT !.rv = @ + 1]
         IN  /\ v.exists = o.exists /\ v.uid = o.uid /\ v.status = o.status
             /\ v.spec = o.spec /\ v.granted = o.granted
  BY DEF AgentTaskObject

(* Every step for t makes one of the changes above to what the API server  *)
(* and the platform hold, and none to the other tasks.                     *)
LEMMA ChangeStep ==
  ASSUME SafetyInvariant, NEW t \in Tasks,
         \/ Reconcile(t) \/ ReconcileStep(t) \/ apiCallFails(t)
         \/ SyncTask(t) \/ SyncPod(t) \/ Environment(t)
  PROVE  Change(t) /\ \A u \in Tasks \ {t} : NewestTask(u)' = NewestTask(u)
  <1> DEFINE o == rec[t].obj
             n == NewestTask(t)
             m == NewestTask(t)'
             Others == \A u \in Tasks \ {t} : NewestTask(u)' = NewestTask(u)
  <1>0. /\ TypeOK /\ n \in AgentTaskObject /\ o \in AgentTaskObject /\ CallSound(t)
        /\ n.rv \in Nat /\ n.uid \in Nat
    BY NewestTypes DEF SafetyInvariant, AgentTaskObject
  <1>1. CASE UNCHANGED <<task, mrs>>
    BY <1>1 DEF Change, Unseen, NewestTask
  <1>s. ASSUME NEW x \in AgentTaskObject, StoreTask(t, x)
        PROVE  /\ Others
               /\ m.exists = x.exists /\ m.uid = x.uid /\ m.status = x.status
               /\ m.spec = x.spec /\ m.granted = x.granted
    BY <1>0, <1>s, StoredIsNewest, StoredFields
  <1>2. CASE SyncTask(t)
    <2>1. n' = n
      BY <1>0, <1>2, WindowVersions DEF SyncTask, NewestTask, TypeOK
    <2>2. Others /\ UNCHANGED mrs
      BY <1>0, <1>2 DEF SyncTask, NewestTask, TypeOK
    <2> QED  BY <2>1, <2>2 DEF Change, Unseen
  <1>g. ASSUME StoreTask(t, NoTask(n.rv, n.uid)), n.exists, UNCHANGED mrs
        PROVE  Change(t) /\ Others
    <2> DEFINE g == NoTask(n.rv, n.uid)
    <2>1. g \in AgentTaskObject
      BY <1>0, ConstantTypes
    <2>2. g.exists = FALSE
      BY DEF NoTask
    <2>3. Others /\ m.exists = g.exists
      BY <1>g, <1>s, <2>1
    <2> QED  BY <1>g, <2>2, <2>3 DEF Change, Removed, Exists
  <1>3. CASE ensureFinalizer(t)
    <2> DEFINE f == [n EXCEPT !.finalizer = TRUE]
    <2>1. CASE StoreTask(t, f)
      <3>1. /\ f \in AgentTaskObject /\ f.exists = n.exists /\ f.uid = n.uid
            /\ f.status = n.status /\ f.spec = n.spec /\ f.granted = n.granted
        BY <1>0 DEF AgentTaskObject
      <3>2. UNCHANGED mrs
        BY <1>3 DEF ensureFinalizer
      <3> HIDE DEF f
      <3> QED  BY <1>s, <2>1, <3>1, <3>2 DEF Change, Unseen
    <2> QED  BY <1>1, <1>3, <2>1 DEF ensureFinalizer
  <1>4. CASE handleCreatingMR(t)
    <2>1. o.status.phase = "CreatingMR" /\ NotAfter(o, n) /\ o.exists /\ UNCHANGED task
      BY <1>0, <1>4 DEF handleCreatingMR, CallSound, PhaseAt, Steps
    <2>2. o.uid \in Nat /\ SourceBranch(o) \in Branches
      BY <1>0 DEF SourceBranch, AgentTaskObject, AgentTaskStatus, TaskSpec
    <2>3. n' = n /\ Others
      BY <2>1 DEF NewestTask
    <2>4. ASSUME o.uid = n.uid, n.exists
          PROVE  n.status.phase \in {"CreatingMR"} \union Terminal
      <3>1. Rank["CreatingMR"] <= Rank[n.status.phase]
        BY <2>1, <2>4 DEF NotAfter
      <3>2. n.status.phase \in Phases
        BY <1>0 DEF AgentTaskObject, AgentTaskStatus
      <3> HIDE DEF n
      <3> QED  BY <3>1, <3>2 DEF Rank, Phases, Terminal
    <2>5. \/ UNCHANGED mrs
          \/ mrs' = mrs \union {[task |-> t, uid |-> o.uid, branch |-> SourceBranch(o)]}
      BY <1>4 DEF handleCreatingMR
    <2>6. CASE mrs' = mrs \union {[task |-> t, uid |-> o.uid, branch |-> SourceBranch(o)]}
      BY <2>2, <2>3, <2>4, <2>6 DEF Change, Requested, Exists, Phase
    <2> QED  BY <1>1, <2>1, <2>5, <2>6
  <1>5. CASE removeFinalizer(t)
    <2>1. CASE Fresh(t) /\ StoreTask(t, NoTask(n.rv, n.uid))
      <3>1. n.exists
        BY <1>0, <1>5, <2>1 DEF removeFinalizer, Fresh, CallSound, NotAfter
      <3>2. UNCHANGED mrs
        BY <1>5 DEF removeFinalizer
      <3> QED  BY <1>g, <2>1, <3>1, <3>2
    <2> QED  BY <1>1, <1>5, <2>1 DEF removeFinalizer
  <1>6. CASE updateStatus(t)
    <2> DEFINE s == rec[t].status
               g == [n EXCEPT !.status = s]
    <2>1. CASE Fresh(t) /\ StoreTask(t, g)
      <3>1. n = o /\ n.exists /\ Edge(n, s.phase) /\ Truthful(t, n.uid, s)
        BY <1>0, <1>6, <2>1 DEF updateStatus, Fresh, CallSound, NotAfter
      <3>2. /\ g \in AgentTaskObject /\ g.exists = n.exists /\ g.uid = n.uid
            /\ g.status = s /\ g.spec = n.spec /\ g.granted = n.granted
        BY <1>0, NewestTypes DEF AgentTaskObject
      <3>3. UNCHANGED mrs /\ (s.phase = "Succeeded" => Opened(t))
        BY <1>6, <3>1 DEF updateStatus, Truthful, Opened
      <3> HIDE DEF g, s
      <3> QED  BY <1>s, <2>1, <3>1, <3>2, <3>3 DEF Change, Written
    <2> QED  BY <1>1, <1>6, <2>1 DEF updateStatus
  <1>7. CASE CreateTask(t)
    <2> DEFINE g == NoTask(n.rv, n.uid + 1)
    <2> PICK s \in Specs : StoreTask(t, [g EXCEPT !.exists = TRUE, !.spec = s])
      BY <1>7 DEF CreateTask
    <2> DEFINE x == [g EXCEPT !.exists = TRUE, !.spec = s]
    <2>1. g \in AgentTaskObject
      BY <1>0, ConstantTypes
    <2>2. g.uid = n.uid + 1 /\ g.status = NewStatus /\ g.granted = FALSE
      BY DEF NoTask
    <2>3. /\ x \in AgentTaskObject /\ x.exists /\ x.uid = g.uid
          /\ x.status = g.status /\ x.granted = g.granted
      <3> HIDE DEF g
      <3> QED  BY <2>1, ConstantsAssumption DEF AgentTaskObject
    <2>4. UNCHANGED mrs /\ ~n.exists /\ StoreTask(t, x)
      BY <1>7 DEF CreateTask
    <2> HIDE DEF g, x
    <2> QED  BY <1>s, <2>2, <2>3, <2>4 DEF Change, Created
  <1>8. CASE DeleteTask(t)
    <2> DEFINE d == [n EXCEPT !.deleting = TRUE]
    <2>1. n.exists /\ UNCHANGED mrs /\ (StoreTask(t, d) \/ StoreTask(t, NoTask(n.rv, n.uid)))
      BY <1>8 DEF DeleteTask
    <2>2. /\ d \in AgentTaskObject /\ d.exists = n.exists /\ d.uid = n.uid
          /\ d.status = n.status /\ d.spec = n.spec /\ d.granted = n.granted
      BY <1>0 DEF AgentTaskObject
    <2> HIDE DEF d
    <2>3. CASE StoreTask(t, d)
      BY <1>s, <2>1, <2>2, <2>3 DEF Change, Unseen
    <2> QED  BY <1>g, <2>1, <2>3
  <1>9. CASE EditTask(t)
    <2>1. n.exists /\ UNCHANGED mrs /\ \E s \in Specs : StoreTask(t, [n EXCEPT !.spec = s])
      BY <1>9 DEF EditTask
    <2> PICK s \in Specs : StoreTask(t, [n EXCEPT !.spec = s])
      BY <2>1
    <2> DEFINE x == [n EXCEPT !.spec = s]
    <2>2. /\ x \in AgentTaskObject /\ x.exists = n.exists /\ x.uid = n.uid
          /\ x.status = n.status /\ x.granted = n.granted
      BY <1>0, ConstantsAssumption DEF AgentTaskObject
    <2>3. StoreTask(t, x)
      OBVIOUS
    <2> HIDE DEF x
    <2> QED  BY <1>s, <2>1, <2>2, <2>3 DEF Change, Edited
  <1>10. CASE GrantSlot(t)
    <2> DEFINE x == [n EXCEPT !.granted = TRUE]
    <2>1. n.exists /\ UNCHANGED mrs /\ n.status.phase = "Pending" /\ StoreTask(t, x)
      BY <1>10 DEF GrantSlot
    <2>2. /\ x \in AgentTaskObject /\ x.exists = n.exists /\ x.uid = n.uid
          /\ x.status = n.status /\ x.spec = n.spec /\ x.granted = TRUE
      BY <1>0 DEF AgentTaskObject
    <2> HIDE DEF x
    <2> QED  BY <1>s, <2>1, <2>2 DEF Change, Granted
  <1>11. CASE \/ Reconcile(t) \/ apiCallFails(t) \/ handlePending(t) \/ handleInitializing(t)
              \/ createPod(t) \/ handleRunning(t) \/ deleteTimedOutPod(t)
              \/ handleDeletion(t) \/ SyncPod(t) \/ PodStarts(t) \/ PodSucceeds(t)
              \/ PodFails(t) \/ PodRemoved(t) \/ CollectPod(t) \/ EvictPod(t) \/ Expire(t)
    <2>1. UNCHANGED <<task, mrs>>
      BY <1>11 DEF Reconcile, apiCallFails, handlePending, handleInitializing, createPod,
                   handleRunning, deleteTimedOutPod, handleDeletion, SyncPod, PodStarts,
                   PodSucceeds, PodFails, PodReports, PodRemoved, CollectPod, EvictPod, Expire
    <2> QED  BY <1>1, <2>1
  <1> QED
    BY <1>2, <1>3, <1>4, <1>5, <1>6, <1>7, <1>8, <1>9, <1>10, <1>11
    DEF ReconcileStep, Environment

(* A crash changes nothing that the API server or the platform holds.      *)
LEMMA CrashStep ==
  ASSUME SafetyInvariant, Crash
  PROVE  UNCHANGED mrs /\ \A t \in Tasks : NewestTask(t)' = NewestTask(t)
  <1> SUFFICES ASSUME NEW t \in Tasks PROVE NewestTask(t)' = NewestTask(t)
    BY DEF Crash
  <1>1. task'[t] = Relisted(task[t]) /\ task[t] \in Seq(AgentTaskObject) \ {<<>>}
    BY DEF Crash, SafetyInvariant, TypeOK
  <1>2. Current(task[t]) \in AgentTaskObject
    BY <1>1, WindowEnds
  <1> QED  BY <1>1, <1>2, WindowVersions DEF NewestTask

(* No step changes the status of a task at its end, as long as there is    *)
(* the task: TerminalIsFinal.                                              *)
THEOREM TerminalStays == Spec => TerminalIsFinal
  <1> DEFINE Final(t) == Exists(t) /\ Phase(t) \in Terminal /\ Exists(t)'
                         => NewestTask(t).status' = NewestTask(t).status
  <1>1. SafetyInvariant /\ [Next]_vars => [\A t \in Tasks : Final(t)]_vars
    <2> SUFFICES ASSUME SafetyInvariant, Next, NEW t \in Tasks, Exists(t),
                        Phase(t) \in Terminal, Exists(t)'
                 PROVE  NewestTask(t).status' = NewestTask(t).status
      OBVIOUS
    <2>1. ASSUME NewestTask(t)' = NewestTask(t)
          PROVE  NewestTask(t).status' = NewestTask(t).status
      BY <2>1
    <2>2. CASE Crash
      BY <2>1, <2>2, CrashStep
    <2>3. ASSUME NEW u \in Tasks,
                 \/ Reconcile(u) \/ ReconcileStep(u) \/ apiCallFails(u)
                 \/ SyncTask(u) \/ SyncPod(u) \/ Environment(u)
          PROVE  NewestTask(t).status' = NewestTask(t).status
      <3>1. Change(u) /\ (t # u => NewestTask(t)' = NewestTask(t))
        BY <2>3, ChangeStep
      <3>2. CASE t # u
        BY <2>1, <3>1, <3>2
      <3>3. CASE t = u
        <4>1. Exists(t)' = NewestTask(t)'.exists
          BY DEF Exists
        <4>2. ~Removed(t) /\ ~Created(t)
          BY <4>1 DEF Removed, Created, Exists
        <4>3. ~Written(t)
          BY DEF Written, Edge, Phase, Terminal
        <4> QED
          BY <3>1, <3>3, <4>2, <4>3 DEF Change, Unseen, Requested, Edited, Granted
      <3> QED  BY <3>2, <3>3
    <2> QED  BY <2>2, <2>3 DEF Next
  <1> QED  BY <1>1, SafetyHolds, PTL DEF Spec, TerminalIsFinal

-----------------------------------------------------------------------------
(* AgentTask implements TaskLifecycle.                                     *)

(* The abstract state of a task whose newest version, and whose merge      *)
(* requests, did not change.                                               *)
Same(u) ==
  /\ PhaseOf(u)' = PhaseOf(u) /\ PooledOf(u)' = PooledOf(u)
  /\ GrantedOf(u)' = GrantedOf(u) /\ OpenedOf(u)' = OpenedOf(u)

(* A change of t leaves the abstract state of every other task as it was.  *)
LEMMA OthersSame ==
  ASSUME SafetyInvariant, NEW t \in Tasks, Change(t), NEW u \in Tasks \ {t},
         NewestTask(u)' = NewestTask(u)
  PROVE  Same(u)
  <1>1. OpenedFor(u, NewestTask(u).uid)' <=> OpenedFor(u, NewestTask(u).uid)
    BY DEF Change, Unseen, Requested, Removed, Created, Written, Edited, Granted, OpenedFor
  <1> QED
    BY <1>1 DEF Same, PhaseOf, PooledOf, GrantedOf, OpenedOf, Exists, Phase, Opened

(* The mapped variables, and how a step for t changes them.                *)
phases == [u \in Tasks |-> PhaseOf(u)]
pooled == [u \in Tasks |-> PooledOf(u)]
grants == [u \in Tasks |-> GrantedOf(u)]
opened == [u \in Tasks |-> OpenedOf(u)]

(* When the other tasks stay the same, the mapped functions change at t    *)
(* alone.                                                                  *)
LEMMA Mapped ==
  ASSUME NEW t \in Tasks, \A u \in Tasks \ {t} : Same(u)
  PROVE  /\ phases' = [phases EXCEPT ![t] = PhaseOf(t)']
         /\ pooled' = [pooled EXCEPT ![t] = PooledOf(t)']
         /\ grants' = [grants EXCEPT ![t] = GrantedOf(t)']
         /\ opened' = [opened EXCEPT ![t] = OpenedOf(t)']
  BY DEF phases, pooled, grants, opened, Same

(* And they do not change at all where the value of t does not.            *)
LEMMA MappedSame ==
  ASSUME NEW t \in Tasks, \A u \in Tasks \ {t} : Same(u)
  PROVE  /\ PhaseOf(t)' = PhaseOf(t) => phases' = phases
         /\ PooledOf(t)' = PooledOf(t) => pooled' = pooled
         /\ GrantedOf(t)' = GrantedOf(t) => grants' = grants
         /\ OpenedOf(t)' = OpenedOf(t) => opened' = opened
  BY DEF phases, pooled, grants, opened, Same

(* Every change of t is a step of the abstract life cycle or a stutter.    *)
LEMMA LifecycleStep ==
  ASSUME SafetyInvariant, NEW t \in Tasks, Change(t),
         \A u \in Tasks \ {t} : NewestTask(u)' = NewestTask(u)
  PROVE  \/ Lifecycle!LifecycleNext
         \/ UNCHANGED <<phases, pooled, grants, opened>>
  <1> DEFINE n == NewestTask(t)
             m == NewestTask(t)'
  <1>0. \A u \in Tasks \ {t} : Same(u)
    BY OthersSame
  <1>1. /\ phases[t] = PhaseOf(t) /\ pooled[t] = PooledOf(t)
        /\ grants[t] = GrantedOf(t) /\ opened[t] = OpenedOf(t)
    BY DEF phases, pooled, grants, opened
  <1>2. n \in AgentTaskObject /\ n.uid \in Nat /\ n.status.phase \in Phases
    BY NewestTypes DEF SafetyInvariant, AgentTaskObject, AgentTaskStatus
  <1>k. ASSUME UNCHANGED mrs, m.uid = n.uid, m.exists = n.exists
        PROVE  OpenedOf(t)' = OpenedOf(t)
    BY <1>k DEF OpenedOf, Opened, OpenedFor, Exists
  <1>3. CASE Unseen(t)
    <2>1. PhaseOf(t)' = PhaseOf(t) /\ PooledOf(t)' = PooledOf(t) /\ GrantedOf(t)' = GrantedOf(t)
      BY <1>3 DEF Unseen, PhaseOf, PooledOf, GrantedOf, Exists, Phase
    <2>2. OpenedOf(t)' = OpenedOf(t)
      BY <1>3, <1>k DEF Unseen
    <2> QED  BY <1>0, <2>1, <2>2, MappedSame
  <1>4. CASE Requested(t)
    <2>1. PhaseOf(t)' = PhaseOf(t) /\ PooledOf(t)' = PooledOf(t) /\ GrantedOf(t)' = GrantedOf(t)
      BY <1>4 DEF Requested, PhaseOf, PooledOf, GrantedOf, Exists, Phase
    <2>2. UNCHANGED <<phases, pooled, grants>> /\ opened' = [opened EXCEPT ![t] = OpenedOf(t)']
      BY <1>0, <2>1, Mapped, MappedSame
    <2>3. CASE OpenedOf(t)' = OpenedOf(t)
      BY <1>0, <2>2, <2>3, MappedSame
    <2>4. CASE OpenedOf(t)' # OpenedOf(t)
      <3>1. PICK uid \in Nat, b \in Branches :
              /\ mrs' = mrs \union {[task |-> t, uid |-> uid, branch |-> b]}
              /\ uid = n.uid /\ Exists(t) => Phase(t) \in {"CreatingMR"} \union Terminal
        BY <1>4 DEF Requested
      <3>2. m = n
        BY <1>4 DEF Requested
      <3>3. uid = n.uid /\ Exists(t) /\ OpenedOf(t)' = TRUE
        BY <2>4, <3>1, <3>2 DEF OpenedOf, Opened, OpenedFor, Exists
      <3>4. PhaseOf(t) \in {"CreatingMR"} \union Lifecycle!Terminal
        BY <3>1, <3>3 DEF PhaseOf, Terminal, Lifecycle!Terminal
      <3>5. Lifecycle!OpenMR(t)
        BY <1>1, <2>2, <3>3, <3>4 DEF Lifecycle!OpenMR, phases, pooled, grants, opened
      <3> QED  BY <3>5 DEF Lifecycle!LifecycleNext
    <2> QED  BY <2>3, <2>4
  <1>5. CASE Removed(t)
    <2>1. /\ PhaseOf(t) # "Absent" /\ PhaseOf(t)' = "Absent" /\ PooledOf(t)' = FALSE
          /\ GrantedOf(t)' = FALSE /\ OpenedOf(t)' = FALSE
      BY <1>2, <1>5
      DEF Removed, PhaseOf, PooledOf, GrantedOf, OpenedOf, Exists, Phase, Phases, Terminal
    <2>2. Lifecycle!Remove(t)
      BY <1>0, <1>1, <2>1, Mapped DEF Lifecycle!Remove, phases, pooled, grants, opened
    <2> QED  BY <2>2 DEF Lifecycle!LifecycleNext
  <1>6. CASE Created(t)
    <2>s. NewStatus.phase = "Pending"
      BY DEF NewStatus
    <2>a. ~m.granted /\ ~n.exists /\ m.exists /\ m.status.phase = "Pending"
      BY <1>6, <2>s DEF Created
    <2>b. ~GrantedOf(t)'
      BY <2>a DEF GrantedOf
    <2>1. PhaseOf(t) = "Absent" /\ PhaseOf(t)' = "Pending" /\ GrantedOf(t)' = FALSE
      BY <2>a, <2>b DEF PhaseOf, GrantedOf, Exists, Phase
    <2>2. OpenedOf(t)' = FALSE
      <3>1. \A r \in mrs : r.task = t => r.uid \in Nat /\ r.uid <= n.uid
        BY DEF SafetyInvariant, RequestsSound, TypeOK, MergeRequest
      <3>2. \A r \in mrs : r.task = t => r.uid # n.uid + 1
        BY <1>2, <3>1
      <3>3. m.uid = n.uid + 1 /\ UNCHANGED mrs
        BY <1>6 DEF Created
      <3> QED  BY <3>2, <3>3 DEF OpenedOf, Opened, OpenedFor
    <2>3. PooledOf(t)' \in BOOLEAN
      BY DEF PooledOf, Exists
    <2>4. Lifecycle!Submit(t)
      BY <1>0, <1>1, <2>1, <2>2, <2>3, Mapped
      DEF Lifecycle!Submit, phases, pooled, grants, opened
    <2> QED  BY <2>4 DEF Lifecycle!LifecycleNext
  <1>7. CASE Written(t)
    <2>1. PooledOf(t)' = PooledOf(t) /\ GrantedOf(t)' = GrantedOf(t)
      BY <1>7 DEF Written, PooledOf, GrantedOf, Exists
    <2>2. OpenedOf(t)' = OpenedOf(t)
      BY <1>7, <1>k DEF Written
    <2>3. /\ UNCHANGED <<pooled, grants, opened>>
          /\ phases' = [phases EXCEPT ![t] = PhaseOf(t)']
      BY <1>0, <2>1, <2>2, Mapped, MappedSame
    <2>4. PhaseOf(t) = n.status.phase /\ PhaseOf(t)' = m.status.phase
      BY <1>7 DEF Written, PhaseOf, Exists, Phase
    <2>5. /\ PooledOf(t) = n.spec.pooled /\ GrantedOf(t) = n.granted
          /\ OpenedOf(t) = Opened(t)
      <3>1. n.spec.pooled \in BOOLEAN /\ n.granted \in BOOLEAN
        BY <1>2 DEF AgentTaskObject, TaskSpec
      <3> QED  BY <1>7, <3>1 DEF Written, PooledOf, GrantedOf, OpenedOf, Opened, OpenedFor, Exists
    <2>6. Edge(n, m.status.phase) /\ (m.status.phase = "Succeeded" => Opened(t))
      BY <1>7 DEF Written
    <2>7. \A from, to : phases[t] = from /\ PhaseOf(t)' = to => Lifecycle!Moves(t, from, to)
      BY <2>3 DEF Lifecycle!Moves, phases, pooled, grants, opened
    <2>8. CASE n.status.phase = "Pending" /\ m.status.phase = "Initializing" /\ HasSlot(n)
      <3>1. PooledOf(t) => GrantedOf(t)
        BY <2>5, <2>8 DEF HasSlot
      <3>2. Lifecycle!Admit(t)
        BY <1>1, <2>4, <2>7, <2>8, <3>1 DEF Lifecycle!Admit, pooled, grants
      <3> QED  BY <3>2 DEF Lifecycle!LifecycleNext
    <2>9. CASE n.status.phase = "Initializing" /\ m.status.phase = "Running"
      <3>1. Lifecycle!Launch(t)
        BY <1>1, <2>4, <2>7, <2>9 DEF Lifecycle!Launch
      <3> QED  BY <3>1 DEF Lifecycle!LifecycleNext
    <2>10. CASE n.status.phase = "Running" /\ m.status.phase = "CreatingMR"
      <3>1. Lifecycle!Complete(t)
        BY <1>1, <2>4, <2>7, <2>10 DEF Lifecycle!Complete
      <3> QED  BY <3>1 DEF Lifecycle!LifecycleNext
    <2>11. CASE n.status.phase = "CreatingMR" /\ m.status.phase = "Succeeded"
      <3>1. OpenedOf(t)
        BY <2>5, <2>6, <2>11
      <3>2. Lifecycle!Finish(t)
        BY <1>1, <2>4, <2>7, <2>11, <3>1 DEF Lifecycle!Finish, opened
      <3> QED  BY <3>2 DEF Lifecycle!LifecycleNext
    <2>12. CASE n.status.phase \notin Terminal /\ m.status.phase = "Failed"
      <3>1. n.status.phase \in {"Pending"} \union Lifecycle!Active
        BY <1>2, <2>12 DEF Phases, Terminal, Lifecycle!Active
      <3>2. Lifecycle!Moves(t, n.status.phase, "Failed")
        BY <1>1, <2>4, <2>7, <2>12
      <3>3. Lifecycle!Fail(t)
        BY <3>1, <3>2 DEF Lifecycle!Fail
      <3> QED  BY <3>3 DEF Lifecycle!LifecycleNext
    <2> QED  BY <2>6, <2>8, <2>9, <2>10, <2>11, <2>12 DEF Edge
  <1>8. CASE Edited(t)
    <2>1. PhaseOf(t)' = PhaseOf(t) /\ GrantedOf(t)' = GrantedOf(t)
      BY <1>8 DEF Edited, PhaseOf, GrantedOf, Exists, Phase
    <2>2. OpenedOf(t)' = OpenedOf(t)
      BY <1>8, <1>k DEF Edited
    <2>3. /\ UNCHANGED <<phases, grants, opened>>
          /\ pooled' = [pooled EXCEPT ![t] = PooledOf(t)']
      BY <1>0, <2>1, <2>2, Mapped, MappedSame
    <2>4. PooledOf(t)' \in BOOLEAN
      BY DEF PooledOf, Exists
    <2>5. PhaseOf(t) # "Absent"
      BY <1>2, <1>8 DEF Edited, PhaseOf, Exists, Phase, Phases, Terminal
    <2>6. Lifecycle!Rebind(t)
      BY <1>1, <2>3, <2>4, <2>5 DEF Lifecycle!Rebind, phases, pooled, grants, opened
    <2> QED  BY <2>6 DEF Lifecycle!LifecycleNext
  <1>9. CASE Granted(t)
    <2>1. PhaseOf(t)' = PhaseOf(t) /\ PooledOf(t)' = PooledOf(t)
      BY <1>9 DEF Granted, PhaseOf, PooledOf, Exists, Phase
    <2>2. OpenedOf(t)' = OpenedOf(t)
      BY <1>9, <1>k DEF Granted
    <2>3. /\ UNCHANGED <<phases, pooled, opened>>
          /\ grants' = [grants EXCEPT ![t] = GrantedOf(t)']
      BY <1>0, <2>1, <2>2, Mapped, MappedSame
    <2>4. GrantedOf(t)' = TRUE /\ PhaseOf(t) = "Pending"
      BY <1>9 DEF Granted, GrantedOf, PhaseOf, Exists, Phase
    <2>5. Lifecycle!Grant(t)
      BY <1>1, <2>3, <2>4 DEF Lifecycle!Grant, phases, pooled, grants, opened
    <2> QED  BY <2>5 DEF Lifecycle!LifecycleNext
  <1> QED  BY <1>3, <1>4, <1>5, <1>6, <1>7, <1>8, <1>9 DEF Change

(* Every behaviour of the reconciler and its environment, seen through the *)
(* newest version of each task, is one of TaskLifecycle.                   *)
THEOREM ImplementsLifecycle == Spec => RefinesLifecycle
  <1>1. Init => Lifecycle!LifecycleInit
    <2> SUFFICES ASSUME Init PROVE Lifecycle!LifecycleInit
      OBVIOUS
    <2>1. ASSUME NEW t \in Tasks PROVE ~Exists(t)
      BY <2>1 DEF Init, Exists, NewestTask, Current, NoTask
    <2>2. \A t \in Tasks : /\ PhaseOf(t) = "Absent" /\ PooledOf(t) = FALSE
                           /\ GrantedOf(t) = FALSE /\ OpenedOf(t) = FALSE
      BY <2>1 DEF PhaseOf, PooledOf, GrantedOf, OpenedOf
    <2> QED  BY <2>2 DEF Lifecycle!LifecycleInit
  <1>2. SafetyInvariant /\ [Next]_vars
        => [Lifecycle!LifecycleNext]_(Lifecycle!lifecycleVars)
    <2> SUFFICES ASSUME SafetyInvariant, [Next]_vars
                 PROVE  \/ Lifecycle!LifecycleNext
                        \/ UNCHANGED <<phases, pooled, grants, opened>>
      BY DEF phases, pooled, grants, opened, Lifecycle!lifecycleVars
    <2>1. ASSUME UNCHANGED mrs, \A t \in Tasks : NewestTask(t)' = NewestTask(t)
          PROVE  UNCHANGED <<phases, pooled, grants, opened>>
      BY <2>1 DEF phases, pooled, grants, opened, PhaseOf, PooledOf, GrantedOf, OpenedOf,
                  Exists, Phase, Opened, OpenedFor
    <2>2. CASE UNCHANGED vars
      BY <2>1, <2>2 DEF vars, NewestTask
    <2>3. CASE Crash
      BY <2>1, <2>3, CrashStep
    <2>4. ASSUME NEW t \in Tasks,
                 \/ Reconcile(t) \/ ReconcileStep(t) \/ apiCallFails(t)
                 \/ SyncTask(t) \/ SyncPod(t) \/ Environment(t)
          PROVE  \/ Lifecycle!LifecycleNext
                 \/ UNCHANGED <<phases, pooled, grants, opened>>
      BY <2>4, ChangeStep, LifecycleStep
    <2> QED  BY <2>2, <2>3, <2>4 DEF Next
  <1> QED
    BY <1>1, <1>2, SafetyHolds, PTL DEF Spec, RefinesLifecycle, Lifecycle!LifecycleSpec
=============================================================================
