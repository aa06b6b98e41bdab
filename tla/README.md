# A TLA+ model of kbrain

kbrain is a Kubernetes operator that runs AI coding agents. A user submits an
`AgentTask`; the operator waits for a slot of the task's `AgentPool`, runs the
agent in a pod that clones a repository and pushes a branch, and opens a
pull/merge request for that branch. This directory models the two controllers
of the operator, the pods it builds with the scripts that run in them, and the
client of the git platforms; it checks them with TLC on small instances, and proves
the most important results for every instance with TLAPS.

All paths below are relative to the repository (`src/`).

## 1. The system

### 1.1 Components

| Component | State it keeps | Operations | Properties that make it correct |
|---|---|---|---|
| **AgentTask controller** `internal/controller/agenttask_controller.go` | none of its own: the phase, pod name, branch, start and end time and MR URL in the task's status, the finalizer, the pod `agent-<task>` | `Reconcile` and one handler per phase, `handleDeletion`, `setPhase`, `setFailed` | the phase diagram; final phases are final; the status is true; one agent run per task; an MR only after the agent succeeded; deletion and timeouts complete |
| **AgentPool controller** `internal/controller/agentpool_controller.go` | none of its own: the annotation `pool-slot-granted` on tasks, the pool's status | `Reconcile` (list, categorise, grant, update status), `mapTaskToPool` | no more tasks than slots; first come, first served; every task served; the status is up to date |
| **Pod builders** `internal/podbuilder` | none | build the pod of a cloud or an ollama task | the pod is owned by the task; its containers can all finish |
| **Entrypoints** `docker/entrypoints` | the clone in the pod's workspace, the remote branch | clone, run the agent, commit, push | success means that the work is in the repository; nobody's work is overwritten; the base branch is left alone |
| **Git client** `internal/gitops` | none | parse the repository URL, POST the PR/MR | the request reaches the repository of the task, and no other |
| **Operator process** `cmd/main.go` | informer caches, work queues | starts the manager and both controllers | a restart loses nothing that matters |
| API types, CRDs, RBAC, manifests, generated code, tests | | | |

### 1.2 How they interact

There is no call between the two controllers. They share the `AgentTask`
objects in the API server:

    user ----create/edit/delete----> AgentTask <---annotation--- pool controller
                                       |   ^  \--events by spec.poolRef--^
                                 events|   | status, finalizer
                                       v   |
                                 task controller --create/delete--> agent pod
                                       |                               | push
                                       '--------POST MR-----------> git platform

* Reads of both controllers go to an informer cache that a watch fills some
  time after the API server stored a version. Each kind of object has a watch of
  its own, so the cache of pods may be ahead of or behind that of tasks.
* Writes go to the API server and carry the `resourceVersion` of what was read;
  it refuses an update of an older version with a conflict.
* Events, errors, `Requeue` and `RequeueAfter` put a name in a controller's work
  queue. Each controller has one worker (`MaxConcurrentReconciles` is left at 1).
* Owner references let the garbage collector delete the pod of a task that is gone.

### 1.3 What is hard

* **Stale reads**: a handler decides on a cached version and other actors move
  on; a decision about one object rests on a stale version of another.
* **Crashes and failures between two calls**: a handler makes up to four calls,
  and records what it did only with the last one. Calls fail, or succeed with
  their answer lost; the POST of the merge request is not idempotent.
* **Names reused**: pods are named after tasks, tasks are created again; work branches
  are named after tasks too, so pods of several tasks push to one branch.
* **Shell scripts**: a failing command must end the script, a loop that waits must have
  something to wait for, and the order of the containers of a pod is the kubelet's.
* **Bookkeeping by listing**: the pool controller derives the free slots from a
  list of tasks that is out of date and does not show its own latest grants.
* **Progress**: only timeouts, polling and requeues keep things moving.

`PROJECT.json` lists the hazards at their lines.

## 2. The modules

| Module | What it is |
|---|---|
| `WatchedStore` | an API object and the informer's copy of it, as a window of versions |
| `WatchedStoreProofs` | lemmas about such windows, for the proofs of both controllers |
| `TaskLifecycle` | abstract specification: what an AgentTask promises to those who watch it |
| `AgentTask` | the task controller with users, the pool, kubelet, garbage collector, git platform |
| `AgentTaskProofs` | types, true and final statuses, and that `AgentTask` implements `TaskLifecycle` |
| `AgentRunProofs` | the agent of a task runs once; merge requests follow its own success and ask for its own branch |
| `SlotQueue` | abstract specification: what a pool promises to its tasks |
| `SlotQueueProofs` | theorems about `SlotQueue` |
| `AgentPool` | the pool controller with users and the tasks, as its own controller moves them |
| `AgentPoolProofs` | types, and who is granted a slot |
| `AgentPoolSlotProofs` | slots and order, and that `AgentPool` implements `SlotQueue` |
| `GitOps` | the client for git platforms as operators on token sequences |
| `GitOpsProofs` | where the requests of the client arrive, for any repository |
| `AgentPod` | the pods of cloud and ollama tasks and their scripts, command by command |
| `Delivery` | `AgentPod` and `GitOps` composed, with the operator's requests, the platform and people |
| `DeliveryProofs` | theorems about `Delivery` |
| `MCAgentTask`, `MCAgentPool`, `MCDelivery` | constants for TLC |

How they fit together:

    TaskLifecycle <--implements-- AgentTask          SlotQueue <--implements-- AgentPool
          |  arbitrary grants, arbitrary pod            |  tasks that move as TaskLifecycle allows
          '------- the slot granted to a task ----------'
    AgentTask: a pod's outcome is one action  <--opened up in--  Delivery = AgentPod + GitOps

`AgentTask` takes grants at any time (`GrantSlot`), so it covers whatever `AgentPool` does;
`AgentPool` moves tasks as `TaskLifecycle` allows, which `AgentTask` implements. A write of
one controller that makes the other's conflict is, for the other, an API error or a newer
version of the task, and both are in both models. So the two are checked apart, and what
holds of each holds of the two together.

### 2.1 WatchedStore

An object is a nonempty sequence of versions: the first is in the cache, the last in
the API server, the others are watch events on their way. A write appends, a
delivery drops the first, a restart (`Relisted`) keeps only the last.

### 2.2 AgentTask

One action is one step of a `Reconcile` call up to and including one call of the API
server or the git platform, so anyone may act between two calls. `rec[t]` is
the call under way: where it stands (`pc`), the object it holds and the status it
is about to write.

| Action | Code |
|---|---|
| `Reconcile` | `Get`, deletion and finalizer tests, the switch over the phase (57-94) |
| `ensureFinalizer` | `AddFinalizer`, `Update`, and on to the switch with the returned object (70-76) |
| `handlePending` | validation, pool gate, API key secret (96-136) |
| `handleInitializing`, `createPod` | look for the pod; build and create it, `AlreadyExists` included (138-181) |
| `handleRunning`, `deleteTimedOutPod` | look at the pod; timeout (183-228) |
| `handleCreatingMR` | token, POST (230-285); the platform is a set of open MRs and of pushed branches |
| `handleDeletion`, `removeFinalizer` | delete the pod; remove the finalizer (287-302) |
| `updateStatus` | the status update in `setPhase`, shared by all handlers (304-316) |
| `apiCallFails` | any API call that returns an error Reconcile passes on |
| `SyncTask`, `SyncPod`, `Crash` | the informers and the process (`SetupWithManager`, 382-389) |
| the rest | users (`CreateTask`, `EditTask`, `DeleteTask`), the pool controller (`GrantSlot`), kubelet, garbage collector, time |

What the model keeps of a spec is what the handlers branch on; of names, times,
URLs and the like only whether they are set. `uid` numbers the tasks that had one
name. `overdue` holds the tasks whose pod exists longer than `spec.timeout`;
`Expire` may happen at any time, so every timeout is covered. `hist` is history
that no guard reads: how many pods were made for the task that has the name now, how
many of those someone else deleted, and whether one succeeded.

The pod's outcomes come from the entrypoints: success with a push or without one
("No changes to commit." exits 0), failure before or after the push.

### 2.3 TaskLifecycle, and how AgentTask implements it

`TaskLifecycle` has four functions of a task: its phase (or absent), whether it names
a pool, whether it was granted a slot, whether a merge request was opened for it.
Its actions are the arrows of the diagram in ARCHITECTURE.md (90-101), with the pool's gate on
`Admit` and the open merge request on `Finish`. `AgentTask` implements it under
the mapping `Lifecycle` (the newest version of each task): `RefinesLifecycle` is
checked by TLC and proved.

The code deviates from the diagram where the model shows it to: a merge
request may be opened in a retry after the task has ended (`OpenMR`).

### 2.4 AgentPool

`Reconcile(p)` reads the pool, `listPoolTasks` reads the tasks, sorts them into
categories and chooses whom to grant a slot, `grantSlot` is one turn of the
loop of updates, `updateStatus` writes the status and requeues. All tasks arrive
through one watch, so one window of versions of the whole collection is kept.
`Admit`, `Advance`, `Refuse` and `Remove` are the task controller, as `TaskLifecycle` lets it.
The `resourceVersion` of a task is its content here.

* Creation timestamps are counted in seconds; ties in the sort fall either way
  (`FifoPrefix`): `sort.Slice` is not stable and the cache lists a map.
* The client's answer to a list by an unknown index (an error) is that of
  controller-runtime v0.19.4 (go.mod); no index is registered in `cmd/main.go`.

* `Listed` follows the label selector alone, since the filter on poolRef keeps every
  task when there is one (152). `{}` as a selector is one that matches every label.

`SlotQueue` is the same pool without objects, caches and calls: a task is `queued`,
`admitted`, `working` or `ended`, and is granted a slot only if there is one for it *and for
every task before it*. `RefinesQueue` maps the newest versions of the tasks to these
places (`PlaceOf`); it says that lists that are out of date, updates that fail and restarts never
make the pool grant a slot that is not there.

### 2.5 GitOps

A URL is a sequence of tokens with the separators as tokens of their own, and `parseGitHubRepo`
and `parseGitLabProject` cut it as the code does. `Forms` are the ways in which git can be told the
repository; `Serves(r)` is the request that the platform takes for repository `r`, so `Reached` says where the
request really goes. The module has no state.

### 2.6 AgentPod

`stage[r]` is the command that comes next in pod `r`; each action is one command of a script.

| Action | Code |
|---|---|
| `Schedule` | `createPod` of `AgentTask`: the pod exists |
| `gitClone` | the script of the init container git-clone (podbuilder.go 94-119) |
| `awaitOllama` | the loops of model-pull (ollama.go 88-101) and of the entrypoints (9-17) |
| `startContainers` | the kubelet, once the init containers have ended |
| `runAgent` | claude, aider or codex: leaves changes, commits of its own (aider may not), both or neither |
| `commitChanges`, `pushBranch` | `git add`, `git diff --cached --quiet`, `git commit`; `git push` (25-33) |
| `commandFails` | any command, before it has an effect; `set -e` ends the script |
| `Kill` | eviction, the timeout of `handleRunning`, deletion |

A branch is the set of the commits in its history: a push is accepted when the remote history is
contained in the one that is pushed. `{}` stands for a branch that does not exist. The
clone keeps the history of its work branch and whether files differ from it.
Agents are taken not to push or switch branches themselves.

### 2.7 Delivery

Several pods share one repository. `handleCreatingMR` asks for a merge request of a pod that has
succeeded, with the branches the pod was given; the request goes where `GitOps` sends it, and is accepted
if the repository is there, both branches exist and differ, none is open between
them and, on GitHub, there is something new in the source. `People` push to any branch, merge (and
may delete the source branch) and close requests. The requests are made once here: that they may be repeated is in `AgentTask`.

## 3. What the runs check

### 3.1 Runs that pass

| Run | Properties | Instance |
|---|---|---|
| `AgentTaskSafety` | `TypeOK`, `StatusTruthful`, `AtMostOneAgentRun`, `MRNeedsOwnAgentRun`, `RefinesLifecycle`, `TerminalIsFinal` | 1 task, plain or pooled, edited from one to the other; one fault of any kind; caches up to 3 versions behind |
| `AgentTaskEnds` | `TaskTerminates`, `DeletionCompletes`, `PodReclaimed` | 1 task, pooled, invalid, without a token or on an unsupported platform; one eviction, missing secret, platform error, API error or crash; lag 1 |
| `AgentPoolSlots` | `NoOverbooking`, `NoOvertaking`, `RefinesQueue` | 3 tasks and a fourth submission, 1 pool of 1 or 2 slots; two crashes or API errors; lag 1 |
| `AgentPoolEdited` | `TypeOK`, `GrantsAreDue` | 2 tasks created in one second, 1 pool with or without selector; two of relabel, resize, drop; lag 1 |
| `AgentPoolService` | `EveryTaskServed`, `StatusCatchesUp` | 2 tasks, 1 pool of 1 or 2 slots; a task may be Running for ever; one crash or API error; lag 1 |
| `Delivery` | `TypeOK`, `WorkSurvives`, `OpenedWhereCloned`, `BaseIsSafe`, `PushedIsOffered`, `RunEnds` | 2 cloud pods, claude-code or aider, one generated branch or the base branch as work branch; 4 repositories of one path on three hosts or in a subgroup, named in 8 ways; one push by others |

The properties in words stand above their definitions. `StatusTruthful`,
`RefinesLifecycle` and `TerminalIsFinal` are about what watchers see;
`AtMostOneAgentRun` and `MRNeedsOwnAgentRun` are about the agent; `NoOverbooking` is stronger than
the pool's maximum: it counts the tasks that were granted a slot and have not
started yet, which the code itself does not count. In `Delivery`, `WorkSurvives` and
`BaseIsSafe` are about what pods do to the repository, `PushedIsOffered` and `OpenedWhereCloned` about where
requests go, and `RunEnds` says that the scripts of a cloud pod wait for nothing that never comes.

`TaskTerminates` makes an exception of a task that is Running without a start time, and
`WorkSurvives` of an agent that committed everything by itself; the first is what `AgentTaskStartTimeLost` shows, for
the second see below. The first exception reaches the pool: if the agent of such a task hangs, the task keeps its slot
for ever. `EveryTaskServed` therefore promises a slot to every task that waits, unless tasks that are
Running for ever take all the slots of the pool. That does happen in the run: without
the exception (`Waiting(p, t) ~> ~Waiting(p, t)`) TLC finds one hung task that keeps the only slot, and
another one that waits for ever.

A property is checked where its bounds let it fail. `MRNeedsOwnAgentRun` needs a name that is used twice to fail for any other reason
than a wrong reading of the pod, so `AgentTaskSafety` checks that reading and `AgentTaskAdopted` the reuse.
`PodReclaimed` begins when the task is gone; a timed-out pod that could not be deleted works on until then, and
no property says otherwise.

### 3.2 Runs that show a disagreement

Each of them checks one statement of the repository and TLC finds it violated; all but the
two with a crash need no fault at all.

| Run | Statement | What happens |
|---|---|---|
| `AgentTaskStalePod` | "agent pod was deleted" (controller 194) | the pod just created is not in the cache yet; the task fails for good |
| `AgentTaskAdopted` | "Running --> CreatingMR : pod succeeded" | a task created again adopts its predecessor's pod and takes its success for its own |
| `AgentTaskMRLost` | "CreatingMR --> Succeeded : PR/MR created" | crash between POST and status update: the retry is refused, the task fails, its MR is open |
| `AgentTaskStartTimeLost` | "enforce timeout" | crash between creating the pod and recording it: no start time, no timeout |
| `AgentPoolTies` | "maximum number of concurrent agent tasks" | two tasks of one second, one slot: two calls in a row pick different ones |
| `DeliveryOllama` | "waits for the Ollama server, then pulls the model" | the init container waits for a container that starts only after it; only the timeout ends the pod |

More were met while modelling and have no run, because every behaviour shows them, or because no
statement of the repository is refuted:

* A pool without a selector is never served: `MatchingFields` needs an index on `spec.poolRef` that nobody
  registers (pool controller 141-142, `cmd/main.go` 182-220), so each of its calls ends in an error.
* The comment "Filter by poolRef if using label selector" (149) stands over a condition
  that keeps every task when there is a selector (152).
* Events are mapped by poolRef and members found by label (167): the status of a pool does not follow a
  member that names no pool. The sample tasks are such members, and work without a slot (task controller 111).
* `defaultModelProvider` and the other defaults of a pool, `queueStrategy: priority`, `approvalMode: auto-merge`
  (the client ignores `AutoMerge`) and `pullTimeout` are declared and have no effect.
* An agent that commits everything by itself leaves nothing staged: the entrypoint exits 0 without a push.
* An agent that changes nothing succeeds too, and the request is made for whatever is on the branch of that name.
* The ollama container never exits, so a pod that has one would not Succeed when its agent does.
* The git credentials are mounted in git-clone and no git command uses them ("for cloning repos and pushing branches",
  `config/samples/secrets.yaml`).
* "Defaults to the first key if empty" (`agenttask_types.go` 101): a map has no first key, and the pod is given `api-key`.

### 3.3 Bounds, and why they are enough

* *Tasks.* Handlers of different tasks share only the worker, the merge requests and the
  branches; `AgentTask` is checked with one task at a time (the proofs cover
  any number, sharing included). Pools need two tasks for a tie or an overbooked
  slot, three for overtaking with a slot to spare.
* *Incarnations*: 1 in the runs that pass, 2 (a predecessor and a successor of one name) in
  `AgentTaskAdopted`. What watchers see of a task created again, and that its agent runs once, is proved for any number.
* *Lag* (`MaxLag`): a writer waits when a cache is that many versions behind. With 2, a
  call can hold a version two writes old and a cache can miss both the grant and the
  phase that follows; `AgentTaskSafety` allows 3. `AgentTaskEnds`, where delays end, has 1. In the pool 1 suffices for a list that misses
  a grant and, because a call holds its list across deliveries, for grants based on
  a list that is many versions old.
* *Faults* (`MaxFaults`): each is a call that fails, a crash, an edit or another
  intervention at any point of the behaviour; two where their combination matters.
* *Submissions, seconds*: `MaxSubmissions` tasks, `Gaps` seconds apart: 1 in the runs on
  slots and service, 0 where ties are wanted.
* *Memberships*: tasks name the pool whose label they carry, or neither. For a task with
  the label and no poolRef, which works without a slot and is counted, `NoOverbooking` is false.
* *Pools*: one. A call concerns one pool, and with these memberships pools share only the worker.
* `Stages`: which active phases a pool sees; the code does not tell them apart.
  One or two suffice; in `AgentPoolService` the two are one in which a task may stay for ever and one that it leaves.
  No run has `PushingBranch`: `Reconcile` counts it (line 65), and nobody writes it.
* `StatusFields`: the fields of pool statuses a run keeps, one at most: `queued` or none in the safety runs, since no guard
  but the resourceVersion depends on them, and `active` in `AgentPoolService`. All four are counted
  from one list and written by one update.

* *Pods, branches*: two pods meet on one branch, and a third does to either what people do
  (`Advance`, one push to any branch at any time); two branches, one of them the base. The proofs cover any number.
* *URLs*: every form the comments name on both platforms, a subgroup, and forms that the client does not understand; the path
  recurs on every host, so that a request that loses the host reaches another repository.

Deadlock is not checked: a system whose tasks have all ended, whose caches have caught up
and whose users do nothing really stops.

### 3.4 Fairness

`FairSpec` of both controllers assumes only what runs by itself:

* the worker finishes a call it has begun (`WF` of `ReconcileStep`) and does not
  pass over a queued name for ever (`SF` of `Reconcile`: the work queue is first in,
  first out, and delays and back-offs end);
* watches deliver (`WF` of `SyncTask`, `SyncPod`, `SyncTasks`, `SyncPool`);
* in `AgentTask`, deleted pods stop, the garbage collector collects, time passes
  (`Expire`). Neither the agent, the pool's grants nor users are fair: `TaskTerminates` holds
  although an agent hangs, and starts from a task that has its slot.
* in `AgentPool`, a task that has its slot starts (`SF` of `Admit`) and goes on from every phase but Running (`SF` of
  `Advance` where the phase is not Running). That is what `TaskTerminates` says of `AgentTask`, no more: a
  Running task ends, too, if it has a start time, but the pool does not see which one has.

* in `Delivery`, the commands of a started pod go on and end (`WF` of `Script`), and the operator asks for the
  merge request of a pod that has succeeded. That an agent ends is assumed here; one that hangs is covered by
  `TaskTerminates`. A loop that waits for a server is *not* assumed to end.

Faults are bounded, so "in the end" means: after the last fault.

## 4. What is proved

### 4.1 AgentTask

`AgentTaskProofs` holds for any set of tasks, any specs, branches and kinds of
faults and any `MaxFaults`, `MaxLag`, `MaxIncarnations`, from `ConstantsAssumption`
alone (the specs are specs, the bounds numbers, there is a branch).

| Theorem | Statement |
|---|---|
| `TypeCorrect` | `Spec => []TypeOK` |
| `SafetyHolds` | `Spec => []SafetyInvariant` |
| `StatusIsTruthful` | `Spec => []StatusTruthful` |
| `TerminalStays` | `Spec => TerminalIsFinal` |
| `ImplementsLifecycle` | `Spec => RefinesLifecycle` |
| `RunsAtMostOnce` (`AgentRunProofs`) | `Spec => []AtMostOneAgentRun` |
| `MergeRequestIsEarned` (`AgentRunProofs`) | `Spec /\ [][NamesWait]_vars => []MRNeedsOwnAgentRun` |
| `MergeRequestOfFirstIsEarned` (`AgentRunProofs`) | `Spec => []MRNeedsOwnAgentRun`, if `MaxIncarnations <= 1` |
| `RequestsAskForWork` (`AgentRunProofs`) | `Spec /\ [][BranchesKept]_vars => []AskForWork` |

**Why an invariant is needed.** An update of the status writes a record that was
computed some actions ago from a version read even earlier. That it is an edge of the phase
diagram *now* follows from the conflict check (`Fresh`) only if versions with one
`resourceVersion` are the same version, and if the written status was an edge
from the version read. `SafetyInvariant` (end of `AgentTask`) says so for every task:

* `VersionsSound`: every version in the window is not after the newest one
  (`NotAfter`: smaller `rv` or the same version, no later uid, no later phase) and true;
* `CallSound`: the call holds a version that was once the newest, whose phase fits
  the handler, and a status to write that is an `Edge` from that version and true;
* `RequestsSound`: merge requests are of uids there are or have been, so that a
  new task starts with none.

**Argument.** `TypeCorrect` goes by one lemma for each group of actions over lemmas for
each helper. `SafeReconcile`, `SafeEnvironment` and `SafeCrash` show that each action keeps the
invariant; most cases reduce to `NewVersion` (a write of a fresh version keeps
`VersionsSound`) and `CallStays` (other actors' writes keep `CallSound`). `ChangeStep`
says what a step may do to the newest version of one task and leaves the others
alone; from it follow `TerminalStays` and, action by action, `LifecycleStep`, the step
simulation of `ImplementsLifecycle`.

**Why the agent runs once.** `createPod` looks at the server, not at the cache, but it is
called with a task that may be long gone: a pod is made for a task only if the name is
free at that moment, and the name becomes free again when the task fails or is deleted while
an old version, or a call that was delayed, still says "Initializing". `RunInvariant` has what rules this out:

* `InOrder`: of two versions in a window the later one is of a later task or of the same, and
  once a version is `Over` (gone, being deleted, or past Initializing) so are all later
  ones of that task; no version is before the one a call under way holds;
* `Unmarked`: no pod is made for a task before it has its finalizer, so it is never removed
  with a pod just made; `Gone`: a removed task is `Spent`, that is no version in a cache and no
  call can get at making a pod for it any more;
* `Known`: once the task has its pod, caches and calls have forgotten the tasks that
  had the name before, so no call on one of those takes its pod away;
* `RunsOnce`: the pods made are at most one more than those evicted, and when they are one
  more, the last one stays (`OwnPod`) or the task is `Spent`.

The parts are proved together, since each needs the others. A step of the specification makes one of nine
moves of a task (`Move`: a call reads, goes on, makes a pod; a version is
rewritten, marked with the finalizer, removed, created; the pod goes; or nothing changes),
`EveryMove`, and each part of the invariant is shown for moves instead of actions.

**Why the merge request is earned.** `NamesWait` asks of users that they give a name to a new task only when no version of
the old pod is left, on the server or on its way to the cache. It is needed: in `AgentTaskAdopted` the second task of a name goes
on with the success of the first. It is also enough, for any number of uses of a name: `ForNewest` says that a version
from which a call may get at making a pod, and a call that is about to make one, are of the newest incarnation,
so every pod is of the newest one (`OwnedByNewest`). It follows from `Gone`: an incarnation is removed only when it
is `Spent`, so nothing of it is left that could make a pod for its successor to adopt.
`OutcomeInvariant` then carries "a pod of this task succeeded" from the pod's versions to the call that reads one of them
(`handleRunning`), to the status it writes, to the versions of the task and to the calls that read those. With names used
once there is nothing to wait for (`MergeRequestOfFirstIsEarned`).

**Why it asks for the right branch.** `handleCreatingMR` asks for the branch in the status, and for that of the spec when the status
has none; a conflict, a lost answer or a crash after `createPod` lose the one in the status. As long as nobody edits the branch
(`BranchesKept`), each incarnation has one branch: the invariant `PlanInv` says that *there is* a plan, a
function from incarnations to branches, to which all versions, pods, calls and requests keep. A new task extends the plan; every other
action keeps to the same one. So a retry asks for the branch it asked for before, which the platform refuses. Without the hypothesis TLC
finds `AskForWork` violated: one edit between `createPod` and its status update, when the other branch is there already, makes the request
ask for that one, and with a crash besides, a task gets two requests.

### 4.2 SlotQueue

For any finite set of tasks, any pools and any slots:

| Theorem | Statement |
|---|---|
| `QueueKeepsOrder` | `QueueSpec => []QueueInv` |
| `QueueNeverOverbooked` | `QueueSpec => []NotOverbooked` |

A count does not help as an invariant: a grant adds to the admitted tasks, and that there is room for one more is
only known for the last in line. `InOrder` says of *every* admitted task that there is a slot for it and for all
before it; a task that arrives is after them, one that starts moves from before them to the working ones, one that leaves only makes
room. `NotOverbooked` follows from `InOrder` at the admitted task that came last, which exists by `HasLast`: all
admitted tasks are before it. AgentPool inherits this through `RefinesQueue`.

### 4.3 AgentPool

For any finite set of tasks, any pools, specs and numbers of faults, from `ConstantsAssumption`:

| Theorem | Module | Statement |
|---|---|---|
| `TypeCorrect` | `AgentPoolProofs` | `Spec => []TypeOK` |
| `OnlyMembersGranted` | `AgentPoolProofs` | `Spec => GrantsAreDue` |
| `NeverOverbooked` | `AgentPoolSlotProofs` | `OrderlyUse`: `Spec => []NoOverbooking` |
| `NeverOvertaken` | `AgentPoolSlotProofs` | `OrderlyUse`: `Spec => []NoOvertaking` |
| `ImplementsQueue` | `AgentPoolSlotProofs` | `OrderlyUse`, `NoOutsiders`: `Spec => RefinesQueue` |

**Assumptions.** `OrderlyUse` is how pools are meant to be used, and each part is needed: a task with the label of a pool names that
pool and no other (else it works without a slot); no two tasks come in one second (else `AgentPoolTies`); labels and
`maxConcurrency` are not edited (else slots handed out earlier are too many). Calls that fail, crashes, removed pools and
tasks, and caches any number of versions behind are all allowed. `NoOutsiders` says that every task is in a pool: for others the
abstract queue has no place. The constants of `AgentPoolSlots` satisfy both.

**Why an invariant is needed.** A call grants slots from a list that was old when it was read; meanwhile tasks start,
end, come and go, and the grants of the call before may not be in the list. The code counts neither those grants nor the starts it
does not see. That the slots suffice all the same follows from one fact: *a task that has a slot in one version has it in every
later one*, until it starts or ends. Those that started in between had slots themselves, of these and the task the one that came last has
a slot for all (`SlotForAll`), so they and everyone before it fit (`SlotLasts`). `SlotInv` says of the
window of versions:

* `VersionsSound`: in each version working tasks fit the slots, and no two tasks came together;
* `VersionsOrdered`: every version is a `Sequel` of each before it: who came since is younger than all there were, who is still
  pending was pending, and whoever works or may start to had a slot in the earlier version or worked already;
* `NoReturn`: once a name is that of another task, it does not come back to the first;
* `CallSound`: what a call has still to grant had its slot in *every* version the next call may read, if it is still the task the call read;
* `SpecsFixed`, `GrantSound`, `TypeOK`.

**Argument.** Every step is one of four kinds of writes or none (`StepWrites`); for each, the new version is a sequel of those in
the window (`SequelOfWrite`) and sound (`SoundWrite`), and a call under way keeps what it has to grant (`CallGoesOn`). `NoOverbooking`
and `NoOvertaking` follow from `Sequel` of the newest version with itself, the first with `SlotForAll`. For `ImplementsQueue`, a write of a task moves it in the one pool it is in (`WriteMoves`,
`PoolOfTask`), and a grant finds in `CallSound` the slot the abstract queue asks for.

### 4.4 GitOps

| Theorem | Statement |
|---|---|
| `GitHubReaches`, `GitLabReaches` | what the request built from a URL of `r` reaches on its platform is `r` or nothing, and `r` when the form is understood and the host that of the platform |
| `RequestsReach` | the same of `CreatePullRequest`, whatever platform the task names |

This is for any set of repositories with paths of any length (`IsRepository`: a path has an owner and a name, and no `:`, `@`, `.git` or `%2F` in it) and every member of `Forms`. Runs
check it on four repositories. **Argument.** The operators cut token sequences. `SplitFirst` finds the first separator as
the least element of the set of places where it occurs; `SplitAt` and `SplitAfter` say what `SplitN2` returns when that place is known, and
`Prefixed`, `Suffixed` and their negatives what trimming does. Each form of a URL is an `Address` of the host and a `Rear` with the path
(`WebFront`, `UserFront`, `ScpFront`, `SshFront`, `RearIs`), so `FullNameOf` and `ProjectOf` compute what the parsers return. That a request reaches *no other*
repository is that the encoding of a path can be undone: on GitHub equal sequences after one prefix, on GitLab equal sequences of parts with `%2F` between
them (`Replaced`, `EncodingIs`), and that the host of a request is the host of the repositories it reaches (`HostsApart`).

### 4.5 Delivery

For any pods, branches, repositories and any number of pushes by others, from `PodAssumption`, `DeliveryAssumption` and `RepositoriesAssumption`:

| Theorem | Statement |
|---|---|
| `TypeCorrect` | `Spec => []TypeOK` |
| `NothingIsLost` | `Spec => []WorkSurvives` |
| `BaseNeverWritten` | `Spec => BaseIsSafe` |
| `OpenedOnlyThere` | `Spec => []OpenedWhereCloned` |
| `WhatIsPushedIsOffered` | `BasesStand`: `Spec => PushedIsOffered` |

`Inv` adds five parts to the types. `Branched`: a pod whose clone was made has a work branch other than its base, because
`git checkout -b` refuses an existing one; `BaseNeverWritten` follows. `Private`: what a pod has not pushed nobody else has,
and `Unmade`: the commits are made in order, so that a commit of a pod that ended without a push was the agent's.
`Kept` is `WorkSurvives` commit by commit: the only steps that take commits from a branch are an accepted push, whose history
contains that of the branch, and the removal of a merged branch, whose commits are in the target (`TwoBranches`: the target is another branch).

`OpenedOnlyThere` is where the client and the pods meet: `Bound` says that a request that was made is in the repository of the project, and the step that
makes one uses `RequestsReach`.

`WhatIsPushedIsOffered` says that a refusal after a push means that a request is open already or the work is in the target. The platform refuses for two more
reasons, a target that is not there and nothing new in the source. `Based` (the base branch of a pod that cloned it stands) and `Pushed` (a pushed commit is in the work
branch or in the base, where it was merged) rule them out. Both need `BasesStand`: tasks ask for a merge into the branch they start from, no task starts from another one's work
branch, and tasks that share a work branch share the base. The tasks of the run `Delivery` satisfy it. Without it `PushedIsOffered` is false: when a task is stacked
on the work branch of another one, merging that one may delete the target of its request.

### 4.6 Only model-checked

Liveness, which is out of the provers' reach: `TaskTerminates`, `DeletionCompletes`, `PodReclaimed`, `EveryTaskServed`, `StatusCatchesUp`, `RunEnds`. Every
invariant and every action property of the passing runs is a theorem. That the assumptions of 4.3, and `NamesWait`, `BranchesKept` and `BasesStand`,
hold of a particular use cannot be proved: users decide. What happens without them is run in `AgentPoolTies`, `AgentPoolEdited` and `AgentTaskAdopted`, or told above.

## 5. What is not modelled, and abstractions

* An answer that gets lost is modelled where it matters (`createPod`, the POST). A lost
  answer of a task update is an error after which the next call reads the result: as
  after a crash, which every run with `crash` has.
* Merge requests stay open in `AgentTask`: users close and merge them in `Delivery`.
* A commit is made by a pod or by people; files, conflicts of content and tags are not modelled.
* Agents are taken not to push, pull or switch branches; codex, claude-code and aider are free in what they edit.
* In `Delivery` the spec of a task is not edited while its pod runs; the branch name that is lost with the status update
  (`AgentTask`, `SourceBranch`) is the same then.
* Headers, titles and descriptions of requests, the parsing of answers, tokens, and the API key in the pod's environment.
* GitHub Enterprise and Bitbucket have no API in the code: requests for them are never made or go nowhere.
* Two leaders at once (an old one still in a call while the next one starts) are not
  modelled: the manifests run one replica with leader election.
* The windows of tasks in `AgentTask` are one per task, where the real watch orders
  the versions of all tasks: the model has more behaviours.
* Pools that are dropped are not created again.
* Secrets: missing or unreadable is a fault; their contents, and which key an empty
  `key` picks, are not modelled.
* An image that cannot be pulled, or a key that the secret does not have, keeps a pod from starting. In `AgentTask` a pod
  may stay as it is for ever, and the timeout ends the task. In `AgentPod` containers always start (`startContainers`), and
  `Kill` stands for the timeout.
* A pool's selector has `matchLabels` that parse or counts as none: `listPoolTasks` returns an error for both. `matchExpressions` are ignored by the
  code (135), so a task's `labels` are the pools whose `matchLabels` it has.
* `CloudPodBuilder` and `OllamaPodBuilder` never return an error: that branch, the
  empty pod name and an unknown phase cannot occur, as `TypeOK` and `StatusTruthful` show.
* Flags, metrics, TLS, probes (`cmd/main.go`), images, resources, descriptions, manifests.

## 6. Plan

Done: `WatchedStore`, `TaskLifecycle`, `AgentTask`, `AgentPool`, `SlotQueue`, `GitOps`, `AgentPod`, `Delivery`, and the proofs
of every invariant and action property that the passing runs check.

Next, in this order:

1. Two pools whose selectors match each other's tasks: whose `maxConcurrency` bounds whom.
2. A run in which the work branch is edited between the push and the merge request, with `AgentTask` and `Delivery` in one module.
