--------------------------- MODULE AgentRunProofs ---------------------------
(***************************************************************************)
(* The agent of a task runs once, however often the name of the task is    *)
(* used, calls fail and the operator dies, and however stale its caches    *)
(* are; no task goes on to its merge request unless its own agent          *)
(* succeeded, or its name was used while the pod of its predecessor lived; *)
(* and the request asks for the branch its agent worked on, unless someone *)
(* edited the name of that branch.                                         *)
(***************************************************************************)
EXTENDS AgentTaskProofs

-----------------------------------------------------------------------------
(* Runs: the inductive invariant.                                          *)

(* Version v of a task will not have a pod made for it any more, nor will   *)
(* any version of the same task after it.                                  *)
Over(v) ==
  ~v.exists \/ v.deleting \/ v.status.phase \notin {"Pending", "Initializing"}

(* A call that reads v may get as far as making a pod.                     *)
Hopeful(v) == v.finalizer /\ ~Over(v)

(* Version b may come after version a.                                     *)
Precedes(a, b) == a.uid <= b.uid /\ (a.uid = b.uid /\ Over(a) => Over(b))

(* Versions reach the cache in order, and no version that a call may read  *)
(* later is before the one that the call under way holds.                  *)
InOrder(t) ==
  LET c == rec[t] IN
  /\ \A d \in Pairs(task[t]) : Precedes(d[1], d[2])
  /\ c.pc # "idle" => \A v \in Versions(task[t]) : Precedes(c.obj, v)
  /\ c.pc \in {"initializing", "createPod"} => c.obj.finalizer
  /\ c.pc \in {"deletion", "removeFinalizer"} => c.obj.deleting
  /\ c.pc = "finalizer" => ~c.obj.finalizer

(* Neither the call under way nor one to come makes a pod for the task.    *)
Spent(t) ==
  LET u == NewestTask(t).uid IN
  /\ \A v \in Versions(task[t]) : v.uid = u => ~Hopeful(v)
  /\ rec[t].pc \in {"initializing", "createPod"} => rec[t].obj.uid # u

(* The pod of the task is there to stay.                                   *)
OwnPod(t) ==
  LET p == NewestPod(t) IN
  p.exists /\ p.owner = NewestTask(t).uid /\ ~p.terminating

(* Without its finalizer a task has no pod and no call gets at making one. *)
Unmarked(t) ==
  LET n == NewestTask(t) IN
  n.exists /\ ~n.finalizer =>
    /\ hist[t].made = 0
    /\ \A v \in Versions(task[t]) : v.uid = n.uid => ~v.finalizer
    /\ rec[t].pc # "idle" /\ rec[t].obj.uid = n.uid => ~rec[t].obj.finalizer

(* A task that is gone gets no pod.                                        *)
Gone(t) == ~NewestTask(t).exists => Spent(t)

(* Once its pod is made, caches and calls have forgotten its predecessors. *)
Known(t) ==
  hist[t].made > 0 =>
    /\ \A v \in Versions(task[t]) : v.uid = NewestTask(t).uid
    /\ rec[t].pc # "idle" => rec[t].obj.uid = NewestTask(t).uid

(* The pod that was made is there to stay, or there will be no other.      *)
RunsOnce(t) ==
  /\ hist[t].made <= 1 + hist[t].evicted
  /\ hist[t].made <= hist[t].evicted \/ OwnPod(t) \/ Spent(t)

RunInvariant(t) == InOrder(t) /\ Unmarked(t) /\ Gone(t) /\ Known(t) /\ RunsOnce(t)

-----------------------------------------------------------------------------
(* What a step may do to one task, its pod and its call.                   *)

Held(t) ==
  /\ NewestTask(t)' = NewestTask(t)
  /\ Versions(task'[t]) \subseteq Versions(task[t])
  /\ Pairs(task'[t]) \subseteq Pairs(task[t])

Wrote(t) ==
  /\ \A v \in Versions(task'[t]) : v = NewestTask(t)' \/ v \in Versions(task[t])
  /\ \A d \in Pairs(task'[t]) :
       \/ d \in Pairs(task[t])
       \/ d[1] \in Versions(task[t]) /\ d[2] = NewestTask(t)'
       \/ d[1] = NewestTask(t)' /\ d[2] = NewestTask(t)'

CallGoes(t) == rec'[t] = rec[t] \/ rec'[t].pc = "idle"

SameRuns(t) ==
  /\ NewestPod(t)' = NewestPod(t)
  /\ hist'[t].made = hist[t].made /\ hist'[t].evicted = hist[t].evicted

Rests(t) == Held(t) /\ SameRuns(t) /\ CallGoes(t)

Reads(t) ==
  LET v == Cached(task[t])
      s == rec'[t].pc
  IN
  /\ Held(t) /\ SameRuns(t) /\ rec'[t].obj = v
  /\ \/ s = "deletion" /\ v.deleting
     \/ s = "finalizer" /\ ~v.finalizer
     \/ s = "initializing" /\ v.finalizer /\ ~Over(v)
     \/ s \in {"pending", "running", "creatingMR"}

GoesOn(t) ==
  LET s == rec'[t].pc IN
  /\ Held(t) /\ rec[t].pc # "idle" /\ rec'[t].obj = rec[t].obj
  /\ hist'[t].made = hist[t].made /\ hist'[t].evicted = hist[t].evicted
  /\ \/ s \in {"updateStatus", "timeout"}
     \/ s = "createPod" /\ rec[t].pc = "initializing"
     \/ s = "removeFinalizer" /\ rec[t].pc = "deletion"
  /\ \/ NewestPod(t)' = NewestPod(t)
     \/ Over(rec[t].obj) /\ s # "createPod"

Makes(t) ==
  /\ Held(t) /\ rec[t].pc = "createPod" /\ ~NewestPod(t).exists
  /\ \/ rec'[t].pc = "idle"
     \/ rec'[t].pc = "updateStatus" /\ rec'[t].obj = rec[t].obj
  /\ LET p == NewestPod(t)' IN p.exists /\ p.owner = rec[t].obj.uid /\ ~p.terminating
  /\ hist'[t].evicted = hist[t].evicted
  /\ hist'[t].made = IF rec[t].obj.uid = NewestTask(t).uid
                     THEN hist[t].made + 1 ELSE hist[t].made

Rewrites(t) ==
  LET n == NewestTask(t)
      m == NewestTask(t)'
  IN
  /\ Wrote(t) /\ SameRuns(t) /\ CallGoes(t)
  /\ n.exists /\ m.exists /\ m.uid = n.uid /\ m.finalizer = n.finalizer
  /\ Over(n) => Over(m)

Marks(t) ==
  LET n == NewestTask(t)
      m == NewestTask(t)'
      c == rec[t]
  IN
  /\ Wrote(t) /\ SameRuns(t) /\ c.pc = "finalizer" /\ c.obj = n
  /\ n.exists /\ m.exists /\ m.uid = n.uid /\ m.finalizer
  /\ Over(n) <=> Over(m)
  /\ \/ rec'[t].pc = "idle"
     \/ /\ rec'[t].pc \in {"pending", "initializing", "running", "creatingMR"}
        /\ rec'[t].obj = m

Removes(t) ==
  LET n == NewestTask(t)
      m == NewestTask(t)'
  IN
  /\ Wrote(t) /\ SameRuns(t)
  /\ n.exists /\ ~m.exists /\ m.uid = n.uid
  /\ \/ ~n.finalizer /\ rec'[t] = rec[t]
     \/ rec[t].pc = "removeFinalizer" /\ rec[t].obj = n /\ rec'[t].pc = "idle"

Creates(t) ==
  LET n == NewestTask(t)
      m == NewestTask(t)'
  IN
  /\ Wrote(t) /\ rec'[t] = rec[t] /\ NewestPod(t)' = NewestPod(t)
  /\ ~n.exists /\ m.exists /\ ~m.finalizer /\ m.uid = n.uid + 1
  /\ hist'[t].made = 0 /\ hist'[t].evicted = 0

PodGoes(t) ==
  /\ Held(t) /\ rec'[t] = rec[t] /\ hist'[t].made = hist[t].made
  /\ \/ hist'[t].evicted = hist[t].evicted /\ (OwnPod(t) => OwnPod(t)' \/ ~NewestTask(t).exists)
     \/ hist'[t].evicted = hist[t].evicted + 1

Move(t) ==
  \/ Rests(t) \/ Reads(t) \/ GoesOn(t) \/ Makes(t) \/ PodGoes(t)
  \/ Rewrites(t) \/ Marks(t) \/ Removes(t) \/ Creates(t)

-----------------------------------------------------------------------------
(* Whatever move it is, the invariant goes on to hold.                     *)

(* What the types and the earlier invariant say of one task.               *)
LEMMA TaskFacts ==
  ASSUME SafetyInvariant, NEW t \in Tasks
  PROVE  /\ TypeOK /\ NewestTask(t) \in Versions(task[t]) /\ Cached(task[t]) \in Versions(task[t])
         /\ \A v \in Versions(task[t]) : v \in AgentTaskObject /\ v.uid \in Nat
                                         /\ v.uid <= NewestTask(t).uid
         /\ \A v \in Versions(task[t]) : /\ <<Cached(task[t]), v>> \in Pairs(task[t])
                                         /\ <<v, NewestTask(t)>> \in Pairs(task[t])
         /\ rec[t].obj.uid \in Nat
         /\ hist[t].made \in Nat /\ hist[t].evicted \in Nat
  <1>1. TypeOK /\ task[t] \in Seq(AgentTaskObject) \ {<<>>}
    BY DEF SafetyInvariant, TypeOK
  <1>2. NewestTask(t) \in AgentTaskObject
    BY <1>1, NewestTypes
  <1>3. /\ NewestTask(t) \in Versions(task[t]) /\ Cached(task[t]) \in Versions(task[t])
        /\ Versions(task[t]) \subseteq AgentTaskObject
    BY <1>1, <1>2, WindowVersions DEF NewestTask
  <1>4. \A v \in Versions(task[t]) : /\ <<Cached(task[t]), v>> \in Pairs(task[t])
                                     /\ <<v, NewestTask(t)>> \in Pairs(task[t])
    BY <1>1, <1>2, WindowPairs DEF NewestTask
  <1>5. \A v \in Versions(task[t]) : v.uid \in Nat /\ v.uid <= NewestTask(t).uid
    BY <1>3 DEF SafetyInvariant, VersionsSound, NotAfter, AgentTaskObject
  <1>6. rec[t].obj.uid \in Nat
    BY <1>1, NewestTypes DEF AgentTaskObject
  <1>7. hist[t].made \in Nat /\ hist[t].evicted \in Nat
    BY <1>1 DEF TypeOK, History
  <1> QED  BY <1>1, <1>3, <1>4, <1>5, <1>6, <1>7

(* A version before the newest is before one that follows the newest.      *)
LEMMA OrderGoesOn ==
  ASSUME SafetyInvariant, NEW t \in Tasks, InOrder(t), NEW m, m.uid \in Nat,
         Precedes(NewestTask(t), m), NEW v, v.uid \in Nat, Precedes(v, NewestTask(t))
  PROVE  Precedes(v, m)
  BY TaskFacts DEF Precedes

LEMMA OrderStays ==
  ASSUME SafetyInvariant, TypeOK', NEW t \in Tasks, InOrder(t), Move(t)
  PROVE  InOrder(t)'
  <1> DEFINE n == NewestTask(t)
             m == NewestTask(t)'
             c == rec[t]
             x == rec'[t]
             V == Versions(task[t])
             W == Versions(task'[t])
  <1>0. /\ n \in V /\ \A v \in V : v.uid \in Nat /\ Precedes(v, n) /\ Precedes(Cached(task[t]), v)
        /\ n.uid \in Nat /\ Cached(task[t]) \in V /\ c.obj.uid \in Nat
    BY TaskFacts DEF InOrder
  <1>m. m.uid \in Nat
    <2>1. task'[t] \in Seq(AgentTaskObject) \ {<<>>}
      BY DEF TypeOK
    <2>2. Current(task'[t]) \in AgentTaskObject
      BY <2>1, WindowEnds
    <2> QED  BY <2>2 DEF NewestTask, AgentTaskObject
  <1> DEFINE Calls == /\ x.pc # "idle" => \A v \in W : Precedes(x.obj, v)
                      /\ x.pc \in {"initializing", "createPod"} => x.obj.finalizer
                      /\ x.pc \in {"deletion", "removeFinalizer"} => x.obj.deleting
                      /\ x.pc = "finalizer" => ~x.obj.finalizer
  <1>s. SUFFICES (\A d \in Pairs(task'[t]) : Precedes(d[1], d[2])) /\ Calls
    BY DEF InOrder
  <1>1. ASSUME Held(t) PROVE \A d \in Pairs(task'[t]) : Precedes(d[1], d[2])
    BY <1>1 DEF Held, InOrder
  <1>2. ASSUME Held(t), CallGoes(t) PROVE Calls
    BY <1>2 DEF Held, CallGoes, InOrder
  <1>3. CASE Rests(t) \/ PodGoes(t)
    BY <1>1, <1>2, <1>3 DEF Rests, PodGoes, CallGoes
  <1>4. CASE Reads(t)
    BY <1>0, <1>1, <1>4 DEF Reads, Held
  <1>5. CASE GoesOn(t)
    BY <1>1, <1>5 DEF GoesOn, Held, InOrder
  <1>6. CASE Makes(t)
    BY <1>1, <1>6 DEF Makes, Held, InOrder
  <1>7. ASSUME Wrote(t), Precedes(n, m)
        PROVE  /\ \A d \in Pairs(task'[t]) : Precedes(d[1], d[2])
               /\ \A v \in W : v = m \/ v \in V
               /\ \A v \in V : Precedes(v, m)
    <2>1. \A v \in V : Precedes(v, m)
      BY <1>0, <1>m, <1>7, OrderGoesOn
    <2>2. Precedes(m, m)
      BY <1>m DEF Precedes
    <2> QED  BY <1>7, <2>1, <2>2 DEF Wrote, InOrder
  <1>8. ASSUME Wrote(t), Precedes(n, m), CallGoes(t) PROVE Calls
    <2>1. CASE x.pc = "idle"
      BY <2>1
    <2>2. CASE x = c /\ c.pc # "idle"
      <3>1. Precedes(c.obj, n)
        BY <1>0, <2>2 DEF InOrder
      <3>2. Precedes(c.obj, m)
        BY <1>0, <1>m, <1>8, <3>1, OrderGoesOn
      <3> QED  BY <1>7, <1>8, <2>2, <3>2 DEF InOrder
    <2> QED  BY <1>8, <2>1, <2>2 DEF CallGoes
  <1>9. CASE Rewrites(t)
    <2>1. Wrote(t) /\ CallGoes(t) /\ Precedes(n, m)
      BY <1>0, <1>9 DEF Rewrites, Precedes
    <2> QED  BY <1>7, <1>8, <2>1
  <1>10. CASE Removes(t)
    <2>1. Wrote(t) /\ CallGoes(t) /\ Precedes(n, m)
      BY <1>0, <1>10 DEF Removes, Precedes, CallGoes, Over
    <2> QED  BY <1>7, <1>8, <2>1
  <1>11. CASE Creates(t)
    <2>1. Wrote(t) /\ CallGoes(t) /\ Precedes(n, m)
      BY <1>0, <1>11 DEF Creates, Precedes, CallGoes
    <2> QED  BY <1>7, <1>8, <2>1
  <1>12. CASE Marks(t)
    <2>1. Wrote(t) /\ Precedes(n, m) /\ Precedes(m, m) /\ c.obj = n /\ c.pc = "finalizer"
      BY <1>0, <1>12 DEF Marks, Precedes
    <2>2. \A v \in V : Precedes(m, v)
      <3>1. m.uid = n.uid /\ (Over(n) <=> Over(m))
        BY <1>12 DEF Marks
      <3> QED  BY <2>1, <3>1 DEF InOrder, Precedes
    <2>3. \A v \in W : Precedes(m, v)
      BY <1>7, <2>1, <2>2
    <2>4. Calls
      BY <1>12, <2>3 DEF Marks
    <2> QED  BY <1>7, <2>1, <2>4
  <1> QED
    BY <1>3, <1>4, <1>5, <1>6, <1>9, <1>10, <1>11, <1>12 DEF Move

(* The next two parts.  In each, u is the task that the name t stands for. *)
LEMMA KnownStays ==
  ASSUME SafetyInvariant, NEW t \in Tasks, RunInvariant(t), Move(t)
  PROVE  Unmarked(t)' /\ Known(t)'
  <1> DEFINE n == NewestTask(t)
             m == NewestTask(t)'
             c == rec[t]
             x == rec'[t]
             V == Versions(task[t])
             W == Versions(task'[t])
             h == hist[t].made
             k == hist'[t].made
             Unmarkedx == m.exists /\ ~m.finalizer =>
                            /\ k = 0
                            /\ \A v \in W : v.uid = m.uid => ~v.finalizer
                            /\ x.pc # "idle" /\ x.obj.uid = m.uid => ~x.obj.finalizer
             Knownx == k > 0 => /\ \A v \in W : v.uid = m.uid
                                /\ x.pc # "idle" => x.obj.uid = m.uid
  <1>s. SUFFICES Unmarkedx /\ Knownx
    BY DEF Unmarked, Known
  <1>0. /\ n \in V /\ \A v \in V : v.uid \in Nat /\ v.uid <= n.uid
        /\ Cached(task[t]) \in V /\ c.obj.uid \in Nat /\ h \in Nat
    BY TaskFacts
  <1>1. /\ n.exists /\ ~n.finalizer =>
             /\ h = 0
             /\ \A v \in V : v.uid = n.uid => ~v.finalizer
             /\ c.pc # "idle" /\ c.obj.uid = n.uid => ~c.obj.finalizer
        /\ h > 0 => /\ \A v \in V : v.uid = n.uid
                    /\ c.pc # "idle" => c.obj.uid = n.uid
    BY DEF RunInvariant, Unmarked, Known
  <1>2. CASE Rests(t) \/ PodGoes(t)
    BY <1>1, <1>2 DEF Rests, PodGoes, Held, CallGoes, SameRuns
  <1>3. CASE Reads(t)
    BY <1>0, <1>1, <1>3 DEF Reads, Held, SameRuns
  <1>4. CASE GoesOn(t)
    BY <1>1, <1>4 DEF GoesOn, Held
  <1>5. CASE Makes(t)
    <2>1. c.obj.finalizer /\ c.pc # "idle" /\ \A v \in V : c.obj.uid <= v.uid
      BY <1>5 DEF Makes, RunInvariant, InOrder, Precedes
    <2>2. k = h \/ c.obj.uid = n.uid
      BY <1>5 DEF Makes
    <2>3. c.obj.uid = n.uid => \A v \in V : v.uid = n.uid
      <3> DEFINE i == n.uid
                 j == c.obj.uid
      <3>1. \A v \in V : v.uid \in Nat /\ v.uid <= i /\ j <= v.uid
        BY <1>0, <2>1
      <3>2. i \in Nat /\ j \in Nat
        BY <1>0
      <3> HIDE DEF i, j, V
      <3>3. j = i => \A v \in V : v.uid = i
        BY <3>1, <3>2
      <3> QED  BY <3>3 DEF i, j
    <2>4. m = n /\ W \subseteq V /\ (x.pc = "idle" \/ x.obj = c.obj)
      BY <1>5 DEF Makes, Held
    <2>5. n.exists /\ ~n.finalizer => c.obj.uid # n.uid
      BY <1>1, <2>1
    <2> QED  BY <1>1, <2>1, <2>2, <2>3, <2>4, <2>5
  <1>6. CASE Rewrites(t)
    BY <1>0, <1>1, <1>6 DEF Rewrites, Wrote, CallGoes, SameRuns
  <1>7. CASE Marks(t)
    BY <1>0, <1>1, <1>7 DEF Marks, Wrote, SameRuns
  <1>8. CASE Removes(t)
    BY <1>0, <1>1, <1>8 DEF Removes, Wrote, SameRuns
  <1>9. CASE Creates(t)
    <2>1. /\ \A v \in W : v = m \/ v \in V
          /\ m.uid = n.uid + 1 /\ ~m.finalizer /\ k = 0 /\ x = c
      BY <1>9 DEF Creates, Wrote
    <2>2. c.pc # "idle" => c.obj.uid <= n.uid
      BY <1>0 DEF RunInvariant, InOrder, Precedes
    <2> HIDE DEF m, x, c, n, W, V
    <2>3. \A v \in V : v.uid # m.uid
      BY <1>0, <2>1
    <2>4. c.pc # "idle" => c.obj.uid # m.uid
      BY <1>0, <2>1, <2>2
    <2> QED  BY <2>1, <2>3, <2>4
  <1> QED
    BY <1>2, <1>3, <1>4, <1>5, <1>6, <1>7, <1>8, <1>9 DEF Move

(* What is spent remains so, unless its finalizer is set or a new task     *)
(* takes the name.                                                         *)
LEMMA SpentStays ==
  ASSUME SafetyInvariant, NEW t \in Tasks, RunInvariant(t), Spent(t), Move(t),
         ~Marks(t), ~Creates(t)
  PROVE  Spent(t)'
  <1> DEFINE n == NewestTask(t)
             m == NewestTask(t)'
             c == rec[t]
             x == rec'[t]
             V == Versions(task[t])
             W == Versions(task'[t])
             Spentx == /\ \A v \in W : v.uid = m.uid => ~Hopeful(v)
                       /\ x.pc \in {"initializing", "createPod"} => x.obj.uid # m.uid
  <1>s. SUFFICES Spentx
    BY DEF Spent
  <1>0. /\ n \in V /\ Cached(task[t]) \in V
        /\ \A v \in V : v.uid = n.uid => ~Hopeful(v)
        /\ c.pc \in {"initializing", "createPod"} => c.obj.uid # n.uid
    BY TaskFacts DEF Spent
  <1>1. CASE Rests(t) \/ PodGoes(t)
    BY <1>0, <1>1 DEF Rests, PodGoes, Held, CallGoes
  <1>2. CASE Reads(t)
    BY <1>0, <1>2 DEF Reads, Held, Hopeful
  <1>3. CASE GoesOn(t)
    BY <1>0, <1>3 DEF GoesOn, Held
  <1>4. CASE Makes(t)
    BY <1>0, <1>4 DEF Makes, Held
  <1>5. CASE Rewrites(t)
    BY <1>0, <1>5 DEF Rewrites, Wrote, CallGoes, Hopeful
  <1>6. CASE Removes(t)
    BY <1>0, <1>6 DEF Removes, Wrote, Hopeful, Over
  <1> QED
    BY <1>1, <1>2, <1>3, <1>4, <1>5, <1>6 DEF Move

(* A task that ends without a finalizer never had a pod; one whose          *)
(* finalizer is removed was over in the version that the call read.        *)
LEMMA RemovedIsSpent ==
  ASSUME SafetyInvariant, NEW t \in Tasks, RunInvariant(t), Removes(t)
  PROVE  Spent(t)'
  <1> DEFINE n == NewestTask(t)
             m == NewestTask(t)'
             c == rec[t]
             x == rec'[t]
             V == Versions(task[t])
             W == Versions(task'[t])
  <1>1. /\ \A v \in W : v = m \/ v \in V
        /\ m.uid = n.uid /\ ~m.exists /\ n.exists
    BY DEF Removes, Wrote
  <1>2. ~Hopeful(m)
    BY <1>1 DEF Hopeful, Over
  <1>3. CASE ~n.finalizer /\ x = c
    <2>1. \A v \in V : v.uid = n.uid => ~Hopeful(v)
      BY <1>1, <1>3 DEF RunInvariant, Unmarked, Hopeful
    <2>2. c.pc \in {"initializing", "createPod"} => c.obj.uid # n.uid
      BY <1>1, <1>3 DEF RunInvariant, Unmarked, InOrder
    <2> QED  BY <1>1, <1>2, <1>3, <2>1, <2>2 DEF Spent
  <1>4. CASE c.pc = "removeFinalizer" /\ c.obj = n /\ x.pc = "idle"
    <2>1. Over(n) /\ \A v \in V : Precedes(n, v)
      BY <1>4 DEF RunInvariant, InOrder, Over
    <2>2. \A v \in V : v.uid = n.uid => ~Hopeful(v)
      BY <2>1 DEF Precedes, Hopeful
    <2> QED  BY <1>1, <1>2, <1>4, <2>2 DEF Spent
  <1> QED  BY <1>3, <1>4 DEF Removes

LEMMA GoneStays ==
  ASSUME SafetyInvariant, NEW t \in Tasks, RunInvariant(t), Move(t)
  PROVE  Gone(t)'
  <1>1. CASE NewestTask(t)'.exists
    BY <1>1 DEF Gone
  <1>2. CASE Removes(t)
    BY <1>2, RemovedIsSpent DEF Gone
  <1>3. CASE ~NewestTask(t)'.exists /\ ~Removes(t)
    <2>1. ~Marks(t) /\ ~Creates(t) /\ ~Rewrites(t)
      BY <1>3 DEF Marks, Creates, Rewrites
    <2>2. NewestTask(t)' = NewestTask(t)
      BY <1>3, <2>1 DEF Move, Rests, Reads, GoesOn, Makes, PodGoes, Held
    <2>3. Spent(t)
      BY <1>3, <2>2 DEF RunInvariant, Gone
    <2> QED  BY <2>1, <2>3, SpentStays DEF Gone
  <1> QED  BY <1>1, <1>2, <1>3

(* A pod is made only if there is none that will stay and the task is not   *)
(* spent; and a pod that goes leaves a spent task behind.                  *)
LEMMA RunsOnceStays ==
  ASSUME SafetyInvariant, NEW t \in Tasks, RunInvariant(t), Move(t)
  PROVE  RunsOnce(t)'
  <1> DEFINE n == NewestTask(t)
             m == NewestTask(t)'
             c == rec[t]
             x == rec'[t]
             h == hist[t]
             k == hist'[t]
  <1>0. /\ h.made \in Nat /\ h.evicted \in Nat /\ h.made <= 1 + h.evicted
        /\ h.made <= h.evicted \/ OwnPod(t) \/ Spent(t)
    BY TaskFacts DEF RunInvariant, RunsOnce
  <1>1. ASSUME k.made <= k.evicted PROVE RunsOnce(t)'
    <2>1. k.made \in Nat /\ k.evicted \in Nat
      BY <1>0 DEF Move, Rests, Reads, GoesOn, Makes, PodGoes, Rewrites, Marks, Removes,
                  Creates, SameRuns
    <2> HIDE DEF k
    <2>2. k.made <= 1 + k.evicted
      BY <1>1, <2>1
    <2> QED  BY <1>1, <2>2 DEF RunsOnce, k
  <1>2. ASSUME k.made = h.made, k.evicted = h.evicted, OwnPod(t)' \/ Spent(t)'
        PROVE  RunsOnce(t)'
    BY <1>0, <1>2 DEF RunsOnce
  <1>3. CASE Creates(t)
    BY <1>1, <1>3 DEF Creates
  <1>4. CASE Makes(t)
    <2>1. ~OwnPod(t) /\ (c.obj.uid = n.uid => ~Spent(t))
      BY <1>4 DEF Makes, OwnPod, Spent
    <2>2. CASE c.obj.uid = n.uid
      <3>1. h.made <= h.evicted /\ k.made = h.made + 1 /\ k.evicted = h.evicted
        BY <1>0, <1>4, <2>1, <2>2 DEF Makes
      <3>2. OwnPod(t)'
        BY <1>4, <2>2 DEF Makes, OwnPod, Held
      <3>3. k.made <= 1 + k.evicted
        BY <1>0, <3>1
      <3> QED  BY <3>2, <3>3 DEF RunsOnce
    <2>3. CASE c.obj.uid # n.uid
      <3>1. k.made = h.made /\ k.evicted = h.evicted
        BY <1>4, <2>3 DEF Makes
      <3>2. CASE Spent(t)
        BY <1>2, <1>4, <3>1, <3>2, SpentStays DEF Makes, Move, Marks, Creates
      <3>3. CASE h.made <= h.evicted
        BY <1>1, <3>1, <3>3
      <3> QED  BY <1>0, <2>1, <3>2, <3>3
    <2> QED  BY <2>2, <2>3
  <1>5. CASE PodGoes(t)
    <2>1. CASE k.evicted = h.evicted + 1
      <3>1. k.made <= k.evicted
        BY <1>0, <1>5, <2>1 DEF PodGoes
      <3> QED  BY <1>1, <3>1
    <2>2. CASE k.evicted = h.evicted /\ (OwnPod(t) => OwnPod(t)' \/ ~n.exists)
      <3>1. k.made = h.made
        BY <1>5 DEF PodGoes
      <3>2. CASE h.made <= h.evicted
        BY <1>1, <2>2, <3>1, <3>2
      <3>3. CASE Spent(t) \/ (OwnPod(t) /\ ~n.exists)
        <4>1. Spent(t)
          BY <3>3 DEF RunInvariant, Gone
        <4>2. CASE Marks(t) \/ Creates(t)
          BY <1>5, <4>2 DEF Marks, Creates, PodGoes, Held
        <4>3. CASE ~Marks(t) /\ ~Creates(t)
          BY <1>2, <2>2, <3>1, <4>1, <4>3, SpentStays
        <4> QED  BY <4>2, <4>3
      <3> QED  BY <1>0, <1>2, <2>2, <3>1, <3>2, <3>3
    <2> QED  BY <1>5, <2>1, <2>2 DEF PodGoes
  <1>6. CASE Marks(t)
    <2>1. c.obj = n /\ n.exists /\ c.pc = "finalizer"
          /\ k.made = h.made /\ k.evicted = h.evicted
      BY <1>6 DEF Marks, SameRuns
    <2>2. ~n.finalizer
      BY <2>1 DEF RunInvariant, InOrder
    <2>3. h.made = 0
      BY <2>1, <2>2 DEF RunInvariant, Unmarked
    <2> QED  BY <1>0, <1>1, <2>1, <2>3
  <1>7. CASE GoesOn(t)
    <2>1. k.made = h.made /\ k.evicted = h.evicted /\ ~Marks(t) /\ ~Creates(t)
      BY <1>7 DEF GoesOn, Marks, Creates, Held
    <2>2. CASE h.made <= h.evicted
      BY <1>1, <2>1, <2>2
    <2>3. CASE Spent(t)
      BY <1>2, <2>1, <2>3, SpentStays
    <2>4. CASE OwnPod(t) /\ NewestPod(t)' = NewestPod(t)
      <3>1. OwnPod(t)'
        BY <1>7, <2>4 DEF GoesOn, Held, OwnPod
      <3> QED  BY <1>2, <2>1, <3>1
    <2>5. CASE ~(h.made <= h.evicted) /\ Over(c.obj) /\ x.pc # "createPod"
      <3>1. h.made > 0
        BY <1>0, <2>5
      <3>2. c.obj.uid = n.uid /\ \A v \in Versions(task[t]) : v.uid = n.uid /\ Precedes(c.obj, v)
        BY <1>7, <3>1 DEF GoesOn, RunInvariant, Known, InOrder
      <3>3. \A v \in Versions(task[t]) : ~Hopeful(v)
        BY <2>5, <3>2 DEF Precedes, Hopeful
      <3>4. Spent(t)'
        BY <1>7, <2>5, <3>3 DEF Spent, GoesOn, Held
      <3> QED  BY <1>2, <2>1, <3>4
    <2> QED  BY <1>0, <1>7, <2>2, <2>3, <2>4, <2>5 DEF GoesOn
  <1>8. CASE Rests(t) \/ Reads(t) \/ Rewrites(t) \/ Removes(t)
    <2>1. k.made = h.made /\ k.evicted = h.evicted /\ NewestPod(t)' = NewestPod(t)
          /\ m.uid = n.uid
      BY <1>8 DEF Rests, Reads, Rewrites, Removes, SameRuns, Held
    <2>2. CASE h.made <= h.evicted
      BY <1>1, <2>1, <2>2
    <2>3. CASE OwnPod(t)
      <3>1. OwnPod(t)'
        BY <2>1, <2>3 DEF OwnPod
      <3> QED  BY <1>2, <2>1, <3>1
    <2>4. CASE Spent(t) /\ ~Marks(t)
      <3>1. ~Creates(t)
        BY <1>0, <2>1, TaskFacts DEF Creates
      <3> QED  BY <1>2, <2>1, <2>4, <3>1, SpentStays
    <2> QED  BY <1>0, <1>6, <2>2, <2>3, <2>4
  <1> QED
    BY <1>3, <1>4, <1>5, <1>6, <1>7, <1>8 DEF Move

-----------------------------------------------------------------------------
(* Every step makes such a move of every task.                             *)

LEMMA SameTaskIsKept ==
  ASSUME NEW t \in Tasks, task'[t] = task[t]
  PROVE  Held(t)
  BY DEF Held, NewestTask

LEMMA SamePodStays ==
  ASSUME NEW t \in Tasks, pod'[t] = pod[t]
  PROVE  NewestPod(t)' = NewestPod(t)
  BY DEF NewestPod

LEMMA StoredIsWritten ==
  ASSUME TypeOK, NEW t \in Tasks, NEW o \in AgentTaskObject, StoreTask(t, o)
  PROVE  LET m == NewestTask(t)'
         IN  /\ Wrote(t) /\ m = [o EXCEPT !.rv = @ + 1]
             /\ m.exists = o.exists /\ m.uid = o.uid /\ m.finalizer = o.finalizer
             /\ Over(m) <=> Over(o)
  <1> DEFINE v == [o EXCEPT !.rv = @ + 1]
             w == task[t]
             m == NewestTask(t)'
  <1>1. w \in Seq(AgentTaskObject) \ {<<>>}
    BY DEF TypeOK
  <1>2. /\ v \in AgentTaskObject /\ v.exists = o.exists /\ v.uid = o.uid
        /\ v.finalizer = o.finalizer /\ v.deleting = o.deleting /\ v.status = o.status
    BY DEF AgentTaskObject
  <1>3. m = v
    BY StoredIsNewest
  <1>4. task'[t] = Stored(w, v)
    BY DEF StoreTask, TypeOK
  <1> HIDE DEF v, w
  <1>5. /\ \A x \in Versions(Stored(w, v)) : x = v \/ x \in Versions(w)
        /\ \A d \in Pairs(Stored(w, v)) :
             d \in Pairs(w) \/ (\E x \in Versions(w) : d = <<x, v>>) \/ d = <<v, v>>
    BY <1>1, <1>2, WindowVersions, WindowPairs
  <1>6. Wrote(t)
    BY <1>3, <1>4, <1>5 DEF Wrote, w
  <1>7. Over(v) <=> Over(o)
    BY <1>2 DEF Over
  <1>8. m = [o EXCEPT !.rv = @ + 1]
    BY <1>3 DEF v
  <1> QED  BY <1>2, <1>3, <1>6, <1>7, <1>8

LEMMA StoredPod ==
  ASSUME TypeOK, NEW t \in Tasks, NEW p \in PodObject, StorePod(t, p)
  PROVE  NewestPod(t)' = p
  BY WindowVersions DEF StorePod, NewestPod, TypeOK

(* A step for one task leaves the others alone.                            *)
LEMMA OthersAlone ==
  ASSUME TypeOK, NEW t \in Tasks, NEW u \in Tasks \ {t},
         \/ Reconcile(t) \/ ReconcileStep(t) \/ apiCallFails(t)
         \/ SyncTask(t) \/ SyncPod(t) \/ Environment(t)
  PROVE  task'[u] = task[u] /\ pod'[u] = pod[u] /\ rec'[u] = rec[u] /\ hist'[u] = hist[u]
  <1> USE DEF TypeOK
  <1>1. CASE Reconcile(t) \/ apiCallFails(t) \/ SyncTask(t) \/ SyncPod(t)
    BY <1>1 DEF Reconcile, apiCallFails, SyncTask, SyncPod, Return, Dispatch
  <1>2. CASE ReconcileStep(t)
    BY <1>2
    DEF ReconcileStep, ensureFinalizer, handlePending, handleInitializing, createPod,
        handleRunning, deleteTimedOutPod, handleCreatingMR, handleDeletion,
        removeFinalizer, updateStatus, StoreTask, StorePod, DeletePod, Dispatch,
        Return, Goto, setPhase, setFailed
  <1>3. CASE Environment(t)
    BY <1>3
    DEF Environment, CreateTask, DeleteTask, EditTask, GrantSlot, PodStarts, PodSucceeds,
        PodFails, PodReports, PodRemoved, CollectPod, EvictPod, Expire,
        StoreTask, StorePod, DeletePod
  <1> QED  BY <1>1, <1>2, <1>3

LEMMA OthersRest ==
  ASSUME TypeOK, NEW t \in Tasks, NEW u \in Tasks \ {t},
         \/ Reconcile(t) \/ ReconcileStep(t) \/ apiCallFails(t)
         \/ SyncTask(t) \/ SyncPod(t) \/ Environment(t)
  PROVE  Rests(u)
  BY OthersAlone, SameTaskIsKept, SamePodStays DEF Rests, SameRuns, CallGoes

(* The caches, and the process.                                            *)
LEMMA CacheMoves ==
  ASSUME TypeOK, NEW t \in Tasks, SyncTask(t) \/ SyncPod(t) \/ Crash
  PROVE  Rests(t)
  <1>0. /\ task[t] \in Seq(AgentTaskObject) \ {<<>>} /\ pod[t] \in Seq(PodObject) \ {<<>>}
        /\ NewestTask(t) \in AgentTaskObject /\ NewestPod(t) \in PodObject
    BY NewestTypes DEF TypeOK
  <1>1. CASE SyncTask(t)
    <2>1. Lagging(task[t]) /\ task'[t] = Delivered(task[t]) /\ UNCHANGED <<pod, rec, hist>>
      BY <1>1 DEF SyncTask, TypeOK
    <2>2. Held(t)
      BY <1>0, <2>1, WindowVersions, WindowPairs DEF Held, NewestTask
    <2> QED  BY <2>1, <2>2, SamePodStays DEF Rests, SameRuns, CallGoes
  <1>2. CASE SyncPod(t)
    <2>1. Lagging(pod[t]) /\ pod'[t] = Delivered(pod[t]) /\ UNCHANGED <<task, rec, hist>>
      BY <1>2 DEF SyncPod, TypeOK
    <2>2. NewestPod(t)' = NewestPod(t)
      BY <1>0, <2>1, WindowVersions DEF NewestPod
    <2> QED  BY <2>1, <2>2, SameTaskIsKept DEF Rests, SameRuns, CallGoes
  <1>3. CASE Crash
    <2>1. /\ task'[t] = Relisted(task[t]) /\ pod'[t] = Relisted(pod[t])
          /\ rec'[t].pc = "idle" /\ UNCHANGED hist
      BY <1>3 DEF Crash, Idle
    <2>2. Held(t)
      BY <1>0, <2>1, WindowVersions, WindowPairs DEF Held, NewestTask
    <2>3. NewestPod(t)' = NewestPod(t)
      BY <1>0, <2>1, WindowVersions DEF NewestPod
    <2> QED  BY <2>1, <2>2, <2>3 DEF Rests, SameRuns, CallGoes
  <1> QED  BY <1>1, <1>2, <1>3

(* The users and the pool controller.                                      *)
LEMMA UserMoves ==
  ASSUME SafetyInvariant, NEW t \in Tasks,
         CreateTask(t) \/ DeleteTask(t) \/ EditTask(t) \/ GrantSlot(t)
  PROVE  Rewrites(t) \/ Removes(t) \/ Creates(t)
  <1> DEFINE n == NewestTask(t)
  <1>0. TypeOK /\ n \in AgentTaskObject /\ n.rv \in Nat /\ n.uid \in Nat
    BY NewestTypes DEF SafetyInvariant, AgentTaskObject
  <1>1. UNCHANGED <<pod, rec>> /\ NewestPod(t)' = NewestPod(t)
    BY DEF CreateTask, DeleteTask, EditTask, GrantSlot, NewestPod
  <1>2. ASSUME NEW o \in AgentTaskObject, StoreTask(t, o), UNCHANGED hist, n.exists,
               o.exists, o.uid = n.uid, o.finalizer = n.finalizer, Over(n) => Over(o)
        PROVE  Rewrites(t)
    BY <1>0, <1>1, <1>2, StoredIsWritten DEF Rewrites, SameRuns, CallGoes
  <1>3. CASE CreateTask(t)
    <2> DEFINE g == NoTask(n.rv, n.uid + 1)
    <2>1. PICK s \in Specs : StoreTask(t, [g EXCEPT !.exists = TRUE, !.spec = s])
      BY <1>3 DEF CreateTask
    <2> DEFINE o == [g EXCEPT !.exists = TRUE, !.spec = s]
    <2>2. g \in AgentTaskObject
      BY <1>0, ConstantTypes
    <2>3. g.uid = n.uid + 1 /\ ~g.finalizer
      BY DEF NoTask
    <2>4. o \in AgentTaskObject /\ o.exists /\ o.uid = g.uid /\ o.finalizer = g.finalizer
      <3> HIDE DEF g
      <3> QED  BY <2>2, ConstantsAssumption DEF AgentTaskObject
    <2>5. ~n.exists /\ hist'[t].made = 0 /\ hist'[t].evicted = 0
      BY <1>0, <1>3 DEF CreateTask, NewHist, TypeOK
    <2>6. StoreTask(t, o)
      BY <2>1
    <2> HIDE DEF o, g
    <2> QED  BY <1>0, <1>1, <2>3, <2>4, <2>5, <2>6, StoredIsWritten DEF Creates
  <1>4. CASE DeleteTask(t)
    <2>1. CASE n.finalizer
      <3> DEFINE o == [n EXCEPT !.deleting = TRUE]
      <3>1. /\ o \in AgentTaskObject /\ o.exists = n.exists /\ o.uid = n.uid
            /\ o.finalizer = n.finalizer /\ o.deleting
        BY <1>0 DEF AgentTaskObject
      <3>2. StoreTask(t, o) /\ UNCHANGED hist /\ n.exists
        BY <1>4, <2>1 DEF DeleteTask
      <3> HIDE DEF o
      <3> QED  BY <1>2, <3>1, <3>2 DEF Over
    <2>2. CASE ~n.finalizer
      <3> DEFINE o == NoTask(n.rv, n.uid)
      <3>1. o \in AgentTaskObject /\ ~o.exists /\ o.uid = n.uid
        <4>1. o \in AgentTaskObject
          BY <1>0, ConstantTypes
        <4> QED  BY <4>1 DEF NoTask
      <3>2. StoreTask(t, o) /\ UNCHANGED hist /\ n.exists
        BY <1>4, <2>2 DEF DeleteTask
      <3> HIDE DEF o
      <3> QED  BY <1>0, <1>1, <2>2, <3>1, <3>2, StoredIsWritten DEF Removes, SameRuns
    <2> QED  BY <2>1, <2>2
  <1>5. CASE EditTask(t)
    <2>1. PICK s \in Specs : StoreTask(t, [n EXCEPT !.spec = s])
      BY <1>5 DEF EditTask
    <2> DEFINE o == [n EXCEPT !.spec = s]
    <2>2. /\ o \in AgentTaskObject /\ o.exists = n.exists /\ o.uid = n.uid
          /\ o.finalizer = n.finalizer /\ o.deleting = n.deleting /\ o.status = n.status
      BY <1>0, ConstantsAssumption DEF AgentTaskObject
    <2>3. StoreTask(t, o) /\ UNCHANGED hist /\ n.exists
      BY <1>5, <2>1 DEF EditTask
    <2> HIDE DEF o
    <2> QED  BY <1>2, <2>2, <2>3 DEF Over
  <1>6. CASE GrantSlot(t)
    <2> DEFINE o == [n EXCEPT !.granted = TRUE]
    <2>2. /\ o \in AgentTaskObject /\ o.exists = n.exists /\ o.uid = n.uid
          /\ o.finalizer = n.finalizer /\ o.deleting = n.deleting /\ o.status = n.status
      BY <1>0 DEF AgentTaskObject
    <2>3. StoreTask(t, o) /\ UNCHANGED hist /\ n.exists
      BY <1>6 DEF GrantSlot
    <2> HIDE DEF o
    <2> QED  BY <1>2, <2>2, <2>3 DEF Over
  <1> QED  BY <1>3, <1>4, <1>5, <1>6

(* The kubelet, the garbage collector, and whoever evicts pods.            *)
LEMMA PodMoves ==
  ASSUME TypeOK, NEW t \in Tasks,
         \/ PodStarts(t) \/ PodSucceeds(t) \/ PodFails(t) \/ PodRemoved(t)
         \/ CollectPod(t) \/ EvictPod(t) \/ Expire(t)
  PROVE  PodGoes(t)
  <1> DEFINE p == NewestPod(t)
  <1>0. /\ p \in PodObject /\ hist[t] \in History /\ hist \in [Tasks -> History]
    BY NewestTypes DEF TypeOK
  <1>1. UNCHANGED <<task, rec>> /\ Held(t) /\ NewestTask(t)' = NewestTask(t)
    BY SameTaskIsKept
    DEF PodStarts, PodSucceeds, PodFails, PodReports, PodRemoved, CollectPod, EvictPod,
        Expire, NewestTask
  <1>2. ASSUME NEW s \in PodPhases, PodReports(t, s),
               hist'[t].made = hist[t].made, hist'[t].evicted = hist[t].evicted
        PROVE  PodGoes(t)
    <2> DEFINE q == [p EXCEPT !.phase = s]
    <2>1. /\ q \in PodObject /\ q.exists = p.exists /\ q.owner = p.owner
          /\ q.terminating = p.terminating
      BY <1>0 DEF PodObject
    <2>2. StorePod(t, q)
      BY <1>2 DEF PodReports
    <2> HIDE DEF q
    <2>3. NewestPod(t)' = q
      BY <2>1, <2>2, StoredPod
    <2>4. OwnPod(t) => OwnPod(t)'
      BY <1>1, <2>1, <2>3 DEF OwnPod
    <2> QED  BY <1>1, <1>2, <2>4 DEF PodGoes
  <1>3. CASE PodStarts(t)
    BY <1>2, <1>3 DEF PodStarts, PodPhases
  <1>4. CASE PodSucceeds(t)
    <2>1. hist'[t].made = hist[t].made /\ hist'[t].evicted = hist[t].evicted
      <3> DEFINE h == hist[t]
                 own == p.owner = NewestTask(t).uid
      <3>1. hist'[t] = [h EXCEPT !.succeeded = h.succeeded \/ own]
        BY <1>0, <1>4 DEF PodSucceeds
      <3>2. h \in History
        BY <1>0
      <3> HIDE DEF h, own
      <3>3. hist'[t].made = h.made /\ hist'[t].evicted = h.evicted
        BY <3>1, <3>2 DEF History
      <3> QED  BY <3>3 DEF h
    <2> QED  BY <1>2, <1>4, <2>1 DEF PodSucceeds, PodPhases
  <1>5. CASE PodFails(t)
    BY <1>2, <1>5 DEF PodFails, PodPhases
  <1>6. CASE PodRemoved(t)
    BY <1>1, <1>6 DEF PodRemoved, PodGoes, OwnPod
  <1>7. CASE CollectPod(t)
    BY <1>1, <1>7 DEF CollectPod, PodGoes, OwnPod
  <1>8. CASE EvictPod(t)
    <2> DEFINE h == hist[t]
               own == p.owner = NewestTask(t).uid
    <2>1. hist'[t] = [h EXCEPT !.evicted = IF own THEN h.evicted + 1 ELSE h.evicted]
      BY <1>0, <1>8 DEF EvictPod
    <2>2. h \in History
      BY <1>0
    <2>3. ~own => ~OwnPod(t)
      BY DEF OwnPod
    <2> HIDE DEF own
    <2>4. hist'[t].made = h.made /\ hist'[t].evicted = IF own THEN h.evicted + 1 ELSE h.evicted
      <3> HIDE DEF h
      <3> QED  BY <2>1, <2>2 DEF History
    <2> QED  BY <1>1, <2>3, <2>4 DEF PodGoes
  <1>9. CASE Expire(t)
    BY <1>1, <1>9 DEF Expire, PodGoes, OwnPod, NewestPod
  <1> QED  BY <1>3, <1>4, <1>5, <1>6, <1>7, <1>8, <1>9

(* How a call goes on, or ends.                                            *)
LEMMA CallFields ==
  ASSUME TypeOK, NEW t \in Tasks
  PROVE  /\ \A requeue : Return(t, requeue) => rec'[t].pc = "idle"
         /\ \A s : Goto(t, s) => rec'[t].pc = s /\ rec'[t].obj = rec[t].obj
         /\ \A s, phase, message :
              setPhase(t, s, phase, message) \/ setFailed(t, s, message)
              => rec'[t].pc = "updateStatus" /\ rec'[t].obj = rec[t].obj
         /\ \A o : Dispatch(t, o) =>
              \/ rec'[t].pc = "idle"
              \/ o.status.phase \notin Terminal /\ rec'[t].obj = o
                 /\ rec'[t].pc = HandlerOf[o.status.phase]
  <1> DEFINE c == rec[t]
  <1>1. c \in ReconcileCall /\ rec \in [Tasks -> ReconcileCall]
    BY DEF TypeOK
  <1>2. \A requeue : Return(t, requeue) => rec'[t].pc = "idle"
    BY <1>1 DEF Return, Idle
  <1>3. \A s : Goto(t, s) => rec'[t].pc = s /\ rec'[t].obj = rec[t].obj
    BY <1>1 DEF Goto, ReconcileCall
  <1>4. \A s, phase, message :
          setPhase(t, s, phase, message) => rec'[t].pc = "updateStatus" /\ rec'[t].obj = rec[t].obj
    BY <1>1 DEF setPhase, ReconcileCall
  <1>5. \A o : Dispatch(t, o) =>
              \/ rec'[t].pc = "idle"
              \/ o.status.phase \notin Terminal /\ rec'[t].obj = o
                 /\ rec'[t].pc = HandlerOf[o.status.phase]
    BY <1>1 DEF Dispatch, Idle
  <1> QED  BY <1>2, <1>3, <1>4, <1>5 DEF setFailed

(* The handler of a phase.                                                 *)
LEMMA HandlerSteps ==
  ASSUME NEW phase \in Phases \ Terminal
  PROVE  /\ HandlerOf[phase] \in {"pending", "initializing", "running", "creatingMR"}
         /\ HandlerOf[phase] = "initializing" => phase = "Initializing"
  BY DEF HandlerOf, Phases, Terminal

(* The call begins.                                                        *)
LEMMA ReconcileMoves ==
  ASSUME TypeOK, NEW t \in Tasks, Reconcile(t)
  PROVE  Rests(t) \/ Reads(t)
  <1> DEFINE o == Cached(task[t])
  <1>0. o \in AgentTaskObject /\ rec \in [Tasks -> ReconcileCall]
    BY NewestTypes DEF TypeOK
  <1>1. Held(t) /\ SameRuns(t)
    BY SameTaskIsKept, SamePodStays DEF Reconcile, SameRuns
  <1> DEFINE At(s) == rec' = [rec EXCEPT ![t] = [pc |-> s, obj |-> o, status |-> o.status]]
  <1>2. \/ UNCHANGED rec
        \/ o.deleting /\ At("deletion")
        \/ ~o.finalizer /\ At("finalizer")
        \/ o.exists /\ ~o.deleting /\ o.finalizer /\ Dispatch(t, o)
    BY DEF Reconcile
  <1>3. \A s : At(s) => rec'[t].pc = s /\ rec'[t].obj = o
    BY <1>0
  <1>4. CASE o.exists /\ ~o.deleting /\ o.finalizer /\ Dispatch(t, o)
    <2>1. CASE rec'[t].pc = "idle"
      BY <1>1, <2>1 DEF Rests, CallGoes
    <2>2. CASE /\ o.status.phase \notin Terminal /\ rec'[t].obj = o
               /\ rec'[t].pc = HandlerOf[o.status.phase]
      <3>1. o.status.phase \in Phases \ Terminal
        BY <1>0, <2>2 DEF AgentTaskObject, AgentTaskStatus
      <3>2. /\ rec'[t].pc \in {"pending", "initializing", "running", "creatingMR"}
            /\ rec'[t].pc = "initializing" => ~Over(o)
        BY <1>4, <2>2, <3>1, HandlerSteps DEF Over
      <3> QED  BY <1>1, <1>4, <2>2, <3>2 DEF Reads
    <2> QED  BY <1>4, <2>1, <2>2, CallFields
  <1> HIDE DEF At
  <1>5. CASE UNCHANGED rec
    BY <1>1, <1>5 DEF Rests, CallGoes
  <1>6. CASE o.deleting /\ At("deletion")
    BY <1>1, <1>3, <1>6 DEF Reads
  <1>7. CASE ~o.finalizer /\ At("finalizer")
    BY <1>1, <1>3, <1>7 DEF Reads
  <1> QED  BY <1>2, <1>4, <1>5, <1>6, <1>7

(* The calls that write the task.                                          *)
LEMMA WriterMoves ==
  ASSUME SafetyInvariant, NEW t \in Tasks,
         ensureFinalizer(t) \/ updateStatus(t) \/ removeFinalizer(t)
  PROVE  Rests(t) \/ Marks(t) \/ Rewrites(t) \/ Removes(t)
  <1> DEFINE n == NewestTask(t)
             m == NewestTask(t)'
             c == rec[t]
  <1>0. /\ TypeOK /\ n \in AgentTaskObject /\ n.rv \in Nat /\ n.uid \in Nat
        /\ c.obj \in AgentTaskObject /\ c.status \in AgentTaskStatus
        /\ CallSound(t)
    BY NewestTypes DEF SafetyInvariant, AgentTaskObject
  <1>1. SameRuns(t)
    BY SamePodStays DEF ensureFinalizer, updateStatus, removeFinalizer, SameRuns
  <1>2. c.pc # "idle" /\ Fresh(t) => c.obj = n /\ n.exists
    BY <1>0 DEF Fresh, CallSound, NotAfter
  <1>3. ASSUME UNCHANGED task, rec'[t].pc = "idle" PROVE Rests(t)
    BY <1>1, <1>3, SameTaskIsKept DEF Rests, CallGoes
  <1>4. CASE ensureFinalizer(t)
    <2> DEFINE o == [n EXCEPT !.finalizer = TRUE]
    <2>1. CASE Fresh(t) /\ StoreTask(t, o) /\ Dispatch(t, [o EXCEPT !.rv = @ + 1])
      <3>1. /\ o \in AgentTaskObject /\ o.exists = n.exists /\ o.uid = n.uid /\ o.finalizer
            /\ o.deleting = n.deleting /\ o.status = n.status
        BY <1>0 DEF AgentTaskObject
      <3>2. Over(o) <=> Over(n)
        BY <3>1 DEF Over
      <3>3. c.pc = "finalizer"
        BY <1>4 DEF ensureFinalizer
      <3>4. /\ Wrote(t) /\ m = [o EXCEPT !.rv = @ + 1]
            /\ m.exists = o.exists /\ m.uid = o.uid /\ m.finalizer = o.finalizer
            /\ Over(m) <=> Over(o)
        BY <1>0, <2>1, <3>1, StoredIsWritten
      <3>5. Dispatch(t, m)
        BY <2>1, <3>4
      <3>6. \/ rec'[t].pc = "idle"
            \/ m.status.phase \notin Terminal /\ rec'[t].obj = m
               /\ rec'[t].pc = HandlerOf[m.status.phase]
        BY <1>0, <3>5, CallFields
      <3>7. m.status.phase \in Phases
        <4> HIDE DEF o
        <4>1. m.status = o.status
          BY <3>1, <3>4 DEF AgentTaskObject
        <4> QED  BY <3>1, <4>1 DEF AgentTaskObject, AgentTaskStatus
      <3>8. \/ rec'[t].pc = "idle"
            \/ /\ rec'[t].pc \in {"pending", "initializing", "running", "creatingMR"}
               /\ rec'[t].obj = m
        BY <3>6, <3>7, HandlerSteps
      <3> HIDE DEF o
      <3> QED  BY <1>1, <1>2, <2>1, <3>1, <3>2, <3>3, <3>4, <3>8 DEF Marks
    <2> QED  BY <1>0, <1>3, <1>4, <2>1, CallFields DEF ensureFinalizer
  <1>5. CASE updateStatus(t)
    <2> DEFINE o == [n EXCEPT !.status = c.status]
    <2>1. CASE Fresh(t) /\ StoreTask(t, o)
      <3>1. /\ o \in AgentTaskObject /\ o.exists = n.exists /\ o.uid = n.uid
            /\ o.finalizer = n.finalizer /\ o.deleting = n.deleting /\ o.status = c.status
        BY <1>0 DEF AgentTaskObject
      <3>2. c.obj = n /\ n.exists /\ Edge(n, c.status.phase)
        BY <1>0, <1>2, <1>5, <2>1 DEF updateStatus, CallSound
      <3>3. Over(n) => Over(o)
        BY <3>1, <3>2 DEF Over, Edge, Terminal
      <3>4. rec'[t].pc = "idle"
        BY <1>0, <1>5, CallFields DEF updateStatus
      <3>5. StoreTask(t, o)
        BY <2>1
      <3> HIDE DEF o
      <3> QED  BY <1>0, <1>1, <3>1, <3>2, <3>3, <3>4, <3>5, StoredIsWritten DEF Rewrites, CallGoes
    <2> QED  BY <1>0, <1>3, <1>5, <2>1, CallFields DEF updateStatus
  <1>6. CASE removeFinalizer(t)
    <2> DEFINE o == NoTask(n.rv, n.uid)
    <2>1. CASE Fresh(t) /\ StoreTask(t, o)
      <3>1. o \in AgentTaskObject /\ ~o.exists /\ o.uid = n.uid
        <4>1. o \in AgentTaskObject
          BY <1>0, ConstantTypes
        <4> QED  BY <4>1 DEF NoTask
      <3>2. c.pc = "removeFinalizer" /\ rec'[t].pc = "idle"
        BY <1>0, <1>6, CallFields DEF removeFinalizer
      <3>3. c.obj = n /\ n.exists
        BY <1>2, <2>1, <3>2
      <3>4. StoreTask(t, o)
        BY <2>1
      <3> HIDE DEF o
      <3> QED  BY <1>0, <1>1, <3>1, <3>2, <3>3, <3>4, StoredIsWritten DEF Removes
    <2> QED  BY <1>0, <1>3, <1>6, <2>1, CallFields DEF removeFinalizer
  <1> QED  BY <1>4, <1>5, <1>6

(* The calls that do not.                                                  *)
LEMMA HandlerMoves ==
  ASSUME SafetyInvariant, TypeOK', NEW t \in Tasks, InOrder(t),
         \/ handlePending(t) \/ handleInitializing(t) \/ createPod(t) \/ handleRunning(t)
         \/ deleteTimedOutPod(t) \/ handleCreatingMR(t) \/ handleDeletion(t) \/ apiCallFails(t)
  PROVE  Rests(t) \/ GoesOn(t) \/ Makes(t)
  <1> DEFINE c == rec[t]
             s == rec'[t].pc
  <1>0. TypeOK /\ c.obj \in AgentTaskObject /\ CallSound(t)
        /\ hist \in [Tasks -> History] /\ hist[t] \in History
    BY NewestTypes DEF SafetyInvariant, TypeOK
  <1>1. Held(t) /\ NewestTask(t)' = NewestTask(t)
    BY SameTaskIsKept
    DEF handlePending, handleInitializing, createPod, handleRunning, deleteTimedOutPod,
        handleCreatingMR, handleDeletion, apiCallFails, NewestTask
  <1>2. ASSUME UNCHANGED <<pod, hist>>, s = "idle" PROVE Rests(t)
    BY <1>1, <1>2, SamePodStays DEF Rests, SameRuns, CallGoes
  <1>3. ASSUME UNCHANGED <<pod, hist>>, c.pc # "idle", rec'[t].obj = c.obj,
               \/ s \in {"updateStatus", "timeout"}
               \/ s = "createPod" /\ c.pc = "initializing"
               \/ s = "removeFinalizer" /\ c.pc = "deletion"
        PROVE  GoesOn(t)
    BY <1>1, <1>3, SamePodStays DEF GoesOn
  <1>4. CASE handlePending(t) \/ handleCreatingMR(t) \/ handleRunning(t)
    <2>1. UNCHANGED <<pod, hist>> /\ c.pc # "idle"
      BY <1>4 DEF handlePending, handleCreatingMR, handleRunning
    <2>2. s = "idle" \/ (s \in {"updateStatus", "timeout"} /\ rec'[t].obj = c.obj)
      BY <1>0, <1>4, CallFields DEF handlePending, handleCreatingMR, handleRunning
    <2> QED  BY <1>2, <1>3, <2>1, <2>2
  <1>5. CASE apiCallFails(t)
    BY <1>0, <1>2, <1>5, CallFields DEF apiCallFails
  <1>6. CASE handleInitializing(t)
    <2>1. UNCHANGED <<pod, hist>> /\ c.pc = "initializing"
      BY <1>6 DEF handleInitializing
    <2>2. s \in {"updateStatus", "createPod"} /\ rec'[t].obj = c.obj
      BY <1>0, <1>6, CallFields DEF handleInitializing
    <2> QED  BY <1>3, <2>1, <2>2
  <1>7. CASE createPod(t)
    <2> DEFINE own == c.obj.uid = NewestTask(t).uid
               h == hist[t]
    <2>0. c.pc = "createPod" /\ (s = "idle" \/ (s = "updateStatus" /\ rec'[t].obj = c.obj))
      <3>1. /\ c.pc = "createPod"
            /\ \/ \E st, m : setPhase(t, st, "Running", m)
               \/ Return(t, TRUE)
        BY <1>7 DEF createPod
      <3> QED  BY <1>0, <3>1, CallFields
    <2>1. CASE /\ ~PodNameTaken(t) /\ StorePod(t, BuiltPod(c.obj))
               /\ hist' = [hist EXCEPT ![t].made =
                              IF c.obj.uid = NewestTask(t).uid THEN @ + 1 ELSE @]
      <3>1. c.pc = "createPod" /\ (s = "idle" \/ (s = "updateStatus" /\ rec'[t].obj = c.obj))
        BY <2>0
      <3>2. hist'[t] = [h EXCEPT !.made = IF own THEN h.made + 1 ELSE h.made]
        BY <1>0, <2>1
      <3>3. h \in History
        BY <1>0
      <3>4. hist'[t].made = (IF own THEN h.made + 1 ELSE h.made) /\ hist'[t].evicted = h.evicted
        <4> HIDE DEF h, own
        <4> QED  BY <3>2, <3>3 DEF History
      <3>5. BuiltPod(c.obj) \in PodObject
        BY <1>0 DEF BuiltPod, PodObject, PodPhases, TaskSpec, AgentTaskObject
      <3>6. NewestPod(t)' = BuiltPod(c.obj)
        BY <1>0, <2>1, <3>5, StoredPod
      <3> QED  BY <1>1, <2>1, <3>1, <3>4, <3>6 DEF Makes, PodNameTaken, BuiltPod
    <2>2. CASE UNCHANGED <<pod, hist>>
      <3>1. c.pc # "idle" /\ (s = "idle" \/ (s = "updateStatus" /\ rec'[t].obj = c.obj))
        BY <2>0
      <3> QED  BY <1>2, <1>3, <2>2, <3>1
    <2> QED  BY <1>7, <2>1, <2>2 DEF createPod
  <1>8. CASE deleteTimedOutPod(t) \/ handleDeletion(t)
    <2>1. /\ c.pc # "idle" /\ UNCHANGED hist /\ rec'[t].obj = c.obj
          /\ s = "updateStatus" \/ (s = "removeFinalizer" /\ c.pc = "deletion")
      <3>1. CASE deleteTimedOutPod(t)
        <4>1. /\ c.pc = "timeout" /\ UNCHANGED hist
              /\ setFailed(t, c.obj.status, "timedOut")
          BY <3>1 DEF deleteTimedOutPod
        <4> QED  BY <1>0, <4>1, CallFields
      <3>2. CASE handleDeletion(t)
        <4>1. /\ c.pc = "deletion" /\ UNCHANGED hist /\ Goto(t, "removeFinalizer")
          BY <3>2 DEF handleDeletion
        <4> QED  BY <1>0, <4>1, CallFields
      <3> QED  BY <1>8, <3>1, <3>2
    <2>2. Over(c.obj)
      <3>1. CASE deleteTimedOutPod(t)
        <4>1. c.obj.status.phase = "Running"
          BY <1>0, <3>1 DEF deleteTimedOutPod, CallSound, PhaseAt, Steps
        <4> QED  BY <4>1 DEF Over
      <3>2. CASE handleDeletion(t)
        BY <3>2 DEF handleDeletion, InOrder, Over
      <3> QED  BY <1>8, <3>1, <3>2
    <2> QED  BY <1>1, <2>1, <2>2 DEF GoesOn
  <1> QED  BY <1>4, <1>5, <1>6, <1>7, <1>8

LEMMA EveryMove ==
  ASSUME SafetyInvariant, TypeOK', [Next]_vars, NEW t \in Tasks, InOrder(t)
  PROVE  Move(t)
  <1>0. TypeOK
    BY DEF SafetyInvariant
  <1>1. CASE UNCHANGED vars
    <2>1. task'[t] = task[t] /\ pod'[t] = pod[t] /\ UNCHANGED <<rec, hist>>
      BY <1>1 DEF vars
    <2> QED  BY <2>1, SameTaskIsKept, SamePodStays DEF Move, Rests, SameRuns, CallGoes
  <1>2. CASE Crash
    BY <1>0, <1>2, CacheMoves DEF Move
  <1>3. ASSUME NEW u \in Tasks, u # t,
               \/ Reconcile(u) \/ ReconcileStep(u) \/ apiCallFails(u)
               \/ SyncTask(u) \/ SyncPod(u) \/ Environment(u)
        PROVE  Move(t)
    BY <1>0, <1>3, OthersRest DEF Move
  <1>4. CASE \/ Reconcile(t) \/ ReconcileStep(t) \/ apiCallFails(t)
             \/ SyncTask(t) \/ SyncPod(t) \/ Environment(t)
    <2>1. CASE Environment(t)
      BY <1>0, <2>1, UserMoves, PodMoves DEF Environment, Move
    <2>2. CASE ReconcileStep(t) \/ apiCallFails(t)
      BY <2>2, WriterMoves, HandlerMoves DEF ReconcileStep, Move
    <2> QED  BY <1>0, <1>4, <2>1, <2>2, ReconcileMoves, CacheMoves DEF Move
  <1> QED  BY <1>1, <1>2, <1>3, <1>4 DEF Next

-----------------------------------------------------------------------------
(* The theorem.                                                            *)

RunInv == \A t \in Tasks : RunInvariant(t)

LEMMA RunInit == Init => RunInv
  <1> SUFFICES ASSUME Init, NEW t \in Tasks PROVE RunInvariant(t)
    BY DEF RunInv
  <1> DEFINE z == NoTask(0, 0)
  <1>1. /\ task[t] = <<z>> /\ rec[t].pc = "idle" /\ hist[t].made = 0 /\ hist[t].evicted = 0
    BY DEF Init, Idle, NewHist
  <1>2. NewestTask(t) = z /\ \A v \in Versions(task[t]) : v = z
    BY <1>1 DEF NewestTask, Current, Versions
  <1>3. z.uid = 0 /\ ~z.exists
    BY DEF NoTask
  <1> HIDE DEF z
  <1>4. \A d \in Pairs(task[t]) : d[1] = z /\ d[2] = z
    BY <1>1 DEF Pairs
  <1>5. Precedes(z, z) /\ ~Hopeful(z)
    BY <1>3 DEF Precedes, Hopeful, Over
  <1> QED
    BY <1>1, <1>2, <1>3, <1>4, <1>5
    DEF RunInvariant, InOrder, Unmarked, Gone, Known, RunsOnce, Spent

LEMMA RunStep == SafetyInvariant /\ TypeOK' /\ RunInv /\ [Next]_vars => RunInv'
  <1> SUFFICES ASSUME SafetyInvariant, TypeOK', RunInv, [Next]_vars, NEW t \in Tasks
               PROVE  RunInvariant(t)'
    BY DEF RunInv
  <1>1. RunInvariant(t) /\ Move(t)
    BY EveryMove DEF RunInv, RunInvariant
  <1>2. InOrder(t)'
    BY <1>1, OrderStays DEF RunInvariant
  <1>3. Unmarked(t)' /\ Known(t)' /\ Gone(t)' /\ RunsOnce(t)'
    BY <1>1, KnownStays, GoneStays, RunsOnceStays
  <1> QED  BY <1>2, <1>3 DEF RunInvariant

LEMMA RunsHold == Spec => []RunInv
  <1>1. SafetyInvariant => TypeOK
    BY DEF SafetyInvariant
  <1> QED  BY <1>1, RunInit, RunStep, SafetyHolds, TypeCorrect, PTL DEF Spec

(* However often its name is used, its calls are repeated, its answers are  *)
(* lost and the operator restarts, a task gets a second pod only when       *)
(* someone else has deleted the first.                                     *)
THEOREM RunsAtMostOnce == Spec => []AtMostOneAgentRun
  <1>1. RunInv => AtMostOneAgentRun
    BY DEF RunInv, RunInvariant, RunsOnce, AtMostOneAgentRun
  <1> QED  BY <1>1, RunsHold, PTL

-----------------------------------------------------------------------------
(* Success: the inductive invariant.                                       *)

(* Versions that a call may make a pod for, and calls that are about to,   *)
(* are of the newest incarnation.                                          *)
ForNewest(t) ==
  LET u == NewestTask(t).uid IN
  /\ \A v \in Versions(task[t]) : (v.exists => v.uid # 0) /\ (Hopeful(v) => v.uid = u)
  /\ rec[t].pc \in {"initializing", "createPod"} => rec[t].obj.uid = u /\ u # 0

(* The phases that follow the end of the agent's work, and the success of  *)
(* a pod of the newest incarnation.                                        *)
Done == {"CreatingMR", "Succeeded"}

Earned(t) == hist[t].succeeded

(* What a version of task t, one of its pod, and a call under way may say  *)
(* of the newest incarnation.                                              *)
TaskFits(t, v) ==
  v.uid = NewestTask(t).uid /\ v.status.phase \in Done => Earned(t)

OwnedByNewest(t, p) == p.owner = NewestTask(t).uid /\ p.owner # 0

PodFits(t, p) ==
  p.exists => OwnedByNewest(t, p) /\ (p.phase = "Succeeded" => Earned(t))

CallFits(t, c) ==
  /\ c.obj.uid = NewestTask(t).uid
  /\ c.obj.status.phase \in Done \/ c.status.phase \in Done
  => Earned(t)

OutcomeInvariant(t) ==
  /\ ForNewest(t)
  /\ \A v \in Versions(task[t]) : TaskFits(t, v)
  /\ \A p \in Versions(pod[t]) : PodFits(t, p)
  /\ rec[t].pc # "idle" => CallFits(t, rec[t])

OutcomeInv == \A t \in Tasks : OutcomeInvariant(t)

-----------------------------------------------------------------------------
(* What a step may do to one task, its pods and its call, when it does not  *)
(* create the task.                                                        *)

Lasts(t) ==
  /\ NewestTask(t)'.uid = NewestTask(t).uid
  /\ hist[t].succeeded => hist'[t].succeeded

TasksFit(t) ==
  \A v \in Versions(task'[t]) : v \in Versions(task[t]) \/ TaskFits(t, v)

PodsFit(t) ==
  \A p \in Versions(pod'[t]) :
    \/ p \in Versions(pod[t])
    \/ PodFits(t, p)
    \/ OwnedByNewest(t, p) /\ Earned(t)'

WorkFits(t) ==
  rec'[t] = rec[t] \/ rec'[t].pc = "idle" \/ CallFits(t, rec'[t])

Outcome(t) == Lasts(t) /\ TasksFit(t) /\ PodsFit(t) /\ WorkFits(t)

(* Such a step keeps the invariant.                                        *)
LEMMA OutcomeStays ==
  ASSUME NEW t \in Tasks, OutcomeInvariant(t), Outcome(t), ForNewest(t)'
  PROVE  OutcomeInvariant(t)'
  <1>1. NewestTask(t)'.uid = NewestTask(t).uid /\ (Earned(t) => Earned(t)')
    BY DEF Outcome, Lasts, Earned
  <1>2. \A v : TaskFits(t, v) => TaskFits(t, v)'
    BY <1>1 DEF TaskFits
  <1>3. \A p : PodFits(t, p) \/ (OwnedByNewest(t, p) /\ Earned(t)') => PodFits(t, p)'
    BY <1>1 DEF PodFits, OwnedByNewest
  <1>4. \A v \in Versions(task'[t]) : TaskFits(t, v)'
    BY <1>2 DEF Outcome, TasksFit, OutcomeInvariant
  <1>5. \A p \in Versions(pod'[t]) : PodFits(t, p)'
    BY <1>3 DEF Outcome, PodsFit, OutcomeInvariant
  <1>6. rec'[t].pc # "idle" => CallFits(t, rec[t])'
    BY <1>1 DEF Outcome, WorkFits, OutcomeInvariant, CallFits
  <1> QED  BY <1>1, <1>4, <1>5, <1>6 DEF OutcomeInvariant

(* Whatever its move, versions and calls that may make a pod stay those of *)
(* the newest incarnation.                                                 *)
LEMMA NewestStays ==
  ASSUME SafetyInvariant, NEW t \in Tasks, Gone(t), ForNewest(t), Move(t)
  PROVE  ForNewest(t)'
  <1> DEFINE n == NewestTask(t)
             m == NewestTask(t)'
             c == rec[t]
             x == rec'[t]
             V == Versions(task[t])
             W == Versions(task'[t])
             Makers == {"initializing", "createPod"}
  <1>0. /\ \A v \in V : (v.exists => v.uid # 0) /\ (Hopeful(v) => v.uid = n.uid)
        /\ c.pc \in Makers => c.obj.uid = n.uid /\ n.uid # 0
        /\ n \in V /\ Cached(task[t]) \in V
        /\ \A v \in V : v.uid \in Nat /\ v.uid <= n.uid
    BY TaskFacts DEF ForNewest
  <1>1. SUFFICES /\ \A v \in W : (v.exists => v.uid # 0) /\ (Hopeful(v) => v.uid = m.uid)
                 /\ x.pc \in Makers => x.obj.uid = m.uid /\ m.uid # 0
    BY DEF ForNewest
  <1>2. \A v : Hopeful(v) => v.exists
    BY DEF Hopeful, Over
  <1>3. CASE Rests(t) \/ Reads(t) \/ GoesOn(t) \/ Makes(t) \/ PodGoes(t)
    <2>0. m = n /\ W \subseteq V
      BY <1>3 DEF Rests, Reads, GoesOn, Makes, PodGoes, Held
    <2>1. \A v \in W : (v.exists => v.uid # 0) /\ (Hopeful(v) => v.uid = m.uid)
      BY <1>0, <2>0
    <2>2. x.pc \in Makers => x.obj.uid = m.uid /\ m.uid # 0
      <3>1. CASE x = c \/ x.pc = "idle"
        BY <1>0, <2>0, <3>1
      <3>2. CASE x.pc = "initializing" /\ Hopeful(Cached(task[t])) /\ x.obj = Cached(task[t])
        BY <1>0, <1>2, <2>0, <3>2
      <3>3. CASE x.pc = "createPod" /\ c.pc = "initializing" /\ x.obj = c.obj
        BY <1>0, <2>0, <3>3
      <3>4. CASE x.pc \notin Makers
        BY <3>4
      <3> QED
        BY <1>3, <3>1, <3>2, <3>3, <3>4
        DEF Rests, Reads, GoesOn, Makes, PodGoes, CallGoes, Hopeful
    <2> QED  BY <2>1, <2>2
  <1>4. CASE Rewrites(t) \/ Marks(t) \/ Removes(t)
    <2>1. /\ m.uid = n.uid /\ n.exists
          /\ \A v \in W : v = m \/ v \in V
          /\ x = c \/ x.pc = "idle" \/ x.obj = m
      BY <1>4 DEF Rewrites, Marks, Removes, Wrote, CallGoes
    <2> QED  BY <1>0, <2>1
  <1>5. CASE Creates(t)
    <2>1. /\ m.uid = n.uid + 1 /\ ~m.finalizer /\ ~n.exists /\ x = c
          /\ \A v \in W : v = m \/ v \in V
      BY <1>5 DEF Creates, Wrote
    <2>2. /\ \A v \in V : v.uid = n.uid => ~Hopeful(v)
          /\ c.pc \in Makers => c.obj.uid # n.uid
      BY <2>1 DEF Gone, Spent
    <2>3. ~Hopeful(m)
      BY <2>1 DEF Hopeful
    <2> QED  BY <1>0, <2>1, <2>2, <2>3
  <1> QED
    BY <1>3, <1>4, <1>5 DEF Move

-----------------------------------------------------------------------------
(* The pieces of an action.                                                *)

LEMMA OutcomeFacts ==
  ASSUME SafetyInvariant, NEW t \in Tasks, OutcomeInvariant(t)
  PROVE  /\ TypeOK
         /\ NewestTask(t) \in AgentTaskObject /\ TaskFits(t, NewestTask(t))
         /\ Cached(task[t]) \in AgentTaskObject /\ TaskFits(t, Cached(task[t]))
         /\ NewestPod(t) \in PodObject /\ PodFits(t, NewestPod(t))
         /\ Cached(pod[t]) \in PodObject /\ PodFits(t, Cached(pod[t]))
  <1>1. TypeOK /\ pod[t] \in Seq(PodObject) \ {<<>>}
    BY DEF SafetyInvariant, TypeOK
  <1>2. /\ NewestTask(t) \in Versions(task[t]) /\ Cached(task[t]) \in Versions(task[t])
        /\ Cached(task[t]).uid <= NewestTask(t).uid
    BY TaskFacts
  <1>3. /\ NewestTask(t) \in AgentTaskObject /\ Cached(task[t]) \in AgentTaskObject
        /\ NewestPod(t) \in PodObject /\ Cached(pod[t]) \in PodObject
    BY <1>1, NewestTypes
  <1>4. NewestPod(t) \in Versions(pod[t]) /\ Cached(pod[t]) \in Versions(pod[t])
    BY <1>1, <1>3, WindowVersions DEF NewestPod
  <1>5. TaskFits(t, NewestTask(t)) /\ TaskFits(t, Cached(task[t]))
    BY <1>2 DEF OutcomeInvariant
  <1>6. PodFits(t, NewestPod(t)) /\ PodFits(t, Cached(pod[t]))
    BY <1>4 DEF OutcomeInvariant
  <1> QED  BY <1>1, <1>3, <1>5, <1>6

(* Nothing happens to the task, or to the pod.                             *)
LEMMA SameFits ==
  ASSUME NEW t \in Tasks
  PROVE  /\ task'[t] = task[t] => TasksFit(t) /\ NewestTask(t)' = NewestTask(t)
         /\ pod'[t] = pod[t] => PodsFit(t)
         /\ rec'[t] = rec[t] => WorkFits(t)
  BY DEF TasksFit, PodsFit, WorkFits, NewestTask

(* A version of the task, or of its pod, is written.                       *)
LEMMA WriteFits ==
  ASSUME TypeOK, NEW t \in Tasks
  PROVE  /\ \A o \in AgentTaskObject :
              StoreTask(t, o) /\ TaskFits(t, o) /\ o.uid = NewestTask(t).uid
              => TasksFit(t) /\ NewestTask(t)'.uid = NewestTask(t).uid
         /\ \A p \in PodObject :
              StorePod(t, p) /\ (PodFits(t, p) \/ (OwnedByNewest(t, p) /\ Earned(t)')) => PodsFit(t)
  <1>1. ASSUME NEW o \in AgentTaskObject, StoreTask(t, o), TaskFits(t, o),
               o.uid = NewestTask(t).uid
        PROVE  TasksFit(t) /\ NewestTask(t)'.uid = NewestTask(t).uid
    <2> DEFINE m == NewestTask(t)'
    <2>1. Wrote(t) /\ m = [o EXCEPT !.rv = @ + 1] /\ m.exists = o.exists /\ m.uid = o.uid
      BY <1>1, StoredIsWritten
    <2>2. m.status = o.status
      BY <2>1 DEF AgentTaskObject
    <2>3. TaskFits(t, m)
      BY <1>1, <2>1, <2>2 DEF TaskFits
    <2> QED  BY <1>1, <2>1, <2>3 DEF Wrote, TasksFit
  <1>2. ASSUME NEW p \in PodObject, StorePod(t, p),
               PodFits(t, p) \/ (OwnedByNewest(t, p) /\ Earned(t)')
        PROVE  PodsFit(t)
    <2>1. pod[t] \in Seq(PodObject) \ {<<>>} /\ pod'[t] = Stored(pod[t], p)
      BY <1>2 DEF StorePod, TypeOK
    <2>2. \A x \in Versions(pod'[t]) : x = p \/ x \in Versions(pod[t])
      BY <2>1, WindowVersions
    <2> QED  BY <1>2, <2>2 DEF PodsFit
  <1> QED  BY <1>1, <1>2

(* A pod that is deleted stays what it is but for the mark.                *)
LEMMA DeleteFits ==
  ASSUME TypeOK, NEW t \in Tasks, PodFits(t, NewestPod(t)), DeletePod(t)
  PROVE  PodsFit(t)
  <1> DEFINE p == NewestPod(t)
             d == [p EXCEPT !.terminating = TRUE]
  <1>1. p \in PodObject
    BY NewestTypes
  <1>2. /\ d \in PodObject /\ d.exists = p.exists /\ d.owner = p.owner /\ d.phase = p.phase
    BY <1>1 DEF PodObject
  <1>3. PodFits(t, d)
    BY <1>2 DEF PodFits, OwnedByNewest
  <1>4. UNCHANGED pod \/ StorePod(t, d)
    BY DEF DeletePod
  <1> HIDE DEF d
  <1> QED  BY <1>2, <1>3, <1>4, SameFits, WriteFits

(* A call goes on or returns.                                              *)
LEMMA WorkGoesOn ==
  ASSUME SafetyInvariant, NEW t \in Tasks, OutcomeInvariant(t), rec[t].pc # "idle"
  PROVE  /\ \A requeue : Return(t, requeue) => WorkFits(t)
         /\ \A s : Goto(t, s) => WorkFits(t)
         /\ \A s \in AgentTaskStatus : \A phase, message :
              setPhase(t, s, phase, message)
              /\ (phase \in Done /\ rec[t].obj.uid = NewestTask(t).uid => Earned(t))
              => WorkFits(t)
         /\ \A s \in AgentTaskStatus : \A message : setFailed(t, s, message) => WorkFits(t)
  <1> DEFINE c == rec[t]
             d == rec'[t]
  <1>0. /\ c \in ReconcileCall /\ rec \in [Tasks -> ReconcileCall]
        /\ CallFits(t, c)
    BY DEF SafetyInvariant, TypeOK, OutcomeInvariant
  <1>1. \A requeue : Return(t, requeue) => WorkFits(t)
    BY <1>0 DEF Return, Idle, WorkFits
  <1>2. ASSUME NEW s, Goto(t, s) PROVE WorkFits(t)
    <2>1. d.obj = c.obj /\ d.status = c.status
      BY <1>0, <1>2 DEF Goto, ReconcileCall
    <2> QED  BY <1>0, <2>1 DEF WorkFits, CallFits
  <1>3. ASSUME NEW s \in AgentTaskStatus, NEW phase, NEW message,
               setPhase(t, s, phase, message),
               phase \in Done /\ c.obj.uid = NewestTask(t).uid => Earned(t)
        PROVE  WorkFits(t)
    <2> DEFINE z == [s EXCEPT !.phase = phase, !.message = message]
    <2>1. z.phase = phase
      BY DEF AgentTaskStatus
    <2>2. rec' = [rec EXCEPT ![t].pc = "updateStatus", ![t].status = z]
      BY <1>3 DEF setPhase
    <2> HIDE DEF z
    <2>3. d.obj = c.obj /\ d.status = z
      BY <1>0, <2>2 DEF ReconcileCall
    <2> QED  BY <1>0, <1>3, <2>1, <2>3 DEF WorkFits, CallFits
  <1>4. ASSUME NEW s \in AgentTaskStatus, NEW message, setFailed(t, s, message)
        PROVE  WorkFits(t)
    <2> DEFINE z == [s EXCEPT !.endTime = TRUE]
    <2>1. z \in AgentTaskStatus
      BY DEF AgentTaskStatus
    <2>2. setPhase(t, z, "Failed", message) /\ "Failed" \notin Done
      BY <1>4 DEF setFailed, Done
    <2> HIDE DEF z
    <2> QED  BY <1>3, <2>1, <2>2
  <1> QED  BY <1>1, <1>2, <1>3, <1>4

(* A call starts on a version that fits, or ends at once.                  *)
LEMMA WorkStarts ==
  ASSUME TypeOK, NEW t \in Tasks, NEW o, TaskFits(t, o),
         Dispatch(t, o) \/ \E s : rec' = [rec EXCEPT ![t] =
                                           [pc |-> s, obj |-> o, status |-> o.status]]
  PROVE  WorkFits(t)
  <1>1. rec'[t] = Idle \/ \E s : rec'[t] = [pc |-> s, obj |-> o, status |-> o.status]
    BY DEF Dispatch, TypeOK
  <1>2. CASE rec'[t] = Idle
    BY <1>2 DEF Idle, WorkFits
  <1>3. ASSUME NEW s, rec'[t] = [pc |-> s, obj |-> o, status |-> o.status] PROVE WorkFits(t)
    <2>1. rec'[t].obj = o /\ rec'[t].status = o.status
      BY <1>3
    <2>2. CallFits(t, rec'[t])
      BY <2>1 DEF CallFits, TaskFits
    <2> QED  BY <2>2 DEF WorkFits
  <1> QED  BY <1>1, <1>2, <1>3

-----------------------------------------------------------------------------
(* Every action has such an outcome.                                       *)

(* The caches, the process, users and the pool controller.                 *)
LEMMA OutsideFits ==
  ASSUME SafetyInvariant, NEW t \in Tasks, OutcomeInvariant(t),
         \/ SyncTask(t) \/ SyncPod(t) \/ Crash
         \/ DeleteTask(t) \/ EditTask(t) \/ GrantSlot(t)
  PROVE  Outcome(t)
  <1> DEFINE n == NewestTask(t)
  <1>0. /\ TypeOK /\ n \in AgentTaskObject /\ TaskFits(t, n) /\ NewestPod(t) \in PodObject
        /\ task[t] \in Seq(AgentTaskObject) \ {<<>>} /\ pod[t] \in Seq(PodObject) \ {<<>>}
    BY OutcomeFacts DEF TypeOK
  <1>1. CASE SyncTask(t) \/ SyncPod(t) \/ Crash
    <2>1. Held(t) /\ UNCHANGED hist
      BY <1>0, <1>1, CacheMoves DEF Rests, SyncTask, SyncPod, Crash
    <2>2. TasksFit(t) /\ Lasts(t)
      BY <2>1 DEF Held, TasksFit, Lasts
    <2>3. PodsFit(t)
      <3>1. \/ pod'[t] = pod[t] \/ pod'[t] = Relisted(pod[t])
            \/ Lagging(pod[t]) /\ pod'[t] = Delivered(pod[t])
        BY <1>0, <1>1 DEF SyncTask, SyncPod, Crash, TypeOK
      <3>2. Versions(pod'[t]) \subseteq Versions(pod[t])
        BY <1>0, <3>1, WindowVersions
      <3> QED  BY <3>2 DEF PodsFit
    <2>4. WorkFits(t)
      BY <1>1 DEF SyncTask, SyncPod, Crash, Idle, WorkFits
    <2> QED  BY <2>2, <2>3, <2>4 DEF Outcome
  <1>2. CASE DeleteTask(t) \/ EditTask(t) \/ GrantSlot(t)
    <2>1. UNCHANGED <<pod, rec, hist>>
      BY <1>2 DEF DeleteTask, EditTask, GrantSlot
    <2>2. PICK o \in AgentTaskObject :
            /\ StoreTask(t, o) /\ o.uid = n.uid /\ (o.exists => n.exists)
            /\ o.status = n.status \/ o.status = NewStatus
      <3>1. CASE DeleteTask(t)
        <4>1. /\ [n EXCEPT !.deleting = TRUE] \in AgentTaskObject
              /\ [n EXCEPT !.deleting = TRUE].uid = n.uid
              /\ [n EXCEPT !.deleting = TRUE].exists = n.exists
              /\ [n EXCEPT !.deleting = TRUE].status = n.status
          BY <1>0 DEF AgentTaskObject
        <4>2. NoTask(n.rv, n.uid) \in AgentTaskObject
          BY <1>0, ConstantTypes DEF AgentTaskObject
        <4>3. /\ NoTask(n.rv, n.uid).uid = n.uid /\ ~NoTask(n.rv, n.uid).exists
              /\ NoTask(n.rv, n.uid).status = NewStatus
          BY DEF NoTask
        <4>4. StoreTask(t, [n EXCEPT !.deleting = TRUE]) \/ StoreTask(t, NoTask(n.rv, n.uid))
          BY <3>1 DEF DeleteTask
        <4> QED  BY <4>1, <4>2, <4>3, <4>4
      <3>2. CASE EditTask(t)
        <4>1. PICK s \in Specs : StoreTask(t, [n EXCEPT !.spec = s])
          BY <3>2 DEF EditTask
        <4>2. s \in TaskSpec
          BY ConstantsAssumption
        <4>3. /\ [n EXCEPT !.spec = s] \in AgentTaskObject
              /\ [n EXCEPT !.spec = s].uid = n.uid /\ [n EXCEPT !.spec = s].exists = n.exists
              /\ [n EXCEPT !.spec = s].status = n.status
          BY <1>0, <4>2 DEF AgentTaskObject
        <4> QED  BY <4>1, <4>3
      <3>3. CASE GrantSlot(t)
        <4>1. /\ [n EXCEPT !.granted = TRUE] \in AgentTaskObject
              /\ [n EXCEPT !.granted = TRUE].uid = n.uid
              /\ [n EXCEPT !.granted = TRUE].exists = n.exists
              /\ [n EXCEPT !.granted = TRUE].status = n.status
          BY <1>0 DEF AgentTaskObject
        <4> QED  BY <3>3, <4>1 DEF GrantSlot
      <3> QED  BY <1>2, <3>1, <3>2, <3>3
    <2>3. TaskFits(t, o)
      <3>2. NewStatus.phase \notin Done
        BY DEF NewStatus, Done
      <3>3. o.status.phase \in Done => Earned(t)
        BY <1>0, <2>2, <3>2 DEF TaskFits
      <3> QED  BY <3>3 DEF TaskFits
    <2>4. TasksFit(t) /\ NewestTask(t)'.uid = NewestTask(t).uid
      BY <1>0, <2>2, <2>3, WriteFits
    <2> QED  BY <2>1, <2>4, SameFits DEF Outcome, Lasts
  <1> QED  BY <1>1, <1>2

(* The kubelet, the garbage collector and time.                            *)
LEMMA PodOutcome ==
  ASSUME SafetyInvariant, NEW t \in Tasks, OutcomeInvariant(t),
         \/ PodStarts(t) \/ PodSucceeds(t) \/ PodFails(t) \/ PodRemoved(t)
         \/ CollectPod(t) \/ EvictPod(t) \/ Expire(t)
  PROVE  Outcome(t)
  <1> DEFINE p == NewestPod(t)
             n == NewestTask(t)
  <1>0. TypeOK /\ p \in PodObject /\ PodFits(t, p) /\ hist \in [Tasks -> History]
    BY OutcomeFacts DEF TypeOK
  <1>1. TasksFit(t) /\ WorkFits(t) /\ n' = n
    BY SameFits
    DEF PodStarts, PodSucceeds, PodFails, PodReports, PodRemoved, CollectPod, EvictPod, Expire
  <1>2. hist[t].succeeded => hist'[t].succeeded
    <2>1. CASE UNCHANGED hist
      BY <2>1
    <2>2. CASE PodSucceeds(t)
      BY <1>0, <2>2 DEF PodSucceeds, History
    <2>3. CASE EvictPod(t)
      BY <1>0, <2>3 DEF EvictPod, History
    <2> QED
      BY <2>1, <2>2, <2>3 DEF PodStarts, PodFails, PodRemoved, CollectPod, Expire
  <1>3. \A f \in PodPhases : LET r == [p EXCEPT !.phase = f]
                             IN  /\ r \in PodObject /\ r.exists = p.exists
                                 /\ r.owner = p.owner /\ r.phase = f
    BY <1>0 DEF PodObject
  <1>4. CASE PodStarts(t) \/ PodFails(t)
    <2>1. PICK f \in {"Running", "Failed"} : StorePod(t, [p EXCEPT !.phase = f])
      BY <1>4 DEF PodStarts, PodFails, PodReports
    <2>2. f \in PodPhases
      BY DEF PodPhases
    <2> DEFINE r == [p EXCEPT !.phase = f]
    <2>3. r \in PodObject /\ PodFits(t, r)
      BY <1>0, <1>3, <2>2 DEF PodFits, OwnedByNewest
    <2> HIDE DEF r
    <2>4. PodsFit(t)
      BY <1>0, <2>1, <2>3, WriteFits DEF r
    <2> QED  BY <1>1, <1>2, <2>4 DEF Outcome, Lasts
  <1>5. CASE PodSucceeds(t)
    <2> DEFINE r == [p EXCEPT !.phase = "Succeeded"]
    <2>1. StorePod(t, r) /\ p.exists
      BY <1>5 DEF PodSucceeds, PodReports
    <2>2. r \in PodObject /\ r.owner = p.owner
      BY <1>3 DEF PodPhases
    <2>3. OwnedByNewest(t, p) /\ OwnedByNewest(t, r)
      BY <1>0, <2>1, <2>2 DEF PodFits, OwnedByNewest
    <2>4. Earned(t)'
      <3>1. hist'[t].succeeded
        BY <1>0, <1>5, <2>3 DEF PodSucceeds, History, OwnedByNewest
      <3> QED  BY <3>1 DEF Earned
    <2> HIDE DEF r
    <2>5. PodsFit(t)
      BY <1>0, <2>1, <2>2, <2>3, <2>4, WriteFits
    <2> QED  BY <1>1, <1>2, <2>5 DEF Outcome, Lasts
  <1>6. CASE PodRemoved(t)
    <2>1. NoPod \in PodObject /\ PodFits(t, NoPod)
      BY ConstantTypes DEF PodFits, NoPod
    <2>2. PodsFit(t)
      BY <1>0, <1>6, <2>1, WriteFits DEF PodRemoved
    <2> QED  BY <1>1, <1>2, <2>2 DEF Outcome, Lasts
  <1>7. CASE CollectPod(t) \/ EvictPod(t) \/ Expire(t)
    <2>1. PodsFit(t)
      BY <1>0, <1>7, DeleteFits, SameFits DEF CollectPod, EvictPod, Expire
    <2> QED  BY <1>1, <1>2, <2>1 DEF Outcome, Lasts
  <1> QED  BY <1>4, <1>5, <1>6, <1>7

(* No version of the old pod is left, on the server or on its way to the   *)
(* cache.                                                                  *)
PodGone(t) == \A p \in Versions(pod[t]) : ~p.exists

(* The first incarnation, or one that comes when the old pod is gone.       *)
LEMMA CreationFits ==
  ASSUME SafetyInvariant, NEW t \in Tasks, OutcomeInvariant(t), CreateTask(t),
         PodGone(t), ForNewest(t)'
  PROVE  OutcomeInvariant(t)'
  <1> DEFINE n == NewestTask(t)
             m == NewestTask(t)'
  <1>0. /\ TypeOK /\ n \in AgentTaskObject /\ n.uid \in Nat
        /\ CallSound(t) /\ \A v \in Versions(task[t]) : v.uid \in Nat /\ v.uid <= n.uid
    BY OutcomeFacts, TaskFacts DEF AgentTaskObject, SafetyInvariant
  <1>1. PICK s \in Specs :
          StoreTask(t, [NoTask(n.rv, n.uid + 1) EXCEPT !.exists = TRUE, !.spec = s])
    BY DEF CreateTask
  <1> DEFINE o == [NoTask(n.rv, n.uid + 1) EXCEPT !.exists = TRUE, !.spec = s]
  <1>2. o \in AgentTaskObject /\ o.uid = n.uid + 1 /\ o.status.phase = "Pending"
    <2>1. s \in TaskSpec /\ n.rv \in Nat
      BY <1>0, ConstantsAssumption DEF AgentTaskObject
    <2>2. NoTask(n.rv, n.uid + 1) \in AgentTaskObject
      BY <1>0, <2>1, ConstantTypes
    <2> QED  BY <2>1, <2>2 DEF AgentTaskObject, NoTask, NewStatus
  <1>3. StoreTask(t, o)
    BY <1>1
  <1> HIDE DEF o
  <1>4. Wrote(t) /\ m = [o EXCEPT !.rv = @ + 1] /\ m.uid = n.uid + 1
    BY <1>0, <1>2, <1>3, StoredIsWritten
  <1>5. m.status.phase \notin Done
    BY <1>2, <1>4 DEF AgentTaskObject, Done
  <1>6. UNCHANGED <<pod, rec>>
    BY DEF CreateTask
  <1>7. \A v \in Versions(task'[t]) : TaskFits(t, v)'
    <2>1. \A v \in Versions(task[t]) : v.uid # m.uid
      BY <1>0, <1>4
    <2>2. \A v \in Versions(task'[t]) : v = m \/ v.uid # m.uid
      BY <1>4, <2>1 DEF Wrote
    <2> QED  BY <1>5, <2>2 DEF TaskFits
  <1>8. \A p \in Versions(pod'[t]) : PodFits(t, p)'
    BY <1>6 DEF PodFits, PodGone
  <1>9. rec[t].pc # "idle" => CallFits(t, rec[t])'
    <2>1. rec[t].pc # "idle" => rec[t].obj.uid <= n.uid /\ rec[t].obj.uid \in Nat
      BY <1>0, TaskFacts DEF CallSound, NotAfter
    <2>2. rec[t].pc # "idle" => rec[t].obj.uid # m.uid
      BY <1>0, <1>4, <2>1
    <2> QED  BY <1>6, <2>2 DEF CallFits
  <1> QED  BY <1>6, <1>7, <1>8, <1>9 DEF OutcomeInvariant

(* When a name is used for the first time there is no pod of that name.    *)
LEMMA FirstHasNoPod ==
  ASSUME SafetyInvariant, NEW t \in Tasks, OutcomeInvariant(t), CreateTask(t),
         MaxIncarnations <= 1
  PROVE  PodGone(t)
  <1>1. NewestTask(t).uid = 0
    BY OutcomeFacts, ConstantsAssumption DEF AgentTaskObject, CreateTask
  <1> QED  BY <1>1 DEF OutcomeInvariant, PodFits, OwnedByNewest, PodGone

(* Reconcile and the calls that write the task.                            *)
LEMMA WriterFits ==
  ASSUME SafetyInvariant, NEW t \in Tasks, OutcomeInvariant(t),
         Reconcile(t) \/ ensureFinalizer(t) \/ updateStatus(t) \/ removeFinalizer(t)
  PROVE  Outcome(t)
  <1> DEFINE n == NewestTask(t)
             c == rec[t]
  <1>0. /\ TypeOK /\ n \in AgentTaskObject /\ TaskFits(t, n)
        /\ Cached(task[t]) \in AgentTaskObject /\ TaskFits(t, Cached(task[t]))
        /\ c.status \in AgentTaskStatus
    BY OutcomeFacts, NewestTypes
  <1>1. PodsFit(t) /\ UNCHANGED hist
    BY SameFits DEF Reconcile, ensureFinalizer, updateStatus, removeFinalizer
  <1>2. CASE Reconcile(t)
    <2> DEFINE o == Cached(task[t])
    <2>1. TasksFit(t) /\ n' = n
      BY <1>2, SameFits DEF Reconcile
    <2> DEFINE Starts(s) == rec' = [rec EXCEPT ![t] =
                                      [pc |-> s, obj |-> o, status |-> o.status]]
    <2>2. \/ UNCHANGED rec
          \/ o.exists /\ (Dispatch(t, o) \/ Starts("deletion") \/ Starts("finalizer"))
      BY <1>2 DEF Reconcile
    <2>4. TaskFits(t, o)
      BY <1>0
    <2> HIDE DEF o, Starts
    <2>5. ASSUME UNCHANGED rec PROVE WorkFits(t)
      BY <2>5, SameFits
    <2>6. ASSUME o.exists /\ (Dispatch(t, o) \/ Starts("deletion") \/ Starts("finalizer"))
          PROVE  WorkFits(t)
      <3>1. Dispatch(t, o) \/ \E s : rec' = [rec EXCEPT ![t] =
                                             [pc |-> s, obj |-> o, status |-> o.status]]
        BY <2>6 DEF Starts
      <3> QED  BY <1>0, <2>4, <3>1, WorkStarts
    <2>7. WorkFits(t)
      BY <2>2, <2>5, <2>6
    <2> QED  BY <1>1, <2>1, <2>7 DEF Outcome, Lasts
  <1>3. ASSUME c.pc # "idle", UNCHANGED task, Return(t, TRUE) PROVE Outcome(t)
    BY <1>1, <1>3, SameFits, WorkGoesOn DEF Outcome, Lasts
  <1>4. CASE ensureFinalizer(t)
    <2> DEFINE o == [n EXCEPT !.finalizer = TRUE]
               r == [o EXCEPT !.rv = @ + 1]
    <2>1. c.pc # "idle"
      BY <1>4 DEF ensureFinalizer
    <2>3. CASE StoreTask(t, o) /\ Dispatch(t, r)
      <3>1. /\ o \in AgentTaskObject /\ o.exists = n.exists /\ o.uid = n.uid
            /\ o.status = n.status
            /\ r.exists = n.exists /\ r.uid = n.uid /\ r.status = n.status
        BY <1>0 DEF AgentTaskObject
      <3>2. TaskFits(t, o) /\ TaskFits(t, r)
        BY <1>0, <3>1 DEF TaskFits
      <3>3. StoreTask(t, o) /\ Dispatch(t, r)
        BY <2>3
      <3> HIDE DEF o, r
      <3>4. TasksFit(t) /\ n'.uid = n.uid
        BY <1>0, <3>1, <3>2, <3>3, WriteFits
      <3>5. WorkFits(t)
        BY <1>0, <3>1, <3>2, <3>3, WorkStarts
      <3> QED  BY <1>1, <3>4, <3>5 DEF Outcome, Lasts
    <2> QED  BY <1>3, <1>4, <2>1, <2>3 DEF ensureFinalizer
  <1>5. ASSUME NEW o \in AgentTaskObject, StoreTask(t, o), o.uid = n.uid,
               o.exists => n.exists, o.status.phase \in Done => Earned(t),
               c.pc # "idle", NEW requeue, Return(t, requeue)
        PROVE  Outcome(t)
    <2>1. TaskFits(t, o)
      BY <1>0, <1>5 DEF TaskFits
    <2>2. TasksFit(t) /\ n'.uid = n.uid
      BY <1>0, <1>5, <2>1, WriteFits
    <2>3. WorkFits(t)
      BY <1>5, WorkGoesOn
    <2> QED  BY <1>1, <2>2, <2>3 DEF Outcome, Lasts
  <1>6. CASE updateStatus(t)
    <2> DEFINE o == [n EXCEPT !.status = c.status]
    <2>1. /\ o \in AgentTaskObject /\ o.uid = n.uid /\ o.exists = n.exists
          /\ o.status = c.status
      BY <1>0 DEF AgentTaskObject
    <2>2. c.pc # "idle"
      BY <1>6 DEF updateStatus
    <2>3. Fresh(t) => (c.status.phase \in Done => Earned(t))
      <3>1. Fresh(t) => c.obj = n
        BY <2>2 DEF Fresh, SafetyInvariant, CallSound, NotAfter
      <3> QED  BY <2>2, <3>1 DEF OutcomeInvariant, CallFits
    <2>4. \/ Fresh(t) /\ StoreTask(t, o) /\ Return(t, c.status.phase \notin Terminal)
          \/ Return(t, TRUE) /\ UNCHANGED task
      BY <1>6 DEF updateStatus
    <2> HIDE DEF o
    <2> QED  BY <1>3, <1>5, <2>1, <2>2, <2>3, <2>4
  <1>7. CASE removeFinalizer(t)
    <2> DEFINE o == NoTask(n.rv, n.uid)
    <2>1. /\ o \in AgentTaskObject /\ o.uid = n.uid /\ ~o.exists
          /\ o.status.phase \notin Done
      <3>1. o \in AgentTaskObject
        BY <1>0, ConstantTypes DEF AgentTaskObject
      <3> QED  BY <3>1 DEF NoTask, NewStatus, Done
    <2>2. c.pc # "idle"
      BY <1>7 DEF removeFinalizer
    <2>3. \/ StoreTask(t, o) /\ Return(t, FALSE)
          \/ Return(t, TRUE) /\ UNCHANGED task
      BY <1>7 DEF removeFinalizer
    <2> HIDE DEF o
    <2> QED  BY <1>3, <1>5, <2>1, <2>2, <2>3
  <1> QED  BY <1>2, <1>4, <1>6, <1>7

(* The calls that do not write it.                                         *)
LEMMA HandlerFits ==
  ASSUME SafetyInvariant, NEW t \in Tasks, OutcomeInvariant(t),
         \/ handlePending(t) \/ handleInitializing(t) \/ createPod(t) \/ handleRunning(t)
         \/ deleteTimedOutPod(t) \/ handleCreatingMR(t) \/ handleDeletion(t) \/ apiCallFails(t)
  PROVE  Outcome(t)
  <1> DEFINE c == rec[t]
             o == rec[t].obj
             st == rec[t].obj.status
  <1>0. /\ TypeOK /\ PodFits(t, NewestPod(t)) /\ PodFits(t, Cached(pod[t]))
        /\ o \in AgentTaskObject /\ st \in AgentTaskStatus
        /\ hist \in [Tasks -> History]
    BY OutcomeFacts, NewestTypes DEF TypeOK, AgentTaskObject
  <1>1. /\ TasksFit(t) /\ NewestTask(t)' = NewestTask(t) /\ c.pc # "idle"
    BY SameFits
    DEF handlePending, handleInitializing, createPod, handleRunning, deleteTimedOutPod,
        handleCreatingMR, handleDeletion, apiCallFails
  <1>2. CallFits(t, c)
    BY <1>1 DEF OutcomeInvariant
  <1>3. /\ {"Initializing", "Running"} \cap Done = {}
    BY DEF Done
  <1>4. ASSUME UNCHANGED hist, PodsFit(t), WorkFits(t) PROVE Outcome(t)
    BY <1>1, <1>4 DEF Outcome, Lasts
  <1>5. CASE handlePending(t)
    <2>1. UNCHANGED <<pod, hist>>
      BY <1>5 DEF handlePending
    <2>2. \/ \E m : setFailed(t, st, m) \/ setPhase(t, st, "Initializing", m)
          \/ Return(t, TRUE)
      BY <1>5 DEF handlePending
    <2>3. WorkFits(t)
      BY <1>0, <1>1, <1>3, <2>2, WorkGoesOn
    <2> QED  BY <1>4, <2>1, <2>3, SameFits
  <1>6. CASE handleInitializing(t)
    <2>1. UNCHANGED <<pod, hist>>
      BY <1>6 DEF handleInitializing
    <2> DEFINE z == [st EXCEPT !.podName = TRUE]
    <2>2. z \in AgentTaskStatus
      BY <1>0 DEF AgentTaskStatus
    <2>3. setPhase(t, z, "Running", "podRunning") \/ Goto(t, "createPod")
      BY <1>6 DEF handleInitializing
    <2> HIDE DEF z
    <2>4. WorkFits(t)
      BY <1>1, <1>3, <2>2, <2>3, WorkGoesOn
    <2> QED  BY <1>4, <2>1, <2>4, SameFits
  <1>7. CASE createPod(t)
    <2> DEFINE y == [st EXCEPT !.podName = TRUE, !.startTime = TRUE,
                               !.branchName = o.spec.branch]
               z == [st EXCEPT !.podName = TRUE]
               b == BuiltPod(o)
    <2>1. y \in AgentTaskStatus /\ z \in AgentTaskStatus
      BY <1>0 DEF AgentTaskStatus, AgentTaskObject, TaskSpec
    <2>2. b \in PodObject /\ b.owner = o.uid /\ b.phase = "Pending"
      BY <1>0 DEF BuiltPod, PodObject, PodPhases, TaskSpec, AgentTaskObject
    <2>3. PodFits(t, b)
      <3>1. c.pc = "createPod"
        BY <1>7 DEF createPod
      <3>2. OwnedByNewest(t, b)
        BY <2>2, <3>1 DEF OutcomeInvariant, ForNewest, OwnedByNewest
      <3> QED  BY <2>2, <3>2 DEF PodFits
    <2>4. \/ setPhase(t, y, "Running", "podCreated") \/ setPhase(t, z, "Running", "podRunning")
          \/ Return(t, TRUE)
      BY <1>7 DEF createPod
    <2>5. \/ StorePod(t, b)
             /\ hist' = [hist EXCEPT ![t].made =
                           IF o.uid = NewestTask(t).uid THEN @ + 1 ELSE @]
          \/ UNCHANGED <<pod, hist>>
      BY <1>7 DEF createPod
    <2> HIDE DEF y, z, b
    <2>6. WorkFits(t)
      BY <1>1, <1>3, <2>1, <2>4, WorkGoesOn
    <2>7. PodsFit(t)
      BY <1>0, <2>2, <2>3, <2>5, WriteFits, SameFits
    <2>8. hist[t].succeeded => hist'[t].succeeded
      BY <1>0, <2>5 DEF History
    <2> QED  BY <1>1, <2>6, <2>7, <2>8 DEF Outcome, Lasts
  <1>8. CASE handleRunning(t)
    <2> DEFINE p == Cached(pod[t])
    <2>1. UNCHANGED <<pod, hist>>
      BY <1>8 DEF handleRunning
    <2>2. \/ \E m : setFailed(t, st, m)
          \/ setPhase(t, st, "CreatingMR", "agentCompleted") /\ p.exists /\ p.phase = "Succeeded"
          \/ Goto(t, "timeout") \/ Return(t, TRUE)
      BY <1>8 DEF handleRunning, AgentSucceeded
    <2>3. p.exists /\ p.phase = "Succeeded" => Earned(t)
      BY <1>0 DEF PodFits
    <2>4. WorkFits(t)
      BY <1>0, <1>1, <2>2, <2>3, WorkGoesOn
    <2> QED  BY <1>4, <2>1, <2>4, SameFits
  <1>9. CASE deleteTimedOutPod(t)
    <2>1. UNCHANGED hist /\ setFailed(t, st, "timedOut") /\ (DeletePod(t) \/ UNCHANGED pod)
      BY <1>9 DEF deleteTimedOutPod
    <2>2. PodsFit(t) /\ WorkFits(t)
      BY <1>0, <1>1, <2>1, DeleteFits, SameFits, WorkGoesOn
    <2> QED  BY <1>4, <2>1, <2>2
  <1>10. CASE handleCreatingMR(t)
    <2> DEFINE z == [st EXCEPT !.mergeRequestURL = TRUE, !.endTime = TRUE]
    <2>1. UNCHANGED <<pod, hist>>
      BY <1>10 DEF handleCreatingMR
    <2>2. c.pc = "creatingMR" /\ z \in AgentTaskStatus
      BY <1>0, <1>10 DEF handleCreatingMR, AgentTaskStatus
    <2>3. st.phase \in Done
      <3>1. st.phase = "CreatingMR"
        BY <2>2 DEF SafetyInvariant, CallSound, PhaseAt, Steps
      <3> QED  BY <3>1 DEF Done
    <2>4. o.uid = NewestTask(t).uid => Earned(t)
      BY <1>2, <2>3 DEF CallFits
    <2>5. (\E m : setFailed(t, st, m)) \/ setPhase(t, z, "Succeeded", "mrCreated")
      BY <1>10 DEF handleCreatingMR
    <2> HIDE DEF z
    <2>6. WorkFits(t)
      BY <1>0, <1>1, <2>2, <2>4, <2>5, WorkGoesOn
    <2> QED  BY <1>4, <2>1, <2>6, SameFits
  <1>11. CASE handleDeletion(t)
    <2>1. UNCHANGED hist /\ Goto(t, "removeFinalizer") /\ (DeletePod(t) \/ UNCHANGED pod)
      BY <1>11 DEF handleDeletion
    <2>2. PodsFit(t) /\ WorkFits(t)
      BY <1>0, <1>1, <2>1, DeleteFits, SameFits, WorkGoesOn
    <2> QED  BY <1>4, <2>1, <2>2
  <1>12. CASE apiCallFails(t)
    <2>1. UNCHANGED <<pod, hist>> /\ Return(t, TRUE)
      BY <1>12 DEF apiCallFails
    <2> QED  BY <1>1, <1>4, <2>1, SameFits, WorkGoesOn
  <1> QED  BY <1>5, <1>6, <1>7, <1>8, <1>9, <1>10, <1>11, <1>12

-----------------------------------------------------------------------------
(* The theorems.                                                           *)

LEMMA OutcomeInit == Init => OutcomeInv
  <1> SUFFICES ASSUME Init, NEW t \in Tasks PROVE OutcomeInvariant(t)
    BY DEF OutcomeInv
  <1> DEFINE z == NoTask(0, 0)
  <1>1. task[t] = <<z>> /\ pod[t] = <<NoPod>> /\ rec[t].pc = "idle"
    BY DEF Init, Idle
  <1>2. /\ NewestTask(t) = z
        /\ \A v \in Versions(task[t]) : v = z
        /\ \A p \in Versions(pod[t]) : p = NoPod
    BY <1>1 DEF NewestTask, Current, Versions
  <1>3. /\ z.uid = 0 /\ ~z.exists /\ ~z.finalizer /\ z.status.phase \notin Done
        /\ ~NoPod.exists
    BY DEF NoTask, NewStatus, NoPod, Done
  <1> HIDE DEF z
  <1> QED
    BY <1>1, <1>2, <1>3 DEF OutcomeInvariant, ForNewest, Hopeful, TaskFits, PodFits

(* Tasks are created under a name only when the pod of that name is gone.   *)
NamesWait == \A t \in Tasks : CreateTask(t) => PodGone(t)

LEMMA OutcomeStep ==
  SafetyInvariant /\ TypeOK' /\ RunInv /\ OutcomeInv /\ [NamesWait]_vars /\ [Next]_vars
  => OutcomeInv'
  <1> SUFFICES ASSUME SafetyInvariant, TypeOK', RunInv, OutcomeInv,
                      [NamesWait]_vars, [Next]_vars, NEW t \in Tasks
               PROVE  OutcomeInvariant(t)'
    BY DEF OutcomeInv
  <1>0. OutcomeInvariant(t) /\ TypeOK /\ RunInvariant(t)
    BY DEF OutcomeInv, SafetyInvariant, RunInv
  <1>1. ForNewest(t)'
    <2>1. Gone(t) /\ Move(t)
      BY <1>0, EveryMove DEF RunInvariant
    <2> QED  BY <1>0, <2>1, NewestStays DEF OutcomeInvariant
  <1>2. ASSUME task'[t] = task[t], pod'[t] = pod[t], rec'[t] = rec[t], hist'[t] = hist[t]
        PROVE  OutcomeInvariant(t)'
    BY <1>0, <1>1, <1>2, SameFits, OutcomeStays DEF Outcome, Lasts
  <1>3. ASSUME Outcome(t) PROVE OutcomeInvariant(t)'
    BY <1>0, <1>1, <1>3, OutcomeStays
  <1>4. CASE UNCHANGED vars
    BY <1>2, <1>4 DEF vars
  <1>5. CASE Crash
    BY <1>0, <1>3, <1>5, OutsideFits
  <1>6. ASSUME NEW u \in Tasks, u # t,
               \/ Reconcile(u) \/ ReconcileStep(u) \/ apiCallFails(u)
               \/ SyncTask(u) \/ SyncPod(u) \/ Environment(u)
        PROVE  OutcomeInvariant(t)'
    BY <1>0, <1>2, <1>6, OthersAlone
  <1>7. CASE Reconcile(t) \/ ReconcileStep(t) \/ apiCallFails(t)
    <2>1. Outcome(t)
      BY <1>0, <1>7, WriterFits, HandlerFits DEF ReconcileStep
    <2> QED  BY <1>3, <2>1
  <1>8. CASE SyncTask(t) \/ SyncPod(t)
    BY <1>0, <1>3, <1>8, OutsideFits
  <1>9. CASE CreateTask(t) /\ NamesWait
    BY <1>0, <1>1, <1>9, CreationFits DEF NamesWait
  <1>10. CASE Environment(t) /\ ~CreateTask(t)
    <2>1. Outcome(t)
      BY <1>0, <1>10, OutsideFits, PodOutcome DEF Environment
    <2> QED  BY <1>3, <2>1
  <1> QED  BY <1>4, <1>5, <1>6, <1>7, <1>8, <1>9, <1>10 DEF Next

LEMMA OutcomeEarned == SafetyInvariant /\ OutcomeInv => MRNeedsOwnAgentRun
  <1> SUFFICES ASSUME OutcomeInv, SafetyInvariant, NEW t \in Tasks,
                      Phase(t) \in {"CreatingMR", "Succeeded"}
               PROVE  hist[t].succeeded
    BY DEF MRNeedsOwnAgentRun
  <1>1. TaskFits(t, NewestTask(t))
    BY OutcomeFacts DEF OutcomeInv
  <1> QED  BY <1>1 DEF TaskFits, Earned, Done, Phase

(* As long as nobody creates a task under the name of an old one before     *)
(* the old pod is gone, a task is past its agent's work only when a pod    *)
(* made for it succeeded: no stale cache, lost answer, conflict or crash,  *)
(* and no use of the name before, lets handleRunning take anything else    *)
(* for its success.                                                        *)
THEOREM MergeRequestIsEarned == Spec /\ [][NamesWait]_vars => []MRNeedsOwnAgentRun
  <1> QED
    BY OutcomeStep, OutcomeInit, OutcomeEarned, SafetyHolds, RunsHold, TypeCorrect, PTL DEF Spec

(* In particular where the name of a task is used only once.               *)
THEOREM MergeRequestOfFirstIsEarned ==
  ASSUME MaxIncarnations <= 1
  PROVE  Spec => []MRNeedsOwnAgentRun
  <1>1. SafetyInvariant /\ OutcomeInv => NamesWait
    BY FirstHasNoPod DEF OutcomeInv, NamesWait
  <1>2. SafetyInvariant /\ TypeOK' /\ RunInv /\ OutcomeInv /\ [Next]_vars => OutcomeInv'
    BY <1>1, OutcomeStep
  <1> QED
    BY <1>2, OutcomeInit, OutcomeEarned, SafetyHolds, RunsHold, TypeCorrect, PTL DEF Spec

-----------------------------------------------------------------------------
(* Branches: the inductive invariant.                                      *)

(* B[u] is the work branch of incarnation u of a task: what its versions,  *)
(* its pods, a call on it and its merge requests may say of branches.      *)
TaskPlanned(B, v) ==
  v.exists => /\ v.spec.branch = B[v.uid]
              /\ v.status.branchName \in {NoBranch, B[v.uid]}

PodPlanned(t, B, p) ==
  p.exists => p.owner <= NewestTask(t).uid /\ p.branch = B[p.owner]

CallPlanned(B, c) ==
  /\ c.obj.exists /\ TaskPlanned(B, c.obj)
  /\ c.status.branchName \in {NoBranch, B[c.obj.uid]}

Planned(t, B) ==
  /\ \A v \in Versions(task[t]) : TaskPlanned(B, v)
  /\ \A p \in Versions(pod[t]) : PodPlanned(t, B, p)
  /\ rec[t].pc # "idle" => CallPlanned(B, rec[t])
  /\ \A m \in mrs : m.task = t => m.branch = B[m.uid]

Plans == [Nat -> Branches]

PlanInv == \A t \in Tasks : \E B \in Plans : Planned(t, B)

-----------------------------------------------------------------------------
(* What a step may do to the branches of one task, when it does not create *)
(* the task.                                                               *)

TasksAgree(t, B) ==
  /\ NewestTask(t)'.uid = NewestTask(t).uid
  /\ \A v \in Versions(task'[t]) : TaskPlanned(B, v)

PodsAgree(t, B) == \A p \in Versions(pod'[t]) : PodPlanned(t, B, p)

CallAgrees(t, B) == rec'[t].pc # "idle" => CallPlanned(B, rec'[t])

RequestsAgree(t, B) == \A m \in mrs' : m.task = t => m.branch = B[m.uid]

Agrees(t, B) ==
  TasksAgree(t, B) /\ PodsAgree(t, B) /\ CallAgrees(t, B) /\ RequestsAgree(t, B)

LEMMA PlanStays ==
  ASSUME NEW t \in Tasks, NEW B, Agrees(t, B)
  PROVE  Planned(t, B)'
  <1>1. \A p : PodPlanned(t, B, p) => PodPlanned(t, B, p)'
    BY DEF Agrees, TasksAgree, PodPlanned
  <1> QED
    BY <1>1 DEF Agrees, TasksAgree, PodsAgree, CallAgrees, RequestsAgree, Planned

LEMMA PlanFacts ==
  ASSUME SafetyInvariant, NEW t \in Tasks, NEW B \in Plans, Planned(t, B)
  PROVE  /\ TypeOK
         /\ NewestTask(t) \in AgentTaskObject /\ TaskPlanned(B, NewestTask(t))
         /\ Cached(task[t]) \in AgentTaskObject /\ TaskPlanned(B, Cached(task[t]))
         /\ NewestPod(t) \in PodObject /\ PodPlanned(t, B, NewestPod(t))
         /\ rec[t].obj \in AgentTaskObject /\ rec[t].status \in AgentTaskStatus
         /\ rec[t].pc # "idle" => CallPlanned(B, rec[t])
  <1>1. TypeOK /\ pod[t] \in Seq(PodObject) \ {<<>>}
    BY DEF SafetyInvariant, TypeOK
  <1>2. NewestTask(t) \in Versions(task[t]) /\ Cached(task[t]) \in Versions(task[t])
    BY TaskFacts
  <1>3. /\ NewestTask(t) \in AgentTaskObject /\ Cached(task[t]) \in AgentTaskObject
        /\ NewestPod(t) \in PodObject
        /\ rec[t].obj \in AgentTaskObject /\ rec[t].status \in AgentTaskStatus
    BY <1>1, NewestTypes
  <1>4. NewestPod(t) \in Versions(pod[t])
    BY <1>1, <1>3, WindowVersions DEF NewestPod
  <1> QED  BY <1>1, <1>2, <1>3, <1>4 DEF Planned

(* Nothing happens to the task, its pods, its call or the merge requests.  *)
LEMMA SameAgree ==
  ASSUME NEW t \in Tasks, NEW B, Planned(t, B)
  PROVE  /\ task'[t] = task[t] => TasksAgree(t, B)
         /\ pod'[t] = pod[t] => PodsAgree(t, B)
         /\ rec'[t] = rec[t] => CallAgrees(t, B)
         /\ mrs' = mrs => RequestsAgree(t, B)
  BY DEF TasksAgree, PodsAgree, CallAgrees, RequestsAgree, Planned, NewestTask

(* A version of the task, or of its pod, is written.                       *)
LEMMA WriteAgrees ==
  ASSUME TypeOK, NEW t \in Tasks, NEW B, Planned(t, B)
  PROVE  /\ \A o \in AgentTaskObject :
              StoreTask(t, o) /\ TaskPlanned(B, o) /\ o.uid = NewestTask(t).uid
              => TasksAgree(t, B)
         /\ \A p \in PodObject :
              StorePod(t, p) /\ PodPlanned(t, B, p) => PodsAgree(t, B)
  <1>1. ASSUME NEW o \in AgentTaskObject, StoreTask(t, o), TaskPlanned(B, o),
               o.uid = NewestTask(t).uid
        PROVE  TasksAgree(t, B)
    <2> DEFINE m == NewestTask(t)'
    <2>1. Wrote(t) /\ m = [o EXCEPT !.rv = @ + 1] /\ m.exists = o.exists /\ m.uid = o.uid
      BY <1>1, StoredIsWritten
    <2>2. m.status = o.status /\ m.spec = o.spec
      BY <2>1 DEF AgentTaskObject
    <2>3. TaskPlanned(B, m)
      BY <1>1, <2>1, <2>2 DEF TaskPlanned
    <2> QED  BY <1>1, <2>1, <2>3 DEF Wrote, TasksAgree, Planned
  <1>2. ASSUME NEW p \in PodObject, StorePod(t, p), PodPlanned(t, B, p)
        PROVE  PodsAgree(t, B)
    <2>1. pod[t] \in Seq(PodObject) \ {<<>>} /\ pod'[t] = Stored(pod[t], p)
      BY <1>2 DEF StorePod, TypeOK
    <2>2. \A x \in Versions(pod'[t]) : x = p \/ x \in Versions(pod[t])
      BY <2>1, WindowVersions
    <2> QED  BY <1>2, <2>2 DEF PodsAgree, Planned
  <1> QED  BY <1>1, <1>2

(* A pod that is deleted stays what it is but for the mark.                *)
LEMMA DeleteAgrees ==
  ASSUME TypeOK, NEW t \in Tasks, NEW B, Planned(t, B),
         PodPlanned(t, B, NewestPod(t)), DeletePod(t)
  PROVE  PodsAgree(t, B)
  <1> DEFINE p == NewestPod(t)
             d == [p EXCEPT !.terminating = TRUE]
  <1>1. p \in PodObject
    BY NewestTypes
  <1>2. d \in PodObject /\ d.exists = p.exists /\ d.owner = p.owner /\ d.branch = p.branch
    BY <1>1 DEF PodObject
  <1>3. PodPlanned(t, B, d)
    BY <1>2 DEF PodPlanned
  <1>4. UNCHANGED pod \/ StorePod(t, d)
    BY DEF DeletePod
  <1> HIDE DEF d
  <1> QED  BY <1>2, <1>3, <1>4, SameAgree, WriteAgrees

(* A call goes on or returns.                                              *)
LEMMA CallGoesOn ==
  ASSUME SafetyInvariant, NEW t \in Tasks, NEW B, Planned(t, B), rec[t].pc # "idle"
  PROVE  /\ \A requeue : Return(t, requeue) => CallAgrees(t, B)
         /\ \A s : Goto(t, s) => CallAgrees(t, B)
         /\ \A s \in AgentTaskStatus : \A phase, message :
              (setPhase(t, s, phase, message) \/ setFailed(t, s, message))
              /\ s.branchName \in {NoBranch, B[rec[t].obj.uid]}
              => CallAgrees(t, B)
  <1> DEFINE c == rec[t]
             d == rec'[t]
  <1>0. /\ c \in ReconcileCall /\ rec \in [Tasks -> ReconcileCall]
        /\ CallPlanned(B, c)
    BY DEF SafetyInvariant, TypeOK, Planned
  <1>1. \A requeue : Return(t, requeue) => CallAgrees(t, B)
    BY <1>0 DEF Return, Idle, CallAgrees
  <1>2. ASSUME NEW s, Goto(t, s) PROVE CallAgrees(t, B)
    <2>1. d.obj = c.obj /\ d.status = c.status
      BY <1>0, <1>2 DEF Goto, ReconcileCall
    <2> QED  BY <1>0, <2>1 DEF CallAgrees, CallPlanned
  <1>3. ASSUME NEW s \in AgentTaskStatus, NEW phase, NEW message,
               setPhase(t, s, phase, message), s.branchName \in {NoBranch, B[c.obj.uid]}
        PROVE  CallAgrees(t, B)
    <2> DEFINE z == [s EXCEPT !.phase = phase, !.message = message]
    <2>1. z.branchName = s.branchName
      BY DEF AgentTaskStatus
    <2>2. rec' = [rec EXCEPT ![t].pc = "updateStatus", ![t].status = z]
      BY <1>3 DEF setPhase
    <2> HIDE DEF z
    <2>3. d.obj = c.obj /\ d.status = z
      BY <1>0, <2>2 DEF ReconcileCall
    <2> QED  BY <1>0, <1>3, <2>1, <2>3 DEF CallAgrees, CallPlanned
  <1>4. ASSUME NEW s \in AgentTaskStatus, NEW message, setFailed(t, s, message),
               s.branchName \in {NoBranch, B[c.obj.uid]}
        PROVE  CallAgrees(t, B)
    <2> DEFINE z == [s EXCEPT !.endTime = TRUE]
    <2>1. z \in AgentTaskStatus /\ z.branchName = s.branchName
      BY DEF AgentTaskStatus
    <2>2. setPhase(t, z, "Failed", message)
      BY <1>4 DEF setFailed
    <2> HIDE DEF z
    <2> QED  BY <1>3, <1>4, <2>1, <2>2
  <1> QED  BY <1>1, <1>2, <1>3, <1>4

(* A call starts on a version that is as planned, or ends at once.         *)
LEMMA CallStarts ==
  ASSUME TypeOK, NEW t \in Tasks, NEW B, NEW o, o.exists, TaskPlanned(B, o),
         Dispatch(t, o) \/ \E s : rec' = [rec EXCEPT ![t] =
                                           [pc |-> s, obj |-> o, status |-> o.status]]
  PROVE  CallAgrees(t, B)
  <1>1. rec'[t] = Idle \/ \E s : rec'[t] = [pc |-> s, obj |-> o, status |-> o.status]
    BY DEF Dispatch, TypeOK
  <1>2. CASE rec'[t] = Idle
    BY <1>2 DEF Idle, CallAgrees
  <1>3. ASSUME NEW s, rec'[t] = [pc |-> s, obj |-> o, status |-> o.status]
        PROVE  CallAgrees(t, B)
    <2>1. rec'[t].obj = o /\ rec'[t].status = o.status
      BY <1>3
    <2>2. CallPlanned(B, rec'[t])
      BY <2>1 DEF CallPlanned, TaskPlanned
    <2> QED  BY <2>2 DEF CallAgrees
  <1> QED  BY <1>1, <1>2, <1>3

-----------------------------------------------------------------------------
(* Every action keeps to the plan.                                         *)

(* Nobody edits the work branch of a task.                                 *)
KeepsBranch(t) ==
  Exists(t) /\ Exists(t)' /\ NewestTask(t)'.uid = NewestTask(t).uid
  => NewestTask(t)'.spec.branch = NewestTask(t).spec.branch

BranchesKept == \A t \in Tasks : KeepsBranch(t)

(* The caches, the process, users and the pool controller.                 *)
LEMMA OutsideAgrees ==
  ASSUME SafetyInvariant, NEW t \in Tasks, NEW B \in Plans, Planned(t, B),
         \/ SyncTask(t) \/ SyncPod(t) \/ Crash
         \/ DeleteTask(t) \/ GrantSlot(t) \/ (EditTask(t) /\ KeepsBranch(t))
  PROVE  Agrees(t, B)
  <1> DEFINE n == NewestTask(t)
  <1>0. /\ TypeOK /\ n \in AgentTaskObject /\ TaskPlanned(B, n) /\ NewestPod(t) \in PodObject
        /\ task[t] \in Seq(AgentTaskObject) \ {<<>>} /\ pod[t] \in Seq(PodObject) \ {<<>>}
    BY PlanFacts DEF TypeOK
  <1>r. RequestsAgree(t, B)
    BY SameAgree DEF SyncTask, SyncPod, Crash, DeleteTask, EditTask, GrantSlot
  <1>1. CASE SyncTask(t) \/ SyncPod(t) \/ Crash
    <2>1. Held(t)
      BY <1>0, <1>1, CacheMoves DEF Rests
    <2>2. TasksAgree(t, B)
      BY <2>1 DEF Held, TasksAgree, Planned
    <2>3. PodsAgree(t, B)
      <3>1. \/ pod'[t] = pod[t] \/ pod'[t] = Relisted(pod[t])
            \/ Lagging(pod[t]) /\ pod'[t] = Delivered(pod[t])
        BY <1>0, <1>1 DEF SyncTask, SyncPod, Crash, TypeOK
      <3>2. Versions(pod'[t]) \subseteq Versions(pod[t])
        BY <1>0, <3>1, WindowVersions
      <3> QED  BY <3>2 DEF PodsAgree, Planned
    <2>4. CallAgrees(t, B)
      BY <1>1 DEF SyncTask, SyncPod, Crash, Idle, CallAgrees, Planned
    <2> QED  BY <1>r, <2>2, <2>3, <2>4 DEF Agrees
  <1>2. CASE DeleteTask(t) \/ GrantSlot(t) \/ (EditTask(t) /\ KeepsBranch(t))
    <2>1. UNCHANGED <<pod, rec>>
      BY <1>2 DEF DeleteTask, EditTask, GrantSlot
    <2>2. PICK o \in AgentTaskObject : StoreTask(t, o) /\ o.uid = n.uid /\ TaskPlanned(B, o)
      <3>1. CASE DeleteTask(t)
        <4>1. /\ [n EXCEPT !.deleting = TRUE] \in AgentTaskObject
              /\ [n EXCEPT !.deleting = TRUE].uid = n.uid
              /\ TaskPlanned(B, [n EXCEPT !.deleting = TRUE])
          BY <1>0 DEF AgentTaskObject, TaskPlanned
        <4>2. /\ NoTask(n.rv, n.uid) \in AgentTaskObject
              /\ NoTask(n.rv, n.uid).uid = n.uid /\ ~NoTask(n.rv, n.uid).exists
          <5>1. n.rv \in Nat /\ n.uid \in Nat
            BY <1>0 DEF AgentTaskObject
          <5> QED  BY <5>1, ConstantTypes DEF NoTask
        <4>3. StoreTask(t, [n EXCEPT !.deleting = TRUE]) \/ StoreTask(t, NoTask(n.rv, n.uid))
          BY <3>1 DEF DeleteTask
        <4>4. TaskPlanned(B, NoTask(n.rv, n.uid))
          BY <4>2 DEF TaskPlanned
        <4> QED  BY <4>1, <4>2, <4>3, <4>4
      <3>2. CASE EditTask(t) /\ KeepsBranch(t)
        <4>1. PICK s \in Specs : StoreTask(t, [n EXCEPT !.spec = s]) /\ n.exists
          BY <3>2 DEF EditTask
        <4> DEFINE o == [n EXCEPT !.spec = s]
        <4>2. s \in TaskSpec
          BY ConstantsAssumption
        <4>3. /\ o \in AgentTaskObject /\ o.uid = n.uid /\ o.exists = n.exists
              /\ o.status = n.status /\ o.spec = s
          BY <1>0, <4>2 DEF AgentTaskObject
        <4>4. /\ NewestTask(t)'.uid = n.uid /\ NewestTask(t)'.exists
              /\ NewestTask(t)'.spec = s
          <5>1. StoreTask(t, o)
            BY <4>1
          <5> HIDE DEF o
          <5>2. /\ NewestTask(t)' = [o EXCEPT !.rv = @ + 1]
                /\ NewestTask(t)'.exists = o.exists /\ NewestTask(t)'.uid = o.uid
            BY <1>0, <4>3, <5>1, StoredIsWritten
          <5> QED  BY <4>1, <4>3, <5>2 DEF AgentTaskObject
        <4>5. s.branch = n.spec.branch
          BY <3>2, <4>1, <4>4 DEF KeepsBranch, Exists
        <4>6. TaskPlanned(B, o)
          BY <1>0, <4>1, <4>3, <4>5 DEF TaskPlanned
        <4> QED  BY <4>1, <4>3, <4>6
      <3>3. CASE GrantSlot(t)
        <4>1. /\ [n EXCEPT !.granted = TRUE] \in AgentTaskObject
              /\ [n EXCEPT !.granted = TRUE].uid = n.uid
              /\ TaskPlanned(B, [n EXCEPT !.granted = TRUE])
          BY <1>0 DEF AgentTaskObject, TaskPlanned
        <4> QED  BY <3>3, <4>1 DEF GrantSlot
      <3> QED  BY <1>2, <3>1, <3>2, <3>3
    <2>3. TasksAgree(t, B)
      BY <1>0, <2>2, WriteAgrees
    <2> QED  BY <1>r, <2>1, <2>3, SameAgree DEF Agrees
  <1> QED  BY <1>1, <1>2

(* The kubelet, the garbage collector and time.                            *)
LEMMA PodAgrees ==
  ASSUME SafetyInvariant, NEW t \in Tasks, NEW B \in Plans, Planned(t, B),
         \/ PodStarts(t) \/ PodSucceeds(t) \/ PodFails(t) \/ PodRemoved(t)
         \/ CollectPod(t) \/ EvictPod(t) \/ Expire(t)
  PROVE  Agrees(t, B)
  <1> DEFINE p == NewestPod(t)
  <1>0. TypeOK /\ p \in PodObject /\ PodPlanned(t, B, p)
    BY PlanFacts
  <1>1. TasksAgree(t, B) /\ CallAgrees(t, B) /\ RequestsAgree(t, B)
    BY SameAgree
    DEF PodStarts, PodSucceeds, PodFails, PodReports, PodRemoved, CollectPod, EvictPod, Expire
  <1>2. CASE PodStarts(t) \/ PodSucceeds(t) \/ PodFails(t)
    <2>1. PICK f \in PodPhases : StorePod(t, [p EXCEPT !.phase = f])
      BY <1>2 DEF PodStarts, PodSucceeds, PodFails, PodReports, PodPhases
    <2> DEFINE r == [p EXCEPT !.phase = f]
    <2>2. r \in PodObject /\ PodPlanned(t, B, r)
      BY <1>0 DEF PodObject, PodPlanned
    <2>3. StorePod(t, r)
      BY <2>1
    <2> HIDE DEF r
    <2>4. PodsAgree(t, B)
      BY <1>0, <2>2, <2>3, WriteAgrees
    <2> QED  BY <1>1, <2>4 DEF Agrees
  <1>3. CASE PodRemoved(t)
    <2>1. NoPod \in PodObject /\ PodPlanned(t, B, NoPod)
      BY ConstantTypes DEF PodPlanned, NoPod
    <2>2. PodsAgree(t, B)
      BY <1>0, <1>3, <2>1, WriteAgrees DEF PodRemoved
    <2> QED  BY <1>1, <2>2 DEF Agrees
  <1>4. CASE CollectPod(t) \/ EvictPod(t) \/ Expire(t)
    <2>1. PodsAgree(t, B)
      BY <1>0, <1>4, DeleteAgrees, SameAgree DEF CollectPod, EvictPod, Expire
    <2> QED  BY <1>1, <2>1 DEF Agrees
  <1> QED  BY <1>2, <1>3, <1>4

(* A new incarnation has a plan of its own.                                *)
LEMMA CreationAgrees ==
  ASSUME SafetyInvariant, NEW t \in Tasks, NEW B \in Plans, Planned(t, B), CreateTask(t)
  PROVE  \E D \in Plans : Planned(t, D)'
  <1> DEFINE n == NewestTask(t)
             m == NewestTask(t)'
  <1>0. /\ TypeOK /\ n \in AgentTaskObject /\ n.uid \in Nat /\ n.rv \in Nat
        /\ \A v \in Versions(task[t]) : v.uid \in Nat /\ v.uid <= n.uid
        /\ rec[t].obj.uid \in Nat /\ (rec[t].pc # "idle" => rec[t].obj.uid <= n.uid)
        /\ \A q \in mrs : q.task = t => q.uid \in Nat /\ q.uid <= n.uid
        /\ \A p \in Versions(pod[t]) : p.owner \in Nat /\ (p.exists => p.owner <= n.uid)
    <2>1. TypeOK /\ n \in AgentTaskObject /\ pod[t] \in Seq(PodObject) \ {<<>>}
      BY PlanFacts DEF TypeOK
    <2>2. \A q \in mrs : q.task = t => q.uid \in Nat /\ q.uid <= n.uid
      BY <2>1 DEF SafetyInvariant, RequestsSound, TypeOK, MergeRequest
    <2>3. \A p \in Versions(pod[t]) : p.owner \in Nat /\ (p.exists => p.owner <= n.uid)
      <3>1. Versions(pod[t]) \subseteq PodObject
        BY <2>1, NewestTypes, WindowVersions
      <3> QED  BY <3>1 DEF PodObject, Planned, PodPlanned
    <2>4. rec[t].pc # "idle" => rec[t].obj.uid <= n.uid
      BY DEF SafetyInvariant, CallSound, NotAfter
    <2> QED  BY <2>1, <2>2, <2>3, <2>4, TaskFacts DEF AgentTaskObject
  <1>1. PICK s \in Specs :
          StoreTask(t, [NoTask(n.rv, n.uid + 1) EXCEPT !.exists = TRUE, !.spec = s])
    BY DEF CreateTask
  <1> DEFINE o == [NoTask(n.rv, n.uid + 1) EXCEPT !.exists = TRUE, !.spec = s]
             u == n.uid + 1
  <1>2. /\ o \in AgentTaskObject /\ o.uid = u /\ o.spec = s
        /\ o.status.branchName = NoBranch /\ s \in TaskSpec
    <2>1. s \in TaskSpec
      BY ConstantsAssumption
    <2>2. NoTask(n.rv, u) \in AgentTaskObject
      BY <1>0, ConstantTypes
    <2> QED  BY <2>1, <2>2 DEF AgentTaskObject, NoTask, NewStatus
  <1>3. StoreTask(t, o)
    BY <1>1
  <1>4. PICK D \in Plans : D[u] = s.branch /\ \A i \in Nat : i <= n.uid => D[i] = B[i]
    <2> DEFINE E == [B EXCEPT ![u] = s.branch]
    <2>1. u \in Nat /\ s.branch \in Branches /\ \A i \in Nat : i <= n.uid => i # u
      BY <1>0, <1>2 DEF TaskSpec
    <2> HIDE DEF u
    <2>2. E \in Plans /\ E[u] = s.branch /\ \A i \in Nat : i # u => E[i] = B[i]
      BY <2>1 DEF Plans
    <2> HIDE DEF E
    <2> QED  BY <2>1, <2>2
  <1> HIDE DEF o
  <1>5. /\ Wrote(t) /\ m = [o EXCEPT !.rv = @ + 1] /\ m.uid = u
        /\ m.spec = s /\ m.status.branchName = NoBranch
    <2>1. Wrote(t) /\ m = [o EXCEPT !.rv = @ + 1] /\ m.uid = o.uid
      BY <1>0, <1>2, <1>3, StoredIsWritten
    <2> QED  BY <1>2, <2>1 DEF AgentTaskObject
  <1>6. UNCHANGED <<pod, rec, mrs>>
    BY DEF CreateTask
  <1>7. \A v \in Versions(task'[t]) : TaskPlanned(D, v)
    <2>1. TaskPlanned(D, m)
      BY <1>4, <1>5 DEF TaskPlanned
    <2>2. \A v \in Versions(task[t]) : TaskPlanned(D, v)
      BY <1>0, <1>4 DEF TaskPlanned, Planned
    <2> QED  BY <1>5, <2>1, <2>2 DEF Wrote
  <1>8. \A p \in Versions(pod'[t]) : PodPlanned(t, D, p)'
    <2>1. ASSUME NEW p \in Versions(pod[t]), p.exists
          PROVE  p.owner <= u /\ p.branch = D[p.owner]
      BY <1>0, <1>4, <2>1 DEF Planned, PodPlanned
    <2> QED  BY <1>5, <1>6, <2>1 DEF PodPlanned
  <1>9. rec[t].pc # "idle" => CallPlanned(D, rec[t])
    BY <1>0, <1>4 DEF CallPlanned, TaskPlanned, Planned
  <1>10. \A q \in mrs : q.task = t => q.branch = D[q.uid]
    BY <1>0, <1>4 DEF Planned
  <1>11. Planned(t, D)'
    BY <1>6, <1>7, <1>8, <1>9, <1>10 DEF Planned
  <1> QED  BY <1>4, <1>11

(* Reconcile and the calls that write the task.                            *)
LEMMA WriterAgrees ==
  ASSUME SafetyInvariant, NEW t \in Tasks, NEW B \in Plans, Planned(t, B),
         Reconcile(t) \/ ensureFinalizer(t) \/ updateStatus(t) \/ removeFinalizer(t)
  PROVE  Agrees(t, B)
  <1> DEFINE n == NewestTask(t)
             c == rec[t]
  <1>0. /\ TypeOK /\ n \in AgentTaskObject /\ TaskPlanned(B, n)
        /\ TaskPlanned(B, Cached(task[t]))
        /\ c.obj \in AgentTaskObject /\ c.status \in AgentTaskStatus
        /\ c.pc # "idle" => CallPlanned(B, c)
    BY PlanFacts
  <1>1. PodsAgree(t, B) /\ RequestsAgree(t, B)
    BY SameAgree DEF Reconcile, ensureFinalizer, updateStatus, removeFinalizer
  <1>2. CASE Reconcile(t)
    <2> DEFINE o == Cached(task[t])
               Starts(s) == rec' = [rec EXCEPT ![t] =
                                      [pc |-> s, obj |-> o, status |-> o.status]]
    <2>1. TasksAgree(t, B)
      BY <1>2, SameAgree DEF Reconcile
    <2>2. \/ UNCHANGED rec
          \/ o.exists /\ (Dispatch(t, o) \/ Starts("deletion") \/ Starts("finalizer"))
      BY <1>2 DEF Reconcile
    <2>3. TaskPlanned(B, o)
      BY <1>0
    <2> HIDE DEF o, Starts
    <2>4. ASSUME UNCHANGED rec PROVE CallAgrees(t, B)
      BY <2>4, SameAgree
    <2>5. ASSUME o.exists /\ (Dispatch(t, o) \/ Starts("deletion") \/ Starts("finalizer"))
          PROVE  CallAgrees(t, B)
      <3>1. Dispatch(t, o) \/ \E s : rec' = [rec EXCEPT ![t] =
                                             [pc |-> s, obj |-> o, status |-> o.status]]
        BY <2>5 DEF Starts
      <3> QED  BY <1>0, <2>3, <2>5, <3>1, CallStarts
    <2> QED  BY <1>1, <2>1, <2>2, <2>4, <2>5 DEF Agrees
  <1>3. ASSUME c.pc # "idle", UNCHANGED task, Return(t, TRUE) PROVE Agrees(t, B)
    BY <1>1, <1>3, SameAgree, CallGoesOn DEF Agrees
  <1>4. CASE ensureFinalizer(t)
    <2> DEFINE o == [n EXCEPT !.finalizer = TRUE]
               r == [o EXCEPT !.rv = @ + 1]
    <2>1. c.pc # "idle"
      BY <1>4 DEF ensureFinalizer
    <2>2. CASE Fresh(t) /\ StoreTask(t, o) /\ Dispatch(t, r)
      <3>1. n.exists
        <4>1. c.obj = n
          BY <2>1, <2>2 DEF Fresh, SafetyInvariant, CallSound, NotAfter
        <4> QED  BY <1>0, <2>1, <4>1 DEF CallPlanned
      <3>2. /\ o \in AgentTaskObject /\ o.exists = n.exists /\ o.uid = n.uid
            /\ o.status = n.status /\ o.spec = n.spec
            /\ r.exists = n.exists /\ r.uid = n.uid /\ r.status = n.status /\ r.spec = n.spec
        BY <1>0 DEF AgentTaskObject
      <3>3. TaskPlanned(B, o) /\ TaskPlanned(B, r)
        BY <1>0, <3>2 DEF TaskPlanned
      <3>4. StoreTask(t, o) /\ Dispatch(t, r)
        BY <2>2
      <3> HIDE DEF o, r
      <3>5. TasksAgree(t, B)
        BY <1>0, <3>2, <3>3, <3>4, WriteAgrees
      <3>6. CallAgrees(t, B)
        BY <1>0, <3>1, <3>2, <3>3, <3>4, CallStarts
      <3> QED  BY <1>1, <3>5, <3>6 DEF Agrees
    <2> QED  BY <1>3, <1>4, <2>1, <2>2 DEF ensureFinalizer
  <1>5. ASSUME NEW o \in AgentTaskObject, StoreTask(t, o), o.uid = n.uid, TaskPlanned(B, o),
               c.pc # "idle", NEW requeue, Return(t, requeue)
        PROVE  Agrees(t, B)
    <2>1. TasksAgree(t, B)
      BY <1>0, <1>5, WriteAgrees
    <2>2. CallAgrees(t, B)
      BY <1>5, CallGoesOn
    <2> QED  BY <1>1, <2>1, <2>2 DEF Agrees
  <1>6. CASE updateStatus(t)
    <2> DEFINE o == [n EXCEPT !.status = c.status]
    <2>1. /\ o \in AgentTaskObject /\ o.uid = n.uid /\ o.exists = n.exists
          /\ o.status = c.status /\ o.spec = n.spec
      BY <1>0 DEF AgentTaskObject
    <2>2. c.pc # "idle"
      BY <1>6 DEF updateStatus
    <2>3. Fresh(t) => TaskPlanned(B, o)
      <3>1. Fresh(t) => c.obj = n
        BY <2>2 DEF Fresh, SafetyInvariant, CallSound, NotAfter
      <3> QED  BY <1>0, <2>1, <2>2, <3>1 DEF CallPlanned, TaskPlanned
    <2>4. \/ Fresh(t) /\ StoreTask(t, o) /\ Return(t, c.status.phase \notin Terminal)
          \/ Return(t, TRUE) /\ UNCHANGED task
      BY <1>6 DEF updateStatus
    <2> HIDE DEF o
    <2> QED  BY <1>3, <1>5, <2>1, <2>2, <2>3, <2>4
  <1>7. CASE removeFinalizer(t)
    <2> DEFINE o == NoTask(n.rv, n.uid)
    <2>1. o \in AgentTaskObject /\ o.uid = n.uid /\ TaskPlanned(B, o)
      <3>1. n.rv \in Nat /\ n.uid \in Nat
        BY <1>0 DEF AgentTaskObject
      <3> QED  BY <3>1, ConstantTypes DEF NoTask, TaskPlanned
    <2>2. c.pc # "idle"
      BY <1>7 DEF removeFinalizer
    <2>3. \/ StoreTask(t, o) /\ Return(t, FALSE)
          \/ Return(t, TRUE) /\ UNCHANGED task
      BY <1>7 DEF removeFinalizer
    <2> HIDE DEF o
    <2> QED  BY <1>3, <1>5, <2>1, <2>2, <2>3
  <1> QED  BY <1>2, <1>4, <1>6, <1>7

(* The calls that do not write it.                                         *)
LEMMA HandlerAgrees ==
  ASSUME SafetyInvariant, NEW t \in Tasks, NEW B \in Plans, Planned(t, B),
         \/ handlePending(t) \/ handleInitializing(t) \/ createPod(t) \/ handleRunning(t)
         \/ deleteTimedOutPod(t) \/ handleCreatingMR(t) \/ handleDeletion(t) \/ apiCallFails(t)
  PROVE  Agrees(t, B)
  <1> DEFINE c == rec[t]
             o == rec[t].obj
             st == rec[t].obj.status
  <1>0. /\ TypeOK /\ PodPlanned(t, B, NewestPod(t))
        /\ o \in AgentTaskObject /\ st \in AgentTaskStatus
    BY PlanFacts DEF AgentTaskObject
  <1>1. TasksAgree(t, B) /\ c.pc # "idle"
    BY SameAgree
    DEF handlePending, handleInitializing, createPod, handleRunning, deleteTimedOutPod,
        handleCreatingMR, handleDeletion, apiCallFails
  <1>2. /\ CallPlanned(B, c) /\ o.spec.branch = B[o.uid]
        /\ st.branchName \in {NoBranch, B[o.uid]}
    BY <1>1, PlanFacts DEF CallPlanned, TaskPlanned
  <1>5. CASE handlePending(t)
    <2>1. UNCHANGED <<pod, mrs>>
      BY <1>5 DEF handlePending
    <2>2. \/ \E m : setFailed(t, st, m) \/ setPhase(t, st, "Initializing", m)
          \/ Return(t, TRUE)
      BY <1>5 DEF handlePending
    <2>3. CallAgrees(t, B)
      BY <1>0, <1>1, <1>2, <2>2, CallGoesOn
    <2> QED  BY <1>1, <2>1, <2>3, SameAgree DEF Agrees
  <1>6. CASE handleInitializing(t)
    <2>1. UNCHANGED <<pod, mrs>>
      BY <1>6 DEF handleInitializing
    <2> DEFINE z == [st EXCEPT !.podName = TRUE]
    <2>2. z \in AgentTaskStatus /\ z.branchName = st.branchName
      BY <1>0 DEF AgentTaskStatus
    <2>3. setPhase(t, z, "Running", "podRunning") \/ Goto(t, "createPod")
      BY <1>6 DEF handleInitializing
    <2> HIDE DEF z
    <2>4. CallAgrees(t, B)
      BY <1>1, <1>2, <2>2, <2>3, CallGoesOn
    <2> QED  BY <1>1, <2>1, <2>4, SameAgree DEF Agrees
  <1>7. CASE createPod(t)
    <2> DEFINE y == [st EXCEPT !.podName = TRUE, !.startTime = TRUE,
                               !.branchName = o.spec.branch]
               z == [st EXCEPT !.podName = TRUE]
               b == BuiltPod(o)
    <2>1. /\ y \in AgentTaskStatus /\ y.branchName = o.spec.branch
          /\ z \in AgentTaskStatus /\ z.branchName = st.branchName
      BY <1>0 DEF AgentTaskStatus, AgentTaskObject, TaskSpec
    <2>2. b \in PodObject /\ b.owner = o.uid /\ b.branch = o.spec.branch
      BY <1>0 DEF BuiltPod, PodObject, PodPhases, TaskSpec, AgentTaskObject
    <2>3. PodPlanned(t, B, b)
      <3>1. o.uid <= NewestTask(t).uid
        BY <1>1 DEF SafetyInvariant, CallSound, NotAfter
      <3> QED  BY <1>2, <2>2, <3>1 DEF PodPlanned
    <2>4. \/ setPhase(t, y, "Running", "podCreated") \/ setPhase(t, z, "Running", "podRunning")
          \/ Return(t, TRUE)
      BY <1>7 DEF createPod
    <2>5. (StorePod(t, b) \/ UNCHANGED pod) /\ UNCHANGED mrs
      BY <1>7 DEF createPod
    <2> HIDE DEF y, z, b
    <2>6. CallAgrees(t, B)
      BY <1>1, <1>2, <2>1, <2>4, CallGoesOn
    <2>7. PodsAgree(t, B)
      BY <1>0, <2>2, <2>3, <2>5, WriteAgrees, SameAgree
    <2> QED  BY <1>1, <2>5, <2>6, <2>7, SameAgree DEF Agrees
  <1>8. CASE handleRunning(t)
    <2>1. UNCHANGED <<pod, mrs>>
      BY <1>8 DEF handleRunning
    <2>2. \/ \E m : setFailed(t, st, m) \/ setPhase(t, st, "CreatingMR", m)
          \/ Goto(t, "timeout") \/ Return(t, TRUE)
      BY <1>8 DEF handleRunning
    <2>3. CallAgrees(t, B)
      BY <1>0, <1>1, <1>2, <2>2, CallGoesOn
    <2> QED  BY <1>1, <2>1, <2>3, SameAgree DEF Agrees
  <1>9. CASE deleteTimedOutPod(t)
    <2>1. UNCHANGED mrs /\ setFailed(t, st, "timedOut") /\ (DeletePod(t) \/ UNCHANGED pod)
      BY <1>9 DEF deleteTimedOutPod
    <2>2. PodsAgree(t, B) /\ CallAgrees(t, B)
      BY <1>0, <1>1, <1>2, <2>1, DeleteAgrees, SameAgree, CallGoesOn
    <2> QED  BY <1>1, <2>1, <2>2, SameAgree DEF Agrees
  <1>10. CASE handleCreatingMR(t)
    <2> DEFINE z == [st EXCEPT !.mergeRequestURL = TRUE, !.endTime = TRUE]
               q == [task |-> t, uid |-> o.uid, branch |-> SourceBranch(o)]
    <2>1. UNCHANGED pod
      BY <1>10 DEF handleCreatingMR
    <2>2. z \in AgentTaskStatus /\ z.branchName = st.branchName
      BY <1>0 DEF AgentTaskStatus
    <2>3. (\E m : setFailed(t, st, m)) \/ setPhase(t, z, "Succeeded", "mrCreated")
      BY <1>10 DEF handleCreatingMR
    <2>4. mrs' = mrs \/ mrs' = mrs \union {q}
      BY <1>10 DEF handleCreatingMR
    <2>5. q.uid = o.uid /\ q.branch = B[o.uid]
      BY <1>2 DEF SourceBranch
    <2> HIDE DEF z, q
    <2>6. CallAgrees(t, B)
      BY <1>0, <1>1, <1>2, <2>2, <2>3, CallGoesOn
    <2>7. RequestsAgree(t, B)
      BY <2>4, <2>5 DEF RequestsAgree, Planned
    <2> QED  BY <1>1, <2>1, <2>6, <2>7, SameAgree DEF Agrees
  <1>11. CASE handleDeletion(t)
    <2>1. UNCHANGED mrs /\ Goto(t, "removeFinalizer") /\ (DeletePod(t) \/ UNCHANGED pod)
      BY <1>11 DEF handleDeletion
    <2>2. PodsAgree(t, B) /\ CallAgrees(t, B)
      BY <1>0, <1>1, <2>1, DeleteAgrees, SameAgree, CallGoesOn
    <2> QED  BY <1>1, <2>1, <2>2, SameAgree DEF Agrees
  <1>12. CASE apiCallFails(t)
    <2>1. UNCHANGED <<pod, mrs>> /\ Return(t, TRUE)
      BY <1>12 DEF apiCallFails
    <2> QED  BY <1>1, <2>1, SameAgree, CallGoesOn DEF Agrees
  <1> QED  BY <1>5, <1>6, <1>7, <1>8, <1>9, <1>10, <1>11, <1>12

LEMMA PlanInit == Init => PlanInv
  <1> SUFFICES ASSUME Init, NEW t \in Tasks PROVE \E B \in Plans : Planned(t, B)
    BY DEF PlanInv
  <1>1. PICK b \in Branches : TRUE
    BY ConstantsAssumption
  <1> DEFINE B == [u \in Nat |-> b]
  <1>2. B \in Plans
    BY DEF Plans
  <1>3. task[t] = <<NoTask(0, 0)>> /\ pod[t] = <<NoPod>> /\ rec[t] = Idle /\ mrs = {}
    BY DEF Init
  <1>4. Versions(task[t]) = {NoTask(0, 0)} /\ Versions(pod[t]) = {NoPod}
    BY <1>3 DEF Versions
  <1>5. ~NoTask(0, 0).exists /\ ~NoPod.exists /\ Idle.pc = "idle"
    BY DEF NoTask, NoPod, Idle
  <1> HIDE DEF B
  <1>6. Planned(t, B)
    BY <1>3, <1>4, <1>5 DEF Planned, TaskPlanned, PodPlanned
  <1> QED  BY <1>2, <1>6

(* A step for one task leaves the branches of the others alone.            *)
LEMMA OthersAgree ==
  ASSUME SafetyInvariant, NEW t \in Tasks, NEW B \in Plans, Planned(t, B),
         NEW u \in Tasks, u # t,
         \/ Reconcile(u) \/ ReconcileStep(u) \/ apiCallFails(u)
         \/ SyncTask(u) \/ SyncPod(u) \/ Environment(u)
  PROVE  Agrees(t, B)
  <1>1. TypeOK
    BY DEF SafetyInvariant
  <1>2. task'[t] = task[t] /\ pod'[t] = pod[t] /\ rec'[t] = rec[t]
    BY <1>1, OthersAlone
  <1>3. mrs' = mrs \/ \E q : mrs' = mrs \union {q} /\ q.task = u
    <2>1. CASE handleCreatingMR(u)
      BY <2>1 DEF handleCreatingMR
    <2>2. CASE ~handleCreatingMR(u) /\ ~Environment(u)
      BY <2>2
      DEF ReconcileStep, Reconcile, ensureFinalizer, handlePending, handleInitializing,
          createPod, handleRunning, deleteTimedOutPod, handleDeletion, removeFinalizer,
          updateStatus, apiCallFails, SyncTask, SyncPod
    <2>3. CASE Environment(u)
      BY <2>3
      DEF Environment, CreateTask, DeleteTask, EditTask, GrantSlot, PodStarts, PodSucceeds,
          PodFails, PodReports, PodRemoved, CollectPod, EvictPod, Expire
    <2> QED  BY <2>1, <2>2, <2>3
  <1>4. RequestsAgree(t, B)
    BY <1>3 DEF RequestsAgree, Planned
  <1> QED  BY <1>2, <1>4, SameAgree DEF Agrees

LEMMA PlanStep ==
  SafetyInvariant /\ PlanInv /\ [BranchesKept]_vars /\ [Next]_vars => PlanInv'
  <1> SUFFICES ASSUME SafetyInvariant, PlanInv, [BranchesKept]_vars, [Next]_vars,
                      NEW t \in Tasks
               PROVE  \E D \in Plans : Planned(t, D)'
    BY DEF PlanInv
  <1>0. PICK B \in Plans : Planned(t, B)
    BY DEF PlanInv
  <1>1. ASSUME Agrees(t, B) PROVE \E D \in Plans : Planned(t, D)'
    BY <1>1, PlanStays
  <1>2. CASE UNCHANGED vars
    BY <1>0, <1>1, <1>2, SameAgree DEF Agrees, vars
  <1>3. CASE Crash
    BY <1>0, <1>1, <1>3, OutsideAgrees
  <1>4. ASSUME NEW u \in Tasks, u # t,
               \/ Reconcile(u) \/ ReconcileStep(u) \/ apiCallFails(u)
               \/ SyncTask(u) \/ SyncPod(u) \/ Environment(u)
        PROVE  \E D \in Plans : Planned(t, D)'
    BY <1>0, <1>1, <1>4, OthersAgree
  <1>5. CASE Reconcile(t) \/ ReconcileStep(t) \/ apiCallFails(t)
    BY <1>0, <1>1, <1>5, WriterAgrees, HandlerAgrees DEF ReconcileStep
  <1>6. CASE SyncTask(t) \/ SyncPod(t)
    BY <1>0, <1>1, <1>6, OutsideAgrees
  <1>7. CASE Environment(t) /\ BranchesKept
    <2>1. KeepsBranch(t)
      BY <1>7 DEF BranchesKept
    <2>2. CASE CreateTask(t)
      BY <1>0, <2>2, CreationAgrees
    <2>3. CASE DeleteTask(t) \/ GrantSlot(t) \/ EditTask(t)
      BY <1>0, <1>1, <2>1, <2>3, OutsideAgrees
    <2>4. CASE \/ PodStarts(t) \/ PodSucceeds(t) \/ PodFails(t) \/ PodRemoved(t)
               \/ CollectPod(t) \/ EvictPod(t) \/ Expire(t)
      BY <1>0, <1>1, <2>4, PodAgrees
    <2> QED  BY <1>7, <2>2, <2>3, <2>4 DEF Environment
  <1> QED  BY <1>2, <1>3, <1>4, <1>5, <1>6, <1>7 DEF Next

(* The merge requests of a task ask for the branch its spec names, which   *)
(* is the one its pods were built with, and so all of them for one branch. *)
AskForWork ==
  \A t \in Tasks : \A m \in mrs : m.task = t =>
    /\ Exists(t) /\ NewestTask(t).uid = m.uid => m.branch = NewestTask(t).spec.branch
    /\ NewestPod(t).exists /\ NewestPod(t).owner = m.uid => m.branch = NewestPod(t).branch
    /\ \A o \in mrs : o.task = t /\ o.uid = m.uid => o = m

LEMMA PlanAsks == SafetyInvariant /\ PlanInv => AskForWork
  <1> SUFFICES ASSUME SafetyInvariant, PlanInv, NEW t \in Tasks, NEW m \in mrs, m.task = t
               PROVE  /\ Exists(t) /\ NewestTask(t).uid = m.uid
                         => m.branch = NewestTask(t).spec.branch
                      /\ NewestPod(t).exists /\ NewestPod(t).owner = m.uid
                         => m.branch = NewestPod(t).branch
                      /\ \A o \in mrs : o.task = t /\ o.uid = m.uid => o = m
    BY DEF AskForWork
  <1>1. PICK B \in Plans : Planned(t, B)
    BY DEF PlanInv
  <1>2. /\ TaskPlanned(B, NewestTask(t)) /\ PodPlanned(t, B, NewestPod(t))
        /\ mrs \subseteq MergeRequest
    BY <1>1, PlanFacts DEF TypeOK
  <1>3. \A o \in mrs : o.task = t => o.branch = B[o.uid]
    BY <1>1 DEF Planned
  <1>4. \A o \in mrs : o.task = t /\ o.uid = m.uid => o = m
    BY <1>2, <1>3 DEF MergeRequest
  <1> QED  BY <1>2, <1>3, <1>4 DEF TaskPlanned, PodPlanned, Exists

(* As long as nobody edits the work branch of a task, its merge request    *)
(* asks for the branch that its pod was built with, even when the name of  *)
(* that branch was lost with a status update (handleCreatingMR); and a     *)
(* retry asks for the same one, so that the platform refuses it and there  *)
(* is one merge request for each task.                                     *)
THEOREM RequestsAskForWork == Spec /\ [][BranchesKept]_vars => []AskForWork
  <1> QED
    BY PlanInit, PlanStep, PlanAsks, SafetyHolds, PTL DEF Spec
=============================================================================
