---------------------------- MODULE TaskLifecycle ----------------------------
(***************************************************************************)
(* What an AgentTask promises to those who watch its status, whatever the  *)
(* operator does inside: the phase diagram of the system, the gate a pool  *)
(* slot is, and what Succeeded stands for.                                 *)
(*                                                                         *)
(* AgentTask implements this specification, stale caches, conflicts and    *)
(* crashes included; the tasks that AgentPool grants slots to move by it.  *)
(* The empty phase and "Pending" are the same phase: both reconcilers      *)
(* treat them alike.                                                       *)
(***************************************************************************)
CONSTANT Tasks

VARIABLES
  phase,    \* phase[t]: the phase of the task named t, "Absent" if there is none
  pooled,   \* pooled[t]: the task names a pool in spec.poolRef
  granted,  \* granted[t]: the task carries the annotation pool-slot-granted
  opened    \* opened[t]: a merge request was opened for this task

lifecycleVars == <<phase, pooled, granted, opened>>

Terminal == {"Succeeded", "Failed"}
Active   == {"Initializing", "Running", "CreatingMR"}
Phases   == {"Pending"} \union Active \union Terminal

LifecycleTypeOK ==
  /\ phase \in [Tasks -> Phases \union {"Absent"}]
  /\ pooled \in [Tasks -> BOOLEAN]
  /\ granted \in [Tasks -> BOOLEAN]
  /\ opened \in [Tasks -> BOOLEAN]

LifecycleInit ==
  /\ phase = [t \in Tasks |-> "Absent"]
  /\ pooled = [t \in Tasks |-> FALSE]
  /\ granted = [t \in Tasks |-> FALSE]
  /\ opened = [t \in Tasks |-> FALSE]

(* The phase of t moves from one phase to another, nothing else changes.   *)
Moves(t, from, to) ==
  /\ phase[t] = from
  /\ phase' = [phase EXCEPT ![t] = to]
  /\ UNCHANGED <<pooled, granted, opened>>

Submit(t) ==
  /\ phase[t] = "Absent"
  /\ phase' = [phase EXCEPT ![t] = "Pending"]
  /\ \E p \in BOOLEAN : pooled' = [pooled EXCEPT ![t] = p]
  /\ granted' = [granted EXCEPT ![t] = FALSE]
  /\ opened' = [opened EXCEPT ![t] = FALSE]

(* The user edits spec.poolRef.                                            *)
Rebind(t) ==
  /\ phase[t] # "Absent"
  /\ \E p \in BOOLEAN : pooled' = [pooled EXCEPT ![t] = p]
  /\ UNCHANGED <<phase, granted, opened>>

Grant(t) ==
  /\ phase[t] = "Pending"
  /\ granted' = [granted EXCEPT ![t] = TRUE]
  /\ UNCHANGED <<phase, pooled, opened>>

(* A task that names a pool leaves Pending for work only with a slot.      *)
Admit(t)    == (pooled[t] => granted[t]) /\ Moves(t, "Pending", "Initializing")
Launch(t)   == Moves(t, "Initializing", "Running")
Complete(t) == Moves(t, "Running", "CreatingMR")

(* A merge request appears only once the agent is done; it may also appear *)
(* after the task has ended, when a retry of the request gets through.     *)
OpenMR(t) ==
  /\ phase[t] \in {"CreatingMR"} \union Terminal
  /\ opened' = [opened EXCEPT ![t] = TRUE]
  /\ UNCHANGED <<phase, pooled, granted>>

Finish(t) == opened[t] /\ Moves(t, "CreatingMR", "Succeeded")
Fail(t)   == \E from \in {"Pending"} \union Active : Moves(t, from, "Failed")

Remove(t) ==
  /\ phase[t] # "Absent"
  /\ phase' = [phase EXCEPT ![t] = "Absent"]
  /\ pooled' = [pooled EXCEPT ![t] = FALSE]
  /\ granted' = [granted EXCEPT ![t] = FALSE]
  /\ opened' = [opened EXCEPT ![t] = FALSE]

LifecycleNext ==
  \E t \in Tasks :
    \/ Submit(t) \/ Rebind(t) \/ Grant(t) \/ Admit(t) \/ Launch(t)
    \/ Complete(t) \/ OpenMR(t) \/ Finish(t) \/ Fail(t) \/ Remove(t)

LifecycleSpec == LifecycleInit /\ [][LifecycleNext]_lifecycleVars
=============================================================================
