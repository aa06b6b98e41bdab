------------------------------- MODULE AgentPod -------------------------------
(***************************************************************************)
(* The pods that the builders of internal/podbuilder make for tasks, and   *)
(* what runs in them: the script of git-clone, the one of model-pull and   *)
(* the entrypoints of docker/entrypoints, each command by command, against *)
(* one remote repository that all the pods share.                          *)
(*                                                                         *)
(* A branch is the set of the commits in its history, {} if there is no    *)
(* such branch.  Agents edit files and may commit them; pushing and        *)
(* switching branches is left to the scripts, as their prompts are.        *)
(***************************************************************************)
EXTENDS FiniteSets, Integers

CONSTANTS
  Runs,       \* pods, each for a task of its own
  Branches,   \* names of branches
  NoBranch,   \* the empty branch name
  Generated,  \* Generated[r]: kbrain/<name of the task>; names recur in other
              \* namespaces and when a task is created again
  TaskSpecs,  \* the specs of tasks, a subset of TaskSpec
  MaxAdvances \* how many commits others push

VARIABLES
  spec,    \* spec[r]: the task of pod r, as of the building of the pod
  stage,   \* stage[r]: the command that is next in pod r, or how it ended
  served,  \* served[r]: an ollama server answers in pod r
  clone,   \* clone[r]: the working copy in pod r
  remote   \* remote[b]: the history of branch b of the repository

podVars == <<spec, stage, served, clone, remote>>

TaskSpec ==
  [provider: {"cloud", "ollama"}, agent: {"claude-code", "aider", "codex"},
   base: Branches, work: Branches \union {NoBranch}, target: Branches \union {NoBranch}]

ASSUME PodAssumption ==
  /\ NoBranch \notin Branches /\ "others" \notin Runs
  /\ Generated \in [Runs -> Branches]
  /\ TaskSpecs \subseteq TaskSpec
  /\ MaxAdvances \in Nat

(* The commands of a pod's containers, in the order in which they run; the *)
(* containers start when the init containers have ended.                   *)
InitCommands  == {"git-clone", "model-pull"}
AgentCommands == {"entrypoint", "agent", "commit", "push"}
Ended         == {"init failed", "succeeded", "failed", "killed"}
Stages        == {"absent", "start"} \union InitCommands \union AgentCommands \union Ended

(* The commits an agent leaves in the pod of r, and the entrypoint's own.  *)
Own(r)     == {<<r, "agent">>, <<r, "entrypoint">>}
Others(n)  == <<"others", n>>
Commits    == (UNION {Own(r) : r \in Runs}) \union {Others(n) : n \in 0..MaxAdvances}

(* head: the history of the work branch; dirty: files differ from it.      *)
Clone == [head: SUBSET Commits, dirty: BOOLEAN]

workBranch(r)   == IF spec[r].work # NoBranch THEN spec[r].work ELSE Generated[r]
targetBranch(r) == IF spec[r].target # NoBranch THEN spec[r].target ELSE spec[r].base

PodInit ==
  /\ spec \in [Runs -> TaskSpecs]
  /\ stage = [r \in Runs |-> "absent"]
  /\ served = [r \in Runs |-> FALSE]
  /\ clone = [r \in Runs |-> [head |-> {}, dirty |-> FALSE]]
  /\ \E b \in Branches : remote = [c \in Branches |-> IF c = b THEN {Others(0)} ELSE {}]

-----------------------------------------------------------------------------
(* Build, for the cloud and for ollama.                                    *)

(* NewPodBuilder.                                                          *)
Ollama(r) == spec[r].provider = "ollama"

(* Mutant: without a default builder.                                      *)
AfterCloneNothing(r) == IF Ollama(r) THEN "model-pull" ELSE "nothing"

(* What follows git-clone.                                                 *)
AfterClone(r) == IF Ollama(r) THEN "model-pull" ELSE "start"

(* Mutant: OLLAMA_HOST is in the environment of every agent.               *)
OllamaHostAlways(r) == TRUE

(* OLLAMA_HOST is in the environment of the agent.                         *)
OllamaHost(r) == Ollama(r)

(* The entrypoint of codex does not look at OLLAMA_HOST.                   *)
WaitsForOllama(r) ==
  \/ stage[r] = "model-pull"
  \/ OllamaHost(r) /\ spec[r].agent # "codex"

(* aider runs with --no-auto-commits.                                      *)
MayCommit(r) == spec[r].agent # "aider"

(* The pod's phase; with an ollama server, which never exits, a pod whose  *)
(* agent has ended goes on Running.                                        *)
Phase(r) ==
  CASE stage[r] = "absent"                       -> "none"
    [] stage[r] \in InitCommands \union {"start"} -> "Pending"
    [] stage[r] \in AgentCommands                -> "Running"
    [] stage[r] \in {"init failed", "killed"}    -> "Failed"
    [] stage[r] = "succeeded"                    -> IF Ollama(r) THEN "Running" ELSE "Succeeded"
    [] stage[r] = "failed"                       -> IF Ollama(r) THEN "Running" ELSE "Failed"

Goes(r, to) == stage' = [stage EXCEPT ![r] = to]

-----------------------------------------------------------------------------
(* The scripts; with set -e the first command that fails ends them.        *)

(* createPod.                                                              *)
Schedule(r) ==
  /\ stage[r] = "absent"
  /\ Goes(r, "git-clone")
  /\ UNCHANGED <<spec, served, clone, remote>>

(* Mutant: without set -e; if the branch to be made exists already, git    *)
(* checkout fails and the clone stays on the base branch.                  *)
CheckoutWorksAlways(r) == remote[spec[r].base] # {}

(* git clone finds the base branch and git checkout -b makes a new one.    *)
CheckoutWorks(r) == remote[spec[r].base] # {} /\ workBranch(r) # spec[r].base

gitClone(r) ==
  /\ stage[r] = "git-clone"
  /\ IF CheckoutWorks(r)
     THEN /\ clone' = [clone EXCEPT ![r].head = remote[spec[r].base]]
          /\ Goes(r, AfterClone(r))
     ELSE /\ Goes(r, "init failed")
          /\ UNCHANGED clone
  /\ UNCHANGED <<spec, served, remote>>

(* All init containers have ended: the kubelet starts the containers, the  *)
(* agent's and, in an ollama pod, the server's.  Whatever keeps it from    *)
(* that (an image, a key that the secret does not have) is left to the     *)
(* task's timeout (Kill).                                                  *)
startContainers(r) ==
  /\ stage[r] = "start"
  /\ served' = [served EXCEPT ![r] = Ollama(r)]
  /\ Goes(r, "entrypoint")
  /\ UNCHANGED <<spec, clone, remote>>

(* The two loops that wait for ollama: model-pull, whose other commands    *)
(* cannot fail, and the beginning of the entrypoint.                       *)
awaitOllama(r) ==
  /\ stage[r] \in {"model-pull", "entrypoint"}
  /\ WaitsForOllama(r) => served[r]
  /\ Goes(r, IF stage[r] = "model-pull" THEN "start" ELSE "agent")
  /\ UNCHANGED <<spec, served, clone, remote>>

(* The agent ends without an error; it has committed something or not, and *)
(* has left something to be committed or not.                              *)
runAgent(r) ==
  /\ stage[r] = "agent"
  /\ \E dirty \in BOOLEAN, made \in SUBSET {<<r, "agent">>} :
       /\ made # {} => MayCommit(r)
       /\ clone' = [clone EXCEPT ![r] = [head |-> @.head \union made, dirty |-> dirty]]
  /\ Goes(r, "commit")
  /\ UNCHANGED <<spec, served, remote>>

(* git add -A; git diff --cached --quiet, which ends the script if nothing *)
(* is staged; git commit.                                                  *)
commitChanges(r) ==
  /\ stage[r] = "commit"
  /\ IF clone[r].dirty
     THEN /\ clone' = [clone EXCEPT ![r] = [head |-> @.head \union {<<r, "entrypoint">>},
                                            dirty |-> FALSE]]
          /\ Goes(r, "push")
     ELSE Goes(r, "succeeded") /\ UNCHANGED clone
  /\ UNCHANGED <<spec, served, remote>>

(* Mutant: git push --force.                                               *)
PushAcceptedAlways(r) == TRUE

(* Only a fast-forward of the remote branch is accepted.                   *)
PushAccepted(r) == remote[workBranch(r)] \subseteq clone[r].head

(* git push origin "$GIT_BRANCH".                                          *)
pushBranch(r) ==
  /\ stage[r] = "push"
  /\ IF PushAccepted(r)
     THEN /\ remote' = [remote EXCEPT ![workBranch(r)] = clone[r].head]
          /\ Goes(r, "succeeded")
     ELSE Goes(r, "failed") /\ UNCHANGED remote
  /\ UNCHANGED <<spec, served, clone>>

(* Any command may fail before it has an effect: the host cannot be        *)
(* reached or refuses the credentials, the agent gives up.                 *)
commandFails(r) ==
  /\ stage[r] \in {"git-clone", "agent", "commit", "push"}
  /\ Goes(r, IF stage[r] = "git-clone" THEN "init failed" ELSE "failed")
  /\ UNCHANGED <<spec, served, clone, remote>>

(* The pod is evicted, or deleted by handleRunning or handleDeletion.      *)
Kill(r) ==
  /\ Phase(r) \in {"Pending", "Running"}
  /\ Goes(r, "killed")
  /\ UNCHANGED <<spec, served, clone, remote>>

Script(r) ==
  \/ gitClone(r) \/ startContainers(r) \/ awaitOllama(r)
  \/ runAgent(r) \/ commitChanges(r) \/ pushBranch(r)

PodNext == \E r \in Runs : Schedule(r) \/ Script(r) \/ commandFails(r) \/ Kill(r)
==============================================================================
