---------------------------- MODULE DeliveryProofs ----------------------------
(***************************************************************************)
(* What is proved about Delivery, for any number of pods, branches, people *)
(* pushing and requests: the base branch of a task is never written by its *)
(* pod, what an agent did survives the success of its pod, and what it has *)
(* pushed is offered, in the repository that was cloned and in no other.   *)
(***************************************************************************)
EXTENDS Delivery, GitOpsProofs

(* Up to here a pod has not pushed anything.                               *)
Before == {"absent", "start"} \union InitCommands \union AgentCommands

(* The work branch of a pod whose clone was made is not its base branch.   *)
Branched ==
  \A r \in Runs :
    stage[r] \in {"model-pull", "start", "succeeded"} \union AgentCommands
    => workBranch(r) # spec[r].base

(* What a pod has not pushed, nobody else has.                             *)
Private ==
  \A r \in Runs : stage[r] \in Before =>
    /\ \A b \in Branches : remote[b] \cap Own(r) = {}
    /\ \A q \in Runs \ {r} : clone[q].head \cap Own(r) = {}

(* Until the entrypoint commits, only the agent may have, and before the   *)
(* agent nobody.                                                           *)
Unmade ==
  \A r \in Runs :
    /\ stage[r] \in Before \ {"commit", "push"} => clone[r].head \cap Own(r) = {}
    /\ stage[r] = "commit" => <<r, "entrypoint">> \notin clone[r].head

(* What an agent did is in some branch when its pod has succeeded.         *)
Kept ==
  \A r \in Runs : stage[r] = "succeeded" /\ ~SelfCommitted(r) =>
    \A c \in clone[r].head \cap Own(r) : \E b \in Branches : c \in remote[b]

(* Requests in the repository of the tasks are between two branches.       *)
TwoBranches ==
  \A r \in Runs : requests[r].state = "open" /\ requests[r].repo = project.repo
                  => requests[r].source # requests[r].target

Inv == TypeOK /\ Branched /\ Private /\ Unmade /\ Kept /\ TwoBranches

-----------------------------------------------------------------------------
(* Types.                                                                  *)

LEMMA BranchNames ==
  ASSUME TypeOK, NEW r \in Runs
  PROVE  workBranch(r) \in Branches /\ targetBranch(r) \in Branches
         /\ spec[r].base \in Branches
  BY PodAssumption DEF TypeOK, TaskSpec, workBranch, targetBranch

LEMMA CommitSets ==
  /\ \A n \in 0..MaxAdvances : Others(n) \in Commits
  /\ \A r \in Runs : Own(r) \subseteq Commits
  <1>1. \A n \in 0..MaxAdvances : Others(n) \in {Others(m) : m \in 0..MaxAdvances}
    BY Zenon
  <1>2. \A r \in Runs : Own(r) \in {Own(q) : q \in Runs}
    BY Zenon
  <1>3. \A n \in 0..MaxAdvances : Others(n) \in Commits
    BY <1>1, Zenon DEF Commits
  <1>4. \A r \in Runs : Own(r) \subseteq Commits
    <2> SUFFICES ASSUME NEW r \in Runs, NEW c \in Own(r) PROVE c \in Commits
      OBVIOUS
    <2>1. c \in UNION {Own(q) : q \in Runs}
      BY <1>2
    <2> QED  BY <2>1, Zenon DEF Commits
  <1> QED  BY <1>3, <1>4

LEMMA InitType == Init => TypeOK
  <1> SUFFICES ASSUME Init PROVE TypeOK
    OBVIOUS
  <1> USE DEF Init, PodInit
  <1>1. spec \in [Runs -> TaskSpec]
    BY PodAssumption
  <1>2. stage \in [Runs -> Stages] /\ served \in [Runs -> BOOLEAN]
    BY DEF Stages
  <1>3. clone \in [Runs -> Clone]
    BY DEF Clone
  <1>4. remote \in [Branches -> SUBSET Commits]
    <2>1. Others(0) \in Commits
      BY CommitSets, PodAssumption
    <2> QED  BY <2>1
  <1>5. project \in Projects /\ project \in Project
    BY DeliveryAssumption
  <1>6. requests \in [Runs -> MergeRequest]
    <2> SUFFICES ASSUME NEW r \in Runs PROVE NoMR \in MergeRequest
      OBVIOUS
    <2>1. Generated[r] \in Branches
      BY PodAssumption
    <2>2. project.repo \in Repositories
      BY <1>5 DEF Project
    <2>3. /\ (CHOOSE b \in Branches : TRUE) \in Branches
          /\ (CHOOSE p \in Repositories : TRUE) \in Repositories
      BY <2>1, <2>2
    <2> QED  BY <2>3 DEF NoMR, MergeRequest
  <1>7. verdict \in [Runs -> Verdicts] /\ advances \in 0..MaxAdvances
    BY PodAssumption DEF Verdicts
  <1> QED  BY <1>1, <1>2, <1>3, <1>4, <1>5, <1>6, <1>7 DEF TypeOK

(* The steps of the pods.                                                  *)
LEMMA PodStepType ==
  ASSUME TypeOK, NEW r \in Runs,
         Schedule(r) \/ Script(r) \/ commandFails(r) \/ Kill(r)
  PROVE  /\ spec' = spec /\ stage' \in [Runs -> Stages]
         /\ served' \in [Runs -> BOOLEAN] /\ clone' \in [Runs -> Clone]
         /\ remote' \in [Branches -> SUBSET Commits]
  <1> USE DEF TypeOK, Goes, Stages, InitCommands, AgentCommands, Ended, Clone
  <1>1. Own(r) \subseteq Commits
    BY CommitSets
  <1>2. CASE gitClone(r)
    <2>1. spec[r].base \in Branches
      BY BranchNames
    <2>2. [clone[r] EXCEPT !.head = remote[spec[r].base]] \in Clone
      BY <2>1
    <2>3. clone' \in [Runs -> Clone]
      <3>1. CASE UNCHANGED clone
        BY <3>1
      <3>2. CASE clone' = [clone EXCEPT ![r] = [clone[r] EXCEPT !.head = remote[spec[r].base]]]
        <4> HIDE DEF Clone
        <4> QED  BY <2>2, <3>2
      <3> QED  BY <1>2, <3>1, <3>2 DEF gitClone
    <2> QED  BY <1>2, <2>3 DEF gitClone, AfterClone
  <1>3. CASE runAgent(r)
    <2>1. \A d \in BOOLEAN, m \in SUBSET {<<r, "agent">>} :
            [head |-> clone[r].head \union m, dirty |-> d] \in Clone
      BY <1>1 DEF Own
    <2>2. PICK d \in BOOLEAN, m \in SUBSET {<<r, "agent">>} :
            clone' = [clone EXCEPT ![r] = [head |-> clone[r].head \union m, dirty |-> d]]
      BY <1>3 DEF runAgent
    <2>3. clone' \in [Runs -> Clone]
      BY <2>1, <2>2
    <2> QED  BY <1>3, <2>3 DEF runAgent
  <1>4. CASE commitChanges(r)
    <2>1. [head |-> clone[r].head \union {<<r, "entrypoint">>}, dirty |-> FALSE] \in Clone
      BY <1>1 DEF Own
    <2>2. clone' \in [Runs -> Clone]
      <3>1. CASE clone[r].dirty
        BY <1>4, <2>1, <3>1 DEF commitChanges
      <3>2. CASE ~clone[r].dirty
        BY <1>4, <3>2 DEF commitChanges
      <3> QED  BY <3>1, <3>2
    <2> QED  BY <1>4, <2>2 DEF commitChanges
  <1>5. CASE pushBranch(r)
    BY <1>5 DEF pushBranch
  <1>6. CASE Schedule(r) \/ startContainers(r) \/ awaitOllama(r) \/ commandFails(r) \/ Kill(r)
    BY <1>6 DEF Schedule, startContainers, awaitOllama, commandFails, Kill, Ollama
  <1> QED  BY <1>2, <1>3, <1>4, <1>5, <1>6 DEF Script

(* The steps of the operator, the platform and people.                     *)
LEMMA TypeStep == ASSUME TypeOK, [Next]_vars PROVE TypeOK'
  <1>1. ASSUME PodNext, UNCHANGED <<project, requests, verdict, advances>>
        PROVE  TypeOK'
    BY <1>1, PodStepType DEF PodNext, TypeOK
  <1>2. ASSUME NEW r \in Runs, handleCreatingMR(r) PROVE TypeOK'
    <2>1. Addressed[project] \subseteq Repositories
      BY DEF Addressed, Reached, TypeOK
    <2>2. \A repo \in Repositories :
            [state |-> "open", repo |-> repo, source |-> workBranch(r),
             target |-> targetBranch(r)] \in MergeRequest
      BY BranchNames DEF MergeRequest
    <2>3. requests' \in [Runs -> MergeRequest]
      <3> DEFINE reached == {repo \in Addressed[project] : Acceptable(r, repo)}
      <3>1. reached # {} => (CHOOSE repo \in reached : TRUE) \in Repositories
        BY <2>1
      <3> QED  BY <1>2, <2>2, <3>1 DEF handleCreatingMR, TypeOK
    <2> QED  BY <1>2, <2>3 DEF TypeOK, handleCreatingMR, podVars, Verdicts
  <1>3. ASSUME NEW r \in Runs, platformFails(r) PROVE TypeOK'
    BY <1>3 DEF TypeOK, platformFails, podVars, Verdicts
  <1>4. ASSUME NEW b \in Branches, Advance(b) PROVE TypeOK'
    <2>1. advances' \in 0..MaxAdvances
      BY <1>4, PodAssumption DEF Advance, TypeOK
    <2>2. Others(advances') \in Commits
      BY <2>1, CommitSets
    <2> QED  BY <1>4, <2>1, <2>2 DEF TypeOK, Advance
  <1>5. ASSUME NEW r \in Runs, Merge(r) PROVE TypeOK'
    BY <1>5 DEF TypeOK, Merge, Settle, MergeRequest
  <1>6. ASSUME NEW r \in Runs, Close(r) PROVE TypeOK'
    BY <1>6 DEF TypeOK, Close, Settle, MergeRequest
  <1>7. CASE UNCHANGED vars
    BY <1>7 DEF vars, podVars, TypeOK
  <1> QED  BY <1>1, <1>2, <1>3, <1>4, <1>5, <1>6, <1>7 DEF Next, People

-----------------------------------------------------------------------------
(* The invariant is inductive.                                             *)

LEMMA InitInv == Init => Inv
  <1> SUFFICES ASSUME Init PROVE Inv
    OBVIOUS
  <1>1. TypeOK
    BY InitType
  <1>2. \A r \in Runs : stage[r] = "absent" /\ clone[r].head = {}
    BY DEF Init, PodInit
  <1>3. Branched /\ Unmade /\ Kept
    BY <1>2 DEF Branched, Unmade, Kept, AgentCommands, Before, InitCommands
  <1>4. Private
    <2> SUFFICES ASSUME NEW r \in Runs, NEW b \in Branches PROVE remote[b] \cap Own(r) = {}
      BY <1>2 DEF Private
    <2>1. remote[b] \subseteq {Others(0)}
      BY DEF Init, PodInit
    <2>2. Others(0) \notin Own(r)
      BY PodAssumption DEF Others, Own
    <2> QED  BY <2>1, <2>2
  <1>5. TwoBranches
    BY DEF TwoBranches, Init, NoMR
  <1> QED  BY <1>1, <1>3, <1>4, <1>5 DEF Inv

(* While the pods stand still, the work of agents may move between         *)
(* branches, as long as it neither appears from nowhere nor disappears.    *)
LEMMA PodsStill ==
  ASSUME Inv, spec' = spec, stage' = stage, clone' = clone,
         \A r \in Runs : \A c \in Own(r) :
           (\E b \in Branches : c \in remote[b]) <=> (\E b \in Branches : c \in remote'[b])
  PROVE  Branched' /\ Private' /\ Unmade' /\ Kept'
  <1>1. Branched' /\ Unmade'
    BY DEF Inv, Branched, Unmade, workBranch
  <1>2. Private'
    BY DEF Inv, Private
  <1>3. Kept'
    BY DEF Inv, Kept, SelfCommitted
  <1> QED  BY <1>1, <1>2, <1>3

(* A step of pod r that changes only where r is, and neither starts after  *)
(* the clone nor succeeds.                                                 *)
LEMMA StageOnly ==
  ASSUME Inv, NEW r \in Runs, NEW to,
         spec' = spec, clone' = clone, remote' = remote,
         stage' = [stage EXCEPT ![r] = to],
         \/ to \in {"init failed", "failed", "killed"}
         \/ stage[r] = "absent" /\ to = "git-clone"
         \/ stage[r] \in {"model-pull", "start", "entrypoint"}
            /\ to \in {"start", "entrypoint", "agent"}
  PROVE  Branched' /\ Private' /\ Unmade' /\ Kept'
  <1> USE DEF Inv, TypeOK, Before, InitCommands, AgentCommands
  <1>1. Branched'
    BY DEF Branched, workBranch
  <1>2. Private'
    BY DEF Private
  <1>3. Unmade'
    BY DEF Unmade
  <1>4. Kept'
    BY DEF Kept, SelfCommitted
  <1> QED  BY <1>1, <1>2, <1>3, <1>4

(* A clone holds no work of pods that have not pushed.                     *)
LEMMA CloneStep ==
  ASSUME Inv, NEW r \in Runs, gitClone(r)
  PROVE  Branched' /\ Private' /\ Unmade' /\ Kept'
  <1>1. CASE ~CheckoutWorks(r)
    BY <1>1, StageOnly DEF gitClone, Goes
  <1>2. CASE CheckoutWorks(r)
    <2> USE DEF TypeOK, Before, InitCommands, AgentCommands
    <2>1. TypeOK /\ spec[r].base \in Branches
      BY BranchNames DEF Inv
    <2>2. /\ clone' = [clone EXCEPT ![r].head = remote[spec[r].base]]
          /\ stage' = [stage EXCEPT ![r] = AfterClone(r)] /\ stage[r] = "git-clone"
          /\ spec' = spec /\ remote' = remote /\ workBranch(r) # spec[r].base
          /\ AfterClone(r) \in {"model-pull", "start"}
      BY <1>2 DEF gitClone, Goes, CheckoutWorks, AfterClone
    <2>3. /\ clone'[r].head = remote[spec[r].base]
          /\ \A q \in Runs \ {r} : clone'[q] = clone[q] /\ stage'[q] = stage[q]
      BY <2>1, <2>2 DEF Clone
    <2>4. Branched'
      BY <2>1, <2>2 DEF Inv, Branched, workBranch
    <2>5. Private'
      BY <2>1, <2>2, <2>3 DEF Inv, Private
    <2>6. Unmade'
      BY <2>1, <2>2, <2>3 DEF Inv, Unmade, Private
    <2>7. Kept'
      BY <2>1, <2>2, <2>3 DEF Inv, Kept, SelfCommitted
    <2> QED  BY <2>4, <2>5, <2>6, <2>7
  <1> QED  BY <1>1, <1>2

(* Names of commits tell apart who made them.                              *)
LEMMA OwnApart ==
  ASSUME NEW r \in Runs, NEW q \in Runs, q # r
  PROVE  Own(r) \cap Own(q) = {}
  BY DEF Own

(* What the agent commits is its own, and it is the first to do so.        *)
LEMMA AgentStep ==
  ASSUME Inv, NEW r \in Runs, runAgent(r)
  PROVE  Branched' /\ Private' /\ Unmade' /\ Kept'
  <1> USE DEF TypeOK, Before, InitCommands, AgentCommands
  <1>1. PICK d \in BOOLEAN, m \in SUBSET {<<r, "agent">>} :
          clone' = [clone EXCEPT ![r] = [head |-> clone[r].head \union m, dirty |-> d]]
    BY DEF runAgent
  <1>2. /\ stage[r] = "agent" /\ stage' = [stage EXCEPT ![r] = "commit"]
        /\ spec' = spec /\ remote' = remote /\ TypeOK
    BY DEF runAgent, Goes, Inv
  <1>3. /\ clone'[r].head = clone[r].head \union m
        /\ \A q \in Runs \ {r} : clone'[q] = clone[q] /\ stage'[q] = stage[q]
    BY <1>1, <1>2
  <1>4. Branched'
    BY <1>2 DEF Inv, Branched, workBranch
  <1>5. \A q \in Runs \ {r} : m \cap Own(q) = {}
    BY OwnApart DEF Own
  <1>6. Private'
    BY <1>2, <1>3, <1>5 DEF Inv, Private
  <1>7. <<r, "entrypoint">> \notin clone'[r].head
    <2>1. clone[r].head \cap Own(r) = {}
      BY <1>2 DEF Inv, Unmade
    <2>2. <<r, "entrypoint">> \notin m
      OBVIOUS
    <2> QED  BY <1>3, <2>1, <2>2 DEF Own
  <1>8. Unmade'
    BY <1>2, <1>3, <1>7 DEF Inv, Unmade
  <1>9. Kept'
    BY <1>2, <1>3 DEF Inv, Kept, SelfCommitted
  <1> QED  BY <1>4, <1>6, <1>8, <1>9

(* The entrypoint commits what the agent has left; when there is nothing,  *)
(* the agent has done nothing or committed all of it by itself.            *)
LEMMA CommitStep ==
  ASSUME Inv, NEW r \in Runs, commitChanges(r)
  PROVE  Branched' /\ Private' /\ Unmade' /\ Kept'
  <1> USE DEF TypeOK, Before, InitCommands, AgentCommands
  <1>1. stage[r] = "commit" /\ spec' = spec /\ remote' = remote /\ TypeOK
    BY DEF commitChanges, Inv
  <1>2. CASE clone[r].dirty
    <2>1. /\ clone' = [clone EXCEPT ![r] = [head |-> clone[r].head \union {<<r, "entrypoint">>},
                                            dirty |-> FALSE]]
          /\ stage' = [stage EXCEPT ![r] = "push"]
      BY <1>2 DEF commitChanges, Goes
    <2>2. /\ clone'[r].head = clone[r].head \union {<<r, "entrypoint">>}
          /\ \A q \in Runs \ {r} : clone'[q] = clone[q] /\ stage'[q] = stage[q]
      BY <1>1, <2>1
    <2>3. Branched'
      BY <1>1, <2>1 DEF Inv, Branched, workBranch
    <2>4. \A q \in Runs \ {r} : <<r, "entrypoint">> \notin Own(q)
      BY OwnApart DEF Own
    <2>5. Private'
      BY <1>1, <2>1, <2>2, <2>4 DEF Inv, Private
    <2>6. Unmade' /\ Kept'
      BY <1>1, <2>1, <2>2 DEF Inv, Unmade, Kept, SelfCommitted
    <2> QED  BY <2>3, <2>5, <2>6
  <1>3. CASE ~clone[r].dirty
    <2>1. clone' = clone /\ stage' = [stage EXCEPT ![r] = "succeeded"]
      BY <1>3 DEF commitChanges, Goes
    <2>2. Branched' /\ Private' /\ Unmade'
      BY <1>1, <2>1 DEF Inv, Branched, Private, Unmade, workBranch
    <2>3. clone[r].head \cap Own(r) \in {{}, {<<r, "agent">>}}
      BY <1>1 DEF Inv, Unmade, Own
    <2>4. Kept'
      BY <1>1, <2>1, <2>3 DEF Inv, Kept, SelfCommitted
    <2> QED  BY <2>2, <2>4
  <1> QED  BY <1>2, <1>3

(* A push is a fast-forward: it takes nothing from the branch.             *)
LEMMA PushStep ==
  ASSUME Inv, NEW r \in Runs, pushBranch(r)
  PROVE  Branched' /\ Private' /\ Unmade' /\ Kept'
  <1>1. CASE ~PushAccepted(r)
    BY <1>1, StageOnly DEF pushBranch, Goes
  <1>2. CASE PushAccepted(r)
    <2> USE DEF TypeOK, Before, InitCommands, AgentCommands
    <2> DEFINE w == workBranch(r)
    <2>1. TypeOK /\ w \in Branches
      BY BranchNames DEF Inv
    <2>2. /\ remote' = [remote EXCEPT ![w] = clone[r].head]
          /\ stage' = [stage EXCEPT ![r] = "succeeded"] /\ stage[r] = "push"
          /\ spec' = spec /\ clone' = clone /\ remote[w] \subseteq clone[r].head
      BY <1>2 DEF pushBranch, Goes, PushAccepted
    <2> HIDE DEF w
    <2>3. /\ remote'[w] = clone[r].head
          /\ \A b \in Branches \ {w} : remote'[b] = remote[b]
          /\ \A b \in Branches : remote[b] \subseteq remote'[b]
      BY <2>1, <2>2
    <2>4. Branched' /\ Unmade'
      BY <2>1, <2>2 DEF Inv, Branched, Unmade, workBranch
    <2>5. Private'
      BY <2>1, <2>2, <2>3 DEF Inv, Private
    <2>6. Kept'
      <3> SUFFICES ASSUME NEW q \in Runs, stage'[q] = "succeeded", ~SelfCommitted(q)',
                          NEW c \in clone[q].head \cap Own(q)
                   PROVE  \E b \in Branches : c \in remote'[b]
        BY <2>2 DEF Kept
      <3>1. CASE q = r
        BY <2>1, <2>3, <3>1
      <3>2. CASE q # r
        <4>1. stage[q] = "succeeded" /\ ~SelfCommitted(q)
          BY <2>1, <2>2, <3>2 DEF SelfCommitted
        <4>2. PICK b \in Branches : c \in remote[b]
          BY <4>1 DEF Inv, Kept
        <4> QED  BY <4>2, <2>3
      <3> QED  BY <3>1, <3>2
    <2> QED  BY <2>4, <2>5, <2>6
  <1> QED  BY <1>1, <1>2

(* Others push commits of their own.                                       *)
LEMMA AdvanceStep ==
  ASSUME Inv, NEW a \in Branches, Advance(a)
  PROVE  Branched' /\ Private' /\ Unmade' /\ Kept'
  <1> DEFINE n == Others(advances')
  <1>1. TypeOK
    BY DEF Inv
  <1>2. /\ remote' = [remote EXCEPT ![a] = remote[a] \union {n}]
        /\ spec' = spec /\ stage' = stage /\ clone' = clone
    BY DEF Advance
  <1>3. \A r \in Runs : n \notin Own(r)
    BY PodAssumption DEF Others, Own
  <1> HIDE DEF n
  <1>4. /\ \A b \in Branches : remote[b] \subseteq remote'[b]
        /\ \A b \in Branches : remote'[b] \subseteq remote[b] \union {n}
    BY <1>1, <1>2 DEF TypeOK
  <1> QED  BY <1>2, <1>3, <1>4, PodsStill

(* What is merged is in the target branch, whatever becomes of the source. *)
LEMMA MergeStep ==
  ASSUME Inv, NEW q \in Runs, Merge(q)
  PROVE  Branched' /\ Private' /\ Unmade' /\ Kept'
  <1> DEFINE from == requests[q].source
             into == requests[q].target
  <1>1. TypeOK /\ from \in Branches /\ into \in Branches /\ from # into
    BY DEF Inv, TypeOK, MergeRequest, TwoBranches, Merge, Settle
  <1>2. PICK kept \in {{}, remote[from]} :
          remote' = [remote EXCEPT ![into] = @ \union remote[from], ![from] = kept]
    BY DEF Merge
  <1>3. spec' = spec /\ stage' = stage /\ clone' = clone
    BY DEF Merge, Settle
  <1> HIDE DEF from, into
  <1>4. /\ remote'[into] = remote[into] \union remote[from]
        /\ remote'[from] \subseteq remote[from]
        /\ \A b \in Branches \ {from, into} : remote'[b] = remote[b]
    BY <1>1, <1>2 DEF TypeOK
  <1>5. \A c : (\E b \in Branches : c \in remote[b]) <=> (\E b \in Branches : c \in remote'[b])
    BY <1>1, <1>4
  <1> QED  BY <1>3, <1>5, PodsStill

(* Requests are opened between two branches, and never change theirs.      *)
LEMMA TwoBranchesStep ==
  ASSUME Inv, [Next]_vars
  PROVE  TwoBranches'
  <1>1. ASSUME NEW r \in Runs, handleCreatingMR(r) PROVE TwoBranches'
    <2> DEFINE reached == {repo \in Addressed[project] : Acceptable(r, repo)}
               mr == [state |-> "open", repo |-> CHOOSE repo \in reached : TRUE,
                      source |-> workBranch(r), target |-> targetBranch(r)]
    <2>1. CASE reached # {}
      <3>1. requests' = [requests EXCEPT ![r] = mr] /\ project' = project
        BY <1>1, <2>1 DEF handleCreatingMR
      <3>2. (CHOOSE repo \in reached : TRUE) \in reached
        BY <2>1
      <3>3. Acceptable(r, mr.repo)
        BY <3>2
      <3>4. mr.repo = project.repo => mr.source # mr.target
        BY <3>3 DEF Acceptable
      <3> HIDE DEF mr
      <3> QED  BY <3>1, <3>4 DEF Inv, TypeOK, TwoBranches
    <2>2. CASE reached = {}
      BY <1>1, <2>2 DEF handleCreatingMR, Inv, TwoBranches
    <2> QED  BY <2>1, <2>2
  <1>2. ASSUME NEW r \in Runs, Merge(r) \/ Close(r) PROVE TwoBranches'
    BY <1>2 DEF Merge, Close, Settle, Inv, TypeOK, MergeRequest, TwoBranches
  <1>3. CASE UNCHANGED <<project, requests>>
    BY <1>3 DEF Inv, TwoBranches
  <1> QED
    BY <1>1, <1>2, <1>3 DEF Next, vars, People, platformFails, Advance

LEMMA InvStep == ASSUME Inv, [Next]_vars PROVE Inv'
  <1>1. TypeOK' /\ TwoBranches'
    BY TypeStep, TwoBranchesStep DEF Inv
  <1>2. ASSUME NEW r \in Runs,
               Schedule(r) \/ startContainers(r) \/ awaitOllama(r) \/ commandFails(r) \/ Kill(r)
        PROVE  Branched' /\ Private' /\ Unmade' /\ Kept'
    BY <1>2, StageOnly
       DEF Schedule, startContainers, awaitOllama, commandFails, Kill, Goes
  <1>3. ASSUME PodNext PROVE Branched' /\ Private' /\ Unmade' /\ Kept'
    BY <1>2, <1>3, CloneStep, AgentStep, CommitStep, PushStep DEF PodNext, Script
  <1>4. ASSUME NEW b \in Branches, Advance(b) PROVE Branched' /\ Private' /\ Unmade' /\ Kept'
    BY <1>4, AdvanceStep
  <1>5. ASSUME NEW r \in Runs, Merge(r) PROVE Branched' /\ Private' /\ Unmade' /\ Kept'
    BY <1>5, MergeStep
  <1>6. ASSUME UNCHANGED podVars PROVE Branched' /\ Private' /\ Unmade' /\ Kept'
    BY <1>6, PodsStill DEF podVars
  <1> QED
    BY <1>1, <1>3, <1>4, <1>5, <1>6
       DEF Inv, Next, vars, People, handleCreatingMR, platformFails, Close, Settle, podVars

-----------------------------------------------------------------------------

(* The invariant that the other theorems rest on.                          *)
THEOREM InvHolds == Spec => []Inv
  <1>1. Init => Inv
    BY InitInv
  <1>2. Inv /\ [Next]_vars => Inv'
    BY InvStep
  <1> QED  BY <1>1, <1>2, PTL DEF Spec

(* Every variable keeps its type.                                          *)
THEOREM TypeCorrect == Spec => []TypeOK
  <1>1. Inv => TypeOK
    BY DEF Inv
  <1> QED  BY <1>1, InvHolds, PTL

(* What an agent left to be committed survives the success of its pod, for *)
(* any number of pods that push to the same branches.                      *)
THEOREM NothingIsLost == Spec => []WorkSurvives
  <1>1. Inv => WorkSurvives
    <2> SUFFICES ASSUME Inv, NEW r \in Runs, Phase(r) = "Succeeded", ~SelfCommitted(r),
                        NEW c \in clone[r].head \cap Own(r)
                 PROVE  c \in UNION {remote[b] : b \in Branches}
      BY DEF WorkSurvives
    <2>1. stage[r] = "succeeded"
      BY DEF Phase, Inv, TypeOK, Stages, InitCommands, AgentCommands, Ended
    <2> QED  BY <2>1 DEF Inv, Kept
  <1> QED  BY <1>1, InvHolds, PTL

(* The pod of a task leaves the task's base branch alone.                  *)
THEOREM BaseNeverWritten == Spec => BaseIsSafe
  <1>1. Inv /\ [Next]_vars =>
          [\A r \in Runs :
             stage'[r] # stage[r] => remote'[spec[r].base] = remote[spec[r].base]]_vars
    <2> SUFFICES ASSUME Inv, Next, NEW r \in Runs, stage'[r] # stage[r]
                 PROVE  remote'[spec[r].base] = remote[spec[r].base]
      OBVIOUS
    <2>1. TypeOK
      BY DEF Inv
    <2>2. PICK q \in Runs : Schedule(q) \/ Script(q) \/ commandFails(q) \/ Kill(q)
      BY DEF Next, PodNext, People, handleCreatingMR, platformFails, Advance, Merge, Close,
             Settle, podVars
    <2>3. q = r
      BY <2>1, <2>2
         DEF TypeOK, Script, Schedule, gitClone, startContainers, awaitOllama, runAgent,
             commitChanges, pushBranch, commandFails, Kill, Goes
    <2>4. CASE pushBranch(q)
      <3>1. stage[r] = "push" /\ workBranch(r) # spec[r].base
        BY <2>3, <2>4 DEF pushBranch, Inv, Branched, AgentCommands
      <3>2. remote' = remote \/ remote' = [remote EXCEPT ![workBranch(r)] = clone[r].head]
        BY <2>3, <2>4 DEF pushBranch
      <3> QED  BY <2>1, <3>1, <3>2, BranchNames DEF TypeOK
    <2>5. CASE ~pushBranch(q)
      BY <2>2, <2>5
         DEF Script, Schedule, gitClone, startContainers, awaitOllama, runAgent,
             commitChanges, commandFails, Kill
    <2> QED  BY <2>4, <2>5
  <1> QED  BY <1>1, InvHolds, PTL DEF Spec, BaseIsSafe

-----------------------------------------------------------------------------
(* Where requests are opened.                                              *)

LEMMA AddressedIs ==
  ASSUME TypeOK
  PROVE  /\ Addressed[project] \subseteq {project.repo}
         /\ Understood => Addressed[project] = {project.repo}
  <1>1. /\ project.repo \in Repositories /\ project.form \in Forms /\ project \in Projects
        /\ project.platform \in {"github", "gitlab", "bitbucket"}
    BY DeliveryAssumption DEF TypeOK, Project
  <1>2. Addressed[project] =
          Reached(CreatePullRequest(project.platform, URL(project.repo, project.form)), Repositories)
    BY <1>1 DEF Addressed
  <1> DEFINE reached ==
        Reached(CreatePullRequest(project.platform, URL(project.repo, project.form)), Repositories)
  <1>3. Hosted(Repositories)
    BY RepositoriesAssumption DEF Hosted
  <1>4. /\ reached \subseteq {project.repo}
        /\ Kind[project.repo.host] = project.platform
           /\ project.form \in {"https", "https.git", "scp", "scp.git"}
           => reached = {project.repo}
    BY <1>1, <1>3, RequestsReach
  <1> QED  BY <1>2, <1>4 DEF Understood

(* The request of a pod is for its branches, in the repository it cloned.  *)
Bound ==
  \A r \in Runs : requests[r].state # "none" =>
    /\ requests[r].repo = project.repo
    /\ requests[r].source = workBranch(r) /\ requests[r].target = targetBranch(r)
    /\ workBranch(r) # spec[r].base

LEMMA BoundStep ==
  ASSUME Inv, Bound, [Next]_vars
  PROVE  Bound'
  <1> USE DEF Inv, TypeOK
  <1>1. ASSUME UNCHANGED <<spec, requests, project>> PROVE Bound'
    BY <1>1 DEF Bound, workBranch, targetBranch
  <1>2. ASSUME NEW r \in Runs, handleCreatingMR(r) PROVE Bound'
    <2> DEFINE reached == {repo \in Addressed[project] : Acceptable(r, repo)}
               mr == [state |-> "open", repo |-> CHOOSE repo \in reached : TRUE,
                      source |-> workBranch(r), target |-> targetBranch(r)]
    <2>1. CASE reached # {}
      <3>1. requests' = [requests EXCEPT ![r] = mr] /\ project' = project /\ spec' = spec
        BY <1>2, <2>1 DEF handleCreatingMR, podVars
      <3>2. (CHOOSE repo \in reached : TRUE) \in Addressed[project]
        BY <2>1
      <3>3. mr.repo = project.repo
        BY <3>2, AddressedIs
      <3>4. workBranch(r) # spec[r].base
        <4>1. stage[r] = "succeeded"
          BY <1>2 DEF handleCreatingMR, Asks, Phase, Stages, InitCommands, AgentCommands, Ended
        <4> QED  BY <4>1 DEF Branched
      <3>5. mr.source = workBranch(r) /\ mr.target = targetBranch(r)
        OBVIOUS
      <3> HIDE DEF mr
      <3>6. \A q \in Runs : requests'[q] = IF q = r THEN mr ELSE requests[q]
        BY <3>1
      <3>7. \A q \in Runs : workBranch(q)' = workBranch(q) /\ targetBranch(q)' = targetBranch(q)
        BY <3>1 DEF workBranch, targetBranch
      <3> QED  BY <3>1, <3>3, <3>4, <3>5, <3>6, <3>7 DEF Bound
    <2>2. CASE reached = {}
      BY <1>1, <1>2, <2>2 DEF handleCreatingMR, podVars
    <2> QED  BY <2>1, <2>2
  <1>3. ASSUME NEW r \in Runs, NEW state, Settle(r, state) PROVE Bound'
    <2>1. /\ requests[r].state # "none" /\ spec' = spec /\ project' = project
          /\ requests' = [requests EXCEPT ![r].state = state]
      BY <1>3 DEF Settle
    <2>2. \A q \in Runs : /\ requests'[q].state # "none" => requests[q].state # "none"
                           /\ requests'[q].repo = requests[q].repo
                           /\ requests'[q].source = requests[q].source
                           /\ requests'[q].target = requests[q].target
      BY <2>1 DEF MergeRequest
    <2> QED  BY <2>1, <2>2 DEF Bound, workBranch, targetBranch
  <1>4. ASSUME PodNext PROVE spec' = spec
    BY <1>4, PodStepType DEF PodNext
  <1> QED
    BY <1>1, <1>2, <1>3, <1>4 DEF Next, vars, podVars, People, platformFails, Advance, Merge, Close

(* No request is ever for other branches or for another repository.        *)
THEOREM BoundHolds == Spec => [](Inv /\ Bound)
  <1>1. Init => Bound
    BY DEF Init, NoMR, Bound
  <1>2. Inv /\ Bound /\ [Next]_vars => Bound'
    BY BoundStep
  <1> QED  BY <1>1, <1>2, InvHolds, PTL DEF Spec

(* A merge request is only ever opened in the repository that was cloned,  *)
(* whatever the form of its URL and the platform that the task names       *)
(* (parseGitHubRepo, parseGitLabProject).                                  *)
THEOREM OpenedOnlyThere == Spec => []OpenedWhereCloned
  <1>1. Bound => OpenedWhereCloned
    BY DEF Bound, OpenedWhereCloned
  <1> QED  BY <1>1, BoundHolds, PTL

-----------------------------------------------------------------------------
(* What was pushed is offered.                                             *)

(* The work branch of pod r if its task is s.                              *)
WorkOf(r, s) == IF s.work # NoBranch THEN s.work ELSE Generated[r]

(* The branches that tasks start from stand: each asks for its merge into  *)
(* the branch it started from, that branch is the work branch of no pod    *)
(* that gets past its clone, and tasks with one work branch started from   *)
(* one branch.                                                             *)
BasesStand ==
  \A s \in TaskSpecs :
    /\ s.target \in {NoBranch, s.base}
    /\ \A t \in TaskSpecs : \A r \in Runs : \A q \in Runs :
         WorkOf(q, t) # t.base =>
           /\ s.base # WorkOf(q, t)
           /\ WorkOf(r, s) = WorkOf(q, t) => s.base = t.base

(* The base branch of a pod that has cloned it is there.                   *)
Based ==
  \A r \in Runs :
    stage[r] \in {"model-pull", "start", "succeeded"} \union AgentCommands
    => remote[spec[r].base] # {}

(* What a pod has pushed is in its branch, or where that was merged into.  *)
Pushed ==
  \A r \in Runs :
    stage[r] = "succeeded" /\ <<r, "entrypoint">> \in clone[r].head =>
      \/ <<r, "entrypoint">> \in remote[workBranch(r)]
      \/ <<r, "entrypoint">> \in remote[spec[r].base]

SpecsGiven == spec \in [Runs -> TaskSpecs]

Offered == Inv /\ Bound /\ SpecsGiven /\ Based /\ Pushed

LEMMA BranchesApart ==
  ASSUME BasesStand, SpecsGiven, NEW r \in Runs, NEW q \in Runs,
         workBranch(q) # spec[q].base
  PROVE  /\ targetBranch(r) = spec[r].base
         /\ spec[r].base # workBranch(q)
         /\ workBranch(r) = workBranch(q) => spec[r].base = spec[q].base
  <1>1. spec[r] \in TaskSpecs /\ spec[q] \in TaskSpecs
    BY DEF SpecsGiven
  <1>2. workBranch(r) = WorkOf(r, spec[r]) /\ workBranch(q) = WorkOf(q, spec[q])
    BY DEF workBranch, WorkOf
  <1> QED  BY <1>1, <1>2 DEF BasesStand, targetBranch

(* Branches that tasks start from only grow, and what leaves a work branch *)
(* goes there.                                                             *)
LEMMA Grown ==
  ASSUME Based, Pushed, spec' = spec, stage' = stage, clone' = clone,
         \A r \in Runs :
           /\ remote[spec[r].base] \subseteq remote'[spec[r].base]
           /\ remote[workBranch(r)] \subseteq remote'[workBranch(r)] \union remote'[spec[r].base]
  PROVE  Based' /\ Pushed'
  <1>1. \A r \in Runs : workBranch(r)' = workBranch(r)
    BY DEF workBranch
  <1>2. Based'
    BY DEF Based
  <1>3. Pushed'
    <2> SUFFICES ASSUME NEW r \in Runs, stage[r] = "succeeded",
                        <<r, "entrypoint">> \in clone[r].head
                 PROVE  \/ <<r, "entrypoint">> \in remote'[workBranch(r)]
                        \/ <<r, "entrypoint">> \in remote'[spec[r].base]
      BY <1>1 DEF Pushed
    <2> QED  BY DEF Pushed
  <1> QED  BY <1>2, <1>3

(* A step of pod r, after which it is not one of those that have succeeded *)
(* with something pushed, unless what it pushed is in its branch.          *)
LEMMA PodOffers ==
  ASSUME Offered, NEW r \in Runs, NEW to, spec' = spec,
         stage' = [stage EXCEPT ![r] = to],
         \A q \in Runs \ {r} : clone'[q] = clone[q],
         \A b \in Branches : remote[b] \subseteq remote'[b],
         to \in {"model-pull", "start", "succeeded"} \union AgentCommands
           => remote'[spec[r].base] # {},
         to = "succeeded" /\ <<r, "entrypoint">> \in clone'[r].head
           => <<r, "entrypoint">> \in remote'[workBranch(r)]
  PROVE  Based' /\ Pushed'
  <1> USE DEF Offered, Inv, TypeOK
  <1>1. \A q \in Runs : /\ workBranch(q)' = workBranch(q) /\ workBranch(q) \in Branches
                         /\ spec[q].base \in Branches
    BY BranchNames DEF workBranch
  <1>2. \A q \in Runs : stage'[q] = IF q = r THEN to ELSE stage[q]
    OBVIOUS
  <1>3. Based'
    BY <1>1, <1>2 DEF Based
  <1>4. Pushed'
    <2> SUFFICES ASSUME NEW q \in Runs, stage'[q] = "succeeded",
                        <<q, "entrypoint">> \in clone'[q].head
                 PROVE  \/ <<q, "entrypoint">> \in remote'[workBranch(q)]
                        \/ <<q, "entrypoint">> \in remote'[spec[q].base]
      BY <1>1 DEF Pushed
    <2>1. CASE q = r
      BY <1>2, <2>1
    <2>2. CASE q # r
      BY <1>1, <1>2, <2>2 DEF Pushed
    <2> QED  BY <2>1, <2>2
  <1> QED  BY <1>3, <1>4

LEMMA PodsOffer ==
  ASSUME Offered, PodNext
  PROVE  Based' /\ Pushed'
  <1> USE DEF Offered, Inv, TypeOK
  <1>1. PICK r \in Runs : Schedule(r) \/ Script(r) \/ commandFails(r) \/ Kill(r)
    BY DEF PodNext
  <1>2. spec' = spec
    BY <1>1, PodStepType
  <1>3. spec[r].base \in Branches /\ workBranch(r) \in Branches
    BY BranchNames
  <1> USE DEF Goes, AgentCommands
  <1>4. CASE Schedule(r)
    BY <1>2, <1>4, PodOffers DEF Schedule
  <1>5. CASE gitClone(r)
    <2>1. CASE CheckoutWorks(r)
      <3>1. /\ clone' = [clone EXCEPT ![r].head = remote[spec[r].base]]
            /\ stage' = [stage EXCEPT ![r] = AfterClone(r)] /\ remote' = remote
            /\ remote[spec[r].base] # {} /\ AfterClone(r) # "succeeded"
        BY <1>5, <2>1 DEF gitClone, CheckoutWorks, AfterClone
      <3>2. \A q \in Runs \ {r} : clone'[q] = clone[q]
        BY <3>1
      <3> QED  BY <1>2, <3>1, <3>2, PodOffers
    <2>2. CASE ~CheckoutWorks(r)
      BY <1>2, <1>5, <2>2, PodOffers DEF gitClone
    <2> QED  BY <2>1, <2>2
  <1>6. CASE startContainers(r) \/ awaitOllama(r)
    <2>1. PICK to \in {"start", "entrypoint", "agent"} : stage' = [stage EXCEPT ![r] = to]
      BY <1>6 DEF startContainers, awaitOllama
    <2>2. /\ remote' = remote /\ clone' = clone
          /\ stage[r] \in {"start", "model-pull", "entrypoint"}
      BY <1>6 DEF startContainers, awaitOllama
    <2>3. remote[spec[r].base] # {}
      BY <2>2 DEF Based
    <2> QED  BY <1>2, <2>1, <2>2, <2>3, PodOffers
  <1>7. CASE runAgent(r)
    <2>1. /\ stage' = [stage EXCEPT ![r] = "commit"] /\ remote' = remote
          /\ \A q \in Runs \ {r} : clone'[q] = clone[q]
      BY <1>7 DEF runAgent
    <2>2. remote[spec[r].base] # {}
      BY <1>7 DEF runAgent, Based
    <2> QED  BY <1>2, <2>1, <2>2, PodOffers
  <1>8. CASE commitChanges(r)
    <2>1. /\ remote' = remote /\ \A q \in Runs \ {r} : clone'[q] = clone[q]
          /\ stage[r] = "commit"
      BY <1>8 DEF commitChanges
    <2>2. remote[spec[r].base] # {}
      BY <2>1 DEF Based
    <2>3. CASE clone[r].dirty
      <3>1. stage' = [stage EXCEPT ![r] = "push"]
        BY <1>8, <2>3 DEF commitChanges
      <3> QED  BY <1>2, <2>1, <2>2, <3>1, PodOffers
    <2>4. CASE ~clone[r].dirty
      <3>1. stage' = [stage EXCEPT ![r] = "succeeded"] /\ clone' = clone
        BY <1>8, <2>4 DEF commitChanges
      <3>2. <<r, "entrypoint">> \notin clone[r].head
        BY <2>1 DEF Unmade
      <3> QED  BY <1>2, <2>1, <2>2, <3>1, <3>2, PodOffers
    <2> QED  BY <2>3, <2>4
  <1>9. CASE pushBranch(r)
    <2>1. stage[r] = "push" /\ clone' = clone
      BY <1>9 DEF pushBranch
    <2>2. remote[spec[r].base] # {}
      BY <2>1 DEF Based
    <2>3. CASE PushAccepted(r)
      <3>1. /\ remote' = [remote EXCEPT ![workBranch(r)] = clone[r].head]
            /\ stage' = [stage EXCEPT ![r] = "succeeded"]
            /\ remote[workBranch(r)] \subseteq clone[r].head
        BY <1>9, <2>3 DEF pushBranch, PushAccepted
      <3>2. /\ \A b \in Branches : remote[b] \subseteq remote'[b]
            /\ remote'[workBranch(r)] = clone[r].head
        BY <1>3, <3>1
      <3>3. remote'[spec[r].base] # {}
        BY <1>3, <2>2, <3>2
      <3> QED  BY <1>2, <2>1, <3>1, <3>2, <3>3, PodOffers
    <2>4. CASE ~PushAccepted(r)
      BY <1>2, <1>9, <2>1, <2>2, <2>4, PodOffers DEF pushBranch
    <2> QED  BY <2>3, <2>4
  <1>10. CASE commandFails(r) \/ Kill(r)
    <2>1. PICK to \in {"init failed", "failed", "killed"} : stage' = [stage EXCEPT ![r] = to]
      BY <1>10 DEF commandFails, Kill
    <2>2. remote' = remote /\ clone' = clone
      BY <1>10 DEF commandFails, Kill
    <2> QED  BY <1>2, <2>1, <2>2, PodOffers
  <1> QED  BY <1>1, <1>4, <1>5, <1>6, <1>7, <1>8, <1>9, <1>10 DEF Script

(* A merge moves the work branch of its pod to the branch it started from. *)
LEMMA MergeOffers ==
  ASSUME BasesStand, Offered, NEW q \in Runs, Merge(q)
  PROVE  Based' /\ Pushed'
  <1> USE DEF Offered, Inv, TypeOK
  <1> DEFINE from == workBranch(q)
             into == spec[q].base
  <1>1. /\ requests[q].state = "open" /\ spec' = spec /\ stage' = stage /\ clone' = clone
    BY DEF Merge, Settle
  <1>2. from # into
    BY <1>1 DEF Bound
  <1>3. targetBranch(q) = into
    BY <1>2, BranchesApart
  <1>4. requests[q].source = from /\ requests[q].target = into
    BY <1>1, <1>3 DEF Bound
  <1>5. PICK kept \in {{}, remote[from]} :
          remote' = [remote EXCEPT ![into] = @ \union remote[from], ![from] = kept]
    BY <1>4 DEF Merge
  <1>6. from \in Branches /\ into \in Branches
    BY BranchNames
  <1>7. ASSUME NEW r \in Runs
        PROVE  /\ workBranch(r) \in Branches /\ spec[r].base \in Branches
               /\ spec[r].base # from
               /\ workBranch(r) = from => spec[r].base = into
    BY <1>2, BranchesApart, BranchNames
  <1> HIDE DEF from, into
  <1>8. /\ remote'[into] = remote[into] \union remote[from]
        /\ \A b \in Branches \ {from, into} : remote'[b] = remote[b]
    BY <1>2, <1>5, <1>6
  <1>9. ASSUME NEW r \in Runs
        PROVE  /\ remote[spec[r].base] \subseteq remote'[spec[r].base]
               /\ remote[workBranch(r)] \subseteq remote'[workBranch(r)] \union remote'[spec[r].base]
    <2>1. remote[spec[r].base] \subseteq remote'[spec[r].base]
      BY <1>7, <1>8
    <2>2. CASE workBranch(r) = from
      BY <1>7, <1>8, <2>2
    <2>3. CASE workBranch(r) # from
      BY <1>7, <1>8, <2>3
    <2> QED  BY <2>1, <2>2, <2>3
  <1> QED  BY <1>1, <1>9, Grown

LEMMA OfferedStep ==
  ASSUME BasesStand, Offered, [Next]_vars
  PROVE  Offered'
  <1>1. Inv' /\ Bound'
    BY InvStep, BoundStep DEF Offered
  <1>2. ASSUME PodNext PROVE spec' = spec /\ Based' /\ Pushed'
    BY <1>2, PodsOffer, PodStepType DEF PodNext, Offered, Inv
  <1>3. ASSUME UNCHANGED podVars PROVE spec' = spec /\ Based' /\ Pushed'
    <2>1. spec' = spec /\ stage' = stage /\ clone' = clone /\ remote' = remote
      BY <1>3 DEF podVars
    <2> QED  BY <2>1, Grown DEF Offered
  <1>4. ASSUME NEW b \in Branches, Advance(b) PROVE spec' = spec /\ Based' /\ Pushed'
    <2>1. /\ spec' = spec /\ stage' = stage /\ clone' = clone
          /\ remote' = [remote EXCEPT ![b] = @ \union {Others(advances')}]
      BY <1>4 DEF Advance
    <2>2. \A a \in Branches : remote[a] \subseteq remote'[a]
      BY <2>1 DEF Offered, Inv, TypeOK
    <2>3. \A r \in Runs : workBranch(r) \in Branches /\ spec[r].base \in Branches
      BY BranchNames DEF Offered, Inv
    <2> QED  BY <2>1, <2>2, <2>3, Grown DEF Offered
  <1>5. ASSUME NEW r \in Runs, Merge(r) PROVE spec' = spec /\ Based' /\ Pushed'
    BY <1>5, MergeOffers DEF Merge, Settle
  <1>6. spec' = spec /\ Based' /\ Pushed'
    BY <1>2, <1>3, <1>4, <1>5
       DEF Next, vars, podVars, People, handleCreatingMR, platformFails, Close, Settle
  <1>7. SpecsGiven'
    BY <1>6 DEF Offered, SpecsGiven
  <1> QED  BY <1>1, <1>6, <1>7 DEF Offered

LEMMA InitOffered == Init => Offered
  <1> SUFFICES ASSUME Init PROVE Offered
    OBVIOUS
  <1>1. Inv
    BY InitInv
  <1>2. \A r \in Runs : stage[r] = "absent" /\ requests[r].state = "none"
    BY DEF Init, PodInit, NoMR
  <1>3. Bound /\ Based /\ Pushed
    BY <1>2 DEF Bound, Based, Pushed, AgentCommands
  <1>4. SpecsGiven
    BY DEF Init, PodInit, SpecsGiven
  <1> QED  BY <1>1, <1>3, <1>4 DEF Offered

(* Where the branches that tasks start from stand, what a pod has pushed   *)
(* gets its merge request (handleCreatingMR), unless one is open for its   *)
(* branch already or the work has been merged.                             *)
THEOREM WhatIsPushedIsOffered ==
  ASSUME BasesStand
  PROVE  Spec => PushedIsOffered
  <1>1. Init => Offered
    BY InitOffered
  <1>2. Offered /\ [Next]_vars => Offered'
    BY OfferedStep
  <1>3. Offered /\ [Next]_vars =>
          [\A r \in Runs :
             /\ Understood
             /\ verdict[r] # "refused" /\ verdict'[r] = "refused"
             /\ <<r, "entrypoint">> \in clone[r].head
             => \/ OpenFor(r)
                \/ <<r, "entrypoint">> \in remote[targetBranch(r)]]_vars
    <2> SUFFICES ASSUME Offered, Next, NEW r \in Runs, Understood,
                        verdict[r] # "refused", verdict'[r] = "refused",
                        <<r, "entrypoint">> \in clone[r].head,
                        ~OpenFor(r), <<r, "entrypoint">> \notin remote[targetBranch(r)]
                 PROVE  FALSE
      OBVIOUS
    <2> USE DEF Offered, Inv, TypeOK
    <2>1. PICK q \in Runs : handleCreatingMR(q) \/ platformFails(q)
      BY DEF Next, People, Advance, Merge, Close, Settle
    <2>2. handleCreatingMR(r)
      BY <2>1 DEF handleCreatingMR, platformFails
    <2>3. stage[r] = "succeeded"
      BY <2>2 DEF handleCreatingMR, Asks, Phase, Stages, InitCommands, AgentCommands, Ended
    <2>4. ~Acceptable(r, project.repo)
      <3>1. Addressed[project] = {project.repo}
        BY AddressedIs
      <3>2. {repo \in Addressed[project] : Acceptable(r, repo)} = {}
        BY <2>2 DEF handleCreatingMR
      <3> QED  BY <3>1, <3>2
    <2>5. targetBranch(r) = spec[r].base /\ workBranch(r) # spec[r].base
      <3>1. workBranch(r) # spec[r].base
        BY <2>3 DEF Branched
      <3> QED  BY <3>1, BranchesApart
    <2>6. remote[spec[r].base] # {}
      BY <2>3 DEF Based
    <2>7. <<r, "entrypoint">> \in remote[workBranch(r)]
      BY <2>3, <2>5 DEF Pushed
    <2> QED  BY <2>4, <2>5, <2>6, <2>7 DEF Acceptable
  <1> QED  BY <1>1, <1>2, <1>3, PTL DEF Spec, PushedIsOffered
==============================================================================
