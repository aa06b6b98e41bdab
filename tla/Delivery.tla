------------------------------- MODULE Delivery -------------------------------
(***************************************************************************)
(* From the agent's pod to the merge request: agent pods (AgentPod), the   *)
(* operator that asks for a merge request when a pod has succeeded         *)
(* (handleCreatingMR, with the requests of GitOps), the git platform, and  *)
(* the people who merge and close requests and push to the repository.     *)
(* That the request may be repeated or its answer lost is in AgentTask.    *)
(***************************************************************************)
EXTENDS AgentPod, GitOps

CONSTANTS
  Repositories,  \* the repositories there are
  Projects       \* what tasks say of theirs, a subset of Project

VARIABLES
  project,   \* the repository the tasks work on and how they name it
  requests,  \* requests[r]: the merge request opened for r
  verdict,   \* verdict[r]: the answer to the operator's request for r
  advances   \* pushes of others so far

vars == <<podVars, project, requests, verdict, advances>>

Project == [repo: Repositories, form: Forms, platform: {"github", "gitlab", "bitbucket"}]

Verdicts == {"none", "opened", "refused", "unavailable"}

MergeRequest ==
  [state: {"none", "open", "merged", "closed"}, repo: Repositories,
   source: Branches, target: Branches]

NoMR == [state |-> "none", repo |-> CHOOSE p \in Repositories : TRUE,
         source |-> CHOOSE b \in Branches : TRUE, target |-> CHOOSE b \in Branches : TRUE]

ASSUME DeliveryAssumption == Projects \subseteq Project

ASSUME RepositoriesAssumption == \A repo \in Repositories : IsRepository(repo)

(* Every variable has its type, and others push no more than they may.     *)
TypeOK ==
  /\ spec \in [Runs -> TaskSpec]
  /\ stage \in [Runs -> Stages] /\ served \in [Runs -> BOOLEAN]
  /\ clone \in [Runs -> Clone] /\ remote \in [Branches -> SUBSET Commits]
  /\ project \in Projects
  /\ requests \in [Runs -> MergeRequest]
  /\ verdict \in [Runs -> Verdicts]
  /\ advances \in 0..MaxAdvances

Init ==
  /\ PodInit
  /\ project \in Projects
  /\ requests = [r \in Runs |-> NoMR]
  /\ verdict = [r \in Runs |-> "none"]
  /\ advances = 0

-----------------------------------------------------------------------------
(* The platform.                                                           *)

(* The repository that the request for a merge request reaches.            *)
Addressed ==
  [p \in Projects |->
     Reached(CreatePullRequest(p.platform, URL(p.repo, p.form)), Repositories)]

OpenFor(r) ==
  \E q \in Runs : /\ requests[q].state = "open"
                  /\ requests[q].source = workBranch(r)
                  /\ requests[q].target = targetBranch(r)

(* Two branches that exist, with nothing open between them; GitHub wants   *)
(* something new in the source.  The other repositories are mirrors, in    *)
(* which any request is acceptable.                                        *)
Acceptable(r, repo) ==
  repo = project.repo =>
    /\ remote[workBranch(r)] # {} /\ remote[targetBranch(r)] # {}
    /\ workBranch(r) # targetBranch(r) /\ ~OpenFor(r)
    /\ Kind[repo.host] = "github" => ~(remote[workBranch(r)] \subseteq remote[targetBranch(r)])

Asks(r) == Phase(r) = "Succeeded" /\ verdict[r] = "none"

(* handleCreatingMR, with the branches the pod was given: the request is   *)
(* accepted, or refused, or never made.                                    *)
handleCreatingMR(r) ==
  /\ Asks(r)
  /\ LET reached == {repo \in Addressed[project] : Acceptable(r, repo)} IN
     IF reached # {}
     THEN /\ requests' = [requests EXCEPT ![r] =
               [state |-> "open", repo |-> CHOOSE repo \in reached : TRUE,
                source |-> workBranch(r), target |-> targetBranch(r)]]
          /\ verdict' = [verdict EXCEPT ![r] = "opened"]
     ELSE /\ verdict' = [verdict EXCEPT ![r] = "refused"]
          /\ UNCHANGED requests
  /\ UNCHANGED <<podVars, project, advances>>

(* The platform cannot be reached, has an error or refuses the token.      *)
platformFails(r) ==
  /\ Asks(r)
  /\ verdict' = [verdict EXCEPT ![r] = "unavailable"]
  /\ UNCHANGED <<podVars, project, requests, advances>>

-----------------------------------------------------------------------------
(* People.                                                                 *)

(* Someone else's commit on a branch that exists.                          *)
Advance(b) ==
  /\ advances < MaxAdvances
  /\ advances' = advances + 1
  /\ remote[b] # {}
  /\ remote' = [remote EXCEPT ![b] = @ \union {Others(advances')}]
  /\ UNCHANGED <<spec, stage, served, clone, project, requests, verdict>>

Settle(r, state) ==
  /\ requests[r].state = "open"
  /\ requests' = [requests EXCEPT ![r].state = state]
  /\ UNCHANGED <<spec, stage, served, clone, project, verdict, advances>>

(* The merge request of r is merged; its source branch may be deleted.     *)
Merge(r) ==
  LET from == requests[r].source
      into == requests[r].target IN
  /\ Settle(r, "merged")
  /\ requests[r].repo = project.repo
  /\ \E kept \in {{}, remote[from]} :
       remote' = [remote EXCEPT ![into] = @ \union remote[from], ![from] = kept]

Close(r) == Settle(r, "closed") /\ UNCHANGED remote

People == (\E b \in Branches : Advance(b)) \/ (\E r \in Runs : Merge(r) \/ Close(r))

Next ==
  \/ PodNext /\ UNCHANGED <<project, requests, verdict, advances>>
  \/ \E r \in Runs : handleCreatingMR(r) \/ platformFails(r)
  \/ People

Spec == Init /\ [][Next]_vars

(* The kubelet runs the commands of a pod, which end, and the operator     *)
(* asks for the merge request of a pod that has succeeded.                 *)
FairSpec ==
  /\ Spec
  /\ \A r \in Runs :
       /\ WF_vars(Script(r) /\ UNCHANGED <<project, requests, verdict, advances>>)
       /\ WF_vars(handleCreatingMR(r) \/ platformFails(r))

-----------------------------------------------------------------------------
(* Properties.                                                             *)

(* The agent has committed all it did by itself: the entrypoint finds      *)
(* nothing to commit and ends without a push.                              *)
SelfCommitted(r) == clone[r].head \cap Own(r) = {<<r, "agent">>}

(* What an agent did is never lost once its pod has succeeded, unless the  *)
(* agent committed it all by itself: it is in some branch of the           *)
(* repository, whatever other pods push to the same branch and whoever     *)
(* merges and closes what (set -e and the push of the entrypoints).        *)
WorkSurvives ==
  \A r \in Runs :
    Phase(r) = "Succeeded" /\ ~SelfCommitted(r)
    => clone[r].head \cap Own(r) \subseteq UNION {remote[b] : b \in Branches}

(* A pod never writes the branch its task starts from, even when the task  *)
(* names it as its work branch (git checkout -b).                          *)
BaseIsSafe ==
  [][\A r \in Runs :
       stage'[r] # stage[r] => remote'[spec[r].base] = remote[spec[r].base]]_vars

(* The URLs the client understands: its comments name HTTPS and SSH, the   *)
(* latter as git@host:path.                                                *)
Understood ==
  /\ project.form \in {"https", "https.git", "scp", "scp.git"}
  /\ Kind[project.repo.host] = project.platform

(* Work that was pushed gets its merge request: an answer to the contrary  *)
(* means that one was open for the branch already, or that the work has    *)
(* been merged or the branch deleted with it (parseGitHubRepo,             *)
(* parseGitLabProject, handleCreatingMR).                                  *)
PushedIsOffered ==
  [][\A r \in Runs :
       /\ Understood
       /\ verdict[r] # "refused" /\ verdict'[r] = "refused"
       /\ <<r, "entrypoint">> \in clone[r].head
       => \/ OpenFor(r)
          \/ <<r, "entrypoint">> \in remote[targetBranch(r)]]_vars

(* A merge request is only ever opened in the repository that was cloned.  *)
OpenedWhereCloned ==
  \A r \in Runs : requests[r].state # "none" => requests[r].repo = project.repo

(* Every cloud pod that was started ends, and gets an answer if it has     *)
(* succeeded.                                                              *)
RunEnds ==
  \A r \in Runs :
    (stage[r] # "absent" /\ ~Ollama(r)) ~> (Phase(r) = "Failed" \/ verdict[r] # "none")

(* model-pull "waits for the Ollama server, then pulls the model".         *)
ModelPulled ==
  \A r \in Runs : (stage[r] = "model-pull") ~> (stage[r] # "model-pull")
==============================================================================
