----------------------------- MODULE MCDelivery -----------------------------
(***************************************************************************)
(* Small instances of Delivery for TLC.                                    *)
(***************************************************************************)
EXTENDS Delivery, TLC

CONSTANTS r1, r2, main, work

TwoRuns == {r1, r2}
OneRun  == {r1}

(* Both tasks have one name, so both are given the branch work.            *)
SameName == [r \in Runs |-> work]

Task(provider, agent, base, branch) ==
  [provider |-> provider, agent |-> agent, base |-> base, work |-> branch,
   target |-> NoBranch]

(* A task that takes the generated branch, and one that names its base     *)
(* branch as its work branch.                                              *)
CloudTasks ==
  {Task("cloud", a, main, b) : a \in {"claude-code", "aider"}, b \in {NoBranch, main}}

OllamaTasks == {Task("ollama", a, main, NoBranch) : a \in {"aider", "codex"}}

(* A repository and its mirrors on other hosts, and one in a subgroup.     *)
Path   == <<"group", "/", "project">>
Nested == <<"group", "/", "sub", "/", "project">>
OnGitHub     == Repository("github.com", Path)
OnGitLab     == Repository("gitlab.com", Path)
InSubgroup   == Repository("gitlab.com", Nested)
OnEnterprise == Repository("ghe.corp", Path)

AllRepositories == {OnGitHub, OnGitLab, InSubgroup, OnEnterprise}

Named(repo, form, platform) == [repo |-> repo, form |-> form, platform |-> platform]

(* Names the client understands, and some that it does not.                *)
SomeProjects ==
  {Named(OnGitHub, "https.git", "github"), Named(OnGitHub, "scp.git", "github"),
   Named(InSubgroup, "https.git", "gitlab"), Named(InSubgroup, "scp", "gitlab"),
   Named(OnGitHub, "ssh", "github"), Named(OnGitLab, "user", "gitlab"),
   Named(OnEnterprise, "https", "github"), Named(OnGitHub, "https", "bitbucket")}

OneProject == {Named(OnGitLab, "user", "gitlab")}
==============================================================================
