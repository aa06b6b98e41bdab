-------------------------------- MODULE GitOps --------------------------------
(***************************************************************************)
(* The client for git platforms (internal/gitops/gitops.go): from the      *)
(* repository URL of a task to the request that opens a merge request.     *)
(*                                                                         *)
(* A URL is a sequence of tokens, the separators that the client looks for *)
(* being tokens of their own.  The answers are those of the platform       *)
(* (Delivery); what is here is where a request goes.                       *)
(***************************************************************************)
EXTENDS Sequences, SequencesExt

(* A repository: the host and the path it has there.                       *)
Repository(host, path) == [host |-> host, path |-> path]

https == <<"https", ":", "/", "/">>

(* The URLs by which git can clone a repository.                           *)
Forms == {"https", "https.git", "scp", "scp.git", "ssh", "slash", "user"}

URL(r, form) ==
  CASE form = "https"     -> https \o <<r.host, "/">> \o r.path
    [] form = "https.git" -> https \o <<r.host, "/">> \o r.path \o <<".git">>
    [] form = "scp"       -> <<"git", "@", r.host, ":">> \o r.path
    [] form = "scp.git"   -> <<"git", "@", r.host, ":">> \o r.path \o <<".git">>
    [] form = "ssh"       -> <<"ssh", ":", "/", "/", "git", "@", r.host, "/">> \o r.path
    [] form = "slash"     -> https \o <<r.host, "/">> \o r.path \o <<"/">>
    [] form = "user"      -> https \o <<"user", "@", r.host, "/">> \o r.path

-----------------------------------------------------------------------------
(* strings.TrimPrefix, strings.TrimSuffix and strings.SplitN(s, sep, 2).   *)

TrimPrefix(s, prefix) ==
  IF IsPrefix(prefix, s) THEN SubSeq(s, Len(prefix) + 1, Len(s)) ELSE s

TrimSuffix(s, suffix) ==
  IF IsSuffix(suffix, s) THEN SubSeq(s, 1, Len(s) - Len(suffix)) ELSE s

(* The two parts, or a single one if there is no sep.                      *)
SplitN2(s, sep) ==
  LET i == SelectInSeq(s, LAMBDA x : x = sep)
  IN  IF i = 0 THEN <<s>> ELSE <<SubSeq(s, 1, i - 1), SubSeq(s, i + 1, Len(s))>>

-----------------------------------------------------------------------------
(* A request: the host it is sent to and the path.  No request is made     *)
(* for a URL that does not parse or a platform that is not supported.      *)
Request(host, path) == [host |-> host, path |-> path]
NoRequest == Request(<<>>, <<>>)

GitHubPulls(owner, repo) ==
  Request(<<"api.github.com">>, <<"repos", "/">> \o owner \o <<"/">> \o repo \o <<"/", "pulls">>)

GitLabMergeRequests(host, encodedPath) ==
  Request(host, <<"api", "v4", "projects">> \o encodedPath \o <<"merge_requests">>)

(* Mutant: owner and repository are what follows the host, whatever host.  *)
parseGitHubRepoAnyHost(url) ==
  LET u == TrimPrefix(TrimPrefix(TrimSuffix(url, <<".git">>), https), <<"git", "@">>)
  IN  SplitN2(SubSeq(u, 3, Len(u)), "/")

(* parseGitHubRepo: owner and repository.                                  *)
parseGitHubRepo(url) ==
  SplitN2(TrimPrefix(TrimPrefix(TrimSuffix(url, <<".git">>),
                                https \o <<"github.com", "/">>),
                     <<"git", "@", "github.com", ":">>), "/")

(* Mutant: the suffix .git stays.                                          *)
parseGitLabProjectUntrimmed(url) ==
  IF IsPrefix(https, url) THEN SplitN2(TrimPrefix(url, https), "/")
  ELSE SplitN2(TrimPrefix(url, <<"git", "@">>), ":")

(* parseGitLabProject: host and path of the project.                       *)
parseGitLabProject(url) ==
  LET u == TrimSuffix(url, <<".git">>)
  IN  IF IsPrefix(https, u) THEN SplitN2(TrimPrefix(u, https), "/")
      ELSE SplitN2(TrimPrefix(u, <<"git", "@">>), ":")

createGitHubPR(url) ==
  LET parts == parseGitHubRepo(url)
  IN  IF Len(parts) # 2 THEN NoRequest ELSE GitHubPulls(parts[1], parts[2])

(* The project path is one segment of the request's path.                  *)
createGitLabMR(url) ==
  LET parts == parseGitLabProject(url)
  IN  IF Len(parts) # 2 THEN NoRequest
      ELSE GitLabMergeRequests(parts[1], ReplaceAll(parts[2], "/", "%2F"))

CreatePullRequest(platform, url) ==
  CASE platform = "github" -> createGitHubPR(url)
    [] platform = "gitlab" -> createGitLabMR(url)
    [] OTHER               -> NoRequest

-----------------------------------------------------------------------------
(* The platforms: github.com has its API on a host of its own, a GitLab    *)
(* server on the same host; "%2F" in a segment stands for "/".             *)
Kind == [h \in {"github.com", "gitlab.com", "ghe.corp"} |->
  CASE h = "github.com" -> "github"
    [] h = "gitlab.com" -> "gitlab"
    [] h = "ghe.corp"   -> "other"]

(* A repository of one of these hosts: its path has an owner, and names on *)
(* platforms have no separators, do not end in .git and are not encoded.   *)
IsRepository(r) ==
  /\ r = Repository(r.host, r.path) /\ r.host \in DOMAIN Kind
  /\ r.path \in Seq(STRING)
  /\ \A i \in DOMAIN r.path : r.path[i] \notin {":", "@", ".git", "%2F"}
  /\ \E i \in DOMAIN r.path : r.path[i] = "/"
  /\ Last(r.path) # "/"

(* The request that opens a merge request in repository r.                 *)
Serves(r) ==
  CASE Kind[r.host] = "github" ->
         Request(<<"api.github.com">>, <<"repos", "/">> \o r.path \o <<"/", "pulls">>)
    [] Kind[r.host] = "gitlab" ->
         Request(<<r.host>>, <<"api", "v4", "projects">>
                              \o ReplaceAll(r.path, "/", "%2F") \o <<"merge_requests">>)
    [] OTHER -> NoRequest

(* The repository of rs that a request reaches; credentials before the     *)
(* host are not part of its name.                                          *)
Reached(req, rs) ==
  {r \in rs : /\ req # NoRequest
              /\ Serves(r).path = req.path
              /\ Serves(r).host = <<Last(req.host)>>}
==============================================================================
