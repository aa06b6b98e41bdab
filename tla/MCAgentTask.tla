----------------------------- MODULE MCAgentTask -----------------------------
(***************************************************************************)
(* Small instances of AgentTask for TLC.                                   *)
(***************************************************************************)
EXTENDS AgentTask

(* A task outside any pool with every secret set, one that waits for a      *)
(* slot, and those that handlePending or handleCreatingMR turn away.       *)
Plain == [valid |-> TRUE, pooled |-> FALSE, apiKeyRef |-> TRUE, gitRef |-> TRUE,
          supported |-> TRUE, branch |-> "work"]
Pooled      == [Plain EXCEPT !.pooled = TRUE, !.branch = "other"]
Invalid     == [Plain EXCEPT !.valid = FALSE]
Tokenless   == [Plain EXCEPT !.gitRef = FALSE]
Unsupported == [Plain EXCEPT !.supported = FALSE]

BothBranches     == {"work", "other"}
PlainOnly        == {Plain}
PlainAndPooled   == {Plain, Pooled}
PooledAndRefused == {Pooled, Invalid, Tokenless, Unsupported}

NoFaults      == {}
CrashOnly     == {"crash"}
Interventions == AllFaults \ {"edit"}
=============================================================================
