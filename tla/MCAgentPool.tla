----------------------------- MODULE MCAgentPool -----------------------------
(***************************************************************************)
(* Small instances of AgentPool for TLC.                                   *)
(***************************************************************************)
EXTENDS AgentPool, TLC

(* Pools of one and of two slots, and one without a selector.              *)
One         == [max |-> 1, selector |-> TRUE]
Two         == [max |-> 2, selector |-> TRUE]
Selectorless == [max |-> 1, selector |-> FALSE]

OneSlot     == {One}
OneOrTwo    == {One, Two}
WithOrWithout == {One, Selectorless}

(* Tasks that name their pool and carry its label, and tasks that do       *)
(* neither.                                                                *)
Proper  == {[poolRef |-> p, labels |-> {p}] : p \in Pools}
Outside == {[poolRef |-> NoPool, labels |-> {}]}

ProperOrOutside == Proper \union Outside

OneStage  == {"CreatingMR"}
TwoStages == {"Running", "CreatingMR"}

QueuedOnly == {"queued"}
ActiveOnly == {"active"}
NoFields  == {}

SameSecond      == {0}
DistinctSeconds == {1}

NoFaults      == {}
ProcessFaults == {"apiError", "crash"}
UserEdits     == {"relabel", "resize", "drop"}

Anyone == Permutations(Tasks)
=============================================================================
