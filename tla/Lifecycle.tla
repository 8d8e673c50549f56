----------------------------- MODULE Lifecycle -----------------------------
(***************************************************************************)
(* What the documents promise of a contract version, and nothing of how:   *)
(* it is inserted as a Draft, its status moves along the workflow one      *)
(* transition at a time, one version per commit, and an Executed or        *)
(* Superseded version never changes again.                                 *)
(***************************************************************************)
EXTENDS VersionWorkflow

CONSTANT Version
VARIABLE stage

Init == stage = [v \in Version |-> "Absent"]

Insert(v) ==
    /\ stage[v] = "Absent"
    /\ stage' = [stage EXCEPT ![v] = "Draft"]

Move(v) ==
    \E t \in Status : /\ CanTransition(stage[v], t)
                      /\ stage' = [stage EXCEPT ![v] = t]

Next == \E v \in Version : Insert(v) \/ Move(v)

Spec == Init /\ [][Next]_stage
=============================================================================
