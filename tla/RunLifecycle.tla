----------------------------- MODULE RunLifecycle -----------------------------
(***************************************************************************)
(* What a maintenance run promises whoever watches the stored object,      *)
(* whatever caches, retries, conflicts and crashes happen underneath: the  *)
(* targets are resolved once, a paused run records nothing, and one step   *)
(* of the record moves every node in flight, and no more nodes than the    *)
(* budget, by exactly one action of the plan, or fails it.                 *)
(***************************************************************************)
EXTENDS NodeMaintenance, FiniteSets

VARIABLES
  spec,    \* the run's spec
  phase,   \* the run's phase
  nodes    \* per target: its name, its phase and the actions recorded

vars == <<spec, phase, nodes>>

Plan ==
  IF spec.actions = <<>> /\ spec.script # NoScript
    THEN <<"Cordon", "Script", "Uncordon">>
    ELSE spec.actions

Budget ==
  CASE spec.atOnce -> Len(nodes)
    [] ~spec.atOnce /\ spec.maxUnavailable = 0 -> 1
    [] OTHER -> spec.maxUnavailable

InFlight == {i \in DOMAIN nodes : nodes[i].phase = "InProgress"}

Init == phase = "" /\ nodes = <<>>

Names(list) == {list[i].name : i \in DOMAIN list}

(* The targets, in order, chosen by the first selection that is made. *)
Resolve ==
  /\ phase = ""
  /\ \A i \in DOMAIN nodes' :
       nodes'[i] = [name |-> nodes'[i].name, phase |-> "Pending", completed |-> <<>>]
  /\ \A i, j \in DOMAIN nodes' : i < j => nodes'[i].name <= nodes'[j].name
  /\ ~spec.allNodes /\ spec.nodeNames # <<>> =>
       Names(nodes') = {spec.nodeNames[k] : k \in DOMAIN spec.nodeNames}
  /\ ~spec.allNodes /\ spec.nodeNames = <<>> /\ ~spec.nodeSelector => nodes' = <<>>
  /\ phase' = IF nodes' = <<>> THEN "Completed" ELSE "InProgress"
  /\ UNCHANGED spec

(* A node in flight records its next action, or fails, or turns out to have *)
(* nothing left to do.                                                      *)
Moves(old, new) ==
  LET k == Len(old.completed)
  IN /\ old.phase \in {"Pending", "InProgress"}
     /\ new.name = old.name
     /\ \/ new.phase = "Failed" /\ new.completed = old.completed
        \/ k >= Len(Plan) /\ new.phase = "Completed" /\ new.completed = old.completed
        \/ /\ k < Len(Plan)
           /\ new.completed = Append(old.completed, Plan[k + 1])
           /\ new.phase = IF k + 1 = Len(Plan) THEN "Completed" ELSE "InProgress"

Advance ==
  /\ phase = "InProgress"
  /\ ~spec.paused
  /\ DOMAIN nodes' = DOMAIN nodes
  /\ LET moved == {i \in DOMAIN nodes : nodes'[i] # nodes[i]}
     IN /\ InFlight \subseteq moved
        /\ \A i \in moved : Moves(nodes[i], nodes'[i])
        /\ moved # InFlight => Cardinality(moved) <= Budget
  /\ phase' = IF \E i \in DOMAIN nodes : nodes'[i].phase \notin Terminal THEN "InProgress"
              ELSE IF \E i \in DOMAIN nodes : nodes'[i].phase = "Failed" THEN "Failed"
              ELSE "Completed"
  /\ UNCHANGED spec

(* The spec may be edited at any time; the record does not change by it. *)
EditSpec == spec' # spec /\ UNCHANGED <<phase, nodes>>

Next == Resolve \/ Advance \/ EditSpec

Spec == Init /\ [][Next]_vars
==============================================================================
