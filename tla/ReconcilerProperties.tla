------------------------- MODULE ReconcilerProperties -------------------------
(***************************************************************************)
(* What the controller promises, and what its documentation says of it.    *)
(***************************************************************************)
EXTENDS Reconciler

Entries == DOMAIN obj.status.nodes
Entry(i) == obj.status.nodes[i]

(* The stored object, seen as the abstract run. *)
RL == INSTANCE RunLifecycle WITH
  spec <- obj.spec,
  phase <- obj.status.phase,
  nodes <- [i \in Entries |->
              [name |-> Entry(i).name, phase |-> Entry(i).phase,
               completed |-> Entry(i).completed]]

(* The controller implements the abstract run: through stale caches,        *)
(* conflicting edits, failed writes and crashes, the stored record still    *)
(* moves one action per node and step, within the budget, never while       *)
(* paused, over targets frozen at the first pass, to a phase that is final. *)
ImplementsRun == RL!Spec

(* A node's record is the part of the plan it has been through: nothing is *)
(* skipped or recorded twice, and a completed node has the whole plan.     *)
FollowsPlan ==
  \A i \in Entries :
    LET plan == EffectiveActions(obj.spec)  done == Entry(i).completed
    IN /\ Len(done) <= Len(plan)
       /\ done = SubSeq(plan, 1, Len(done))
       /\ Entry(i).phase = "Completed" => done = plan

(* A recorded Script is backed by a runner pod that succeeded on that node, *)
(* whoever created it and however often the pass was retried.               *)
RecordedScriptRan ==
  \A i \in Entries :
    (\E k \in DOMAIN Entry(i).completed : Entry(i).completed[k] = "Script")
      => Entry(i).name \in succeeded

(* The nodes the run holds cordoned, failed ones apart, are never more than *)
(* the budget, even when a step that cordoned some was lost and redone.     *)
CordonsWithinBudget ==
  LET failed == {Entry(i).name : i \in InPhase(obj.status, "Failed")}
      held == {n \in Node : cordonedBy[n] = "run"} \ failed
  IN ~IsUnseeded(obj) => Cardinality(held) <= effectiveBudget(obj)

(* When every entry of a node is Completed under a plan that ends in *)
(* Uncordon, the run has given the node back.                        *)
CompletedNodesSchedulable ==
  \A n \in Node :
    LET own == {i \in Entries : Entry(i).name = n}
    IN own # {} /\ (\A i \in own : Entry(i).phase = "Completed")
         => cordonedBy[n] # "run"

(* A node whose Script failed stays cordoned, for an operator to look at. *)
FailedScriptLeavesCordon ==
  \A i \in Entries :
    Entry(i).phase = "Failed" /\ HasNext(obj, i) /\ NextAction(obj, i) = "Script"
      => cordonedBy[Entry(i).name] # "none"

(* While a script runs on a node, the node is out of service: no retry of *)
(* the pass that started it outlives the Uncordon that follows.           *)
ScriptsRunOnCordonedNodes ==
  \A n \in Node : pod[n].phase = "Running" => cordonedBy[n] # "none"

(* The script starts at most once on a node. *)
ScriptAtMostOnce == \A n \in Node : runs[n] <= 1

(* A run that people leave unpaused reaches a terminal phase. *)
RunEnds == <>[]~obj.spec.paused => <>IsTerminal(obj)

(* A run is seeded even when it is created paused. *)
EventuallySeeded == <>~IsUnseeded(obj)

(* Pause gates execution, not observability: under a run left paused, the *)
(* ConfigMap comes to hold the body last attached.                        *)
PausedScriptRendered ==
  <>[](obj.spec.paused /\ ~IsTerminal(obj)) /\ []HasScript(obj.spec)
    => <>[](cm = obj.spec.script)

------------------------------------------------------------------------------
(* What the documentation says and the code does not keep.                 *)

(* docs/cli.md: after a pause "nothing new starts"; not even once the pause *)
(* has reached the controller's own cache.                                  *)
NothingStartsWhilePaused ==
  [][\A c \in Controller :
       pc[c] = "step" /\ pc'[c] = "execute" => ~Cached(c).spec.paused]_vars

(* nodemaintenance_types.go: Actions is the list executed against every node. *)
(* When a node is recorded as Completed, it has been through the list that    *)
(* the spec then holds.                                                       *)
CompletedMeansWholePlan ==
  [][\A i \in Entries :
       Entry(i).phase # "Completed" /\ obj'.status.nodes[i].phase = "Completed"
       => obj'.status.nodes[i].completed = EffectiveActions(obj'.spec)]_vars

(* uncordon.go: Uncordon reverses Cordon.  It does not undo what an operator *)
(* did to the node before the run.                                           *)
UncordonReversesCordon ==
  [][\A n \in Node : cordonedBy[n] = "operator" /\ edits' = edits
       => cordonedBy'[n] # "none"]_vars

(* attach_run.go: after an attach "pending nodes pick up the new one". *)
PendingNodesRunNewBody ==
  [][\A n \in Node, i \in Entries :
       /\ Entry(i).name = n /\ Entry(i).phase = "Pending"
       /\ pod[n].phase = "Pending" /\ pod'[n].phase = "Running"
       => pod'[n].body = obj.spec.script]_vars
==============================================================================
