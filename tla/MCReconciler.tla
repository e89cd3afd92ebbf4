----------------------------- MODULE MCReconciler -----------------------------
(***************************************************************************)
(* Instances of the reconciler for TLC: two nodes at most, target lists of *)
(* two entries at most, and the kinds of run the CLI creates.              *)
(***************************************************************************)
EXTENDS ReconcilerProperties

CONSTANTS b1, b2, none

MCBody == {b1, b2, none}

Plain ==
  [paused |-> FALSE, allNodes |-> FALSE, nodeNames |-> <<2, 1>>,
   nodeSelector |-> FALSE, script |-> b1,
   actions |-> <<"Cordon", "Script", "Uncordon">>,
   maxUnavailable |-> 1, atOnce |-> FALSE]

Lists(n) == UNION {[1..k -> Node] : k \in 0..n}
MCTargetLists == Lists(2)

(* kubectl nm create --nodes 2,1 --script b1 *)
PlainRun == {Plain}

(* The same for one node. *)
OneNode == {[Plain EXCEPT !.nodeNames = <<1>>]}

(* The same, created paused and not. *)
OneNodePaused == OneNode \cup {[Plain EXCEPT !.nodeNames = <<1>>, !.paused = TRUE]}

(* Runs that differ in what they target: every node, the nodes of a        *)
(* selector, one node named twice, and nothing at all.                     *)
TargetVariety ==
  {[Plain EXCEPT !.allNodes = TRUE, !.paused = TRUE],
   [Plain EXCEPT !.nodeNames = <<>>, !.nodeSelector = TRUE, !.atOnce = TRUE],
   [Plain EXCEPT !.nodeNames = <<1, 1>>, !.maxUnavailable = 2],
   [Plain EXCEPT !.nodeNames = <<>>]}

(* Runs that differ in their plan: the default around a script, drained    *)
(* nodes without a script, a script the spec does not carry, an empty plan. *)
PlanVariety ==
  {[Plain EXCEPT !.actions = <<>>, !.maxUnavailable = 0],
   [Plain EXCEPT !.actions = <<"Cordon", "Drain", "Uncordon">>],
   [Plain EXCEPT !.script = NoScript],
   [Plain EXCEPT !.actions = <<>>, !.script = NoScript, !.atOnce = TRUE]}

Variety == TargetVariety \cup PlanVariety

(* The same run created again with a drain, for one node. *)
WithDrain ==
  {[Plain EXCEPT !.nodeNames = <<1>>,
                 !.actions = <<"Cordon", "Drain", "Script", "Uncordon">>]}

(* config/samples/all-at-once.yaml: the script alone, on every node at once. *)
ScriptOnly == {[Plain EXCEPT !.actions = <<"Script">>, !.atOnce = TRUE]}

NoSpecs == {}
==============================================================================
