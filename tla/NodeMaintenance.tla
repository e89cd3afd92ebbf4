--------------------------- MODULE NodeMaintenance ---------------------------
(***************************************************************************)
(* The NodeMaintenance custom resource: what the API server stores and     *)
(* what the controller, its cache and the CLI pass to each other.          *)
(*                                                                         *)
(* Messages, timestamps, the summary counters, images, timeouts and        *)
(* environment variables are left out: nothing in the control flow reads   *)
(* them back.  Node names are naturals, numbered in the lexicographic      *)
(* order the orchestrator sorts them in.                                   *)
(***************************************************************************)
EXTENDS Naturals, Sequences

CONSTANTS
  Node,      \* the node names a run may target
  Body,      \* the script bodies that can be attached
  Empty,     \* the empty script body: a script section with no inline text
  NoScript   \* spec.script is nil

ASSUME NodeAssumption == Node \subseteq Nat
ASSUME BodyAssumption == Empty \in Body /\ NoScript \notin Body

(* The four kinds of action the CRD admits and main.go registers. *)
ActionType == {"Cordon", "Drain", "Script", "Uncordon"}

Phase == {"Pending", "InProgress", "Completed", "Failed"}

(* "" is the phase of a run that has not been seeded. *)
RunPhase == {"", "InProgress", "Completed", "Failed"}
Terminal == {"Completed", "Failed"}

SpecType ==
  [paused : BOOLEAN,
   allNodes : BOOLEAN,
   nodeNames : Seq(Node),
   nodeSelector : BOOLEAN,      \* some selector is set
   script : Body \cup {NoScript},
   actions : Seq(ActionType),
   maxUnavailable : Nat,
   atOnce : BOOLEAN]

NodeStatusType ==
  [name : Node,
   phase : Phase,
   currentAction : ActionType \cup {""},
   completed : Seq(ActionType)]

StatusType == [phase : RunPhase, nodes : Seq(NodeStatusType)]

(* rv is metadata.resourceVersion, which every write of the object bumps. *)
NMType == [rv : Nat, spec : SpecType, status : StatusType]

Unseeded == [phase |-> "", nodes |-> <<>>]
==============================================================================
