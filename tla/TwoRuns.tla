-------------------------------- MODULE TwoRuns --------------------------------
(***************************************************************************)
(* Two NodeMaintenance objects under one controller, over the same nodes.  *)
(* Each run has its object, ConfigMap and pods; they share the nodes, the  *)
(* work queue's one worker and its process.  The first run is the one of   *)
(* Reconciler, the second an instance of it.                               *)
(***************************************************************************)
EXTENDS ReconcilerProperties

CONSTANT InitialSpecs2   \* the specs the second run may be created with

ASSUME TwoRunsAssumption == InitialSpecs2 \subseteq SpecType

VARIABLES obj2, watch2, queued2, pc2, nm2, todo2, seen2, cm2, pod2, runs2, succeeded2

Second == INSTANCE ReconcilerProperties WITH
  InitialSpecs <- InitialSpecs2,
  obj <- obj2, watch <- watch2, queued <- queued2, pc <- pc2, nm <- nm2, todo <- todo2,
  seen <- seen2, cm <- cm2, pod <- pod2, runs <- runs2, succeeded <- succeeded2

own == <<obj, watch, worker, cm, pod, runs, succeeded>>
own2 == <<obj2, watch2, queued2, pc2, nm2, todo2, seen2, cm2, pod2, runs2, succeeded2>>
bothVars == <<own, own2, cordonedBy, counters>>

BothInit == Init /\ Second!Init

(* The worker takes one key at a time: a pass over one run lasts until it *)
(* has written the status, and the other run waits for it.                *)
ReconcileFirst(c) == pc2[c] = "idle" /\ Reconcile(c) /\ UNCHANGED own2
ReconcileSecond(c) == pc[c] = "idle" /\ Second!Reconcile(c) /\ UNCHANGED own

(* The process takes both runs down with it. *)
CrashBoth(c) == Crash(c) /\ Second!Crash(c)

BothNext ==
  \/ \E c \in Controller :
       \/ ReconcileFirst(c) \/ ReconcileSecond(c) \/ CrashBoth(c)
       \/ (Deliver(c) \/ UpdateFails(c)) /\ UNCHANGED own2
       \/ (Second!Deliver(c) \/ Second!UpdateFails(c)) /\ UNCHANGED own
  \/ (Kubelet \/ People) /\ UNCHANGED own2
  \/ (Second!Kubelet \/ Second!People) /\ UNCHANGED own

(* The work queue is first in, first out: a key that is in it again and    *)
(* again when the worker becomes free is taken in the end.                 *)
BothFairness ==
  \A c \in Controller :
    /\ SF_bothVars(ReconcileFirst(c)) /\ SF_bothVars(ReconcileSecond(c))
    /\ WF_bothVars(Deliver(c) /\ UNCHANGED own2)
    /\ WF_bothVars(Second!Deliver(c) /\ UNCHANGED own)

BothSpec == BothInit /\ [][BothNext]_bothVars
FairBothSpec == BothSpec /\ BothFairness

------------------------------------------------------------------------------
(* Names of nodes all of whose entries in both runs are Completed. *)
BothDone(n) ==
  LET e == {i \in Entries : Entry(i).name = n}
      e2 == {i \in Second!Entries : Second!Entry(i).name = n}
  IN /\ e # {} /\ e2 # {}
     /\ \A i \in e : Entry(i).phase = "Completed"
     /\ \A i \in e2 : Second!Entry(i).phase = "Completed"

(* When both runs have completed a node, one of them has given it back: the *)
(* one that found it cordoned by the other did not cordon it after that     *)
(* other's Uncordon.                                                        *)
GivenBackByBoth == \A n \in Node : BothDone(n) => cordonedBy[n] # "run"

(* The second run is not kept waiting for ever by the first, nor the first  *)
(* by the second: whatever one does with the worker, the other ends.        *)
BothEnd ==
  /\ RunEnds
  /\ Second!RunEnds

------------------------------------------------------------------------------
(* What the documentation says and the code does not keep.                 *)

(* docs/reconcile-flow.md: a node whose Script failed "stays cordoned as a  *)
(* 'do not auto-recover' signal for the operator".  Only people make it     *)
(* schedulable again.                                                       *)
FailedNodeStaysCordoned ==
  [][\A i \in Entries :
       /\ Entry(i).phase = "Failed" /\ HasNext(obj, i) /\ NextAction(obj, i) = "Script"
       /\ cordonedBy[Entry(i).name] = "run" /\ edits' = edits
       => cordonedBy'[Entry(i).name] # "none"]_bothVars
==============================================================================
