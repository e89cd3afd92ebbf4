----------------------------- MODULE Orchestrator -----------------------------
(***************************************************************************)
(* The orchestrator's pure decisions, over a NodeMaintenance in memory:    *)
(* which plan a node walks, which nodes a run targets, which are admitted  *)
(* and which phase the run as a whole is in.  Loops over status.nodes are  *)
(* stated by what they establish.                                          *)
(***************************************************************************)
EXTENDS NodeMaintenance, FiniteSets

(* The plan: the explicit actions, or the default around a bare script. *)
EffectiveActions(spec) ==
  IF spec.actions # <<>> THEN spec.actions
  ELSE IF spec.script # NoScript THEN <<"Cordon", "Script", "Uncordon">>
  ELSE <<>>

Sorted(s) == \A i, j \in 1..Len(s) : i < j => s[i] <= s[j]

(* A listing of the cluster, sorted: every node has one name. *)
IsListing(names) == \A i, j \in 1..Len(names) : i < j => names[i] < names[j]

(* Mutant of IsSortedCopy: the copy is not sorted. *)
IsCopyUnsorted(names, of) == names = of

(* sort.Strings on a copy: the same names, as often, in order. *)
IsSortedCopy(names, of) ==
  /\ Sorted(names)
  /\ Len(names) = Len(of)
  /\ \A n \in Node : Cardinality({i \in 1..Len(names) : names[i] = n})
                       = Cardinality({i \in 1..Len(of) : of[i] = n})

(* resolveNodes may return names.  A listing, of every node or of those a *)
(* selector matches, returns whatever nodes the cluster then has.         *)
ResolvesTo(spec, names) ==
  IF spec.allNodes THEN IsListing(names)
  ELSE IF spec.nodeNames # <<>> THEN IsSortedCopy(names, spec.nodeNames)
  ELSE IF spec.nodeSelector THEN IsListing(names)
  ELSE names = <<>>

(* Mutant of Seed: the entries are left without a phase. *)
SeedWithoutPhase(names) ==
  [phase |-> IF names = <<>> THEN "Completed" ELSE "InProgress",
   nodes |-> [i \in 1..Len(names) |->
                [name |-> names[i], phase |-> "",
                 currentAction |-> "", completed |-> <<>>]]]

(* initStatus followed by Init's rollup: every target starts Pending, and *)
(* a run without targets is over.                                         *)
Seed(names) ==
  [phase |-> IF names = <<>> THEN "Completed" ELSE "InProgress",
   nodes |-> [i \in 1..Len(names) |->
                [name |-> names[i], phase |-> "Pending",
                 currentAction |-> "", completed |-> <<>>]]]

InPhase(status, p) == {i \in 1..Len(status.nodes) : status.nodes[i].phase = p}

effectiveBudget(obj) ==
  IF obj.spec.atOnce THEN Len(obj.status.nodes)
  ELSE IF obj.spec.maxUnavailable > 0 THEN obj.spec.maxUnavailable
  ELSE 1

(* Mutant of Admits: > where the code says >=, one node too many. *)
AdmitsOneMore(obj, P) ==
  LET pending == InPhase(obj.status, "Pending")
      inFlight == Cardinality(InPhase(obj.status, "InProgress")) + Cardinality(P)
  IN /\ P \subseteq pending
     /\ \A i \in P, j \in pending : j < i => j \in P
     /\ P # {} => inFlight <= effectiveBudget(obj) + 1
     /\ P # pending => inFlight > effectiveBudget(obj)

(* admit promotes exactly the entries in P: Pending ones, in the order of *)
(* the list, until the budget is used up or none is left.                 *)
Admits(obj, P) ==
  LET pending == InPhase(obj.status, "Pending")
      inFlight == Cardinality(InPhase(obj.status, "InProgress")) + Cardinality(P)
  IN /\ P \subseteq pending
     /\ \A i \in P, j \in pending : j < i => j \in P
     /\ P # {} => inFlight <= effectiveBudget(obj)
     /\ P # pending => inFlight >= effectiveBudget(obj)

Promote(obj, P) ==
  [obj EXCEPT !.status.nodes =
     [i \in 1..Len(obj.status.nodes) |->
        [obj.status.nodes[i] EXCEPT !.phase = IF i \in P THEN "InProgress" ELSE @]]]

(* The next action of entry i, when its plan still has one. *)
HasNext(obj, i) ==
  Len(obj.status.nodes[i].completed) < Len(EffectiveActions(obj.spec))
NextAction(obj, i) ==
  EffectiveActions(obj.spec)[Len(obj.status.nodes[i].completed) + 1]

Update(obj, i, entry) == [obj EXCEPT !.status.nodes[i] = entry]

(* What advanceNode leaves in memory: the entry that had nothing left to do, *)
(* the one whose action is under way, the one that finished its action and   *)
(* the one that failed.                                                      *)
Completed(entry) == [entry EXCEPT !.phase = "Completed", !.currentAction = ""]

Finish(obj, i) == Update(obj, i, Completed(obj.status.nodes[i]))

Start(obj, i) ==
  Update(obj, i, [obj.status.nodes[i] EXCEPT !.currentAction = NextAction(obj, i)])

Recorded(obj, i) ==
  [obj.status.nodes[i] EXCEPT !.completed = Append(@, NextAction(obj, i))]

(* Mutant of Complete: the node is completed one action early. *)
CompleteEarly(obj, i) ==
  LET entry == Recorded(obj, i)
  IN Update(obj, i, IF Len(entry.completed) + 1 < Len(EffectiveActions(obj.spec))
                      THEN entry ELSE Completed(entry))

Complete(obj, i) ==
  LET entry == Recorded(obj, i)
  IN Update(obj, i, IF Len(entry.completed) < Len(EffectiveActions(obj.spec))
                      THEN entry ELSE Completed(entry))

failNode(obj, i) == Update(obj, i, [obj.status.nodes[i] EXCEPT !.phase = "Failed"])

(* rollup: the run is over when no node is Pending or InProgress, and it *)
(* failed if any node did.                                               *)
rollup(obj) ==
  [obj EXCEPT !.status.phase =
     IF InPhase(obj.status, "Pending") \cup InPhase(obj.status, "InProgress") # {}
       THEN "InProgress"
     ELSE IF InPhase(obj.status, "Failed") # {} THEN "Failed"
     ELSE "Completed"]
==============================================================================
