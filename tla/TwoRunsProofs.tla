----------------------------- MODULE TwoRunsProofs -----------------------------
(***************************************************************************)
(* Two runs under one controller, for every set of nodes and specs and     *)
(* every bound.                                                            *)
(***************************************************************************)
EXTENDS TwoRuns, CordonProofs

(* What is proved of a run, of the second one. *)
Run2 == INSTANCE CordonProofs WITH
  InitialSpecs <- InitialSpecs2,
  obj <- obj2, watch <- watch2, queued <- queued2, pc <- pc2, nm <- nm2, todo <- todo2,
  seen <- seen2, cm <- cm2, pod <- pod2, runs <- runs2, succeeded <- succeeded2

(* The second run's constants meet the assumptions of the first's. *)
LEMMA Assumed2 == Run2!NodeAssumption /\ Run2!BodyAssumption /\ Run2!ReconcilerAssumption
<1>1. Run2!NodeAssumption /\ Run2!BodyAssumption
  BY NodeAssumption, BodyAssumption
    DEF Run2!NodeAssumption, Run2!BodyAssumption, NodeAssumption, BodyAssumption
<1>2. Run2!NMType = NMType /\ Run2!SpecType = SpecType
  BY DEF Run2!NMType, Run2!SpecType, Run2!StatusType, Run2!NodeStatusType,
    Run2!RunPhase, Run2!Phase, Run2!ActionType,
    NMType, SpecType, StatusType, NodeStatusType, RunPhase, Phase, ActionType
<1>3. Run2!ReconcilerAssumption
  BY <1>2, ReconcilerAssumption, TwoRunsAssumption
    DEF Run2!ReconcilerAssumption, ReconcilerAssumption, TwoRunsAssumption
<1>4. QED  BY <1>1, <1>3

------------------------------------------------------------------------------
(* The two instances of the second run are one.                            *)

LEMMA SameCardinality ==
  ASSUME NEW S
  PROVE  Second!Cardinality(S) = Run2!Cardinality(S)
BY DEF Second!Cardinality, Run2!Cardinality

LEMMA SameAdmits ==
  ASSUME NEW o, NEW P
  PROVE  Second!Admits(o, P) <=> Run2!Admits(o, P)
<1>1. /\ Second!InPhase(o.status, "Pending") = Run2!InPhase(o.status, "Pending")
      /\ Second!InPhase(o.status, "InProgress") = Run2!InPhase(o.status, "InProgress")
  BY DEF Second!InPhase, Run2!InPhase
<1>2. Second!effectiveBudget(o) = Run2!effectiveBudget(o)
  BY DEF Second!effectiveBudget, Run2!effectiveBudget
<1>3. QED  BY <1>1, <1>2, SameCardinality DEF Second!Admits, Run2!Admits

LEMMA SameResolvesTo ==
  ASSUME NEW spec, NEW names
  PROVE  Second!ResolvesTo(spec, names) <=> Run2!ResolvesTo(spec, names)
<1>1. Second!IsListing(names) <=> Run2!IsListing(names)
  BY DEF Second!IsListing, Run2!IsListing
<1>2. Second!Sorted(names) <=> Run2!Sorted(names)
  BY DEF Second!Sorted, Run2!Sorted
<1>3. Second!IsSortedCopy(names, spec.nodeNames) <=> Run2!IsSortedCopy(names, spec.nodeNames)
  BY <1>2, SameCardinality DEF Second!IsSortedCopy, Run2!IsSortedCopy
<1>4. QED  BY <1>1, <1>3 DEF Second!ResolvesTo, Run2!ResolvesTo

(* The reconcile loop outside advanceNode. *)
LEMMA SamePass ==
  ASSUME NEW c
  PROVE  /\ Second!ReturnIfTerminal(c) => Run2!ReturnIfTerminal(c)
         /\ Second!SeedStatus(c) => Run2!SeedStatus(c)
         /\ Second!HoldPaused(c) => Run2!HoldPaused(c)
         /\ Second!BeginStep(c) => Run2!BeginStep(c)
         /\ Second!UpdateStatus(c) => Run2!UpdateStatus(c)
         /\ Second!UpdateConflicts(c) => Run2!UpdateConflicts(c)
         /\ Second!UpdateFails(c) => Run2!UpdateFails(c)
         /\ Second!Crash(c) => Run2!Crash(c)
         /\ Second!Deliver(c) => Run2!Deliver(c)
<1> USE DEF Second!Picked, Second!Cached, Second!IsTerminal, Second!Terminal, Second!IsUnseeded,
  Second!Unseeded, Second!Render, Second!cluster, Second!counters, Second!worker,
  Second!Persisting, Second!IsCurrent, Second!Written, Second!EndPass, Second!Write,
  Second!rollup, Second!InPhase
<1> USE DEF Run2!Picked, Run2!Cached, Run2!IsTerminal, Run2!Terminal, Run2!IsUnseeded,
  Run2!Unseeded, Run2!Render, Run2!cluster, Run2!counters, Run2!worker,
  Run2!Persisting, Run2!IsCurrent, Run2!Written, Run2!EndPass, Run2!Write,
  Run2!rollup, Run2!InPhase
<1>1. /\ Second!ReturnIfTerminal(c) => Run2!ReturnIfTerminal(c)
      /\ Second!HoldPaused(c) => Run2!HoldPaused(c)
  BY DEF Second!ReturnIfTerminal, Second!HoldPaused, Run2!ReturnIfTerminal, Run2!HoldPaused
<1>2. Second!SeedStatus(c) => Run2!SeedStatus(c)
  <2>1. \A names : Second!Seed(names) = Run2!Seed(names)
    BY DEF Second!Seed, Run2!Seed
  <2>2. QED  BY <2>1, SameResolvesTo DEF Second!SeedStatus, Run2!SeedStatus
<1>3. Second!BeginStep(c) => Run2!BeginStep(c)
  <2>1. \A o, P : Second!Promote(o, P) = Run2!Promote(o, P)
    BY DEF Second!Promote, Run2!Promote
  <2>2. QED  BY <2>1, SameAdmits DEF Second!BeginStep, Run2!BeginStep
<1>4. /\ Second!UpdateStatus(c) => Run2!UpdateStatus(c)
      /\ Second!UpdateConflicts(c) => Run2!UpdateConflicts(c)
  BY DEF Second!UpdateStatus, Second!UpdateConflicts, Run2!UpdateStatus, Run2!UpdateConflicts
<1>5. Second!UpdateFails(c) => Run2!UpdateFails(c)
  BY DEF Second!UpdateFails, Run2!UpdateFails
<1>6. Second!Crash(c) => Run2!Crash(c)
  BY DEF Second!Crash, Run2!Crash
<1>7. Second!Deliver(c) => Run2!Deliver(c)
  BY DEF Second!Deliver, Run2!Deliver
<1>8. QED  BY <1>1, <1>2, <1>3, <1>4, <1>5, <1>6, <1>7

LEMMA SameAdvance ==
  ASSUME NEW c, NEW i, Second!Advance(c, i)
  PROVE  Run2!Advance(c, i)
<1> USE DEF Second!At, Second!Target, Second!HasNext, Second!NextAction,
  Second!EffectiveActions, Second!Executing, Second!Continue, Second!Leave, Second!Succeed,
  Second!Fail, Second!Update, Second!Recorded, Second!Completed, Second!cluster, Second!counters
<1> USE DEF Run2!At, Run2!Target, Run2!HasNext, Run2!NextAction,
  Run2!EffectiveActions, Run2!Executing, Run2!Continue, Run2!Leave, Run2!Succeed,
  Run2!Fail, Run2!Update, Run2!Recorded, Run2!Completed, Run2!cluster, Run2!counters
<1>1. \A o, j : /\ Second!Finish(o, j) = Run2!Finish(o, j)
                /\ Second!Start(o, j) = Run2!Start(o, j)
                /\ Second!Complete(o, j) = Run2!Complete(o, j)
                /\ Second!failNode(o, j) = Run2!failNode(o, j)
  BY DEF Second!Finish, Second!Start, Second!Complete, Second!failNode,
    Run2!Finish, Run2!Start, Run2!Complete, Run2!failNode
<1>2. /\ Second!NothingLeft(c, i) => Run2!NothingLeft(c, i)
      /\ Second!GetNode(c, i) => Run2!GetNode(c, i)
      /\ Second!GetNodeFails(c, i) => Run2!GetNodeFails(c, i)
  BY <1>1 DEF Second!NothingLeft, Second!GetNode, Second!GetNodeFails,
    Run2!NothingLeft, Run2!GetNode, Run2!GetNodeFails
<1>3. /\ Second!Cordon(c, i) => Run2!Cordon(c, i)
      /\ Second!Uncordon(c, i) => Run2!Uncordon(c, i)
      /\ Second!Drain(c, i) => Run2!Drain(c, i)
  BY <1>1 DEF Second!Cordon, Second!Uncordon, Second!Drain,
    Run2!Cordon, Run2!Uncordon, Run2!Drain
<1>4. Second!ExecuteFails(c, i) => Run2!ExecuteFails(c, i)
  BY <1>1 DEF Second!ExecuteFails, Run2!ExecuteFails
<1>5. /\ Second!RequireScript(c, i) => Run2!RequireScript(c, i)
      /\ Second!PrepareScript(c, i) => Run2!PrepareScript(c, i)
      /\ Second!PrepareScriptFails(c, i) => Run2!PrepareScriptFails(c, i)
  BY <1>1 DEF Second!RequireScript, Second!PrepareScript, Second!PrepareScriptFails,
    Run2!RequireScript, Run2!PrepareScript, Run2!PrepareScriptFails
<1>6. /\ Second!EnsurePod(c, i) => Run2!EnsurePod(c, i)
      /\ Second!EnsurePodFails(c, i) => Run2!EnsurePodFails(c, i)
  BY <1>1 DEF Second!EnsurePod, Second!EnsurePodFails, Second!Created,
    Run2!EnsurePod, Run2!EnsurePodFails, Run2!Created
<1>7. /\ Second!WaitForPod(c, i) => Run2!WaitForPod(c, i)
      /\ Second!WaitForPodFails(c, i) => Run2!WaitForPodFails(c, i)
      /\ Second!GcPod(c, i) => Run2!GcPod(c, i)
  BY <1>1 DEF Second!WaitForPod, Second!WaitForPodFails, Second!GcPod, Second!NoPod,
    Run2!WaitForPod, Run2!WaitForPodFails, Run2!GcPod, Run2!NoPod
<1>8. QED  BY <1>2, <1>3, <1>4, <1>5, <1>6, <1>7 DEF Second!Advance, Run2!Advance

(* Pods and people. *)
LEMMA SameOutside ==
  Second!Kubelet \/ Second!People => Run2!Kubelet \/ Run2!People
<1>1. Second!Kubelet => Run2!Kubelet
  BY DEF Second!Kubelet, Second!StartPod, Second!FinishPod, Second!worker, Second!counters,
    Run2!Kubelet, Run2!StartPod, Run2!FinishPod, Run2!worker, Run2!counters
<1>2. Second!People => Run2!People
  <2> USE DEF Second!EditSpec, Second!Edit, Second!EditNode, Second!Write, Second!HasScript,
    Second!NoPod, Second!cluster, Second!worker
  <2> USE DEF Run2!EditSpec, Run2!Edit, Run2!EditNode, Run2!Write, Run2!HasScript,
    Run2!NoPod, Run2!cluster, Run2!worker
  <2>1. /\ Second!Pause => Run2!Pause
        /\ Second!Run => Run2!Run
        /\ \A b : Second!Attach(b) => Run2!Attach(b)
        /\ \A s : Second!Apply(s) => Run2!Apply(s)
    BY DEF Second!Pause, Second!Run, Second!Attach, Second!Apply,
      Run2!Pause, Run2!Run, Run2!Attach, Run2!Apply
  <2>2. \A n : /\ Second!OperatorCordon(n) => Run2!OperatorCordon(n)
               /\ Second!OperatorUncordon(n) => Run2!OperatorUncordon(n)
               /\ Second!DeletePod(n) => Run2!DeletePod(n)
    BY DEF Second!OperatorCordon, Second!OperatorUncordon, Second!DeletePod,
      Run2!OperatorCordon, Run2!OperatorUncordon, Run2!DeletePod
  <2>3. QED  BY <2>1, <2>2 DEF Second!People, Run2!People
<1>3. QED  BY <1>1, <1>2
------------------------------------------------------------------------------
(* What the two runs answer for.                                           *)

(* The nodes that each run's stored object has under way, or is about to. *)
Away1 == {Entry(i).name : i \in Reserved(obj)}
Away2 == {Run2!Entry(i).name : i \in Run2!Reserved(obj2)}

(* The one worker is in a pass over one of the runs at most. *)
OneAtATime == \A c \in Controller : pc[c] = "idle" \/ pc2[c] = "idle"

(* The invariant of the composition.  A run that finds a node cordoned by the *)
(* other does not cordon it again, and either one's Uncordon gives it back:   *)
(* so a cordoned node is on the list of one of the two, no matter which.      *)
BothInv(plan, plan2) ==
  /\ TypeOK /\ RunInv /\ BudgetInv(plan, Away2)
  /\ Run2!TypeOK /\ Run2!RunInv /\ Run2!BudgetInv(plan2, Away1)
  /\ OneAtATime

(* The plan and the budget of each run, which the theorems take as fixed. *)
Fixed(plan, most, all) == PlanIs(plan) /\ BudgetIs(most, all)
Fixed2(plan, most, all) == Run2!PlanIs(plan) /\ Run2!BudgetIs(most, all)

LEMMA SameConstants ==
  /\ OneController => Run2!OneController
  /\ Run2!ActionType = ActionType
  /\ \A plan : EndsWithUncordon(plan) => Run2!EndsWithUncordon(plan)
BY DEF OneController, Run2!OneController, ActionType, Run2!ActionType,
  EndsWithUncordon, Run2!EndsWithUncordon

LEMMA AwayKept ==
  ASSUME NEW plan, NEW most, NEW all, Fixed(plan, most, all), Fixed(plan, most, all)',
         obj'.status = obj.status
  PROVE  Away1' = Away1
<1>1. SameBudget(obj', obj)
  BY DEF Fixed, BudgetIs, SameBudget
<1>2. Reserved(obj') = Reserved(obj)
  BY <1>1, SameReserved
<1>3. QED  BY <1>2 DEF Away1, Entry

LEMMA AwayKept2 ==
  ASSUME NEW plan, NEW most, NEW all, Fixed2(plan, most, all), Fixed2(plan, most, all)',
         obj2'.status = obj2.status
  PROVE  Away2' = Away2
<1>1. Run2!SameBudget(obj2', obj2)
  BY DEF Fixed2, Run2!BudgetIs, Run2!SameBudget
<1>2. Run2!Reserved(obj2') = Run2!Reserved(obj2)
  BY <1>1, Assumed2, Run2!SameReserved
<1>3. QED  BY <1>2 DEF Away2, Run2!Entry

(* A step of the first run. *)
LEMMA FirstMoves ==
  ASSUME OneController, NEW plan \in Seq(ActionType), NEW plan2, BothInv(plan, plan2),
         EndsWithUncordon(plan), NEW most, NEW all,
         Fixed(plan, most, all), Fixed(plan, most, all)',
         Next, UNCHANGED own2,
         \/ \A c \in Controller : pc2[c] = "idle"
         \/ Away1' = Away1 /\ \A n \in Node : cordonedBy'[n] = "run" => cordonedBy[n] = "run"
  PROVE  /\ TypeOK' /\ RunInv' /\ BudgetInv(plan, Away2)'
         /\ Run2!TypeOK' /\ Run2!RunInv' /\ Run2!BudgetInv(plan2, Away1)'
<1>1. TypeOK /\ RunInv /\ BudgetInv(plan, Away2) /\ [Next]_vars
  BY DEF BothInv
<1>2. TypeOK' /\ RunInv'
  BY <1>1, TypeStep, RunStep
<1>3. UNCHANGED <<obj2, watch2, queued2, pc2, nm2, todo2, seen2, cm2, pod2, runs2, succeeded2>>
  BY DEF own2
<1>4. PICK X : X = Away2
  OBVIOUS
<1>5. X = Away2'
  BY <1>3, <1>4 DEF Away2, Run2!Entry
<1>6. BudgetInv(plan, X)'
  <2>1. BudgetInv(plan, X)
    BY <1>1, <1>4
  <2>2. PlanIs(plan)' /\ BudgetIs(most, all) /\ BudgetIs(most, all)'
    BY DEF Fixed
  <2>3. QED  BY <1>1, <1>2, <2>1, <2>2, BudgetStep
<1>7. PICK Y, Z : Y = Away1 /\ Z = Away1'
  OBVIOUS
<1>8. Run2!HeldStored(Z)'
  <2>1. SUFFICES ASSUME NEW n \in Node \ Z, cordonedBy'[n] = "run"
                 PROVE  \E i \in Run2!Reserved(obj2') : Run2!Entry(i)'.name = n
    BY DEF Run2!HeldStored
  <2>2. n \notin Away2' => \E i \in Reserved(obj') : Entry(i)'.name = n
    BY <1>5, <1>6, <2>1 DEF BudgetInv, HeldStored
  <2>3. n \in Away2'
    BY <1>7, <2>1, <2>2 DEF Away1
  <2>4. QED  BY <2>3 DEF Away2
<1>9. Run2!TypeOK' /\ Run2!RunInv' /\ Run2!BudgetInv(plan2, Z)'
  <2>1. Run2!TypeOK /\ Run2!RunInv /\ Run2!BudgetInv(plan2, Y)
    BY <1>7 DEF BothInv
  <2>2. cordonedBy' \in [Node -> {"none", "run", "operator"}] /\ Run2!CountersOK'
    BY <1>2 DEF TypeOK, ClusterOK, CountersOK, Run2!CountersOK
  <2>3. UNCHANGED <<obj2, watch2, Run2!worker, cm2, pod2, runs2, succeeded2>>
    BY <1>3 DEF Run2!worker
  <2>4. QED  BY <1>7, <1>8, <2>1, <2>2, <2>3, Assumed2, Run2!OthersStep
<1>10. QED  BY <1>2, <1>5, <1>6, <1>7, <1>9

(* A step of the second run. *)
LEMMA SecondMoves ==
  ASSUME OneController, NEW plan, NEW plan2 \in Seq(ActionType), BothInv(plan, plan2),
         EndsWithUncordon(plan2), NEW most, NEW all,
         Fixed2(plan2, most, all), Fixed2(plan2, most, all)',
         Run2!Next, UNCHANGED own,
         \/ \A c \in Controller : pc[c] = "idle"
         \/ Away2' = Away2 /\ \A n \in Node : cordonedBy'[n] = "run" => cordonedBy[n] = "run"
  PROVE  /\ TypeOK' /\ RunInv' /\ BudgetInv(plan, Away2)'
         /\ Run2!TypeOK' /\ Run2!RunInv' /\ Run2!BudgetInv(plan2, Away1)'
<1>1. /\ Run2!TypeOK /\ Run2!RunInv /\ Run2!BudgetInv(plan2, Away1)
      /\ [Run2!Next]_(Run2!vars)
  BY DEF BothInv
<1>2. Run2!TypeOK' /\ Run2!RunInv'
  BY <1>1, Assumed2, Run2!TypeStep, Run2!RunStep
<1>3. UNCHANGED <<obj, watch, worker, cm, pod, runs, succeeded>>
  BY DEF own
<1>4. PICK X : X = Away1
  OBVIOUS
<1>5. X = Away1'
  BY <1>3, <1>4 DEF Away1, Entry
<1>6. Run2!BudgetInv(plan2, X)'
  <2>1. Run2!BudgetInv(plan2, X)
    BY <1>1, <1>4
  <2>2. Run2!PlanIs(plan2)' /\ Run2!BudgetIs(most, all) /\ Run2!BudgetIs(most, all)'
    BY DEF Fixed2
  <2>3. Run2!OneController /\ Run2!EndsWithUncordon(plan2) /\ plan2 \in Seq(Run2!ActionType)
    BY SameConstants
  <2>4. QED  BY <1>1, <1>2, <2>1, <2>2, <2>3, Assumed2, Run2!BudgetStep
<1>7. PICK Y, Z : Y = Away2 /\ Z = Away2'
  OBVIOUS
<1>8. HeldStored(Z)'
  <2>1. SUFFICES ASSUME NEW n \in Node \ Z, cordonedBy'[n] = "run"
                 PROVE  \E i \in Reserved(obj') : Entry(i)'.name = n
    BY DEF HeldStored
  <2>2. n \notin Away1' => \E i \in Run2!Reserved(obj2') : Run2!Entry(i)'.name = n
    BY <1>5, <1>6, <2>1 DEF Run2!BudgetInv, Run2!HeldStored
  <2>3. n \in Away1'
    BY <1>7, <2>1, <2>2 DEF Away2
  <2>4. QED  BY <2>3 DEF Away1
<1>9. TypeOK' /\ RunInv' /\ BudgetInv(plan, Z)'
  <2>1. TypeOK /\ RunInv /\ BudgetInv(plan, Y)
    BY <1>7 DEF BothInv
  <2>2. cordonedBy' \in [Node -> {"none", "run", "operator"}] /\ CountersOK'
    BY <1>2 DEF Run2!TypeOK, Run2!ClusterOK, Run2!CountersOK, CountersOK
  <2>3. QED  BY <1>3, <1>7, <1>8, <2>1, <2>2, OthersStep
<1>10. QED  BY <1>2, <1>5, <1>6, <1>7, <1>9

(* A step that writes neither object, for both runs at once. *)
LEMMA BothMove ==
  ASSUME OneController, NEW plan \in Seq(ActionType), NEW plan2 \in Seq(ActionType),
         BothInv(plan, plan2), EndsWithUncordon(plan), EndsWithUncordon(plan2),
         NEW most, NEW all, Fixed(plan, most, all), Fixed(plan, most, all)',
         NEW most2, NEW all2, Fixed2(plan2, most2, all2), Fixed2(plan2, most2, all2)',
         [Next]_vars, [Run2!Next]_(Run2!vars), UNCHANGED <<obj, obj2>>
  PROVE  /\ TypeOK' /\ RunInv' /\ BudgetInv(plan, Away2)'
         /\ Run2!TypeOK' /\ Run2!RunInv' /\ Run2!BudgetInv(plan2, Away1)'
<1>1. PICK X, Y : X = Away2 /\ Y = Away1
  OBVIOUS
<1>2. /\ TypeOK /\ RunInv /\ BudgetInv(plan, X)
      /\ Run2!TypeOK /\ Run2!RunInv /\ Run2!BudgetInv(plan2, Y)
  BY <1>1 DEF BothInv
<1>3. X = Away2' /\ Y = Away1'
  BY <1>1 DEF Away1, Away2, Entry, Run2!Entry
<1>4. TypeOK' /\ RunInv' /\ BudgetInv(plan, X)'
  <2>1. TypeOK' /\ RunInv'
    BY <1>2, TypeStep, RunStep
  <2>2. PlanIs(plan)' /\ BudgetIs(most, all) /\ BudgetIs(most, all)'
    BY DEF Fixed
  <2>3. QED  BY <1>2, <2>1, <2>2, BudgetStep
<1>5. Run2!TypeOK' /\ Run2!RunInv' /\ Run2!BudgetInv(plan2, Y)'
  <2>1. Run2!TypeOK' /\ Run2!RunInv'
    BY <1>2, Assumed2, Run2!TypeStep, Run2!RunStep
  <2>2. Run2!PlanIs(plan2)' /\ Run2!BudgetIs(most2, all2) /\ Run2!BudgetIs(most2, all2)'
    BY DEF Fixed2
  <2>3. Run2!OneController /\ Run2!EndsWithUncordon(plan2) /\ plan2 \in Seq(Run2!ActionType)
    BY SameConstants
  <2>4. QED  BY <1>2, <2>1, <2>2, <2>3, Assumed2, Run2!BudgetStep
<1>6. QED  BY <1>3, <1>4, <1>5

LEMMA InitRuns == BothInit => Init /\ Run2!Init
BY DEF BothInit, Second!Init, Run2!Init, Second!Unseeded, Run2!Unseeded,
  Second!NoPod, Run2!NoPod

LEMMA InitBoth ==
  ASSUME BothInit, NEW plan, NEW plan2, PlanIs(plan), Run2!PlanIs(plan2)
  PROVE  BothInv(plan, plan2)
<1>1. Init /\ Run2!Init
  BY InitRuns
<1>2. PICK X, Y : X = Away2 /\ Y = Away1
  OBVIOUS
<1>3. TypeOK /\ RunInv /\ BudgetInv(plan, X)
  BY <1>1, InitType, InitRun, InitBudget
<1>4. Run2!TypeOK /\ Run2!RunInv /\ Run2!BudgetInv(plan2, Y)
  BY <1>1, Assumed2, Run2!InitType, Run2!InitRun, Run2!InitBudget
<1>5. OneAtATime
  BY <1>1 DEF Init, OneAtATime
<1>6. QED  BY <1>2, <1>3, <1>4, <1>5 DEF BothInv

(* A pass takes the worker when the other run does not have it, and only    *)
(* the worker that has a pass under way writes a status.                    *)
LEMMA WorkerTaken ==
  ASSUME OneController, OneAtATime, NEW c \in Controller
  PROVE  /\ pc2[c] = "idle" => \A d \in Controller : pc2[d] = "idle"
         /\ pc[c] = "idle" => \A d \in Controller : pc[d] = "idle"
         /\ UpdateFails(c) => pc2[c] = "idle"
         /\ Run2!UpdateFails(c) => pc[c] = "idle"
<1>1. \A d \in Controller : d = c
  BY DEF OneController
<1>2. UpdateFails(c) => pc[c] # "idle"
  BY DEF UpdateFails, Persisting
<1>3. Run2!UpdateFails(c) => pc2[c] # "idle"
  BY DEF Run2!UpdateFails, Run2!Persisting
<1>4. QED  BY <1>1, <1>2, <1>3 DEF OneAtATime

LEMMA BothStep ==
  ASSUME OneController, NEW plan \in Seq(ActionType), NEW plan2 \in Seq(ActionType),
         BothInv(plan, plan2), EndsWithUncordon(plan), EndsWithUncordon(plan2),
         NEW most, NEW all, Fixed(plan, most, all), Fixed(plan, most, all)',
         NEW most2, NEW all2, Fixed2(plan2, most2, all2), Fixed2(plan2, most2, all2)',
         [BothNext]_bothVars
  PROVE  BothInv(plan, plan2)'
<1> DEFINE Moved == /\ TypeOK' /\ RunInv' /\ BudgetInv(plan, Away2)'
                    /\ Run2!TypeOK' /\ Run2!RunInv' /\ Run2!BudgetInv(plan2, Away1)'
<1>1. TypeOK /\ Run2!TypeOK /\ OneAtATime
  BY DEF BothInv
<1>2. ASSUME NEW c \in Controller, pc2[c] = "idle", Reconcile(c) \/ UpdateFails(c), UNCHANGED own2
      PROVE  Moved /\ OneAtATime'
  <2>1. \A d \in Controller : pc2[d] = "idle"
    BY <1>1, <1>2, WorkerTaken
  <2>2. Next
    BY <1>2 DEF Next, Fault
  <2>3. Moved
    BY <1>2, <2>1, <2>2, FirstMoves
  <2>4. OneAtATime'
    BY <1>2, <2>1 DEF OneAtATime, own2
  <2>5. QED  BY <2>3, <2>4
<1>3. ASSUME NEW c \in Controller, pc[c] = "idle",
             Second!Reconcile(c) \/ Second!UpdateFails(c), UNCHANGED own
      PROVE  Moved /\ OneAtATime'
  <2>1. \A d \in Controller : pc[d] = "idle"
    BY <1>1, <1>3, WorkerTaken
  <2>2. Run2!Next
    BY <1>3, SamePass, SameAdvance DEF Second!Reconcile, Run2!Reconcile, Run2!Next, Run2!Fault
  <2>3. Moved
    BY <1>3, <2>1, <2>2, SecondMoves
  <2>4. OneAtATime'
    BY <1>3, <2>1 DEF OneAtATime, own, worker
  <2>5. QED  BY <2>3, <2>4
<1>4. ASSUME Kubelet \/ People \/ \E c \in Controller : Deliver(c), UNCHANGED own2
      PROVE  Moved /\ OneAtATime'
  <2>1. /\ obj'.status = obj.status /\ UNCHANGED pc
        /\ \A n \in Node : cordonedBy'[n] = "run" => cordonedBy[n] = "run"
    BY <1>1, <1>4, OutsideKeeps
  <2>2. Away1' = Away1
    BY <2>1, AwayKept
  <2>3. Next
    BY <1>4 DEF Next
  <2>4. Moved
    BY <1>4, <2>1, <2>2, <2>3, FirstMoves
  <2>5. OneAtATime'
    BY <1>1, <1>4, <2>1 DEF OneAtATime, own2
  <2>6. QED  BY <2>4, <2>5
<1>5. ASSUME Second!Kubelet \/ Second!People \/ \E c \in Controller : Second!Deliver(c),
             UNCHANGED own
      PROVE  Moved /\ OneAtATime'
  <2>1. Run2!Kubelet \/ Run2!People \/ \E c \in Controller : Run2!Deliver(c)
    BY <1>5, SamePass, SameOutside
  <2>2. /\ obj2'.status = obj2.status /\ UNCHANGED pc2
        /\ \A n \in Node : cordonedBy'[n] = "run" => cordonedBy[n] = "run"
    BY <1>1, <2>1, Assumed2, Run2!OutsideKeeps
  <2>3. Away2' = Away2
    BY <2>2, AwayKept2
  <2>4. Run2!Next
    BY <2>1 DEF Run2!Next
  <2>5. Moved
    BY <1>5, <2>2, <2>3, <2>4, SecondMoves
  <2>6. OneAtATime'
    BY <1>1, <1>5, <2>2 DEF OneAtATime, own, worker
  <2>7. QED  BY <2>5, <2>6
<1>6. ASSUME NEW c \in Controller, CrashBoth(c)
      PROVE  Moved /\ OneAtATime'
  <2>1. Crash(c) /\ Run2!Crash(c)
    BY <1>6, SamePass DEF CrashBoth
  <2>2. Next /\ Run2!Next
    BY <2>1 DEF Next, Fault, Run2!Next, Run2!Fault
  <2>3. UNCHANGED <<obj, obj2>>
    BY <2>1 DEF Crash, Run2!Crash
  <2>4. Moved
    BY <2>2, <2>3, BothMove
  <2>5. \A d \in Controller : d = c
    BY DEF OneController
  <2>6. pc' = [pc EXCEPT ![c] = "idle"] /\ pc \in [Controller -> {"idle", "seed", "step"} \cup Busy]
    BY <1>1, <2>1 DEF Crash, TypeOK, WorkerOK
  <2>7. OneAtATime'
    BY <2>5, <2>6 DEF OneAtATime
  <2>8. QED  BY <2>4, <2>7
<1>7. ASSUME UNCHANGED bothVars
      PROVE  Moved /\ OneAtATime'
  <2>1. UNCHANGED vars /\ UNCHANGED Run2!vars /\ UNCHANGED <<obj, obj2, pc, pc2>>
    BY <1>7 DEF bothVars, own, own2, vars, worker, cluster, counters,
      Run2!vars, Run2!worker, Run2!cluster, Run2!counters
  <2>2. Moved
    BY <2>1, BothMove
  <2>3. OneAtATime'
    BY <1>1, <2>1 DEF OneAtATime
  <2>4. QED  BY <2>2, <2>3
<1>8. Moved /\ OneAtATime'
  <2>1. \A c \in Controller : UpdateFails(c) => pc2[c] = "idle"
    BY <1>1, WorkerTaken
  <2>2. \A c \in Controller : Second!UpdateFails(c) => pc[c] = "idle"
    BY <1>1, WorkerTaken, SamePass
  <2> HIDE DEF Moved
  <2>3. QED
    BY <1>2, <1>3, <1>4, <1>5, <1>6, <1>7, <2>1, <2>2
      DEF BothNext, ReconcileFirst, ReconcileSecond
<1>9. QED  BY <1>8 DEF BothInv

------------------------------------------------------------------------------
(* A node that neither run has to give back is not left cordoned.          *)

LEMMA GivenBack ==
  ASSUME NEW plan, NEW plan2, BothInv(plan, plan2)
  PROVE  GivenBackByBoth
<1>1. SUFFICES ASSUME NEW n \in Node, BothDone(n), cordonedBy[n] = "run"
               PROVE  FALSE
  BY DEF GivenBackByBoth
<1>2. n \in Away1 \/ n \in Away2
  BY <1>1 DEF BothInv, BudgetInv, HeldStored, Away1
<1>3. ASSUME NEW i \in Reserved(obj), Entry(i).name = n PROVE FALSE
  <2>1. i \in Entries /\ Entry(i).phase = "Completed"
    BY <1>1, <1>3 DEF BothDone, Reserved, Entries
  <2>2. \E P \in SUBSET InPhase(obj.status, "Pending") : i \in P
    BY <2>1 DEF Reserved, Entry
  <2>3. QED  BY <2>1, <2>2 DEF InPhase, Entry
<1>4. ASSUME NEW i \in Run2!Reserved(obj2), Run2!Entry(i).name = n PROVE FALSE
  <2>1. /\ Second!Entries = DOMAIN obj2.status.nodes
        /\ \A j : Second!Entry(j) = obj2.status.nodes[j] /\ Run2!Entry(j) = obj2.status.nodes[j]
    BY DEF Second!Entries, Second!Entry, Run2!Entry
  <2>2. i \in DOMAIN obj2.status.nodes /\ obj2.status.nodes[i].phase = "Completed"
    BY <1>1, <1>4, <2>1 DEF BothDone, Run2!Reserved
  <2>3. \E P \in SUBSET Run2!InPhase(obj2.status, "Pending") : i \in P
    BY <2>2 DEF Run2!Reserved
  <2>4. QED  BY <2>2, <2>3 DEF Run2!InPhase
<1>5. QED  BY <1>2, <1>3, <1>4 DEF Away1, Away2

(* Two runs of one controller over the same nodes, each under a plan that     *)
(* ends by giving the node back and a budget that nobody changes: a node that *)
(* both have completed has been given back, whichever of them cordoned it,    *)
(* found it cordoned by the other, or was interrupted by a crash, a conflict  *)
(* or a failed write in between (reconcile loop and Cordon/Uncordon).         *)
THEOREM NodesGivenBackByBoth ==
  ASSUME OneController,
         NEW CONSTANT plan \in Seq(ActionType), EndsWithUncordon(plan),
         NEW CONSTANT plan2 \in Seq(ActionType), EndsWithUncordon(plan2),
         NEW CONSTANT most, NEW CONSTANT all, NEW CONSTANT most2, NEW CONSTANT all2
  PROVE  BothSpec /\ []Fixed(plan, most, all) /\ []Fixed2(plan2, most2, all2)
         => []GivenBackByBoth
<1>1. (BothInit /\ Fixed(plan, most, all) /\ Fixed2(plan2, most2, all2)) => BothInv(plan, plan2)
  BY InitBoth DEF Fixed, Fixed2
<1>2. (/\ BothInv(plan, plan2) /\ [BothNext]_bothVars
       /\ Fixed(plan, most, all) /\ Fixed(plan, most, all)'
       /\ Fixed2(plan2, most2, all2) /\ Fixed2(plan2, most2, all2)')
      => BothInv(plan, plan2)'
  BY BothStep
<1>3. BothInv(plan, plan2) => GivenBackByBoth
  BY GivenBack
<1>4. QED  BY <1>1, <1>2, <1>3, PTL DEF BothSpec

------------------------------------------------------------------------------
(* Each run beside the other is still the abstract run.                    *)

(* A step of the composition is a step of one run that leaves the other's   *)
(* own state alone, or one of both, which is none or takes both down.       *)
LEMMA Interleaved ==
  ASSUME [BothNext]_bothVars
  PROVE  \/ Next /\ UNCHANGED own2
         \/ Run2!Next /\ UNCHANGED own
         \/ [Next]_vars /\ [Run2!Next]_(Run2!vars)
<1>1. CASE UNCHANGED bothVars
  <2>1. UNCHANGED vars /\ UNCHANGED Run2!vars
    BY <1>1 DEF bothVars, own, own2, vars, worker, cluster, counters,
      Run2!vars, Run2!worker, Run2!cluster, Run2!counters
  <2>2. QED  BY <2>1
<1>2. ASSUME NEW c \in Controller, CrashBoth(c)
      PROVE  Next /\ Run2!Next
  BY <1>2, SamePass DEF CrashBoth, Next, Fault, Run2!Next, Run2!Fault
<1>3. ASSUME NEW c \in Controller, Reconcile(c) \/ Deliver(c) \/ UpdateFails(c)
      PROVE  Next
  BY <1>3 DEF Next, Fault
<1>4. ASSUME NEW c \in Controller,
             Second!Reconcile(c) \/ Second!Deliver(c) \/ Second!UpdateFails(c)
      PROVE  Run2!Next
  BY <1>4, SamePass, SameAdvance DEF Second!Reconcile, Run2!Reconcile, Run2!Next, Run2!Fault
<1>5. Kubelet \/ People => Next
  BY DEF Next
<1>6. Second!Kubelet \/ Second!People => Run2!Next
  BY SameOutside DEF Run2!Next
<1>7. QED
  BY <1>1, <1>2, <1>3, <1>4, <1>5, <1>6 DEF BothNext, ReconcileFirst, ReconcileSecond

LEMMA BothRunsStep ==
  ASSUME TypeOK, RunInv, Run2!TypeOK, Run2!RunInv, [BothNext]_bothVars
  PROVE  /\ TypeOK' /\ RunInv' /\ Run2!TypeOK' /\ Run2!RunInv'
         /\ [RL!Next]_(RL!vars) /\ [Run2!RL!Next]_(Run2!RL!vars)
<1>1. ASSUME [Next]_vars
      PROVE  TypeOK' /\ RunInv' /\ [RL!Next]_(RL!vars)
  BY <1>1, TypeStep, RunStep, AbstractRunStep
<1>2. ASSUME [Run2!Next]_(Run2!vars)
      PROVE  Run2!TypeOK' /\ Run2!RunInv' /\ [Run2!RL!Next]_(Run2!RL!vars)
  BY <1>2, Assumed2, Run2!TypeStep, Run2!RunStep, Run2!AbstractRunStep
<1>3. ASSUME Next, UNCHANGED own2
      PROVE  Run2!TypeOK' /\ Run2!RunInv' /\ UNCHANGED Run2!RL!vars
  <2>1. UNCHANGED <<obj2, watch2, Run2!worker, cm2, pod2, runs2, succeeded2>>
    BY <1>3 DEF own2, Run2!worker
  <2>2. cordonedBy' \in [Node -> {"none", "run", "operator"}] /\ Run2!CountersOK'
    BY <1>1, <1>3 DEF TypeOK, ClusterOK, CountersOK, Run2!CountersOK
  <2>3. Run2!TypeOK' /\ Run2!RunInv'
    BY <2>1, <2>2, Assumed2, Run2!OthersKeepRun
  <2>4. UNCHANGED Run2!RL!vars
    BY <2>1 DEF Run2!RL!vars, Run2!Entries, Run2!Entry
  <2>5. QED  BY <2>3, <2>4
<1>4. ASSUME Run2!Next, UNCHANGED own
      PROVE  TypeOK' /\ RunInv' /\ UNCHANGED RL!vars
  <2>1. UNCHANGED <<obj, watch, worker, cm, pod, runs, succeeded>>
    BY <1>4 DEF own
  <2>2. cordonedBy' \in [Node -> {"none", "run", "operator"}] /\ CountersOK'
    BY <1>2, <1>4 DEF Run2!TypeOK, Run2!ClusterOK, Run2!CountersOK, CountersOK
  <2>3. TypeOK' /\ RunInv'
    BY <2>1, <2>2, OthersKeepRun
  <2>4. UNCHANGED RL!vars
    BY <2>1 DEF RL!vars, Entries, Entry
  <2>5. QED  BY <2>3, <2>4
<1>5. QED  BY <1>1, <1>2, <1>3, <1>4, Interleaved

(* Two runs of one controller each remain the abstract run: the passes, faults *)
(* and edits of either, and what it does to the nodes they share, make no      *)
(* record of the other skip, repeat or take back an action, exceed its own     *)
(* budget, move while it is paused or change once it is over.                  *)
THEOREM BothRunsImplemented == BothSpec => ImplementsRun /\ Run2!ImplementsRun
<1>1. BothInit => /\ TypeOK /\ RunInv /\ Run2!TypeOK /\ Run2!RunInv
                  /\ RL!Init /\ Run2!RL!Init
  BY InitRuns, InitType, InitRun, Assumed2, Run2!InitType, Run2!InitRun
<1>2. TypeOK /\ RunInv /\ Run2!TypeOK /\ Run2!RunInv /\ [BothNext]_bothVars
      => /\ TypeOK' /\ RunInv' /\ Run2!TypeOK' /\ Run2!RunInv'
         /\ [RL!Next]_(RL!vars) /\ [Run2!RL!Next]_(Run2!RL!vars)
  BY BothRunsStep
<1>3. QED
  BY <1>1, <1>2, PTL DEF BothSpec, ImplementsRun, RL!Spec, Run2!ImplementsRun, Run2!RL!Spec

------------------------------------------------------------------------------
(* The records of two runs beside each other.                              *)

LEMMA BothTypes == BothSpec => [](TypeOK /\ Run2!TypeOK)
<1>1. BothInit => TypeOK /\ RunInv /\ Run2!TypeOK /\ Run2!RunInv
  BY InitRuns, InitType, InitRun, Assumed2, Run2!InitType, Run2!InitRun
<1>2. TypeOK /\ RunInv /\ Run2!TypeOK /\ Run2!RunInv /\ [BothNext]_bothVars
      => TypeOK' /\ RunInv' /\ Run2!TypeOK' /\ Run2!RunInv'
  BY BothRunsStep
<1>3. QED  BY <1>1, <1>2, PTL DEF BothSpec

(* A Script that the record of either run shows has succeeded on its node in a *)
(* pod of that run: the other run's script does not count for it, though both  *)
(* name the same node and are taken down by the same crashes.                  *)
THEOREM BothRecordsAreTrue == BothSpec => []RecordedScriptRan /\ []Run2!RecordedScriptRan
<1>1. BothInit => RecordsBacked /\ Run2!RecordsBacked
  BY InitRuns, InitBacked, Assumed2, Run2!InitBacked
<1>2. (/\ TypeOK /\ Run2!TypeOK /\ RecordsBacked /\ Run2!RecordsBacked
       /\ [BothNext]_bothVars)
      => RecordsBacked' /\ Run2!RecordsBacked'
  <2> SUFFICES ASSUME TypeOK, Run2!TypeOK, RecordsBacked, Run2!RecordsBacked,
                      [BothNext]_bothVars
               PROVE  RecordsBacked' /\ Run2!RecordsBacked'
    OBVIOUS
  <2>1. [Next]_vars => RecordsBacked'
    BY BackedStep
  <2>2. [Run2!Next]_(Run2!vars) => Run2!RecordsBacked'
    BY Assumed2, Run2!BackedStep
  <2>3. UNCHANGED own => RecordsBacked'
    BY BackedStutter DEF own, worker
  <2>4. UNCHANGED own2 => Run2!RecordsBacked'
    BY Assumed2, Run2!BackedStutter DEF own2
  <2>5. QED  BY <2>1, <2>2, <2>3, <2>4, Interleaved
<1>3. RecordsBacked /\ Run2!RecordsBacked => RecordedScriptRan /\ Run2!RecordedScriptRan
  BY BackedMeansRan, Assumed2, Run2!BackedMeansRan
<1>4. QED  BY <1>1, <1>2, <1>3, BothTypes, PTL DEF BothSpec

(* As long as nobody changes the plan of either, both records are prefixes of  *)
(* their own plans, and a node that a run has completed has all of its plan.   *)
THEOREM BothRecordsFollowPlan ==
  BothSpec /\ [][PlanKept /\ Run2!PlanKept]_bothVars => []FollowsPlan /\ []Run2!FollowsPlan
<1>1. BothInit => FollowsPlan /\ Run2!FollowsPlan
  BY InitRuns, InitFollows, Assumed2, Run2!InitFollows
<1>2. (/\ TypeOK /\ TypeOK' /\ FollowsPlan /\ [RL!Next]_(RL!vars)
       /\ Run2!TypeOK /\ Run2!TypeOK' /\ Run2!FollowsPlan /\ [Run2!RL!Next]_(Run2!RL!vars)
       /\ [PlanKept /\ Run2!PlanKept]_bothVars)
      => FollowsPlan' /\ Run2!FollowsPlan'
  <2>1. [PlanKept /\ Run2!PlanKept]_bothVars => PlanKept /\ Run2!PlanKept
    BY DEF bothVars, own, own2, PlanKept, Run2!PlanKept
  <2>2. QED  BY <2>1, FollowsStep, Assumed2, Run2!FollowsStep
<1>3. BothSpec => [][RL!Next]_(RL!vars) /\ [][Run2!RL!Next]_(Run2!RL!vars)
  BY BothRunsImplemented, PTL DEF ImplementsRun, RL!Spec, Run2!ImplementsRun, Run2!RL!Spec
<1>4. QED  BY <1>1, <1>2, <1>3, BothTypes, PTL DEF BothSpec
==============================================================================
