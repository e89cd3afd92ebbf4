------------------------------ MODULE CordonProofs ------------------------------
(***************************************************************************)
(* What a run does to the nodes themselves: how often its script starts,   *)
(* when a node is out of service and how many are, for every set of nodes  *)
(* and specs and every bound.                                              *)
(***************************************************************************)
EXTENDS RunProofs

------------------------------------------------------------------------------
(* Runner pods that nobody deletes.                                        *)

(* With --runner-keep-pods and nobody else deleting pods, a pod is created   *)
(* where there is none, is started once and ends, and nothing comes after.   *)
PodMoves(n) ==
  \/ pod'[n] = pod[n] /\ runs'[n] = runs[n]
  \/ /\ pod[n].phase = "absent" /\ pod'[n].phase = "Pending" /\ runs'[n] = runs[n]
     /\ \E c \in Controller : \E i \in todo[c] : At(c, "pod", i) /\ Target(c, i) = n
  \/ /\ pod[n].phase = "Pending" /\ pod'[n].phase = "Running"
     /\ runs'[n] \in {runs[n], runs[n] + 1}
  \/ /\ pod[n].phase \in {"Pending", "Running"}
     /\ pod'[n].phase \in {"Succeeded", "Failed"} /\ runs'[n] = runs[n]

LEMMA PodsMove ==
  ASSUME TypeOK, KeepPods, "pod" \notin EditKinds, [Next]_vars
  PROVE  \A n \in Node : PodMoves(n)
<1> USE DEF TypeOK
<1> SUFFICES ASSUME NEW n \in Node PROVE PodMoves(n)
  OBVIOUS
<1>1. pod \in [Node -> PodType] /\ runs \in [Node -> 0..RunsCap] /\ pod[n] \in PodType
  BY DEF ClusterOK
<1>2. CASE UNCHANGED <<pod, runs>>
  BY <1>2 DEF PodMoves
<1>3. ASSUME NEW c \in Controller, NEW i \in todo[c], Advance(c, i)
      PROVE  PodMoves(n)
  <2>1. Advance(c, i)
    BY <1>3
  <2>2. UNCHANGED runs
    BY <2>1 DEF Advance, NothingLeft, GetNode, GetNodeFails, Cordon, Uncordon, Drain,
      ExecuteFails, RequireScript, PrepareScript, PrepareScriptFails, EnsurePod,
      EnsurePodFails, WaitForPod, WaitForPodFails, GcPod, cluster
  <2>3. \/ UNCHANGED pod
        \/ /\ pod[Target(c, i)].phase = "absent" /\ At(c, "pod", i)
           /\ pod' = [pod EXCEPT ![Target(c, i)] = Created]
    BY <2>1 DEF Advance, NothingLeft, GetNode, GetNodeFails, Cordon, Uncordon, Drain,
      ExecuteFails, RequireScript, PrepareScript, PrepareScriptFails, EnsurePod,
      EnsurePodFails, WaitForPod, WaitForPodFails, GcPod, cluster
  <2>4. CASE UNCHANGED pod
    BY <2>2, <2>4 DEF PodMoves
  <2>5. CASE /\ pod[Target(c, i)].phase = "absent" /\ At(c, "pod", i)
             /\ pod' = [pod EXCEPT ![Target(c, i)] = Created]
    <3>1. Created.phase = "Pending"
      BY DEF Created
    <3>2. pod'[n] = IF n = Target(c, i) THEN Created ELSE pod[n]
      BY <1>1, <2>5
    <3>3. CASE n = Target(c, i)
      BY <2>2, <2>5, <3>1, <3>2, <3>3 DEF PodMoves
    <3>4. CASE n # Target(c, i)
      BY <2>2, <3>2, <3>4 DEF PodMoves
    <3>5. QED  BY <3>3, <3>4
  <2>6. QED  BY <2>3, <2>4, <2>5
<1>4. CASE \E m \in Node : StartPod(m)
  <2>1. PICK m \in Node : StartPod(m)
    BY <1>4
  <2>2. CASE m = n
    <3>1. pod'[n] = [phase |-> "Running", body |-> cm] /\ pod[n].phase = "Pending"
      BY <1>1, <2>1, <2>2 DEF StartPod
    <3>2. runs'[n] = runs[n] \/ runs'[n] = runs[n] + 1
      BY <1>1, <2>1, <2>2 DEF StartPod
    <3>3. QED  BY <3>1, <3>2 DEF PodMoves
  <2>3. CASE m # n
    BY <1>1, <2>1, <2>3 DEF StartPod, PodMoves
  <2>4. QED  BY <2>2, <2>3
<1>5. CASE \E m \in Node : FinishPod(m)
  <2>1. PICK m \in Node : FinishPod(m)
    BY <1>5
  <2>2. /\ pod[m].phase \in {"Pending", "Running"} /\ runs' = runs
        /\ \/ pod' = [pod EXCEPT ![m] = [pod[m] EXCEPT !.phase = "Succeeded"]]
           \/ pod' = [pod EXCEPT ![m] = [pod[m] EXCEPT !.phase = "Failed"]]
    BY <2>1 DEF FinishPod
  <2>3. CASE m = n
    <3>1. \/ pod'[n] = [pod[n] EXCEPT !.phase = "Succeeded"]
          \/ pod'[n] = [pod[n] EXCEPT !.phase = "Failed"]
      BY <1>1, <2>2, <2>3
    <3>2. pod'[n].phase \in {"Succeeded", "Failed"}
      BY <1>1, <3>1 DEF PodType
    <3>3. QED  BY <2>2, <2>3, <3>2 DEF PodMoves
  <2>4. CASE m # n
    BY <1>1, <2>2, <2>4 DEF PodMoves
  <2>5. QED  BY <2>3, <2>4
<1>6. ASSUME NEW c \in Controller,
             \/ ReturnIfTerminal(c) \/ SeedStatus(c) \/ HoldPaused(c) \/ BeginStep(c)
             \/ UpdateStatus(c) \/ UpdateConflicts(c) \/ UpdateFails(c) \/ Crash(c)
             \/ Deliver(c)
      PROVE  UNCHANGED <<pod, runs>>
  BY <1>6 DEF ReturnIfTerminal, SeedStatus, HoldPaused, BeginStep, UpdateStatus,
    UpdateConflicts, UpdateFails, Crash, Deliver, cluster
<1>7. People => UNCHANGED <<pod, runs>>
  BY DEF People, Pause, Run, Attach, Apply, EditSpec, OperatorCordon, OperatorUncordon,
    EditNode, DeletePod, Edit, cluster
<1>8. UNCHANGED vars => UNCHANGED <<pod, runs>>
  BY DEF vars, cluster
<1>9. QED  BY <1>2, <1>3, <1>4, <1>5, <1>6, <1>7, <1>8 DEF Next, Reconcile, Kubelet, Fault

(* The invariant that carries ScriptAtMostOnce: no script has started on a   *)
(* node whose pod is still to be created or to start.                        *)
StartsCounted ==
  \A n \in Node : /\ runs[n] <= 1
                  /\ pod[n].phase \in {"absent", "Pending"} => runs[n] = 0

LEMMA InitCounted == Init => StartsCounted
<1> SUFFICES ASSUME Init, NEW n \in Node PROVE runs[n] = 0 /\ runs[n] <= 1
  BY DEF StartsCounted
<1>1. runs[n] = 0
  BY DEF Init
<1>2. QED  BY <1>1

(* A script starts at most once on a node, when the run's pods are kept and  *)
(* nobody deletes them: a pod of the run's name is taken as it is, by every  *)
(* retry, by a process that starts again and by every controller.            *)
THEOREM ScriptStartsOnce ==
  ASSUME KeepPods, "pod" \notin EditKinds
  PROVE  Spec => []ScriptAtMostOnce
<1>1. Init => StartsCounted
  BY InitCounted
<1>2. TypeOK /\ StartsCounted /\ [Next]_vars => StartsCounted'
  <2> SUFFICES ASSUME TypeOK, StartsCounted, [Next]_vars, NEW n \in Node
               PROVE  runs'[n] <= 1 /\ (pod'[n].phase \in {"absent", "Pending"} => runs'[n] = 0)
    BY DEF StartsCounted
  <2>1. PodMoves(n)
    BY PodsMove
  <2>2. /\ runs[n] <= 1
        /\ pod[n].phase \in {"absent", "Pending"} => runs[n] = 0
    BY DEF StartsCounted
  <2>3. \/ pod'[n] = pod[n] /\ runs'[n] = runs[n]
        \/ runs[n] = 0 /\ runs'[n] = 0
        \/ runs[n] = 0 /\ runs'[n] \in {0, 0 + 1} /\ pod'[n].phase = "Running"
        \/ runs'[n] = runs[n] /\ pod'[n].phase \in {"Succeeded", "Failed"}
    BY <2>1, <2>2 DEF PodMoves
  <2>4. QED  BY <2>2, <2>3
<1>3. StartsCounted => ScriptAtMostOnce
  BY DEF StartsCounted, ScriptAtMostOnce
<1>4. QED  BY <1>1, <1>2, <1>3, TypeCorrect, PTL DEF Spec
------------------------------------------------------------------------------
(* Where the object, the cached versions and the copies come from.         *)

StoreFlow ==
  \/ obj' = obj
  \/ obj'.rv = obj.rv + 1 /\ obj'.status = obj.status /\ UNCHANGED nm
  \/ /\ obj'.rv = obj.rv + 1 /\ obj'.spec = obj.spec
     /\ \E c \in Controller : /\ Persisting(c) /\ IsCurrent(c) /\ nm'[c] = NoNM
                            /\ obj'.status = Written(c).status

WatchFlow(c) ==
  \/ obj' = obj /\ watch'[c] \in {watch[c], <<obj>>}
  \/ obj' = obj /\ Len(watch[c]) > 1 /\ watch'[c] = Tail(watch[c])
  \/ obj'.rv = obj.rv + 1 /\ watch'[c] = Append(watch[c], obj')

CopyFlow(c) ==
  \/ nm'[c] = NoNM
  \/ nm'[c] = nm[c] /\ pc'[c] = pc[c] /\ todo'[c] = todo[c] /\ seen'[c] = seen[c]
  \/ /\ pc'[c] = "seed" /\ UNCHANGED obj
     /\ \E names \in TargetLists : nm'[c] = [Cached(c) EXCEPT !.status = Seed(names)]
  \/ /\ pc'[c] = "step" /\ UNCHANGED obj /\ ~IsUnseeded(Cached(c))
     /\ \E P \in SUBSET InPhase(Cached(c).status, "Pending") :
          /\ Admits(Cached(c), P)
          /\ nm'[c] = Promote(Cached(c), P)
          /\ todo'[c] = InPhase(nm'[c].status, "InProgress")
  \/ \E i \in todo[c] : Advance(c, i)

(* A step that writes the object is an edit of the spec or the end of a pass *)
(* with a current copy.                                                      *)
LEMMA WriteFlow ==
  ASSUME TypeOK, NEW new \in NMType, Write(new), NEW c \in Controller
  PROVE  obj'.rv = obj.rv + 1 /\ obj'.spec = new.spec /\ obj'.status = new.status /\ WatchFlow(c)
BY WriteFields DEF Write, WatchFlow, TypeOK

(* The reconcile loop outside advanceNode. *)
LEMMA PassFlow ==
  ASSUME TypeOK, NEW c \in Controller,
         \/ ReturnIfTerminal(c) \/ SeedStatus(c) \/ HoldPaused(c) \/ BeginStep(c)
         \/ UpdateStatus(c) \/ UpdateConflicts(c) \/ UpdateFails(c) \/ Crash(c)
         \/ Deliver(c)
  PROVE  StoreFlow /\ CopyFlow(c) /\ \A d \in Controller : WatchFlow(d)
<1> USE DEF TypeOK
<1>1. UNCHANGED <<obj, watch>> => StoreFlow /\ \A d \in Controller : WatchFlow(d)
  BY DEF StoreFlow, WatchFlow
<1>2. CASE ReturnIfTerminal(c) \/ HoldPaused(c)
  BY <1>1, <1>2 DEF ReturnIfTerminal, HoldPaused, CopyFlow, worker
<1>3. CASE SeedStatus(c)
  <2>1. PICK names \in TargetLists :
          nm' = [nm EXCEPT ![c] = [Cached(c) EXCEPT !.status = Seed(names)]]
    BY <1>3 DEF SeedStatus
  <2>2. nm'[c] = [Cached(c) EXCEPT !.status = Seed(names)]
    BY <2>1 DEF WorkerOK
  <2>3. pc'[c] = "seed" /\ UNCHANGED <<obj, watch>>
    BY <1>3 DEF SeedStatus, WorkerOK
  <2>4. QED  BY <1>1, <2>2, <2>3 DEF CopyFlow
<1>4. CASE BeginStep(c)
  <2>1. PICK P \in SUBSET InPhase(Cached(c).status, "Pending") :
          /\ Admits(Cached(c), P)
          /\ nm' = [nm EXCEPT ![c] = Promote(Cached(c), P)]
          /\ todo' = [todo EXCEPT ![c] = InPhase(nm'[c].status, "InProgress")]
    BY <1>4 DEF BeginStep
  <2>2. nm'[c] = Promote(Cached(c), P) /\ todo'[c] = InPhase(nm'[c].status, "InProgress")
    BY <2>1 DEF WorkerOK
  <2>3. pc'[c] = "step" /\ UNCHANGED <<obj, watch>> /\ ~IsUnseeded(Cached(c))
    BY <1>4 DEF BeginStep, WorkerOK
  <2>4. QED  BY <1>1, <2>1, <2>2, <2>3 DEF CopyFlow
<1>5. CASE UpdateStatus(c) \/ UpdateConflicts(c) \/ UpdateFails(c)
  <2>1. Persisting(c) /\ nm'[c] = NoNM
    BY <1>5 DEF UpdateStatus, UpdateConflicts, UpdateFails, EndPass, WorkerOK
  <2>2. \/ UNCHANGED <<obj, watch>>
        \/ IsCurrent(c) /\ Write([obj EXCEPT !.status = Written(c).status])
    BY <1>5 DEF UpdateStatus, UpdateConflicts, UpdateFails
  <2>3. CASE IsCurrent(c) /\ Write([obj EXCEPT !.status = Written(c).status])
    <3> DEFINE new == [obj EXCEPT !.status = Written(c).status]
    <3>1. new \in NMType /\ new.spec = obj.spec /\ new.status = Written(c).status
      BY <2>1, WrittenType DEF NMType, StoreOK
    <3> HIDE DEF new
    <3>2. Write(new)
      BY <2>3 DEF new
    <3>3. QED  BY <2>1, <2>3, <3>1, <3>2, WriteFlow DEF StoreFlow, CopyFlow
  <2>4. QED  BY <1>1, <2>1, <2>2, <2>3 DEF CopyFlow
<1>6. CASE Crash(c)
  <2>1. obj' = obj /\ nm'[c] = NoNM
    BY <1>6 DEF Crash, WorkerOK
  <2>2. \A d \in Controller : watch'[d] \in {watch[d], <<obj>>}
    BY <1>6 DEF Crash, StoreOK
  <2>3. QED  BY <2>1, <2>2 DEF StoreFlow, WatchFlow, CopyFlow
<1>7. CASE Deliver(c)
  <2>1. /\ obj' = obj /\ nm'[c] = nm[c] /\ pc'[c] = pc[c] /\ todo'[c] = todo[c]
        /\ seen'[c] = seen[c]
    BY <1>7 DEF Deliver
  <2>2. \A d \in Controller : watch'[d] = IF d = c THEN Tail(watch[c]) ELSE watch[d]
    BY <1>7 DEF Deliver, StoreOK
  <2>3. Len(watch[c]) > 1
    BY <1>7 DEF Deliver
  <2>4. QED  BY <2>1, <2>2, <2>3 DEF StoreFlow, WatchFlow, CopyFlow
<1>8. QED  BY <1>2, <1>3, <1>4, <1>5, <1>6, <1>7

(* Every step. *)
LEMMA Flow ==
  ASSUME TypeOK, [Next]_vars
  PROVE  StoreFlow /\ \A c \in Controller : WatchFlow(c) /\ CopyFlow(c)
<1> USE DEF TypeOK
<1>1. ASSUME UNCHANGED <<obj, watch, pc, nm, todo, seen>>
      PROVE  StoreFlow /\ \A c \in Controller : WatchFlow(c) /\ CopyFlow(c)
  BY <1>1 DEF StoreFlow, WatchFlow, CopyFlow
<1>2. CASE UNCHANGED vars \/ Kubelet
  <2>1. UNCHANGED <<obj, watch, pc, nm, todo, seen>>
    BY <1>2 DEF vars, worker, Kubelet, StartPod, FinishPod
  <2>2. QED  BY <1>1, <2>1
<1>3. ASSUME NEW c \in Controller, Reconcile(c) \/ Deliver(c) \/ UpdateFails(c) \/ Crash(c)
      PROVE  StoreFlow /\ \A d \in Controller : WatchFlow(d) /\ CopyFlow(d)
  <2>1. \A d \in Controller \ {c} : CopyFlow(d)
    BY <1>3, OthersKept DEF CopyFlow
  <2>2. CASE \E i \in todo[c] : Advance(c, i)
    <3>1. UNCHANGED <<obj, watch>>
      BY <2>2, AdvanceShape
    <3>2. QED  BY <2>1, <2>2, <3>1 DEF StoreFlow, WatchFlow, CopyFlow
  <2>3. QED  BY <1>3, <2>1, <2>2, PassFlow DEF Reconcile
<1>4. CASE People
  <2>1. UNCHANGED <<nm, pc, todo, seen>>
    BY <1>4 DEF People, Pause, Run, Attach, Apply, EditSpec, OperatorCordon,
      OperatorUncordon, EditNode, DeletePod, Edit, worker
  <2>2. \A c \in Controller : CopyFlow(c)
    BY <2>1 DEF CopyFlow
  <2>3. CASE UNCHANGED <<obj, watch>>
    BY <1>1, <2>1, <2>3
  <2>4. ASSUME NEW kind, NEW s \in SpecType, EditSpec(kind, s)
        PROVE  StoreFlow /\ \A c \in Controller : WatchFlow(c)
    <3> DEFINE new == [obj EXCEPT !.spec = s]
    <3>1. new \in NMType /\ new.status = obj.status
      BY <2>4 DEF NMType, StoreOK
    <3> HIDE DEF new
    <3>2. Write(new)
      BY <2>4 DEF EditSpec, new
    <3>3. obj'.rv = obj.rv + 1 /\ obj'.status = obj.status
      BY <3>1, <3>2, WriteFields
    <3>4. QED  BY <2>1, <3>1, <3>2, <3>3, WriteFlow DEF StoreFlow
  <2>5. \/ UNCHANGED <<obj, watch>>
        \/ \E kind : \E s \in SpecType : EditSpec(kind, s)
    <3>1. obj.spec \in SpecType
      BY DEF StoreOK, NMType
    <3>2. ASSUME Pause PROVE \E kind : \E s \in SpecType : EditSpec(kind, s)
      <4>1. [obj.spec EXCEPT !.paused = TRUE] \in SpecType
        BY <3>1 DEF SpecType
      <4>2. QED  BY <3>2, <4>1 DEF Pause
    <3>3. ASSUME Run PROVE \E kind : \E s \in SpecType : EditSpec(kind, s)
      <4>1. [obj.spec EXCEPT !.paused = FALSE] \in SpecType
        BY <3>1 DEF SpecType
      <4>2. QED  BY <3>3, <4>1 DEF Run
    <3>4. ASSUME NEW b \in Body, Attach(b) PROVE \E kind : \E s \in SpecType : EditSpec(kind, s)
      <4>1. [obj.spec EXCEPT !.script = b] \in SpecType
        BY <3>1 DEF SpecType
      <4>2. QED  BY <3>4, <4>1 DEF Attach
    <3>5. ASSUME NEW s \in ApplySpecs, Apply(s) PROVE \E kind : \E t \in SpecType : EditSpec(kind, t)
      <4>1. s \in SpecType
        BY ReconcilerAssumption DEF ReconcilerAssumption
      <4>2. QED  BY <3>5, <4>1 DEF Apply
    <3>6. ASSUME NEW n \in Node, OperatorCordon(n) \/ OperatorUncordon(n) \/ DeletePod(n)
          PROVE  UNCHANGED <<obj, watch>>
      BY <3>6 DEF OperatorCordon, OperatorUncordon, EditNode, DeletePod
    <3>7. QED  BY <1>4, <3>2, <3>3, <3>4, <3>5, <3>6 DEF People
  <2>6. QED  BY <2>2, <2>3, <2>4, <2>5
<1>5. QED  BY <1>2, <1>3, <1>4 DEF Next, Fault
(* Every version on its way to a cache was one before, or is the object. *)
LEMMA WatchElements ==
  ASSUME TypeOK, NEW c \in Controller, WatchFlow(c), NEW k \in DOMAIN watch'[c]
  PROVE  watch'[c][k] = obj' \/ \E j \in DOMAIN watch[c] : watch'[c][k] = watch[c][j]
<1>1. watch[c] \in Seq(NMType) /\ watch[c] # <<>>
  BY DEF TypeOK, StoreOK
<1>2. Len(watch[c]) \in Nat /\ DOMAIN watch[c] = 1..Len(watch[c])
  BY <1>1, LenProperties
<1>3. CASE watch'[c] = watch[c]
  BY <1>3
<1>4. CASE obj' = obj /\ watch'[c] = <<obj>>
  <2>1. k \in DOMAIN <<obj>>
    BY <1>4
  <2>2. <<obj>>[k] = obj
    BY <2>1
  <2>3. QED  BY <1>4, <2>2
<1>5. CASE watch'[c] = Tail(watch[c])
  <2>1. DOMAIN Tail(watch[c]) = 1..(Len(watch[c]) - 1)
        /\ \A j \in 1..(Len(watch[c]) - 1) : Tail(watch[c])[j] = watch[c][j + 1]
    BY <1>1, <1>2, HeadTailProperties, LenProperties
  <2>2. k \in 1..(Len(watch[c]) - 1) /\ k + 1 \in 1..Len(watch[c])
    BY <1>2, <1>5, <2>1
  <2>3. QED  BY <1>2, <1>5, <2>1, <2>2
<1>6. CASE watch'[c] = Append(watch[c], obj')
  <2>1. /\ DOMAIN Append(watch[c], obj') = 1..(Len(watch[c]) + 1)
        /\ \A j \in 1..Len(watch[c]) : Append(watch[c], obj')[j] = watch[c][j]
        /\ Append(watch[c], obj')[Len(watch[c]) + 1] = obj'
    BY <1>1, <1>2
  <2>2. k \in 1..(Len(watch[c]) + 1)
    BY <1>6, <2>1
  <2>3. k \in 1..Len(watch[c]) \/ k = Len(watch[c]) + 1
    BY <1>2, <2>2
  <2>4. QED  BY <1>2, <1>6, <2>1, <2>3
<1>7. QED  BY <1>3, <1>4, <1>5, <1>6 DEF WatchFlow

LEMMA CachedElement ==
  ASSUME TypeOK, NEW c \in Controller
  PROVE  1 \in DOMAIN watch[c] /\ Cached(c) = watch[c][1]
<1>1. watch[c] \in Seq(NMType) /\ watch[c] # <<>>
  BY DEF TypeOK, StoreOK
<1>2. QED  BY <1>1, EmptySeq, LenProperties DEF Cached

------------------------------------------------------------------------------
(* Records that are sound in every version and copy of the object.         *)

(* Entry e has been through action a. *)
Has(e, a) == \E k \in DOMAIN e.completed : e.completed[k] = a

(* The entry's record is a part of the plan, not the whole of it while the *)
(* entry is under way; its node is in H once it is recorded as cordoned    *)
(* and in F once its script is recorded.                                   *)
EntrySound(e, plan, H, F) ==
  /\ Follows(e.completed, plan)
  /\ e.phase \in {"Pending", "InProgress"} /\ plan # <<>> => Len(e.completed) < Len(plan)
  /\ Has(e, "Cordon") => e.name \in H
  /\ Has(e, "Script") => e.name \in F

Sound(o, plan, H, F) ==
  /\ EffectiveActions(o.spec) = plan
  /\ \A i \in DOMAIN o.status.nodes : EntrySound(o.status.nodes[i], plan, H, F)

AllSound(plan, H, F) ==
  /\ Sound(obj, plan, H, F)
  /\ \A c \in Controller :
       /\ \A k \in DOMAIN watch[c] : Sound(watch[c][k], plan, H, F)
       /\ nm[c] # NoNM => Sound(nm[c], plan, H, F)

LEMMA SoundGrows ==
  ASSUME NEW o, NEW plan, NEW H, NEW F, NEW H2, NEW F2,
         H \subseteq H2, F \subseteq F2, Sound(o, plan, H, F)
  PROVE  Sound(o, plan, H2, F2)
BY DEF Sound, EntrySound

LEMMA SoundByEntries ==
  ASSUME NEW o, NEW p, NEW plan, NEW H, NEW F, Sound(o, plan, H, F),
         p.status.nodes = o.status.nodes, EffectiveActions(p.spec) = plan
  PROVE  Sound(p, plan, H, F)
BY DEF Sound

LEMMA SoundUpdate ==
  ASSUME NEW o \in NMType, NEW i \in DOMAIN o.status.nodes, NEW e \in NodeStatusType,
         NEW plan, NEW H, NEW F, Sound(o, plan, H, F), EntrySound(e, plan, H, F)
  PROVE  Sound(Update(o, i, e), plan, H, F)
<1>1. LET u == Update(o, i, e)
      IN /\ DOMAIN u.status.nodes = DOMAIN o.status.nodes
         /\ \A j \in DOMAIN o.status.nodes :
              u.status.nodes[j] = IF j = i THEN e ELSE o.status.nodes[j]
         /\ u.spec = o.spec
  BY UpdateType
<1>2. QED  BY <1>1 DEF Sound

(* A sound record stays sound with the next action of the plan, if the node *)
(* is where a Cordon or a Script says it is.                                *)
LEMMA SoundRecorded ==
  ASSUME NEW plan \in Seq(ActionType), NEW H, NEW F,
         NEW d \in NodeStatusType, EntrySound(d, plan, H, F),
         Len(d.completed) < Len(plan),
         NEW e \in NodeStatusType, e.name = d.name,
         e.completed = Append(d.completed, plan[Len(d.completed) + 1]),
         e.phase = IF Len(d.completed) + 1 = Len(plan) THEN "Completed" ELSE d.phase,
         plan[Len(d.completed) + 1] = "Cordon" => d.name \in H,
         plan[Len(d.completed) + 1] = "Script" => d.name \in F
  PROVE  EntrySound(e, plan, H, F)
<1> DEFINE k == Len(d.completed)
           a == plan[k + 1]
<1>1. d.completed \in Seq(ActionType) /\ k \in Nat /\ Len(plan) \in Nat
  BY LenProperties DEF NodeStatusType
<1>2. k + 1 \in 1..Len(plan)
  BY <1>1
<1>3. a \in ActionType
  BY <1>2, ElementOfSeq
<1>4. /\ Len(e.completed) = k + 1
      /\ DOMAIN e.completed = 1..(k + 1) /\ DOMAIN d.completed = 1..k
      /\ \A j \in 1..k : e.completed[j] = d.completed[j]
      /\ e.completed[k + 1] = a
  BY <1>1, <1>3, AppendProperties, LenProperties
<1>5. Follows(e.completed, plan)
  BY <1>1, FollowsGrows DEF EntrySound
<1>6. e.phase \in {"Pending", "InProgress"} => Len(e.completed) < Len(plan)
  BY <1>1, <1>4
<1>7. \A b : Has(e, b) => Has(d, b) \/ b = a
  <2>1. \A j \in 1..(k + 1) : j \in 1..k \/ j = k + 1
    BY <1>1
  <2>2. QED  BY <1>4, <2>1 DEF Has
<1>8. QED  BY <1>5, <1>6, <1>7 DEF EntrySound

(* advanceNode keeps an object sound. *)
LEMMA SoundAdvance ==
  ASSUME NEW o \in NMType, NEW i \in DOMAIN o.status.nodes,
         NEW plan, NEW H, NEW F, Sound(o, plan, H, F),
         NEW o2, \/ o2 \in {Finish(o, i), failNode(o, i)}
                 \/ HasNext(o, i) /\ o2 = Start(o, i)
                 \/ /\ HasNext(o, i) /\ o2 = Complete(o, i)
                    /\ NextAction(o, i) = "Cordon" => o.status.nodes[i].name \in H
                    /\ NextAction(o, i) = "Script" => o.status.nodes[i].name \in F
  PROVE  Sound(o2, plan, H, F)
<1> DEFINE d == o.status.nodes[i]
<1>1. d \in NodeStatusType /\ plan \in Seq(ActionType) /\ plan = EffectiveActions(o.spec)
  BY EntriesType, PlanType DEF Sound
<1>2. EntrySound(d, plan, H, F)
  BY DEF Sound
<1>3. \A e : SameRecord(d, e) /\ (e.phase = d.phase \/ e.phase \in {"Completed", "Failed"})
           => EntrySound(e, plan, H, F)
  BY <1>2 DEF EntrySound, SameRecord, Has
<1>4. PICK f, x, s, r \in NodeStatusType :
        /\ Finish(o, i) = Update(o, i, f)
        /\ SameRecord(d, f) /\ f.phase = "Completed"
        /\ failNode(o, i) = Update(o, i, x)
        /\ SameRecord(d, x) /\ x.phase = "Failed"
        /\ HasNext(o, i) =>
             /\ Start(o, i) = Update(o, i, s)
             /\ SameRecord(d, s) /\ s.phase = d.phase
             /\ Complete(o, i) = Update(o, i, r)
             /\ r.name = d.name
             /\ r.completed = Append(d.completed, plan[Len(d.completed) + 1])
             /\ r.phase = IF Len(d.completed) + 1 = Len(plan) THEN "Completed"
                                                             ELSE d.phase
  BY <1>1, AdvanceEntry
<1>5. CASE o2 = Finish(o, i)
  BY <1>3, <1>4, <1>5, SoundUpdate
<1>6. CASE o2 = failNode(o, i)
  BY <1>3, <1>4, <1>6, SoundUpdate
<1>7. CASE HasNext(o, i) /\ o2 = Start(o, i)
  BY <1>3, <1>4, <1>7, SoundUpdate
<1>8. CASE /\ HasNext(o, i) /\ o2 = Complete(o, i)
           /\ NextAction(o, i) = "Cordon" => o.status.nodes[i].name \in H
           /\ NextAction(o, i) = "Script" => o.status.nodes[i].name \in F
  <2>1. NextAction(o, i) = plan[Len(d.completed) + 1] /\ Len(d.completed) < Len(plan)
    BY <1>1, <1>8 DEF NextAction, HasNext
  <2>2. EntrySound(r, plan, H, F)
    BY <1>1, <1>2, <1>4, <1>8, <2>1, SoundRecorded
  <2>3. QED  BY <1>4, <1>8, <2>2, SoundUpdate
<1>9. QED  BY <1>5, <1>6, <1>7, <1>8

(* What admit makes of an entry. *)
LEMMA PromoteEntries ==
  ASSUME NEW o \in NMType, NEW P \in SUBSET InPhase(o.status, "Pending")
  PROVE  /\ DOMAIN Promote(o, P).status.nodes = DOMAIN o.status.nodes
         /\ \A i \in DOMAIN o.status.nodes :
              LET d == o.status.nodes[i]  e == Promote(o, P).status.nodes[i]
              IN /\ SameRecord(d, e)
                 /\ e.phase = IF i \in P THEN "InProgress" ELSE d.phase
                 /\ i \in P => d.phase = "Pending"
<1> DEFINE s == o.status.nodes
           p(i) == [s[i] EXCEPT !.phase = IF i \in P THEN "InProgress" ELSE @]
           t == [i \in 1..Len(s) |-> p(i)]
<1>1. Len(s) \in Nat /\ DOMAIN s = 1..Len(s) /\ \A i \in 1..Len(s) : s[i] \in NodeStatusType
  BY EntriesType
<1>2. Promote(o, P) = [o EXCEPT !.status.nodes = t]
  BY DEF Promote
<1>3. \A i \in 1..Len(s) : /\ SameRecord(s[i], p(i))
                           /\ p(i).phase = IF i \in P THEN "InProgress" ELSE s[i].phase
  BY <1>1 DEF NodeStatusType, SameRecord
<1>4. \A i \in P : s[i].phase = "Pending"
  BY DEF InPhase
<1> HIDE DEF p
<1>5. [o EXCEPT !.status.nodes = t].status.nodes = t
  BY DEF NMType, StatusType
<1>6. DOMAIN t = 1..Len(s) /\ \A i \in 1..Len(s) : t[i] = p(i)
  OBVIOUS
<1> HIDE DEF t
<1>7. QED  BY <1>1, <1>2, <1>3, <1>4, <1>5, <1>6

LEMMA SoundPromote ==
  ASSUME NEW o \in NMType, NEW P \in SUBSET InPhase(o.status, "Pending"),
         NEW plan, NEW H, NEW F, Sound(o, plan, H, F)
  PROVE  Sound(Promote(o, P), plan, H, F)
<1>1. EffectiveActions(Promote(o, P).spec) = plan
  BY PromoteType DEF Sound
<1>2. ASSUME NEW i \in DOMAIN Promote(o, P).status.nodes
      PROVE  EntrySound(Promote(o, P).status.nodes[i], plan, H, F)
  <2> DEFINE d == o.status.nodes[i]
             e == Promote(o, P).status.nodes[i]
  <2>1. i \in DOMAIN o.status.nodes /\ EntrySound(d, plan, H, F)
    BY <1>2, PromoteEntries DEF Sound
  <2>2. /\ SameRecord(d, e)
        /\ e.phase \in {"Pending", "InProgress"} => d.phase \in {"Pending", "InProgress"}
    BY <2>1, PromoteEntries
  <2> HIDE DEF d, e
  <2>3. EntrySound(e, plan, H, F)
    BY <2>1, <2>2 DEF EntrySound, SameRecord, Has
  <2>4. QED  BY <2>3 DEF e
<1>3. QED  BY <1>1, <1>2 DEF Sound

LEMMA SoundSeed ==
  ASSUME NEW o \in NMType, NEW names, NEW plan \in Seq(ActionType),
         NEW H, NEW F, Sound(o, plan, H, F)
  PROVE  Sound([o EXCEPT !.status = Seed(names)], plan, H, F)
<1> DEFINE u == [o EXCEPT !.status = Seed(names)]
<1>1. u.status = Seed(names) /\ u.spec = o.spec
  BY DEF NMType
<1>2. ASSUME NEW i \in DOMAIN Seed(names).nodes
      PROVE  EntrySound(Seed(names).nodes[i], plan, H, F)
  <2>1. Seed(names).nodes[i].completed = <<>>
    BY DEF Seed
  <2>2. Len(<<>>) = 0 /\ DOMAIN <<>> = {}
    OBVIOUS
  <2>3. plan # <<>> => 0 < Len(plan)
    BY EmptySeq, LenProperties
  <2>4. QED  BY <2>1, <2>2, <2>3, FollowsEmpty DEF EntrySound, Has
<1> HIDE DEF u
<1>3. QED  BY <1>1, <1>2 DEF Sound, u
(* The flow keeps everything sound, in H and F as they have become, when   *)
(* what an action adds to a record is true.                                *)
LEMMA SoundStep ==
  ASSUME TypeOK, NEW plan \in Seq(ActionType),
         NEW H, NEW F, NEW H2, NEW F2, H \subseteq H2, F \subseteq F2,
         AllSound(plan, H, F), [Next]_vars, EffectiveActions(obj'.spec) = plan,
         \A c \in Controller : \A i \in todo[c] :
           Advance(c, i) => \/ nm'[c] \in {nm[c], Finish(nm[c], i), failNode(nm[c], i)}
                            \/ HasNext(nm[c], i) /\ nm'[c] = Start(nm[c], i)
                            \/ /\ HasNext(nm[c], i) /\ nm'[c] = Complete(nm[c], i)
                               /\ NextAction(nm[c], i) = "Cordon" => Target(c, i) \in H2
                               /\ NextAction(nm[c], i) = "Script" => Target(c, i) \in F2
  PROVE  AllSound(plan, H2, F2)'
<1> USE DEF TypeOK
<1>1. \A o : Sound(o, plan, H, F) => Sound(o, plan, H2, F2)
  BY SoundGrows
<1>2. StoreFlow /\ \A c \in Controller : WatchFlow(c) /\ CopyFlow(c)
  BY Flow
<1>3. Sound(obj', plan, H2, F2)
  <2>1. Sound(obj, plan, H2, F2)
    BY <1>1 DEF AllSound
  <2>2. CASE obj'.status = obj.status
    BY <2>1, <2>2, SoundByEntries
  <2>3. CASE \E c \in Controller : Persisting(c) /\ obj'.status = Written(c).status
    <3>1. PICK c \in Controller : Persisting(c) /\ obj'.status = Written(c).status
      BY <2>3
    <3>2. nm[c] \in NMType
      BY <3>1, WrittenType
    <3>3. Written(c).status.nodes = nm[c].status.nodes
      BY <3>2, RollupType DEF Written
    <3>4. nm[c] # NoNM
      BY <3>2, ReconcilerAssumption DEF ReconcilerAssumption
    <3>5. Sound(nm[c], plan, H2, F2)
      BY <1>1, <3>4 DEF AllSound
    <3>6. QED  BY <3>1, <3>3, <3>5, SoundByEntries
  <2>4. QED  BY <1>2, <2>2, <2>3 DEF StoreFlow
<1>4. ASSUME NEW c \in Controller, NEW k \in DOMAIN watch'[c]
      PROVE  Sound(watch'[c][k], plan, H2, F2)
  <2>1. watch'[c][k] = obj' \/ \E j \in DOMAIN watch[c] : watch'[c][k] = watch[c][j]
    BY <1>2, <1>4, WatchElements
  <2>2. QED  BY <1>1, <1>3, <2>1 DEF AllSound
<1>5. ASSUME NEW c \in Controller, nm'[c] # NoNM
      PROVE  Sound(nm'[c], plan, H2, F2)
  <2>1. Cached(c) \in NMType /\ \E k \in DOMAIN watch[c] : Cached(c) = watch[c][k]
    BY CachedType, CachedElement
  <2>2. Sound(Cached(c), plan, H2, F2)
    BY <1>1, <2>1 DEF AllSound
  <2>3. nm[c] # NoNM => Sound(nm[c], plan, H2, F2)
    BY <1>1 DEF AllSound
  <2>4. CASE nm'[c] = nm[c]
    BY <1>5, <2>3, <2>4
  <2>5. CASE \E names \in TargetLists : nm'[c] = [Cached(c) EXCEPT !.status = Seed(names)]
    <3>1. PICK names \in TargetLists : nm'[c] = [Cached(c) EXCEPT !.status = Seed(names)]
      BY <2>5
    <3>2. Sound([Cached(c) EXCEPT !.status = Seed(names)], plan, H2, F2)
      BY <2>1, <2>2, SoundSeed
    <3>3. QED  BY <3>1, <3>2
  <2>6. CASE \E P \in SUBSET InPhase(Cached(c).status, "Pending") : nm'[c] = Promote(Cached(c), P)
    BY <2>1, <2>2, <2>6, SoundPromote
  <2>7. CASE \E i \in todo[c] : Advance(c, i)
    <3>1. PICK i \in todo[c] : Advance(c, i)
      BY <2>7
    <3>2. nm[c] \in NMType /\ i \in DOMAIN nm[c].status.nodes
      BY <3>1, AdvanceShape
    <3>3. Sound(nm[c], plan, H2, F2)
      BY <2>3, <3>2, ReconcilerAssumption DEF ReconcilerAssumption
    <3>4. CASE nm'[c] = nm[c]
      BY <3>3, <3>4
    <3>5. CASE nm'[c] # nm[c]
      <4>1. \/ nm'[c] \in {Finish(nm[c], i), failNode(nm[c], i)}
            \/ HasNext(nm[c], i) /\ nm'[c] = Start(nm[c], i)
            \/ /\ HasNext(nm[c], i) /\ nm'[c] = Complete(nm[c], i)
               /\ NextAction(nm[c], i) = "Cordon" => nm[c].status.nodes[i].name \in H2
               /\ NextAction(nm[c], i) = "Script" => nm[c].status.nodes[i].name \in F2
        BY <3>1, <3>5 DEF Target
      <4>2. QED  BY <3>2, <3>3, <4>1, SoundAdvance
    <3>6. QED  BY <3>4, <3>5
  <2>8. QED  BY <1>2, <1>5, <2>4, <2>5, <2>6, <2>7 DEF CopyFlow
<1>6. QED  BY <1>3, <1>4, <1>5 DEF AllSound

(* Nothing is recorded at first. *)
LEMMA InitSound ==
  ASSUME Init, NEW plan, NEW H, NEW F, EffectiveActions(obj.spec) = plan
  PROVE  AllSound(plan, H, F)
<1>1. obj.status = Unseeded
  <2>1. PICK s \in InitialSpecs : obj = [rv |-> 1, spec |-> s, status |-> Unseeded]
    BY DEF Init
  <2>2. QED  BY <2>1
<1>2. Unseeded.nodes = <<>> /\ DOMAIN <<>> = {}
  BY DEF Unseeded
<1>3. Sound(obj, plan, H, F)
  BY <1>1, <1>2 DEF Sound
<1>4. \A c \in Controller : watch[c] = <<obj>> /\ nm[c] = NoNM
  BY DEF Init
<1>5. \A k \in DOMAIN <<obj>> : <<obj>>[k] = obj
  OBVIOUS
<1>6. QED  BY <1>3, <1>4, <1>5 DEF AllSound
------------------------------------------------------------------------------
(* What a step of advanceNode does to the node it is at.                   *)

(* The patch of the entry's action, applied. *)
Patched(c, i) ==
  LET n == Target(c, i)
  IN \/ /\ NextAction(nm[c], i) = "Cordon"
        /\ cordonedBy' = [cordonedBy EXCEPT ![n] = IF @ = "none" THEN "run" ELSE @]
     \/ /\ NextAction(nm[c], i) = "Uncordon"
        /\ cordonedBy' = [cordonedBy EXCEPT ![n] = "none"]

GoesOn(c, i) ==
  /\ todo'[c] = todo[c]
  /\ nm'[c] = nm[c] \/ (HasNext(nm[c], i) /\ nm'[c] = Start(nm[c], i))
  /\ UNCHANGED cordonedBy

Ends(c, i) ==
  /\ todo'[c] = todo[c] \ {i} /\ pc'[c] = "step"
  /\ ~HasNext(nm[c], i) /\ nm'[c] = Finish(nm[c], i)
  /\ UNCHANGED cordonedBy

GivesUp(c, i) ==
  /\ todo'[c] = todo[c] \ {i} /\ pc'[c] = "step"
  /\ nm'[c] = failNode(nm[c], i)
  /\ UNCHANGED cordonedBy \/ (HasNext(nm[c], i) /\ Patched(c, i))

Does(c, i) ==
  /\ todo'[c] = todo[c] \ {i} /\ pc'[c] = "step"
  /\ HasNext(nm[c], i) /\ nm'[c] = Complete(nm[c], i)
  /\ \/ NextAction(nm[c], i) \in {"Cordon", "Uncordon"} /\ Patched(c, i)
     \/ /\ At(c, "execute", i) /\ UNCHANGED cordonedBy
        /\ \/ NextAction(nm[c], i) = "Cordon" /\ seen[c] = "cordoned"
           \/ NextAction(nm[c], i) = "Uncordon" /\ seen[c] = "schedulable"
           \/ NextAction(nm[c], i) = "Drain"
     \/ At(c, "gc", i) /\ UNCHANGED cordonedBy

LEMMA AdvanceEffect ==
  ASSUME TypeOK, NEW c \in Controller, NEW i \in todo[c], Advance(c, i)
  PROVE  GoesOn(c, i) \/ Ends(c, i) \/ GivesUp(c, i) \/ Does(c, i)
<1> USE DEF TypeOK
<1>1. PICK p \in {"step", "execute", "pod", "wait", "gc"} : At(c, p, i)
  BY DEF Advance, NothingLeft, GetNode, GetNodeFails, Cordon, Uncordon, Drain,
    ExecuteFails, RequireScript, PrepareScript, PrepareScriptFails, EnsurePod,
    EnsurePodFails, WaitForPod, WaitForPodFails, GcPod, Executing
<1>2. /\ p \in Busy => HasNext(nm[c], i)
      /\ pc[c] = p /\ (p = "step" \/ p \in Busy)
  BY <1>1, AtType DEF Busy, At
<1>3. \A o : Leave(c, i, o) => nm'[c] = o /\ todo'[c] = todo[c] \ {i} /\ pc'[c] = "step"
  BY DEF Leave, WorkerOK
<1>4. CASE NothingLeft(c, i)
  BY <1>3, <1>4 DEF NothingLeft, Ends, cluster
<1>5. CASE GetNode(c, i)
  BY <1>5 DEF GetNode, Continue, WorkerOK, GoesOn, cluster
<1>6. CASE \/ GetNodeFails(c, i) \/ RequireScript(c, i)
           \/ PrepareScriptFails(c, i) \/ EnsurePodFails(c, i) \/ WaitForPodFails(c, i)
  <2>1. Fail(c, i) /\ UNCHANGED cordonedBy
    BY <1>6 DEF GetNodeFails, RequireScript, PrepareScriptFails,
      EnsurePodFails, WaitForPodFails, cluster
  <2>2. QED  BY <1>3, <2>1 DEF Fail, GivesUp
<1>7. CASE ExecuteFails(c, i)
  <2>1. HasNext(nm[c], i)
    BY <1>2, <1>7 DEF ExecuteFails, Executing, At, Busy
  <2>2. Fail(c, i) /\ (UNCHANGED cordonedBy \/ Patched(c, i))
    BY <1>7 DEF ExecuteFails, Executing, Patched
  <2>3. QED  BY <1>3, <2>1, <2>2 DEF Fail, GivesUp
<1>8. CASE Cordon(c, i) \/ Uncordon(c, i) \/ Drain(c, i)
  <2>1. Succeed(c, i) /\ HasNext(nm[c], i) /\ At(c, "execute", i)
    BY <1>2, <1>8 DEF Cordon, Uncordon, Drain, Executing, At, Busy
  <2>2. \/ NextAction(nm[c], i) \in {"Cordon", "Uncordon"} /\ Patched(c, i)
        \/ /\ UNCHANGED cordonedBy
           /\ \/ NextAction(nm[c], i) = "Cordon" /\ seen[c] = "cordoned"
              \/ NextAction(nm[c], i) = "Uncordon" /\ seen[c] = "schedulable"
              \/ NextAction(nm[c], i) = "Drain"
    BY <1>8 DEF Cordon, Uncordon, Drain, Executing, Patched, cluster
  <2>3. QED  BY <1>3, <2>1, <2>2 DEF Succeed, Does
<1>9. CASE GcPod(c, i)
  <2>1. /\ HasNext(nm[c], i) /\ (Succeed(c, i) \/ Fail(c, i))
        /\ At(c, "gc", i) /\ UNCHANGED cordonedBy
    BY <1>2, <1>9 DEF GcPod, At, Busy
  <2>2. QED  BY <1>3, <2>1 DEF Succeed, Fail, Does, GivesUp
<1>10. CASE PrepareScript(c, i) \/ EnsurePod(c, i) \/ WaitForPod(c, i)
  BY <1>10 DEF PrepareScript, EnsurePod, WaitForPod, Continue, WorkerOK, GoesOn, cluster
<1>11. QED  BY <1>4, <1>5, <1>6, <1>7, <1>8, <1>9, <1>10 DEF Advance

(* Which call comes next, and what the worker knows by then. *)
LEMMA AdvanceCall ==
  ASSUME TypeOK, NEW c \in Controller, NEW i \in todo[c], Advance(c, i)
  PROVE  \/ pc'[c] = "step"
         \/ /\ pc'[c] = "execute" /\ todo'[c] = todo[c] /\ At(c, "step", i)
            /\ HasNext(nm[c], i) /\ nm'[c] = Start(nm[c], i) /\ UNCHANGED cordonedBy
            /\ seen'[c] = IF cordonedBy[Target(c, i)] = "none" THEN "schedulable"
                          ELSE "cordoned"
         \/ /\ todo'[c] = todo[c] /\ nm'[c] = nm[c]
            /\ \/ pc'[c] = "pod" /\ Executing(c, i, "Script")
               \/ pc'[c] = "wait" /\ At(c, "pod", i)
               \/ /\ pc'[c] = "gc" /\ At(c, "wait", i) /\ UNCHANGED pod
                  /\ pod[Target(c, i)].phase \in {"Succeeded", "Failed"}
<1> USE DEF TypeOK
<1>1. CASE GetNode(c, i)
  BY <1>1 DEF GetNode, Continue, WorkerOK, cluster
<1>2. CASE PrepareScript(c, i)
  BY <1>2 DEF PrepareScript, Continue, WorkerOK
<1>3. CASE EnsurePod(c, i)
  BY <1>3 DEF EnsurePod, Continue, WorkerOK
<1>4. CASE WaitForPod(c, i)
  BY <1>4 DEF WaitForPod, Continue, WorkerOK, cluster
<1>5. CASE ~(GetNode(c, i) \/ PrepareScript(c, i) \/ EnsurePod(c, i) \/ WaitForPod(c, i))
  <2>1. \E o : Leave(c, i, o)
    BY <1>5 DEF Advance, NothingLeft, GetNodeFails, Cordon, Uncordon, Drain,
      ExecuteFails, RequireScript, PrepareScriptFails, EnsurePodFails,
      WaitForPodFails, GcPod, Succeed, Fail
  <2>2. QED  BY <2>1 DEF Leave, WorkerOK
<1>6. QED  BY <1>1, <1>2, <1>3, <1>4, <1>5

(* A worker at work on a runner pod is executing a Script. *)
ScriptUnderWay ==
  \A c \in Controller : \A i \in todo[c] :
    pc[c] \in {"pod", "wait", "gc"} /\ At(c, pc[c], i) => NextAction(nm[c], i) = "Script"

(* The entry a worker is at is the one it was at, as long as its list of *)
(* entries is the same.                                                  *)
LEMMA SameEntry ==
  ASSUME TypeOK, NEW c \in Controller, NEW p, NEW q, NEW i \in todo[c], NEW j \in todo[c],
         \A k \in todo[c] : i <= k, \A k \in todo[c] : j <= k
  PROVE  i = j
<1>1. i \in Nat /\ j \in Nat /\ i <= j /\ j <= i
  BY DEF TypeOK, WorkerOK
<1>2. QED  BY <1>1

LEMMA ScriptKept ==
  ASSUME TypeOK, TypeOK', ScriptUnderWay, [Next]_vars
  PROVE  ScriptUnderWay'
<1> SUFFICES ASSUME NEW c \in Controller, NEW i \in todo'[c],
                    pc'[c] \in {"pod", "wait", "gc"}, \A k \in todo'[c] : i <= k
             PROVE  NextAction(nm'[c], i) = "Script"
  BY DEF ScriptUnderWay, At
<1>1. nm'[c] # NoNM
  BY DEF TypeOK, WorkerOK, WorkerConsistent
<1>2. CASE nm'[c] = nm[c] /\ pc'[c] = pc[c] /\ todo'[c] = todo[c]
  BY <1>2 DEF ScriptUnderWay, At
<1>3. CASE \E j \in todo[c] : Advance(c, j)
  <2>1. PICK j \in todo[c] : Advance(c, j)
    BY <1>3
  <2>2. /\ todo'[c] = todo[c] /\ nm'[c] = nm[c]
        /\ Executing(c, j, "Script") \/ At(c, "pod", j) \/ At(c, "wait", j)
    BY <2>1, AdvanceCall
  <2>3. i = j
    BY <2>2, SameEntry DEF Executing, At
  <2>4. CASE Executing(c, j, "Script")
    BY <2>2, <2>3, <2>4 DEF Executing
  <2>5. CASE At(c, "pod", j) \/ At(c, "wait", j)
    BY <2>2, <2>3, <2>5 DEF ScriptUnderWay, At
  <2>6. QED  BY <2>2, <2>4, <2>5
<1>4. QED  BY <1>1, <1>2, <1>3, Flow DEF CopyFlow
(* Who patches nodes: workers, and operators. *)
LEMMA CordonsMove ==
  ASSUME TypeOK, [Next]_vars
  PROVE  \/ UNCHANGED cordonedBy
         \/ \E c \in Controller : \E i \in todo[c] :
              Advance(c, i) /\ HasNext(nm[c], i) /\ Patched(c, i)
         \/ /\ "node" \in EditKinds /\ UNCHANGED worker
            /\ \E n \in Node : \E to \in {"none", "operator"} :
                 cordonedBy' = [cordonedBy EXCEPT ![n] = to]
<1>1. ASSUME NEW c \in Controller, NEW i \in todo[c], Advance(c, i)
      PROVE  UNCHANGED cordonedBy \/ (HasNext(nm[c], i) /\ Patched(c, i))
  BY <1>1, AdvanceEffect DEF GoesOn, Ends, GivesUp, Does
<1>2. ASSUME NEW c \in Controller,
             \/ ReturnIfTerminal(c) \/ SeedStatus(c) \/ HoldPaused(c) \/ BeginStep(c)
             \/ UpdateStatus(c) \/ UpdateConflicts(c) \/ UpdateFails(c) \/ Crash(c)
             \/ Deliver(c)
      PROVE  UNCHANGED cordonedBy
  BY <1>2 DEF ReturnIfTerminal, SeedStatus, HoldPaused, BeginStep, UpdateStatus,
    UpdateConflicts, UpdateFails, Crash, Deliver, cluster
<1>3. Kubelet \/ UNCHANGED vars => UNCHANGED cordonedBy
  BY DEF Kubelet, StartPod, FinishPod, vars, cluster
<1>4. CASE \E n \in Node : OperatorCordon(n) \/ OperatorUncordon(n)
  BY <1>4 DEF OperatorCordon, OperatorUncordon, EditNode, Edit
<1>5. People => \/ UNCHANGED cordonedBy
                \/ \E n \in Node : OperatorCordon(n) \/ OperatorUncordon(n)
  BY DEF People, Pause, Run, Attach, Apply, EditSpec, DeletePod, cluster
<1>6. QED  BY <1>1, <1>2, <1>3, <1>4, <1>5 DEF Next, Reconcile, Fault

------------------------------------------------------------------------------
(* Scripts and the cordons around them.                                    *)

(* A plan that cordons a node before its script and gives it back after. *)
Guarded(plan) ==
  \A k \in DOMAIN plan :
    /\ plan[k] = "Script" => \E j \in DOMAIN plan : j < k /\ plan[j] = "Cordon"
    /\ plan[k] = "Uncordon" => \E j \in DOMAIN plan : j < k /\ plan[j] = "Script"

(* What a record that follows the plan consists of. *)
LEMMA FollowsElements ==
  ASSUME NEW plan \in Seq(ActionType), NEW done \in Seq(ActionType), Follows(done, plan)
  PROVE  \A j \in DOMAIN plan : j <= Len(done) => j \in DOMAIN done /\ done[j] = plan[j]
<1> SUFFICES ASSUME NEW j \in DOMAIN plan, j <= Len(done)
             PROVE  j \in DOMAIN done /\ done[j] = plan[j]
  OBVIOUS
<1> DEFINE m == Len(done)
<1>1. /\ m \in Nat /\ Len(plan) \in Nat /\ m <= Len(plan)
      /\ DOMAIN plan = 1..Len(plan) /\ DOMAIN done = 1..m
  BY LenProperties DEF Follows
<1>2. j \in 1..m /\ m \in 1..Len(plan)
  BY <1>1
<1>3. \A k \in 1..m : plan[k] \in ActionType
  <2>1. \A k \in 1..m : k \in 1..Len(plan)
    BY <1>1
  <2>2. QED  BY <2>1, ElementOfSeq
<1>4. 1 \in Int /\ m \in Int /\ 1 <= m /\ m - 1 + 1 = m /\ \A k \in 1..m : 1 + k - 1 = k
  BY <1>1, <1>2
<1>5. SubSeq(plan, 1, m)[j] = plan[j]
  <2>1. \A k \in 1..m : SubSeq(plan, 1, m)[k] = plan[1 + k - 1]
    BY <1>3, <1>4, SubSeqProperties
  <2>2. QED  BY <1>2, <1>4, <2>1
<1>6. QED  BY <1>1, <1>2, <1>5 DEF Follows

(* Under a guarded plan, an entry whose next action is Script is recorded as *)
(* cordoned, and one whose next action is Uncordon has its script recorded.  *)
LEMMA BeforeNext ==
  ASSUME NEW o \in NMType, NEW i \in DOMAIN o.status.nodes, HasNext(o, i),
         NEW plan, Guarded(plan), NEW H, NEW F, Sound(o, plan, H, F)
  PROVE  /\ NextAction(o, i) = "Script" => o.status.nodes[i].name \in H
         /\ NextAction(o, i) = "Uncordon" => o.status.nodes[i].name \in F
<1> DEFINE d == o.status.nodes[i]
           k == Len(d.completed) + 1
<1>1. /\ plan \in Seq(ActionType) /\ plan = EffectiveActions(o.spec)
      /\ d.completed \in Seq(ActionType) /\ EntrySound(d, plan, H, F)
  BY EntriesType, PlanType DEF Sound, NodeStatusType
<1>2. k \in DOMAIN plan /\ NextAction(o, i) = plan[k]
  BY <1>1, LenProperties DEF HasNext, NextAction
<1>3. \A j \in DOMAIN plan : j < k => j \in DOMAIN d.completed /\ d.completed[j] = plan[j]
  <2>1. \A j \in DOMAIN plan : j < k => j <= Len(d.completed)
    BY <1>1, LenProperties
  <2>2. QED  BY <1>1, <2>1, FollowsElements DEF EntrySound
<1>4. /\ plan[k] = "Script" => Has(d, "Cordon")
      /\ plan[k] = "Uncordon" => Has(d, "Script")
  BY <1>2, <1>3 DEF Guarded, Has
<1>5. QED  BY <1>1, <1>2, <1>4 DEF EntrySound

(* The invariant that carries ScriptsRunOnCordonedNodes.  A Cordon that is   *)
(* recorded anywhere, in the store, a cache or a copy, is still in force or  *)
(* has been given back after the one script its node ever ran.               *)
Finished == {n \in Node : pod[n].phase \in {"Succeeded", "Failed"}}
Held == {n \in Node : cordonedBy[n] # "none"} \cup Finished

CordonGuard ==
  /\ \A n \in Node : pod[n].phase \in {"Pending", "Running"} => cordonedBy[n] # "none"
  /\ \A c \in Controller : \A i \in todo[c] :
       /\ At(c, "gc", i) => Target(c, i) \in Finished
       /\ At(c, "execute", i) /\ seen[c] = "cordoned" => Target(c, i) \in Held

GuardInv(plan) == AllSound(plan, Held, Finished) /\ ScriptUnderWay /\ CordonGuard

(* Starting an action leaves the entry's node what it is. *)
LEMMA StartKeepsTarget ==
  ASSUME NEW o \in NMType, NEW i \in DOMAIN o.status.nodes, HasNext(o, i)
  PROVE  Start(o, i).status.nodes[i].name = o.status.nodes[i].name
<1>1. PICK s \in NodeStatusType : /\ Start(o, i) = Update(o, i, s)
                                 /\ SameRecord(o.status.nodes[i], s)
  BY AdvanceEntry
<1>2. Update(o, i, s).status.nodes[i] = s
  BY UpdateType
<1>3. QED  BY <1>1, <1>2 DEF SameRecord

(* What a step does to the cordons, when operators leave nodes alone: only *)
(* a node whose pod has ended is given back.                               *)
LEMMA HeldGrows ==
  ASSUME TypeOK, KeepPods, EditKinds \cap {"node", "pod"} = {},
         NEW plan, Guarded(plan), GuardInv(plan), [Next]_vars
  PROVE  /\ Finished \subseteq Finished' /\ Held \subseteq Held'
         /\ \A n \in Node : cordonedBy[n] # "none" /\ cordonedBy'[n] = "none" => n \in Finished
<1>1. Finished \subseteq Finished'
  <2>1. \A n \in Node : PodMoves(n)
    BY PodsMove
  <2>2. QED  BY <2>1 DEF Finished, PodMoves
<1>2. ASSUME NEW n \in Node, cordonedBy[n] # "none", cordonedBy'[n] = "none"
      PROVE  n \in Finished
  <2>1. PICK c \in Controller : \E i \in todo[c] :
          Advance(c, i) /\ HasNext(nm[c], i) /\ Patched(c, i)
    BY <1>2, CordonsMove
  <2>2. PICK i \in todo[c] : Advance(c, i) /\ HasNext(nm[c], i) /\ Patched(c, i)
    BY <2>1
  <2>3. nm[c] \in NMType /\ nm[c] # NoNM /\ i \in DOMAIN nm[c].status.nodes
    BY <2>2, AdvanceShape, ReconcilerAssumption DEF ReconcilerAssumption
  <2>4. n = Target(c, i) /\ NextAction(nm[c], i) = "Uncordon"
    BY <1>2, <2>2 DEF Patched, TypeOK, ClusterOK
  <2>5. PICK H, F : H = Held /\ F = Finished
    OBVIOUS
  <2>6. Sound(nm[c], plan, H, F)
    BY <2>3, <2>5 DEF GuardInv, AllSound
  <2>7. nm[c].status.nodes[i].name \in F
    BY <2>2, <2>3, <2>4, <2>6, BeforeNext
  <2>8. QED  BY <2>4, <2>5, <2>7 DEF Target
<1>3. Held \subseteq Held'
  BY <1>1, <1>2 DEF Held
<1>4. QED  BY <1>1, <1>2, <1>3
(* What an action adds to a record is true of its node. *)
LEMMA DoneIsHeld ==
  ASSUME TypeOK, NEW plan, GuardInv(plan), Held \subseteq Held', Finished \subseteq Finished',
         NEW c \in Controller, NEW i \in todo[c], Advance(c, i)
  PROVE  \/ nm'[c] \in {nm[c], Finish(nm[c], i), failNode(nm[c], i)}
         \/ HasNext(nm[c], i) /\ nm'[c] = Start(nm[c], i)
         \/ /\ HasNext(nm[c], i) /\ nm'[c] = Complete(nm[c], i)
            /\ NextAction(nm[c], i) = "Cordon" => Target(c, i) \in Held'
            /\ NextAction(nm[c], i) = "Script" => Target(c, i) \in Finished'
<1>1. CASE GoesOn(c, i) \/ Ends(c, i) \/ GivesUp(c, i)
  BY <1>1 DEF GoesOn, Ends, GivesUp
<1>2. CASE Does(c, i)
  <2>1. PICK p \in {"step", "execute", "pod", "wait", "gc"} : At(c, p, i)
    BY DEF Advance, NothingLeft, GetNode, GetNodeFails, Cordon, Uncordon, Drain,
      ExecuteFails, RequireScript, PrepareScript, PrepareScriptFails, EnsurePod,
      EnsurePodFails, WaitForPod, WaitForPodFails, GcPod, Executing
  <2>2. Target(c, i) \in Node
    BY <2>1, AtType DEF TypeOK
  <2>3. CASE NextAction(nm[c], i) \in {"Cordon", "Uncordon"} /\ Patched(c, i)
    <3>1. NextAction(nm[c], i) = "Cordon" => cordonedBy'[Target(c, i)] # "none"
      BY <2>2, <2>3 DEF Patched, TypeOK, ClusterOK
    <3>2. NextAction(nm[c], i) # "Script"
      BY <2>3
    <3>3. NextAction(nm[c], i) = "Cordon" => Target(c, i) \in Held'
      BY <2>2, <3>1 DEF Held
    <3>4. QED  BY <1>2, <3>2, <3>3 DEF Does
  <2>4. CASE /\ At(c, "execute", i)
             /\ \/ NextAction(nm[c], i) = "Cordon" /\ seen[c] = "cordoned"
                \/ NextAction(nm[c], i) \in {"Uncordon", "Drain"}
    <3>1. NextAction(nm[c], i) = "Cordon" => Target(c, i) \in Held
      BY <2>4 DEF GuardInv, CordonGuard
    <3>2. NextAction(nm[c], i) # "Script"
      BY <2>4
    <3>3. QED  BY <1>2, <3>1, <3>2 DEF Does
  <2>5. CASE At(c, "gc", i)
    <3>1. NextAction(nm[c], i) = "Script" /\ Target(c, i) \in Finished
      BY <2>5 DEF GuardInv, CordonGuard, ScriptUnderWay, At
    <3>2. QED  BY <1>2, <3>1 DEF Does
  <2>6. QED  BY <1>2, <2>3, <2>4, <2>5 DEF Does
<1>3. QED  BY <1>1, <1>2, AdvanceEffect

(* A pod that is still to end is on a cordoned node. *)
LEMMA PodGuarded ==
  ASSUME TypeOK, KeepPods, EditKinds \cap {"node", "pod"} = {},
         NEW plan, Guarded(plan), GuardInv(plan), [Next]_vars,
         NEW n \in Node, pod'[n].phase \in {"Pending", "Running"}
  PROVE  cordonedBy'[n] # "none"
<1>1. PodMoves(n)
  BY PodsMove
<1>2. cordonedBy[n] # "none" /\ cordonedBy'[n] = "none" => n \in Finished
  BY HeldGrows
<1>3. n \notin Finished
  BY <1>1 DEF PodMoves, Finished
<1>4. cordonedBy[n] # "none"
  <2>1. CASE pod[n].phase \in {"Pending", "Running"}
    BY <2>1 DEF GuardInv, CordonGuard
  <2>2. CASE /\ pod[n].phase = "absent"
             /\ \E c \in Controller : \E i \in todo[c] : At(c, "pod", i) /\ Target(c, i) = n
    <3>1. PICK c \in Controller : \E i \in todo[c] : At(c, "pod", i) /\ Target(c, i) = n
      BY <2>2
    <3>2. PICK i \in todo[c] : At(c, "pod", i) /\ Target(c, i) = n
      BY <3>1
    <3>3. /\ nm[c] \in NMType /\ nm[c] # NoNM /\ i \in DOMAIN nm[c].status.nodes
          /\ HasNext(nm[c], i)
      BY <3>2, AtType, ReconcilerAssumption DEF ReconcilerAssumption, Busy, TypeOK
    <3>4. NextAction(nm[c], i) = "Script"
      BY <3>2 DEF GuardInv, ScriptUnderWay, At
    <3>5. PICK H, F : H = Held /\ F = Finished
      OBVIOUS
    <3>6. Sound(nm[c], plan, H, F)
      BY <3>3, <3>5 DEF GuardInv, AllSound
    <3>7. nm[c].status.nodes[i].name \in H
      BY <3>3, <3>4, <3>6, BeforeNext
    <3>8. n \in Held
      BY <3>2, <3>5, <3>7 DEF Target
    <3>9. QED  BY <1>3, <3>8 DEF Held
  <2>3. QED  BY <1>1, <2>1, <2>2 DEF PodMoves
<1>5. QED  BY <1>2, <1>3, <1>4

(* What a worker has read of its node or pod is so, or the script is over. *)
LEMMA ReadGuarded ==
  ASSUME TypeOK, TypeOK', NEW plan, GuardInv(plan), [Next]_vars,
         Held \subseteq Held', Finished \subseteq Finished',
         NEW c \in Controller, NEW i \in todo'[c]
  PROVE  /\ At(c, "gc", i)' => Target(c, i)' \in Finished'
         /\ At(c, "execute", i)' /\ seen'[c] = "cordoned" => Target(c, i)' \in Held'
<1> SUFFICES ASSUME \/ pc'[c] = "gc"
                    \/ pc'[c] = "execute" /\ seen'[c] = "cordoned",
                    \A k \in todo'[c] : i <= k
             PROVE  /\ pc'[c] = "gc" => Target(c, i)' \in Finished'
                    /\ pc'[c] = "execute" => Target(c, i)' \in Held'
  BY DEF At
<1>1. nm'[c] # NoNM
  BY DEF TypeOK, WorkerOK, WorkerConsistent
<1>2. CASE nm'[c] = nm[c] /\ pc'[c] = pc[c] /\ todo'[c] = todo[c] /\ seen'[c] = seen[c]
  BY <1>2 DEF GuardInv, CordonGuard, At, Target
<1>3. CASE \E j \in todo[c] : Advance(c, j)
  <2>1. PICK j \in todo[c] : Advance(c, j)
    BY <1>3
  <2>2. CASE /\ pc'[c] = "execute" /\ todo'[c] = todo[c] /\ At(c, "step", j)
             /\ HasNext(nm[c], j) /\ nm'[c] = Start(nm[c], j)
             /\ seen'[c] = IF cordonedBy[Target(c, j)] = "none" THEN "schedulable"
                           ELSE "cordoned"
    <3>1. i = j
      BY <2>2, SameEntry DEF At
    <3>2. nm[c] \in NMType /\ j \in DOMAIN nm[c].status.nodes /\ Target(c, j) \in Node
      BY <2>2, AtType DEF TypeOK
    <3>3. nm'[c].status.nodes[j].name = nm[c].status.nodes[j].name
      BY <2>2, <3>2, StartKeepsTarget
    <3>4. cordonedBy[Target(c, j)] # "none"
      BY <2>2
    <3>5. Target(c, j) \in Held
      BY <3>2, <3>4 DEF Held
    <3>6. QED  BY <2>2, <3>1, <3>3, <3>5 DEF Target
  <2>3. CASE /\ pc'[c] = "gc" /\ todo'[c] = todo[c] /\ nm'[c] = nm[c] /\ At(c, "wait", j)
             /\ pod[Target(c, j)].phase \in {"Succeeded", "Failed"}
    <3>1. i = j
      BY <2>3, SameEntry DEF At
    <3>2. Target(c, j) \in Node
      BY <2>3, AtType DEF TypeOK
    <3>3. Target(c, j) \in Finished
      BY <2>3, <3>2 DEF Finished
    <3>4. QED  BY <2>3, <3>1, <3>3 DEF Target
  <2>4. QED  BY <2>1, <2>2, <2>3, AdvanceCall
<1>4. QED  BY <1>1, <1>2, <1>3, Flow DEF CopyFlow

LEMMA InitGuard ==
  ASSUME Init, NEW plan, EffectiveActions(obj.spec) = plan
  PROVE  GuardInv(plan)
<1>1. PICK H, F : H = Held /\ F = Finished
  OBVIOUS
<1>2. AllSound(plan, H, F)
  BY InitSound
<1>3. \A c \in Controller : todo[c] = {}
  BY DEF Init
<1>4. \A n \in Node : pod[n].phase = "absent"
  <2>1. NoPod.phase = "absent"
    BY DEF NoPod
  <2>2. QED  BY <2>1 DEF Init
<1>5. ScriptUnderWay /\ CordonGuard
  BY <1>3, <1>4 DEF ScriptUnderWay, CordonGuard
<1>6. QED  BY <1>1, <1>2, <1>5 DEF GuardInv

(* Nobody gives the run another list of actions. *)
PlanIs(plan) == EffectiveActions(obj.spec) = plan

(* Under a guarded plan that nobody changes, with the pods kept and nobody   *)
(* else touching nodes or pods, a script runs on a cordoned node only, for   *)
(* any number of controllers: neither a retry nor an older copy that still   *)
(* has the Uncordon to do gives a node back while its script runs.           *)
THEOREM ScriptsGuarded ==
  ASSUME KeepPods, EditKinds \cap {"node", "pod"} = {},
         NEW CONSTANT plan \in Seq(ActionType), Guarded(plan)
  PROVE  Spec /\ []PlanIs(plan) => []ScriptsRunOnCordonedNodes
<1>1. Init /\ PlanIs(plan) => GuardInv(plan)
  BY InitGuard DEF PlanIs
<1>2. TypeOK /\ TypeOK' /\ GuardInv(plan) /\ [Next]_vars /\ PlanIs(plan)'
        => GuardInv(plan)'
  <2> SUFFICES ASSUME TypeOK, TypeOK', GuardInv(plan), [Next]_vars,
                      EffectiveActions(obj'.spec) = plan
               PROVE  GuardInv(plan)'
    BY DEF PlanIs
  <2>1. Finished \subseteq Finished' /\ Held \subseteq Held'
    BY HeldGrows
  <2>2. PICK H, F, H2, F2 : H = Held /\ F = Finished /\ H2 = Held' /\ F2 = Finished'
    OBVIOUS
  <2>3. AllSound(plan, H, F) /\ H \subseteq H2 /\ F \subseteq F2
    BY <2>1, <2>2 DEF GuardInv
  <2>4. \A c \in Controller : \A i \in todo[c] :
          Advance(c, i) => \/ nm'[c] \in {nm[c], Finish(nm[c], i), failNode(nm[c], i)}
                           \/ HasNext(nm[c], i) /\ nm'[c] = Start(nm[c], i)
                           \/ /\ HasNext(nm[c], i) /\ nm'[c] = Complete(nm[c], i)
                              /\ NextAction(nm[c], i) = "Cordon" => Target(c, i) \in H2
                              /\ NextAction(nm[c], i) = "Script" => Target(c, i) \in F2
    BY <2>1, <2>2, DoneIsHeld
  <2>5. AllSound(plan, H2, F2)'
    BY <2>3, <2>4, SoundStep
  <2>6. ScriptUnderWay'
    BY ScriptKept DEF GuardInv
  <2>7. CordonGuard'
    BY <2>1, PodGuarded, ReadGuarded DEF CordonGuard
  <2>8. QED  BY <2>2, <2>5, <2>6, <2>7 DEF GuardInv
<1>3. GuardInv(plan) => ScriptsRunOnCordonedNodes
  BY DEF GuardInv, CordonGuard, ScriptsRunOnCordonedNodes
<1>4. QED  BY <1>1, <1>2, <1>3, TypeCorrect, PTL DEF Spec
------------------------------------------------------------------------------
(* admit: how many, and which.                                             *)

(* admit is a function of the entries' phases and the budget. *)
LEMMA AdmitsOne ==
  ASSUME NEW o \in NMType, NEW P, NEW Q, Admits(o, P), Admits(o, Q)
  PROVE  P = Q
<1> DEFINE pending == InPhase(o.status, "Pending")
           m == Cardinality(InPhase(o.status, "InProgress"))
           b == effectiveBudget(o)
<1>1. /\ IsFiniteSet(pending) /\ \A i \in pending : i \in Nat
      /\ m \in Nat /\ b \in Nat
  <2>1. Len(o.status.nodes) \in Nat
    BY EntriesType
  <2>2. IsFiniteSet(1..Len(o.status.nodes))
    BY <2>1, FS_Interval
  <2>3. InPhase(o.status, "Pending") \subseteq 1..Len(o.status.nodes)
    BY DEF InPhase
  <2>4. InPhase(o.status, "InProgress") \subseteq 1..Len(o.status.nodes)
    BY DEF InPhase
  <2>5. IsFiniteSet(pending) /\ m \in Nat
    BY <2>2, <2>3, <2>4, FS_Subset, FS_CardinalityType
  <2>6. b \in Nat
    BY <2>1 DEF effectiveBudget, NMType, SpecType
  <2>7. \A i \in pending : i \in Nat
    BY <2>1, <2>3
  <2>8. QED  BY <2>5, <2>6, <2>7
<1>2. ASSUME NEW R, NEW S, Admits(o, R), Admits(o, S), R \subseteq S
      PROVE  R = S
  <2>1. SUFFICES ASSUME R # S PROVE FALSE
    OBVIOUS
  <2>2. /\ S \subseteq pending /\ R # pending /\ S # {}
        /\ m + Cardinality(S) <= b /\ m + Cardinality(R) >= b
    BY <1>2, <2>1 DEF Admits
  <2>3. IsFiniteSet(S)
    BY <1>1, <2>2, FS_Subset
  <2>4. Cardinality(R) \in Nat /\ Cardinality(S) \in Nat /\ Cardinality(R) < Cardinality(S)
    BY <1>2, <2>1, <2>3, FS_Subset, FS_CardinalityType
  <2> HIDE DEF m, b
  <2>5. QED  BY <1>1, <2>2, <2>4
<1>3. P \subseteq Q \/ Q \subseteq P
  <2>1. SUFFICES ASSUME NEW i \in P, i \notin Q, NEW j \in Q, j \notin P PROVE FALSE
    OBVIOUS
  <2>2. i \in pending /\ j \in pending /\ i \in Nat /\ j \in Nat
    BY <1>1 DEF Admits
  <2>3. i < j => i \in Q
    BY <2>2 DEF Admits
  <2>4. j < i => j \in P
    BY <2>2 DEF Admits
  <2>5. QED  BY <2>1, <2>2, <2>3, <2>4
<1>4. QED  BY <1>2, <1>3

SameBudget(v, o) ==
  v.spec.maxUnavailable = o.spec.maxUnavailable /\ v.spec.atOnce = o.spec.atOnce

(* The entries a step from object o leaves under way, whatever else it does: *)
(* those in flight, those it admits, and those that have failed.             *)
Reserved(o) ==
  {i \in DOMAIN o.status.nodes :
     \/ o.status.nodes[i].phase \in {"InProgress", "Failed"}
     \/ \E P \in SUBSET InPhase(o.status, "Pending") : Admits(o, P) /\ i \in P}

LEMMA SameReserved ==
  ASSUME NEW v, NEW o, SameBudget(v, o), v.status.nodes = o.status.nodes
  PROVE  Reserved(v) = Reserved(o) /\ effectiveBudget(v) = effectiveBudget(o)
         /\ \A P : Admits(v, P) => Admits(o, P)
<1>1. effectiveBudget(v) = effectiveBudget(o)
  BY DEF effectiveBudget, SameBudget
<1>2. \A p : InPhase(v.status, p) = InPhase(o.status, p)
  BY DEF InPhase
<1>3. \A P : Admits(v, P) <=> Admits(o, P)
  BY <1>1, <1>2 DEF Admits
<1>4. QED  BY <1>1, <1>2, <1>3 DEF Reserved

(* What advanceNode makes of the entries of a copy. *)
LEMMA AdvancedEntries ==
  ASSUME NEW o \in NMType, NEW i \in DOMAIN o.status.nodes,
         NEW o2, \/ o2 \in {Finish(o, i), failNode(o, i)}
                 \/ HasNext(o, i) /\ o2 \in {Start(o, i), Complete(o, i)}
  PROVE  /\ DOMAIN o2.status.nodes = DOMAIN o.status.nodes
         /\ \A j \in DOMAIN o.status.nodes : j # i => o2.status.nodes[j] = o.status.nodes[j]
         /\ o2.status.nodes[i].name = o.status.nodes[i].name
         /\ o2 = failNode(o, i) => o2.status.nodes[i].phase = "Failed"
         /\ HasNext(o, i) /\ o2 = Start(o, i) =>
              /\ SameRecord(o.status.nodes[i], o2.status.nodes[i])
              /\ o2.status.nodes[i].phase = o.status.nodes[i].phase
         /\ HasNext(o, i) /\ o2 = Complete(o, i) =>
              o2.status.nodes[i].phase =
                IF Len(o.status.nodes[i].completed) + 1 = Len(EffectiveActions(o.spec))
                  THEN "Completed" ELSE o.status.nodes[i].phase
<1> DEFINE d == o.status.nodes[i]
           plan == EffectiveActions(o.spec)
<1>1. PICK f, x, s, r \in NodeStatusType :
        /\ Finish(o, i) = Update(o, i, f)
        /\ SameRecord(d, f) /\ f.phase = "Completed"
        /\ failNode(o, i) = Update(o, i, x)
        /\ SameRecord(d, x) /\ x.phase = "Failed"
        /\ HasNext(o, i) =>
             /\ Start(o, i) = Update(o, i, s)
             /\ SameRecord(d, s) /\ s.phase = d.phase
             /\ Complete(o, i) = Update(o, i, r)
             /\ r.name = d.name
             /\ r.completed = Append(d.completed, plan[Len(d.completed) + 1])
             /\ r.phase = IF Len(d.completed) + 1 = Len(plan) THEN "Completed"
                                                             ELSE d.phase
  BY AdvanceEntry
<1>2. \A e \in NodeStatusType :
        LET u == Update(o, i, e)
        IN /\ DOMAIN u.status.nodes = DOMAIN o.status.nodes
           /\ \A j \in DOMAIN o.status.nodes :
                u.status.nodes[j] = IF j = i THEN e ELSE o.status.nodes[j]
  BY UpdateType
<1>3. PICK e \in NodeStatusType : o2 = Update(o, i, e) /\ e.name = d.name
  BY <1>1 DEF SameRecord
<1>4. /\ DOMAIN o2.status.nodes = DOMAIN o.status.nodes
      /\ \A j \in DOMAIN o.status.nodes : j # i => o2.status.nodes[j] = o.status.nodes[j]
      /\ o2.status.nodes[i].name = d.name
  BY <1>2, <1>3
<1>5. o2 = failNode(o, i) => o2.status.nodes[i] = x
  BY <1>1, <1>2
<1>6. HasNext(o, i) /\ o2 = Start(o, i) => o2.status.nodes[i] = s
  BY <1>1, <1>2
<1>7. HasNext(o, i) /\ o2 = Complete(o, i) => o2.status.nodes[i] = r
  BY <1>1, <1>2
<1>8. QED  BY <1>1, <1>4, <1>5, <1>6, <1>7
------------------------------------------------------------------------------
(* One controller and its cache: the cache is at most one step behind when *)
(* a step begins, because the worker's own write is the only one to the    *)
(* status.                                                                 *)

OneController == \A c, d \in Controller : c = d

(* Versions arrive in order. *)
Current(c) ==
  \A j, k \in DOMAIN watch[c] : j <= k /\ watch[c][j] = obj => watch[c][k] = obj

(* A pass that will not conflict began when the cache had caught up. *)
Fresh(c) ==
  nm[c] # NoNM /\ nm[c].rv = obj.rv => \A k \in DOMAIN watch[c] : watch[c][k] = obj

(* From version v on, only one pass has been recorded. *)
Behind(v, o) ==
  /\ SameBudget(v, o)
  /\ \/ IsUnseeded(v)
     \/ v.status.nodes = o.status.nodes
     \/ \E P \in SUBSET InPhase(v.status, "Pending") : MidStep(v, P, o, {})

Lags(c) == \A k \in DOMAIN watch[c] : Behind(watch[c][k], obj)

(* The budget stays what it is. *)
BudgetIs(most, all) == obj.spec.maxUnavailable = most /\ obj.spec.atOnce = all

LEMMA NewVersion ==
  ASSUME TypeOK, RunInv, obj'.rv = obj.rv + 1, NEW c \in Controller
  PROVE  /\ nm[c] # NoNM => nm[c].rv # obj'.rv
         /\ \A k \in DOMAIN watch[c] : watch[c][k] # obj'
<1>1. obj.rv \in Nat /\ obj.rv # obj'.rv /\ \A r \in Nat : r < obj.rv => r # obj'.rv
  <2>1. obj.rv \in Nat
    BY DEF TypeOK, StoreOK, NMType
  <2>2. \A r, m, n \in Nat : n = m + 1 => m # n /\ (r < m => r # n)
    OBVIOUS
  <2>3. obj'.rv \in Nat
    BY <2>1
  <2>4. QED  BY <2>1, <2>2, <2>3
<1>2. nm[c] # NoNM => nm[c].rv \in Nat /\ (nm[c].rv < obj.rv \/ nm[c].rv = obj.rv)
  BY DEF TypeOK, WorkerOK, NMType, RunInv, CopyFaithful
<1>3. ASSUME NEW k \in DOMAIN watch[c]
      PROVE  watch[c][k].rv \in Nat /\ (watch[c][k].rv < obj.rv \/ watch[c][k].rv = obj.rv)
  <2>1. watch[c][k] \in NMType
    BY ElementOfSeq, LenProperties DEF TypeOK, StoreOK
  <2>2. QED  BY <2>1 DEF NMType, RunInv, VersionsNamed
<1>4. QED  BY <1>1, <1>2, <1>3

LEMMA CurrentKept ==
  ASSUME TypeOK, RunInv, NEW c \in Controller, Current(c), WatchFlow(c)
  PROVE  Current(c)'
<1>1. watch[c] \in Seq(NMType) /\ watch[c] # <<>>
  BY DEF TypeOK, StoreOK
<1>2. Len(watch[c]) \in Nat /\ DOMAIN watch[c] = 1..Len(watch[c])
  BY <1>1, LenProperties
<1>3. CASE obj' = obj /\ watch'[c] = watch[c]
  BY <1>3 DEF Current
<1>4. CASE obj' = obj /\ watch'[c] = <<obj>>
  <2>1. \A k \in DOMAIN <<obj>> : <<obj>>[k] = obj
    OBVIOUS
  <2>2. QED  BY <1>4, <2>1 DEF Current
<1>5. CASE obj' = obj /\ watch'[c] = Tail(watch[c])
  <2>1. /\ DOMAIN Tail(watch[c]) = 1..(Len(watch[c]) - 1)
        /\ \A j \in 1..(Len(watch[c]) - 1) : Tail(watch[c])[j] = watch[c][j + 1]
    BY <1>1, <1>2, HeadTailProperties, LenProperties
  <2>2. SUFFICES ASSUME NEW j \in 1..(Len(watch[c]) - 1), NEW k \in 1..(Len(watch[c]) - 1),
                        j <= k, watch[c][j + 1] = obj
                 PROVE  watch[c][k + 1] = obj
    BY <1>5, <2>1 DEF Current
  <2>3. j + 1 \in DOMAIN watch[c] /\ k + 1 \in DOMAIN watch[c] /\ j + 1 <= k + 1
    BY <1>2, <2>2
  <2>4. QED  BY <2>2, <2>3 DEF Current
<1>6. CASE obj'.rv = obj.rv + 1 /\ watch'[c] = Append(watch[c], obj')
  <2> DEFINE m == Len(watch[c]) + 1
  <2>1. /\ DOMAIN Append(watch[c], obj') = 1..m
        /\ \A j \in 1..Len(watch[c]) : Append(watch[c], obj')[j] = watch[c][j]
        /\ Append(watch[c], obj')[m] = obj'
    BY <1>1, <1>2
  <2>2. \A j \in 1..Len(watch[c]) : watch[c][j] # obj'
    BY <1>2, <1>6, NewVersion
  <2>3. SUFFICES ASSUME NEW j \in 1..m, NEW k \in 1..m, j <= k,
                        Append(watch[c], obj')[j] = obj'
                 PROVE  Append(watch[c], obj')[k] = obj'
    BY <1>6, <2>1 DEF Current
  <2>4. j \notin 1..Len(watch[c])
    BY <2>1, <2>2, <2>3
  <2>5. j = m /\ k = m
    BY <1>2, <2>3, <2>4
  <2>6. QED  BY <2>1, <2>5
<1>7. QED  BY <1>3, <1>4, <1>5, <1>6 DEF WatchFlow

(* A copy that a pass has just begun with, if it is current. *)
LEMMA CaughtUp ==
  ASSUME TypeOK, RunInv, NEW c \in Controller, Current(c), Cached(c).rv = obj.rv
  PROVE  Cached(c) = obj /\ \A k \in DOMAIN watch[c] : watch[c][k] = obj
<1>1. 1 \in DOMAIN watch[c] /\ Cached(c) = watch[c][1]
  BY CachedElement
<1>2. obj.rv \in Nat
  BY DEF TypeOK, StoreOK, NMType
<1>3. Cached(c) = obj
  <2>1. Cached(c).rv < obj.rv \/ Cached(c) = obj
    BY <1>1 DEF RunInv, VersionsNamed
  <2>2. QED  BY <1>2, <2>1
<1>4. ASSUME NEW k \in DOMAIN watch[c] PROVE 1 <= k
  <2>1. k \in 1..Len(watch[c])
    BY LenProperties DEF TypeOK, StoreOK
  <2>2. QED  BY <2>1
<1>5. QED  BY <1>1, <1>3, <1>4 DEF Current

(* A step of advanceNode keeps the version of the copy. *)
LEMMA AdvanceVersion ==
  ASSUME TypeOK, NEW c \in Controller, NEW i \in todo[c], Advance(c, i)
  PROVE  nm'[c].rv = nm[c].rv /\ nm[c] # NoNM /\ obj' = obj
<1>1. /\ nm[c] \in NMType /\ i \in DOMAIN nm[c].status.nodes /\ obj' = obj
      /\ \/ nm'[c] \in {nm[c], Finish(nm[c], i), failNode(nm[c], i)}
         \/ HasNext(nm[c], i) /\ nm'[c] \in {Start(nm[c], i), Complete(nm[c], i)}
  BY AdvanceShape
<1>2. nm'[c].rv = nm[c].rv
  BY <1>1, AdvanceType
<1>3. QED  BY <1>1, <1>2, ReconcilerAssumption DEF ReconcilerAssumption

LEMMA FreshKept ==
  ASSUME OneController, TypeOK, RunInv, [Next]_vars,
         NEW c \in Controller, Current(c), Fresh(c)
  PROVE  Fresh(c)'
<1>1. StoreFlow /\ WatchFlow(c) /\ CopyFlow(c)
  BY Flow
<1> SUFFICES ASSUME nm'[c] # NoNM, nm'[c].rv = obj'.rv, NEW k \in DOMAIN watch'[c]
             PROVE  watch'[c][k] = obj'
  BY DEF Fresh
<1>2. watch'[c][k] = obj' \/ \E j \in DOMAIN watch[c] : watch'[c][k] = watch[c][j]
  BY <1>1, WatchElements
<1>3. CASE obj' = obj
  <2>1. Cached(c) \in NMType
    BY CachedType DEF TypeOK
  <2>2. nm'[c].rv = Cached(c).rv \/ (nm[c] # NoNM /\ nm'[c].rv = nm[c].rv)
    <3>1. ASSUME NEW names PROVE [Cached(c) EXCEPT !.status = Seed(names)].rv = Cached(c).rv
      BY <2>1 DEF NMType
    <3>2. ASSUME NEW P PROVE Promote(Cached(c), P).rv = Cached(c).rv
      BY <2>1, PromoteType
    <3>3. QED  BY <1>1, <3>1, <3>2, AdvanceVersion DEF CopyFlow
  <2>3. \A j \in DOMAIN watch[c] : watch[c][j] = obj
    BY <1>3, <2>2, CaughtUp DEF Fresh
  <2>4. QED  BY <1>2, <1>3, <2>3
<1>4. CASE obj'.rv = obj.rv + 1
  <2>1. nm[c] # NoNM => nm[c].rv # obj'.rv
    BY <1>4, NewVersion
  <2>2. nm'[c] = nm[c] \/ nm'[c] = NoNM
    <3>1. obj' # obj
      BY <1>4 DEF TypeOK, StoreOK, NMType
    <3>2. QED  BY <1>1, <3>1 DEF StoreFlow, OneController
  <2>3. QED  BY <2>1, <2>2
<1>5. QED  BY <1>1, <1>3, <1>4 DEF StoreFlow

(* What a pass with a current copy writes. *)
LEMMA WrittenPass ==
  ASSUME TypeOK, RunInv, NEW c \in Controller, Persisting(c), IsCurrent(c),
         obj'.status = Written(c).status
  PROVE  \/ /\ pc[c] = "seed" /\ IsUnseeded(obj)
            /\ \E names \in TargetLists : obj'.status = Seed(names)
         \/ /\ pc[c] = "step" /\ todo[c] = {}
            /\ obj'.status.nodes = nm[c].status.nodes
            /\ \E P \in SUBSET InPhase(obj.status, "Pending") :
                 MidStep(obj, P, nm[c], {}) /\ MidStep(obj, P, obj', {})
<1>1. nm[c] \in NMType /\ nm[c] # NoNM
  BY WrittenType, ReconcilerAssumption DEF ReconcilerAssumption, TypeOK
<1>2. IF pc[c] = "seed" THEN Seeding(c) ELSE Stepping(c)
  <2>1. nm[c].rv = obj.rv /\ obj.rv \in Nat
    BY DEF IsCurrent, TypeOK, StoreOK, NMType
  <2>2. ~(nm[c].rv < obj.rv)
    BY <2>1
  <2>3. QED  BY <1>1, <2>2 DEF RunInv, CopyFaithful
<1>3. CASE pc[c] = "seed"
  BY <1>2, <1>3 DEF Seeding, Written
<1>4. CASE pc[c] # "seed"
  <2>1. pc[c] = "step" /\ todo[c] = {}
    BY <1>4 DEF Persisting
  <2>2. obj'.status.nodes = nm[c].status.nodes
    BY <1>1, <1>4, RollupType DEF Written
  <2>3. PICK P \in SUBSET InPhase(obj.status, "Pending") : MidStep(obj, P, nm[c], {})
    BY <1>2, <1>4, <2>1 DEF Stepping
  <2>4. MidStep(obj, P, obj', {})
    BY <2>2, <2>3 DEF MidStep
  <2>5. QED  BY <2>1, <2>2, <2>3, <2>4
<1>5. QED  BY <1>3, <1>4

LEMMA LagsKept ==
  ASSUME OneController, TypeOK, RunInv, [Next]_vars,
         NEW c \in Controller, Fresh(c), Lags(c), SameBudget(obj, obj')
  PROVE  Lags(c)'
<1>1. StoreFlow /\ WatchFlow(c)
  BY Flow
<1> SUFFICES ASSUME NEW k \in DOMAIN watch'[c] PROVE Behind(watch'[c][k], obj')
  BY DEF Lags
<1>2. watch'[c][k] = obj' \/ \E j \in DOMAIN watch[c] : watch'[c][k] = watch[c][j]
  BY <1>1, WatchElements
<1>3. CASE watch'[c][k] = obj'
  BY <1>3 DEF Behind, SameBudget
<1>4. ASSUME NEW j \in DOMAIN watch[c]
      PROVE  Behind(watch[c][j], obj')
  <2>1. Behind(watch[c][j], obj)
    BY DEF Lags
  <2>2. SameBudget(watch[c][j], obj')
    BY <2>1 DEF Behind, SameBudget
  <2>3. CASE obj'.status = obj.status
    BY <2>1, <2>2, <2>3 DEF Behind, MidStep
  <2>4. CASE Persisting(c) /\ IsCurrent(c) /\ obj'.status = Written(c).status
    <3>1. nm[c] # NoNM
      BY <2>4, WrittenType, ReconcilerAssumption DEF ReconcilerAssumption, TypeOK
    <3>2. watch[c][j] = obj
      BY <2>4, <3>1 DEF Fresh, IsCurrent
    <3>3. IsUnseeded(obj) \/ \E P \in SUBSET InPhase(obj.status, "Pending") : MidStep(obj, P, obj', {})
      BY <2>4, WrittenPass
    <3>4. QED  BY <2>2, <3>2, <3>3 DEF Behind
  <2>5. QED  BY <1>1, <2>3, <2>4 DEF StoreFlow, OneController
<1>5. QED  BY <1>2, <1>3, <1>4
------------------------------------------------------------------------------
(* The nodes a run holds, and the entries they are held for.               *)

EndsWithUncordon(plan) == Len(plan) > 0 /\ plan[Len(plan)] = "Uncordon"

(* An entry a worker works on is one the stored object has under way, or is *)
(* about to admit, unless its last action is all that is left.              *)
InPass(c) == pc[c] \notin {"idle", "seed"}

CoveredEntry(c, plan, i) ==
  LET d == nm[c].status.nodes[i]
  IN /\ d.phase = "InProgress"
     /\ i \in Entries /\ Entry(i).name = d.name
     /\ i \in Reserved(obj) \/ Len(d.completed) + 1 = Len(plan)

Covered(c, plan) == InPass(c) => \A i \in todo[c] : CoveredEntry(c, plan, i)

(* A node the run has cordoned has an entry that is still under way, in the *)
(* stored object and in the copy of a pass that will not conflict.  X are   *)
(* the nodes another run answers for; a run on its own has none.            *)
HeldStored(X) ==
  \A n \in Node \ X : cordonedBy[n] = "run" => \E i \in Reserved(obj) : Entry(i).name = n

Holds(o, n) ==
  \E i \in DOMAIN o.status.nodes :
    o.status.nodes[i].name = n /\ o.status.nodes[i].phase \in {"InProgress", "Failed"}

HeldInCopy(c, X) ==
  InPass(c) /\ nm[c].rv = obj.rv =>
    \A n \in Node \ X : cordonedBy[n] = "run" => Holds(nm[c], n)

(* What was read as schedulable is not cordoned by the run. *)
SeenTruly(c) ==
  \A i \in todo[c] :
    At(c, "execute", i) /\ seen[c] = "schedulable" => cordonedBy[Target(c, i)] # "run"

InProgressWithin ==
  ~IsUnseeded(obj) => Cardinality(InPhase(obj.status, "InProgress")) <= effectiveBudget(obj)

BudgetInv(plan, X) ==
  /\ AllSound(plan, Node, Node)
  /\ ScriptUnderWay
  /\ HeldStored(X)
  /\ InProgressWithin
  /\ \A c \in Controller :
       /\ Current(c) /\ Fresh(c) /\ Lags(c)
       /\ Covered(c, plan) /\ HeldInCopy(c, X) /\ SeenTruly(c)

(* Only the action Cordon takes a node, and it is not the last of the plan. *)
LEMMA NewlyHeld ==
  ASSUME TypeOK, [Next]_vars, NEW n \in Node, cordonedBy'[n] = "run", cordonedBy[n] # "run"
  PROVE  \E c \in Controller : \E i \in todo[c] :
           /\ Advance(c, i) /\ HasNext(nm[c], i)
           /\ NextAction(nm[c], i) = "Cordon" /\ Target(c, i) = n
<1>1. cordonedBy \in [Node -> {"none", "run", "operator"}]
  BY DEF TypeOK, ClusterOK
<1>2. \A c, i : Patched(c, i) => NextAction(nm[c], i) = "Cordon" /\ Target(c, i) = n
  BY <1>1 DEF Patched
<1>3. ~(\E m \in Node : \E to \in {"none", "operator"} : cordonedBy' = [cordonedBy EXCEPT ![m] = to])
  BY <1>1
<1>4. QED  BY <1>2, <1>3, CordonsMove

(* A step of advanceNode patches no other node than its entry's. *)
LEMMA OthersNode ==
  ASSUME TypeOK, NEW c \in Controller, NEW i \in todo[c], Advance(c, i),
         NEW n \in Node, n # Target(c, i)
  PROVE  cordonedBy'[n] = cordonedBy[n]
<1>1. cordonedBy \in [Node -> {"none", "run", "operator"}]
  BY DEF TypeOK, ClusterOK
<1>2. Patched(c, i) => cordonedBy'[n] = cordonedBy[n]
  BY <1>1 DEF Patched
<1>3. QED  BY <1>2, AdvanceEffect DEF GoesOn, Ends, GivesUp, Does

(* What a worker at an entry knows of it. *)
LEMMA AtEntry ==
  ASSUME TypeOK, NEW plan, NEW X, EndsWithUncordon(plan), BudgetInv(plan, X),
         NEW c \in Controller, NEW i \in todo[c], Advance(c, i)
  PROVE  /\ nm[c] \in NMType /\ i \in DOMAIN nm[c].status.nodes
         /\ InPass(c) /\ CoveredEntry(c, plan, i)
         /\ Target(c, i) \in Node
         /\ EffectiveActions(nm[c].spec) = plan
         /\ HasNext(nm[c], i)
         /\ Len(nm[c].status.nodes[i].completed) + 1 = Len(plan)
              => NextAction(nm[c], i) = "Uncordon"
<1> DEFINE d == nm[c].status.nodes[i]
<1>1. nm[c] \in NMType /\ nm[c] # NoNM /\ i \in DOMAIN nm[c].status.nodes /\ pc[c] # "seed"
  BY AdvanceShape, ReconcilerAssumption DEF ReconcilerAssumption
<1>2. InPass(c)
  BY <1>1 DEF InPass, TypeOK, WorkerOK, WorkerConsistent
<1>3. CoveredEntry(c, plan, i)
  BY <1>2 DEF BudgetInv, Covered
<1>4. Sound(nm[c], plan, Node, Node)
  BY <1>1 DEF BudgetInv, AllSound
<1>5. EffectiveActions(nm[c].spec) = plan /\ EntrySound(d, plan, Node, Node)
  BY <1>1, <1>4 DEF Sound
<1>6. plan # <<>>
  <2>1. Len(<<>>) = 0 /\ ~(0 > 0)
    OBVIOUS
  <2>2. QED  BY <2>1 DEF EndsWithUncordon
<1>7. d.phase = "InProgress"
  BY <1>3 DEF CoveredEntry
<1>8. HasNext(nm[c], i)
  BY <1>5, <1>6, <1>7 DEF EntrySound, HasNext
<1>9. Len(d.completed) + 1 = Len(plan) => NextAction(nm[c], i) = "Uncordon"
  BY <1>5 DEF NextAction, EndsWithUncordon
<1>10. Target(c, i) \in Node
  <2>1. d \in NodeStatusType
    BY <1>1, EntriesType
  <2>2. QED  BY <2>1 DEF Target, NodeStatusType
<1>11. QED  BY <1>1, <1>2, <1>3, <1>5, <1>8, <1>9, <1>10

(* HeldStored, when a node is taken and when the object is written. *)
LEMMA HeldStoredKept ==
  ASSUME OneController, TypeOK, RunInv, NEW plan, NEW X, EndsWithUncordon(plan), BudgetInv(plan, X),
         [Next]_vars, SameBudget(obj, obj')
  PROVE  HeldStored(X)'
<1>1. StoreFlow
  BY Flow
<1> SUFFICES ASSUME NEW n \in Node \ X, cordonedBy'[n] = "run"
             PROVE  \E i \in Reserved(obj') : obj'.status.nodes[i].name = n
  BY DEF HeldStored, Entry
<1>2. CASE cordonedBy[n] # "run"
  <2>1. PICK c \in Controller : \E i \in todo[c] :
          /\ Advance(c, i) /\ HasNext(nm[c], i)
          /\ NextAction(nm[c], i) = "Cordon" /\ Target(c, i) = n
    BY <1>2, NewlyHeld
  <2>2. PICK i \in todo[c] :
          /\ Advance(c, i) /\ HasNext(nm[c], i)
          /\ NextAction(nm[c], i) = "Cordon" /\ Target(c, i) = n
    BY <2>1
  <2>3. /\ CoveredEntry(c, plan, i)
        /\ Len(nm[c].status.nodes[i].completed) + 1 # Len(plan)
    BY <2>2, AtEntry
  <2>4. i \in Reserved(obj) /\ Entry(i).name = n
    BY <2>2, <2>3 DEF CoveredEntry, Target
  <2>5. obj' = obj
    BY <2>2, AdvanceVersion
  <2>6. QED  BY <2>4, <2>5 DEF Entry
<1>3. CASE cordonedBy[n] = "run"
  <2>1. PICK i \in Reserved(obj) : Entry(i).name = n
    BY <1>3 DEF BudgetInv, HeldStored
  <2>2. CASE obj' = obj
    BY <2>1, <2>2 DEF Entry
  <2>3. CASE obj'.status = obj.status
    <3>1. Reserved(obj') = Reserved(obj)
      BY <2>3, SameReserved
    <3>2. QED  BY <2>1, <2>3, <3>1 DEF Entry
  <2>4. ASSUME NEW c \in Controller,
               Persisting(c), IsCurrent(c), obj'.status = Written(c).status
        PROVE  \E j \in Reserved(obj') : obj'.status.nodes[j].name = n
    <3>1. CASE IsUnseeded(obj)
      <4>1. Unseeded.nodes = <<>> /\ DOMAIN <<>> = {}
        BY DEF Unseeded
      <4>2. DOMAIN obj.status.nodes = {}
        BY <3>1, <4>1 DEF IsUnseeded
      <4>3. i \in DOMAIN obj.status.nodes
        BY DEF Reserved
      <4>4. QED  BY <4>2, <4>3
    <3>2. CASE pc[c] = "step" /\ obj'.status.nodes = nm[c].status.nodes
      <4>1. InPass(c) /\ nm[c].rv = obj.rv
        BY <2>4, <3>2 DEF InPass, IsCurrent
      <4>2. Holds(nm[c], n)
        BY <1>3, <4>1 DEF BudgetInv, HeldInCopy
      <4>3. PICK j \in DOMAIN obj'.status.nodes :
              /\ obj'.status.nodes[j].name = n
              /\ obj'.status.nodes[j].phase \in {"InProgress", "Failed"}
        BY <3>2, <4>2 DEF Holds
      <4>4. j \in Reserved(obj')
        BY <4>3 DEF Reserved
      <4>5. QED  BY <4>3, <4>4
    <3>3. QED  BY <2>4, <3>1, <3>2, WrittenPass
  <2>5. QED  BY <1>1, <2>2, <2>3, <2>4 DEF StoreFlow
<1>4. QED  BY <1>2, <1>3

LEMMA SeedLength ==
  ASSUME NEW names \in Seq(Node)
  PROVE  Len(Seed(names).nodes) = Len(names)
<1> DEFINE e(i) == [name |-> names[i], phase |-> "Pending",
                    currentAction |-> "", completed |-> <<>>]
           t == [i \in 1..Len(names) |-> e(i)]
<1>1. Len(names) \in Nat
  BY LenProperties
<1>2. Seed(names).nodes = t
  BY DEF Seed
<1>3. t \in Seq(NodeStatusType)
  BY SeedType, <1>2 DEF StatusType
<1>4. DOMAIN t = 1..Len(names) /\ DOMAIN t = 1..Len(t) /\ Len(t) \in Nat
  BY <1>3, LenProperties
<1> HIDE DEF t
<1>5. QED  BY <1>1, <1>2, <1>4

(* The entries in progress stay within the budget. *)
LEMMA WithinKept ==
  ASSUME TypeOK, RunInv, InProgressWithin, [Next]_vars, SameBudget(obj, obj'), obj' \in NMType
  PROVE  InProgressWithin'
<1>1. StoreFlow
  BY Flow
<1>2. CASE obj'.status = obj.status
  <2>1. effectiveBudget(obj') = effectiveBudget(obj)
    BY <1>2, SameReserved
  <2>2. QED  BY <1>2, <2>1 DEF InProgressWithin, IsUnseeded
<1>3. ASSUME NEW c \in Controller,
             Persisting(c), IsCurrent(c), obj'.status = Written(c).status, obj'.spec = obj.spec
      PROVE  InProgressWithin'
  <2>1. Len(obj'.status.nodes) \in Nat /\ effectiveBudget(obj') \in Nat
    <3>1. Len(obj'.status.nodes) \in Nat /\ obj'.spec \in SpecType
      BY EntriesType
    <3>2. QED  BY <3>1 DEF effectiveBudget, SpecType
  <2>2. CASE \E names \in TargetLists : obj'.status = Seed(names)
    <3>1. PICK names \in TargetLists : obj'.status = Seed(names)
      BY <2>2
    <3>2. InPhase(obj'.status, "InProgress") = {}
      <4>1. Len(Seed(names).nodes) = Len(names)
        <5>1. names \in Seq(Node)
          BY ReconcilerAssumption DEF ReconcilerAssumption
        <5>2. QED  BY <5>1, LenProperties, SeedLength
      <4>2. \A i \in 1..Len(names) : Seed(names).nodes[i].phase = "Pending"
        BY DEF Seed
      <4>3. QED  BY <3>1, <4>1, <4>2 DEF InPhase
    <3>3. Cardinality(InPhase(obj'.status, "InProgress")) = 0
      BY <3>2, FS_EmptySet, Zenon
    <3>4. 0 <= effectiveBudget(obj')
      BY <2>1
    <3>5. Cardinality(InPhase(obj'.status, "InProgress")) <= effectiveBudget(obj')
      BY <3>3, <3>4, Zenon
    <3>6. QED  BY <3>5, Zenon DEF InProgressWithin
  <2>3. ASSUME NEW P \in SUBSET InPhase(obj.status, "Pending"), MidStep(obj, P, obj', {})
        PROVE  InProgressWithin'
    <3> DEFINE A == InPhase(obj.status, "InProgress")
               B == InPhase(obj'.status, "InProgress")
    <3>1. obj \in NMType
      BY DEF TypeOK, StoreOK
    <3>2. DOMAIN obj'.status.nodes = DOMAIN obj.status.nodes
      BY <2>3 DEF MidStep
    <3>3. /\ DOMAIN obj.status.nodes = 1..Len(obj.status.nodes)
          /\ DOMAIN obj'.status.nodes = 1..Len(obj'.status.nodes)
          /\ Len(obj.status.nodes) \in Nat
      BY <3>1, EntriesType
    <3>4. Len(obj'.status.nodes) = Len(obj.status.nodes)
      BY <2>1, <3>2, <3>3
    <3>5. effectiveBudget(obj') = effectiveBudget(obj)
      BY <1>3, <3>4 DEF effectiveBudget
    <3>6. B \subseteq InFlight(obj, P)
      <4>1. \A i \in DOMAIN obj.status.nodes \ InFlight(obj, P) :
              obj'.status.nodes[i] = obj.status.nodes[i]
        BY <2>3 DEF MidStep
      <4>2. ASSUME NEW i \in B, i \notin InFlight(obj, P) PROVE FALSE
        <5>1. i \in DOMAIN obj.status.nodes /\ obj'.status.nodes[i].phase = "InProgress"
          BY <3>2, <3>3 DEF InPhase
        <5>2. obj.status.nodes[i].phase = "InProgress"
          BY <4>1, <4>2, <5>1
        <5>3. i \in A
          BY <3>3, <5>1, <5>2 DEF InPhase
        <5>4. QED  BY <4>2, <5>3 DEF InFlight
      <4>3. QED  BY <4>2
    <3>7. IsFiniteSet(InFlight(obj, P))
      <4>1. IsFiniteSet(1..Len(obj.status.nodes))
        BY <3>3, FS_Interval
      <4>2. InFlight(obj, P) \subseteq 1..Len(obj.status.nodes)
        BY DEF InFlight, InPhase
      <4>3. QED  BY <4>1, <4>2, FS_Subset
    <3>8. Cardinality(B) <= Cardinality(InFlight(obj, P))
      BY <3>6, <3>7, FS_Subset
    <3>9. IsFiniteSet(B) /\ Cardinality(B) \in Nat /\ Cardinality(InFlight(obj, P)) \in Nat
      BY <3>6, <3>7, FS_Subset, FS_CardinalityType
    <3>10. Cardinality(InFlight(obj, P)) <= effectiveBudget(obj)
      <4>1. Admits(obj, P)
        BY <2>3 DEF MidStep
      <4>2. ~IsUnseeded(obj) => Cardinality(A) <= effectiveBudget(obj)
        BY DEF InProgressWithin
      <4>3. IsUnseeded(obj) => Cardinality(A) <= effectiveBudget(obj)
        <5>1. ASSUME IsUnseeded(obj) PROVE A = {}
          <6>1. Unseeded.nodes = <<>> /\ Len(<<>>) = 0
            BY DEF Unseeded
          <6>2. Len(obj.status.nodes) = 0
            BY <5>1, <6>1 DEF IsUnseeded
          <6>3. QED  BY <6>2 DEF InPhase
        <5>2. IsUnseeded(obj) => Cardinality(A) = 0
          BY <5>1, FS_EmptySet, Zenon
        <5>3. 0 <= effectiveBudget(obj')
          BY <2>1
        <5>4. QED  BY <3>5, <5>2, <5>3, Zenon
      <4>4. QED  BY <3>1, <4>1, <4>2, <4>3, StepWithinBudget
    <3> HIDE DEF B
    <3>11. Cardinality(B) <= effectiveBudget(obj')
      BY <2>1, <3>5, <3>8, <3>9, <3>10
    <3>12. QED  BY <3>11 DEF InProgressWithin, B
  <2>4. QED  BY <1>3, <2>2, <2>3, WrittenPass
<1>4. QED  BY <1>1, <1>2, <1>3 DEF StoreFlow
(* A step begins from the cache.  Where the cache is a pass behind, that     *)
(* pass has advanced the very entries that this one will advance again.      *)
LEMMA CoveredBegin ==
  ASSUME TypeOK, NEW plan, NEW X, EndsWithUncordon(plan), BudgetInv(plan, X), NEW c \in Controller,
         ~IsUnseeded(Cached(c)), obj' = obj,
         NEW P \in SUBSET InPhase(Cached(c).status, "Pending"), Admits(Cached(c), P),
         nm'[c] = Promote(Cached(c), P),
         NEW i \in InPhase(nm'[c].status, "InProgress")
  PROVE  CoveredEntry(c, plan, i)'
<1> DEFINE v == Cached(c)
           d == v.status.nodes[i]
           e == nm'[c].status.nodes[i]
<1>1. v \in NMType /\ \E k \in DOMAIN watch[c] : v = watch[c][k]
  BY CachedType, CachedElement DEF TypeOK
<1>2. Sound(v, plan, Node, Node) /\ Behind(v, obj)
  BY <1>1 DEF BudgetInv, AllSound, Lags
<1>3. /\ nm'[c] \in NMType /\ DOMAIN nm'[c].status.nodes = DOMAIN v.status.nodes
  BY <1>1, PromoteType
<1>4. i \in DOMAIN v.status.nodes /\ e.phase = "InProgress"
  BY <1>3, EntriesType DEF InPhase
<1>5. SameRecord(d, e) /\ (i \in P \/ d.phase = "InProgress")
  BY <1>1, <1>4, PromoteEntries
<1>6. d.phase \in {"Pending", "InProgress"} /\ i \in InFlight(v, P)
  <2>1. DOMAIN v.status.nodes = 1..Len(v.status.nodes)
    BY <1>1, EntriesType
  <2>2. QED  BY <1>4, <1>5, <2>1 DEF InPhase, InFlight
<1>7. EffectiveActions(v.spec) = plan /\ EntrySound(d, plan, Node, Node)
  BY <1>2, <1>4 DEF Sound
<1>8. Len(d.completed) < Len(plan)
  <2>1. Len(<<>>) = 0 /\ ~(0 > 0)
    OBVIOUS
  <2>2. QED  BY <1>6, <1>7, <2>1 DEF EntrySound, EndsWithUncordon
<1>9. SUFFICES /\ i \in Entries /\ Entry(i).name = d.name
               /\ i \in Reserved(obj) \/ Len(d.completed) + 1 = Len(plan)
  BY <1>4, <1>5 DEF CoveredEntry, SameRecord, Entries, Entry
<1>10. CASE v.status.nodes = obj.status.nodes
  <2>1. i \in Entries /\ Entry(i) = d
    BY <1>4, <1>10 DEF Entries, Entry
  <2>2. SameBudget(v, obj)
    BY <1>2 DEF Behind
  <2>3. Admits(obj, P) /\ P \in SUBSET InPhase(obj.status, "Pending")
    BY <1>10, <2>2, SameReserved DEF InPhase
  <2>4. i \in Reserved(obj)
    BY <1>5, <2>1, <2>3 DEF Reserved, Entries, Entry
  <2>5. QED  BY <2>1, <2>4
<1>11. ASSUME NEW Q \in SUBSET InPhase(v.status, "Pending"), MidStep(v, Q, obj, {})
       PROVE  /\ i \in Entries /\ Entry(i).name = d.name
              /\ i \in Reserved(obj) \/ Len(d.completed) + 1 = Len(plan)
  <2>1. Admits(v, Q) /\ DOMAIN obj.status.nodes = DOMAIN v.status.nodes
    BY <1>11 DEF MidStep
  <2>2. Q = P
    BY <1>1, <2>1, AdmitsOne
  <2>3. Advanced(plan, d, obj.status.nodes[i])
    BY <1>6, <1>7, <1>11, <2>2 DEF MidStep
  <2>4. i \in Entries /\ Entry(i) = obj.status.nodes[i]
    BY <1>4, <2>1 DEF Entries, Entry
  <2>5. Entry(i).name = d.name
    BY <2>3, <2>4 DEF Advanced, SameRecord
  <2>6. \/ Entry(i).phase \in {"InProgress", "Failed"}
        \/ Len(d.completed) + 1 = Len(plan)
        \/ Len(d.completed) >= Len(plan)
    BY <2>3, <2>4 DEF Advanced
  <2>7. Len(d.completed) \in Nat /\ Len(plan) \in Nat
    <3>1. plan \in Seq(ActionType) /\ d \in NodeStatusType
      BY <1>1, <1>4, <1>7, PlanType, EntriesType
    <3>2. QED  BY <3>1, LenProperties DEF NodeStatusType
  <2>8. ~(Len(d.completed) >= Len(plan))
    BY <1>8, <2>7
  <2>9. Entry(i).phase \in {"InProgress", "Failed"} => i \in Reserved(obj)
    BY <2>4 DEF Reserved, Entries
  <2>10. QED  BY <2>4, <2>5, <2>6, <2>8, <2>9
<1>12. QED  BY <1>2, <1>10, <1>11 DEF Behind

LEMMA HeldBegin ==
  ASSUME TypeOK, RunInv, NEW plan, NEW X, BudgetInv(plan, X), NEW c \in Controller, obj' = obj,
         NEW P \in SUBSET InPhase(Cached(c).status, "Pending"), Admits(Cached(c), P),
         nm'[c] = Promote(Cached(c), P), nm'[c].rv = obj.rv,
         NEW n \in Node \ X, cordonedBy[n] = "run"
  PROVE  Holds(nm'[c], n)
<1>1. Cached(c) \in NMType
  BY CachedType DEF TypeOK
<1>2. Cached(c) = obj
  <2>1. Cached(c).rv = obj.rv
    BY <1>1, PromoteType
  <2>2. QED  BY <2>1, CaughtUp DEF BudgetInv
<1>3. PICK i \in Reserved(obj) : Entry(i).name = n
  BY DEF BudgetInv, HeldStored
<1>4. /\ i \in DOMAIN obj.status.nodes
      /\ \/ obj.status.nodes[i].phase \in {"InProgress", "Failed"}
         \/ \E Q \in SUBSET InPhase(obj.status, "Pending") : Admits(obj, Q) /\ i \in Q
  BY DEF Reserved
<1>5. obj.status.nodes[i].phase \in {"InProgress", "Failed"} \/ i \in P
  BY <1>1, <1>2, <1>4, AdmitsOne
<1>6. /\ i \in DOMAIN nm'[c].status.nodes
      /\ nm'[c].status.nodes[i].name = n
      /\ nm'[c].status.nodes[i].phase \in {"InProgress", "Failed"}
  <2>1. /\ DOMAIN Promote(obj, P).status.nodes = DOMAIN obj.status.nodes
        /\ SameRecord(obj.status.nodes[i], Promote(obj, P).status.nodes[i])
        /\ Promote(obj, P).status.nodes[i].phase =
             IF i \in P THEN "InProgress" ELSE obj.status.nodes[i].phase
    BY <1>1, <1>2, <1>4, PromoteEntries
  <2>2. QED  BY <1>2, <1>3, <1>4, <1>5, <2>1 DEF SameRecord, Entry
<1>7. QED  BY <1>6 DEF Holds

(* advanceNode: what is covered stays covered. *)
LEMMA CoveredAdvance ==
  ASSUME TypeOK, NEW plan, NEW X, EndsWithUncordon(plan), BudgetInv(plan, X),
         NEW c \in Controller, NEW i \in todo[c], Advance(c, i), NEW j \in todo'[c]
  PROVE  CoveredEntry(c, plan, j)'
<1>1. /\ nm[c] \in NMType /\ i \in DOMAIN nm[c].status.nodes /\ InPass(c)
      /\ HasNext(nm[c], i)
  BY AtEntry
<1>2. obj' = obj
  BY AdvanceVersion
<1>3. \/ /\ todo'[c] = todo[c]
         /\ nm'[c] = nm[c] \/ nm'[c] = Start(nm[c], i)
      \/ /\ todo'[c] = todo[c] \ {i}
         /\ nm'[c] \in {Finish(nm[c], i), failNode(nm[c], i), Complete(nm[c], i)}
  BY AdvanceShape
<1>4. CoveredEntry(c, plan, j)
  BY <1>1, <1>3 DEF BudgetInv, Covered
<1>5. j \in DOMAIN nm[c].status.nodes
  BY <1>1, <1>3, ReconcilerAssumption DEF TypeOK, WorkerOK, WorkerConsistent, ReconcilerAssumption
<1>6. /\ SameRecord(nm[c].status.nodes[j], nm'[c].status.nodes[j])
      /\ nm'[c].status.nodes[j].phase = nm[c].status.nodes[j].phase
  <2>1. CASE nm'[c] = nm[c]
    BY <2>1 DEF SameRecord
  <2>2. CASE j = i /\ nm'[c] = Start(nm[c], i)
    BY <1>1, <2>2, AdvancedEntries
  <2>3. CASE j # i /\ nm'[c] \in {Finish(nm[c], i), failNode(nm[c], i), Start(nm[c], i), Complete(nm[c], i)}
    <3>1. nm'[c].status.nodes[j] = nm[c].status.nodes[j]
      BY <1>1, <1>5, <2>3, AdvancedEntries
    <3>2. QED  BY <3>1 DEF SameRecord
  <2>4. QED  BY <1>3, <2>1, <2>2, <2>3
<1>7. QED  BY <1>2, <1>4, <1>6 DEF CoveredEntry, SameRecord, Entries, Entry

(* advanceNode: the copy shows every node that is held. *)
LEMMA HeldAdvance ==
  ASSUME TypeOK, NEW plan, NEW X, EndsWithUncordon(plan), BudgetInv(plan, X),
         NEW c \in Controller, NEW i \in todo[c], Advance(c, i), nm[c].rv = obj.rv,
         NEW n \in Node \ X, cordonedBy'[n] = "run"
  PROVE  Holds(nm'[c], n)
<1> DEFINE s == nm[c].status.nodes
           t == nm'[c].status.nodes
<1>1. /\ nm[c] \in NMType /\ i \in DOMAIN s /\ InPass(c) /\ CoveredEntry(c, plan, i)
      /\ HasNext(nm[c], i) /\ EffectiveActions(nm[c].spec) = plan
      /\ Len(s[i].completed) + 1 = Len(plan) => NextAction(nm[c], i) = "Uncordon"
  BY AtEntry
<1>2. \/ nm'[c] = nm[c]
      \/ nm'[c] \in {Finish(nm[c], i), failNode(nm[c], i), Start(nm[c], i), Complete(nm[c], i)}
  BY AdvanceShape
<1>3. /\ DOMAIN t = DOMAIN s /\ t[i].name = s[i].name
      /\ \A j \in DOMAIN s : j # i => t[j] = s[j]
  BY <1>1, <1>2, AdvancedEntries
<1>4. CASE n # Target(c, i)
  <2>1. cordonedBy[n] = "run"
    BY <1>4, OthersNode
  <2>2. PICK j \in DOMAIN s : s[j].name = n /\ s[j].phase \in {"InProgress", "Failed"}
    BY <1>1, <2>1 DEF BudgetInv, HeldInCopy, Holds
  <2>3. j # i
    BY <1>4, <2>2 DEF Target
  <2>4. QED  BY <1>3, <2>2, <2>3 DEF Holds
<1>5. CASE n = Target(c, i)
  <2>1. t[i].phase \in {"InProgress", "Failed"}
    <3>1. s[i].phase = "InProgress"
      BY <1>1 DEF CoveredEntry
    <3>2. CASE GoesOn(c, i)
      BY <1>1, <3>1, <3>2, AdvancedEntries DEF GoesOn
    <3>3. CASE GivesUp(c, i)
      BY <1>1, <3>3, AdvancedEntries DEF GivesUp
    <3>4. CASE Does(c, i)
      <4>1. t[i].phase = IF Len(s[i].completed) + 1 = Len(plan) THEN "Completed" ELSE s[i].phase
        BY <1>1, <3>4, AdvancedEntries DEF Does
      <4>2. ASSUME NextAction(nm[c], i) = "Uncordon" PROVE FALSE
        <5>1. CASE Patched(c, i)
          <6>1. cordonedBy' = [cordonedBy EXCEPT ![n] = "none"]
            BY <1>5, <4>2, <5>1 DEF Patched
          <6>2. QED  BY <6>1 DEF TypeOK, ClusterOK
        <5>2. CASE At(c, "execute", i) /\ seen[c] = "schedulable" /\ UNCHANGED cordonedBy
          BY <1>5, <5>2 DEF BudgetInv, SeenTruly
        <5>3. CASE At(c, "gc", i)
          BY <4>2, <5>3 DEF BudgetInv, ScriptUnderWay, At
        <5>4. QED  BY <3>4, <4>2, <5>1, <5>2, <5>3 DEF Does
      <4>3. QED  BY <1>1, <3>1, <4>1, <4>2
    <3>5. QED  BY <1>1, <3>2, <3>3, <3>4, AdvanceEffect DEF Ends
  <2>2. QED  BY <1>1, <1>3, <1>5, <2>1 DEF Holds, Target
<1>6. QED  BY <1>4, <1>5
(* The worker's part of the invariant. *)
LEMMA WorkerBudget ==
  ASSUME OneController, TypeOK, TypeOK', RunInv, [Next]_vars,
         NEW plan, NEW X, EndsWithUncordon(plan), BudgetInv(plan, X), SameBudget(obj, obj'),
         NEW c \in Controller
  PROVE  Covered(c, plan)' /\ HeldInCopy(c, X)' /\ SeenTruly(c)'
<1>1. StoreFlow /\ CopyFlow(c)
  BY Flow
<1>2. nm'[c] = NoNM <=> pc'[c] = "idle"
  BY DEF TypeOK, WorkerOK, WorkerConsistent
<1>3. CASE nm'[c] = NoNM \/ pc'[c] = "seed"
  BY <1>2, <1>3 DEF Covered, HeldInCopy, SeenTruly, InPass, At
<1>4. CASE \E i \in todo[c] : Advance(c, i)
  <2>1. PICK i \in todo[c] : Advance(c, i)
    BY <1>4
  <2>2. Covered(c, plan)'
    BY <2>1, CoveredAdvance DEF Covered
  <2>3. HeldInCopy(c, X)'
    BY <2>1, AdvanceVersion, HeldAdvance DEF HeldInCopy
  <2>4. SeenTruly(c)'
    <3>1. SUFFICES ASSUME NEW j \in todo'[c], pc'[c] = "execute", \A k \in todo'[c] : j <= k,
                          seen'[c] = "schedulable"
                   PROVE  cordonedBy'[nm'[c].status.nodes[j].name] # "run"
      BY DEF SeenTruly, At, Target
    <3>2. /\ todo'[c] = todo[c] /\ At(c, "step", i)
          /\ HasNext(nm[c], i) /\ nm'[c] = Start(nm[c], i) /\ UNCHANGED cordonedBy
          /\ cordonedBy[Target(c, i)] = "none"
      BY <2>1, <3>1, AdvanceCall
    <3>3. i = j
      BY <3>1, <3>2, SameEntry DEF At
    <3>4. nm[c] \in NMType /\ i \in DOMAIN nm[c].status.nodes
      BY <2>1, AdvanceShape
    <3>5. nm'[c].status.nodes[j].name = Target(c, i)
      BY <3>2, <3>3, <3>4, StartKeepsTarget DEF Target
    <3>6. QED  BY <3>2, <3>5
  <2>5. QED  BY <2>2, <2>3, <2>4
<1>5. CASE /\ ~\E i \in todo[c] : Advance(c, i)
           /\ nm'[c] # NoNM
           /\ nm'[c] = nm[c] /\ pc'[c] = pc[c] /\ todo'[c] = todo[c] /\ seen'[c] = seen[c]
  <2>1. \A n \in Node : cordonedBy'[n] = "run" => cordonedBy[n] = "run"
    BY <1>5, NewlyHeld DEF OneController
  <2>2. obj' = obj \/ (obj'.rv = obj.rv + 1 /\ obj'.status = obj.status)
    BY <1>1, <1>5 DEF StoreFlow, OneController
  <2>3. Covered(c, plan)'
    <3>1. Reserved(obj') = Reserved(obj) /\ obj'.status.nodes = obj.status.nodes
      BY <2>2, SameReserved
    <3>2. \A i : CoveredEntry(c, plan, i) => CoveredEntry(c, plan, i)'
      BY <1>5, <3>1 DEF CoveredEntry, Entries, Entry
    <3>3. QED  BY <1>5, <3>2 DEF BudgetInv, Covered, InPass
  <2>4. HeldInCopy(c, X)'
    <3>1. nm'[c].rv = obj'.rv => obj' = obj
      BY <1>5, <2>2, NewVersion
    <3>2. QED  BY <1>5, <2>1, <3>1 DEF BudgetInv, HeldInCopy, InPass
  <2>5. SeenTruly(c)'
    <3>1. SUFFICES ASSUME NEW i \in todo[c], At(c, "execute", i), seen[c] = "schedulable"
                   PROVE  cordonedBy'[Target(c, i)] # "run"
      BY <1>5 DEF SeenTruly, At, Target
    <3>2. Target(c, i) \in Node
      BY <3>1, AtType DEF TypeOK
    <3>3. cordonedBy[Target(c, i)] # "run"
      BY <3>1 DEF BudgetInv, SeenTruly
    <3>4. QED  BY <2>1, <3>2, <3>3
  <2>6. QED  BY <2>3, <2>4, <2>5
<1>6. CASE /\ ~\E i \in todo[c] : Advance(c, i)
           /\ pc'[c] = "step" /\ UNCHANGED obj /\ ~IsUnseeded(Cached(c))
           /\ \E P \in SUBSET InPhase(Cached(c).status, "Pending") :
                /\ Admits(Cached(c), P)
                /\ nm'[c] = Promote(Cached(c), P)
                /\ todo'[c] = InPhase(nm'[c].status, "InProgress")
  <2>1. PICK P \in SUBSET InPhase(Cached(c).status, "Pending") :
          /\ Admits(Cached(c), P)
          /\ nm'[c] = Promote(Cached(c), P)
          /\ todo'[c] = InPhase(nm'[c].status, "InProgress")
    BY <1>6
  <2>2. \A n \in Node : cordonedBy'[n] = "run" => cordonedBy[n] = "run"
    BY <1>6, NewlyHeld DEF OneController
  <2>3. Covered(c, plan)'
    BY <1>6, <2>1, CoveredBegin DEF Covered
  <2>4. HeldInCopy(c, X)'
    <3>1. SUFFICES ASSUME nm'[c].rv = obj.rv, NEW n \in Node \ X, cordonedBy[n] = "run"
                   PROVE  Holds(nm'[c], n)
      BY <1>6, <2>2 DEF HeldInCopy
    <3>2. QED  BY <1>6, <2>1, <3>1, HeldBegin
  <2>5. SeenTruly(c)'
    BY <1>6 DEF SeenTruly, At
  <2>6. QED  BY <2>3, <2>4, <2>5
<1>7. QED  BY <1>1, <1>3, <1>4, <1>5, <1>6 DEF CopyFlow

LEMMA InitBudget ==
  ASSUME Init, NEW plan, NEW X, PlanIs(plan)
  PROVE  BudgetInv(plan, X)
<1>1. AllSound(plan, Node, Node)
  BY InitSound DEF PlanIs
<1>2. obj.status = Unseeded
  <2>1. PICK s \in InitialSpecs : obj = [rv |-> 1, spec |-> s, status |-> Unseeded]
    BY DEF Init
  <2>2. QED  BY <2>1
<1>3. \A n \in Node : cordonedBy[n] = "none"
  BY DEF Init
<1>4. \A c \in Controller : /\ watch[c] = <<obj>> /\ pc[c] = "idle"
                            /\ nm[c] = NoNM /\ todo[c] = {}
  BY DEF Init
<1>5. \A k \in DOMAIN <<obj>> : <<obj>>[k] = obj
  OBVIOUS
<1>6. HeldStored(X) /\ ScriptUnderWay
  BY <1>3, <1>4 DEF HeldStored, ScriptUnderWay
<1>7. InProgressWithin
  BY <1>2 DEF InProgressWithin, IsUnseeded
<1>8. Behind(obj, obj)
  BY DEF Behind, SameBudget
<1>9. \A c \in Controller : /\ Current(c) /\ Fresh(c) /\ Lags(c)
                            /\ Covered(c, plan) /\ HeldInCopy(c, X) /\ SeenTruly(c)
  BY <1>4, <1>5, <1>8 DEF Current, Fresh, Lags, Covered, HeldInCopy, SeenTruly, InPass
<1>10. QED  BY <1>1, <1>6, <1>7, <1>9 DEF BudgetInv

LEMMA BudgetKept ==
  ASSUME OneController, TypeOK, TypeOK', RunInv, [Next]_vars,
         NEW plan \in Seq(ActionType), NEW X, EndsWithUncordon(plan), BudgetInv(plan, X),
         PlanIs(plan)', SameBudget(obj, obj')
  PROVE  BudgetInv(plan, X)'
<1>1. AllSound(plan, Node, Node)'
  <2>1. ASSUME NEW c \in Controller, NEW i \in todo[c], Advance(c, i)
        PROVE  \/ nm'[c] \in {nm[c], Finish(nm[c], i), failNode(nm[c], i)}
               \/ HasNext(nm[c], i) /\ nm'[c] = Start(nm[c], i)
               \/ /\ HasNext(nm[c], i) /\ nm'[c] = Complete(nm[c], i)
                  /\ NextAction(nm[c], i) = "Cordon" => Target(c, i) \in Node
                  /\ NextAction(nm[c], i) = "Script" => Target(c, i) \in Node
    <3>1. Target(c, i) \in Node
      BY <2>1, AtEntry
    <3>2. QED  BY <2>1, <3>1, AdvanceShape
  <2>2. QED  BY <2>1, SoundStep DEF BudgetInv, PlanIs
<1>2. ScriptUnderWay'
  BY ScriptKept DEF BudgetInv
<1>3. HeldStored(X)'
  BY HeldStoredKept
<1>4. InProgressWithin'
  <2>1. obj' \in NMType
    BY DEF TypeOK, StoreOK
  <2>2. QED  BY <2>1, WithinKept DEF BudgetInv
<1>5. ASSUME NEW c \in Controller
      PROVE  /\ Current(c)' /\ Fresh(c)' /\ Lags(c)'
             /\ Covered(c, plan)' /\ HeldInCopy(c, X)' /\ SeenTruly(c)'
  <2>1. Current(c) /\ Fresh(c) /\ Lags(c) /\ WatchFlow(c)
    BY Flow DEF BudgetInv
  <2>2. Current(c)' /\ Fresh(c)' /\ Lags(c)'
    BY <2>1, CurrentKept, FreshKept, LagsKept
  <2>3. QED  BY <2>2, WorkerBudget
<1>6. QED  BY <1>1, <1>2, <1>3, <1>4, <1>5 DEF BudgetInv

(* The nodes held for entries that are under way are within the budget. *)
LEMMA HeldWithin ==
  ASSUME TypeOK, NEW plan, BudgetInv(plan, {})
  PROVE  CordonsWithinBudget
<1> DEFINE failed == {Entry(i).name : i \in InPhase(obj.status, "Failed")}
           held == {n \in Node : cordonedBy[n] = "run"} \ failed
           A == InPhase(obj.status, "InProgress")
<1>1. obj \in NMType
  BY DEF TypeOK, StoreOK
<1>2. /\ Len(obj.status.nodes) \in Nat /\ Entries = 1..Len(obj.status.nodes)
      /\ IsFiniteSet(1..Len(obj.status.nodes))
  <2>1. Len(obj.status.nodes) \in Nat
    BY <1>1, EntriesType
  <2>2. Entries = 1..Len(obj.status.nodes)
    BY <1>1, EntriesType DEF Entries
  <2>3. IsFiniteSet(1..Len(obj.status.nodes))
    <3>1. 1 \in Int /\ Len(obj.status.nodes) \in Int
      BY <2>1
    <3>2. QED  BY <3>1, FS_Interval
  <2>4. QED  BY <2>1, <2>2, <2>3
<1>3. SUFFICES ASSUME ~IsUnseeded(obj) PROVE Cardinality(held) <= effectiveBudget(obj)
  BY DEF CordonsWithinBudget
<1>4. Cardinality(A) <= effectiveBudget(obj)
  BY <1>3 DEF BudgetInv, InProgressWithin
<1>5. \A n \in held : \E i \in Reserved(obj) : Entry(i).name = n /\ Entry(i).phase # "Failed"
  <2>1. TAKE n \in held
  <2>2. PICK i \in Reserved(obj) : Entry(i).name = n
    BY DEF BudgetInv, HeldStored
  <2>3. i \in 1..Len(obj.status.nodes)
    BY <1>2 DEF Reserved, Entries
  <2>4. Entry(i).phase # "Failed"
    BY <2>2, <2>3 DEF InPhase, Entry
  <2>5. QED  BY <2>2, <2>4
<1>6. \E B : /\ B \subseteq 1..Len(obj.status.nodes) /\ Cardinality(B) <= effectiveBudget(obj)
            /\ \A n \in held : \E i \in B : Entry(i).name = n
  <2>1. CASE \E P \in SUBSET InPhase(obj.status, "Pending") : Admits(obj, P)
    <3>1. PICK P \in SUBSET InPhase(obj.status, "Pending") : Admits(obj, P)
      BY <2>1
    <3>2. Cardinality(InFlight(obj, P)) <= effectiveBudget(obj)
      BY <1>1, <1>4, <3>1, StepWithinBudget
    <3>3. InFlight(obj, P) \subseteq 1..Len(obj.status.nodes)
      BY DEF InFlight, InPhase
    <3>4. ASSUME NEW n \in held PROVE \E i \in InFlight(obj, P) : Entry(i).name = n
      <4>1. PICK i \in Reserved(obj) : Entry(i).name = n /\ Entry(i).phase # "Failed"
        BY <1>5
      <4>2. i \in A \/ \E Q \in SUBSET InPhase(obj.status, "Pending") : Admits(obj, Q) /\ i \in Q
        BY <1>2, <4>1 DEF Reserved, InPhase, Entries, Entry
      <4>3. i \in InFlight(obj, P)
        BY <1>1, <3>1, <4>2, AdmitsOne DEF InFlight
      <4>4. QED  BY <4>1, <4>3
    <3>5. QED  BY <3>2, <3>3, <3>4
  <2>2. CASE ~\E P \in SUBSET InPhase(obj.status, "Pending") : Admits(obj, P)
    <3>1. ASSUME NEW n \in held PROVE \E i \in A : Entry(i).name = n
      <4>1. PICK i \in Reserved(obj) : Entry(i).name = n /\ Entry(i).phase # "Failed"
        BY <1>5
      <4>2. i \in A
        BY <1>2, <2>2, <4>1 DEF Reserved, InPhase, Entries, Entry
      <4>3. QED  BY <4>1, <4>2
    <3>2. A \subseteq 1..Len(obj.status.nodes)
      BY DEF InPhase
    <3>3. QED  BY <1>4, <3>1, <3>2
  <2>3. QED  BY <2>1, <2>2
<1>7. PICK B : /\ B \subseteq 1..Len(obj.status.nodes) /\ Cardinality(B) <= effectiveBudget(obj)
               /\ \A n \in held : \E i \in B : Entry(i).name = n
  BY <1>6
<1>8. IsFiniteSet(B)
  BY <1>2, <1>7, FS_Subset
<1> DEFINE names == {Entry(i).name : i \in B}
           f == [i \in B |-> Entry(i).name]
<1>9. IsFiniteSet(names) /\ Cardinality(names) <= Cardinality(B)
  <2>1. f \in Surjection(B, names)
    BY DEF Surjection
  <2> HIDE DEF f, names
  <2>2. QED  BY <1>8, <2>1, FS_Surjection
<1>10. held \subseteq names
  BY <1>7
<1>11. Cardinality(held) <= Cardinality(names) /\ IsFiniteSet(held)
  <2> HIDE DEF held, names
  <2>1. QED  BY <1>9, <1>10, FS_Subset
<1>12. Cardinality(held) \in Nat /\ Cardinality(names) \in Nat /\ Cardinality(B) \in Nat
  <2> HIDE DEF held, names
  <2>1. QED  BY <1>8, <1>9, <1>11, FS_CardinalityType
<1>13. effectiveBudget(obj) \in Nat
  BY <1>1, <1>2, EntriesType DEF effectiveBudget, SpecType
<1>14. QED
  <2> HIDE DEF held, names
  <2>1. QED  BY <1>7, <1>9, <1>11, <1>12, <1>13

(* The invariant of the refinement, on its own. *)
LEMMA RunKept == Spec => []RunInv
<1>1. TypeOK /\ RunInv /\ [Next]_vars => RunInv'
  BY RunStep
<1>2. QED  BY <1>1, InitRun, TypeCorrect, PTL DEF Spec

(* The budget invariant over a step that keeps the plan and the budget. *)
LEMMA BudgetStep ==
  ASSUME OneController, TypeOK, TypeOK', RunInv, [Next]_vars,
         NEW plan \in Seq(ActionType), NEW X, EndsWithUncordon(plan), BudgetInv(plan, X),
         PlanIs(plan)',
         NEW most, NEW all, BudgetIs(most, all), BudgetIs(most, all)'
  PROVE  BudgetInv(plan, X)'
<1>1. SameBudget(obj, obj')
  BY DEF BudgetIs, SameBudget
<1>2. QED  BY <1>1, BudgetKept

(* With one controller, and under a plan that ends by giving the node back   *)
(* and a budget that nobody changes, the nodes the run holds cordoned,       *)
(* failed ones apart, are never more than the budget: whatever a crash, a    *)
(* conflict or a failed write made the controller forget, the next step      *)
(* takes up the same entries.                                                *)
THEOREM CordonsStayWithinBudget ==
  ASSUME OneController, NEW CONSTANT plan \in Seq(ActionType), EndsWithUncordon(plan),
         NEW CONSTANT most, NEW CONSTANT all
  PROVE  Spec /\ []PlanIs(plan) /\ []BudgetIs(most, all) => []CordonsWithinBudget
<1>1. Init /\ PlanIs(plan) => BudgetInv(plan, {})
  BY InitBudget
<1>2. (/\ TypeOK /\ TypeOK' /\ RunInv /\ BudgetInv(plan, {}) /\ [Next]_vars
       /\ PlanIs(plan)' /\ BudgetIs(most, all) /\ BudgetIs(most, all)')
      => BudgetInv(plan, {})'
  <2> SUFFICES ASSUME TypeOK, TypeOK', RunInv, BudgetInv(plan, {}), [Next]_vars,
                      PlanIs(plan)', BudgetIs(most, all), BudgetIs(most, all)'
               PROVE  BudgetInv(plan, {})'
    OBVIOUS
  <2>1. QED  BY BudgetStep
<1>3. TypeOK /\ BudgetInv(plan, {}) => CordonsWithinBudget
  BY HeldWithin
<1>4. Spec => []RunInv
  BY RunKept
<1>5. QED  BY <1>1, <1>2, <1>3, <1>4, TypeCorrect, PTL DEF Spec

(* Under the same conditions, the run has given back every node whose entries *)
(* are all recorded as Completed, and keeps it given back.                    *)
THEOREM CompletedAreGivenBack ==
  ASSUME OneController, NEW CONSTANT plan \in Seq(ActionType), EndsWithUncordon(plan),
         NEW CONSTANT most, NEW CONSTANT all
  PROVE  Spec /\ []PlanIs(plan) /\ []BudgetIs(most, all) => []CompletedNodesSchedulable
<1>1. Init /\ PlanIs(plan) => BudgetInv(plan, {})
  BY InitBudget
<1>2. (/\ TypeOK /\ TypeOK' /\ RunInv /\ BudgetInv(plan, {}) /\ [Next]_vars
       /\ PlanIs(plan)' /\ BudgetIs(most, all) /\ BudgetIs(most, all)')
      => BudgetInv(plan, {})'
  <2> SUFFICES ASSUME TypeOK, TypeOK', RunInv, BudgetInv(plan, {}), [Next]_vars,
                      PlanIs(plan)', BudgetIs(most, all), BudgetIs(most, all)'
               PROVE  BudgetInv(plan, {})'
    OBVIOUS
  <2>1. QED  BY BudgetStep
<1>3. BudgetInv(plan, {}) => CompletedNodesSchedulable
  <2> SUFFICES ASSUME BudgetInv(plan, {}), NEW n \in Node, cordonedBy[n] = "run",
                      \A i \in Entries : Entry(i).name = n => Entry(i).phase = "Completed"
               PROVE  FALSE
    BY DEF CompletedNodesSchedulable
  <2>1. PICK i \in Reserved(obj) : Entry(i).name = n
    BY DEF BudgetInv, HeldStored
  <2>2. i \in Entries /\ Entry(i).phase = "Completed"
    BY <2>1 DEF Reserved, Entries
  <2>3. \E P \in SUBSET InPhase(obj.status, "Pending") : i \in P
    BY <2>2 DEF Reserved, Entry
  <2>4. QED  BY <2>2, <2>3 DEF InPhase, Entry
<1>4. Spec => []RunInv
  BY RunKept
<1>5. QED  BY <1>1, <1>2, <1>3, <1>4, TypeCorrect, PTL DEF Spec
------------------------------------------------------------------------------
(* A run beside another one on the same nodes; see TwoRunsProofs.          *)

(* What pods, people and the watch do leaves the status and the pass alone, *)
(* and takes no node for the run.                                           *)
LEMMA OutsideKeeps ==
  ASSUME TypeOK, Kubelet \/ People \/ \E c \in Controller : Deliver(c)
  PROVE  /\ obj'.status = obj.status /\ UNCHANGED pc
         /\ \A n \in Node : cordonedBy'[n] = "run" => cordonedBy[n] = "run"
<1>1. UNCHANGED <<pc, nm>>
  BY DEF Kubelet, StartPod, FinishPod, Deliver, People, Pause, Run, Attach, Apply, EditSpec,
    OperatorCordon, OperatorUncordon, EditNode, DeletePod, Edit, worker
<1>2. obj'.status = obj.status
  <2>1. StoreFlow
    BY Flow DEF Next
  <2>2. ASSUME NEW c \in Controller, Persisting(c) PROVE nm[c] # NoNM
    BY <2>2, WrittenType, ReconcilerAssumption DEF ReconcilerAssumption, TypeOK
  <2>3. QED  BY <1>1, <2>1, <2>2 DEF StoreFlow
<1>3. \/ UNCHANGED cordonedBy
      \/ \E n \in Node : \E to \in {"none", "operator"} :
           cordonedBy' = [cordonedBy EXCEPT ![n] = to]
  BY DEF Kubelet, StartPod, FinishPod, Deliver, People, Pause, Run, Attach, Apply, EditSpec,
    OperatorCordon, OperatorUncordon, EditNode, DeletePod, cluster
<1>4. cordonedBy \in [Node -> {"none", "run", "operator"}]
  BY DEF TypeOK, ClusterOK
<1>5. QED  BY <1>1, <1>2, <1>3, <1>4

(* A step of the other run leaves this one's types and copies as they are. *)
LEMMA OthersKeepRun ==
  ASSUME TypeOK, RunInv, UNCHANGED <<obj, watch, worker, cm, pod, runs, succeeded>>,
         cordonedBy' \in [Node -> {"none", "run", "operator"}], CountersOK'
  PROVE  TypeOK' /\ RunInv'
<1>1. UNCHANGED <<obj, watch>> /\ UNCHANGED worker /\ UNCHANGED <<cm, pod, runs, succeeded>>
  OBVIOUS
<1>2. UNCHANGED <<queued, pc, nm, todo, seen>>
  BY <1>1 DEF worker
<1>3. TypeOK'
  <2>1. ClusterOK'
    BY <1>1 DEF TypeOK, ClusterOK
  <2>2. QED  BY <1>1, <2>1, StoreStutter, WorkerStutter DEF TypeOK
<1>4. RunInv'
  BY <1>1, <1>2, CopyKept DEF RunInv, VersionsNamed, IsUnseeded
<1>5. QED  BY <1>3, <1>4

(* A step of the other run keeps this one's invariant, if it keeps what the   *)
(* two share: either no pass of this run is under way, or the step takes no   *)
(* node and the other run goes on answering for the same ones.                *)
LEMMA OthersStep ==
  ASSUME TypeOK, RunInv, NEW plan, NEW X, NEW Y, BudgetInv(plan, X),
         UNCHANGED <<obj, watch, worker, cm, pod, runs, succeeded>>,
         cordonedBy' \in [Node -> {"none", "run", "operator"}], CountersOK',
         HeldStored(Y)',
         \/ \A c \in Controller : pc[c] = "idle"
         \/ Y = X /\ \A n \in Node : cordonedBy'[n] = "run" => cordonedBy[n] = "run"
  PROVE  TypeOK' /\ RunInv' /\ BudgetInv(plan, Y)'
<1>1. UNCHANGED <<obj, watch>> /\ UNCHANGED worker /\ UNCHANGED <<cm, pod, runs, succeeded>>
  OBVIOUS
<1>2. UNCHANGED <<queued, pc, nm, todo, seen>>
  BY <1>1 DEF worker
<1>3. TypeOK' /\ RunInv'
  BY OthersKeepRun
<1>4. AllSound(plan, Node, Node)' /\ ScriptUnderWay' /\ InProgressWithin'
  BY <1>1, <1>2 DEF BudgetInv, AllSound, ScriptUnderWay, At, InProgressWithin, IsUnseeded
<1>5. ASSUME NEW c \in Controller
      PROVE  /\ Current(c)' /\ Fresh(c)' /\ Lags(c)' /\ Covered(c, plan)'
             /\ HeldInCopy(c, Y)' /\ SeenTruly(c)'
  <2>1. Current(c)' /\ Fresh(c)' /\ Lags(c)'
    BY <1>1, <1>2 DEF BudgetInv, Current, Fresh, Lags
  <2>2. Covered(c, plan)'
    BY <1>1, <1>2 DEF BudgetInv, Covered, CoveredEntry, InPass, Entries, Entry
  <2>3. CASE pc[c] = "idle"
    BY <1>2, <2>1, <2>2, <2>3 DEF HeldInCopy, SeenTruly, InPass, At
  <2>4. CASE Y = X /\ \A n \in Node : cordonedBy'[n] = "run" => cordonedBy[n] = "run"
    <3>1. HeldInCopy(c, Y)'
      BY <1>1, <1>2, <2>4 DEF BudgetInv, HeldInCopy, InPass
    <3>2. SeenTruly(c)'
      <4>1. ASSUME NEW i \in todo[c], At(c, "execute", i) PROVE Target(c, i) \in Node
        BY <4>1, AtType DEF TypeOK
      <4>2. QED  BY <1>2, <2>4, <4>1 DEF BudgetInv, SeenTruly, At, Target
    <3>3. QED  BY <2>1, <2>2, <3>1, <3>2
  <2>5. QED  BY <2>3, <2>4
<1>6. QED  BY <1>3, <1>4, <1>5 DEF BudgetInv

------------------------------------------------------------------------------
(* Failed scripts and the cordons they leave, for any number of controllers *)
(* and whether runner pods are kept or not.                                 *)

(* A plan that cordons a node before its script and does not give it back *)
(* in between.                                                            *)
CordonsScripts(plan) ==
  \A k \in DOMAIN plan :
    plan[k] = "Script" =>
      /\ \E j \in DOMAIN plan : j < k /\ plan[j] = "Cordon"
      /\ ~\E j \in DOMAIN plan : j < k /\ plan[j] = "Uncordon"

(* No node is the target of two entries. *)
NoTwins == \A i, j \in Entries : Entry(i).name = Entry(j).name => i = j

(* An entry with k actions recorded has been given back, or may be now. *)
GivesBack(plan, k) == \E j \in DOMAIN plan : j <= k + 1 /\ plan[j] = "Uncordon"

(* The nodes that are cordoned, or that an entry has got as far as giving back. *)
Kept(plan) ==
  {n \in Node : \/ cordonedBy[n] # "none"
                \/ \E i \in Entries :
                     Entry(i).name = n /\ GivesBack(plan, Len(Entry(i).completed))}

(* Entry e records at least what entry d does. *)
Onward(d, e) == e.name = d.name /\ Len(d.completed) <= Len(e.completed)

(* Every entry of v is one of o, which records no less of it. *)
UpTo(v, o) ==
  \A i \in DOMAIN v.status.nodes :
    i \in DOMAIN o.status.nodes /\ Onward(v.status.nodes[i], o.status.nodes[i])

KnownEntry(c, i) == i \in Entries /\ Onward(nm[c].status.nodes[i], Entry(i))

(* The invariant that carries FailedScriptLeavesCordon.  The store only moves *)
(* on, so what a worker makes of an older version, be it to give a node back, *)
(* the store has already got to.                                              *)
FailInv(plan) ==
  /\ AllSound(plan, Kept(plan), Node)
  /\ ScriptUnderWay
  /\ \A c \in Controller :
       /\ \A k \in DOMAIN watch[c] : UpTo(watch[c][k], obj)
       /\ InPass(c) => \A i \in todo[c] : KnownEntry(c, i)
       /\ \A i \in todo[c] :
            At(c, "execute", i) /\ seen[c] = "cordoned" => Target(c, i) \in Kept(plan)

LEMMA StillWithin ==
  ASSUME NEW j \in Int, NEW k \in Nat, NEW m \in Nat, j <= k + 1, k <= m
  PROVE  j <= m + 1
OBVIOUS

LEMMA OnwardMoves ==
  ASSUME NEW d \in NodeStatusType, NEW e \in NodeStatusType, NEW f \in NodeStatusType,
         Onward(d, e), Onward(e, f)
  PROVE  Onward(d, f)
<1>1. Len(d.completed) \in Nat /\ Len(e.completed) \in Nat /\ Len(f.completed) \in Nat
  BY LenProperties DEF NodeStatusType
<1>2. QED  BY <1>1 DEF Onward

LEMMA OnwardSelf ==
  ASSUME NEW d \in NodeStatusType, NEW e, SameRecord(d, e)
  PROVE  Onward(d, e)
<1>1. Len(d.completed) \in Nat
  BY LenProperties DEF NodeStatusType
<1>2. QED  BY <1>1 DEF Onward, SameRecord

LEMMA OnwardNext ==
  ASSUME NEW d \in NodeStatusType, NEW e, NEW plan \in Seq(ActionType), Advanced(plan, d, e)
  PROVE  Onward(d, e)
<1>1. CASE SameRecord(d, e)
  BY <1>1, OnwardSelf
<1>2. CASE /\ Len(d.completed) < Len(plan) /\ e.name = d.name
           /\ e.completed = Append(d.completed, plan[Len(d.completed) + 1])
  <2>1. d.completed \in Seq(ActionType) /\ Len(d.completed) \in Nat /\ Len(plan) \in Nat
    BY LenProperties DEF NodeStatusType
  <2>2. Len(d.completed) + 1 \in 1..Len(plan)
    BY <1>2, <2>1
  <2>3. plan[Len(d.completed) + 1] \in ActionType
    BY <2>2, ElementOfSeq
  <2>4. Len(e.completed) = Len(d.completed) + 1
    BY <1>2, <2>1, <2>3, AppendProperties
  <2>5. QED  BY <1>2, <2>1, <2>4 DEF Onward
<1>3. QED  BY <1>1, <1>2 DEF Advanced

(* A step leaves the store's entries where they are, or moves them on. *)
LEMMA StoreGrows ==
  ASSUME TypeOK, RunInv, [Next]_vars
  PROVE  UpTo(obj, obj')
<1>1. obj \in NMType /\ EffectiveActions(obj.spec) \in Seq(ActionType)
  BY PlanType DEF TypeOK, StoreOK, NMType
<1>2. \A i \in DOMAIN obj.status.nodes : obj.status.nodes[i] \in NodeStatusType
  BY <1>1, EntriesType
<1>3. CASE obj'.status = obj.status
  BY <1>2, <1>3, OnwardSelf DEF UpTo, SameRecord
<1>4. CASE \E c \in Controller : /\ Persisting(c) /\ IsCurrent(c)
                                 /\ obj'.status = Written(c).status
  <2>1. PICK c \in Controller : /\ Persisting(c) /\ IsCurrent(c)
                                /\ obj'.status = Written(c).status
    BY <1>4
  <2>2. CASE IsUnseeded(obj)
    <3>1. Unseeded.nodes = <<>> /\ DOMAIN <<>> = {}
      BY DEF Unseeded
    <3>2. DOMAIN obj.status.nodes = {}
      BY <2>2, <3>1 DEF IsUnseeded
    <3>3. QED  BY <3>2 DEF UpTo
  <2>3. CASE \E P \in SUBSET InPhase(obj.status, "Pending") : MidStep(obj, P, obj', {})
    <3>1. PICK P \in SUBSET InPhase(obj.status, "Pending") : MidStep(obj, P, obj', {})
      BY <2>3
    <3>2. ASSUME NEW i \in DOMAIN obj.status.nodes
          PROVE  Onward(obj.status.nodes[i], obj'.status.nodes[i])
      <4>1. CASE i \in InFlight(obj, P)
        <5>1. Advanced(EffectiveActions(obj.spec), obj.status.nodes[i], obj'.status.nodes[i])
          BY <3>1, <4>1 DEF MidStep
        <5>2. QED  BY <1>1, <1>2, <5>1, OnwardNext
      <4>2. CASE i \notin InFlight(obj, P)
        <5>1. SameRecord(obj.status.nodes[i], obj'.status.nodes[i])
          BY <3>1, <4>2 DEF MidStep, SameRecord
        <5>2. QED  BY <1>2, <5>1, OnwardSelf
      <4>3. QED  BY <4>1, <4>2
    <3>3. QED  BY <3>1, <3>2 DEF UpTo, MidStep
  <2>4. QED  BY <2>1, <2>2, <2>3, WrittenPass
<1>5. StoreFlow
  BY Flow
<1>6. QED  BY <1>3, <1>4, <1>5 DEF StoreFlow

(* What the store has of older versions, it still has. *)
LEMMA UpToKept ==
  ASSUME TypeOK, TypeOK', RunInv, [Next]_vars, NEW v \in NMType, UpTo(v, obj)
  PROVE  UpTo(v, obj')
<1>1. UpTo(obj, obj')
  BY StoreGrows
<1>2. obj \in NMType /\ obj' \in NMType
  BY DEF TypeOK, StoreOK
<1>3. ASSUME NEW i \in DOMAIN v.status.nodes
      PROVE  /\ i \in DOMAIN obj'.status.nodes
             /\ Onward(v.status.nodes[i], obj'.status.nodes[i])
  <2>1. /\ i \in DOMAIN obj.status.nodes /\ i \in DOMAIN obj'.status.nodes
        /\ Onward(v.status.nodes[i], obj.status.nodes[i])
        /\ Onward(obj.status.nodes[i], obj'.status.nodes[i])
    BY <1>1 DEF UpTo
  <2>2. /\ v.status.nodes[i] \in NodeStatusType
        /\ obj.status.nodes[i] \in NodeStatusType /\ obj'.status.nodes[i] \in NodeStatusType
    BY <1>2, <2>1, EntriesType
  <2>3. QED  BY <2>1, <2>2, OnwardMoves
<1>4. QED  BY <1>3 DEF UpTo

LEMMA WatchUpTo ==
  ASSUME TypeOK, TypeOK', RunInv, [Next]_vars, NEW c \in Controller,
         \A k \in DOMAIN watch[c] : UpTo(watch[c][k], obj), NEW k \in DOMAIN watch'[c]
  PROVE  UpTo(watch'[c][k], obj')
<1>1. watch'[c][k] = obj' \/ \E j \in DOMAIN watch[c] : watch'[c][k] = watch[c][j]
  BY Flow, WatchElements
<1>2. CASE watch'[c][k] = obj'
  <2>1. obj' \in NMType
    BY DEF TypeOK, StoreOK
  <2>2. \A i \in DOMAIN obj'.status.nodes : Onward(obj'.status.nodes[i], obj'.status.nodes[i])
    BY <2>1, EntriesType, OnwardSelf DEF SameRecord
  <2>3. QED  BY <1>2, <2>2 DEF UpTo
<1>3. CASE \E j \in DOMAIN watch[c] : watch'[c][k] = watch[c][j]
  <2>1. PICK j \in DOMAIN watch[c] : watch'[c][k] = watch[c][j]
    BY <1>3
  <2>2. watch[c][j] \in NMType
    BY ElementOfSeq, LenProperties DEF TypeOK, StoreOK
  <2>3. QED  BY <2>1, <2>2, UpToKept
<1>4. QED  BY <1>1, <1>2, <1>3

(* What a worker has still to advance, the store has got at least as far with. *)
LEMMA KnownKept ==
  ASSUME TypeOK, TypeOK', RunInv, NEW plan, FailInv(plan), [Next]_vars,
         NEW c \in Controller, InPass(c)', NEW i \in todo'[c]
  PROVE  KnownEntry(c, i)'
<1>1. nm'[c] # NoNM /\ pc'[c] # "seed"
  BY DEF TypeOK, WorkerOK, WorkerConsistent, InPass
<1>2. UpTo(obj, obj') /\ obj \in NMType /\ obj' \in NMType
  BY StoreGrows DEF TypeOK, StoreOK
<1>3. CASE nm'[c] = nm[c] /\ pc'[c] = pc[c] /\ todo'[c] = todo[c]
  <2>1. KnownEntry(c, i)
    BY <1>3 DEF FailInv, InPass
  <2>2. nm[c] \in NMType /\ i \in DOMAIN nm[c].status.nodes
    BY <1>1, <1>3 DEF TypeOK, WorkerOK, WorkerConsistent
  <2>3. /\ i \in DOMAIN obj.status.nodes /\ i \in DOMAIN obj'.status.nodes
        /\ Onward(nm[c].status.nodes[i], obj.status.nodes[i])
        /\ Onward(obj.status.nodes[i], obj'.status.nodes[i])
    BY <1>2, <2>1 DEF KnownEntry, UpTo, Entries, Entry
  <2>4. Onward(nm[c].status.nodes[i], obj'.status.nodes[i])
    BY <1>2, <2>2, <2>3, EntriesType, OnwardMoves
  <2>5. QED  BY <1>3, <2>3, <2>4 DEF KnownEntry, Entries, Entry
<1>4. ASSUME NEW P \in SUBSET InPhase(Cached(c).status, "Pending"), obj' = obj,
             nm'[c] = Promote(Cached(c), P), todo'[c] = InPhase(nm'[c].status, "InProgress")
      PROVE  KnownEntry(c, i)'
  <2> DEFINE v == Cached(c)
             w == nm'[c]
  <2>1. v \in NMType /\ UpTo(v, obj)
    BY CachedType, CachedElement DEF TypeOK, FailInv
  <2>2. w \in NMType /\ DOMAIN w.status.nodes = DOMAIN v.status.nodes
    BY <1>4, <2>1, PromoteType
  <2>3. i \in DOMAIN v.status.nodes
    BY <1>4, <2>2, EntriesType DEF InPhase
  <2>4. SameRecord(v.status.nodes[i], w.status.nodes[i])
    BY <1>4, <2>1, <2>3, PromoteEntries
  <2>5. i \in DOMAIN obj.status.nodes /\ Onward(v.status.nodes[i], obj.status.nodes[i])
    BY <2>1, <2>3 DEF UpTo
  <2> HIDE DEF v
  <2>6. QED  BY <1>4, <2>4, <2>5 DEF KnownEntry, Entries, Entry, Onward, SameRecord
<1>5. ASSUME NEW j \in todo[c], Advance(c, j)
      PROVE  KnownEntry(c, i)'
  <2>1. /\ nm[c] \in NMType /\ j \in DOMAIN nm[c].status.nodes
        /\ nm[c] # NoNM /\ pc[c] # "seed" /\ obj' = obj
    BY <1>5, AdvanceShape, AdvanceVersion
  <2>2. \/ todo'[c] = todo[c] /\ (nm'[c] = nm[c] \/ (HasNext(nm[c], j) /\ nm'[c] = Start(nm[c], j)))
        \/ /\ todo'[c] = todo[c] \ {j}
           /\ \/ nm'[c] \in {Finish(nm[c], j), failNode(nm[c], j)}
              \/ HasNext(nm[c], j) /\ nm'[c] = Complete(nm[c], j)
    BY <1>5, AdvanceShape
  <2>3. InPass(c) /\ i \in todo[c]
    BY <2>1, <2>2 DEF InPass, TypeOK, WorkerOK, WorkerConsistent
  <2>4. KnownEntry(c, i) /\ i \in DOMAIN nm[c].status.nodes
    BY <2>1, <2>3 DEF FailInv, TypeOK, WorkerOK, WorkerConsistent
  <2>5. SameRecord(nm[c].status.nodes[i], nm'[c].status.nodes[i])
    <3>1. CASE nm'[c] = nm[c]
      BY <3>1 DEF SameRecord
    <3>2. CASE i = j /\ HasNext(nm[c], j) /\ nm'[c] = Start(nm[c], j)
      BY <2>1, <3>2, AdvancedEntries
    <3>3. CASE /\ i # j
               /\ \/ nm'[c] \in {Finish(nm[c], j), failNode(nm[c], j)}
                  \/ HasNext(nm[c], j) /\ nm'[c] \in {Start(nm[c], j), Complete(nm[c], j)}
      <4>1. nm'[c].status.nodes[i] = nm[c].status.nodes[i]
        BY <2>1, <2>4, <3>3, AdvancedEntries
      <4>2. QED  BY <4>1 DEF SameRecord
    <3>4. QED  BY <2>2, <3>1, <3>2, <3>3
  <2>6. QED  BY <2>1, <2>4, <2>5 DEF KnownEntry, Entries, Entry, Onward, SameRecord
<1>6. CopyFlow(c)
  BY Flow
<1>7. QED  BY <1>1, <1>3, <1>4, <1>5, <1>6 DEF CopyFlow

(* A worker gives a node back only where the store records the entry that far. *)
LEMMA KeptGrows ==
  ASSUME TypeOK, TypeOK', RunInv, "node" \notin EditKinds,
         NEW plan \in Seq(ActionType), FailInv(plan), [Next]_vars
  PROVE  Kept(plan) \subseteq Kept(plan)'
<1> SUFFICES ASSUME NEW n \in Node, n \in Kept(plan) PROVE n \in Kept(plan)'
  BY DEF Kept
<1>1. UpTo(obj, obj') /\ obj \in NMType /\ obj' \in NMType
  BY StoreGrows DEF TypeOK, StoreOK
<1>2. ASSUME NEW i \in Entries, Entry(i).name = n, GivesBack(plan, Len(Entry(i).completed))
      PROVE  n \in Kept(plan)'
  <2> DEFINE d == obj.status.nodes[i]
             e == obj'.status.nodes[i]
  <2>1. i \in DOMAIN obj.status.nodes /\ i \in DOMAIN obj'.status.nodes /\ Onward(d, e)
    BY <1>1, <1>2 DEF UpTo, Entries
  <2>2. Len(d.completed) \in Nat /\ Len(e.completed) \in Nat
    BY <1>1, <2>1, EntriesType, LenProperties DEF NodeStatusType
  <2>3. PICK j \in DOMAIN plan : j <= Len(d.completed) + 1 /\ plan[j] = "Uncordon"
    BY <1>2 DEF GivesBack, Entry
  <2>4. j \in Int
    BY LenProperties
  <2>5. Len(d.completed) <= Len(e.completed)
    BY <2>1 DEF Onward
  <2> HIDE DEF d, e
  <2>6. j <= Len(e.completed) + 1
    BY <2>2, <2>3, <2>4, <2>5, StillWithin
  <2>7. GivesBack(plan, Len(e.completed))
    BY <2>3, <2>6 DEF GivesBack
  <2>8. e.name = n
    BY <1>2, <2>1 DEF Onward, Entry, d
  <2>9. QED  BY <2>1, <2>7, <2>8 DEF Kept, Entries, Entry, e
<1>3. ASSUME cordonedBy[n] # "none", cordonedBy'[n] = "none"
      PROVE  \E i \in Entries : Entry(i).name = n /\ GivesBack(plan, Len(Entry(i).completed))
  <2>1. PICK c \in Controller : \E i \in todo[c] :
          Advance(c, i) /\ HasNext(nm[c], i) /\ Patched(c, i)
    BY <1>3, CordonsMove
  <2>2. PICK i \in todo[c] : Advance(c, i) /\ HasNext(nm[c], i) /\ Patched(c, i)
    BY <2>1
  <2> DEFINE d == nm[c].status.nodes[i]
             k == Len(d.completed)
  <2>3. /\ nm[c] \in NMType /\ nm[c] # NoNM /\ i \in DOMAIN nm[c].status.nodes
        /\ pc[c] # "seed"
    BY <2>2, AdvanceShape, ReconcilerAssumption DEF ReconcilerAssumption
  <2>4. n = Target(c, i) /\ NextAction(nm[c], i) = "Uncordon"
    BY <1>3, <2>2 DEF Patched, TypeOK, ClusterOK
  <2>5. KnownEntry(c, i)
    BY <2>3 DEF FailInv, InPass, TypeOK, WorkerOK, WorkerConsistent
  <2>6. EffectiveActions(nm[c].spec) = plan
    BY <2>3 DEF FailInv, AllSound, Sound
  <2>7. k \in Nat /\ Len(plan) \in Nat /\ DOMAIN plan = 1..Len(plan)
    BY <2>3, EntriesType, LenProperties DEF NodeStatusType
  <2>8. k < Len(plan) /\ plan[k + 1] = "Uncordon"
    BY <2>2, <2>4, <2>6 DEF HasNext, NextAction
  <2>9. i \in Entries /\ Entry(i).name = d.name /\ k <= Len(Entry(i).completed)
    BY <2>5 DEF KnownEntry, Onward
  <2>10. Len(Entry(i).completed) \in Nat
    BY <1>1, <2>9, EntriesType, LenProperties DEF Entries, Entry, NodeStatusType
  <2>11. \A m \in Nat, l \in Nat : m < l => m + 1 \in 1..l /\ m + 1 \in Int /\ m + 1 <= m + 1
    OBVIOUS
  <2> HIDE DEF k
  <2>12. k + 1 \in DOMAIN plan /\ k + 1 \in Int /\ k + 1 <= k + 1
    BY <2>7, <2>8, <2>11
  <2>13. k + 1 <= Len(Entry(i).completed) + 1
    BY <2>7, <2>9, <2>10, <2>12, StillWithin
  <2>14. GivesBack(plan, Len(Entry(i).completed))
    BY <2>8, <2>12, <2>13 DEF GivesBack
  <2>15. QED  BY <2>4, <2>9, <2>14 DEF Target
<1>4. CASE cordonedBy'[n] # "none"
  BY <1>4 DEF Kept
<1>5. QED  BY <1>2, <1>3, <1>4 DEF Kept

(* What an action adds to a record is true of its node. *)
LEMMA DoneIsKept ==
  ASSUME TypeOK, NEW plan, FailInv(plan), Kept(plan) \subseteq Kept(plan)',
         NEW c \in Controller, NEW i \in todo[c], Advance(c, i)
  PROVE  \/ nm'[c] \in {nm[c], Finish(nm[c], i), failNode(nm[c], i)}
         \/ HasNext(nm[c], i) /\ nm'[c] = Start(nm[c], i)
         \/ /\ HasNext(nm[c], i) /\ nm'[c] = Complete(nm[c], i)
            /\ NextAction(nm[c], i) = "Cordon" => Target(c, i) \in Kept(plan)'
            /\ NextAction(nm[c], i) = "Script" => Target(c, i) \in Node
<1>1. CASE GoesOn(c, i) \/ Ends(c, i) \/ GivesUp(c, i)
  BY <1>1 DEF GoesOn, Ends, GivesUp
<1>2. CASE Does(c, i)
  <2>1. PICK p \in {"step", "execute", "pod", "wait", "gc"} : At(c, p, i)
    BY DEF Advance, NothingLeft, GetNode, GetNodeFails, Cordon, Uncordon, Drain,
      ExecuteFails, RequireScript, PrepareScript, PrepareScriptFails, EnsurePod,
      EnsurePodFails, WaitForPod, WaitForPodFails, GcPod, Executing
  <2>2. Target(c, i) \in Node
    BY <2>1, AtType DEF TypeOK
  <2>3. CASE NextAction(nm[c], i) \in {"Cordon", "Uncordon"} /\ Patched(c, i)
    <3>1. NextAction(nm[c], i) = "Cordon" => cordonedBy'[Target(c, i)] # "none"
      BY <2>2, <2>3 DEF Patched, TypeOK, ClusterOK
    <3>2. NextAction(nm[c], i) = "Cordon" => Target(c, i) \in Kept(plan)'
      BY <2>2, <3>1 DEF Kept
    <3>3. QED  BY <1>2, <2>2, <3>2 DEF Does
  <2>4. CASE /\ At(c, "execute", i)
             /\ \/ NextAction(nm[c], i) = "Cordon" /\ seen[c] = "cordoned"
                \/ NextAction(nm[c], i) \in {"Uncordon", "Drain"}
    <3>1. NextAction(nm[c], i) = "Cordon" => Target(c, i) \in Kept(plan)
      BY <2>4 DEF FailInv
    <3>2. QED  BY <1>2, <2>2, <3>1 DEF Does
  <2>5. CASE At(c, "gc", i)
    <3>1. NextAction(nm[c], i) = "Script"
      BY <2>5 DEF FailInv, ScriptUnderWay, At
    <3>2. QED  BY <1>2, <2>2, <3>1 DEF Does
  <2>6. QED  BY <1>2, <2>3, <2>4, <2>5 DEF Does
<1>3. QED  BY <1>1, <1>2, AdvanceEffect

(* What a worker has read as cordoned is kept. *)
LEMMA SeenKept ==
  ASSUME TypeOK, TypeOK', NEW plan, FailInv(plan), [Next]_vars,
         Kept(plan) \subseteq Kept(plan)',
         NEW c \in Controller, NEW i \in todo'[c], At(c, "execute", i)', seen'[c] = "cordoned"
  PROVE  Target(c, i)' \in Kept(plan)'
<1>1. nm'[c] # NoNM /\ pc'[c] = "execute" /\ \A k \in todo'[c] : i <= k
  BY DEF TypeOK, WorkerOK, WorkerConsistent, At
<1>2. CASE nm'[c] = nm[c] /\ pc'[c] = pc[c] /\ todo'[c] = todo[c] /\ seen'[c] = seen[c]
  BY <1>1, <1>2 DEF FailInv, At, Target
<1>3. CASE \E j \in todo[c] : Advance(c, j)
  <2>1. PICK j \in todo[c] : Advance(c, j)
    BY <1>3
  <2>2. /\ todo'[c] = todo[c] /\ At(c, "step", j)
        /\ HasNext(nm[c], j) /\ nm'[c] = Start(nm[c], j)
        /\ seen'[c] = IF cordonedBy[Target(c, j)] = "none" THEN "schedulable"
                      ELSE "cordoned"
    BY <1>1, <2>1, AdvanceCall
  <2>3. i = j
    BY <1>1, <2>2, SameEntry DEF At
  <2>4. nm[c] \in NMType /\ j \in DOMAIN nm[c].status.nodes /\ Target(c, j) \in Node
    BY <2>2, AtType DEF TypeOK
  <2>5. nm'[c].status.nodes[j].name = nm[c].status.nodes[j].name
    BY <2>2, <2>4, StartKeepsTarget
  <2>6. cordonedBy[Target(c, j)] # "none"
    BY <2>2
  <2>7. Target(c, j) \in Kept(plan)
    BY <2>4, <2>6 DEF Kept
  <2>8. QED  BY <2>3, <2>5, <2>7 DEF Target
<1>4. QED  BY <1>1, <1>2, <1>3, Flow DEF CopyFlow

LEMMA InitFail ==
  ASSUME Init, NEW plan, EffectiveActions(obj.spec) = plan
  PROVE  FailInv(plan)
<1>1. PICK H : H = Kept(plan)
  OBVIOUS
<1>2. AllSound(plan, H, Node)
  BY InitSound
<1>3. \A c \in Controller : todo[c] = {} /\ watch[c] = <<obj>>
  BY DEF Init
<1>4. UpTo(obj, obj)
  <2>1. PICK s \in InitialSpecs : obj = [rv |-> 1, spec |-> s, status |-> Unseeded]
    BY DEF Init
  <2>2. obj.status = Unseeded
    BY <2>1
  <2>3. Unseeded.nodes = <<>> /\ DOMAIN <<>> = {}
    BY DEF Unseeded
  <2>4. QED  BY <2>2, <2>3 DEF UpTo
<1>5. \A k \in DOMAIN <<obj>> : <<obj>>[k] = obj
  OBVIOUS
<1>6. QED  BY <1>1, <1>2, <1>3, <1>4, <1>5 DEF FailInv, ScriptUnderWay

(* An entry that failed at its Script is recorded as cordoned, and its own *)
(* record is the only one that could have given the node back.             *)
LEMMA FailedIsCordoned ==
  ASSUME TypeOK, NEW plan \in Seq(ActionType), CordonsScripts(plan), NoTwins, FailInv(plan),
         NEW i \in Entries, HasNext(obj, i), NextAction(obj, i) = "Script"
  PROVE  cordonedBy[Entry(i).name] # "none"
<1> DEFINE e == Entry(i)
           k == Len(e.completed) + 1
<1>1. obj \in NMType /\ i \in DOMAIN obj.status.nodes /\ e = obj.status.nodes[i]
  BY DEF TypeOK, StoreOK, Entries, Entry
<1>2. PICK H : H = Kept(plan)
  OBVIOUS
<1>3. EffectiveActions(obj.spec) = plan /\ EntrySound(e, plan, H, Node)
  BY <1>1, <1>2 DEF FailInv, AllSound, Sound
<1>4. e \in NodeStatusType /\ e.completed \in Seq(ActionType) /\ Len(e.completed) \in Nat
  <2>1. e \in NodeStatusType
    BY <1>1, EntriesType
  <2>2. QED  BY <2>1, LenProperties DEF NodeStatusType
<1>5. k \in DOMAIN plan /\ plan[k] = "Script"
  <2>1. Len(e.completed) < Len(plan) /\ plan[k] = "Script"
    BY <1>1, <1>3 DEF HasNext, NextAction
  <2>2. Len(plan) \in Nat /\ DOMAIN plan = 1..Len(plan)
    BY LenProperties
  <2>3. QED  BY <1>4, <2>1, <2>2
<1>6. PICK j \in DOMAIN plan : j < k /\ plan[j] = "Cordon"
  BY <1>5 DEF CordonsScripts
<1>7. Has(e, "Cordon")
  <2>1. j \in Nat
    BY LenProperties
  <2>2. j <= Len(e.completed)
    BY <1>4, <1>6, <2>1
  <2>3. j \in DOMAIN e.completed /\ e.completed[j] = "Cordon"
    BY <1>3, <1>4, <1>6, <2>2, FollowsElements DEF EntrySound
  <2>4. QED  BY <2>3 DEF Has
<1>8. e.name \in Kept(plan)
  BY <1>2, <1>3, <1>7 DEF EntrySound
<1>9. ASSUME NEW i2 \in Entries, Entry(i2).name = e.name, GivesBack(plan, Len(Entry(i2).completed))
      PROVE  FALSE
  <2>1. i2 = i
    BY <1>9 DEF NoTwins
  <2>2. PICK m \in DOMAIN plan : m <= k /\ plan[m] = "Uncordon"
    BY <1>9, <2>1 DEF GivesBack
  <2>3. m # k
    BY <1>5, <2>2
  <2>4. m \in Nat /\ k \in Nat
    BY <1>4, LenProperties
  <2>5. m < k
    BY <2>2, <2>3, <2>4
  <2>6. QED  BY <1>5, <2>2, <2>5 DEF CordonsScripts
<1>10. QED  BY <1>8, <1>9 DEF Kept

(* Under a plan that cordons a node before its script and keeps it so until  *)
(* after, that nobody changes, and with no node targeted twice and nobody    *)
(* else touching nodes, a node whose script failed stays cordoned: no other  *)
(* controller, however old the version it works from, gives it back.         *)
THEOREM FailedStaysCordoned ==
  ASSUME "node" \notin EditKinds, NEW CONSTANT plan \in Seq(ActionType), CordonsScripts(plan)
  PROVE  Spec /\ []PlanIs(plan) /\ []NoTwins => []FailedScriptLeavesCordon
<1>1. Init /\ PlanIs(plan) => FailInv(plan)
  BY InitFail DEF PlanIs
<1>2. TypeOK /\ TypeOK' /\ RunInv /\ FailInv(plan) /\ [Next]_vars /\ PlanIs(plan)'
        => FailInv(plan)'
  <2> SUFFICES ASSUME TypeOK, TypeOK', RunInv, FailInv(plan), [Next]_vars,
                      EffectiveActions(obj'.spec) = plan
               PROVE  FailInv(plan)'
    BY DEF PlanIs
  <2>1. Kept(plan) \subseteq Kept(plan)'
    BY KeptGrows
  <2>2. PICK H, H2 : H = Kept(plan) /\ H2 = Kept(plan)'
    OBVIOUS
  <2>3. AllSound(plan, H, Node) /\ H \subseteq H2
    BY <2>1, <2>2 DEF FailInv
  <2>4. \A c \in Controller : \A i \in todo[c] :
          Advance(c, i) => \/ nm'[c] \in {nm[c], Finish(nm[c], i), failNode(nm[c], i)}
                           \/ HasNext(nm[c], i) /\ nm'[c] = Start(nm[c], i)
                           \/ /\ HasNext(nm[c], i) /\ nm'[c] = Complete(nm[c], i)
                              /\ NextAction(nm[c], i) = "Cordon" => Target(c, i) \in H2
                              /\ NextAction(nm[c], i) = "Script" => Target(c, i) \in Node
    BY <2>1, <2>2, DoneIsKept
  <2>5. AllSound(plan, H2, Node)'
    BY <2>3, <2>4, SoundStep
  <2>6. ScriptUnderWay'
    BY ScriptKept DEF FailInv
  <2>7. ASSUME NEW c \in Controller
        PROVE  /\ \A k \in DOMAIN watch'[c] : UpTo(watch'[c][k], obj')
               /\ InPass(c)' => \A i \in todo'[c] : KnownEntry(c, i)'
               /\ \A i \in todo'[c] :
                    At(c, "execute", i)' /\ seen'[c] = "cordoned" => Target(c, i)' \in Kept(plan)'
    BY <2>1, WatchUpTo, KnownKept, SeenKept DEF FailInv
  <2>8. QED  BY <2>2, <2>5, <2>6, <2>7 DEF FailInv
<1>3. TypeOK /\ FailInv(plan) /\ NoTwins => FailedScriptLeavesCordon
  BY FailedIsCordoned DEF FailedScriptLeavesCordon
<1>4. Spec => []RunInv
  BY RunKept
<1>5. QED  BY <1>1, <1>2, <1>3, <1>4, TypeCorrect, PTL DEF Spec
==============================================================================
