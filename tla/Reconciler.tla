------------------------------ MODULE Reconciler ------------------------------
(***************************************************************************)
(* The controller driving one NodeMaintenance: the API server's object,    *)
(* the informer cache that trails it, the reconcile worker with its        *)
(* in-memory copy, the runner pods and the nodes it acts on, and the       *)
(* people who edit the object or the cluster meanwhile.                    *)
(*                                                                         *)
(* One action is one API call together with the in-memory code up to the   *)
(* next call; between two calls anyone else may move.  Reading the cache   *)
(* is not a step of its own, because a later read of a cache that lags is  *)
(* the same as an earlier read.                                            *)
(***************************************************************************)
EXTENDS Orchestrator

CONSTANTS
  Controller,    \* the controller processes: one, or two across a rollout
  NoNM,          \* the worker holds no object
  TargetLists,   \* every list of node names a resolution may return
  InitialSpecs,  \* the specs the run may be created with
  ApplySpecs,    \* the specs an operator may apply over it
  EditKinds,     \* what people do while the run is under way
  KeepPods,      \* the --runner-keep-pods flag
  CapturesOutput, \* the run carries the output-configmap annotation
  MaxEdits,      \* bound: edits by people
  MaxFaults,     \* bound: crashes and failed status writes
  RunsCap        \* bound: script starts counted per node

ASSUME ReconcilerAssumption ==
  /\ NoNM \notin NMType
  /\ TargetLists \subseteq Seq(Node)
  /\ InitialSpecs \subseteq SpecType
  /\ ApplySpecs \subseteq SpecType
  /\ KeepPods \in BOOLEAN /\ CapturesOutput \in BOOLEAN
  /\ MaxEdits \in Nat /\ MaxFaults \in Nat /\ RunsCap \in Nat

VARIABLES
  obj,         \* the NodeMaintenance in the API server
  watch,       \* per controller: Head is the cached object, then what is on its way
  queued,      \* per controller: the work queue holds the object's key
  pc,          \* per controller: the call its worker is about to make
  nm,          \* per controller: the worker's copy of the object
  todo,        \* per controller: entries runActions has still to advance
  seen,        \* per controller: what its last read of a node or pod returned
  cordonedBy,  \* per node: "none" is schedulable, otherwise who cordoned it
  cm,          \* the body in the run's script ConfigMap
  pod,         \* per node: the run's runner pod
  runs,        \* history, per node: script starts, counted to RunsCap
  succeeded,   \* history: nodes on which a runner pod has succeeded
  edits,       \* edits so far
  faults       \* faults so far

worker == <<queued, pc, nm, todo, seen>>
cluster == <<cordonedBy, cm, pod, runs, succeeded>>
counters == <<edits, faults>>
vars == <<obj, watch, worker, cluster, counters>>

NoPod == [phase |-> "absent", body |-> NoScript]

PodType ==
  [phase : {"absent", "Pending", "Running", "Succeeded", "Failed"},
   body : Body \cup {NoScript}]

(* While an action is being executed, some entry is the next one to advance *)
(* and its plan has an action left.                                         *)
Busy == {"execute", "pod", "wait", "gc"}

WorkerConsistent(c) ==
  /\ nm[c] = NoNM <=> pc[c] = "idle"
  /\ todo[c] \subseteq (IF nm[c] = NoNM THEN {} ELSE DOMAIN nm[c].status.nodes)
  /\ pc[c] \in Busy =>
       \E i \in todo[c] : (\A j \in todo[c] : i <= j) /\ HasNext(nm[c], i)

StoreOK ==
  /\ obj \in NMType
  /\ watch \in [Controller -> Seq(NMType) \ {<<>>}]

WorkerOK ==
  /\ queued \in [Controller -> BOOLEAN]
  /\ pc \in [Controller -> {"idle", "seed", "step"} \cup Busy]
  /\ nm \in [Controller -> NMType \cup {NoNM}]
  /\ todo \in [Controller -> SUBSET Nat]
  /\ seen \in [Controller -> {"", "cordoned", "schedulable", "Succeeded", "Failed"}]
  /\ \A c \in Controller : WorkerConsistent(c)

ClusterOK ==
  /\ cordonedBy \in [Node -> {"none", "run", "operator"}]
  /\ cm \in Body \cup {NoScript}
  /\ pod \in [Node -> PodType]
  /\ runs \in [Node -> 0..RunsCap]
  /\ succeeded \subseteq Node

CountersOK == edits \in 0..MaxEdits /\ faults \in 0..MaxFaults

TypeOK == StoreOK /\ WorkerOK /\ ClusterOK /\ CountersOK

Init ==
  /\ obj \in {[rv |-> 1, spec |-> s, status |-> Unseeded] : s \in InitialSpecs}
  /\ watch = [c \in Controller |-> <<obj>>]
  /\ queued = [c \in Controller |-> TRUE]
  /\ pc = [c \in Controller |-> "idle"]
  /\ nm = [c \in Controller |-> NoNM]
  /\ todo = [c \in Controller |-> {}]
  /\ seen = [c \in Controller |-> ""]
  /\ cordonedBy = [n \in Node |-> "none"]
  /\ cm = NoScript
  /\ pod = [n \in Node |-> NoPod]
  /\ runs = [n \in Node |-> 0]
  /\ succeeded = {}
  /\ edits = 0
  /\ faults = 0

------------------------------------------------------------------------------
(* The API server and the watch.                                           *)

(* A write replaces the object, with the next resourceVersion, and is sent *)
(* to every watch.                                                         *)
Write(new) ==
  /\ obj' = [new EXCEPT !.rv = obj.rv + 1]
  /\ watch' = [c \in Controller |-> Append(watch[c], obj')]

(* A watch event reaches c: its cache moves on and its queue gets the key. *)
Deliver(c) ==
  /\ Len(watch[c]) > 1
  /\ watch' = [watch EXCEPT ![c] = Tail(@)]
  /\ queued' = [queued EXCEPT ![c] = TRUE]
  /\ UNCHANGED <<obj, pc, nm, todo, seen, cluster, counters>>

------------------------------------------------------------------------------
(* Reconcile, up to the first call of the step.                            *)

Cached(c) == Head(watch[c])

(* r.Get found the object, in whatever version the cache holds. *)
Picked(c) == pc[c] = "idle" /\ queued[c]

IsTerminal(o) == o.status.phase \in Terminal
IsUnseeded(o) == o.status = Unseeded

ReturnIfTerminal(c) ==
  /\ Picked(c)
  /\ IsTerminal(Cached(c))
  /\ queued' = [queued EXCEPT ![c] = FALSE]
  /\ UNCHANGED <<obj, watch, pc, nm, todo, seen, cluster, counters>>

(* Mutant of SeedStatus: seeding comes after the pause check. *)
SeedUnlessPaused(c) ==
  /\ Picked(c)
  /\ IsUnseeded(Cached(c))
  /\ ~Cached(c).spec.paused
  /\ \E names \in TargetLists :
       /\ ResolvesTo(Cached(c).spec, names)
       /\ nm' = [nm EXCEPT ![c] = [Cached(c) EXCEPT !.status = Seed(names)]]
  /\ pc' = [pc EXCEPT ![c] = "seed"]
  /\ queued' = [queued EXCEPT ![c] = FALSE]
  /\ UNCHANGED <<obj, watch, todo, seen, cluster, counters>>

(* The seeding fast path, which comes before the pause check.  A listing *)
(* that fails leaves the key queued and changes nothing.                 *)
SeedStatus(c) ==
  /\ Picked(c)
  /\ IsUnseeded(Cached(c))
  /\ \E names \in TargetLists :
       /\ ResolvesTo(Cached(c).spec, names)
       /\ nm' = [nm EXCEPT ![c] = [Cached(c) EXCEPT !.status = Seed(names)]]
  /\ pc' = [pc EXCEPT ![c] = "seed"]
  /\ queued' = [queued EXCEPT ![c] = FALSE]
  /\ UNCHANGED <<obj, watch, todo, seen, cluster, counters>>

(* EnsureScriptConfigMap on the way, when there is a script to render; its *)
(* errors are not fatal here.                                              *)
Render(o) ==
  IF o.spec.script = NoScript THEN UNCHANGED cm
  ELSE cm' \in {cm, o.spec.script}

(* Mutant of HoldPaused: the pause check comes before rendering. *)
HoldUnrendered(c) ==
  /\ Picked(c)
  /\ ~IsTerminal(Cached(c)) /\ ~IsUnseeded(Cached(c))
  /\ Cached(c).spec.paused
  /\ UNCHANGED vars

(* A paused run is rendered, put back in the queue and left alone. *)
HoldPaused(c) ==
  /\ Picked(c)
  /\ ~IsTerminal(Cached(c)) /\ ~IsUnseeded(Cached(c))
  /\ Cached(c).spec.paused
  /\ Render(Cached(c))
  /\ UNCHANGED <<obj, watch, worker, cordonedBy, pod, runs, succeeded, counters>>

(* Step begins: admit, then runActions over the entries in flight. *)
BeginStep(c) ==
  /\ Picked(c)
  /\ ~IsTerminal(Cached(c)) /\ ~IsUnseeded(Cached(c))
  /\ ~Cached(c).spec.paused
  /\ Render(Cached(c))
  /\ \E P \in SUBSET InPhase(Cached(c).status, "Pending") :
       /\ Admits(Cached(c), P)
       /\ nm' = [nm EXCEPT ![c] = Promote(Cached(c), P)]
       /\ todo' = [todo EXCEPT ![c] = InPhase(nm'[c].status, "InProgress")]
  /\ pc' = [pc EXCEPT ![c] = "step"]
  /\ queued' = [queued EXCEPT ![c] = FALSE]
  /\ UNCHANGED <<obj, watch, seen, cordonedBy, pod, runs, succeeded, counters>>

------------------------------------------------------------------------------
(* advanceNode, one entry after the other.                                 *)

(* c is at call p, working on entry i: the first one not yet advanced. *)
At(c, p, i) ==
  /\ pc[c] = p
  /\ i \in todo[c]
  /\ \A j \in todo[c] : i <= j

Target(c, i) == nm[c].status.nodes[i].name

(* The worker goes on to call p, holding o. *)
Continue(c, p, o) ==
  /\ pc' = [pc EXCEPT ![c] = p]
  /\ nm' = [nm EXCEPT ![c] = o]
  /\ UNCHANGED <<queued, todo>>

(* The worker is done with entry i and holds o. *)
Leave(c, i, o) ==
  /\ pc' = [pc EXCEPT ![c] = "step"]
  /\ nm' = [nm EXCEPT ![c] = o]
  /\ todo' = [todo EXCEPT ![c] = @ \ {i}]
  /\ seen' = [seen EXCEPT ![c] = ""]
  /\ UNCHANGED queued

Succeed(c, i) == Leave(c, i, Complete(nm[c], i))
Fail(c, i) == Leave(c, i, failNode(nm[c], i))

NothingLeft(c, i) ==
  /\ At(c, "step", i)
  /\ ~HasNext(nm[c], i)
  /\ Leave(c, i, Finish(nm[c], i))
  /\ UNCHANGED <<obj, watch, cluster, counters>>

(* Nodes().Get: the action will act on what is read here. *)
GetNode(c, i) ==
  /\ At(c, "step", i)
  /\ HasNext(nm[c], i)
  /\ Continue(c, "execute", Start(nm[c], i))
  /\ seen' = [seen EXCEPT ![c] =
       IF cordonedBy[Target(c, i)] = "none" THEN "schedulable" ELSE "cordoned"]
  /\ UNCHANGED <<obj, watch, cluster, counters>>

(* The node is gone, or the API server did not answer. *)
GetNodeFails(c, i) ==
  /\ At(c, "step", i)
  /\ HasNext(nm[c], i)
  /\ Fail(c, i)
  /\ UNCHANGED <<obj, watch, cluster, counters>>

Executing(c, i, action) == At(c, "execute", i) /\ NextAction(nm[c], i) = action

(* Mutants of Cordon and Uncordon: the guard of the other one. *)
CordonOnlyCordoned(c, i) ==
  /\ Executing(c, i, "Cordon")
  /\ cordonedBy' = IF seen[c] = "schedulable" THEN cordonedBy
                   ELSE [cordonedBy EXCEPT ![Target(c, i)] = "run"]
  /\ Succeed(c, i)
  /\ UNCHANGED <<obj, watch, cm, pod, runs, succeeded, counters>>

UncordonOnlySchedulable(c, i) ==
  /\ Executing(c, i, "Uncordon")
  /\ cordonedBy' = IF seen[c] = "cordoned" THEN cordonedBy
                   ELSE [cordonedBy EXCEPT ![Target(c, i)] = "none"]
  /\ Succeed(c, i)
  /\ UNCHANGED <<obj, watch, cm, pod, runs, succeeded, counters>>

(* Cordon patches the node, unless the node it was handed is cordoned. *)
Cordon(c, i) ==
  /\ Executing(c, i, "Cordon")
  /\ cordonedBy' = IF seen[c] = "cordoned" THEN cordonedBy
                   ELSE [cordonedBy EXCEPT ![Target(c, i)] = IF @ = "none" THEN "run" ELSE @]
  /\ Succeed(c, i)
  /\ UNCHANGED <<obj, watch, cm, pod, runs, succeeded, counters>>

(* Uncordon patches the node, unless the node it was handed is schedulable. *)
Uncordon(c, i) ==
  /\ Executing(c, i, "Uncordon")
  /\ cordonedBy' = IF seen[c] = "schedulable" THEN cordonedBy
                   ELSE [cordonedBy EXCEPT ![Target(c, i)] = "none"]
  /\ Succeed(c, i)
  /\ UNCHANGED <<obj, watch, cm, pod, runs, succeeded, counters>>

(* Drain waits until the node is empty; see Drain.tla for how. *)
Drain(c, i) ==
  /\ Executing(c, i, "Drain")
  /\ Succeed(c, i)
  /\ UNCHANGED <<obj, watch, cluster, counters>>

(* A patch that errors may have been applied; a drain may time out. *)
ExecuteFails(c, i) ==
  /\ \/ /\ Executing(c, i, "Cordon") /\ seen[c] = "schedulable"
        /\ cordonedBy' \in {cordonedBy, [cordonedBy EXCEPT ![Target(c, i)] =
                                           IF @ = "none" THEN "run" ELSE @]}
     \/ /\ Executing(c, i, "Uncordon") /\ seen[c] = "cordoned"
        /\ cordonedBy' \in {cordonedBy, [cordonedBy EXCEPT ![Target(c, i)] = "none"]}
     \/ Executing(c, i, "Drain") /\ UNCHANGED cordonedBy
  /\ Fail(c, i)
  /\ UNCHANGED <<obj, watch, cm, pod, runs, succeeded, counters>>

------------------------------------------------------------------------------
(* The Script action.                                                      *)

RequireScript(c, i) ==
  /\ Executing(c, i, "Script")
  /\ nm[c].spec.script = NoScript
  /\ Fail(c, i)
  /\ UNCHANGED <<obj, watch, cluster, counters>>

(* EnsureScriptConfigMap again, fatal this time. *)
PrepareScript(c, i) ==
  /\ Executing(c, i, "Script")
  /\ nm[c].spec.script # NoScript
  /\ cm' = nm[c].spec.script
  /\ Continue(c, "pod", nm[c])
  /\ UNCHANGED <<obj, watch, seen, cordonedBy, pod, runs, succeeded, counters>>

PrepareScriptFails(c, i) ==
  /\ Executing(c, i, "Script")
  /\ nm[c].spec.script # NoScript
  /\ cm' \in {cm, nm[c].spec.script}
  /\ Fail(c, i)
  /\ UNCHANGED <<obj, watch, cordonedBy, pod, runs, succeeded, counters>>

Created == [phase |-> "Pending", body |-> NoScript]

(* Mutant of EnsurePod: a finished pod is replaced by a new one. *)
EnsureFreshPod(c, i) ==
  /\ At(c, "pod", i)
  /\ pod' = IF pod[Target(c, i)].phase \in {"Pending", "Running"} THEN pod
            ELSE [pod EXCEPT ![Target(c, i)] = Created]
  /\ Continue(c, "wait", nm[c])
  /\ UNCHANGED <<obj, watch, seen, cordonedBy, cm, runs, succeeded, counters>>

(* Any pod of that name is taken as it is; otherwise one is created. *)
EnsurePod(c, i) ==
  /\ At(c, "pod", i)
  /\ pod' = IF pod[Target(c, i)].phase # "absent" THEN pod
            ELSE [pod EXCEPT ![Target(c, i)] = Created]
  /\ Continue(c, "wait", nm[c])
  /\ UNCHANGED <<obj, watch, seen, cordonedBy, cm, runs, succeeded, counters>>

EnsurePodFails(c, i) ==
  /\ At(c, "pod", i)
  /\ \/ UNCHANGED pod
     \/ /\ pod[Target(c, i)].phase = "absent"
        /\ pod' = [pod EXCEPT ![Target(c, i)] = Created]
  /\ Fail(c, i)
  /\ UNCHANGED <<obj, watch, cordonedBy, cm, runs, succeeded, counters>>

(* Mutant of WaitForPod: a pod that is gone counts as done. *)
WaitForPodGone(c, i) ==
  /\ At(c, "wait", i)
  /\ pod[Target(c, i)].phase \in {"Succeeded", "Failed", "absent"}
  /\ seen' = [seen EXCEPT ![c] =
       IF pod[Target(c, i)].phase = "Failed" THEN "Failed" ELSE "Succeeded"]
  /\ Continue(c, "gc", nm[c])
  /\ UNCHANGED <<obj, watch, cluster, counters>>

WaitForPod(c, i) ==
  /\ At(c, "wait", i)
  /\ pod[Target(c, i)].phase \in {"Succeeded", "Failed"}
  /\ seen' = [seen EXCEPT ![c] = pod[Target(c, i)].phase]
  /\ Continue(c, "gc", nm[c])
  /\ UNCHANGED <<obj, watch, cluster, counters>>

(* Mutant of WaitForPodFails: no deadline, only a failing read ends the wait. *)
WaitForPodForever(c, i) ==
  /\ At(c, "wait", i)
  /\ pod[Target(c, i)].phase = "absent"
  /\ Fail(c, i)
  /\ UNCHANGED <<obj, watch, cluster, counters>>

(* The deadline passes or a read fails, which a missing pod makes certain: *)
(* the action fails and the pod stays as it is.                            *)
WaitForPodFails(c, i) ==
  /\ At(c, "wait", i)
  /\ Fail(c, i)
  /\ UNCHANGED <<obj, watch, cluster, counters>>

(* Mutant of GcPod: the outcome of the pod is not looked at. *)
GcPodSucceeds(c, i) ==
  /\ At(c, "gc", i)
  /\ \/ UNCHANGED pod
     \/ ~KeepPods /\ pod' = [pod EXCEPT ![Target(c, i)] = NoPod]
  /\ Succeed(c, i)
  /\ UNCHANGED <<obj, watch, cordonedBy, cm, runs, succeeded, counters>>

(* Capturing the output if asked to, which may fail the action; then gcPod, *)
(* whose errors are ignored, and the outcome of the pod that was read.      *)
GcPod(c, i) ==
  /\ At(c, "gc", i)
  /\ \/ UNCHANGED pod
     \/ ~KeepPods /\ pod' = [pod EXCEPT ![Target(c, i)] = NoPod]
  /\ \/ seen[c] = "Succeeded" /\ Succeed(c, i)
     \/ (seen[c] = "Failed" \/ CapturesOutput) /\ Fail(c, i)
  /\ UNCHANGED <<obj, watch, cordonedBy, cm, runs, succeeded, counters>>

------------------------------------------------------------------------------
(* Status().Update, which ends every pass that did something.              *)

Persisting(c) == pc[c] = "seed" \/ (pc[c] = "step" /\ todo[c] = {})

(* Step's rollup has run by then; seeding has set the phase already. *)
Written(c) == IF pc[c] = "seed" THEN nm[c] ELSE rollup(nm[c])

(* Mutant of EndPass: a pass that has to be retried is not queued again. *)
EndPassForgetful(c, requeue) ==
  /\ pc' = [pc EXCEPT ![c] = "idle"]
  /\ nm' = [nm EXCEPT ![c] = NoNM]
  /\ todo' = [todo EXCEPT ![c] = {}]
  /\ seen' = [seen EXCEPT ![c] = ""]
  /\ UNCHANGED queued

EndPass(c, requeue) ==
  /\ pc' = [pc EXCEPT ![c] = "idle"]
  /\ nm' = [nm EXCEPT ![c] = NoNM]
  /\ todo' = [todo EXCEPT ![c] = {}]
  /\ seen' = [seen EXCEPT ![c] = ""]
  /\ queued' = [queued EXCEPT ![c] = @ \/ requeue]

(* Mutant of IsCurrent: the status is written whatever the stored version. *)
IsCurrentUnchecked(c) == TRUE

IsCurrent(c) == nm[c].rv = obj.rv

(* Only the status subresource is written.  Only a step that ended the run *)
(* does not ask to be queued again, and a delayed request of an earlier    *)
(* pass may still be to come.                                              *)
UpdateStatus(c) ==
  /\ Persisting(c)
  /\ IsCurrent(c)
  /\ Write([obj EXCEPT !.status = Written(c).status])
  /\ \E late \in BOOLEAN :
       EndPass(c, late \/ pc[c] = "seed" \/ ~IsTerminal(Written(c)))
  /\ UNCHANGED <<cluster, counters>>

(* Optimistic concurrency: what this pass recorded in memory is dropped. *)
UpdateConflicts(c) ==
  /\ Persisting(c)
  /\ ~IsCurrent(c)
  /\ EndPass(c, TRUE)
  /\ UNCHANGED <<obj, watch, cluster, counters>>

(* Any other error is retried; the write may have gone through. *)
UpdateFails(c) ==
  /\ faults < MaxFaults
  /\ faults' = faults + 1
  /\ Persisting(c)
  /\ \/ UNCHANGED <<obj, watch>>
     \/ IsCurrent(c) /\ Write([obj EXCEPT !.status = Written(c).status])
  /\ EndPass(c, TRUE)
  /\ UNCHANGED <<cluster, edits>>

(* The process dies and starts again: memory is lost, the cache is listed *)
(* afresh and every object queued.                                        *)
Crash(c) ==
  /\ faults < MaxFaults
  /\ faults' = faults + 1
  /\ pc' = [pc EXCEPT ![c] = "idle"]
  /\ nm' = [nm EXCEPT ![c] = NoNM]
  /\ todo' = [todo EXCEPT ![c] = {}]
  /\ seen' = [seen EXCEPT ![c] = ""]
  /\ watch' = [watch EXCEPT ![c] = <<obj>>]
  /\ queued' = [queued EXCEPT ![c] = TRUE]
  /\ UNCHANGED <<obj, cluster, edits>>

------------------------------------------------------------------------------
(* The kubelet and the pod's containers.                                   *)

(* The container starts with the body the ConfigMap holds at that moment. *)
StartPod(n) ==
  /\ pod[n].phase = "Pending"
  /\ cm # NoScript
  /\ pod' = [pod EXCEPT ![n] = [phase |-> "Running", body |-> cm]]
  /\ runs' = [runs EXCEPT ![n] = IF @ < RunsCap THEN @ + 1 ELSE @]
  /\ UNCHANGED <<obj, watch, worker, cordonedBy, cm, succeeded, counters>>

(* A pod may also fail before its container starts. *)
FinishPod(n) ==
  /\ \/ /\ pod[n].phase = "Running"
        /\ pod' = [pod EXCEPT ![n].phase = "Succeeded"]
        /\ succeeded' = succeeded \cup {n}
     \/ /\ pod[n].phase \in {"Pending", "Running"}
        /\ pod' = [pod EXCEPT ![n].phase = "Failed"]
        /\ UNCHANGED succeeded
  /\ UNCHANGED <<obj, watch, worker, cordonedBy, cm, runs, counters>>

------------------------------------------------------------------------------
(* People: kubectl nm, and kubectl on the nodes and pods.                  *)

Edit(kind) ==
  /\ kind \in EditKinds
  /\ edits < MaxEdits
  /\ edits' = edits + 1
  /\ UNCHANGED <<worker, faults>>

(* A patch or an update of the spec: one that changes nothing is no write. *)
EditSpec(kind, spec) ==
  /\ Edit(kind)
  /\ spec # obj.spec
  /\ Write([obj EXCEPT !.spec = spec])
  /\ UNCHANGED cluster

HasScript(spec) == spec.script \notin {NoScript, Empty}

Pause == EditSpec("pause", [obj.spec EXCEPT !.paused = TRUE])

(* run reads the object to look for a script, and then sends a patch that    *)
(* carries no version: in between another edit may have taken it away again. *)
Run ==
  /\ HasScript(obj.spec) \/ edits > 0
  /\ EditSpec("run", [obj.spec EXCEPT !.paused = FALSE])

Attach(b) == EditSpec("attach", [obj.spec EXCEPT !.script = b])
Apply(spec) == EditSpec("apply", spec)

EditNode(n, from, to) ==
  /\ Edit("node")
  /\ (cordonedBy[n] = "none") = (from = "none")
  /\ cordonedBy' = [cordonedBy EXCEPT ![n] = to]
  /\ UNCHANGED <<obj, watch, cm, pod, runs, succeeded>>

OperatorCordon(n) == EditNode(n, "none", "operator")
OperatorUncordon(n) == EditNode(n, "cordoned", "none")

DeletePod(n) ==
  /\ Edit("pod")
  /\ pod[n].phase # "absent"
  /\ pod' = [pod EXCEPT ![n] = NoPod]
  /\ UNCHANGED <<obj, watch, cordonedBy, cm, runs, succeeded>>

------------------------------------------------------------------------------
Advance(c, i) ==
  \/ NothingLeft(c, i) \/ GetNode(c, i) \/ GetNodeFails(c, i)
  \/ Cordon(c, i) \/ Uncordon(c, i) \/ Drain(c, i) \/ ExecuteFails(c, i)
  \/ RequireScript(c, i) \/ PrepareScript(c, i) \/ PrepareScriptFails(c, i)
  \/ EnsurePod(c, i) \/ EnsurePodFails(c, i)
  \/ WaitForPod(c, i) \/ WaitForPodFails(c, i) \/ GcPod(c, i)

Reconcile(c) ==
  \/ ReturnIfTerminal(c) \/ SeedStatus(c) \/ HoldPaused(c) \/ BeginStep(c)
  \/ \E i \in todo[c] : Advance(c, i)
  \/ UpdateStatus(c) \/ UpdateConflicts(c)

Kubelet == \E n \in Node : StartPod(n) \/ FinishPod(n)

Fault == \E c \in Controller : UpdateFails(c) \/ Crash(c)

People ==
  \/ Pause \/ Run
  \/ \E b \in Body : Attach(b)
  \/ \E s \in ApplySpecs : Apply(s)
  \/ \E n \in Node : OperatorCordon(n) \/ OperatorUncordon(n) \/ DeletePod(n)

Next ==
  \/ \E c \in Controller : Reconcile(c) \/ Deliver(c)
  \/ Kubelet
  \/ Fault
  \/ People

(* The worker keeps taking keys off its queue and every call returns: the *)
(* client has timeouts and every wait in the code has a deadline.  The    *)
(* watch delivers in the end.  Nothing is assumed of pods or of people.   *)
Fairness == \A c \in Controller : WF_vars(Reconcile(c)) /\ WF_vars(Deliver(c))

Spec == Init /\ [][Next]_vars
FairSpec == Spec /\ Fairness
==============================================================================
